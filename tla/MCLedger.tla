------------------------------ MODULE MCLedger ------------------------------
(***************************************************************************)
(* Small instances of Ledger: two wallets, a user without a wallet, a name *)
(* that spells a wallet owner differently and one that spells nobody.      *)
(***************************************************************************)
EXTENDS Ledger, TLC

CONSTANTS r1, r2, r3, ann, bob, eve, Ann, bad

MCReqs == {r1, r2, r3}
MCWallets == {ann, bob}
MCUsers == {ann, bob, eve}
MCNames == {ann, bob, eve, Ann, bad}
MCParse == (ann :> ann) @@ (bob :> bob) @@ (eve :> eve) @@ (Ann :> ann) @@ (bad :> NoId)
MCAmounts == -1 .. 3
MCOpening == (ann :> 2) @@ (bob :> 1)

Pay(u, v, a) == [kind |-> "transfer", actor |-> u, peer |-> v, amount |-> a, escrow |-> r1]
Open(u, v, a) == [kind |-> "create", actor |-> u, peer |-> v, amount |-> a, escrow |-> r1]
Close(k, u, e) == [kind |-> k, actor |-> u, peer |-> ann, amount |-> 1, escrow |-> e]

(* Transfers in both directions, to oneself under another spelling, and to *)
(* a user without a wallet.                                                *)
TransferCalls ==
  {Pay(ann, bob, 1), Pay(ann, bob, 2), Pay(bob, ann, 1), Pay(ann, Ann, 1), Pay(bob, eve, 1)}

(* Calls that end before their transaction.                                *)
RefusedCalls ==
  {Pay(ann, ann, 1), Pay(bob, bad, 1), Pay(ann, bob, 0), Open(ann, bob, 3)}

(* Escrows, one for a seller without a wallet, and what can be done to the *)
(* first request's by anyone.                                              *)
EscrowCalls ==
  {Open(ann, bob, 2), Open(ann, eve, 1)}
    \cup {Close(k, u, r1) : k \in {"release", "refund"}, u \in MCUsers}

MCCalls == TransferCalls \cup RefusedCalls \cup EscrowCalls
=============================================================================
