----------------------------- MODULE LedgerSpec -----------------------------
(***************************************************************************)
(* What the finance module promises its callers: wallets, escrows and the  *)
(* journal of transactions change by whole operations.  There is no        *)
(* request in progress here, no row lock and no half-written transaction.  *)
(* Ledger.tla, which follows the code statement by statement, is shown to  *)
(* implement this module.                                                  *)
(***************************************************************************)
EXTENDS Integers

CONSTANTS
  Reqs,      \* identities of operations; an escrow is named after its own
  Users,     \* ids with a row in users
  Wallets,   \* users with a row in wallets
  Amounts,   \* amounts a caller may name
  Opening,   \* opening balance of each wallet
  NoEscrow,  \* what the escrow table holds for an id never inserted
  NoRef      \* the empty reference of a transfer

VARIABLES balance, escrow, journal

vars == <<balance, escrow, journal>>

(* A committed operation leaves its own mark once.                         *)
Fresh(r) == escrow[r] = NoEscrow /\ \A row \in journal : row.id # r

Move(f, u, v, a) ==
  [w \in Wallets |-> f[w] + (IF w = v THEN a ELSE 0) - (IF w = u THEN a ELSE 0)]

Init ==
  /\ balance = Opening
  /\ escrow = [e \in Reqs |-> NoEscrow]
  /\ journal = {}

Transfer(r, u, v, a) ==
  /\ Fresh(r)
  /\ u \in Wallets /\ v \in Wallets
  /\ a > 0 /\ balance[u] >= a
  /\ balance' = Move(balance, u, v, a)
  /\ journal' = journal \cup
       {[id |-> r, from |-> u, to |-> v, amount |-> a, type |-> "transfer", ref |-> NoRef]}
  /\ UNCHANGED escrow

Reserve(r, u, s, a) ==
  /\ Fresh(r)
  /\ u \in Wallets /\ s \in Users
  /\ a > 0 /\ balance[u] >= a
  /\ balance' = [balance EXCEPT ![u] = @ - a]
  /\ escrow' = [escrow EXCEPT ![r] =
                  [status |-> "held", buyer |-> u, seller |-> s, amount |-> a]]
  /\ UNCHANGED journal

(* A held escrow leaves its state once, and pays one party.                *)
Settle(r, e, status, type, from, to) ==
  /\ Fresh(r)
  /\ escrow[e].status = "held"
  /\ to \in Wallets /\ from \in Wallets
  /\ escrow' = [escrow EXCEPT ![e].status = status]
  /\ balance' = [balance EXCEPT ![to] = @ + escrow[e].amount]
  /\ journal' = journal \cup
       {[id |-> r, from |-> from, to |-> to, amount |-> escrow[e].amount,
         type |-> type, ref |-> e]}

Release(r, e) ==
  Settle(r, e, "released", "escrow_release", escrow[e].buyer, escrow[e].seller)

Refund(r, e) ==
  Settle(r, e, "refunded", "escrow_refund", escrow[e].seller, escrow[e].buyer)

Next ==
  \E r \in Reqs :
    \/ \E u, v \in Wallets, a \in Amounts : Transfer(r, u, v, a)
    \/ \E u \in Wallets, s \in Users, a \in Amounts : Reserve(r, u, s, a)
    \/ \E e \in Reqs : Release(r, e) \/ Refund(r, e)

Spec == Init /\ [][Next]_vars
=============================================================================
