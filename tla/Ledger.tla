------------------------------- MODULE Ledger -------------------------------
(***************************************************************************)
(* backend/internal/modules/finance: tips, transfers, unlocks and escrows. *)
(*                                                                         *)
(* Every HTTP request runs in a goroutine of its own: the service checks   *)
(* its arguments (and, for an escrow, reads the row without a lock), then  *)
(* the repository opens a PostgreSQL transaction and sends it one          *)
(* statement at a time.  The transaction runs at READ COMMITTED: a         *)
(* statement sees what is committed when it runs, an UPDATE takes the lock *)
(* of the row it changes and keeps it until COMMIT or ROLLBACK, and        *)
(* evaluates its WHERE on the row as it is once the lock is its own.       *)
(*                                                                         *)
(* balance, escrow and journal are the committed tables; tx[r] is what the *)
(* open transaction of request r has written and nobody else sees yet.     *)
(***************************************************************************)
EXTENDS Integers, FiniteSets, Functions

CONSTANTS
  Reqs,      \* HTTP requests; an escrow is named after the one that creates it
  Names,     \* strings a caller may give for a user, in every spelling
  Ids,       \* UUIDs
  Users,     \* UUIDs with a row in users, each also its own canonical name
  Wallets,   \* users with a row in wallets: nothing in the code inserts one
  Amounts,   \* amounts a caller may name, the senseless ones included
  MaxInt32,  \* the largest amount of an escrow_records column
  Parse,     \* parseFinanceUUID: the UUID a name spells, or NoId
  Opening,   \* opening balances
  Calls,     \* the calls clients may make
  NoId, NoLock

Kinds == {"transfer", "create", "release", "refund"}

CallType == [kind : Kinds, actor : Users, peer : Names, amount : Amounts, escrow : Reqs]

ASSUME LedgerAssumption ==
  /\ IsFiniteSet(Wallets)
  /\ Wallets \subseteq Users /\ Users \subseteq Ids /\ Users \subseteq Names
  /\ NoId \notin Ids \cup Reqs /\ NoLock \notin Reqs
  /\ Amounts \subseteq Int /\ MaxInt32 \in Nat
  /\ Parse \in [Names -> Ids \cup {NoId}]
  /\ \A u \in Users : Parse[u] = u
  /\ Opening \in [Wallets -> Nat]
  /\ Calls \subseteq CallType /\ Calls # {}

VARIABLES
  balance,  \* wallets.balance
  escrow,   \* escrow_records
  journal,  \* transactions
  walletLock, escrowLock,  \* the transaction that holds the lock of a row
  call,     \* the call each request carries
  pc,       \* the statement each request sends next
  tx        \* uncommitted writes of each request

tables == <<balance, escrow, journal>>
vars == <<tables, walletLock, escrowLock, call, pc, tx>>

NoEscrow == [status |-> "none", buyer |-> NoId, seller |-> NoId, amount |-> 0]
NoWrites == [delta |-> [w \in Wallets |-> 0], row |-> NoEscrow, entries |-> {}]

InTx(r) == pc[r] \in {"debit", "settle", "credit", "record", "commit"}
Ended(r) == pc[r] \in {"ok", "failed"}

(* What a request works on.  A settlement knows the parties and the amount *)
(* from the RETURNING clause of its first statement.                       *)
Settlement(r) == call[r].kind \in {"release", "refund"}
Target(r) == IF Settlement(r) THEN call[r].escrow ELSE r
Amount(r) == IF Settlement(r) THEN tx[r].row.amount ELSE call[r].amount
Payee(r) ==
  IF Settlement(r)
  THEN IF call[r].kind = "release" THEN tx[r].row.seller ELSE tx[r].row.buyer
  ELSE Parse[call[r].peer]
Payer(r) ==
  IF Settlement(r)
  THEN IF call[r].kind = "release" THEN tx[r].row.buyer ELSE tx[r].row.seller
  ELSE call[r].actor

(* Mutant: an early return without the deferred rollback.                 *)
UnlockNothing(r) == UNCHANGED <<walletLock, escrowLock>>

FreeFor(r, holder) == holder \in {NoLock, r}

Unlock(r) ==
  /\ walletLock' = [w \in Wallets |-> IF walletLock[w] = r THEN NoLock ELSE walletLock[w]]
  /\ escrowLock' = [e \in Reqs |-> IF escrowLock[e] = r THEN NoLock ELSE escrowLock[e]]

Init ==
  /\ balance = Opening
  /\ escrow = [e \in Reqs |-> NoEscrow]
  /\ journal = {}
  /\ walletLock = [w \in Wallets |-> NoLock]
  /\ escrowLock = [e \in Reqs |-> NoLock]
  /\ call = [r \in Reqs |-> CHOOSE c \in Calls : TRUE]
  /\ pc = [r \in Reqs |-> "idle"]
  /\ tx = [r \in Reqs |-> NoWrites]

-----------------------------------------------------------------------------
(* Before the transaction                                                  *)

(* Mutant: the amount is not checked.                                     *)
AcceptableAnyAmount(c) ==
  /\ c.actor # c.peer /\ Parse[c.peer] # NoId
  /\ c.kind = "create" => c.amount <= MaxInt32

(* The checks of service and repository that end before BEGIN.             *)
Acceptable(c) ==
  /\ c.amount > 0
  /\ c.actor # c.peer
  /\ Parse[c.peer] # NoId
  /\ c.kind = "create" => c.amount <= MaxInt32

(* The unlocked read of the service: right caller, status still held.      *)
MaySettle(c) ==
  LET e == escrow[c.escrow]
  IN  /\ e.status = "held"
      /\ c.actor = (IF c.kind = "release" THEN e.buyer ELSE e.seller)

Enters(c) == IF c.kind \in {"release", "refund"} THEN MaySettle(c) ELSE Acceptable(c)
First(c) == IF c.kind \in {"release", "refund"} THEN "settle" ELSE "debit"

Submit(r, c) ==
  /\ pc[r] = "idle"
  /\ call' = [call EXCEPT ![r] = c]
  /\ pc' = [pc EXCEPT ![r] = IF Enters(c) THEN First(c) ELSE "failed"]
  /\ UNCHANGED <<tables, walletLock, escrowLock, tx>>

-----------------------------------------------------------------------------
(* Statements                                                              *)

(* The deferred tx.Rollback after an error return, or PostgreSQL's own.    *)
Rollback(r) ==
  /\ tx' = [tx EXCEPT ![r] = NoWrites]
  /\ Unlock(r)
  /\ pc' = [pc EXCEPT ![r] = "failed"]
  /\ UNCHANGED <<tables, call>>

(* Mutant: the UPDATE has lost AND balance >= $2.                         *)
CoversAny(r) == call[r].actor \in Wallets

Covers(r) == call[r].actor \in Wallets /\ balance[call[r].actor] >= call[r].amount

(* UPDATE wallets SET balance = balance - $2 WHERE ... AND balance >= $2   *)
Debit(r) ==
  /\ pc[r] = "debit" /\ Covers(r)
  /\ FreeFor(r, walletLock[call[r].actor])
  /\ walletLock' = [walletLock EXCEPT ![call[r].actor] = r]
  /\ tx' = [tx EXCEPT ![r].delta[call[r].actor] = @ - call[r].amount]
  /\ pc' = [pc EXCEPT ![r] = IF call[r].kind = "create" THEN "record" ELSE "credit"]
  /\ UNCHANGED <<tables, escrowLock, call>>

(* No row satisfies the WHERE: pgx.ErrNoRows, with nothing to wait for.    *)
DebitMiss(r) == pc[r] = "debit" /\ ~Covers(r) /\ Rollback(r)

(* Mutant: the UPDATE has lost AND status = 'held'.                       *)
StillThere(e) == escrow[e].status # "none"

StillHeld(e) == escrow[e].status = "held"
Outcome(c) == IF c.kind = "release" THEN "released" ELSE "refunded"

(* UPDATE escrow_records SET status = ... WHERE id = $1 AND status = 'held' *)
SettleRow(r) ==
  LET e == call[r].escrow
  IN  /\ pc[r] = "settle" /\ StillHeld(e)
      /\ FreeFor(r, escrowLock[e])
      /\ escrowLock' = [escrowLock EXCEPT ![e] = r]
      /\ tx' = [tx EXCEPT ![r].row = [escrow[e] EXCEPT !.status = Outcome(call[r])]]
      /\ pc' = [pc EXCEPT ![r] = "credit"]
      /\ UNCHANGED <<tables, walletLock, call>>

SettleMiss(r) == pc[r] = "settle" /\ ~StillHeld(call[r].escrow) /\ Rollback(r)

(* UPDATE wallets SET balance = balance + $2 WHERE user_id = $1            *)
Credit(r) ==
  /\ pc[r] = "credit" /\ Payee(r) \in Wallets
  /\ FreeFor(r, walletLock[Payee(r)])
  /\ walletLock' = [walletLock EXCEPT ![Payee(r)] = r]
  /\ tx' = [tx EXCEPT ![r].delta[Payee(r)] = @ + Amount(r)]
  /\ pc' = [pc EXCEPT ![r] = "record"]
  /\ UNCHANGED <<tables, escrowLock, call>>

CreditMiss(r) == pc[r] = "credit" /\ Payee(r) \notin Wallets /\ Rollback(r)

(* Foreign keys of the row to insert: both columns of transactions         *)
(* reference wallets, the seller of escrow_records references users.       *)
Referenced(r) ==
  IF call[r].kind = "create" THEN Payee(r) \in Users
                             ELSE Payer(r) \in Wallets /\ Payee(r) \in Wallets

EntryType(c) ==
  IF c.kind \in {"release", "refund"}
  THEN IF c.kind = "release" THEN "escrow_release" ELSE "escrow_refund"
  ELSE "transfer"

(* Mutant: the two sides of the journal row are swapped.                  *)
EntrySwapped(r) ==
  [id |-> r, from |-> Payee(r), to |-> Payer(r), amount |-> Amount(r),
   type |-> EntryType(call[r]),
   ref |-> IF Settlement(r) THEN call[r].escrow ELSE NoId]

Entry(r) ==
  [id |-> r, from |-> Payer(r), to |-> Payee(r), amount |-> Amount(r),
   type |-> EntryType(call[r]),
   ref |-> IF Settlement(r) THEN call[r].escrow ELSE NoId]

(* INSERT INTO escrow_records or INSERT INTO transactions                  *)
Record(r) ==
  /\ pc[r] = "record" /\ Referenced(r)
  /\ tx' = IF call[r].kind = "create"
           THEN [tx EXCEPT ![r].row = [status |-> "held", buyer |-> call[r].actor,
                                       seller |-> Payee(r), amount |-> Amount(r)]]
           ELSE [tx EXCEPT ![r].entries = @ \cup {Entry(r)}]
  /\ pc' = [pc EXCEPT ![r] = "commit"]
  /\ UNCHANGED <<tables, walletLock, escrowLock, call>>

RecordMiss(r) == pc[r] = "record" /\ ~Referenced(r) /\ Rollback(r)

(* COMMIT.  The connection may break between the commit and its answer:    *)
(* the caller then reads an error for a transaction that took effect.      *)
Commit(r, answer) ==
  /\ pc[r] = "commit"
  /\ balance' = [w \in Wallets |-> balance[w] + tx[r].delta[w]]
  /\ escrow' = IF tx[r].row = NoEscrow THEN escrow
               ELSE [escrow EXCEPT ![Target(r)] = tx[r].row]
  /\ journal' = journal \cup tx[r].entries
  /\ tx' = [tx EXCEPT ![r] = NoWrites]
  /\ Unlock(r)
  /\ pc' = [pc EXCEPT ![r] = answer]
  /\ UNCHANGED call

(* A lost connection, a failed statement or a crash of the process.        *)
Abort(r) == InTx(r) /\ Rollback(r)

-----------------------------------------------------------------------------
(* Waiting                                                                 *)

(* t holds the row that the next statement of s has to lock.               *)
Blocks(t, s) ==
  \/ pc[s] = "debit" /\ Covers(s) /\ walletLock[call[s].actor] = t
  \/ pc[s] = "settle" /\ StillHeld(call[s].escrow) /\ escrowLock[call[s].escrow] = t
  \/ pc[s] = "credit" /\ Payee(s) \in Wallets /\ walletLock[Payee(s)] = t

(* A waiter has one holder to wait for, so a set in which everyone waits   *)
(* for a member and is waited for by one is made of cycles.                *)
Deadlocked(r) ==
  \E S \in SUBSET Reqs :
    /\ r \in S
    /\ \A s \in S : \E t \in S \ {s} : Blocks(t, s)
    /\ \A s \in S : \E t \in S \ {s} : Blocks(s, t)

(* PostgreSQL's detector makes one transaction of the cycle fail.          *)
DetectDeadlock(r) == Deadlocked(r) /\ Rollback(r)

Step(r) ==
  \/ Debit(r) \/ DebitMiss(r)
  \/ SettleRow(r) \/ SettleMiss(r)
  \/ Credit(r) \/ CreditMiss(r)
  \/ Record(r) \/ RecordMiss(r)
  \/ Commit(r, "ok")
  \/ DetectDeadlock(r)

Finished == (\A r \in Reqs : Ended(r)) /\ UNCHANGED vars

Next ==
  \/ \E r \in Reqs, c \in Calls : Submit(r, c)
  \/ \E r \in Reqs : Step(r) \/ Commit(r, "failed") \/ Abort(r)
  \/ Finished

Spec == Init /\ [][Next]_vars

(* A request that has begun goes on: PostgreSQL executes its statements,   *)
(* grants a lock that is free, and its deadlock detector runs.             *)
FairSpec == Spec /\ \A r \in Reqs : WF_vars(Step(r))

-----------------------------------------------------------------------------
(* Correctness                                                             *)

RowType == [status : {"none", "held", "released", "refunded"},
            buyer : Ids \cup {NoId}, seller : Ids \cup {NoId}, amount : Int]

EntryRowType == [id : Reqs, from : Wallets, to : Wallets, amount : Int,
                 type : {"transfer", "escrow_release", "escrow_refund"},
                 ref : Reqs \cup {NoId}]

TxType == [delta : [Wallets -> Int], row : RowType, entries : SUBSET EntryRowType]

(* Type invariant.  The journal holds rows whose two sides have a wallet:  *)
(* what the foreign keys of transactions demand of transfer, release and   *)
(* refund alike.                                                           *)
TypeOK ==
  /\ balance \in [Wallets -> Int]
  /\ escrow \in [Reqs -> RowType]
  /\ journal \subseteq EntryRowType
  /\ walletLock \in [Wallets -> Reqs \cup {NoLock}]
  /\ escrowLock \in [Reqs -> Reqs \cup {NoLock}]
  /\ call \in [Reqs -> Calls]
  /\ pc \in [Reqs -> {"idle", "debit", "settle", "credit", "record", "commit",
                      "ok", "failed"}]
  /\ tx \in [Reqs -> TxType]

(* No wallet is ever overdrawn, whatever requests spend from it at once:   *)
(* wallets.balance has no CHECK, so only the WHERE of the debit prevents   *)
(* it.                                                                     *)
NoOverdraft == \A w \in Wallets : balance[w] >= 0

Settlements(e) == {row \in journal : row.ref = e}
Settled(e) == escrow[e].status \in {"released", "refunded"}

PaidAsSaid(e, row) ==
  /\ row.amount = escrow[e].amount
  /\ \/ /\ escrow[e].status = "released"
        /\ row.to = escrow[e].seller /\ call[row.id].actor = escrow[e].buyer
     \/ /\ escrow[e].status = "refunded"
        /\ row.to = escrow[e].buyer /\ call[row.id].actor = escrow[e].seller

OneSettlement(e) ==
  /\ \A a, b \in Settlements(e) : a = b
  /\ Settled(e) <=> Settlements(e) # {}
  /\ \A row \in Settlements(e) : PaidAsSaid(e, row)

(* An escrow pays out at most once and to one party, and its row says      *)
(* which: a release racing a refund, or two releases that both passed the  *)
(* unlocked check of the service, leave one journal row.                   *)
SettledOnce == \A e \in Reqs : OneSettlement(e)

(* Money is neither made nor lost: what left the wallets is in held        *)
(* escrows, at every point of every interleaving, aborts included.         *)
Conservation ==
  SumFunction(balance)
    + SumFunctionOnSet([e \in Reqs |-> escrow[e].amount],
                       {e \in Reqs : escrow[e].status = "held"})
    = SumFunction(Opening)

Flow(rows) == LET amount[row \in rows] == row.amount IN SumFunction(amount)

(* What a reader of a wallet's history can recompute.  A reservation       *)
(* writes no row in transactions, and a refund's row names the seller as   *)
(* its sender although nothing left the seller's wallet: the balance is    *)
(* the opening one plus every row received, minus transfers sent and       *)
(* escrows opened, and not what the rows alone say.                        *)
JournalExplainsBalances ==
  \A w \in Wallets :
    balance[w] = Opening[w]
      + Flow({row \in journal : row.to = w})
      - Flow({row \in journal : row.from = w /\ row.type = "transfer"})
      - SumFunctionOnSet([e \in Reqs |-> escrow[e].amount],
                         {e \in Reqs : escrow[e].buyer = w})

(* An answer "ok" is durable and stands for exactly one effect.            *)
AnswerIsRecorded ==
  \A r \in Reqs : pc[r] = "ok" =>
    IF call[r].kind = "create"
    THEN escrow[r].status # "none" /\ escrow[r].buyer = call[r].actor
    ELSE Cardinality({row \in journal : row.id = r}) = 1

(* The books agree: money is neither made nor lost, every wallet's balance *)
(* follows from the journal and the escrows, and an answer "ok" is one     *)
(* entry of them.                                                          *)
BooksBalance == Conservation /\ JournalExplainsBalances /\ AnswerIsRecorded

(* A buyer can open an escrow in favour of a seller who has no wallet;     *)
(* release then finds no row to credit and refund breaks the foreign key   *)
(* of its own journal row, so that escrow stays held.                      *)
OnlyWalletSellersAreSettled ==
  \A e \in Reqs : Settled(e) => escrow[e].seller \in Wallets

(* Every request that reached the database is answered: transfers that     *)
(* lock two wallets in opposite orders are cut by the deadlock detector    *)
(* and every way out of a transaction gives its locks back.                *)
EveryRequestEnds == \A r \in Reqs : InTx(r) ~> Ended(r)

(* Request by request, the statements add up to the whole operations of    *)
(* LedgerSpec.                                                             *)
Promise == INSTANCE LedgerSpec WITH Amounts <- {a \in Amounts : a > 0}, NoRef <- NoId
ImplementsPromise == Promise!Spec
-----------------------------------------------------------------------------
(* The inductive invariant behind the theorems of LedgerProofs             *)

Credited(r) == call[r].kind # "create" /\ pc[r] \in {"record", "commit"}
Active(r) == pc[r] \in {"credit", "record", "commit"}

Authorised(r) ==
  LET e == escrow[call[r].escrow]
  IN  e.status # "none"
      /\ call[r].actor = (IF call[r].kind = "release" THEN e.buyer ELSE e.seller)

(* What the statements executed so far have changed in the wallets.        *)
DeltaOf(r) ==
  [w \in Wallets |->
     (IF Credited(r) /\ w = Payee(r) THEN Amount(r) ELSE 0)
     - (IF ~Settlement(r) /\ w = call[r].actor THEN Amount(r) ELSE 0)]

NewEscrow(r) == [status |-> "held", buyer |-> call[r].actor,
                 seller |-> Payee(r), amount |-> Amount(r)]

RowOf(r) ==
  IF Settlement(r)
  THEN [escrow[call[r].escrow] EXCEPT !.status = Outcome(call[r])]
  ELSE IF call[r].kind = "create" /\ pc[r] = "commit" THEN NewEscrow(r) ELSE NoEscrow

QuietInv(r) ==
  ~Active(r) =>
    /\ tx[r] = NoWrites
    /\ \A w \in Wallets : walletLock[w] # r
    /\ \A e \in Reqs : escrowLock[e] # r

BegunInv(r) ==
  /\ pc[r] = "debit" => ~Settlement(r)
  /\ pc[r] = "settle" => Settlement(r)
  /\ InTx(r) => IF Settlement(r) THEN Authorised(r) ELSE call[r].amount > 0

ActiveInv(r) ==
  Active(r) =>
    /\ pc[r] = "credit" => call[r].kind # "create"
    /\ tx[r].delta = DeltaOf(r)
    /\ tx[r].row = RowOf(r)
    /\ tx[r].entries = (IF pc[r] = "commit" /\ call[r].kind # "create"
                        THEN {Entry(r)} ELSE {})
    /\ Settlement(r) => /\ escrowLock[call[r].escrow] = r
                        /\ StillHeld(call[r].escrow)
    /\ ~Settlement(r) => Covers(r) /\ walletLock[call[r].actor] = r
    /\ Credited(r) => Payee(r) \in Wallets /\ walletLock[Payee(r)] = r
    /\ pc[r] = "commit" => Referenced(r)

TablesInv ==
  /\ NoOverdraft
  /\ \A e \in Reqs :
       \/ escrow[e] = NoEscrow
       \/ /\ escrow[e].status # "none" /\ escrow[e].amount > 0 /\ Ended(e)
          /\ escrow[e].buyer \in Wallets /\ escrow[e].seller \in Users
  /\ \A row \in journal : Ended(row.id)

IInv ==
  /\ TypeOK /\ TablesInv /\ SettledOnce
  /\ \A r \in Reqs : QuietInv(r) /\ BegunInv(r) /\ ActiveInv(r)

=============================================================================
