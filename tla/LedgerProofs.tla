---------------------------- MODULE LedgerProofs ----------------------------
(***************************************************************************)
(* Theorems of Ledger for every set of requests, users, wallets and calls. *)
(* IInv is inductive: it says, for every request inside its transaction,   *)
(* which rows it has locked and what exactly it has written so far.        *)
(***************************************************************************)
EXTENDS Ledger, SumTheorems, TLAPS

(* The parts of a call have the types CallType gives them.                 *)
LEMMA CallFacts ==
  ASSUME NEW r \in Reqs, TypeOK
  PROVE  /\ call[r] \in CallType
         /\ call[r].actor \in Users /\ call[r].escrow \in Reqs
         /\ call[r].peer \in Names /\ call[r].amount \in Int
         /\ call[r].kind \in Kinds
         /\ Parse[call[r].peer] \in Ids \cup {NoId}
<1>1. call[r] \in Calls /\ Calls \subseteq CallType
  BY LedgerAssumption DEF TypeOK, LedgerAssumption
<1>2. call[r] \in CallType
  BY <1>1
<1>3. Amounts \subseteq Int /\ Parse \in [Names -> Ids \cup {NoId}]
  BY LedgerAssumption DEF LedgerAssumption
<1> QED
  BY <1>2, <1>3 DEF CallType

(* A step that leaves the tables, the request q and the locks q holds as   *)
(* they were preserves what IInv says of q.                                *)
LEMMA Frame ==
  ASSUME NEW q \in Reqs, TypeOK,
         UNCHANGED tables,
         call'[q] = call[q], pc'[q] = pc[q], tx'[q] = tx[q],
         \A w \in Wallets : (walletLock[w] = q) <=> (walletLock'[w] = q),
         \A e \in Reqs : (escrowLock[e] = q) <=> (escrowLock'[e] = q),
         QuietInv(q), BegunInv(q), ActiveInv(q)
  PROVE  QuietInv(q)' /\ BegunInv(q)' /\ ActiveInv(q)'
<1>1. QuietInv(q)'
  BY DEF QuietInv, Active
<1>2. BegunInv(q)'
  BY DEF BegunInv, Settlement, InTx, Authorised, tables
<1>3. DeltaOf(q)' = DeltaOf(q) /\ RowOf(q)' = RowOf(q) /\ Entry(q)' = Entry(q)
  BY DEF DeltaOf, RowOf, Entry, Credited, Payee, Payer, Amount, Settlement, NewEscrow,
         tables
<1>4. ActiveInv(q)'
  <2>1. CASE ~Active(q)
    BY <2>1 DEF ActiveInv, Active
  <2>2. CASE Active(q)
    <3>1. Active(q)'
      BY <2>2 DEF Active
    <3>2. Settlement(q)' = Settlement(q) /\ Credited(q)' = Credited(q) /\ Payee(q)' = Payee(q)
          /\ Referenced(q)' = Referenced(q) /\ Covers(q)' = Covers(q)
      BY DEF Settlement, Credited, Payee, Referenced, Payer, Covers, tables
    <3>3. call[q].actor \in Users /\ call[q].escrow \in Reqs
      BY CallFacts
    <3>4. Covers(q) => call[q].actor \in Wallets
      BY DEF Covers
    <3> QED
      BY <1>3, <2>2, <3>1, <3>2, <3>3, <3>4 DEF ActiveInv, StillHeld, tables
  <2> QED
    BY <2>1, <2>2
<1> QED
  BY <1>1, <1>2, <1>4

(* At the start nobody has written, locked or recorded anything.           *)
LEMMA InitInv == Init => IInv
<1> SUFFICES ASSUME Init PROVE IInv
  OBVIOUS
<1> USE LedgerAssumption DEF LedgerAssumption
<1>1. NoEscrow \in RowType /\ NoEscrow.status = "none"
  BY DEF NoEscrow, RowType
<1>2. NoWrites \in TxType
  BY <1>1 DEF NoWrites, TxType
<1>3. (CHOOSE c \in Calls : TRUE) \in Calls
  OBVIOUS
<1>4. TypeOK
  BY <1>1, <1>2, <1>3 DEF Init, TypeOK
<1>5. TablesInv
  BY DEF Init, TablesInv, NoOverdraft
<1>6. SettledOnce
  BY <1>1 DEF Init, SettledOnce, OneSettlement, Settlements, Settled
<1>7. ASSUME NEW r \in Reqs PROVE QuietInv(r) /\ BegunInv(r) /\ ActiveInv(r)
  BY DEF Init, QuietInv, BegunInv, ActiveInv, Active, InTx
<1> QED
  BY <1>4, <1>5, <1>6, <1>7 DEF IInv

(* A step of r that leaves the tables and the calls as they were, and      *)
(* takes or gives up no lock of another request.                           *)
LEMMA OpenStep ==
  ASSUME NEW r \in Reqs, IInv, TypeOK',
         UNCHANGED tables,
         pc[r] \notin {"ok", "failed"},
         \A q \in Reqs \ {r} :
           /\ call'[q] = call[q] /\ pc'[q] = pc[q] /\ tx'[q] = tx[q]
           /\ \A w \in Wallets : (walletLock[w] = q) <=> (walletLock'[w] = q)
           /\ \A e \in Reqs : (escrowLock[e] = q) <=> (escrowLock'[e] = q),
         QuietInv(r)', BegunInv(r)', ActiveInv(r)'
  PROVE  IInv'
<1>1. ASSUME NEW e \in Reqs, Ended(e) PROVE Ended(e)' /\ call'[e] = call[e]
  BY <1>1 DEF Ended
<1>2. journal' = journal /\ escrow' = escrow /\ balance' = balance
  BY DEF tables
<1>3. \A row \in journal : row.id \in Reqs /\ Ended(row.id)
  BY DEF IInv, TablesInv, TypeOK, EntryRowType
<1>4. TablesInv'
  BY <1>1, <1>2, <1>3 DEF IInv, TablesInv, NoOverdraft
<1>5. SettledOnce'
  <2> SUFFICES ASSUME NEW e \in Reqs PROVE OneSettlement(e)'
    BY DEF SettledOnce
  <2>1. OneSettlement(e)
    BY DEF IInv, SettledOnce
  <2>2. \A row \in Settlements(e) : call'[row.id] = call[row.id]
    BY <1>1, <1>3 DEF Settlements
  <2>3. Settlements(e)' = Settlements(e) /\ escrow'[e] = escrow[e]
    BY <1>2 DEF Settlements
  <2> QED
    BY <2>1, <2>2, <2>3 DEF OneSettlement, Settled, PaidAsSaid
<1>6. ASSUME NEW q \in Reqs PROVE QuietInv(q)' /\ BegunInv(q)' /\ ActiveInv(q)'
  <2>1. CASE q = r
    BY <2>1
  <2>2. CASE q # r
    BY <2>2, Frame DEF IInv
  <2> QED
    BY <2>1, <2>2
<1> QED
  BY <1>4, <1>5, <1>6 DEF IInv

(* A call that is taken up has passed the checks that BegunInv remembers,  *)
(* and has written nothing.                                                *)
LEMMA SubmitStep ==
  ASSUME IInv, NEW r \in Reqs, NEW c \in Calls, Submit(r, c)
  PROVE  IInv'
<1> USE LedgerAssumption DEF LedgerAssumption
<1>1. TypeOK'
  BY DEF IInv, TypeOK, Submit, tables, First
<1>2. tx[r] = NoWrites /\ pc[r] = "idle" /\ ~Active(r)
  BY DEF IInv, QuietInv, Submit, Active
<1>3. call'[r] = c /\ pc'[r] \in {"debit", "settle", "failed"}
  BY DEF Submit, IInv, TypeOK, First
<1>4. QuietInv(r)' /\ ActiveInv(r)'
  BY <1>2, <1>3 DEF IInv, QuietInv, ActiveInv, Active, Submit
<1>5. BegunInv(r)'
  <2>1. pc'[r] # "failed" => Enters(c) /\ pc'[r] = First(c)
    BY DEF Submit, IInv, TypeOK
  <2>2. Settlement(r)' <=> c.kind \in {"release", "refund"}
    BY <1>3 DEF Settlement
  <2>3. CASE Settlement(r)'
    <3>1. pc'[r] # "failed" => MaySettle(c) /\ pc'[r] = "settle"
      BY <2>1, <2>2, <2>3 DEF Enters, First
    <3>2. MaySettle(c) => Authorised(r)'
      BY <1>3 DEF MaySettle, Authorised, Submit, tables
    <3> QED
      BY <2>3, <3>1, <3>2, <1>3 DEF BegunInv, InTx
  <2>4. CASE ~Settlement(r)'
    <3>1. pc'[r] # "failed" => Acceptable(c) /\ pc'[r] = "debit"
      BY <2>1, <2>2, <2>4 DEF Enters, First
    <3> QED
      BY <2>4, <3>1, <1>3 DEF BegunInv, InTx, Acceptable
  <2> QED
    BY <2>3, <2>4
<1>6. \A q \in Reqs \ {r} : call'[q] = call[q] /\ pc'[q] = pc[q] /\ tx'[q] = tx[q]
  BY DEF IInv, TypeOK, Submit
<1> QED
  BY <1>1, <1>2, <1>4, <1>5, <1>6, OpenStep DEF Submit, IInv

(* A rollback leaves the tables, and the request neither writes nor locks. *)
LEMMA RollbackStep ==
  ASSUME IInv, NEW r \in Reqs, InTx(r), Rollback(r)
  PROVE  IInv'
<1> USE LedgerAssumption DEF LedgerAssumption
<1>1. NoWrites \in TxType
  BY DEF NoWrites, TxType, NoEscrow, RowType
<1>2. TypeOK'
  BY <1>1 DEF IInv, TypeOK, Rollback, Unlock, tables
<1>3. pc'[r] = "failed" /\ tx'[r] = NoWrites
  BY DEF IInv, TypeOK, Rollback
<1>4. (\A w \in Wallets : walletLock'[w] # r) /\ (\A e \in Reqs : escrowLock'[e] # r)
  BY DEF Rollback, Unlock
<1>5. QuietInv(r)' /\ BegunInv(r)' /\ ActiveInv(r)'
  BY <1>3, <1>4 DEF QuietInv, BegunInv, ActiveInv, Active, InTx
<1>6. \A q \in Reqs \ {r} :
        /\ call'[q] = call[q] /\ pc'[q] = pc[q] /\ tx'[q] = tx[q]
        /\ \A w \in Wallets : (walletLock[w] = q) <=> (walletLock'[w] = q)
        /\ \A e \in Reqs : (escrowLock[e] = q) <=> (escrowLock'[e] = q)
  BY DEF IInv, TypeOK, Rollback, Unlock
<1>7. UNCHANGED tables /\ pc[r] \notin {"ok", "failed"}
  BY DEF Rollback, InTx
<1> QED
  BY <1>2, <1>5, <1>6, <1>7, OpenStep

(* Only a request inside its transaction waits for a lock.                 *)
LEMMA DeadlockedInTx ==
  ASSUME NEW r \in Reqs, Deadlocked(r)
  PROVE  InTx(r)
BY DEF Deadlocked, Blocks, InTx

(* Before its first write a request has written nothing.                   *)
LEMMA DebitStep ==
  ASSUME IInv, NEW r \in Reqs, Debit(r)
  PROVE  IInv'
<1> USE LedgerAssumption DEF LedgerAssumption
<1> DEFINE u == call[r].actor
<1>1. u \in Wallets /\ balance[u] >= call[r].amount /\ call[r].amount \in Int
  BY CallFacts DEF Debit, Covers, IInv
<1>2. tx[r] = NoWrites /\ ~Settlement(r) /\ call[r].amount > 0
  BY DEF IInv, QuietInv, BegunInv, Debit, Active, InTx
<1>3. tx[r] \in TxType /\ pc[r] = "debit"
  BY DEF IInv, TypeOK, Debit
<1>4. tx'[r] = [NoWrites EXCEPT !.delta = [NoWrites.delta EXCEPT ![u] = @ - call[r].amount]]
  BY <1>2 DEF IInv, TypeOK, Debit
<1>5. tx'[r].delta = [w \in Wallets |-> 0 - (IF w = u THEN call[r].amount ELSE 0)]
      /\ tx'[r].row = NoEscrow /\ tx'[r].entries = {}
  <2>1. tx'[r].delta = [w \in Wallets |-> IF w = u THEN 0 - call[r].amount ELSE 0]
    BY <1>4, <1>1 DEF NoWrites
  <2>2. \A w \in Wallets : (IF w = u THEN 0 - call[r].amount ELSE 0)
                          = 0 - (IF w = u THEN call[r].amount ELSE 0)
    BY <1>1
  <2> QED
    BY <1>4, <2>1, <2>2 DEF NoWrites
<1>6. tx'[r] \in TxType
  <2>1. NoEscrow \in RowType
    BY DEF NoEscrow, RowType
  <2> QED
    BY <1>4, <1>1, <2>1 DEF TxType, NoWrites
<1>7. TypeOK'
  BY <1>6, <1>1 DEF IInv, TypeOK, Debit, tables
<1>8. pc'[r] \in {"record", "credit"} /\ call' = call /\ (pc'[r] = "record" <=> call[r].kind = "create")
  BY DEF IInv, TypeOK, Debit
<1>9. Settlement(r)' = Settlement(r) /\ ~Credited(r)' /\ Amount(r)' = call[r].amount
      /\ Covers(r)' = Covers(r)
  BY <1>2, <1>8 DEF Settlement, Credited, Amount, Covers, Debit, tables
<1>10. QuietInv(r)' /\ BegunInv(r)'
  BY <1>2, <1>8, <1>9 DEF QuietInv, BegunInv, Active, InTx
<1>11. walletLock'[u] = r
  BY <1>1 DEF Debit, IInv, TypeOK
<1>12. ActiveInv(r)'
  <2>1. RowOf(r)' = NoEscrow
    BY <1>2, <1>8, <1>9 DEF RowOf
  <2>2. DeltaOf(r)' = tx'[r].delta
    BY <1>2, <1>5, <1>8, <1>9 DEF DeltaOf
  <2> QED
    BY <1>2, <1>5, <1>8, <1>9, <1>11, <2>1, <2>2 DEF ActiveInv, Debit
<1>13. \A q \in Reqs \ {r} :
        /\ call'[q] = call[q] /\ pc'[q] = pc[q] /\ tx'[q] = tx[q]
        /\ \A w \in Wallets : (walletLock[w] = q) <=> (walletLock'[w] = q)
        /\ \A e \in Reqs : (escrowLock[e] = q) <=> (escrowLock'[e] = q)
  BY DEF IInv, TypeOK, Debit, FreeFor
<1> QED
  BY <1>3, <1>7, <1>10, <1>12, <1>13, OpenStep DEF Debit

(* The conditional UPDATE finds a held escrow and locks its row.           *)
LEMMA SettleRowStep ==
  ASSUME IInv, NEW r \in Reqs, SettleRow(r)
  PROVE  IInv'
<1> USE LedgerAssumption DEF LedgerAssumption
<1> DEFINE e == call[r].escrow
<1>1. e \in Reqs /\ escrow[e] \in RowType /\ escrow[e].status = "held"
  BY CallFacts DEF IInv, TypeOK, SettleRow, StillHeld
<1>2. tx[r] = NoWrites /\ Settlement(r) /\ Authorised(r) /\ pc[r] = "settle"
  BY DEF IInv, QuietInv, BegunInv, SettleRow, Active, InTx
<1>3. tx'[r] = [NoWrites EXCEPT !.row = [escrow[e] EXCEPT !.status = Outcome(call[r])]]
  BY <1>2 DEF IInv, TypeOK, SettleRow
<1>4. Outcome(call[r]) \in {"released", "refunded"}
  BY DEF Outcome
<1>5. tx'[r] \in TxType
  BY <1>1, <1>3, <1>4 DEF TxType, NoWrites, RowType
<1>6. TypeOK'
  BY <1>1, <1>5 DEF IInv, TypeOK, SettleRow, tables
<1>7. pc'[r] = "credit" /\ call' = call /\ escrow' = escrow
  BY DEF IInv, TypeOK, SettleRow, tables
<1>8. Settlement(r)' /\ Authorised(r)' /\ ~Credited(r)'
  BY <1>2, <1>7 DEF Settlement, Authorised, Credited
<1>9. QuietInv(r)' /\ BegunInv(r)'
  BY <1>7, <1>8 DEF QuietInv, BegunInv, Active, InTx
<1>10. escrowLock'[e] = r
  BY <1>1 DEF IInv, TypeOK, SettleRow
<1>11. ActiveInv(r)'
  <2>1. tx'[r].row = RowOf(r)'
    BY <1>3, <1>7, <1>8 DEF RowOf, NoWrites
  <2>2. tx'[r].delta = DeltaOf(r)' /\ tx'[r].entries = {}
    BY <1>3, <1>8 DEF DeltaOf, NoWrites
  <2>3. call[r].kind # "create"
    BY <1>2 DEF Settlement
  <2> QED
    BY <1>1, <1>7, <1>8, <1>10, <2>1, <2>2, <2>3 DEF ActiveInv, StillHeld
<1>12. \A q \in Reqs \ {r} :
        /\ call'[q] = call[q] /\ pc'[q] = pc[q] /\ tx'[q] = tx[q]
        /\ \A w \in Wallets : (walletLock[w] = q) <=> (walletLock'[w] = q)
        /\ \A f \in Reqs : (escrowLock[f] = q) <=> (escrowLock'[f] = q)
  BY DEF IInv, TypeOK, SettleRow, FreeFor
<1> QED
  BY <1>2, <1>6, <1>9, <1>11, <1>12, OpenStep DEF SettleRow

(* Two forms of the same sums: what DeltaOf says before and after a credit. *)
LEMMA CreditDelta ==
  ASSUME NEW f \in [Wallets -> Int], NEW u \in Wallets, NEW a \in Int,
         NEW d \in [Wallets -> Int],
         f = [w \in Wallets |-> 0 - d[w]]
  PROVE  [f EXCEPT ![u] = @ + a] = [w \in Wallets |-> (IF w = u THEN a ELSE 0) - d[w]]
<1>1. \A w \in Wallets : [f EXCEPT ![u] = @ + a][w] = (IF w = u THEN a ELSE 0) - d[w]
  OBVIOUS
<1> QED
  BY <1>1

(* A credit adds the amount to what the transaction has written for the    *)
(* payee, under the lock of that wallet.                                   *)
LEMMA CreditStep ==
  ASSUME IInv, NEW r \in Reqs, Credit(r)
  PROVE  IInv'
<1> USE LedgerAssumption DEF LedgerAssumption
<1> DEFINE v == Payee(r)
           a == Amount(r)
           d == [w \in Wallets |-> IF ~Settlement(r) /\ w = call[r].actor THEN a ELSE 0]
<1>1. v \in Wallets /\ pc[r] = "credit" /\ TypeOK
  BY DEF Credit, IInv
<1>2. tx[r] \in TxType /\ a \in Int
  BY CallFacts DEF IInv, TypeOK, Amount, TxType, RowType
<1>3. ActiveInv(r) /\ Active(r) /\ InTx(r) /\ BegunInv(r)
  BY <1>1 DEF IInv, Active, InTx
<1>4. ~Credited(r) /\ call[r].kind # "create"
  BY <1>1, <1>3 DEF Credited, ActiveInv
<1>5. tx'[r] = [tx[r] EXCEPT !.delta = [tx[r].delta EXCEPT ![v] = @ + a]]
  BY <1>1 DEF TypeOK, Credit
<1>6. pc'[r] = "record" /\ call' = call /\ UNCHANGED tables
  BY <1>1 DEF TypeOK, Credit
<1>7. tx'[r].row = tx[r].row /\ tx'[r].entries = tx[r].entries
      /\ tx'[r].delta = [tx[r].delta EXCEPT ![v] = @ + a]
  BY <1>2, <1>5 DEF TxType
<1>8. tx'[r] \in TxType
  BY <1>1, <1>2, <1>5 DEF TxType
<1>9. TypeOK'
  BY <1>1, <1>8, <1>6 DEF TypeOK, Credit, tables
<1>10. /\ Settlement(r)' = Settlement(r) /\ Credited(r)' /\ Payee(r)' = v /\ Amount(r)' = a
       /\ Covers(r)' = Covers(r) /\ RowOf(r)' = RowOf(r) /\ Authorised(r)' = Authorised(r)
  BY <1>1, <1>4, <1>6, <1>7
     DEF Settlement, Credited, Payee, Amount, Covers, RowOf, Authorised, tables
<1>11. tx'[r].delta = DeltaOf(r)'
  <2>1. tx[r].delta = [w \in Wallets |-> 0 - d[w]]
    <3>1. tx[r].delta = DeltaOf(r)
      BY <1>3 DEF ActiveInv
    <3> QED
      BY <3>1, <1>4 DEF DeltaOf
  <2>2. tx[r].delta \in [Wallets -> Int] /\ d \in [Wallets -> Int]
    BY <1>2 DEF TxType
  <2>3. tx'[r].delta = [w \in Wallets |-> (IF w = v THEN a ELSE 0) - d[w]]
    BY <1>1, <1>2, <1>7, <2>1, <2>2, CreditDelta
  <2>4. DeltaOf(r)' = [w \in Wallets |-> (IF w = v THEN a ELSE 0) - d[w]]
    BY <1>6, <1>10 DEF DeltaOf
  <2> QED
    BY <2>3, <2>4
<1>12. QuietInv(r)' /\ BegunInv(r)'
  BY <1>3, <1>6, <1>10 DEF QuietInv, BegunInv, Active, InTx
<1>13. walletLock'[v] = r /\ escrowLock' = escrowLock
       /\ \A w \in Wallets : walletLock[w] = r => walletLock'[w] = r
  BY <1>1 DEF TypeOK, Credit
<1>14. ActiveInv(r)'
  <2>1. ~Settlement(r) => call[r].actor \in Wallets
    BY <1>3 DEF ActiveInv, Covers
  <2> QED
    BY <1>1, <1>3, <1>4, <1>6, <1>7, <1>10, <1>11, <1>13, <2>1
       DEF ActiveInv, StillHeld, tables
<1>15. \A q \in Reqs \ {r} :
        /\ call'[q] = call[q] /\ pc'[q] = pc[q] /\ tx'[q] = tx[q]
        /\ \A w \in Wallets : (walletLock[w] = q) <=> (walletLock'[w] = q)
        /\ \A e \in Reqs : (escrowLock[e] = q) <=> (escrowLock'[e] = q)
  BY <1>1 DEF TypeOK, Credit, FreeFor
<1> QED
  BY <1>1, <1>6, <1>9, <1>12, <1>14, <1>15, OpenStep

(* The INSERT writes the one row that stands for the operation.            *)
LEMMA RecordStep ==
  ASSUME IInv, NEW r \in Reqs, Record(r)
  PROVE  IInv'
<1> USE LedgerAssumption DEF LedgerAssumption
<1>1. TypeOK /\ pc[r] = "record" /\ Active(r) /\ InTx(r) /\ ActiveInv(r) /\ BegunInv(r)
  BY DEF Record, IInv, Active, InTx
<1>2. tx[r] \in TxType /\ Amount(r) \in Int /\ call[r].actor \in Users
      /\ call[r].escrow \in Reqs /\ call[r].kind \in Kinds
  BY <1>1, CallFacts DEF TypeOK, Amount, TxType, RowType
<1>3. pc'[r] = "commit" /\ call' = call /\ UNCHANGED <<tables, walletLock, escrowLock>>
  BY <1>1 DEF TypeOK, Record
<1>4. Referenced(r) /\ tx[r].entries = {} /\ tx[r].delta = DeltaOf(r) /\ tx[r].row = RowOf(r)
  BY <1>1 DEF Record, ActiveInv
<1>5. CASE call[r].kind = "create"
  <2>1. tx'[r] = [tx[r] EXCEPT !.row = NewEscrow(r)] /\ ~Settlement(r)
    BY <1>1, <1>5 DEF TypeOK, Record, NewEscrow, Settlement
  <2>2. NewEscrow(r) \in RowType
    <3>1. Payee(r) \in Users
      BY <1>4, <1>5 DEF Referenced
    <3> QED
      BY <1>2, <3>1 DEF NewEscrow, RowType
  <2>3. tx'[r] \in TxType /\ tx'[r].row = NewEscrow(r) /\ tx'[r].delta = tx[r].delta
        /\ tx'[r].entries = {}
    BY <1>2, <1>4, <2>1, <2>2 DEF TxType
  <2>4. /\ ~Settlement(r)' /\ ~Credited(r)' /\ ~Credited(r) /\ Payee(r)' = Payee(r)
        /\ Amount(r)' = Amount(r) /\ NewEscrow(r)' = NewEscrow(r)
        /\ Covers(r)' = Covers(r) /\ Referenced(r)' = Referenced(r)
    BY <1>3, <1>5, <2>1
       DEF Settlement, Credited, Payee, Amount, NewEscrow, Covers, Referenced, tables
  <2>5. DeltaOf(r)' = DeltaOf(r) /\ RowOf(r)' = NewEscrow(r)
    BY <1>3, <1>5, <2>1, <2>4 DEF DeltaOf, RowOf
  <2>6. TypeOK'
    BY <1>1, <1>3, <2>3 DEF TypeOK, Record, tables
  <2>7. QuietInv(r)' /\ BegunInv(r)'
    BY <1>1, <1>3, <2>1, <2>4 DEF QuietInv, BegunInv, Active, InTx
  <2>8. ActiveInv(r)'
    BY <1>1, <1>3, <1>4, <1>5, <2>1, <2>3, <2>4, <2>5 DEF ActiveInv
  <2>9. \A q \in Reqs \ {r} : call'[q] = call[q] /\ pc'[q] = pc[q] /\ tx'[q] = tx[q]
    BY <1>1 DEF TypeOK, Record
  <2> QED
    BY <1>1, <1>3, <2>6, <2>7, <2>8, <2>9, OpenStep
<1>6. CASE call[r].kind # "create"
  <2>1. tx'[r] = [tx[r] EXCEPT !.entries = {Entry(r)}]
    BY <1>1, <1>4, <1>6 DEF TypeOK, Record
  <2>2. Entry(r) \in EntryRowType
    <3>1. Payer(r) \in Wallets /\ Payee(r) \in Wallets
      BY <1>4, <1>6 DEF Referenced
    <3>2. EntryType(call[r]) \in {"transfer", "escrow_release", "escrow_refund"}
      BY DEF EntryType
    <3> QED
      BY <1>2, <3>1, <3>2 DEF Entry, EntryRowType
  <2>3. tx'[r] \in TxType /\ tx'[r].row = tx[r].row /\ tx'[r].delta = tx[r].delta
        /\ tx'[r].entries = {Entry(r)}
    BY <1>2, <2>1, <2>2 DEF TxType
  <2>4. /\ Settlement(r)' = Settlement(r) /\ Credited(r)' /\ Credited(r)
        /\ Payee(r)' = Payee(r) /\ Payer(r)' = Payer(r) /\ Amount(r)' = Amount(r)
    BY <1>1, <1>3, <1>6, <2>3 DEF Settlement, Credited, Payee, Payer, Amount
  <2>5. /\ Covers(r)' = Covers(r) /\ Referenced(r)' = Referenced(r)
        /\ Authorised(r)' = Authorised(r) /\ Entry(r)' = Entry(r)
    BY <1>3, <2>4 DEF Covers, Referenced, Authorised, Entry, tables
  <2>6. DeltaOf(r)' = DeltaOf(r) /\ RowOf(r)' = RowOf(r)
    BY <1>3, <1>6, <2>4 DEF DeltaOf, RowOf, tables
  <2>7. TypeOK'
    BY <1>1, <1>3, <2>3 DEF TypeOK, Record, tables
  <2>8. QuietInv(r)' /\ BegunInv(r)'
    BY <1>1, <1>3, <2>4, <2>5 DEF QuietInv, BegunInv, Active, InTx
  <2>9. ActiveInv(r)'
    BY <1>1, <1>3, <1>4, <1>6, <2>3, <2>4, <2>5, <2>6 DEF ActiveInv, StillHeld, tables
  <2>10. \A q \in Reqs \ {r} : call'[q] = call[q] /\ pc'[q] = pc[q] /\ tx'[q] = tx[q]
    BY <1>1 DEF TypeOK, Record
  <2> QED
    BY <1>1, <1>3, <2>7, <2>8, <2>9, <2>10, OpenStep
<1> QED
  BY <1>5, <1>6

(* What a commit does to the tables, by kind of call.                      *)
Transferred(r) ==
  /\ ~Settlement(r) /\ Credited(r) /\ Covers(r)
  /\ walletLock[call[r].actor] = r
  /\ Payee(r) \in Wallets /\ walletLock[Payee(r)] = r
  /\ escrow' = escrow /\ journal' = journal \cup {Entry(r)}

Reserved(r) ==
  /\ ~Settlement(r) /\ ~Credited(r) /\ Covers(r)
  /\ walletLock[call[r].actor] = r
  /\ Payee(r) \in Users
  /\ escrow' = [escrow EXCEPT ![r] = NewEscrow(r)] /\ journal' = journal

SettledBy(r, e) ==
  /\ e = call[r].escrow
  /\ Credited(r) /\ escrow[e].status = "held" /\ Authorised(r)
  /\ escrowLock[e] = r
  /\ Payer(r) \in Wallets
  /\ Payee(r) \in Wallets /\ walletLock[Payee(r)] = r
  /\ Amount(r) = escrow[e].amount
  /\ Payee(r) = (IF call[r].kind = "release" THEN escrow[e].seller ELSE escrow[e].buyer)
  /\ Payer(r) = (IF call[r].kind = "release" THEN escrow[e].buyer ELSE escrow[e].seller)
  /\ escrow' = [escrow EXCEPT ![e] = [escrow[e] EXCEPT !.status = Outcome(call[r])]]
  /\ journal' = journal \cup {Entry(r)}

(* What a transaction has written when it commits is one of the three      *)
(* operations, on rows it has locked.                                      *)
LEMMA CommitFacts ==
  ASSUME IInv, NEW r \in Reqs, NEW answer, Commit(r, answer)
  PROVE  /\ escrow[r] = NoEscrow /\ \A row \in journal : row.id # r
         /\ Amount(r) \in Int /\ Amount(r) > 0
         /\ balance' = [w \in Wallets |-> balance[w] + DeltaOf(r)[w]]
         /\ call[r].kind \in Kinds
         /\ call[r].kind = "transfer" => Transferred(r)
         /\ call[r].kind = "create" => Reserved(r)
         /\ Settlement(r) => SettledBy(r, call[r].escrow)
<1> USE LedgerAssumption DEF LedgerAssumption
<1>1. TypeOK /\ pc[r] = "commit" /\ Active(r) /\ InTx(r) /\ ActiveInv(r) /\ BegunInv(r)
  BY DEF Commit, IInv, Active, InTx
<1>2. tx[r] \in TxType /\ Amount(r) \in Int /\ call[r].kind \in Kinds
      /\ call[r].escrow \in Reqs /\ escrow[call[r].escrow] \in RowType
  BY <1>1, CallFacts DEF TypeOK, Amount, TxType, RowType
<1>3. escrow[r] = NoEscrow /\ \A row \in journal : row.id # r
  BY <1>1 DEF IInv, TablesInv, Ended
<1>4. balance' = [w \in Wallets |-> balance[w] + DeltaOf(r)[w]]
  BY <1>1 DEF Commit, ActiveInv
<1>5. Referenced(r) /\ tx[r].row = RowOf(r)
      /\ tx[r].entries = (IF call[r].kind # "create" THEN {Entry(r)} ELSE {})
  BY <1>1 DEF ActiveInv
<1>6. escrow' = (IF RowOf(r) = NoEscrow THEN escrow ELSE [escrow EXCEPT ![Target(r)] = RowOf(r)])
      /\ journal' = journal \cup tx[r].entries
  BY <1>5 DEF Commit
<1>7. CASE call[r].kind = "transfer"
  <2>1. ~Settlement(r) /\ Credited(r) /\ RowOf(r) = NoEscrow /\ Amount(r) > 0
    BY <1>1, <1>7 DEF Settlement, Credited, RowOf, BegunInv, Amount
  <2> QED
    BY <1>1, <1>2, <1>3, <1>4, <1>5, <1>6, <1>7, <2>1 DEF ActiveInv, Transferred
<1>8. CASE call[r].kind = "create"
  <2>1. ~Settlement(r) /\ ~Credited(r) /\ RowOf(r) = NewEscrow(r) /\ Amount(r) > 0
        /\ Target(r) = r
    BY <1>1, <1>8 DEF Settlement, Credited, RowOf, BegunInv, Amount, Target
  <2>2. NewEscrow(r) # NoEscrow
    BY DEF NewEscrow, NoEscrow
  <2>3. Payee(r) \in Users
    BY <1>5, <1>8 DEF Referenced
  <2> QED
    BY <1>1, <1>2, <1>3, <1>4, <1>5, <1>6, <1>8, <2>1, <2>2, <2>3 DEF ActiveInv, Reserved
<1>9. CASE Settlement(r)
  <2> DEFINE e == call[r].escrow
             new == [escrow[e] EXCEPT !.status = Outcome(call[r])]
  <2>1. RowOf(r) = new /\ Target(r) = e /\ call[r].kind # "create" /\ Credited(r)
        /\ call[r].kind # "transfer"
    BY <1>1, <1>9 DEF Settlement, Credited, RowOf, Target
  <2>2. new.status = Outcome(call[r]) /\ new.amount = escrow[e].amount
        /\ new.buyer = escrow[e].buyer /\ new.seller = escrow[e].seller
    BY <1>2 DEF RowType
  <2>3. new # NoEscrow
    BY <2>2 DEF Outcome, NoEscrow
  <2>4. Amount(r) = escrow[e].amount
    BY <1>5, <1>9, <2>1, <2>2 DEF Amount
  <2>5. Payee(r) = (IF call[r].kind = "release" THEN escrow[e].seller ELSE escrow[e].buyer)
        /\ Payer(r) = (IF call[r].kind = "release" THEN escrow[e].buyer ELSE escrow[e].seller)
    BY <1>5, <1>9, <2>1, <2>2 DEF Payee, Payer
  <2>6. Payer(r) \in Wallets /\ Payee(r) \in Wallets
    BY <1>5, <2>1 DEF Referenced
  <2>7. escrow[e].status = "held" /\ escrowLock[e] = r /\ walletLock[Payee(r)] = r
    BY <1>1, <1>9, <2>1 DEF ActiveInv, StillHeld
  <2>8. escrow[e].amount > 0
    BY <1>2, <2>7 DEF IInv, TablesInv, NoEscrow
  <2>9. Authorised(r)
    BY <1>1, <1>9 DEF BegunInv
  <2>10. escrow' = [escrow EXCEPT ![e] = new] /\ journal' = journal \cup {Entry(r)}
    BY <1>5, <1>6, <2>1, <2>3
  <2> QED
    BY <1>2, <1>3, <1>4, <1>9, <2>1, <2>4, <2>5, <2>6, <2>7, <2>8, <2>9, <2>10 DEF SettledBy
<1> QED
  BY <1>2, <1>7, <1>8, <1>9 DEF Settlement, Kinds

(* A commit moves money only in wallets it has locked, and leaves none of  *)
(* them below zero.                                                        *)
LEMMA DeltaFacts ==
  ASSUME IInv, NEW r \in Reqs, NEW answer, Commit(r, answer)
  PROVE  \A w \in Wallets :
           /\ DeltaOf(r)[w] \in Int
           /\ walletLock[w] # r => DeltaOf(r)[w] = 0
           /\ balance[w] + DeltaOf(r)[w] >= 0
<1> SUFFICES ASSUME NEW w \in Wallets
             PROVE  /\ DeltaOf(r)[w] \in Int
                    /\ walletLock[w] # r => DeltaOf(r)[w] = 0
                    /\ balance[w] + DeltaOf(r)[w] >= 0
  OBVIOUS
<1>1. balance[w] \in Int /\ balance[w] >= 0 /\ call[r].kind \in Kinds
  BY CallFacts DEF IInv, TypeOK, TablesInv, NoOverdraft
<1>2. Amount(r) \in Int /\ Amount(r) > 0
  BY CommitFacts
<1>3. DeltaOf(r)[w] = (IF Credited(r) /\ w = Payee(r) THEN Amount(r) ELSE 0)
                      - (IF ~Settlement(r) /\ w = call[r].actor THEN Amount(r) ELSE 0)
  BY DEF DeltaOf
<1>4. Credited(r) /\ w = Payee(r) => walletLock[w] = r
  BY <1>1, CommitFacts DEF Kinds, Settlement, Transferred, SettledBy, Reserved
<1>5. ~Settlement(r) /\ w = call[r].actor => /\ walletLock[w] = r
                                            /\ balance[w] >= Amount(r)
  BY <1>1, CommitFacts DEF Kinds, Settlement, Covers, Amount, Transferred, Reserved
<1> QED
  BY <1>1, <1>2, <1>3, <1>4, <1>5

(* A commit keeps the tables well typed.                                   *)
LEMMA CommitTypeOK ==
  ASSUME IInv, NEW r \in Reqs, NEW answer \in {"ok", "failed"}, Commit(r, answer)
  PROVE  TypeOK'
<1> USE LedgerAssumption DEF LedgerAssumption
<1>1. TypeOK /\ tx[r] \in TxType
  BY DEF IInv, TypeOK
<1>2. balance' \in [Wallets -> Int]
  <2>1. balance' = [w \in Wallets |-> balance[w] + DeltaOf(r)[w]]
    BY CommitFacts
  <2>2. \A w \in Wallets : DeltaOf(r)[w] \in Int
    BY DeltaFacts
  <2> QED
    BY <1>1, <2>1, <2>2 DEF TypeOK
<1>3. NoWrites \in TxType
  BY DEF NoWrites, TxType, NoEscrow, RowType
<1>4. escrow' \in [Reqs -> RowType] /\ journal' \subseteq EntryRowType
  BY <1>1 DEF Commit, TypeOK, TxType
<1> QED
  BY <1>1, <1>2, <1>3, <1>4 DEF TypeOK, Commit, Unlock

(* What a commit of r leaves of another request q.                         *)
LEMMA CommitFrame ==
  ASSUME IInv, NEW r \in Reqs, NEW answer \in {"ok", "failed"}, Commit(r, answer),
         NEW q \in Reqs, q # r
  PROVE  QuietInv(q)' /\ BegunInv(q)' /\ ActiveInv(q)'
<1> USE LedgerAssumption DEF LedgerAssumption
<1>1. TypeOK /\ QuietInv(q) /\ BegunInv(q) /\ ActiveInv(q) /\ call[r].kind \in Kinds
  BY CallFacts DEF IInv
<1>2. call' = call /\ pc'[q] = pc[q] /\ tx'[q] = tx[q]
      /\ (\A w \in Wallets : (walletLock[w] = q) <=> (walletLock'[w] = q))
      /\ (\A e \in Reqs : (escrowLock[e] = q) <=> (escrowLock'[e] = q))
  BY <1>1 DEF TypeOK, Commit, Unlock
<1>3. \A e \in Reqs : escrow'[e] # escrow[e] =>
        \/ e = r /\ escrow[e] = NoEscrow
        \/ /\ escrowLock[e] = r /\ escrow'[e].status # "none"
           /\ escrow'[e].buyer = escrow[e].buyer /\ escrow'[e].seller = escrow[e].seller
  <2>1. CASE call[r].kind = "transfer"
    BY <2>1, CommitFacts DEF Transferred
  <2>2. CASE call[r].kind = "create"
    <3>1. Reserved(r) /\ escrow[r] = NoEscrow
      BY <2>2, CommitFacts
    <3> QED
      BY <3>1, <1>1 DEF TypeOK, Reserved
  <2>3. CASE Settlement(r)
    <3>1. Outcome(call[r]) # "none"
      BY DEF Outcome
    <3>2. SettledBy(r, call[r].escrow)
      BY <2>3, CommitFacts
    <3> QED
      BY <3>1, <3>2, <1>1, CallFacts DEF TypeOK, RowType, SettledBy
  <2> QED
    BY <1>1, <2>1, <2>2, <2>3 DEF Kinds, Settlement
<1>4. call[q].escrow \in Reqs /\ call[q].actor \in Users
  BY <1>1, CallFacts
<1>5. Authorised(q) => Authorised(q)'
  BY <1>2, <1>3, <1>4 DEF Authorised, NoEscrow
<1>6. QuietInv(q)'
  BY <1>1, <1>2 DEF QuietInv, Active
<1>7. BegunInv(q)'
  BY <1>1, <1>2, <1>5 DEF BegunInv, Settlement, InTx
<1>8. ActiveInv(q)'
  <2> SUFFICES ASSUME Active(q) PROVE ActiveInv(q)'
    BY <1>2 DEF ActiveInv, Active
  <2>1. Settlement(q) => escrow'[call[q].escrow] = escrow[call[q].escrow]
    BY <1>1, <1>3, <1>4 DEF ActiveInv, StillHeld, NoEscrow
  <2>2. /\ Settlement(q)' = Settlement(q) /\ Credited(q)' = Credited(q)
        /\ Payee(q)' = Payee(q) /\ Payer(q)' = Payer(q) /\ Amount(q)' = Amount(q)
    BY <1>2 DEF Settlement, Credited, Payee, Payer, Amount
  <2>3. DeltaOf(q)' = DeltaOf(q) /\ Entry(q)' = Entry(q) /\ Referenced(q)' = Referenced(q)
    BY <1>2, <2>2 DEF DeltaOf, Entry, Referenced
  <2>4. RowOf(q)' = RowOf(q)
    BY <1>2, <2>1, <2>2 DEF RowOf, NewEscrow
  <2>5. ~Settlement(q) => Covers(q)'
    <3>1. ~Settlement(q) => Covers(q) /\ walletLock[call[q].actor] = q
      BY <1>1 DEF ActiveInv
    <3>2. Covers(q) => call[q].actor \in Wallets
      BY DEF Covers
    <3>3. \A w \in Wallets : walletLock[w] = q => balance'[w] = balance[w]
      <4>1. balance' = [w \in Wallets |-> balance[w] + DeltaOf(r)[w]]
        BY CommitFacts
      <4>2. \A w \in Wallets : walletLock[w] # r => DeltaOf(r)[w] = 0
        BY DeltaFacts
      <4> QED
        BY <1>1, <4>1, <4>2 DEF TypeOK
    <3> QED
      BY <1>2, <3>1, <3>2, <3>3 DEF Covers
  <2>6. Settlement(q) => StillHeld(call[q].escrow)'
    BY <1>1, <1>2, <2>1 DEF ActiveInv, StillHeld
  <2>7. Covers(q) => call[q].actor \in Wallets
    BY DEF Covers
  <2>8. Settlement(q) => StillHeld(call[q].escrow)' /\ call'[q].escrow = call[q].escrow
    BY <1>2, <2>6
  <2> QED
    BY <1>1, <1>2, <1>4, <2>1, <2>2, <2>3, <2>4, <2>5, <2>7, <2>8 DEF ActiveInv, StillHeld
<1> QED
  BY <1>6, <1>7, <1>8

(* A commit overdraws no wallet, and its row is that of a request that has *)
(* ended.                                                                  *)
LEMMA CommitTables ==
  ASSUME IInv, NEW r \in Reqs, NEW answer \in {"ok", "failed"}, Commit(r, answer)
  PROVE  TablesInv'
<1> USE LedgerAssumption DEF LedgerAssumption
<1>1. TypeOK /\ TablesInv /\ call[r].kind \in Kinds
  BY CallFacts DEF IInv
<1>2. Ended(r)' /\ \A q \in Reqs : Ended(q) => Ended(q)'
  BY <1>1 DEF Ended, Commit, TypeOK
<1>3. NoOverdraft'
  <2>1. balance' = [w \in Wallets |-> balance[w] + DeltaOf(r)[w]]
    BY CommitFacts
  <2>2. \A w \in Wallets : balance[w] + DeltaOf(r)[w] >= 0
    BY DeltaFacts
  <2> QED
    BY <2>1, <2>2 DEF NoOverdraft
<1>4. \A row \in journal' : Ended(row.id)'
  <2>1. \A row \in journal : row.id \in Reqs /\ Ended(row.id)
    BY <1>1 DEF TypeOK, EntryRowType, TablesInv
  <2>2. \A row \in journal' : row \in journal \/ row = Entry(r)
    <3>1. journal' = journal \/ journal' = journal \cup {Entry(r)}
      BY CommitFacts DEF Kinds, Settlement, Transferred, Reserved, SettledBy
    <3> QED
      BY <3>1
  <2> QED
    BY <1>2, <2>1, <2>2 DEF Entry
<1>5. ASSUME NEW e \in Reqs
      PROVE  \/ escrow'[e] = NoEscrow
             \/ /\ escrow'[e].status # "none" /\ escrow'[e].amount > 0 /\ Ended(e)'
                /\ escrow'[e].buyer \in Wallets /\ escrow'[e].seller \in Users
  <2>1. CASE escrow'[e] = escrow[e]
    BY <1>1, <1>2, <2>1 DEF TablesInv
  <2>2. CASE call[r].kind = "create" /\ escrow'[e] # escrow[e]
    <3>1. e = r /\ escrow'[e] = NewEscrow(r)
      BY <1>1, <2>2, CommitFacts DEF TypeOK, Reserved
    <3>2. Reserved(r) /\ Amount(r) > 0
      BY <2>2, CommitFacts
    <3> QED
      BY <1>2, <3>1, <3>2 DEF NewEscrow, Covers, Reserved
  <2>3. CASE Settlement(r) /\ escrow'[e] # escrow[e]
    <3>1. e = call[r].escrow /\ escrow'[e] = [escrow[e] EXCEPT !.status = Outcome(call[r])]
          /\ escrow[e].status = "held"
      <4>1. SettledBy(r, call[r].escrow)
        BY <2>3, CommitFacts
      <4> QED
        BY <1>1, <2>3, <4>1 DEF TypeOK, SettledBy
    <3>2. escrow[e] \in RowType /\ escrow[e] # NoEscrow
      BY <1>1, <3>1 DEF TypeOK, NoEscrow
    <3>3. escrow[e].amount > 0 /\ Ended(e)
          /\ escrow[e].buyer \in Wallets /\ escrow[e].seller \in Users
      BY <1>1, <3>2 DEF TablesInv
    <3> QED
      BY <1>2, <3>1, <3>2, <3>3 DEF RowType, Outcome
  <2> QED
    BY <1>1, <2>1, <2>2, <2>3, CommitFacts DEF Kinds, Settlement, Transferred
<1> QED
  BY <1>3, <1>4, <1>5 DEF TablesInv

(* A commit settles an escrow that nobody has settled, by the row it adds. *)
LEMMA CommitSettledOnce ==
  ASSUME IInv, NEW r \in Reqs, NEW answer \in {"ok", "failed"}, Commit(r, answer)
  PROVE  SettledOnce'
<1> USE LedgerAssumption DEF LedgerAssumption
<1>1. TypeOK /\ SettledOnce /\ call[r].kind \in Kinds /\ call' = call
  BY CallFacts DEF IInv, Commit
<1> SUFFICES ASSUME NEW e \in Reqs PROVE OneSettlement(e)'
  BY DEF SettledOnce
<1>2. OneSettlement(e)
  BY <1>1 DEF SettledOnce
<1>3. CASE call[r].kind = "transfer"
  <2>1. Transferred(r)
    BY <1>3, CommitFacts
  <2>2. Entry(r).ref # e
    BY <2>1 DEF Entry, Transferred
  <2>3. Settlements(e)' = Settlements(e) /\ escrow'[e] = escrow[e]
    BY <2>1, <2>2 DEF Settlements, Transferred
  <2> QED
    BY <1>1, <1>2, <2>3 DEF OneSettlement, Settled, PaidAsSaid
<1>4. CASE call[r].kind = "create"
  <2>1. Reserved(r) /\ escrow[r] = NoEscrow
    BY <1>4, CommitFacts
  <2>2. Settlements(e)' = Settlements(e)
    BY <2>1 DEF Settlements, Reserved
  <2>3. CASE e # r
    <3>1. escrow'[e] = escrow[e]
      BY <1>1, <2>1, <2>3 DEF Reserved, TypeOK
    <3> QED
      BY <1>1, <1>2, <2>2, <3>1 DEF OneSettlement, Settled, PaidAsSaid
  <2>4. CASE e = r
    <3>1. escrow'[e].status = "held"
      BY <1>1, <2>1, <2>4 DEF Reserved, TypeOK, NewEscrow
    <3>2. Settlements(e) = {}
      BY <1>2, <2>1, <2>4 DEF OneSettlement, Settled, NoEscrow
    <3> QED
      BY <2>2, <3>1, <3>2 DEF OneSettlement, Settled
  <2> QED
    BY <2>3, <2>4
<1>5. CASE Settlement(r)
  <2> DEFINE f == call[r].escrow
  <2>1. SettledBy(r, f)
    BY <1>5, CommitFacts
  <2>2. f \in Reqs /\ escrow[f] \in RowType /\ Entry(r).ref = f
    BY <1>1, <1>5, CallFacts DEF TypeOK, Entry
  <2>3. CASE e # f
    <3>1. Settlements(e)' = Settlements(e) /\ escrow'[e] = escrow[e]
      BY <1>1, <2>1, <2>2, <2>3 DEF Settlements, SettledBy, TypeOK
    <3> QED
      BY <1>1, <1>2, <3>1 DEF OneSettlement, Settled, PaidAsSaid
  <2>4. CASE e = f
    <3>1. Settlements(e) = {}
      BY <1>2, <2>1, <2>4 DEF OneSettlement, Settled, SettledBy
    <3>2. Settlements(e)' = {Entry(r)}
      BY <2>1, <2>2, <2>4, <3>1 DEF Settlements, SettledBy
    <3>3. /\ escrow'[e].status = Outcome(call[r]) /\ escrow'[e].amount = escrow[e].amount
          /\ escrow'[e].buyer = escrow[e].buyer /\ escrow'[e].seller = escrow[e].seller
      BY <1>1, <2>1, <2>2, <2>4 DEF SettledBy, TypeOK, RowType
    <3>4. call[r].actor = (IF call[r].kind = "release" THEN escrow[e].buyer
                                                       ELSE escrow[e].seller)
      BY <2>1, <2>4 DEF SettledBy, Authorised
    <3>5. Entry(r).id = r /\ Entry(r).to = Payee(r) /\ Entry(r).amount = Amount(r)
      BY DEF Entry
    <3>6. ASSUME NEW row, row = Entry(r) PROVE PaidAsSaid(e, row)'
      BY <1>1, <2>1, <2>4, <3>3, <3>4, <3>5, <3>6 DEF PaidAsSaid, SettledBy, Outcome
    <3>7. \A row \in Settlements(e)' : PaidAsSaid(e, row)'
      BY <3>2, <3>6
    <3> QED
      BY <3>2, <3>3, <3>7 DEF OneSettlement, Settled, Outcome
  <2> QED
    BY <2>3, <2>4
<1> QED
  BY <1>1, <1>3, <1>4, <1>5 DEF Kinds, Settlement

(* A commit keeps the whole invariant.                                     *)
LEMMA CommitStep ==
  ASSUME IInv, NEW r \in Reqs, NEW answer \in {"ok", "failed"}, Commit(r, answer)
  PROVE  IInv'
<1>1. pc'[r] = answer /\ tx'[r] = NoWrites
  BY DEF IInv, TypeOK, Commit
<1>2. (\A w \in Wallets : walletLock'[w] # r) /\ (\A e \in Reqs : escrowLock'[e] # r)
  BY LedgerAssumption DEF Commit, Unlock, LedgerAssumption
<1>3. QuietInv(r)' /\ BegunInv(r)' /\ ActiveInv(r)'
  BY <1>1, <1>2 DEF QuietInv, BegunInv, ActiveInv, Active, InTx
<1> QED
  BY <1>3, CommitTypeOK, CommitTables, CommitSettledOnce, CommitFrame DEF IInv

(* Nothing changes when nothing happens.                                   *)
LEMMA StutterStep == IInv /\ UNCHANGED vars => IInv'
<1> SUFFICES ASSUME IInv, UNCHANGED vars PROVE IInv'
  OBVIOUS
<1>1. UNCHANGED tables /\ UNCHANGED <<walletLock, escrowLock, call, pc, tx>>
  BY DEF vars
<1>2. TypeOK'
  BY <1>1 DEF IInv, TypeOK, tables
<1>3. TablesInv'
  BY <1>1 DEF IInv, TablesInv, NoOverdraft, Ended, tables
<1>4. SettledOnce'
  BY <1>1 DEF IInv, SettledOnce, OneSettlement, Settlements, Settled, PaidAsSaid, tables
<1>5. ASSUME NEW q \in Reqs PROVE QuietInv(q)' /\ BegunInv(q)' /\ ActiveInv(q)'
  BY <1>1, Frame DEF IInv
<1> QED
  BY <1>2, <1>3, <1>4, <1>5 DEF IInv

(* One step of any kind keeps the inductive invariant.                     *)
LEMMA NextInv == IInv /\ [Next]_vars => IInv'
<1> SUFFICES ASSUME IInv, [Next]_vars PROVE IInv'
  OBVIOUS
<1>1. ASSUME NEW r \in Reqs, NEW c \in Calls, Submit(r, c) PROVE IInv'
  BY <1>1, SubmitStep
<1>2. ASSUME NEW r \in Reqs, Step(r) PROVE IInv'
  <2>1. CASE Debit(r)
    BY <2>1, DebitStep
  <2>2. CASE SettleRow(r)
    BY <2>2, SettleRowStep
  <2>3. CASE Credit(r)
    BY <2>3, CreditStep
  <2>4. CASE Record(r)
    BY <2>4, RecordStep
  <2>5. CASE Commit(r, "ok")
    BY <2>5, CommitStep
  <2>6. CASE DebitMiss(r) \/ SettleMiss(r) \/ CreditMiss(r) \/ RecordMiss(r)
    BY <2>6, RollbackStep DEF DebitMiss, SettleMiss, CreditMiss, RecordMiss, InTx
  <2>7. CASE DetectDeadlock(r)
    BY <2>7, DeadlockedInTx, RollbackStep DEF DetectDeadlock
  <2> QED
    BY <1>2, <2>1, <2>2, <2>3, <2>4, <2>5, <2>6, <2>7 DEF Step
<1>3. ASSUME NEW r \in Reqs, Commit(r, "failed") PROVE IInv'
  BY <1>3, CommitStep
<1>4. ASSUME NEW r \in Reqs, Abort(r) PROVE IInv'
  BY <1>4, RollbackStep DEF Abort
<1>5. CASE UNCHANGED vars
  BY <1>5, StutterStep
<1> QED
  BY <1>1, <1>2, <1>3, <1>4, <1>5 DEF Next, Finished

(* The invariant holds in every behaviour.                                 *)
LEMMA Inductive == Spec => []IInv
BY InitInv, NextInv, PTL DEF Spec

(* Type correctness, for any number of requests and wallets.               *)
THEOREM TypeCorrect == Spec => []TypeOK
<1>1. IInv => TypeOK
  BY DEF IInv
<1> QED
  BY <1>1, Inductive, PTL

(* No interleaving of transfers, reservations and settlements overdraws a  *)
(* wallet (the WHERE of the debit, re-evaluated under the row lock).       *)
THEOREM NeverOverdrawn == Spec => []NoOverdraft
<1>1. IInv => NoOverdraft
  BY DEF IInv, TablesInv
<1> QED
  BY <1>1, Inductive, PTL

(* An escrow is paid out at most once, to the party its status names and   *)
(* on the word of the other one.                                           *)
THEOREM EscrowSettledOnce == Spec => []SettledOnce
<1>1. IInv => SettledOnce
  BY DEF IInv
<1> QED
  BY <1>1, Inductive, PTL

-----------------------------------------------------------------------------
(* Refinement                                                              *)

(* The tables start as the promise says.                                   *)
LEMMA InitPromise == Init => Promise!Init
BY DEF Init, Promise!Init

(* A commit is one whole operation of the promise.                         *)
LEMMA CommitPromise ==
  ASSUME IInv, NEW r \in Reqs, NEW answer \in {"ok", "failed"}, Commit(r, answer)
  PROVE  Promise!Next
<1> USE LedgerAssumption DEF LedgerAssumption
<1>1. TypeOK /\ TypeOK' /\ call[r].kind \in Kinds /\ call[r].escrow \in Reqs
  BY CallFacts, CommitTypeOK DEF IInv
<1>2. Promise!Fresh(r) /\ Amount(r) \in Int /\ Amount(r) > 0
  BY CommitFacts DEF Promise!Fresh
<1>3. balance' = [w \in Wallets |-> balance[w] + DeltaOf(r)[w]]
  BY CommitFacts
<1>4. \A w \in Wallets : balance[w] \in Int /\ balance'[w] \in Int
  BY <1>1 DEF TypeOK
<1>5. ~Settlement(r) => Amount(r) = call[r].amount /\ Amount(r) \in {a \in Amounts : a > 0}
  BY <1>1, <1>2, CallFacts DEF Amount, CallType
<1>6. CASE call[r].kind = "transfer"
  <2> DEFINE u == call[r].actor
             v == Payee(r)
             a == Amount(r)
  <2>1. Transferred(r)
    BY <1>6, CommitFacts
  <2>2. u \in Wallets /\ v \in Wallets /\ balance[u] >= a /\ ~Settlement(r) /\ Credited(r)
    BY <1>5, <2>1 DEF Transferred, Covers
  <2>3. balance' = Promise!Move(balance, u, v, a)
    <3>1. \A w \in Wallets : balance'[w] = balance[w] + (IF w = v THEN a ELSE 0)
                                                      - (IF w = u THEN a ELSE 0)
      BY <1>2, <1>3, <1>4, <2>2 DEF DeltaOf
    <3> QED
      BY <1>1, <3>1 DEF Promise!Move, TypeOK
  <2>4. Entry(r) = [id |-> r, from |-> u, to |-> v, amount |-> a, type |-> "transfer",
                    ref |-> NoId]
    BY <1>6, <2>2 DEF Entry, Payer, EntryType
  <2>5. Promise!Transfer(r, u, v, a)
    BY <1>2, <2>1, <2>2, <2>3, <2>4 DEF Promise!Transfer, Transferred
  <2> QED
    BY <1>5, <2>2, <2>5 DEF Promise!Next
<1>7. CASE call[r].kind = "create"
  <2> DEFINE u == call[r].actor
             s == Payee(r)
             a == Amount(r)
  <2>1. Reserved(r)
    BY <1>7, CommitFacts
  <2>2. u \in Wallets /\ s \in Users /\ balance[u] >= a /\ ~Settlement(r) /\ ~Credited(r)
    BY <1>5, <2>1 DEF Reserved, Covers
  <2>3. balance' = [balance EXCEPT ![u] = @ - a]
    <3>1. \A w \in Wallets : balance'[w] = (IF w = u THEN balance[w] - a ELSE balance[w])
      BY <1>2, <1>3, <1>4, <2>2 DEF DeltaOf
    <3> QED
      BY <1>1, <3>1 DEF TypeOK
  <2>4. Promise!Reserve(r, u, s, a)
    BY <1>2, <2>1, <2>2, <2>3 DEF Promise!Reserve, Reserved, NewEscrow
  <2> QED
    BY <1>5, <2>2, <2>4 DEF Promise!Next
<1>8. CASE Settlement(r)
  <2> DEFINE e == call[r].escrow
             v == Payee(r)
  <2>1. SettledBy(r, e)
    BY <1>8, CommitFacts
  <2>2. v \in Wallets /\ Payer(r) \in Wallets /\ Amount(r) = escrow[e].amount
        /\ escrow[e].status = "held" /\ Credited(r)
    BY <2>1 DEF SettledBy
  <2>3. balance' = [balance EXCEPT ![v] = @ + escrow[e].amount]
    <3>1. \A w \in Wallets : balance'[w] = (IF w = v THEN balance[w] + Amount(r)
                                                     ELSE balance[w])
      BY <1>2, <1>3, <1>4, <1>8, <2>2 DEF DeltaOf
    <3> QED
      BY <1>1, <2>2, <3>1 DEF TypeOK
  <2>4. escrow' = [escrow EXCEPT ![e].status = Outcome(call[r])]
    BY <2>1 DEF SettledBy
  <2>5. journal' = journal \cup {[id |-> r, from |-> Payer(r), to |-> v,
                                 amount |-> escrow[e].amount,
                                 type |-> EntryType(call[r]), ref |-> e]}
    BY <1>8, <2>1, <2>2 DEF SettledBy, Entry
  <2>6. CASE call[r].kind = "release"
    <3>1. v = escrow[e].seller /\ Payer(r) = escrow[e].buyer
          /\ Outcome(call[r]) = "released" /\ EntryType(call[r]) = "escrow_release"
      BY <2>1, <2>6 DEF SettledBy, Outcome, EntryType
    <3>2. Promise!Release(r, e)
      BY <1>2, <2>2, <2>3, <2>4, <2>5, <3>1 DEF Promise!Release, Promise!Settle
    <3> QED
      BY <1>1, <3>2 DEF Promise!Next
  <2>7. CASE call[r].kind = "refund"
    <3>1. v = escrow[e].buyer /\ Payer(r) = escrow[e].seller
          /\ Outcome(call[r]) = "refunded" /\ EntryType(call[r]) = "escrow_refund"
      BY <2>1, <2>7 DEF SettledBy, Outcome, EntryType
    <3>2. Promise!Refund(r, e)
      BY <1>2, <2>2, <2>3, <2>4, <2>5, <3>1 DEF Promise!Refund, Promise!Settle
    <3> QED
      BY <1>1, <3>2 DEF Promise!Next
  <2> QED
    BY <1>8, <2>6, <2>7 DEF Settlement
<1> QED
  BY <1>1, <1>6, <1>7, <1>8 DEF Kinds, Settlement

(* Every step is one operation of the promise, or none.                    *)
LEMMA NextPromise == IInv /\ [Next]_vars => [Promise!Next]_(Promise!vars)
<1> SUFFICES ASSUME IInv, [Next]_vars PROVE Promise!Next \/ UNCHANGED tables
  BY DEF Promise!vars, tables
<1>1. ASSUME NEW r \in Reqs, NEW answer \in {"ok", "failed"}, Commit(r, answer)
      PROVE  Promise!Next
  BY <1>1, CommitPromise
<1>2. ASSUME NEW r \in Reqs, Step(r) PROVE Promise!Next \/ UNCHANGED tables
  BY <1>1, <1>2 DEF Step, Debit, DebitMiss, SettleRow, SettleMiss, Credit, CreditMiss,
                    Record, RecordMiss, DetectDeadlock, Rollback
<1>3. ASSUME NEW r \in Reqs, NEW c \in Calls, Submit(r, c) PROVE UNCHANGED tables
  BY <1>3 DEF Submit
<1>4. ASSUME NEW r \in Reqs, Abort(r) PROVE UNCHANGED tables
  BY <1>4 DEF Abort, Rollback
<1>5. UNCHANGED vars => UNCHANGED tables
  BY DEF vars
<1> QED
  BY <1>1, <1>2, <1>3, <1>4, <1>5 DEF Next, Finished

(* Seen from the committed tables, requests that interleave statement by   *)
(* statement, wait for each other's locks, deadlock, abort or lose the     *)
(* answer of their commit behave as one whole operation after another.     *)
THEOREM LedgerImplementsPromise == Spec => ImplementsPromise
<1>1. Spec => Promise!Init /\ [][Promise!Next]_(Promise!vars)
  BY Inductive, InitPromise, NextPromise, PTL DEF Spec
<1> QED
  BY <1>1, PTL DEF ImplementsPromise, Promise!Spec

-----------------------------------------------------------------------------
(* The books                                                               *)

Opened == {e \in Reqs : escrow[e].status # "none"}
Held == {e \in Reqs : escrow[e].status = "held"}
Bought(w) == {e \in Reqs : escrow[e].buyer = w}
Worth == [e \in Reqs |-> escrow[e].amount]
Received(w) == {row \in journal : row.to = w}
Sent(w) == {row \in journal : row.from = w /\ row.type = "transfer"}
BooksInv == IsFiniteSet(journal) /\ IsFiniteSet(Opened) /\ BooksBalance

(* One wallet that changes changes the sum of all of them by as much.      *)
LEMMA SumChangesAt ==
  ASSUME TypeOK, TypeOK', NEW u \in Wallets, \A w \in Wallets \ {u} : balance'[w] = balance[w]
  PROVE  SumFunction(balance') = SumFunction(balance) + (balance'[u] - balance[u])
<1>1. /\ balance \in [Wallets -> Int] /\ balance' \in [Wallets -> Int]
      /\ DOMAIN balance = Wallets /\ DOMAIN balance' = Wallets /\ IsFiniteSet(Wallets)
  BY LedgerAssumption DEF TypeOK, LedgerAssumption
<1> QED
  BY <1>1, SumChanges DEF SumFunction

(* What one wallet gives another leaves the sum of all of them.            *)
LEMMA SumMoves ==
  ASSUME TypeOK, TypeOK', NEW v \in Wallets, NEW u \in Wallets, NEW a \in Int,
         \A w \in Wallets :
           balance'[w] = balance[w] + ((IF w = v THEN a ELSE 0) - (IF w = u THEN a ELSE 0))
  PROVE  SumFunction(balance') = SumFunction(balance)
<1> DEFINE h == [w \in Wallets |-> balance[w] + (IF w = v THEN a ELSE 0)]
<1>1. /\ balance \in [Wallets -> Int] /\ balance' \in [Wallets -> Int] /\ h \in [Wallets -> Int]
      /\ DOMAIN balance = Wallets /\ DOMAIN balance' = Wallets /\ IsFiniteSet(Wallets)
  BY LedgerAssumption DEF TypeOK, LedgerAssumption
<1>2. \A w \in Wallets : h[w] = balance[w] + (IF w = v THEN a ELSE 0)
  OBVIOUS
<1> HIDE DEF h
<1>3. SumFunctionOnSet(h, Wallets) = SumFunctionOnSet(balance, Wallets) + (h[v] - balance[v])
  <2>1. \A w \in Wallets \ {v} : h[w] = balance[w]
    BY <1>1, <1>2
  <2> QED
    BY <1>1, <2>1, SumChanges
<1>4. \A w \in Wallets \ {u} : balance'[w] = h[w]
  BY <1>1, <1>2
<1>5. SumFunctionOnSet(balance', Wallets) = SumFunctionOnSet(h, Wallets) + (balance'[u] - h[u])
  BY <1>1, <1>4, SumChanges
<1>6. SumFunctionOnSet(balance, Wallets) \in Int
  BY <1>1, SumIsInt
<1>7. h[v] - balance[v] = a /\ balance'[u] - h[u] = 0 - a
  BY <1>1, <1>2
<1> QED
  BY <1>1, <1>3, <1>5, <1>6, <1>7 DEF SumFunction

(* What a row adds to the rows it joins.                                   *)
LEMMA FlowAdds ==
  ASSUME NEW rows, IsFiniteSet(rows), NEW x, x \notin rows,
         \A row \in rows \cup {x} : row.amount \in Int
  PROVE  Flow(rows \cup {x}) = x.amount + Flow(rows) /\ Flow(rows) \in Int
<1> DEFINE D == rows \cup {x}
           f == [row \in D |-> row.amount]
           g == [row \in rows |-> row.amount]
<1>1. Flow(D) = SumFunctionOnSet(f, D) /\ Flow(rows) = SumFunctionOnSet(g, rows)
  BY DEF Flow, SumFunction
<1>2. f \in [D -> Int] /\ g \in [rows -> Int] /\ x \in D /\ rows \in SUBSET D /\ f[x] = x.amount
  OBVIOUS
<1>3. \A row \in rows : f[row] = g[row]
  OBVIOUS
<1> HIDE DEF f, g
<1>4. SumFunctionOnSet(f, rows) = SumFunctionOnSet(g, rows)
  BY <1>3, SumAlike
<1>5. SumFunctionOnSet(f, rows \cup {x}) = f[x] + SumFunctionOnSet(f, rows)
  BY <1>2, SumAdds
<1>6. SumFunctionOnSet(g, rows) \in Int
  BY <1>2, SumIsInt
<1> QED
  BY <1>1, <1>2, <1>4, <1>5, <1>6

(* Rows of integers flow an integer.                                       *)
LEMMA FlowIsInt ==
  ASSUME NEW rows, IsFiniteSet(rows), \A row \in rows : row.amount \in Int
  PROVE  Flow(rows) \in Int
<1> DEFINE g == [row \in rows |-> row.amount]
<1>1. g \in [rows -> Int] /\ Flow(rows) = SumFunctionOnSet(g, rows)
  BY DEF Flow, SumFunction
<1> HIDE DEF g
<1> QED
  BY <1>1, SumIsInt

(* Without journal rows and escrows the balances are the opening ones.     *)
LEMMA BooksInit == Init => BooksInv
<1> SUFFICES ASSUME Init PROVE BooksInv
  OBVIOUS
<1> USE LedgerAssumption DEF LedgerAssumption
<1>1. journal = {} /\ balance = Opening /\ \A e \in Reqs : escrow[e] = NoEscrow
  BY DEF Init
<1>2. NoEscrow.status = "none" /\ NoEscrow.buyer = NoId
  BY DEF NoEscrow
<1>3. IsFiniteSet(journal) /\ IsFiniteSet(Opened)
  <2>1. Opened = {}
    BY <1>1, <1>2 DEF Opened
  <2> QED
    BY <1>1, <2>1, FS_EmptySet
<1>4. \A f : SumFunctionOnSet(f, {}) = 0
  BY SumSteps, FS_EmptySet
<1>5. Conservation
  <2>1. {e \in Reqs : escrow[e].status = "held"} = {}
    BY <1>1, <1>2
  <2>2. DOMAIN Opening = Wallets /\ Opening \in [Wallets -> Int]
    OBVIOUS
  <2>3. SumFunction(Opening) \in Int
    BY <2>2, SumIsInt DEF SumFunction
  <2>4. SumFunctionOnSet([e \in Reqs |-> escrow[e].amount], {e \in Reqs : escrow[e].status = "held"}) = 0
    BY <1>4, <2>1
  <2> QED
    BY <1>1, <2>3, <2>4 DEF Conservation
<1>6. JournalExplainsBalances
  <2> SUFFICES ASSUME NEW w \in Wallets
               PROVE  balance[w] = Opening[w]
                        + Flow({row \in journal : row.to = w})
                        - Flow({row \in journal : row.from = w /\ row.type = "transfer"})
                        - SumFunctionOnSet([e \in Reqs |-> escrow[e].amount],
                                           {e \in Reqs : escrow[e].buyer = w})
    BY DEF JournalExplainsBalances
  <2>1. {e \in Reqs : escrow[e].buyer = w} = {}
    BY <1>1, <1>2
  <2>2. Flow({}) = 0
    BY <1>4 DEF Flow, SumFunction
  <2>3. {row \in journal : row.to = w} = {} /\ {row \in journal : row.from = w /\ row.type = "transfer"} = {}
    BY <1>1
  <2>4. Opening[w] \in Int
    OBVIOUS
  <2>5. SumFunctionOnSet([e \in Reqs |-> escrow[e].amount], {e \in Reqs : escrow[e].buyer = w}) = 0
    BY <1>4, <2>1
  <2>6. /\ Flow({row \in journal : row.to = w}) = 0
        /\ Flow({row \in journal : row.from = w /\ row.type = "transfer"}) = 0
    BY <2>2, <2>3
  <2> QED
    BY <1>1, <2>4, <2>5, <2>6
<1>7. AnswerIsRecorded
  BY DEF Init, AnswerIsRecorded
<1> QED
  BY <1>3, <1>5, <1>6, <1>7 DEF BooksInv, BooksBalance

(* Outside of a commit the tables stay, and nobody is told "ok".           *)
LEMMA BooksFrame ==
  ASSUME BooksInv, UNCHANGED tables,
         \A q \in Reqs : pc'[q] = "ok" => pc[q] = "ok" /\ call'[q] = call[q]
  PROVE  BooksInv'
<1>1. balance' = balance /\ escrow' = escrow /\ journal' = journal
  BY DEF tables
<1>2. Conservation' /\ JournalExplainsBalances'
  BY <1>1 DEF BooksInv, BooksBalance, Conservation, JournalExplainsBalances, Flow
<1>3. AnswerIsRecorded'
  BY <1>1 DEF BooksInv, BooksBalance, AnswerIsRecorded
<1> QED
  BY <1>1, <1>2, <1>3 DEF BooksInv, BooksBalance, Opened

(* Both sets of escrows hold rows that exist, and what they are worth is a *)
(* number.                                                                 *)
LEMMA BooksTypes ==
  ASSUME IInv, BooksInv
  PROVE  /\ Worth \in [Reqs -> Int] /\ SumFunction(balance) \in Int
         /\ Held \subseteq Opened /\ IsFiniteSet(Held)
         /\ \A w \in Wallets :
              /\ Bought(w) \subseteq Opened /\ IsFiniteSet(Bought(w))
              /\ IsFiniteSet(Received(w)) /\ IsFiniteSet(Sent(w))
<1> USE LedgerAssumption DEF LedgerAssumption
<1>1. TypeOK /\ IsFiniteSet(Opened) /\ IsFiniteSet(journal)
  BY DEF IInv, BooksInv
<1>2. Worth \in [Reqs -> Int]
  BY <1>1 DEF Worth, TypeOK, RowType
<1>3. Held \subseteq Opened
  BY DEF Held, Opened
<1>4. ASSUME NEW w \in Wallets
      PROVE  Bought(w) \subseteq Opened
  <2>1. w # NoId
    OBVIOUS
  <2> QED
    BY <2>1 DEF Bought, Opened, IInv, TablesInv, NoEscrow
<1>5. SumFunction(balance) \in Int
  <2>1. balance \in [Wallets -> Int] /\ DOMAIN balance = Wallets
    BY <1>1 DEF TypeOK
  <2> QED
    BY <2>1, SumIsInt DEF SumFunction
<1>6. \A w \in Wallets : Received(w) \in SUBSET journal /\ Sent(w) \in SUBSET journal
  BY DEF Received, Sent
<1> QED
  BY <1>1, <1>2, <1>3, <1>4, <1>5, <1>6, FS_Subset

(* What an answer "ok" of another request recorded, a commit leaves.       *)
LEMMA CommitAnswers ==
  ASSUME IInv, BooksInv, NEW r \in Reqs, NEW answer \in {"ok", "failed"}, Commit(r, answer)
  PROVE  AnswerIsRecorded'
<1>1. TypeOK /\ AnswerIsRecorded /\ call[r].kind \in Kinds /\ call' = call
  BY CallFacts DEF IInv, BooksInv, BooksBalance, Commit
<1>2. pc'[r] = answer /\ \A q \in Reqs \ {r} : pc'[q] = pc[q]
  BY <1>1 DEF Commit, TypeOK
<1>3. /\ escrow[r] = NoEscrow /\ \A row \in journal : row.id # r
      /\ Entry(r).id = r
  BY CommitFacts DEF Entry
<1>4. \/ call[r].kind = "create" /\ journal' = journal
      \/ call[r].kind # "create" /\ journal' = journal \cup {Entry(r)}
  BY <1>1, CommitFacts DEF Kinds, Settlement, Transferred, Reserved, SettledBy
<1>5. ASSUME NEW q \in Reqs, pc'[q] = "ok", call[q].kind = "create"
      PROVE  escrow'[q].status # "none" /\ escrow'[q].buyer = call[q].actor
  <2>1. CASE q = r
    <3>1. Reserved(r)
      BY <1>5, <2>1, CommitFacts
    <3> QED
      BY <1>1, <2>1, <3>1 DEF Reserved, NewEscrow, TypeOK
  <2>2. CASE q # r
    <3>1. escrow[q].status # "none" /\ escrow[q].buyer = call[q].actor
      BY <1>1, <1>2, <1>5, <2>2 DEF AnswerIsRecorded
    <3>2. escrow'[q] # escrow[q] => escrow'[q] = [escrow[q] EXCEPT !.status = Outcome(call[r])]
      <4>1. CASE call[r].kind = "transfer"
        BY <4>1, CommitFacts DEF Transferred
      <4>2. CASE call[r].kind = "create"
        BY <1>1, <2>2, <4>2, CommitFacts DEF Reserved, TypeOK
      <4>3. CASE Settlement(r)
        <5>1. SettledBy(r, call[r].escrow)
          BY <4>3, CommitFacts
        <5> QED
          BY <1>1, <5>1 DEF SettledBy, TypeOK
      <4> QED
        BY <1>1, <4>1, <4>2, <4>3 DEF Kinds, Settlement
    <3>3. escrow[q] \in RowType
      BY <1>1 DEF TypeOK
    <3> QED
      BY <3>1, <3>2, <3>3 DEF RowType, Outcome
  <2> QED
    BY <2>1, <2>2
<1>6. ASSUME NEW q \in Reqs, pc'[q] = "ok", call[q].kind # "create"
      PROVE  Cardinality({row \in journal' : row.id = q}) = 1
  <2>1. CASE q = r
    <3>1. {row \in journal' : row.id = q} = {Entry(r)}
      BY <1>3, <1>4, <1>6, <2>1
    <3> QED
      BY <3>1, FS_Singleton
  <2>2. CASE q # r
    <3>1. {row \in journal' : row.id = q} = {row \in journal : row.id = q}
      BY <1>3, <1>4, <2>2
    <3> QED
      BY <1>1, <1>2, <1>6, <2>2, <3>1 DEF AnswerIsRecorded
  <2> QED
    BY <2>1, <2>2
<1> QED
  BY <1>1, <1>5, <1>6 DEF AnswerIsRecorded

(* A transfer moves its amount from one wallet to another.                 *)
LEMMA TransferBooks ==
  ASSUME IInv, IInv', BooksInv, NEW r \in Reqs, NEW answer \in {"ok", "failed"}, Commit(r, answer),
         call[r].kind = "transfer"
  PROVE  Conservation' /\ JournalExplainsBalances' /\ IsFiniteSet(journal') /\ IsFiniteSet(Opened)'
<1> USE LedgerAssumption DEF LedgerAssumption
<1> DEFINE u == call[r].actor
           v == Payee(r)
           a == Amount(r)
           x == Entry(r)
<1>1. /\ TypeOK /\ TypeOK' /\ Transferred(r) /\ a \in Int
      /\ balance' = [w \in Wallets |-> balance[w] + DeltaOf(r)[w]]
      /\ \A row \in journal : row.id # r
  BY CommitFacts DEF IInv
<1>2. u \in Wallets /\ v \in Wallets /\ ~Settlement(r) /\ Credited(r)
      /\ escrow' = escrow /\ journal' = journal \cup {x}
  BY <1>1 DEF Transferred, Covers
<1>3. \A w \in Wallets : balance'[w] = balance[w] + ((IF w = v THEN a ELSE 0) - (IF w = u THEN a ELSE 0))
  BY <1>1, <1>2 DEF DeltaOf
<1>4. x.id = r /\ x.from = u /\ x.to = v /\ x.amount = a /\ x.type = "transfer" /\ x \notin journal
  BY <1>1, <1>2 DEF Entry, Payer, Settlement, EntryType
<1>5. \A row \in journal' : row.amount \in Int
  BY <1>1 DEF TypeOK, EntryRowType
<1> HIDE DEF u, v, a, x
<1>6. IsFiniteSet(journal') /\ IsFiniteSet(Opened)'
  BY <1>2, FS_AddElement DEF BooksInv, Opened
<1>7. Conservation'
  <2>1. SumFunction(balance') = SumFunction(balance)
    <3> HIDE LedgerAssumption DEF LedgerAssumption
    <3>1. v \in Wallets /\ u \in Wallets /\ a \in Int /\ TypeOK /\ TypeOK'
      BY <1>1, <1>2
    <3> QED
      BY <1>3, <3>1, SumMoves
  <2>2. SumFunction(balance) \in Int
    BY BooksTypes
  <2> QED
    BY <1>1, <1>2, <2>1, <2>2 DEF BooksInv, BooksBalance, Conservation
<1>8. ASSUME NEW w \in Wallets
      PROVE  balance'[w] = Opening[w] + Flow(Received(w)') - Flow(Sent(w)') - SumFunctionOnSet(Worth', Bought(w)')
  <2>1. balance[w] = Opening[w] + Flow(Received(w)) - Flow(Sent(w)) - SumFunctionOnSet(Worth, Bought(w))
    BY DEF BooksInv, BooksBalance, JournalExplainsBalances, Received, Sent, Worth, Bought
  <2>2. Worth' = Worth /\ Bought(w)' = Bought(w)
    BY <1>2 DEF Worth, Bought
  <2>3. /\ Received(w)' = IF w = v THEN Received(w) \cup {x} ELSE Received(w)
        /\ Sent(w)' = IF w = u THEN Sent(w) \cup {x} ELSE Sent(w)
        /\ x \notin Received(w) /\ x \notin Sent(w)
    BY <1>2, <1>4 DEF Received, Sent
  <2>4. /\ IsFiniteSet(Received(w)) /\ IsFiniteSet(Sent(w)) /\ IsFiniteSet(Bought(w))
        /\ Bought(w) \in SUBSET Reqs /\ Worth \in [Reqs -> Int]
    BY BooksTypes DEF Bought
  <2>5. /\ \A row \in Received(w) \cup {x} : row.amount \in Int
        /\ \A row \in Sent(w) \cup {x} : row.amount \in Int
    BY <1>2, <1>5 DEF Received, Sent
  <2>6. /\ Flow(Received(w) \cup {x}) = a + Flow(Received(w)) /\ Flow(Received(w)) \in Int
        /\ Flow(Sent(w) \cup {x}) = a + Flow(Sent(w)) /\ Flow(Sent(w)) \in Int
    BY <1>4, <2>3, <2>4, <2>5, FlowAdds
  <2>7. SumFunctionOnSet(Worth, Bought(w)) \in Int /\ balance[w] \in Int /\ Opening[w] \in Int
    BY <1>1, <2>4, SumIsInt DEF TypeOK
  <2>8. /\ Flow(Received(w)') = Flow(Received(w)) + (IF w = v THEN a ELSE 0)
        /\ Flow(Sent(w)') = Flow(Sent(w)) + (IF w = u THEN a ELSE 0)
    BY <1>1, <2>3, <2>6
  <2> QED
    BY <1>1, <1>3, <2>1, <2>2, <2>6, <2>7, <2>8
<1> QED
  BY <1>6, <1>7, <1>8 DEF JournalExplainsBalances, Received, Sent, Worth, Bought

(* A reservation turns a wallet's money into an escrow that was not there. *)
LEMMA ReserveBooks ==
  ASSUME IInv, IInv', BooksInv, NEW r \in Reqs, NEW answer \in {"ok", "failed"}, Commit(r, answer),
         call[r].kind = "create"
  PROVE  Conservation' /\ JournalExplainsBalances' /\ IsFiniteSet(journal') /\ IsFiniteSet(Opened)'
<1> USE LedgerAssumption DEF LedgerAssumption
<1> DEFINE u == call[r].actor
           a == Amount(r)
<1>1. /\ TypeOK /\ TypeOK' /\ Reserved(r) /\ a \in Int /\ escrow[r] = NoEscrow
      /\ balance' = [w \in Wallets |-> balance[w] + DeltaOf(r)[w]]
  BY CommitFacts DEF IInv
<1>2. u \in Wallets /\ ~Settlement(r) /\ ~Credited(r) /\ journal' = journal
  BY <1>1 DEF Reserved, Covers
<1>3. \A w \in Wallets : balance'[w] = balance[w] - (IF w = u THEN a ELSE 0)
  <2>1. \A w \in Wallets : balance[w] \in Int /\ balance'[w] = balance[w] + DeltaOf(r)[w]
    BY <1>1 DEF TypeOK
  <2>2. \A w \in Wallets : DeltaOf(r)[w] = 0 - (IF w = u THEN a ELSE 0)
    BY <1>1, <1>2 DEF DeltaOf
  <2> HIDE DEF u, a
  <2> QED
    BY <1>1, <2>1, <2>2
<1>4. /\ escrow'[r].status = "held" /\ escrow'[r].buyer = u /\ escrow'[r].amount = a
      /\ \A e \in Reqs \ {r} : escrow'[e] = escrow[e]
  BY <1>1 DEF Reserved, NewEscrow, TypeOK
<1>5. /\ Worth \in [Reqs -> Int] /\ Worth' \in [Reqs -> Int] /\ Worth'[r] = a
      /\ \A e \in Reqs \ {r} : Worth'[e] = Worth[e]
  BY <1>1, <1>4, BooksTypes DEF Worth, TypeOK, RowType
<1>6. escrow[r].status = "none" /\ escrow[r].buyer \notin Wallets
  BY <1>1 DEF NoEscrow
<1> HIDE DEF u, a
<1>7. IsFiniteSet(journal') /\ IsFiniteSet(Opened)'
  <2>1. Opened' = Opened \cup {r}
    BY <1>4 DEF Opened
  <2> QED
    BY <1>2, <2>1, FS_AddElement DEF BooksInv
<1>8. ASSUME NEW S \in SUBSET Reqs, IsFiniteSet(S), r \notin S
      PROVE  /\ SumFunctionOnSet(Worth', S) = SumFunctionOnSet(Worth, S)
             /\ SumFunctionOnSet(Worth', S \cup {r}) = a + SumFunctionOnSet(Worth, S)
             /\ SumFunctionOnSet(Worth, S) \in Int
  <2>1. \A e \in S : Worth'[e] = Worth[e]
    BY <1>5, <1>8
  <2>2. SumFunctionOnSet(Worth', S) = SumFunctionOnSet(Worth, S)
    BY <1>8, <2>1, SumAlike
  <2>3. SumFunctionOnSet(Worth', S \cup {r}) = Worth'[r] + SumFunctionOnSet(Worth', S)
    BY <1>5, <1>8, SumAdds
  <2>4. SumFunctionOnSet(Worth, S) \in Int
    BY <1>5, <1>8, SumIsInt
  <2> QED
    BY <1>5, <2>2, <2>3, <2>4
<1>9. Conservation'
  <2>1. SumFunction(balance') = SumFunction(balance) + (balance'[u] - balance[u])
    <3>1. \A w \in Wallets \ {u} : balance'[w] = balance[w]
      BY <1>1, <1>3 DEF TypeOK
    <3> QED
      BY <1>1, <1>2, <3>1, SumChangesAt
  <2>2. SumFunction(balance) \in Int /\ balance'[u] - balance[u] = 0 - a
    BY <1>1, <1>2, <1>3, BooksTypes DEF TypeOK
  <2>3. Held' = Held \cup {r} /\ r \notin Held /\ Held \in SUBSET Reqs /\ IsFiniteSet(Held)
    BY <1>4, <1>6, BooksTypes DEF Held
  <2>4. SumFunctionOnSet(Worth', Held') = a + SumFunctionOnSet(Worth, Held)
        /\ SumFunctionOnSet(Worth, Held) \in Int
    BY <1>8, <2>3
  <2>5. SumFunction(balance) + SumFunctionOnSet(Worth, Held) = SumFunction(Opening)
    BY DEF BooksInv, BooksBalance, Conservation, Worth, Held
  <2>6. SumFunction(balance') + SumFunctionOnSet(Worth', Held') = SumFunction(Opening)
    BY <1>1, <2>1, <2>2, <2>4, <2>5
  <2> QED
    BY <2>6 DEF Conservation, Worth, Held
<1>10. ASSUME NEW w \in Wallets
      PROVE  balance'[w] = Opening[w] + Flow(Received(w)') - Flow(Sent(w)') - SumFunctionOnSet(Worth', Bought(w)')
  <2>1. balance[w] = Opening[w] + Flow(Received(w)) - Flow(Sent(w)) - SumFunctionOnSet(Worth, Bought(w))
    BY DEF BooksInv, BooksBalance, JournalExplainsBalances, Received, Sent, Worth, Bought
  <2>2. Received(w)' = Received(w) /\ Sent(w)' = Sent(w)
    BY <1>2 DEF Received, Sent
  <2>3. /\ Bought(w)' = IF w = u THEN Bought(w) \cup {r} ELSE Bought(w)
        /\ r \notin Bought(w) /\ Bought(w) \in SUBSET Reqs /\ IsFiniteSet(Bought(w))
    <3>1. \A e \in Reqs : escrow'[e].buyer = w <=> (e # r /\ escrow[e].buyer = w) \/ (e = r /\ w = u)
      BY <1>4
    <3>2. r \notin Bought(w) /\ Bought(w) \in SUBSET Reqs
      BY <1>6 DEF Bought
    <3>3. Bought(w)' = IF w = u THEN Bought(w) \cup {r} ELSE Bought(w)
      BY <1>6, <3>1 DEF Bought
    <3> QED
      BY <3>2, <3>3, BooksTypes
  <2>4. /\ SumFunctionOnSet(Worth', Bought(w)) = SumFunctionOnSet(Worth, Bought(w))
        /\ SumFunctionOnSet(Worth', Bought(w) \cup {r}) = a + SumFunctionOnSet(Worth, Bought(w))
        /\ SumFunctionOnSet(Worth, Bought(w)) \in Int
    BY <1>8, <2>3
  <2>5. SumFunctionOnSet(Worth', Bought(w)') = SumFunctionOnSet(Worth, Bought(w)) + (IF w = u THEN a ELSE 0)
    BY <1>1, <2>3, <2>4
  <2>6. Flow(Received(w)) \in Int /\ Flow(Sent(w)) \in Int
    <3>1. /\ \A row \in Received(w) : row.amount \in Int
          /\ \A row \in Sent(w) : row.amount \in Int
      BY <1>1 DEF TypeOK, EntryRowType, Received, Sent
    <3> QED
      BY <3>1, BooksTypes, FlowIsInt
  <2>7. balance[w] \in Int /\ Opening[w] \in Int
    BY <1>1 DEF TypeOK
  <2> QED
    BY <1>1, <1>3, <2>1, <2>2, <2>4, <2>5, <2>6, <2>7
<1> QED
  BY <1>7, <1>9, <1>10 DEF JournalExplainsBalances, Received, Sent, Worth, Bought

(* A settlement turns a held escrow into a wallet's money, by a row that   *)
(* names whom it was paid to.                                              *)
LEMMA SettleBooks ==
  ASSUME IInv, IInv', BooksInv, NEW r \in Reqs, NEW answer \in {"ok", "failed"}, Commit(r, answer),
         Settlement(r)
  PROVE  Conservation' /\ JournalExplainsBalances' /\ IsFiniteSet(journal') /\ IsFiniteSet(Opened)'
<1> USE LedgerAssumption DEF LedgerAssumption
<1> DEFINE e == call[r].escrow
           v == Payee(r)
           a == Amount(r)
           x == Entry(r)
<1>1. /\ TypeOK /\ TypeOK' /\ SettledBy(r, e) /\ a \in Int /\ e \in Reqs
      /\ balance' = [w \in Wallets |-> balance[w] + DeltaOf(r)[w]]
      /\ \A row \in journal : row.id # r
  BY CommitFacts, CallFacts DEF IInv
<1>2. /\ v \in Wallets /\ Credited(r) /\ journal' = journal \cup {x}
      /\ escrow[e].status = "held" /\ a = escrow[e].amount
  BY <1>1 DEF SettledBy
<1>3. \A w \in Wallets : balance'[w] = balance[w] + (IF w = v THEN a ELSE 0)
  <2>1. \A w \in Wallets : balance[w] \in Int /\ balance'[w] = balance[w] + DeltaOf(r)[w]
    BY <1>1 DEF TypeOK
  <2>2. \A w \in Wallets : DeltaOf(r)[w] = IF w = v THEN a ELSE 0
    BY <1>1, <1>2 DEF DeltaOf
  <2> HIDE DEF v, a
  <2> QED
    BY <1>1, <2>1, <2>2
<1>4. x.id = r /\ x.to = v /\ x.amount = a /\ x.type # "transfer" /\ x \notin journal
  BY <1>1, <1>2 DEF Entry, Settlement, EntryType
<1>5. \A row \in journal' : row.amount \in Int
  BY <1>1 DEF TypeOK, EntryRowType
<1>6. /\ escrow'[e].status \notin {"held", "none"}
      /\ escrow'[e].buyer = escrow[e].buyer /\ escrow'[e].amount = escrow[e].amount
      /\ \A f \in Reqs \ {e} : escrow'[f] = escrow[f]
  BY <1>1 DEF SettledBy, Outcome, TypeOK, RowType
<1> HIDE DEF e, v, a, x
<1>7. /\ Worth \in [Reqs -> Int] /\ Worth' = Worth /\ Worth[e] = a
      /\ Held' = Held \ {e} /\ e \in Held /\ Held \in SUBSET Reqs /\ Opened' = Opened
  BY <1>1, <1>2, <1>6, BooksTypes DEF Worth, Held, Opened
<1>8. IsFiniteSet(journal') /\ IsFiniteSet(Opened)'
  BY <1>2, <1>7, FS_AddElement DEF BooksInv
<1>9. Conservation'
  <2>1. SumFunction(balance') = SumFunction(balance) + (balance'[v] - balance[v])
    <3>1. \A w \in Wallets \ {v} : balance'[w] = balance[w]
      BY <1>1, <1>3 DEF TypeOK
    <3> QED
      BY <1>1, <1>2, <3>1, SumChangesAt
  <2>2. SumFunction(balance) \in Int /\ IsFiniteSet(Held) /\ balance'[v] - balance[v] = a
    BY <1>1, <1>2, <1>3, BooksTypes DEF TypeOK
  <2>3. SumFunctionOnSet(Worth, Held) = Worth[e] + SumFunctionOnSet(Worth, Held \ {e})
    BY <1>7, <2>2, SumWithout
  <2>4. SumFunctionOnSet(Worth, Held \ {e}) \in Int
    <3>1. Held \ {e} \in SUBSET Reqs /\ IsFiniteSet(Held \ {e})
      BY <1>7, <2>2, FS_Subset
    <3> QED
      BY <1>7, <3>1, SumIsInt
  <2>5. SumFunction(balance) + SumFunctionOnSet(Worth, Held) = SumFunction(Opening)
    BY DEF BooksInv, BooksBalance, Conservation, Worth, Held
  <2>6. SumFunction(balance') + SumFunctionOnSet(Worth', Held') = SumFunction(Opening)
    BY <1>1, <1>7, <2>1, <2>2, <2>3, <2>4, <2>5
  <2> QED
    BY <2>6 DEF Conservation, Worth, Held
<1>10. ASSUME NEW w \in Wallets
      PROVE  balance'[w] = Opening[w] + Flow(Received(w)') - Flow(Sent(w)') - SumFunctionOnSet(Worth', Bought(w)')
  <2>1. balance[w] = Opening[w] + Flow(Received(w)) - Flow(Sent(w)) - SumFunctionOnSet(Worth, Bought(w))
    BY DEF BooksInv, BooksBalance, JournalExplainsBalances, Received, Sent, Worth, Bought
  <2>2. Bought(w)' = Bought(w)
    BY <1>6 DEF Bought
  <2>3. /\ Received(w)' = IF w = v THEN Received(w) \cup {x} ELSE Received(w)
        /\ x \notin Received(w) /\ Sent(w)' = Sent(w)
    BY <1>2, <1>4 DEF Received, Sent
  <2>4. /\ IsFiniteSet(Received(w)) /\ IsFiniteSet(Sent(w)) /\ IsFiniteSet(Bought(w))
        /\ Bought(w) \in SUBSET Reqs
    BY BooksTypes DEF Bought
  <2>5. \A row \in Received(w) \cup {x} : row.amount \in Int
    BY <1>2, <1>5 DEF Received
  <2>6. Flow(Received(w) \cup {x}) = a + Flow(Received(w)) /\ Flow(Received(w)) \in Int
    BY <1>4, <2>3, <2>4, <2>5, FlowAdds
  <2>7. SumFunctionOnSet(Worth, Bought(w)) \in Int /\ balance[w] \in Int /\ Opening[w] \in Int
    BY <1>1, <1>7, <2>4, SumIsInt DEF TypeOK
  <2>8. Flow(Received(w)') = Flow(Received(w)) + (IF w = v THEN a ELSE 0)
    BY <1>1, <2>3, <2>6
  <2>9. Flow(Sent(w)) \in Int
    <3>1. \A row \in Sent(w) : row.amount \in Int
      BY <1>1 DEF TypeOK, EntryRowType, Sent
    <3> QED
      BY <2>4, <3>1, FlowIsInt
  <2> QED
    BY <1>1, <1>3, <1>7, <2>1, <2>2, <2>3, <2>6, <2>7, <2>8, <2>9
<1> QED
  BY <1>8, <1>9, <1>10 DEF JournalExplainsBalances, Received, Sent, Worth, Bought

(* One step of any kind keeps the books.                                   *)
LEMMA BooksNext == IInv /\ IInv' /\ BooksInv /\ [Next]_vars => BooksInv'
<1> SUFFICES ASSUME IInv, IInv', BooksInv, [Next]_vars PROVE BooksInv'
  OBVIOUS
<1>1. TypeOK
  BY DEF IInv
<1>2. ASSUME NEW r \in Reqs, NEW answer \in {"ok", "failed"}, Commit(r, answer) PROVE BooksInv'
  <2>1. call[r].kind = "transfer" \/ call[r].kind = "create" \/ Settlement(r)
    BY <1>1, CallFacts DEF Kinds, Settlement
  <2>2. Conservation' /\ JournalExplainsBalances' /\ IsFiniteSet(journal') /\ IsFiniteSet(Opened)'
    BY <1>2, <2>1, TransferBooks, ReserveBooks, SettleBooks
  <2>3. AnswerIsRecorded'
    BY <1>2, CommitAnswers
  <2> QED
    BY <2>2, <2>3 DEF BooksInv, BooksBalance
<1> DEFINE Quiet == UNCHANGED tables /\ \A q \in Reqs : pc'[q] = "ok" => pc[q] = "ok" /\ call'[q] = call[q]
<1>3. Quiet => BooksInv'
  BY BooksFrame
<1>4. ASSUME NEW r \in Reqs, NEW c \in Calls, Submit(r, c) PROVE Quiet
  BY <1>1, <1>4 DEF Submit, TypeOK, First
<1>5. ASSUME NEW r \in Reqs, Rollback(r) PROVE Quiet
  BY <1>1, <1>5 DEF Rollback, TypeOK
<1>6. ASSUME NEW r \in Reqs, Debit(r) \/ SettleRow(r) \/ Credit(r) \/ Record(r) PROVE Quiet
  <2>1. UNCHANGED tables /\ call' = call
    BY <1>6 DEF Debit, SettleRow, Credit, Record
  <2>2. PICK s : s # "ok" /\ pc' = [pc EXCEPT ![r] = s]
    <3>1. (IF call[r].kind = "create" THEN "record" ELSE "credit") # "ok"
      OBVIOUS
    <3> QED
      BY <1>6, <3>1 DEF Debit, SettleRow, Credit, Record
  <2> QED
    BY <1>1, <2>1, <2>2 DEF TypeOK
<1>7. CASE UNCHANGED vars
  BY <1>3, <1>7 DEF vars
<1> HIDE DEF Quiet
<1>8. ASSUME NEW r \in Reqs, Step(r) \/ Commit(r, "failed") \/ Abort(r) PROVE BooksInv'
  BY <1>2, <1>3, <1>5, <1>6, <1>8
     DEF Step, DebitMiss, SettleMiss, CreditMiss, RecordMiss, DetectDeadlock, Abort
<1> QED
  BY <1>3, <1>4, <1>7, <1>8 DEF Next, Finished

(* Whatever interleaves, aborts or loses its answer: money is neither made *)
(* nor lost, the journal and the escrows explain every balance, and an     *)
(* answer "ok" is one entry of them.                                       *)
THEOREM BooksAlwaysBalance == Spec => []BooksBalance
<1>1. Spec => []BooksInv
  BY Inductive, BooksInit, BooksNext, PTL DEF Spec
<1>2. BooksInv => BooksBalance
  BY DEF BooksInv
<1> QED
  BY <1>1, <1>2, PTL
=============================================================================
