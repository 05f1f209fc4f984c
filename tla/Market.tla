------------------------------- MODULE Market -------------------------------
(***************************************************************************)
(* Purchases (backend/internal/modules/marketplace): the service checks    *)
(* each line of a cart against what it reads, and the repository reserves  *)
(* the lines one after the other in a transaction that keeps the rows it   *)
(* updated locked until it ends.  A stock of 0 means no limit, also the 0  *)
(* that sales have left.                                                   *)
(***************************************************************************)
EXTENDS Integers, Sequences, FiniteSets, FiniteSetsExt, Relation

CONSTANTS
  Purchases,   \* the purchases that are made
  Products,
  Cart,        \* the lines of each: sequences of [product, quantity]
  Price,       \* the price each is offered at; PostProduct refuses one below 1
  InitialStock,
  ListedAtFirst,
  MaxAmount,   \* the largest amount: 2^31 - 1
  Nobody

ASSUME MarketAssumption ==
  /\ Nobody \notin Purchases /\ MaxAmount \in Nat
  /\ Price \in [Products -> Nat] /\ InitialStock \in [Products -> Nat]
  /\ ListedAtFirst \subseteq {p \in Products : Price[p] > 0}
  /\ Cart \in [Purchases -> Seq([product: Products, quantity: Nat \ {0}]) \ {<<>>}]

VARIABLES
  stock,    \* products.stock_quantity, as committed
  offered,  \* the rows of products
  browsed,  \* the answer to one who browsed: [product, left]
  locked,   \* the transaction that holds each row of products
  sale      \* each purchase: where it is, its line, its sum and what it has reserved

marketVars == <<stock, offered, browsed, locked, sale>>

NoneReserved == [p \in Products |-> 0]
Fresh == [pc |-> "idle", line |-> 1, total |-> 0, taken |-> NoneReserved]

MarketInit ==
  /\ stock = InitialStock /\ offered = ListedAtFirst /\ browsed = {}
  /\ locked = [p \in Products |-> Nobody]
  /\ sale = [b \in Purchases |-> Fresh]

(* The row of a posted product: an integer price above 0.                  *)
CreateProduct(p) == offered' = offered \cup {p}
PostProduct(p) ==
  /\ p \notin offered /\ Price[p] > 0
  /\ CreateProduct(p)
  /\ UNCHANGED <<stock, browsed, locked, sale>>

(* Every product, as committed, is shown to one who browses or searches.   *)
ListProducts == {[product |-> p, left |-> stock[p]] : p \in offered}
SearchProducts ==
  /\ browsed = {} /\ browsed' = ListProducts
  /\ UNCHANGED <<stock, offered, locked, sale>>

Line(b) == Cart[b][sale[b].line]
LastLine(b) == sale[b].line = Len(Cart[b])
LineTotal(b) == Price[Line(b).product] * Line(b).quantity
Overflows(b) == sale[b].total > MaxAmount - LineTotal(b)

(* On to the next line, or from the last one to pc.                        *)
Advance(b, pc, taken) ==
  sale' = [sale EXCEPT ![b] =
    IF LastLine(b)
    THEN [pc |-> pc, line |-> 1, total |-> IF pc = "reserve" THEN 0 ELSE sale[b].total + LineTotal(b),
          taken |-> taken]
    ELSE [sale[b] EXCEPT !.line = @ + 1, !.total = @ + LineTotal(b), !.taken = taken]]

Unlocked(b) == [p \in Products |-> IF locked[p] = b THEN Nobody ELSE locked[p]]

(* Mutant: the transaction of a failed order stays open.                   *)
AbortOnly(b) ==
  /\ sale' = [sale EXCEPT ![b].pc = "failed", ![b].taken = NoneReserved]
  /\ UNCHANGED <<stock, offered, browsed, locked>>

(* The purchase fails; the deferred rollback undoes and unlocks.           *)
Abort(b) ==
  /\ sale' = [sale EXCEPT ![b].pc = "failed", ![b].taken = NoneReserved]
  /\ locked' = Unlocked(b)
  /\ UNCHANGED <<stock, offered, browsed>>

Start(b) ==
  /\ sale[b].pc = "idle" /\ sale' = [sale EXCEPT ![b].pc = "check"]
  /\ UNCHANGED <<stock, offered, browsed, locked>>

(* What GetProduct reads has no lock, and another sale may follow it.      *)
Lacks(b) ==
  \/ Line(b).product \notin offered
  \/ stock[Line(b).product] \in 1..(Line(b).quantity - 1)

(* The checks of the service on what it has read.                          *)
Check(b) ==
  /\ sale[b].pc = "check"
  /\ IF Lacks(b) \/ Overflows(b) THEN Abort(b)
     ELSE Advance(b, "reserve", NoneReserved) /\ UNCHANGED <<stock, offered, browsed, locked>>

Unheld(b, p) == locked[p] \in {b, Nobody}
Visible(b, p) == stock[p] - sale[b].taken[p]

(* Mutant: the service's check is taken to be enough.                      *)
AlwaysSuffices(has, quantity) == TRUE

(* The WHERE clause of the reserving UPDATE.                               *)
Suffices(has, quantity) == has = 0 \/ has >= quantity

(* UPDATE products ... RETURNING id, price waits for the row, and sees     *)
(* what was committed and what its own transaction has done.               *)
Reserve(b) ==
  /\ sale[b].pc = "reserve" /\ Unheld(b, Line(b).product)
  /\ LET p == Line(b).product
         has == Visible(b, p)
     IN  IF ~Suffices(has, Line(b).quantity) \/ Overflows(b) THEN Abort(b)
         ELSE /\ locked' = [locked EXCEPT ![p] = b]
              /\ Advance(b, "insert", [sale[b].taken EXCEPT ![p] = IF has = 0 THEN @ ELSE @ + Line(b).quantity])
              /\ UNCHANGED <<stock, offered, browsed>>

(* A transaction that waits in a circle is ended by the database.          *)
WaitsFor ==
  [b, d \in Purchases |-> b # d /\ sale[b].pc = "reserve" /\ locked[Line(b).product] = d]
BreakDeadlock(b) ==
  /\ sale[b].pc = "reserve" /\ TransitiveClosure(WaitsFor, Purchases)[b, b]
  /\ Abort(b)

(* The order and its items are inserted and the transaction commits; the   *)
(* answer may still be lost.                                               *)
Commit(b) ==
  /\ sale[b].pc = "insert"
  /\ stock' = [p \in Products |-> stock[p] - sale[b].taken[p]]
  /\ locked' = Unlocked(b)
  /\ sale' = [sale EXCEPT ![b].pc = "ordered"]
  /\ UNCHANGED <<offered, browsed>>

(* A statement fails, or the process dies.                                 *)
Fail(b) == sale[b].pc \in {"check", "reserve", "insert"} /\ Abort(b)

Serve(b) == Check(b) \/ Reserve(b) \/ Commit(b) \/ BreakDeadlock(b)

Over == (\A b \in Purchases : sale[b].pc \in {"ordered", "failed"}) /\ UNCHANGED marketVars

MarketNext ==
  \/ \E b \in Purchases : Start(b) \/ Serve(b) \/ Fail(b)
  \/ \E p \in Products : PostProduct(p)
  \/ SearchProducts
  \/ Over

(* A handler that has begun goes on, and Postgres ends a deadlock.         *)
MarketFairness == \A b \in Purchases : WF_marketVars(Serve(b))

-----------------------------------------------------------------------------
(* Correctness                                                             *)

Ordered == {b \in Purchases : sale[b].pc = "ordered"}
Wanted(b, p) == [i \in DOMAIN Cart[b] |-> IF Cart[b][i].product = p THEN Cart[b][i].quantity ELSE 0]
Asked(b, p) == SumFunctionOnSet(Wanted(b, p), DOMAIN Cart[b])
Sold(p) == SumFunctionOnSet([b \in Purchases |-> Asked(b, p)], Ordered)

(* What is gone from a stock was sold, and all of it: as long as some is   *)
(* left, sales and stock make up the initial stock, and none is left only  *)
(* after at least all of it was sold.  An order's amount fits its column,  *)
(* its products were posted, and a browser saw no less than is left.       *)
StockIsSold ==
  /\ \A b \in Ordered : sale[b].total <= MaxAmount
  /\ \A p \in Products : Sold(p) > 0 => p \in offered
  /\ \A s \in browsed : s.product \in offered /\ s.left \in stock[s.product]..InitialStock[s.product]
  /\ \A p \in Products :
       /\ stock[p] > 0 => stock[p] + Sold(p) = InitialStock[p]
       /\ stock[p] = 0 => Sold(p) >= InitialStock[p]
       /\ stock[p] >= 0

(* No purchase waits for ever for rows of another, however the carts are   *)
(* ordered: those that have begun come to their end.                       *)
PurchasesEnd == <>[](\A b \in Purchases : sale[b].pc \in {"idle", "ordered", "failed"})
=============================================================================
