------------------------------ MODULE UpgradeOrder ------------------------------
(***************************************************************************)
(* Work orders to promote one word of one wordbook ahead of time: mark,    *)
(* start, cancel, complete.  The order is read without a lock and written  *)
(* without a condition, so that an operation is split between the two; to  *)
(* complete takes three transactions (read, promote, close), between which *)
(* a request may die.  The word may be promoted otherwise meanwhile.       *)
(*                                                                         *)
(* An error inside a transaction aborts it: what the code asks afterwards, *)
(* in its handler of the unique violation, fails too, and so does the call.*)
(* Directions, suggestions and the arithmetic of seeds are left out.       *)
(***************************************************************************)
EXTENDS Naturals

CONSTANTS
  Orders,     \* ids of work orders of the word
  Clients,    \* requests that may overlap
  MaxOrderCalls    \* bound: calls made

ASSUME UpgradeAssumption == MaxOrderCalls \in Nat /\ "none" \notin Orders

VARIABLES
  status,   \* upgrade_work_orders.status, "none" without a row
  card,     \* is there an L1 row
  l2,       \* the L2 row of this book: where its values come from, its seed logs
  elsewhere,\* another book of the user has an L2 row of the word
  req,      \* per request: where it is, the order, and what it read
  orderCalls

orderVars == <<status, card, l2, elsewhere, req, orderCalls>>

Request ==
  [at : {"free", "refresh", "insert", "start", "cancel", "promote", "inherit", "close"},
   order : Orders \cup {"none"}, seen : {"none", "marked", "upgrading", "done"}, seed : BOOLEAN]
Busy(at, o) == [at |-> at, order |-> o, seen |-> "none", seed |-> FALSE]
Idle == Busy("free", "none")

OrderStatuses == {"none", "marked", "upgrading", "done", "cancelled"}
Active == {"marked", "upgrading"}
ActiveOrders == {o \in Orders : status[o] \in Active}

OrderInit ==
  /\ status = [o \in Orders |-> "none"]
  /\ card = TRUE /\ elsewhere \in BOOLEAN
  /\ l2 = [source |-> "none", logs |-> 0]
  /\ req = [r \in Clients |-> Idle]
  /\ orderCalls = 0

Becomes(r, rec) == req' = [req EXCEPT ![r] = rec]
Begins(r) == req[r].at = "free" /\ orderCalls < MaxOrderCalls /\ orderCalls' = orderCalls + 1
Ends(r) == Becomes(r, Idle) /\ UNCHANGED orderCalls

(* The partial unique index idx_upgrade_work_orders_one_active. *)
Indexed_MarkedOnly == {"marked"}
Indexed == {"marked", "upgrading"}
Collides(o, s) == s \in Indexed /\ \E other \in Orders \ {o} : status[other] \in Indexed

(* updateStatus: no condition on the status, an error when it collides. *)
UpdateStatus(o, s) == status' = IF Collides(o, s) THEN status ELSE [status EXCEPT ![o] = s]

-----------------------------------------------------------------------------
(* mark *)

MarkRead(r) ==
  /\ Begins(r)
  /\ \/ \E o \in ActiveOrders : Becomes(r, Busy("refresh", o))
     \/ /\ ActiveOrders = {}
        /\ \E o \in Orders : status[o] = "none" /\ Becomes(r, Busy("insert", o))
  /\ UNCHANGED <<status, card, l2, elsewhere>>

(* updateSuggestion leaves the status of the order, whatever it is by now. *)
Refresh(r) ==
  /\ req[r].at = "refresh"
  /\ Ends(r)
  /\ UNCHANGED <<status, card, l2, elsewhere>>

(* An id is drawn at random; the ones of the model are given out in turn.  *)
Insert(r) ==
  /\ req[r].at = "insert"
  /\ status[req[r].order] = "none" => UpdateStatus(req[r].order, "marked")
  /\ status[req[r].order] # "none" => UNCHANGED status
  /\ Ends(r)
  /\ UNCHANGED <<card, l2, elsewhere>>

-----------------------------------------------------------------------------
(* start and cancel *)

StartRead(r, o) ==
  /\ Begins(r)
  /\ status[o] = "marked"
  /\ Becomes(r, Busy("start", o))
  /\ UNCHANGED <<status, card, l2, elsewhere>>

StartWrite(r) ==
  /\ req[r].at = "start"
  /\ UpdateStatus(req[r].order, "upgrading")
  /\ Ends(r)
  /\ UNCHANGED <<card, l2, elsewhere>>

CancelRead(r, o) ==
  /\ Begins(r)
  /\ status[o] \in Active
  /\ Becomes(r, Busy("cancel", o))
  /\ UNCHANGED <<status, card, l2, elsewhere>>

CancelWrite(r) ==
  /\ req[r].at = "cancel"
  /\ UpdateStatus(req[r].order, "cancelled")
  /\ Ends(r)
  /\ UNCHANGED <<card, l2, elsewhere>>

-----------------------------------------------------------------------------
(* complete *)

(* An order that is done may be completed again, and finds its word        *)
(* promoted.                                                               *)
Completable(o) == status[o] \in Active \cup {"done"} /\ card

AfterRead_SeededOnly(seed) == IF seed THEN "promote" ELSE "close"
AfterRead(seed) == "promote"

CompleteRead(r, o) ==
  /\ Begins(r)
  /\ Completable(o)
  /\ Becomes(r, [at |-> AfterRead(elsewhere), order |-> o, seen |-> status[o], seed |-> elsewhere])
  /\ UNCHANGED <<status, card, l2, elsewhere>>

(* promoteWithSeed looks for the row, twice, before it inserts it. *)
PromoteRead(r) ==
  /\ req[r].at = "promote"
  /\ req' = [req EXCEPT ![r].at = IF l2.source = "none" THEN "inherit" ELSE "close"]
  /\ UNCHANGED <<status, card, l2, elsewhere, orderCalls>>

Inherited(seed) ==
  IF seed THEN [source |-> "seed", logs |-> l2.logs + 1]
          ELSE [source |-> "l1", logs |-> l2.logs]

(* The row that another request inserted meanwhile. *)
Occupied_Logged(seed) == IF seed THEN [l2 EXCEPT !.logs = @ + 1] ELSE l2
Occupied(seed) == l2

PromoteWrite(r) ==
  /\ req[r].at = "inherit"
  /\ IF l2.source = "none"
       THEN /\ l2' = Inherited(req[r].seed)
            /\ req' = [req EXCEPT ![r].at = "close"]
       ELSE l2' = Occupied(req[r].seed) /\ Becomes(r, Idle)
  /\ UNCHANGED <<status, card, elsewhere, orderCalls>>

Close(r) ==
  /\ req[r].at = "close"
  /\ IF req[r].seen = "done" THEN UNCHANGED status ELSE UpdateStatus(req[r].order, "done")
  /\ Ends(r)
  /\ UNCHANGED <<card, l2, elsewhere>>

-----------------------------------------------------------------------------

Dies(r) ==
  /\ req[r].at # "free"
  /\ Ends(r)
  /\ UNCHANGED <<status, card, l2, elsewhere>>

(* checkAndTransition of the worker, and promoteNow. *)
PromotedOtherwise ==
  /\ card /\ l2.source = "none"
  /\ l2' = [l2 EXCEPT !.source = "l1"]
  /\ UNCHANGED <<status, card, elsewhere, req, orderCalls>>

(* Removal from the queue deletes the L1 row and leaves the L2 row. *)
CardComesAndGoes ==
  /\ card' = ~card
  /\ UNCHANGED <<status, l2, elsewhere, req, orderCalls>>

PromotedElsewhere ==
  /\ ~elsewhere /\ elsewhere' = TRUE
  /\ UNCHANGED <<status, card, l2, req, orderCalls>>

Step(r) ==
  \/ MarkRead(r) \/ Refresh(r) \/ Insert(r)
  \/ StartWrite(r) \/ CancelWrite(r)
  \/ \E o \in Orders : StartRead(r, o) \/ CancelRead(r, o) \/ CompleteRead(r, o)
  \/ PromoteRead(r) \/ PromoteWrite(r) \/ Close(r)
  \/ Dies(r)

OrderNext ==
  \/ \E r \in Clients : Step(r)
  \/ PromotedOtherwise \/ CardComesAndGoes \/ PromotedElsewhere

OrderSpec == OrderInit /\ [][OrderNext]_orderVars

-----------------------------------------------------------------------------

(* Rows and requests have their types. *)
OrderTypeOK ==
  /\ status \in [Orders -> OrderStatuses]
  /\ card \in BOOLEAN /\ elsewhere \in BOOLEAN
  /\ l2 \in [source : {"none", "l1", "seed"}, logs : 0..1]
  /\ req \in [Clients -> Request]
  /\ orderCalls \in 0..MaxOrderCalls

(* A word has at most one order in progress, though orders are marked,     *)
(* started and cancelled by requests that read before the others wrote: a  *)
(* start that comes after a cancel and a new mark must not make a second.  *)
OneActiveOrder == \A a, b \in ActiveOrders : a = b

(* An order that says done has its word promoted, wherever the request     *)
(* that completed it, or an earlier one, died between its transactions.    *)
DoneIsPromoted == (\E o \in Orders : status[o] = "done") => l2.source # "none"

(* The log tells of a seed exactly when the row was made from one: neither *)
(* for a promotion that found the row there, nor twice for two requests.   *)
SeedsAreLogged == l2.logs = (IF l2.source = "seed" THEN 1 ELSE 0)
=============================================================================
