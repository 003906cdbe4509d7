---------------------------- MODULE ServicesProofs ----------------------------
(* Theorems about the components that MCServices puts side by side, each of  *)
(* its own specification: the upgrade orders, the study shelf (EXTENDed),    *)
(* the capture diary (Diary), the ladder session (Ladder) and the page of    *)
(* topics (Board).                                                          *)
EXTENDS MCServices, FiniteSetTheorems, SequenceTheorems, WellFoundedInduction, TLAPS

-----------------------------------------------------------------------------
(* Work orders                                                              *)

(* Whoever is about to close an order has seen the word promoted; whoever  *)
(* is busy is so with an order.                                            *)
ClosersSawPromotion == \A r \in Clients : req[r].at = "close" => l2.source # "none"
BusyWithOrder == \A r \in Clients : req[r].at # "free" => req[r].order \in Orders

OrderInv ==
  /\ OrderTypeOK /\ OneActiveOrder /\ DoneIsPromoted /\ SeedsAreLogged
  /\ ClosersSawPromotion /\ BusyWithOrder

LEMMA OrderInitInv == OrderInit => OrderInv
  BY UpgradeAssumption
  DEF OrderInit, OrderInv, OrderTypeOK, OneActiveOrder, DoneIsPromoted, SeedsAreLogged, ClosersSawPromotion,
      BusyWithOrder, ActiveOrders, Active, OrderStatuses, Request, Idle, Busy

(* A request goes on: what that does to the requests as a whole.           *)
LEMMA Going ==
  ASSUME OrderInv, NEW r \in Clients, NEW rec \in Request, Becomes(r, rec),
         rec.at # "free" => rec.order \in Orders,
         rec.at = "close" => l2.source # "none",
         l2.source # "none" => l2'.source # "none"
  PROVE  req' \in [Clients -> Request] /\ ClosersSawPromotion' /\ BusyWithOrder'
  BY DEF OrderInv, OrderTypeOK, Becomes, ClosersSawPromotion, BusyWithOrder

LEMMA FreeIsRequest == Idle \in Request /\ Idle.at = "free"
  BY DEF Idle, Busy, Request

(* The status of an order is written: the index keeps the active one, and  *)
(* only who writes "done" makes one.                                       *)
LEMMA StatusWrites ==
  ASSUME OrderTypeOK, OneActiveOrder, NEW o \in Orders, NEW s \in OrderStatuses, UpdateStatus(o, s)
  PROVE  /\ status' \in [Orders -> OrderStatuses]
         /\ OneActiveOrder'
         /\ (\E a \in Orders : status'[a] = "done") => s = "done" \/ \E a \in Orders : status[a] = "done"
  BY DEF OrderTypeOK, OneActiveOrder, ActiveOrders, Active, UpdateStatus, Collides, Indexed

(* A step that writes neither a status nor the L2 row.                     *)
LEMMA QuietStep ==
  ASSUME OrderInv, UNCHANGED <<status, l2>>, card' \in BOOLEAN, elsewhere' \in BOOLEAN,
         req' \in [Clients -> Request], orderCalls' \in 0..MaxOrderCalls, ClosersSawPromotion', BusyWithOrder'
  PROVE  OrderInv'
  BY DEF OrderInv, OrderTypeOK, OneActiveOrder, DoneIsPromoted, SeedsAreLogged, ActiveOrders, Active

(* Reads and deaths of a request.                                          *)
LEMMA ReadingPreserves ==
  ASSUME OrderInv, NEW r \in Clients, NEW rec \in Request, Becomes(r, rec),
         rec.at # "free" => rec.order \in Orders,
         rec.at = "close" => l2.source # "none",
         Begins(r) \/ UNCHANGED orderCalls,
         UNCHANGED <<status, card, l2, elsewhere>>
  PROVE  OrderInv'
<1>1. req' \in [Clients -> Request] /\ ClosersSawPromotion' /\ BusyWithOrder'
  BY Going
<1>2. orderCalls' \in 0..MaxOrderCalls
  BY UpgradeAssumption DEF OrderInv, OrderTypeOK, Begins
<1> QED
  BY <1>1, <1>2, QuietStep DEF OrderInv, OrderTypeOK

(* A request writes the status of its order and ends.                      *)
LEMMA WritingPreserves ==
  ASSUME OrderInv, NEW r \in Clients, NEW s \in OrderStatuses, req[r].at # "free",
         UpdateStatus(req[r].order, s) \/ UNCHANGED status, Ends(r),
         s = "done" => l2.source # "none",
         UNCHANGED <<card, l2, elsewhere>>
  PROVE  OrderInv'
<1>1. req' \in [Clients -> Request] /\ ClosersSawPromotion' /\ BusyWithOrder'
  BY Going, FreeIsRequest DEF Ends
<1>2. CASE UpdateStatus(req[r].order, s)
  <2>1. req[r].order \in Orders
    BY DEF OrderInv, BusyWithOrder
  <2>2. /\ status' \in [Orders -> OrderStatuses]
        /\ OneActiveOrder'
        /\ (\E a \in Orders : status'[a] = "done") => s = "done" \/ \E a \in Orders : status[a] = "done"
    BY <1>2, <2>1, StatusWrites DEF OrderInv
  <2> QED
    BY <1>1, <2>2 DEF OrderInv, OrderTypeOK, DoneIsPromoted, SeedsAreLogged, Ends
<1>3. CASE UNCHANGED status
  BY <1>1, <1>3, QuietStep DEF OrderInv, OrderTypeOK, Ends
<1> QED
  BY <1>2, <1>3

(* The row that a promotion inserts, or finds inserted.                    *)
LEMMA PromotingPreserves ==
  ASSUME OrderInv, NEW r \in Clients, PromoteWrite(r)
  PROVE  OrderInv'
<1> USE DEF OrderInv
<1>1. CASE l2.source = "none"
  <2>2. /\ l2' \in [source : {"none", "l1", "seed"}, logs : 0..1]
        /\ l2'.source # "none" /\ l2'.logs = (IF l2'.source = "seed" THEN 1 ELSE 0)
    BY <1>1 DEF OrderTypeOK, SeedsAreLogged, PromoteWrite, Inherited
  <2>4. req' \in [Clients -> Request] /\ BusyWithOrder' /\ ClosersSawPromotion'
    BY <1>1, <2>2 DEF OrderTypeOK, Request, PromoteWrite, BusyWithOrder, ClosersSawPromotion
  <2> QED
    BY <2>2, <2>4 DEF PromoteWrite, OrderTypeOK, OneActiveOrder, ActiveOrders, Active, DoneIsPromoted, SeedsAreLogged
<1>2. CASE l2.source # "none"
  BY <1>2, FreeIsRequest, ReadingPreserves DEF PromoteWrite, Occupied
<1> QED
  BY <1>1, <1>2

LEMMA StepPreserves ==
  ASSUME OrderInv, NEW r \in Clients, Step(r)
  PROVE  OrderInv'
<1> USE DEF OrderInv
<1>1. CASE MarkRead(r)
  <2>1. PICK o \in Orders, next \in {"refresh", "insert"} : Becomes(r, Busy(next, o))
    BY <1>1 DEF MarkRead, ActiveOrders
  <2>2. Busy(next, o) \in Request /\ Busy(next, o).order \in Orders /\ Busy(next, o).at # "close"
    BY DEF Busy, Request
  <2> QED
    BY <1>1, <2>1, <2>2, ReadingPreserves DEF MarkRead
<1>2. CASE Refresh(r) \/ Dies(r)
  BY <1>2, FreeIsRequest, ReadingPreserves DEF Refresh, Dies, Ends
<1>3. CASE Insert(r)
  BY <1>3, WritingPreserves DEF Insert, OrderStatuses
<1>4. CASE StartWrite(r)
  BY <1>4, WritingPreserves DEF StartWrite, OrderStatuses
<1>5. CASE CancelWrite(r)
  BY <1>5, WritingPreserves DEF CancelWrite, OrderStatuses
<1>6. ASSUME NEW o \in Orders, StartRead(r, o) \/ CancelRead(r, o)
      PROVE  OrderInv'
  <2>1. PICK next \in {"start", "cancel"} : Becomes(r, Busy(next, o))
    BY <1>6 DEF StartRead, CancelRead
  <2>2. Busy(next, o) \in Request /\ Busy(next, o).order \in Orders /\ Busy(next, o).at # "close"
    BY DEF Busy, Request
  <2> QED
    BY <1>6, <2>1, <2>2, ReadingPreserves DEF StartRead, CancelRead
<1>7. ASSUME NEW o \in Orders, CompleteRead(r, o)
      PROVE  OrderInv'
  <2>1. PICK rec \in Request : Becomes(r, rec) /\ rec.order \in Orders /\ rec.at # "close"
    BY <1>7 DEF CompleteRead, Completable, Active, AfterRead, Request, OrderTypeOK
  <2> QED
    BY <1>7, <2>1, ReadingPreserves DEF CompleteRead
<1>8. CASE PromoteRead(r)
  <2>1. req' \in [Clients -> Request] /\ BusyWithOrder' /\ ClosersSawPromotion'
    BY <1>8 DEF PromoteRead, OrderTypeOK, Request, BusyWithOrder, ClosersSawPromotion
  <2> QED
    BY <1>8, <2>1, QuietStep DEF PromoteRead, OrderTypeOK
<1>9. CASE PromoteWrite(r)
  BY <1>9, PromotingPreserves
<1>10. CASE Close(r)
  BY <1>10, WritingPreserves DEF Close, OrderStatuses, ClosersSawPromotion
<1> QED
  BY <1>1, <1>2, <1>3, <1>4, <1>5, <1>6, <1>7, <1>8, <1>9, <1>10 DEF Step

LEMMA OrderNextInv == OrderInv /\ [OrderNext]_orderVars => OrderInv'
<1> SUFFICES ASSUME OrderInv, [OrderNext]_orderVars PROVE OrderInv'
  OBVIOUS
<1> USE DEF OrderInv
<1>1. CASE PromotedOtherwise
  BY <1>1 DEF PromotedOtherwise, OrderTypeOK, OneActiveOrder, ActiveOrders, Active, DoneIsPromoted,
      SeedsAreLogged, ClosersSawPromotion, BusyWithOrder
<1>2. CASE CardComesAndGoes \/ PromotedElsewhere
  BY <1>2, QuietStep DEF CardComesAndGoes, PromotedElsewhere, OrderTypeOK, ClosersSawPromotion, BusyWithOrder
<1>3. CASE UNCHANGED orderVars
  BY <1>3, QuietStep DEF orderVars, OrderTypeOK, ClosersSawPromotion, BusyWithOrder
<1> QED
  BY <1>1, <1>2, <1>3, StepPreserves DEF OrderNext

(* The invariant of the work orders holds in every behaviour.              *)
THEOREM OrderInvariant == OrderSpec => []OrderInv
  BY OrderInitInv, OrderNextInv, PTL DEF OrderSpec

(* For any orders, requests and number of orderCalls, rows and requests have    *)
(* their types: upgrade-work-order.service.ts.                             *)
THEOREM UpgradeTypes == OrderSpec => []OrderTypeOK
  BY OrderInvariant, PTL DEF OrderInv

(* At most one order is in progress, by the partial unique index alone.    *)
THEOREM OneActive == OrderSpec => []OneActiveOrder
  BY OrderInvariant, PTL DEF OrderInv

(* An order that is done has its word promoted, whatever dies in between.  *)
THEOREM PromotedWhenDone == OrderSpec => []DoneIsPromoted
  BY OrderInvariant, PTL DEF OrderInv

(* A seed is logged once, and only when it made the row.                   *)
THEOREM SeedsLogged == OrderSpec => []SeedsAreLogged
  BY OrderInvariant, PTL DEF OrderInv

-----------------------------------------------------------------------------
(* The shelf of study notes                                                 *)

Moving(c) == tx[c].step \in {"topic", "both"}
Saving(c) == tx[c].step = "note"
Wanted(c) == asked[tx[c].req]

(* The version that a request is compared with.                            *)
Stored(w) == IF w.kind = "save" THEN note[w.note].version ELSE topic[w.topic].version

ShelfTypes ==
  /\ note \in [Notes -> [version : Nat, last : Requests \cup {NoRequest}, venues : SUBSET Venues]]
  /\ topic \in [Topics -> [version : Nat, last : Requests \cup {NoRequest}, status : Statuses]]
  /\ DOMAIN at = Topics /\ \A t \in Topics : Members(t) \subseteq Notes
  /\ asked \in [Requests -> Writes \cup {Unasked}]
  /\ effects \in [Requests -> Nat]
  /\ tx \in [Callers -> {Free} \cup [step : {"topic", "both", "note"}, req : Requests]]

(* Nobody shares a lock.                                                   *)
TopicsLockedOnce == \A c, d \in Callers, t \in Topics : HoldsTopic(c, t) /\ HoldsTopic(d, t) => c = d
NotesLockedOnce == \A c, d \in Callers, n \in Notes : HoldsNote(c, n) /\ HoldsNote(d, n) => c = d

(* What was tested under the lock still holds.                             *)
HeldIsCurrent ==
  \A c \in Callers :
    /\ Moving(c) => Wanted(c).kind = "move" /\ topic[Wanted(c).topic].version = Wanted(c).expected
    /\ Saving(c) => Wanted(c).kind = "save" /\ note[Wanted(c).note].version = Wanted(c).expected

JoinersBelong ==
  \A c \in Callers : tx[c].step = "both" => VenueOf[Wanted(c).topic] \in note[Wanted(c).note].venues

SaversKeepTopics ==
  \A c \in Callers : Saving(c) =>
    \A t \in Topics : Wanted(c).note \in Members(t) => VenueOf[t] \in Wanted(c).venues

UncreatedIsEmpty == \A n \in Notes : note[n].version = 0 => note[n].venues = {}

AskedFromARow == \A r \in Requests : asked[r] # Unasked => asked[r].expected > 0

(* What took effect is behind the version by now.                          *)
DoneIsPast ==
  \A r \in Requests :
    /\ effects[r] \in {0, 1}
    /\ effects[r] = 1 => asked[r] # Unasked /\ Stored(asked[r]) > asked[r].expected

Inv ==
  /\ ShelfTypes /\ TopicsLockedOnce /\ NotesLockedOnce /\ HeldIsCurrent /\ JoinersBelong
  /\ SaversKeepTopics /\ UncreatedIsEmpty /\ AskedFromARow /\ DoneIsPast /\ MembersHaveVenue

-----------------------------------------------------------------------------

LEMMA InitInv == Init => Inv
<1> SUFFICES ASSUME Init PROVE Inv
  OBVIOUS
<1>1. \A t \in Topics, n \in Notes : n \in Members(t) => VenueOf[t] \in note[n].venues
  BY DEF Init, Arranged, Members, Bijection, Injection
<1>2. DOMAIN at = Topics /\ \A t \in Topics : Members(t) \subseteq Notes
  BY DEF Init, Arranged, Members, Bijection, Injection
<1>3. ShelfTypes
  <2>1. note \in [Notes -> [version : Nat, last : Requests \cup {NoRequest}, venues : SUBSET Venues]]
    <3> DEFINE Uncreated == {[version |-> 0, last |-> NoRequest, venues |-> {}]}
               Created == [version : {1}, last : {NoRequest}, venues : (SUBSET Venues) \ {{}}]
               Row == [version : Nat, last : Requests \cup {NoRequest}, venues : SUBSET Venues]
    <3>1. note \in [Notes -> Uncreated \cup Created]
      BY DEF Init
    <3>2. Uncreated \subseteq Row
      OBVIOUS
    <3>3. Created \subseteq Row
      OBVIOUS
    <3> QED
      BY <3>1, <3>2, <3>3
  <2>2. topic \in [Topics -> [version : Nat, last : Requests \cup {NoRequest}, status : Statuses]]
    <3> DEFINE Uncreated == {[version |-> 0, last |-> NoRequest, status |-> "active"]}
               Created == [version : {1}, last : {NoRequest}, status : Statuses]
               Row == [version : Nat, last : Requests \cup {NoRequest}, status : Statuses]
    <3>1. topic \in [Topics -> Uncreated \cup Created]
      BY DEF Init
    <3>2. Uncreated \subseteq Row
      BY DEF Statuses
    <3>3. Created \subseteq Row
      OBVIOUS
    <3> QED
      BY <3>1, <3>2, <3>3
  <2>3. /\ asked \in [Requests -> Writes \cup {Unasked}]
        /\ effects \in [Requests -> Nat]
        /\ tx \in [Callers -> {Free} \cup [step : {"topic", "both", "note"}, req : Requests]]
    BY DEF Init
  <2> QED
    BY <1>2, <2>1, <2>2, <2>3 DEF ShelfTypes
<1>4. TopicsLockedOnce /\ NotesLockedOnce /\ HeldIsCurrent /\ JoinersBelong /\ SaversKeepTopics
  BY DEF Init, Free, TopicsLockedOnce, NotesLockedOnce, HeldIsCurrent, JoinersBelong, SaversKeepTopics,
         HoldsTopic, HoldsNote, Moving, Saving
<1>5. UncreatedIsEmpty /\ AskedFromARow /\ DoneIsPast
  BY DEF Init, UncreatedIsEmpty, AskedFromARow, DoneIsPast
<1> QED
  BY <1>1, <1>2, <1>3, <1>4, <1>5 DEF Inv, MembersHaveVenue

(* A request that is known is of one kind or another.                       *)
LEMMA Kinds ==
  ASSUME ShelfTypes, NEW r \in Requests
  PROVE  /\ asked[r] # Unasked => asked[r].expected \in Nat /\ asked[r].kind \in {"move", "remove", "retitle", "save"}
         /\ asked[r].kind = "move" => /\ asked[r] # Unasked
                                      /\ asked[r].topic \in Topics /\ asked[r].note \in Notes
         /\ asked[r].kind = "remove" => /\ asked[r] # Unasked
                                        /\ asked[r].topic \in Topics /\ asked[r].note \in Notes
         /\ asked[r].kind = "retitle" => asked[r] # Unasked /\ asked[r].topic \in Topics
         /\ asked[r].kind = "save" => /\ asked[r] # Unasked
                                      /\ asked[r].note \in Notes /\ asked[r].venues \in SUBSET Venues
  BY DEF ShelfTypes, Writes, Unasked

(* A transaction ends without a write: every lock that is left was held.   *)
LEMMA EndingPreserves ==
  ASSUME Inv, NEW c \in Callers, Goes(c, Free), UNCHANGED <<note, topic, at, asked, effects>>
  PROVE  Inv'
<1> USE DEF Inv
<1>1. ShelfTypes'
  BY DEF ShelfTypes, Goes, Members
<1>2. \A d \in Callers : tx'[d] = IF d = c THEN Free ELSE tx[d]
  BY DEF ShelfTypes, Goes
<1>3. TopicsLockedOnce' /\ NotesLockedOnce' /\ HeldIsCurrent' /\ JoinersBelong' /\ SaversKeepTopics'
  BY <1>2 DEF Free, TopicsLockedOnce, NotesLockedOnce, HeldIsCurrent, JoinersBelong, SaversKeepTopics,
              HoldsTopic, HoldsNote, Moving, Saving, Wanted, Members
<1> QED
  BY <1>1, <1>3 DEF UncreatedIsEmpty, AskedFromARow, DoneIsPast, Stored, MembersHaveVenue, Members

LEMMA AskPreserves ==
  ASSUME Inv, NEW r \in Requests, AskAny(r)
  PROVE  Inv'
<1> USE DEF Inv
<1> DEFINE Known == \E w \in Writes : Ask(r, w) /\ w.expected > 0
<1>a. ASSUME NEW t \in Topics, NEW n \in Notes, NEW b \in Notes \cup {NoNote}, topic[t].version > 0,
             Ask(r, [kind |-> "move", topic |-> t, note |-> n, before |-> b, expected |-> topic[t].version])
      PROVE  Known
  <2>1. [kind |-> "move", topic |-> t, note |-> n, before |-> b, expected |-> topic[t].version] \in Writes
    BY DEF ShelfTypes, Writes
  <2> QED
    BY <1>a, <2>1
<1>b. ASSUME NEW t \in Topics, NEW n \in Notes, topic[t].version > 0,
             Ask(r, [kind |-> "remove", topic |-> t, note |-> n, expected |-> topic[t].version])
      PROVE  Known
  <2>1. [kind |-> "remove", topic |-> t, note |-> n, expected |-> topic[t].version] \in Writes
    BY DEF ShelfTypes, Writes
  <2> QED
    BY <1>b, <2>1
<1>c. ASSUME NEW t \in Topics, NEW s \in Statuses, topic[t].version > 0,
             Ask(r, [kind |-> "retitle", topic |-> t, status |-> s, expected |-> topic[t].version])
      PROVE  Known
  <2>1. [kind |-> "retitle", topic |-> t, status |-> s, expected |-> topic[t].version] \in Writes
    BY DEF ShelfTypes, Writes
  <2> QED
    BY <1>c, <2>1
<1>d. ASSUME NEW n \in Notes, NEW vs \in SUBSET Venues, note[n].version > 0,
             Ask(r, [kind |-> "save", note |-> n, venues |-> vs, expected |-> note[n].version])
      PROVE  Known
  <2>1. [kind |-> "save", note |-> n, venues |-> vs, expected |-> note[n].version] \in Writes
    BY DEF ShelfTypes, Writes
  <2> QED
    BY <1>d, <2>1
<1>1. PICK w \in Writes : Ask(r, w) /\ w.expected > 0
  <2> HIDE DEF Known
  <2>1. Known
    BY <1>a, <1>b, <1>c, <1>d DEF AskAny
  <2> QED
    BY <2>1 DEF Known
<1>2. \A q \in Requests : asked'[q] = IF q = r THEN w ELSE asked[q]
  BY <1>1 DEF Ask, ShelfTypes
<1>3. ShelfTypes'
  BY <1>1 DEF Ask, ShelfTypes, Members
<1>4. \A c \in Callers : tx[c].step # "free" => tx[c].req # r
  BY <1>1 DEF Ask, HeldIsCurrent, Moving, Saving, Wanted, Unasked, ShelfTypes, Free
<1>5. \A c \in Callers : tx[c].step # "free" => Wanted(c)' = Wanted(c)
  BY <1>1, <1>2, <1>4 DEF Ask, Wanted, ShelfTypes, Free
<1>6. TopicsLockedOnce' /\ NotesLockedOnce'
  BY <1>1, <1>5 DEF Ask, TopicsLockedOnce, NotesLockedOnce, HoldsTopic, HoldsNote, Wanted
<1>7. HeldIsCurrent' /\ JoinersBelong' /\ SaversKeepTopics'
  BY <1>1, <1>5 DEF Ask, HeldIsCurrent, JoinersBelong, SaversKeepTopics, Moving, Saving, Members
<1>8. AskedFromARow'
  BY <1>1, <1>2 DEF AskedFromARow
<1>9. DoneIsPast'
  BY <1>1, <1>2 DEF DoneIsPast, Ask, Stored
<1> QED
  BY <1>1, <1>3, <1>6, <1>7, <1>8, <1>9 DEF Ask, UncreatedIsEmpty, MembersHaveVenue, Members

LEMMA CreateNotePreserves ==
  ASSUME Inv, NEW n \in Notes, CreateNote(n)
  PROVE  Inv'
<1> USE DEF Inv
<1>1. PICK v \in Venues : note' = [note EXCEPT ![n] = [version |-> 1, last |-> NoRequest, venues |-> {v}]]
  BY DEF CreateNote
<1>2. /\ note[n].version = 0 /\ note[n].venues = {}
      /\ UNCHANGED <<topic, at, asked, effects, tx>>
  BY DEF CreateNote, UncreatedIsEmpty
<1>3. \A m \in Notes : note'[m] = IF m = n THEN [version |-> 1, last |-> NoRequest, venues |-> {v}] ELSE note[m]
  BY <1>1 DEF ShelfTypes
<1>4. ShelfTypes'
  BY <1>1, <1>2 DEF ShelfTypes, Members
<1>5. TopicsLockedOnce' /\ NotesLockedOnce'
  BY <1>2 DEF TopicsLockedOnce, NotesLockedOnce, HoldsTopic, HoldsNote
<1>6. \A c \in Callers : tx[c].step # "free" => tx[c].req \in Requests /\ Wanted(c) # Unasked
  BY DEF HeldIsCurrent, Moving, Saving, Wanted, Unasked, ShelfTypes, Free
<1>7. HeldIsCurrent'
  <2>1. \A c \in Callers : Saving(c) => Wanted(c).note \in Notes /\ Wanted(c).note # n
    BY <1>2, <1>6, Kinds DEF HeldIsCurrent, AskedFromARow, Saving, Wanted
  <2> QED
    BY <1>2, <1>3, <2>1 DEF HeldIsCurrent, Moving, Saving, Wanted
<1>8. JoinersBelong'
  <2>1. \A c \in Callers : tx[c].step = "both" => Wanted(c).note \in Notes
    BY <1>6, Kinds DEF HeldIsCurrent, Moving, Wanted
  <2> QED
    BY <1>2, <1>3, <2>1 DEF JoinersBelong, Wanted
<1>9. SaversKeepTopics' /\ AskedFromARow'
  BY <1>2 DEF SaversKeepTopics, AskedFromARow, Saving, Wanted, Members
<1>10. UncreatedIsEmpty'
  BY <1>3 DEF UncreatedIsEmpty
<1>11. DoneIsPast'
  BY <1>2, <1>3, Kinds DEF DoneIsPast, Stored
<1>12. MembersHaveVenue'
  BY <1>2, <1>3 DEF MembersHaveVenue, Members, ShelfTypes
<1> QED
  BY <1>4, <1>5, <1>7, <1>8, <1>9, <1>10, <1>11, <1>12

LEMMA CreateTopicPreserves ==
  ASSUME Inv, NEW t \in Topics, CreateTopic(t)
  PROVE  Inv'
<1> USE DEF Inv
<1>1. /\ topic' = [topic EXCEPT ![t] = [version |-> 1, last |-> NoRequest, status |-> "active"]]
      /\ topic[t].version = 0 /\ UNCHANGED <<note, at, asked, effects, tx>>
  BY DEF CreateTopic
<1>2. \A u \in Topics : topic'[u] = IF u = t THEN [version |-> 1, last |-> NoRequest, status |-> "active"] ELSE topic[u]
  BY <1>1 DEF ShelfTypes
<1>3. ShelfTypes'
  BY <1>1 DEF ShelfTypes, Members, Statuses
<1>4. TopicsLockedOnce' /\ NotesLockedOnce' /\ JoinersBelong' /\ SaversKeepTopics' /\ AskedFromARow' /\ UncreatedIsEmpty' /\ MembersHaveVenue'
  BY <1>1 DEF TopicsLockedOnce, NotesLockedOnce, HoldsTopic, HoldsNote, JoinersBelong, SaversKeepTopics, Saving,
              Wanted, Members, AskedFromARow, UncreatedIsEmpty, MembersHaveVenue
<1>5. \A c \in Callers : tx[c].step # "free" => tx[c].req \in Requests /\ Wanted(c) # Unasked
  BY DEF HeldIsCurrent, Moving, Saving, Wanted, Unasked, ShelfTypes, Free
<1>6. HeldIsCurrent'
  <2>1. \A c \in Callers : Moving(c) => Wanted(c).topic \in Topics /\ Wanted(c).topic # t
    BY <1>1, <1>5, Kinds DEF HeldIsCurrent, AskedFromARow, Moving, Wanted
  <2> QED
    BY <1>1, <1>2, <2>1 DEF HeldIsCurrent, Moving, Saving, Wanted
<1>7. DoneIsPast'
  BY <1>1, <1>2, Kinds DEF DoneIsPast, Stored
<1> QED
  BY <1>3, <1>4, <1>6, <1>7

(* Who holds a lock has a request, of the kind that takes this lock.       *)
LEMMA Holding ==
  ASSUME Inv, NEW c \in Callers
  PROVE  /\ tx[c].step # "free" => tx[c].req \in Requests
         /\ Moving(c) => /\ Wanted(c).kind = "move" /\ Wanted(c).topic \in Topics
                         /\ Wanted(c).note \in Notes /\ Wanted(c).expected \in Nat
         /\ Saving(c) => /\ Wanted(c).kind = "save" /\ Wanted(c).note \in Notes
                         /\ Wanted(c).venues \in SUBSET Venues /\ Wanted(c).expected \in Nat
<1>1. tx[c].step # "free" => tx[c].req \in Requests
  BY DEF Inv, ShelfTypes, Free
<1> QED
  BY <1>1, Kinds DEF Inv, Moving, Saving, Wanted, HeldIsCurrent

(* A transaction takes its next step and keeps the database.               *)
LEMMA LockingPreserves ==
  ASSUME Inv, NEW c \in Callers, NEW r \in Requests, NEW step \in {"topic", "both", "note"},
         Goes(c, [step |-> step, req |-> r]), UNCHANGED <<note, topic, at, asked, effects>>,
         step # "note" => /\ asked[r].kind = "move" /\ topic[asked[r].topic].version = asked[r].expected
                          /\ \A d \in Callers \ {c} : ~HoldsTopic(d, asked[r].topic),
         step # "topic" => \A d \in Callers \ {c} : ~HoldsNote(d, asked[r].note),
         step = "both" => VenueOf[asked[r].topic] \in note[asked[r].note].venues,
         step = "note" => /\ asked[r].kind = "save" /\ note[asked[r].note].version = asked[r].expected
                          /\ \A t \in Topics : asked[r].note \in Members(t) => VenueOf[t] \in asked[r].venues
  PROVE  Inv'
<1> USE DEF Inv
<1>1. ShelfTypes'
  BY DEF ShelfTypes, Goes, Members
<1>2. \A d \in Callers : tx'[d] = IF d = c THEN [step |-> step, req |-> r] ELSE tx[d]
  BY DEF ShelfTypes, Goes
<1>3. TopicsLockedOnce'
  BY <1>2 DEF TopicsLockedOnce, HoldsTopic
<1>4. NotesLockedOnce'
  BY <1>2 DEF NotesLockedOnce, HoldsNote
<1>5. HeldIsCurrent'
  BY <1>2 DEF HeldIsCurrent, Moving, Saving, Wanted
<1>6. JoinersBelong'
  BY <1>2 DEF JoinersBelong, Wanted
<1>7. SaversKeepTopics'
  BY <1>2 DEF SaversKeepTopics, Saving, Wanted, Members
<1> QED
  BY <1>1, <1>3, <1>4, <1>5, <1>6, <1>7 DEF UncreatedIsEmpty, AskedFromARow, DoneIsPast, Stored, MembersHaveVenue, Members

LEMMA AnsweredPreserves ==
  ASSUME Inv, NEW c \in Callers, Answered(c), UNCHANGED asked
  PROVE  Inv'
  BY EndingPreserves DEF Answered

LEMMA MoveLocksTopicPreserves ==
  ASSUME Inv, NEW c \in Callers, NEW r \in Requests, MoveLocksTopic(c, r)
  PROVE  Inv'
<1>1. CASE Answered(c)
  BY <1>1, AnsweredPreserves DEF MoveLocksTopic, Sends
<1>2. CASE Goes(c, [step |-> "topic", req |-> r]) /\ UNCHANGED <<note, topic, at, effects>>
            /\ Takes(topic[asked[r].topic], r, asked[r])
  BY <1>2, LockingPreserves DEF MoveLocksTopic, Sends, TopicFree, Takes
<1> QED
  BY <1>1, <1>2 DEF MoveLocksTopic

LEMMA MoveLocksNotePreserves ==
  ASSUME Inv, NEW c \in Callers, MoveLocksNote(c)
  PROVE  Inv'
<1> DEFINE r == tx[c].req
<1>1. CASE Answered(c)
  BY <1>1, AnsweredPreserves DEF MoveLocksNote
<1>2. CASE /\ Goes(c, [tx[c] EXCEPT !.step = "both"]) /\ UNCHANGED <<note, topic, at, effects>>
           /\ VenueOf[asked[r].topic] \in note[asked[r].note].venues
  <2>1. tx[c].step = "topic" /\ r \in Requests /\ asked[r].kind = "move"
        /\ asked[r].topic \in Topics /\ asked[r].note \in Notes
    BY Holding DEF MoveLocksNote, Moving, Wanted
  <2>2. [tx[c] EXCEPT !.step = "both"] = [step |-> "both", req |-> r]
    BY <2>1 DEF Inv, ShelfTypes, Free
  <2>3. topic[asked[r].topic].version = asked[r].expected
    BY <2>1 DEF Inv, HeldIsCurrent, Moving, Wanted
  <2>4. \A d \in Callers \ {c} : ~HoldsTopic(d, asked[r].topic)
    BY <2>1 DEF Inv, TopicsLockedOnce, HoldsTopic
  <2>5. \A d \in Callers \ {c} : ~HoldsNote(d, asked[r].note)
    BY DEF MoveLocksNote, NoteFree
  <2> QED
    BY <1>2, <2>1, <2>2, <2>3, <2>4, <2>5, LockingPreserves DEF MoveLocksNote
<1> QED
  BY <1>1, <1>2 DEF MoveLocksNote

LEMMA SaveLocksNotePreserves ==
  ASSUME Inv, NEW c \in Callers, NEW r \in Requests, SaveLocksNote(c, r)
  PROVE  Inv'
<1>1. CASE Answered(c)
  BY <1>1, AnsweredPreserves DEF SaveLocksNote, Sends
<1>2. CASE /\ Goes(c, [step |-> "note", req |-> r]) /\ UNCHANGED <<note, topic, at, effects>>
           /\ Takes(note[asked[r].note], r, asked[r]) /\ Blockers(asked[r]) = {}
  <2>1. asked[r].kind = "save" /\ UNCHANGED asked
    BY DEF SaveLocksNote, Sends
  <2>2. \A t \in Topics : asked[r].note \in Members(t) => VenueOf[t] \in asked[r].venues
    BY <1>2, <2>1, Kinds DEF Blockers, Inv, MembersHaveVenue
  <2> QED
    BY <1>2, <2>1, <2>2, LockingPreserves DEF SaveLocksNote, NoteFree, Takes
<1> QED
  BY <1>1, <1>2 DEF SaveLocksNote

(* A write to a topic: its version moves on, nobody else has it locked, and *)
(* a note that joins has the venue and is not being saved.                 *)
LEMMA TopicWritePreserves ==
  ASSUME Inv, NEW r \in Requests, asked[r].kind \in {"move", "remove", "retitle"},
         NEW t \in Topics, asked[r].topic = t, topic[t].version = asked[r].expected,
         NEW row \in [version : Nat, last : Requests \cup {NoRequest}, status : Statuses],
         row.version = topic[t].version + 1, topic' = [topic EXCEPT ![t] = row],
         Counted(r), UNCHANGED <<note, asked>>,
         tx' \in [Callers -> {Free} \cup [step : {"topic", "both", "note"}, req : Requests]],
         \A d \in Callers : tx'[d] \in {Free, tx[d]} /\ ~HoldsTopic(d, t)',
         DOMAIN at' = Topics, \A u \in Topics \ {t} : at'[u] = at[u],
         \A n \in DOMAIN at'[t] \ Members(t) :
           /\ n \in Notes /\ VenueOf[t] \in note[n].venues
           /\ \A d \in Callers : tx'[d].step = "note" => Wanted(d).note # n
  PROVE  Inv'
<1> USE DEF Inv
<1>1. \A u \in Topics : topic'[u] = IF u = t THEN row ELSE topic[u]
  BY DEF ShelfTypes
<1>2. \A u \in Topics : Members(u)' = DOMAIN at'[u] /\ (u # t => Members(u)' = Members(u))
  BY DEF Members
<1>3. ShelfTypes'
  <2>1. \A u \in Topics : Members(u)' \subseteq Notes
    BY <1>2 DEF ShelfTypes, Members
  <2> QED
    BY <2>1 DEF ShelfTypes, Counted
<1>4. \A d \in Callers : tx'[d].step # "free" => tx'[d] = tx[d] /\ Wanted(d)' = Wanted(d)
  BY DEF Free, Wanted
<1>5. TopicsLockedOnce' /\ NotesLockedOnce'
  BY <1>4 DEF TopicsLockedOnce, NotesLockedOnce, HoldsTopic, HoldsNote, Wanted
<1>6. HeldIsCurrent'
  <2>1. \A d \in Callers : Moving(d)' => Wanted(d).topic \in Topics /\ Wanted(d).topic # t
    BY <1>4, Holding DEF HoldsTopic, Moving, Wanted
  <2> QED
    BY <1>1, <1>4, <2>1 DEF HeldIsCurrent, Moving, Saving
<1>7. JoinersBelong'
  BY <1>4 DEF JoinersBelong
<1>8. SaversKeepTopics'
  <2>1. SUFFICES ASSUME NEW d \in Callers, Saving(d)', NEW u \in Topics, Wanted(d)'.note \in Members(u)'
                 PROVE  VenueOf[u] \in Wanted(d)'.venues
    BY DEF SaversKeepTopics
  <2>2. Saving(d) /\ Wanted(d)' = Wanted(d) /\ tx'[d].step = "note"
    BY <1>4, <2>1 DEF Saving
  <2>3. Wanted(d).note \in Members(u)
    BY <1>2, <2>1, <2>2
  <2> QED
    BY <2>2, <2>3 DEF SaversKeepTopics
<1>9. UncreatedIsEmpty' /\ AskedFromARow'
  BY DEF UncreatedIsEmpty, AskedFromARow
<1>10. DoneIsPast'
  <2>1. asked[r] # Unasked /\ Stored(asked[r]) = asked[r].expected /\ effects[r] = 0
    BY DEF DoneIsPast, Stored, Unasked, ShelfTypes
  <2>2. effects'[r] = 1 /\ \A q \in Requests \ {r} : effects'[q] = effects[q]
    BY <2>1 DEF Counted, ShelfTypes
  <2>3. Stored(asked[r])' > asked[r].expected
    BY <1>1, <2>1 DEF Stored, ShelfTypes
  <2>4. \A q \in Requests : asked[q] # Unasked /\ Stored(asked[q]) > asked[q].expected => Stored(asked[q])' > asked[q].expected
    BY <1>1, Kinds DEF Stored, ShelfTypes
  <2> QED
    BY <2>1, <2>2, <2>3, <2>4 DEF DoneIsPast, Stored
<1>11. MembersHaveVenue'
  BY <1>2 DEF MembersHaveVenue
<1> QED
  BY <1>3, <1>5, <1>6, <1>7, <1>8, <1>9, <1>10, <1>11

LEMMA BumpedTopic ==
  ASSUME NEW x \in [version : Nat, last : Requests \cup {NoRequest}, status : Statuses], NEW r \in Requests
  PROVE  Bumped(x, r) = [version |-> x.version + 1, last |-> r, status |-> x.status]
<1> DEFINE y == [x EXCEPT !.version = x.version + 1]
<1>1. y = [version |-> x.version + 1, last |-> x.last, status |-> x.status]
  OBVIOUS
<1>2. [y EXCEPT !.last = r] = [version |-> x.version + 1, last |-> r, status |-> x.status]
  <2> HIDE DEF y
  <2> QED
    BY <1>1
<1> QED
  BY <1>2, Zenon DEF Bumped

LEMMA BumpedNote ==
  ASSUME NEW x \in [version : Nat, last : Requests \cup {NoRequest}, venues : SUBSET Venues], NEW r \in Requests
  PROVE  Bumped(x, r) = [version |-> x.version + 1, last |-> r, venues |-> x.venues]
<1> DEFINE y == [x EXCEPT !.version = x.version + 1]
<1>1. y = [version |-> x.version + 1, last |-> x.last, venues |-> x.venues]
  OBVIOUS
<1>2. [y EXCEPT !.last = r] = [version |-> x.version + 1, last |-> r, venues |-> x.venues]
  <2> HIDE DEF y
  <2> QED
    BY <1>1
<1> QED
  BY <1>2, Zenon DEF Bumped

LEMMA BumpedRow ==
  ASSUME ShelfTypes, NEW t \in Topics, NEW r \in Requests
  PROVE  /\ Bumped(topic[t], r) \in [version : Nat, last : Requests \cup {NoRequest}, status : Statuses]
         /\ Bumped(topic[t], r).version = topic[t].version + 1
  BY BumpedTopic DEF ShelfTypes

LEMMA MoveWritesPreserves ==
  ASSUME Inv, NEW c \in Callers, MoveWrites(c)
  PROVE  Inv'
<1>1. CASE Answered(c)
  BY <1>1, AnsweredPreserves DEF MoveWrites
<1>2. ASSUME NEW r \in Requests, NEW t \in Topics, NEW n \in Notes,
             r = tx[c].req, t = asked[r].topic, n = asked[r].note, ~Answered(c)
      PROVE  Inv'
  <2>1. /\ at' = [at EXCEPT ![t] = Reordered(asked[r])]
        /\ topic' = [topic EXCEPT ![t] = Bumped(topic[t], r)]
        /\ Counted(r) /\ Goes(c, Free) /\ UNCHANGED <<note, asked>>
    BY <1>2 DEF MoveWrites
  <2>2. /\ HoldsTopic(c, t) /\ HoldsNote(c, n) /\ Moving(c) /\ asked[r].kind = "move"
        /\ topic[t].version = asked[r].expected /\ VenueOf[t] \in note[n].venues
    BY <1>2, Holding DEF MoveWrites, HoldsTopic, HoldsNote, Moving, Wanted, Inv, HeldIsCurrent, JoinersBelong
  <2>3. DOMAIN Reordered(asked[r]) = (Members(t) \ {n}) \cup {n}
    BY <1>2 DEF Reordered, Others
  <2>4. DOMAIN at' = Topics /\ at'[t] = Reordered(asked[r]) /\ \A u \in Topics \ {t} : at'[u] = at[u]
    BY <2>1 DEF Inv, ShelfTypes
  <2>5. \A d \in Callers : tx'[d] = IF d = c THEN Free ELSE tx[d]
    BY <2>1 DEF Goes, Inv, ShelfTypes
  <2>6. tx'[c].step = "free" /\ \A d \in Callers \ {c} : tx'[d] = tx[d] /\ ~HoldsTopic(d, t) /\ ~HoldsNote(d, n)
    BY <2>2, <2>5 DEF Free, Inv, TopicsLockedOnce, NotesLockedOnce
  <2>7. \A d \in Callers : tx'[d] \in {Free, tx[d]} /\ ~HoldsTopic(d, t)'
    BY <2>1, <2>5, <2>6 DEF HoldsTopic
  <2>8. \A d \in Callers : tx'[d].step = "note" => Wanted(d).note # n
    BY <2>6 DEF HoldsNote, Wanted
  <2>9. tx' \in [Callers -> {Free} \cup [step : {"topic", "both", "note"}, req : Requests]]
    BY <2>1 DEF Goes, Inv, ShelfTypes
  <2>10. \A m \in DOMAIN at'[t] \ Members(t) :
           /\ m \in Notes /\ VenueOf[t] \in note[m].venues
           /\ \A d \in Callers : tx'[d].step = "note" => Wanted(d).note # m
    BY <2>2, <2>3, <2>4, <2>8
  <2>11. PICK row \in [version : Nat, last : Requests \cup {NoRequest}, status : Statuses] :
           row = Bumped(topic[t], r) /\ row.version = topic[t].version + 1
    BY BumpedRow DEF Inv
  <2>12. topic' = [topic EXCEPT ![t] = row]
    BY <2>1, <2>11
  <2>13. /\ asked[r].kind \in {"move", "remove", "retitle"} /\ asked[r].topic = t
         /\ topic[t].version = asked[r].expected /\ row.version = topic[t].version + 1
         /\ Counted(r) /\ UNCHANGED <<note, asked>>
         /\ DOMAIN at' = Topics /\ \A u \in Topics \ {t} : at'[u] = at[u]
    BY <1>2, <2>1, <2>2, <2>4, <2>11
  <2> QED
    BY <2>7, <2>9, <2>10, <2>12, <2>13, TopicWritePreserves
<1>3. tx[c].req \in Requests /\ asked[tx[c].req].topic \in Topics /\ asked[tx[c].req].note \in Notes
  BY Holding DEF MoveWrites, Moving, Wanted
<1> QED
  BY <1>1, <1>2, <1>3

LEMMA RemoveMemberPreserves ==
  ASSUME Inv, NEW c \in Callers, NEW r \in Requests, RemoveMember(c, r)
  PROVE  Inv'
<1> DEFINE w == asked[r]
<1>1. CASE Answered(c)
  BY <1>1, AnsweredPreserves DEF RemoveMember, Sends
<1>2. CASE /\ at' = [at EXCEPT ![w.topic] = Removed(w)]
           /\ topic' = [topic EXCEPT ![w.topic] = Bumped(@, r)]
           /\ Counted(r) /\ UNCHANGED <<note, tx>> /\ Takes(topic[w.topic], r, w)
  <2>1. w.kind = "remove" /\ w.topic \in Topics /\ UNCHANGED asked /\ topic[w.topic].version = w.expected
    BY <1>2, Kinds DEF RemoveMember, Sends, Takes, Inv
  <2>2. DOMAIN Removed(w) \subseteq Members(w.topic)
    BY DEF Removed, Others
  <2>3. DOMAIN at' = Topics /\ at'[w.topic] = Removed(w) /\ \A u \in Topics \ {w.topic} : at'[u] = at[u]
    BY <1>2, <2>1 DEF Inv, ShelfTypes
  <2>4. \A d \in Callers : tx'[d] = tx[d] /\ ~HoldsTopic(d, w.topic)'
    BY <1>2, <2>1 DEF RemoveMember, TopicFree, HoldsTopic
  <2>5. topic' = [topic EXCEPT ![w.topic] = Bumped(topic[w.topic], r)]
    BY <1>2
  <2>6. tx' \in [Callers -> {Free} \cup [step : {"topic", "both", "note"}, req : Requests]]
    BY <1>2 DEF Inv, ShelfTypes
  <2> QED
    BY ZenonT(60), <1>2, <2>1, <2>2, <2>3, <2>4, <2>5, <2>6, BumpedRow, TopicWritePreserves DEF Inv
<1> QED
  BY <1>1, <1>2 DEF RemoveMember

LEMMA SaveTopicPreserves ==
  ASSUME Inv, NEW c \in Callers, NEW r \in Requests, SaveTopic(c, r)
  PROVE  Inv'
<1>1. CASE Answered(c)
  BY <1>1, AnsweredPreserves DEF SaveTopic, Sends
<1>2. ASSUME NEW t \in Topics, t = asked[r].topic, ~Answered(c)
      PROVE  Inv'
  <2>1. /\ topic' = [topic EXCEPT ![t] = [Bumped(topic[t], r) EXCEPT !.status = asked[r].status]]
        /\ Counted(r) /\ UNCHANGED <<note, at, asked, tx>> /\ topic[t].version = asked[r].expected
        /\ asked[r].kind = "retitle"
    BY <1>2 DEF SaveTopic, Sends, Takes
  <2>2. PICK row \in [version : Nat, last : Requests \cup {NoRequest}, status : Statuses] :
          row = [Bumped(topic[t], r) EXCEPT !.status = asked[r].status] /\ row.version = topic[t].version + 1
    <3>1. asked[r].status \in Statuses
      BY <2>1 DEF Inv, ShelfTypes, Writes, Unasked
    <3>2. topic[t] \in [version : Nat, last : Requests \cup {NoRequest}, status : Statuses]
      BY DEF Inv, ShelfTypes
    <3>3. Bumped(topic[t], r) = [version |-> topic[t].version + 1, last |-> r, status |-> topic[t].status]
      BY <3>2, BumpedTopic
    <3>4. [Bumped(topic[t], r) EXCEPT !.status = asked[r].status]
            = [version |-> topic[t].version + 1, last |-> r, status |-> asked[r].status]
      BY <3>3
    <3> QED
      BY <3>1, <3>2, <3>4
  <2>3. DOMAIN at' = Topics /\ \A u \in Topics : at'[u] = at[u] /\ DOMAIN at'[u] = Members(u)
    BY <2>1 DEF Inv, ShelfTypes, Members
  <2>4. \A d \in Callers : tx'[d] = tx[d] /\ ~HoldsTopic(d, t)'
    BY <1>2, <2>1 DEF SaveTopic, TopicFree, HoldsTopic
  <2>5. tx' \in [Callers -> {Free} \cup [step : {"topic", "both", "note"}, req : Requests]]
    BY <2>1 DEF Inv, ShelfTypes
  <2> QED
    BY ZenonT(60), <1>2, <2>1, <2>2, <2>3, <2>4, <2>5, TopicWritePreserves
<1>3. asked[r].topic \in Topics
  BY Kinds DEF SaveTopic, Sends, Inv
<1> QED
  BY <1>1, <1>2, <1>3

LEMMA SaveWritesPreserves ==
  ASSUME Inv, NEW c \in Callers, SaveWrites(c)
  PROVE  Inv'
<1> USE DEF Inv
<1>a. /\ Saving(c) /\ tx[c].req \in Requests
      /\ asked[tx[c].req].kind = "save" /\ asked[tx[c].req].note \in Notes
      /\ asked[tx[c].req].venues \in SUBSET Venues /\ asked[tx[c].req].expected \in Nat
  BY Holding DEF SaveWrites, Saving, Wanted
<1> SUFFICES ASSUME NEW r \in Requests, NEW n \in Notes, r = tx[c].req, n = asked[r].note
             PROVE  Inv'
  BY <1>a
<1>1. /\ Saving(c) /\ asked[r].kind = "save" /\ asked[r].venues \in SUBSET Venues /\ HoldsNote(c, n)
      /\ note[n].version = asked[r].expected /\ asked[r].expected \in Nat /\ asked[r] # Unasked
  BY <1>a, Kinds DEF SaveWrites, Saving, Wanted, HeldIsCurrent, HoldsNote
<1>2. Counted(r) /\ Goes(c, Free) /\ UNCHANGED <<topic, at, asked>>
  BY DEF SaveWrites
<1>3. PICK row \in [version : Nat, last : Requests \cup {NoRequest}, venues : SUBSET Venues] :
        /\ note' = [note EXCEPT ![n] = row]
        /\ row.version = note[n].version + 1 /\ row.venues = asked[r].venues
  <2>1. note[n] \in [version : Nat, last : Requests \cup {NoRequest}, venues : SUBSET Venues]
    BY DEF ShelfTypes
  <2>2. Bumped(note[n], r) = [version |-> note[n].version + 1, last |-> r, venues |-> note[n].venues]
    BY <2>1, BumpedNote
  <2>3. [Bumped(note[n], r) EXCEPT !.venues = asked[r].venues]
          = [version |-> note[n].version + 1, last |-> r, venues |-> asked[r].venues]
    BY <2>2
  <2>4. [version |-> note[n].version + 1, last |-> r, venues |-> asked[r].venues]
          \in [version : Nat, last : Requests \cup {NoRequest}, venues : SUBSET Venues]
    BY <1>1, <2>1
  <2>5. note' = [note EXCEPT ![n] = [Bumped(note[n], r) EXCEPT !.venues = asked[r].venues]]
    BY DEF SaveWrites
  <2> QED
    BY <2>3, <2>4, <2>5
<1>4. \A m \in Notes : note'[m] = IF m = n THEN row ELSE note[m]
  BY <1>3 DEF ShelfTypes
<1>5. \A d \in Callers : tx'[d] = IF d = c THEN Free ELSE tx[d]
  BY <1>2 DEF Goes, ShelfTypes
<1>6. ShelfTypes'
  BY <1>2, <1>3 DEF ShelfTypes, Counted, Goes, Members
<1>7. \A d \in Callers : tx'[d].step # "free" => tx'[d] = tx[d] /\ d # c /\ Wanted(d)' = Wanted(d)
  BY <1>2, <1>5 DEF Free, Wanted
<1>8. \A d \in Callers : tx'[d].step \in {"note", "both"} => Wanted(d).note \in Notes /\ Wanted(d).note # n
  BY <1>1, <1>7, Holding DEF NotesLockedOnce, HoldsNote, Saving, Moving, Wanted
<1>9. TopicsLockedOnce' /\ NotesLockedOnce'
  BY <1>7 DEF TopicsLockedOnce, NotesLockedOnce, HoldsTopic, HoldsNote, Wanted
<1>10. HeldIsCurrent'
  BY <1>2, <1>4, <1>7, <1>8 DEF HeldIsCurrent, Moving, Saving
<1>11. JoinersBelong'
  BY <1>2, <1>4, <1>7, <1>8 DEF JoinersBelong
<1>12. SaversKeepTopics'
  BY <1>2, <1>7 DEF SaversKeepTopics, Saving, Members
<1>13. UncreatedIsEmpty' /\ AskedFromARow'
  <2>1. row.version > 0
    BY <1>1, <1>3
  <2> QED
    BY <1>2, <1>4, <2>1 DEF UncreatedIsEmpty, AskedFromARow
<1>14. DoneIsPast'
  <2>1. Stored(asked[r]) = asked[r].expected /\ effects[r] = 0
    BY <1>1 DEF DoneIsPast, Stored
  <2>2. effects'[r] = 1 /\ \A q \in Requests \ {r} : effects'[q] = effects[q]
    BY <1>2, <2>1 DEF Counted, ShelfTypes
  <2>3. Stored(asked[r])' = row.version /\ row.version > asked[r].expected
    <3>1. asked'[r] = asked[r]
      BY <1>2
    <3>2. Stored(asked[r])' = note'[n].version
      BY <1>1, <3>1 DEF Stored
    <3>3. note'[n] = row
      BY <1>4
    <3>4. row.version > asked[r].expected
      BY <1>1, <1>3
    <3> QED
      BY <3>2, <3>3, <3>4
  <2>4. \A q \in Requests : asked[q] # Unasked /\ Stored(asked[q]) > asked[q].expected => Stored(asked[q])' > asked[q].expected
    BY <1>1, <1>2, <1>3, <1>4, Kinds DEF Stored, ShelfTypes
  <2> QED
    BY <1>1, <1>2, <2>1, <2>2, <2>3, <2>4 DEF DoneIsPast
<1>15. MembersHaveVenue'
  BY <1>1, <1>2, <1>3, <1>4 DEF MembersHaveVenue, Members, SaversKeepTopics, Wanted, ShelfTypes
<1> QED
  BY <1>6, <1>9, <1>10, <1>11, <1>12, <1>13, <1>14, <1>15

LEMMA NextInv == Inv /\ [Next]_vars => Inv'
<1> SUFFICES ASSUME Inv, [Next]_vars PROVE Inv'
  OBVIOUS
<1>1. CASE UNCHANGED vars
  BY <1>1 DEF vars, Inv, ShelfTypes, TopicsLockedOnce, NotesLockedOnce, HeldIsCurrent, JoinersBelong, SaversKeepTopics,
     UncreatedIsEmpty, AskedFromARow, DoneIsPast, Stored, MembersHaveVenue, Members, HoldsTopic, HoldsNote, Moving, Saving, Wanted
<1>2. ASSUME NEW c \in Callers, Abort(c) PROVE Inv'
  BY <1>2, EndingPreserves DEF Abort
<1>3. ASSUME NEW c \in Callers, NEW r \in Requests, Begin(c, r) PROVE Inv'
  BY <1>3, MoveLocksTopicPreserves, RemoveMemberPreserves, SaveTopicPreserves, SaveLocksNotePreserves DEF Begin
<1>4. ASSUME NEW c \in Callers, Continue(c) PROVE Inv'
  BY <1>2, <1>4, MoveLocksNotePreserves, MoveWritesPreserves, SaveWritesPreserves DEF Continue
<1> QED
  BY <1>1, <1>3, <1>4, CreateNotePreserves, CreateTopicPreserves, AskPreserves DEF Next

(* And so does that of the shelf.                                          *)
THEOREM Invariant == Spec => []Inv
  BY InitInv, NextInv, PTL DEF Spec

(* For any notes, topics, venues and requests, however they overlap: a member *)
(* of a topic belongs to its venue (l3-study-notes.service.ts:660).         *)
THEOREM Belonging == Spec => []MembersHaveVenue
  BY Invariant, PTL DEF Inv

(* A request takes effect once at most, whatever was written between its    *)
(* sendings (l3-study-notes.service.ts:640).                               *)
THEOREM OncePerRequest == Spec => []RequestsActOnce
<1>1. Inv => RequestsActOnce
  BY DEF Inv, DoneIsPast, RequestsActOnce
<1> QED
  BY <1>1, Invariant, PTL
(* Members are numbered 0, 1, .. without a gap or a double.                  *)
Numbering(f) ==
  IsFiniteSet(DOMAIN f) /\ f \in Bijection(DOMAIN f, 0 .. Cardinality(DOMAIN f) - 1)

LEMMA NumberingFacts ==
  ASSUME NEW f, Numbering(f)
  PROVE  /\ Cardinality(DOMAIN f) \in Nat
         /\ \A m \in DOMAIN f : f[m] \in 0 .. Cardinality(DOMAIN f) - 1
         /\ \A m, k \in DOMAIN f : f[m] = f[k] => m = k
         /\ \A j \in 0 .. Cardinality(DOMAIN f) - 1 : \E m \in DOMAIN f : f[m] = j
<1>1. Cardinality(DOMAIN f) \in Nat
  BY FS_CardinalityType DEF Numbering
<1> QED
  BY <1>1 DEF Numbering, Bijection, Injection, Surjection, IsInjective

LEMMA NumberingIntro ==
  ASSUME NEW S, NEW f \in [S -> Int], IsFiniteSet(S),
         \A m \in S : f[m] \in 0 .. Cardinality(S) - 1,
         \A m, k \in S : f[m] = f[k] => m = k,
         \A j \in 0 .. Cardinality(S) - 1 : \E m \in S : f[m] = j
  PROVE  Numbering(f) /\ DOMAIN f = S
<1>1. f \in [S -> 0 .. Cardinality(S) - 1]
  OBVIOUS
<1> QED
  BY <1>1 DEF Numbering, Bijection, Injection, Surjection, IsInjective

LEMMA NumberingIsDense ==
  ASSUME NEW f, Numbering(f)
  PROVE  {f[m] : m \in DOMAIN f} = 0 .. Cardinality(DOMAIN f) - 1
  BY NumberingFacts

(* The members before a member are as many as its number says.               *)
LEMMA RankAll ==
  ASSUME NEW f, Numbering(f), NEW m \in DOMAIN f
  PROVE  /\ IsFiniteSet({k \in DOMAIN f : f[k] < f[m]})
         /\ Cardinality({k \in DOMAIN f : f[k] < f[m]}) = f[m]
<1> DEFINE B == {k \in DOMAIN f : f[k] < f[m]}
           T == 0 .. f[m] - 1
           g == [k \in B |-> f[k]]
<1>1. Cardinality(DOMAIN f) \in Nat /\ f[m] \in Nat /\ f[m] < Cardinality(DOMAIN f)
  BY NumberingFacts
<1>2. IsFiniteSet(B)
  BY FS_Subset DEF Numbering
<1>3. g \in Bijection(B, T)
  <2>1. g \in [B -> T]
    BY <1>1, NumberingFacts
  <2>2. \A k, l \in B : g[k] = g[l] => k = l
    BY NumberingFacts
  <2>3. \A j \in T : \E k \in B : g[k] = j
    <3>1. ASSUME NEW j \in T
          PROVE  \E k \in B : g[k] = j
      <4>1. PICK k \in DOMAIN f : f[k] = j
        BY <1>1, NumberingFacts
      <4>2. k \in B
        BY <1>1, <4>1
      <4> QED
        BY <4>1, <4>2
    <3> QED
      BY <3>1
  <2> QED
    BY <2>1, <2>2, <2>3 DEF Bijection, Injection, Surjection, IsInjective
<1>4. Cardinality(B) = Cardinality(T)
  BY <1>2, <1>3, FS_Bijection DEF ExistsBijection
<1>5. Cardinality(T) = f[m]
  BY <1>1, FS_Interval
<1> QED
  BY <1>2, <1>4, <1>5

(* The number of a member once x is taken out.                               *)
Squeezed(f, x, m) == IF x \in DOMAIN f /\ f[x] < f[m] THEN f[m] - 1 ELSE f[m]

LEMMA RankOthers ==
  ASSUME NEW f, Numbering(f), NEW x, NEW m \in DOMAIN f \ {x}
  PROVE  Cardinality({k \in DOMAIN f \ {x} : f[k] < f[m]}) = Squeezed(f, x, m)
<1> DEFINE B == {k \in DOMAIN f : f[k] < f[m]}
<1>1. {k \in DOMAIN f \ {x} : f[k] < f[m]} = B \ {x}
  OBVIOUS
<1>2. IsFiniteSet(B) /\ Cardinality(B) = f[m]
  BY RankAll
<1>3. x \in B <=> x \in DOMAIN f /\ f[x] < f[m]
  OBVIOUS
<1> HIDE DEF B
<1> QED
  BY <1>1, <1>2, <1>3, FS_RemoveElement DEF Squeezed

LEMMA Removal ==
  ASSUME NEW f, Numbering(f), NEW x, NEW g, g = [m \in DOMAIN f \ {x} |-> Squeezed(f, x, m)]
  PROVE  /\ Numbering(g) /\ DOMAIN g = DOMAIN f \ {x}
         /\ \A m, k \in DOMAIN f \ {x} : f[m] < f[k] <=> g[m] < g[k]
<1> DEFINE n == Cardinality(DOMAIN f)
           S == DOMAIN f \ {x}
<1>1. /\ n \in Nat
      /\ \A m \in DOMAIN f : f[m] \in 0 .. n - 1
      /\ \A m, k \in DOMAIN f : f[m] = f[k] => m = k
      /\ \A j \in 0 .. n - 1 : \E m \in DOMAIN f : f[m] = j
  BY NumberingFacts
<1>2. IsFiniteSet(S) /\ Cardinality(S) = IF x \in DOMAIN f THEN n - 1 ELSE n
  BY FS_RemoveElement DEF Numbering
<1> HIDE DEF n
<1>3. CASE x \in DOMAIN f
  <2>1. \A m \in S : /\ g[m] = IF f[x] < f[m] THEN f[m] - 1 ELSE f[m]
                     /\ f[m] \in 0 .. n - 1 /\ f[x] \in 0 .. n - 1 /\ f[m] # f[x]
    BY <1>1, <1>3 DEF Squeezed
  <2>2. \A m \in S : g[m] \in 0 .. n - 2
    BY <1>1, <2>1
  <2>3. \A m, k \in S : (g[m] = g[k] => m = k) /\ (f[m] < f[k] <=> g[m] < g[k])
    <3>1. \A m, k \in S : f[m] = f[k] => m = k
      BY <1>1
    <3> QED
      BY <1>1, <2>1, <3>1
  <2>4. ASSUME NEW j \in 0 .. n - 2
        PROVE  \E m \in S : g[m] = j
    <3>1. CASE j < f[x]
      <4>1. PICK m \in DOMAIN f : f[m] = j
        BY <1>1
      <4>2. m \in S /\ g[m] = j
        BY <1>1, <2>1, <3>1, <4>1
      <4> QED
        BY <4>2
    <3>2. CASE ~(j < f[x])
      <4>1. PICK m \in DOMAIN f : f[m] = j + 1
        BY <1>1
      <4>2. m # x
        BY <1>1, <1>3, <3>2, <4>1
      <4>3. m \in S /\ g[m] = j
        BY <1>1, <1>3, <2>1, <3>2, <4>1, <4>2
      <4> QED
        BY <4>3
    <3> QED
      BY <3>1, <3>2
  <2>5. Cardinality(S) - 1 = n - 2 /\ 0 .. Cardinality(S) - 1 = 0 .. n - 2
    BY <1>1, <1>2, <1>3
  <2>6. g \in [S -> Int]
    BY <1>1, <2>2
  <2> HIDE DEF S
  <2>7. /\ \A m \in S : g[m] \in 0 .. Cardinality(S) - 1
        /\ \A j \in 0 .. Cardinality(S) - 1 : \E m \in S : g[m] = j
    BY <2>2, <2>4, <2>5
  <2>8. Numbering(g) /\ DOMAIN g = S
    BY <1>2, <2>3, <2>6, <2>7, NumberingIntro
  <2> QED
    BY <2>3, <2>8 DEF S
<1>4. CASE x \notin DOMAIN f
  <2>1. S = DOMAIN f /\ \A m \in S : g[m] = f[m]
    BY <1>4 DEF Squeezed
  <2>2. g \in [S -> Int] /\ Cardinality(S) = n
    BY <1>1, <1>2, <1>4, <2>1
  <2> HIDE DEF S
  <2>4. 0 .. Cardinality(S) - 1 = 0 .. n - 1
    BY <2>2
  <2>5. /\ \A m \in S : g[m] \in 0 .. Cardinality(S) - 1
        /\ \A m, k \in S : g[m] = g[k] => m = k
        /\ \A j \in 0 .. Cardinality(S) - 1 : \E m \in S : g[m] = j
    <3>1. \A m, k \in S : g[m] \in 0 .. n - 1 /\ (g[m] = g[k] => m = k)
      BY <1>1, <2>1
    <3>2. ASSUME NEW j \in 0 .. n - 1
          PROVE  \E m \in S : g[m] = j
      BY <1>1, <2>1
    <3> QED
      BY <2>4, <3>1, <3>2
  <2>3. Numbering(g) /\ DOMAIN g = S
    BY <1>2, <2>2, <2>5, NumberingIntro
  <2> QED
    BY <2>1, <2>3 DEF S
<1> QED
  BY <1>3, <1>4

(* x is put in at a place, and what follows moves up.                        *)
Shifted(g, place, m) == IF g[m] < place THEN g[m] ELSE g[m] + 1

LEMMA Insertion ==
  ASSUME NEW g, Numbering(g), NEW x, x \notin DOMAIN g, NEW place \in 0 .. Cardinality(DOMAIN g),
         NEW h, h = [m \in DOMAIN g \cup {x} |-> IF m = x THEN place ELSE Shifted(g, place, m)]
  PROVE  /\ Numbering(h) /\ DOMAIN h = DOMAIN g \cup {x} /\ h[x] = place
         /\ \A m, k \in DOMAIN g : g[m] < g[k] <=> h[m] < h[k]
         /\ \A m \in DOMAIN g : h[m] > place <=> g[m] >= place
<1> DEFINE n == Cardinality(DOMAIN g)
           S == DOMAIN g \cup {x}
<1>1. /\ n \in Nat
      /\ \A m \in DOMAIN g : g[m] \in 0 .. n - 1
      /\ \A m, k \in DOMAIN g : g[m] = g[k] => m = k
      /\ \A j \in 0 .. n - 1 : \E m \in DOMAIN g : g[m] = j
  BY NumberingFacts
<1>2. IsFiniteSet(S) /\ Cardinality(S) = n + 1
  BY FS_AddElement DEF Numbering
<1>3. place \in 0 .. n
  OBVIOUS
<1> HIDE DEF n
<1>4. /\ h[x] = place
      /\ \A m \in DOMAIN g : /\ h[m] = IF g[m] < place THEN g[m] ELSE g[m] + 1
                             /\ g[m] \in 0 .. n - 1
  BY <1>1 DEF Shifted
<1>5. \A m \in S : h[m] \in 0 .. n
  BY <1>1, <1>3, <1>4
<1>6. \A m, k \in DOMAIN g : (h[m] = h[k] => m = k) /\ (g[m] < g[k] <=> h[m] < h[k])
  BY <1>1, <1>3, <1>4
<1>7. \A m \in DOMAIN g : h[m] # place /\ (h[m] > place <=> g[m] >= place)
  BY <1>1, <1>3, <1>4
<1>8. \A m, k \in S : h[m] = h[k] => m = k
  BY <1>4, <1>6, <1>7
<1>9. ASSUME NEW j \in 0 .. n
      PROVE  \E m \in S : h[m] = j
  <2>1. CASE j = place
    BY <1>4, <2>1
  <2>2. CASE j < place
    <3>1. PICK m \in DOMAIN g : g[m] = j
      BY <1>1, <1>3, <2>2
    <3> QED
      BY <1>4, <2>2, <3>1
  <2>3. CASE j > place
    <3>1. PICK m \in DOMAIN g : g[m] = j - 1
      BY <1>1, <1>3, <2>3
    <3> QED
      BY <1>1, <1>3, <1>4, <2>3, <3>1
  <2> QED
    BY <1>1, <1>3, <2>1, <2>2, <2>3
<1>10. Cardinality(S) - 1 = n
  BY <1>1, <1>2
<1>11. h \in [S -> Int]
  BY <1>1, <1>5
<1>13. 0 .. Cardinality(S) - 1 = 0 .. n
  BY <1>10
<1> HIDE DEF S
<1>12. Numbering(h) /\ DOMAIN h = S
  <2>1. /\ \A m \in S : h[m] \in 0 .. Cardinality(S) - 1
        /\ \A j \in 0 .. Cardinality(S) - 1 : \E m \in S : h[m] = j
    BY <1>5, <1>9, <1>13
  <2> QED
    BY <1>2, <1>8, <1>11, <2>1, NumberingIntro
<1> QED
  BY <1>4, <1>6, <1>7, <1>12 DEF S

-----------------------------------------------------------------------------
Numbered == \A t \in Topics : Numbering(at[t])

LEMMA RankIs ==
  ASSUME Inv, Numbered, NEW t \in Topics, NEW x, NEW m \in Members(t) \ {x}
  PROVE  Rank(t, Members(t) \ {x}, m) = Squeezed(at[t], x, m)
  BY RankOthers DEF Numbered, Members, Rank

LEMMA RemovedIs ==
  ASSUME Inv, Numbered, NEW w, w.topic \in Topics
  PROVE  LET f == at[w.topic]  g == Removed(w) IN
         /\ Numbering(g) /\ DOMAIN g = Members(w.topic) \ {w.note}
         /\ \A m \in Others(w) : g[m] = Rank(w.topic, Others(w), m)
         /\ \A m, k \in Others(w) : f[m] < f[k] <=> g[m] < g[k]
<1> DEFINE f == at[w.topic]
           g == Removed(w)
<1>1. Numbering(f)
  BY DEF Numbered
<1>2. g = [m \in DOMAIN f \ {w.note} |-> Squeezed(f, w.note, m)]
  BY RankIs DEF Removed, Others, Members
<1>3. \A m \in Others(w) : g[m] = Rank(w.topic, Others(w), m)
  BY DEF Removed
<1> HIDE DEF f, g
<1>4. /\ Numbering(g) /\ DOMAIN g = DOMAIN f \ {w.note}
      /\ \A m, k \in DOMAIN f \ {w.note} : f[m] < f[k] <=> g[m] < g[k]
  BY <1>1, <1>2, Removal
<1> QED
  BY <1>3, <1>4 DEF f, g, Others, Members

(* One member moves or joins.                                               *)
LEMMA ReorderedIs ==
  ASSUME Inv, Numbered, NEW w, w.topic \in Topics, w.before \in Notes \cup {NoNote}, Admitted(w)
  PROVE  LET f == at[w.topic]  h == Reordered(w) IN
         /\ Numbering(h) /\ DOMAIN h = Others(w) \cup {w.note}
         /\ \A m, k \in Others(w) : f[m] < f[k] <=> h[m] < h[k]
         /\ \A m \in Others(w) :
              h[m] > h[w.note] <=> w.before # NoNote /\ (m = w.before \/ f[w.before] < f[m])
<1> DEFINE f == at[w.topic]
           g == Removed(w)
           h == Reordered(w)
           p == Place(w)
<1>1. /\ Numbering(g) /\ DOMAIN g = Others(w)
      /\ \A m \in Others(w) : g[m] = Rank(w.topic, Others(w), m)
      /\ \A m, k \in Others(w) : f[m] < f[k] <=> g[m] < g[k]
  BY RemovedIs DEF Others
<1>2. h = [m \in Others(w) \cup {w.note} |-> IF m = w.note THEN p ELSE Shifted(g, p, m)]
  BY <1>1 DEF Reordered, Shifted
<1>3. w.before # NoNote => w.before \in Others(w)
  BY DEF Admitted, Others
<1>4. p = IF w.before = NoNote THEN Cardinality(DOMAIN g) ELSE g[w.before]
  BY <1>1, <1>3 DEF Place
<1>5. w.note \notin Others(w)
  BY DEF Others
<1> HIDE DEF f, g, h, p
<1>6. /\ Cardinality(DOMAIN g) \in Nat
      /\ \A m \in DOMAIN g : g[m] \in 0 .. Cardinality(DOMAIN g) - 1
      /\ \A m, k \in DOMAIN g : g[m] = g[k] => m = k
  BY <1>1, NumberingFacts
<1>7. p \in 0 .. Cardinality(DOMAIN g)
  BY <1>1, <1>3, <1>4, <1>6
<1>8. /\ Numbering(h) /\ DOMAIN h = Others(w) \cup {w.note} /\ h[w.note] = p
      /\ \A m, k \in Others(w) : g[m] < g[k] <=> h[m] < h[k]
      /\ \A m \in Others(w) : h[m] > p <=> g[m] >= p
  BY <1>1, <1>2, <1>5, <1>7, Insertion
<1>9. ASSUME NEW m \in Others(w)
      PROVE  g[m] >= p <=> w.before # NoNote /\ (m = w.before \/ f[w.before] < f[m])
  <2>1. CASE w.before = NoNote
    BY <1>1, <1>4, <1>6, <1>9, <2>1
  <2>2. CASE w.before # NoNote
    <3>1. p = g[w.before] /\ w.before \in DOMAIN g /\ m \in DOMAIN g
      BY <1>1, <1>3, <1>4, <2>2
    <3>2. g[m] >= p <=> g[m] = g[w.before] \/ g[w.before] < g[m]
      BY <1>6, <3>1
    <3>3. g[m] = g[w.before] <=> m = w.before
      BY <1>6, <3>1
    <3>4. g[w.before] < g[m] <=> f[w.before] < f[m]
      BY <1>1, <3>1
    <3> QED
      BY <2>2, <3>2, <3>3, <3>4
  <2> QED
    BY <2>1, <2>2
<1> QED
  BY <1>1, <1>8, <1>9 DEF f, h

-----------------------------------------------------------------------------
(* What a step does to the order of the members.                            *)
Moved ==
  \A t \in Topics : at'[t] # at[t] =>
       LET w == asked[topic'[t].last] IN
         /\ w.topic = t
         /\ DOMAIN at'[t] \ {w.note} = Members(t) \ {w.note}
         /\ {at'[t][m] : m \in DOMAIN at'[t]} = 0..Cardinality(DOMAIN at'[t]) - 1
         /\ \A m, n \in Members(t) \ {w.note} : Precedes(t, m, n) <=> Precedes(t, m, n)'
         /\ w.kind = "move" =>
              \A m \in DOMAIN at'[t] \ {w.note} :
                at'[t][m] > at'[t][w.note] <=>
                  w.before # NoNote /\ (m = w.before \/ Precedes(t, w.before, m))

LEMMA OneTopic ==
  ASSUME NEW t \in Topics, NEW w, w = asked[topic'[t].last], w.topic = t, NEW h, at'[t] = h, Numbering(h),
         \A u \in Topics : u # t => at'[u] = at[u],
         DOMAIN h \ {w.note} = Members(t) \ {w.note},
         \A m, n \in Members(t) \ {w.note} : at[t][m] < at[t][n] <=> h[m] < h[n],
         w.kind = "move" =>
           \A m \in Members(t) \ {w.note} :
             h[m] > h[w.note] <=> w.before # NoNote /\ (m = w.before \/ at[t][w.before] < at[t][m])
  PROVE  Moved
<1> SUFFICES ASSUME NEW u \in Topics, at'[u] # at[u]
             PROVE  LET v == asked[topic'[u].last] IN
                    /\ v.topic = u
                    /\ DOMAIN at'[u] \ {v.note} = Members(u) \ {v.note}
                    /\ {at'[u][m] : m \in DOMAIN at'[u]} = 0..Cardinality(DOMAIN at'[u]) - 1
                    /\ \A m, n \in Members(u) \ {v.note} : Precedes(u, m, n) <=> Precedes(u, m, n)'
                    /\ v.kind = "move" =>
                         \A m \in DOMAIN at'[u] \ {v.note} :
                           at'[u][m] > at'[u][v.note] <=>
                             v.before # NoNote /\ (m = v.before \/ Precedes(u, v.before, m))
  BY DEF Moved
<1>1. u = t /\ at'[u] = h
  OBVIOUS
<1>2. {at'[u][m] : m \in DOMAIN at'[u]} = 0..Cardinality(DOMAIN at'[u]) - 1
  <2>1. {h[m] : m \in DOMAIN h} = 0 .. Cardinality(DOMAIN h) - 1
    BY NumberingIsDense
  <2>2. at'[u] = h
    BY <1>1
  <2>3. \A j : (\E m \in DOMAIN at'[u] : at'[u][m] = j) <=> j \in 0 .. Cardinality(DOMAIN at'[u]) - 1
    <3>1. \A j : (\E m \in DOMAIN h : h[m] = j) <=> j \in 0 .. Cardinality(DOMAIN h) - 1
      BY <2>1
    <3> QED
      BY <2>2, <3>1
  <2> QED
    BY <2>3
<1>3. \A m, n \in Members(u) \ {w.note} : Precedes(u, m, n) <=> Precedes(u, m, n)'
  BY <1>1 DEF Precedes
<1>4. w.kind = "move" =>
        \A m \in DOMAIN at'[u] \ {w.note} :
          at'[u][m] > at'[u][w.note] <=> w.before # NoNote /\ (m = w.before \/ Precedes(u, w.before, m))
  BY <1>1 DEF Precedes
<1>5. asked[topic'[u].last] = w /\ w.topic = u /\ DOMAIN at'[u] \ {w.note} = Members(u) \ {w.note}
  BY <1>1
<1> QED
  BY <1>2, <1>3, <1>4, <1>5

LEMMA MoveKeepsOrder ==
  ASSUME Inv, Numbered, NEW c \in Callers, MoveWrites(c)
  PROVE  Numbered' /\ Moved
<1>0. PICK r, w, t : r = tx[c].req /\ w = asked[r] /\ t = w.topic
  OBVIOUS
<1>1. r \in Requests /\ w.kind = "move"
  BY <1>0 DEF MoveWrites, Inv, ShelfTypes, HeldIsCurrent, Moving, Wanted, Free
<1>2. t \in Topics /\ w.note \in Notes /\ w.before \in Notes \cup {NoNote} /\ w \in Writes
  BY <1>0, <1>1, Kinds DEF Inv, ShelfTypes, Writes, Unasked
<1>3. CASE ~Admitted(w)
  <2>1. UNCHANGED at
    BY <1>0, <1>3 DEF MoveWrites, Answered
  <2> QED
    BY <2>1 DEF Numbered, Moved
<1>4. CASE Admitted(w)
  <2>1. /\ at' = [at EXCEPT ![t] = Reordered(w)] /\ topic' = [topic EXCEPT ![t] = Bumped(@, r)]
        /\ UNCHANGED asked
    BY <1>0, <1>4 DEF MoveWrites
  <2>2. PICK h : h = Reordered(w)
    OBVIOUS
  <2>3. /\ at'[t] = h /\ topic'[t].last = r
        /\ \A u \in Topics : u # t => at'[u] = at[u]
    BY <1>2, <2>1, <2>2 DEF Inv, ShelfTypes, Bumped
  <2>4. /\ Numbering(h) /\ DOMAIN h = (Members(t) \ {w.note}) \cup {w.note}
        /\ \A m, k \in Members(t) \ {w.note} : at[t][m] < at[t][k] <=> h[m] < h[k]
        /\ \A m \in Members(t) \ {w.note} :
             h[m] > h[w.note] <=> w.before # NoNote /\ (m = w.before \/ at[t][w.before] < at[t][m])
    <3>0. w.topic \in Topics /\ w.before \in Notes \cup {NoNote} /\ Admitted(w)
      BY <1>0, <1>2, <1>4
    <3>1. /\ Numbering(Reordered(w)) /\ DOMAIN Reordered(w) = Others(w) \cup {w.note}
          /\ \A m, k \in Others(w) : at[w.topic][m] < at[w.topic][k] <=> Reordered(w)[m] < Reordered(w)[k]
          /\ \A m \in Others(w) :
               Reordered(w)[m] > Reordered(w)[w.note] <=>
                 w.before # NoNote /\ (m = w.before \/ at[w.topic][w.before] < at[w.topic][m])
      BY <3>0, ReorderedIs
    <3>2. w.topic = t
      BY <1>0
    <3>3. /\ Numbering(h) /\ DOMAIN h = Others(w) \cup {w.note}
          /\ \A m, k \in Others(w) : at[t][m] < at[t][k] <=> h[m] < h[k]
          /\ \A m \in Others(w) :
               h[m] > h[w.note] <=> w.before # NoNote /\ (m = w.before \/ at[t][w.before] < at[t][m])
      BY <2>2, <3>1, <3>2
    <3>4. Others(w) = Members(t) \ {w.note}
      BY <3>2 DEF Others
    <3> QED
      BY <3>3, <3>4
  <2>5. Numbered'
    BY <2>3, <2>4 DEF Numbered
  <2>6. w = asked[topic'[t].last] /\ w.topic = t /\ DOMAIN h \ {w.note} = Members(t) \ {w.note}
    BY <1>0, <2>3, <2>4
  <2>7. Moved
    BY <1>2, <2>3, <2>4, <2>6, OneTopic
  <2> QED
    BY <2>5, <2>7
<1> QED
  BY <1>3, <1>4

LEMMA RemovalKeepsOrder ==
  ASSUME Inv, Numbered, NEW c \in Callers, NEW r \in Requests, RemoveMember(c, r)
  PROVE  Numbered' /\ Moved
<1>0. PICK w, t : w = asked[r] /\ t = w.topic
  OBVIOUS
<1>1. w.kind = "remove" /\ t \in Topics /\ w.note \in Notes
  BY <1>0, Kinds DEF RemoveMember, Sends, Inv
<1>2. CASE UNCHANGED at
  BY <1>2 DEF Numbered, Moved
<1>3. CASE at' = [at EXCEPT ![t] = Removed(w)] /\ topic' = [topic EXCEPT ![t] = Bumped(@, r)]
  <2>2. PICK h : h = Removed(w)
    OBVIOUS
  <2>3. /\ at'[t] = h /\ topic'[t].last = r
        /\ \A u \in Topics : u # t => at'[u] = at[u]
    BY <1>0, <1>1, <1>3, <2>2 DEF Inv, ShelfTypes, Bumped
  <2>4. /\ Numbering(h) /\ DOMAIN h = Members(t) \ {w.note}
        /\ \A m, k \in Members(t) \ {w.note} : at[t][m] < at[t][k] <=> h[m] < h[k]
    BY <1>0, <1>1, <2>2, RemovedIs DEF Others
  <2>5. Numbered'
    BY <2>3, <2>4 DEF Numbered
  <2>6. w = asked[topic'[t].last] /\ w.topic = t /\ w.kind # "move" /\ DOMAIN h \ {w.note} = Members(t) \ {w.note}
    BY <1>0, <1>1, <2>3, <2>4
  <2>7. Moved
    BY <1>1, <2>3, <2>4, <2>6, OneTopic
  <2> QED
    BY <2>5, <2>7
<1> QED
  BY <1>0, <1>2, <1>3 DEF RemoveMember, Answered

LEMMA NumberedStep == Inv /\ Numbered /\ [Next]_vars => Numbered' /\ Moved
<1> SUFFICES ASSUME Inv, Numbered, [Next]_vars PROVE Numbered' /\ Moved
  OBVIOUS
<1>1. CASE UNCHANGED at
  BY <1>1 DEF Numbered, Moved
<1>2. ASSUME NEW c \in Callers, MoveWrites(c) PROVE Numbered' /\ Moved
  BY <1>2, MoveKeepsOrder
<1>3. ASSUME NEW c \in Callers, NEW r \in Requests, RemoveMember(c, r) PROVE Numbered' /\ Moved
  BY <1>3, RemovalKeepsOrder
<1>4. \/ UNCHANGED at
      \/ \E c \in Callers : MoveWrites(c) \/ \E r \in Requests : RemoveMember(c, r)
  BY DEF Next, vars, CreateNote, CreateTopic, AskAny, Ask, Begin, Continue, MoveLocksTopic, SaveTopic,
         SaveLocksNote, MoveLocksNote, SaveWrites, Abort, Answered
<1> QED
  BY <1>1, <1>2, <1>3, <1>4

LEMMA NumberedInit == Init => Numbered
<1> SUFFICES ASSUME Init, NEW t \in Topics PROVE Numbering(at[t])
  BY DEF Numbered
<1>1. PICK ms \in SUBSET Notes : at[t] \in Bijection(ms, 0..Cardinality(ms) - 1)
  BY DEF Init, Arranged
<1>2. IsFiniteSet(ms)
  BY ShelfAssumption, FS_Subset
<1>3. DOMAIN at[t] = ms
  BY <1>1 DEF Bijection, Injection
<1> QED
  BY <1>1, <1>2, <1>3 DEF Numbering

(* One write moves one note, and the members are numbered without a gap     *)
(* (splice, replaceMemberPositions), for any number of members.             *)
THEOREM OneMoves == Spec => OnlyOneMoves
<1>1. Inv /\ Numbered /\ [Next]_vars => Numbered'
  BY NumberedStep
<1>2. Inv /\ Numbered /\ [Next]_vars =>
        [\A t \in Topics : at'[t] # at[t] =>
           LET w == asked[topic'[t].last] IN
             /\ w.topic = t
             /\ DOMAIN at'[t] \ {w.note} = Members(t) \ {w.note}
             /\ {at'[t][m] : m \in DOMAIN at'[t]} = 0..Cardinality(DOMAIN at'[t]) - 1
             /\ \A m, n \in Members(t) \ {w.note} : Precedes(t, m, n) <=> Precedes(t, m, n)'
             /\ w.kind = "move" =>
                  \A m \in DOMAIN at'[t] \ {w.note} :
                    at'[t][m] > at'[t][w.note] <=>
                      w.before # NoNote /\ (m = w.before \/ Precedes(t, w.before, m))]_vars
  BY NumberedStep DEF Moved
<1> QED
  BY <1>1, <1>2, NumberedInit, Invariant, PTL DEF Spec, OnlyOneMoves

-----------------------------------------------------------------------------
(* The diary                                                                *)

(* The instance has a Cardinality of its own.                               *)
LEMMA CardinalityIs == \A S : Diary!Cardinality(S) = Cardinality(S)
  BY DEF Diary!Cardinality, Cardinality

(* A number drawn is one that was free or is taken by now; requests have     *)
(* their types; and the two parts of DiaryIsTrue.                            *)
DiaryRequest ==
  {Diary!Free}
  \cup [at : {"captured"}, attempt : Nat]
  \cup [at : {"append"}, attempt : Nat, seq : Nat]
  \cup [at : {"patch"}, entry : Entries, status : {"raw", "reviewed"} \cup Diary!Final]
  \cup [at : {"absorb"}, entry : Entries, action : Diary!Actions, found : BOOLEAN]

DiaryTypes ==
  /\ bound \in Nat /\ cards \in 0..1
  /\ entry \in [Entries -> Diary!Row]
  /\ writers \in [Writers -> DiaryRequest]

DrawnInReach ==
  \A r \in Writers : writers[r].at = "append" => writers[r].seq \in 1 .. Cardinality(Diary!Rows) + 1

DiaryInv == DiaryTypes /\ DrawnInReach /\ DiaryIsTrue

LEMMA DiaryRequests ==
  ASSUME NEW t \in DiaryRequest
  PROVE  /\ t.at = "captured" => t \in [at : {"captured"}, attempt : Nat]
         /\ t.at = "append" => t \in [at : {"append"}, attempt : Nat, seq : Nat]
         /\ t.at = "patch" => t \in [at : {"patch"}, entry : Entries, status : {"raw", "reviewed"} \cup Diary!Final]
         /\ t.at = "absorb" => t \in [at : {"absorb"}, entry : Entries, action : Diary!Actions, found : BOOLEAN]
  BY DEF DiaryRequest, Diary!Free

LEMMA DiaryFinite ==
  /\ IsFiniteSet(Diary!Rows) /\ Cardinality(Diary!Rows) \in Nat
  /\ \A a : IsFiniteSet(Diary!Makers(a)) /\ Cardinality(Diary!Makers(a)) \in Nat
<1>1. Diary!Rows \subseteq Entries
  BY DEF Diary!Rows
<1>2. \A a : Diary!Makers(a) \subseteq Entries
  BY DEF Diary!Makers
<1> QED
  BY <1>1, <1>2, EntriesAssumption, FS_Subset, FS_CardinalityType

(* INSERT .. SELECT max(seq) + 1                                             *)
LEMMA NextNumber ==
  ASSUME Diary!DenseNumbers
  PROVE  Diary!NextSeq = Cardinality(Diary!Rows) + 1
<1> DEFINE n == Cardinality(Diary!Rows)
           S == Diary!Numbers \cup {0}
<1>1. n \in Nat /\ S = 0 .. n
  BY CardinalityIs, DiaryFinite DEF Diary!DenseNumbers
<1>2. \E x \in S : \A y \in S : x >= y
  BY <1>1
<1>3. Diary!Max(S) \in S /\ \A y \in S : Diary!Max(S) >= y
  BY <1>2 DEF Diary!Max
<1>4. Diary!Max(S) = n
  BY <1>1, <1>3
<1> QED
  BY <1>4 DEF Diary!NextSeq

(* Steps that write no entry.                                               *)
LEMMA EntriesKept ==
  ASSUME DiaryInv, UNCHANGED entry, writers' \in [Writers -> DiaryRequest], bound' \in Nat, cards' \in 0 .. 1,
         bound <= bound', cards <= cards', inBook => inBook' \/ Diary!Makers("add_word") = {},
         \A r \in Writers : writers'[r].at = "append" =>
           writers'[r].seq \in 1 .. Cardinality(Diary!Rows) + 1
  PROVE  DiaryInv'
<1>1. Diary!Rows' = Diary!Rows /\ Diary!Numbers' = Diary!Numbers /\ \A a : Diary!Makers(a)' = Diary!Makers(a)
  BY DEF Diary!Rows, Diary!Numbers, Diary!Makers
<1>2. DiaryTypes' /\ DrawnInReach'
  BY <1>1 DEF DiaryInv, DiaryTypes, DrawnInReach
<1>3. Diary!DenseNumbers'
  BY CardinalityIs, <1>1 DEF DiaryInv, DiaryIsTrue, Diary!DiaryIsTrue, Diary!DenseNumbers
<1>4. Diary!ReceiptsAreTrue'
  BY CardinalityIs, <1>1, DiaryFinite DEF DiaryInv, DiaryTypes, DiaryIsTrue, Diary!DiaryIsTrue, Diary!ReceiptsAreTrue
<1> QED
  BY <1>2, <1>3, <1>4 DEF DiaryInv, DiaryIsTrue, Diary!DiaryIsTrue

LEMMA AppendKeeps ==
  ASSUME DiaryInv, NEW r \in Writers, Diary!AppendEnd(r), ~Diary!Taken(writers[r].seq)
  PROVE  DiaryInv'
<1> DEFINE n == Cardinality(Diary!Rows)
           k == Diary!NewId
<1>1. /\ writers[r].seq \in 1 .. n + 1 /\ n \in Nat
      /\ Diary!Numbers = 1 .. n
  BY CardinalityIs, DiaryFinite DEF Diary!AppendEnd, DiaryInv, DrawnInReach, DiaryIsTrue, Diary!DiaryIsTrue, Diary!DenseNumbers
<1>2. writers[r].seq = n + 1
  BY <1>1 DEF Diary!Taken
<1>3. k \in Entries /\ k \notin Diary!Rows
  BY DEF Diary!AppendEnd, Diary!NewId, Diary!Rows
<1>4. entry' = [entry EXCEPT ![k] = [Diary!NoRow EXCEPT !.seq = writers[r].seq]]
  BY DEF Diary!AppendEnd
<1> HIDE DEF k
<1>5. /\ entry' \in [Entries -> Diary!Row] /\ entry'[k].seq = n + 1 /\ entry'[k].receipts = {}
      /\ \A e \in Entries : e # k => entry'[e] = entry[e]
  BY <1>1, <1>2, <1>3, <1>4 DEF DiaryInv, DiaryTypes, Diary!NoRow, Diary!Row, Diary!Final
<1>6. Diary!Rows' = Diary!Rows \cup {k}
  BY <1>1, <1>3, <1>5 DEF Diary!Rows
<1>7. Cardinality(Diary!Rows') = n + 1
  BY <1>3, <1>6, DiaryFinite, FS_AddElement
<1>8. Diary!Numbers' = 1 .. n + 1
  <2>1. Diary!Numbers' = Diary!Numbers \cup {n + 1}
    <3>1. k \in Diary!Rows' /\ \A e \in Diary!Rows : e \in Diary!Rows' /\ entry'[e].seq = entry[e].seq
      BY <1>3, <1>5, <1>6 DEF Diary!Rows
    <3>2. \A e \in Diary!Rows' : e = k \/ (e \in Diary!Rows /\ entry'[e].seq = entry[e].seq)
      BY <1>3, <1>5, <1>6 DEF Diary!Rows
    <3> QED
      BY <1>5, <3>1, <3>2 DEF Diary!Numbers
  <2> QED
    BY <1>1, <2>1
<1>9. Diary!DenseNumbers'
  BY CardinalityIs, <1>7, <1>8 DEF Diary!DenseNumbers
<1>10. \A a : Diary!Makers(a)' \subseteq Diary!Makers(a)
  BY <1>5 DEF Diary!Makers
<1>11. UNCHANGED <<inBook, bound, cards>>
  BY DEF Diary!AppendEnd
<1>12. Diary!ReceiptsAreTrue'
  <2>1. \A a : Diary!Makers(a)' \in SUBSET Diary!Makers(a)
    BY <1>10
  <2>2. \A a : Cardinality(Diary!Makers(a)') <= Cardinality(Diary!Makers(a)) /\ Cardinality(Diary!Makers(a)') \in Nat
    BY <2>1, DiaryFinite, FS_Subset, FS_CardinalityType
  <2> QED
    BY CardinalityIs, <1>10, <1>11, <2>2, DiaryFinite DEF Diary!ReceiptsAreTrue, DiaryInv, DiaryTypes, DiaryIsTrue, Diary!DiaryIsTrue
<1>13. DiaryTypes' /\ DrawnInReach'
  <2>1. writers' = [writers EXCEPT ![r] = Diary!Free]
    BY DEF Diary!AppendEnd, Diary!Goes
  <2>2. Diary!Free \in DiaryRequest /\ Diary!Free.at = "free"
    BY DEF Diary!Free, DiaryRequest
  <2>3. writers' \in [Writers -> DiaryRequest] /\ writers'[r].at = "free" /\ \A q \in Writers : q # r => writers'[q] = writers[q]
    BY <2>1, <2>2 DEF DiaryInv, DiaryTypes
  <2> QED
    BY <1>1, <1>5, <1>7, <1>11, <2>3 DEF DiaryInv, DiaryTypes, DrawnInReach
<1> QED
  BY <1>9, <1>12, <1>13 DEF DiaryInv, DiaryIsTrue, Diary!DiaryIsTrue

LEMMA PatchKeeps ==
  ASSUME DiaryInv, NEW r \in Writers, Diary!PatchWrite(r)
  PROVE  DiaryInv'
<1> DEFINE e == writers[r].entry
           s == writers[r].status
<1>1. e \in Entries /\ s \in {"raw", "reviewed"} \cup Diary!Final
  BY DiaryRequests DEF Diary!PatchWrite, DiaryInv, DiaryTypes
<1>2. entry' = [entry EXCEPT ![e].status = s]
  BY DEF Diary!PatchWrite
<1> HIDE DEF e, s
<1>3. /\ entry' \in [Entries -> Diary!Row]
      /\ \A k \in Entries : entry'[k].seq = entry[k].seq /\ entry'[k].receipts = entry[k].receipts
  BY <1>1, <1>2 DEF DiaryInv, DiaryTypes, Diary!Row
<1>4. Diary!Rows' = Diary!Rows /\ Diary!Numbers' = Diary!Numbers /\ \A a : Diary!Makers(a)' = Diary!Makers(a)
  <2>1. Diary!Rows' = Diary!Rows
    BY <1>3 DEF Diary!Rows
  <2>2. Diary!Numbers' = Diary!Numbers
    BY <1>3, <2>1 DEF Diary!Numbers, Diary!Rows
  <2> QED
    BY <1>3, <2>1, <2>2 DEF Diary!Makers
<1>5. UNCHANGED <<inBook, bound, cards>> /\ writers' = [writers EXCEPT ![r] = Diary!Free]
  BY DEF Diary!PatchWrite, Diary!Goes
<1>6. Diary!Free \in DiaryRequest /\ Diary!Free.at = "free"
  BY DEF Diary!Free, DiaryRequest
<1>7. DiaryTypes' /\ DrawnInReach'
  BY <1>3, <1>4, <1>5, <1>6 DEF DiaryInv, DiaryTypes, DrawnInReach
<1>8. Diary!DenseNumbers' /\ Diary!ReceiptsAreTrue'
  BY CardinalityIs, <1>4, <1>5 DEF DiaryInv, DiaryIsTrue, Diary!DiaryIsTrue, Diary!DenseNumbers, Diary!ReceiptsAreTrue
<1> QED
  BY <1>7, <1>8 DEF DiaryInv, DiaryIsTrue, Diary!DiaryIsTrue

LEMMA AbsorbKeeps ==
  ASSUME DiaryInv, NEW r \in Writers, Diary!AbsorbWrite(r)
  PROVE  DiaryInv'
<1> DEFINE e == writers[r].entry
           act == writers[r].action
           out == Diary!Outcome(r)
           closed == IF act = "none" THEN "archived" ELSE "absorbed"
<1>1. e \in Entries /\ act \in Diary!Actions /\ writers[r].found \in BOOLEAN
  BY DiaryRequests DEF Diary!AbsorbWrite, DiaryInv, DiaryTypes
<1>2. /\ out \in Diary!Receipts /\ out.action = act
      /\ act = "bind_l3" /\ ~out.deduped => ~writers[r].found
      /\ act = "enqueue_review" /\ ~out.deduped => cards = 0
  <2>1. (Diary!NewCards(r) = 0) \in BOOLEAN /\ (Diary!NewCards(r) # 0 => cards = 0)
    BY DEF Diary!NewCards
  <2>2. CASE act = "bind_l3"
    BY <1>1, <2>2 DEF Diary!Outcome, Diary!Receipts
  <2>3. CASE act = "enqueue_review"
    BY <1>1, <2>1, <2>3 DEF Diary!Outcome, Diary!Receipts
  <2>4. CASE act \notin {"bind_l3", "enqueue_review"}
    BY <1>1, <2>4 DEF Diary!Outcome, Diary!Receipts
  <2> QED
    BY <2>2, <2>3, <2>4
<1>3. /\ bound' = IF act = "bind_l3" /\ ~writers[r].found THEN bound + 1 ELSE bound
      /\ cards' = IF act = "enqueue_review" THEN cards + Diary!NewCards(r) ELSE cards
      /\ inBook' = (inBook \/ act = "add_word")
      /\ writers' = [writers EXCEPT ![r] = Diary!Free]
      /\ entry' = entry \/ entry' = [entry EXCEPT ![e].receipts = @ \cup {out}, ![e].status = closed]
  BY DEF Diary!AbsorbWrite, Diary!Goes
<1>4. closed \in {"raw", "reviewed"} \cup Diary!Final
  BY DEF Diary!Final
<1> HIDE DEF e, act, out, closed
<1>5. /\ entry' \in [Entries -> Diary!Row]
      /\ \A k \in Entries : /\ entry'[k].seq = entry[k].seq
                            /\ entry'[k].receipts \subseteq entry[k].receipts \cup IF k = e THEN {out} ELSE {}
  <2>1. CASE entry' = entry
    BY <2>1 DEF DiaryInv, DiaryTypes
  <2>2. CASE entry' = [entry EXCEPT ![e].receipts = @ \cup {out}, ![e].status = closed]
    <3> DEFINE row == [entry[e] EXCEPT !.receipts = @ \cup {out}, !.status = closed]
               got == entry[e].receipts \cup {out}
    <3>1. entry[e] \in Diary!Row /\ got \in SUBSET Diary!Receipts
      BY <1>1, <1>2 DEF DiaryInv, DiaryTypes, Diary!Row
    <3>2. row = [entry[e] EXCEPT !.receipts = got, !.status = closed]
      BY <3>1 DEF Diary!Row
    <3>3. entry' = [entry EXCEPT ![e] = row]
      BY <1>1, <2>2, <3>1 DEF DiaryInv, DiaryTypes, Diary!Row
    <3> HIDE DEF got
    <3>4. row \in Diary!Row /\ row.seq = entry[e].seq /\ row.receipts = got
      BY <1>4, <3>1, <3>2 DEF Diary!Row
    <3>5. got = entry[e].receipts \cup {out}
      BY DEF got
    <3> HIDE DEF row
    <3>6. entry' \in [Entries -> Diary!Row] /\ entry'[e] = row /\ \A k \in Entries : k # e => entry'[k] = entry[k]
      BY <1>1, <3>3, <3>4 DEF DiaryInv, DiaryTypes
    <3> QED
      BY <3>4, <3>5, <3>6
  <2> QED
    BY <1>3, <2>1, <2>2
<1>6. Diary!Rows' = Diary!Rows /\ Diary!Numbers' = Diary!Numbers
  <2>1. Diary!Rows' = Diary!Rows
    BY <1>5 DEF Diary!Rows
  <2> QED
    BY <1>5, <2>1 DEF Diary!Numbers, Diary!Rows
<1>7. \A a : Diary!Makers(a)' \subseteq Diary!Makers(a) \cup (IF out = [action |-> a, deduped |-> FALSE] THEN {e} ELSE {})
  BY <1>5 DEF Diary!Makers
<1>8. DiaryTypes' /\ DrawnInReach'
  <2>1. Diary!Free \in DiaryRequest /\ Diary!Free.at = "free"
    BY DEF Diary!Free, DiaryRequest
  <2>2. bound' \in Nat
    BY <1>3 DEF DiaryInv, DiaryTypes
  <2>3. cards' \in 0 .. 1
    BY <1>3 DEF DiaryInv, DiaryTypes, Diary!NewCards
  <2> QED
    BY <1>3, <1>5, <1>6, <2>1, <2>2, <2>3 DEF DiaryInv, DiaryTypes, DrawnInReach
<1>9. Diary!DenseNumbers'
  BY CardinalityIs, <1>6 DEF DiaryInv, DiaryIsTrue, Diary!DiaryIsTrue, Diary!DenseNumbers
<1>10. ASSUME NEW a
       PROVE  /\ Cardinality(Diary!Makers(a)') \in Nat
              /\ Cardinality(Diary!Makers(a)') <= Cardinality(Diary!Makers(a)) + 1
              /\ out # [action |-> a, deduped |-> FALSE] => Cardinality(Diary!Makers(a)') <= Cardinality(Diary!Makers(a))
  <2>1. IsFiniteSet(Diary!Makers(a)) /\ Cardinality(Diary!Makers(a)) \in Nat
    BY DiaryFinite
  <2>2. /\ IsFiniteSet(Diary!Makers(a) \cup {e})
        /\ Cardinality(Diary!Makers(a) \cup {e}) <= Cardinality(Diary!Makers(a)) + 1
        /\ Cardinality(Diary!Makers(a) \cup {e}) \in Nat
    BY <2>1, FS_AddElement
  <2>3. Diary!Makers(a)' \in SUBSET (Diary!Makers(a) \cup {e})
    BY <1>7
  <2>4. IsFiniteSet(Diary!Makers(a)') /\ Cardinality(Diary!Makers(a)') <= Cardinality(Diary!Makers(a) \cup {e})
    BY <2>2, <2>3, FS_Subset
  <2>5. Cardinality(Diary!Makers(a)') \in Nat
    BY <2>4, FS_CardinalityType
  <2>6. CASE out # [action |-> a, deduped |-> FALSE]
    <3>1. Diary!Makers(a)' \in SUBSET Diary!Makers(a)
      BY <1>7, <2>6
    <3>2. Cardinality(Diary!Makers(a)') <= Cardinality(Diary!Makers(a))
      BY <2>1, <3>1, FS_Subset
    <3> QED
      BY <2>1, <2>5, <3>2
  <2> QED
    BY <2>1, <2>2, <2>4, <2>5, <2>6
<1>11. /\ Cardinality(Diary!Makers("bind_l3")) <= bound /\ Cardinality(Diary!Makers("enqueue_review")) <= cards
       /\ Diary!Makers("add_word") # {} => inBook
       /\ bound \in Nat /\ cards \in 0 .. 1
       /\ \A a : Cardinality(Diary!Makers(a)) \in Nat
  BY CardinalityIs, DiaryFinite DEF DiaryInv, DiaryTypes, DiaryIsTrue, Diary!DiaryIsTrue, Diary!ReceiptsAreTrue
<1>12. Cardinality(Diary!Makers("bind_l3")') <= bound'
  <2>1. CASE out = [action |-> "bind_l3", deduped |-> FALSE]
    <3>1. bound' = bound + 1
      BY <1>2, <1>3, <2>1
    <3> QED
      BY <1>10, <1>11, <3>1
  <2>2. CASE out # [action |-> "bind_l3", deduped |-> FALSE]
    <3>1. bound' >= bound /\ bound' \in Nat
      BY <1>3, <1>11
    <3> QED
      BY <1>10, <1>11, <2>2, <3>1
  <2> QED
    BY <2>1, <2>2
<1>13. Cardinality(Diary!Makers("enqueue_review")') <= cards'
  <2>1. CASE out = [action |-> "enqueue_review", deduped |-> FALSE]
    <3>1. cards = 0 /\ cards' = 1
      BY <1>2, <1>3, <2>1 DEF Diary!NewCards
    <3> QED
      BY <1>10, <1>11, <3>1
  <2>2. CASE out # [action |-> "enqueue_review", deduped |-> FALSE]
    <3>1. cards' >= cards /\ cards' \in Nat
      BY <1>3, <1>11 DEF Diary!NewCards
    <3> QED
      BY <1>10, <1>11, <2>2, <3>1
  <2> QED
    BY <2>1, <2>2
<1>14. Diary!Makers("add_word")' # {} => inBook'
  <2>1. CASE act = "add_word"
    BY <1>3, <2>1
  <2>2. CASE act # "add_word"
    <3>1. Diary!Makers("add_word")' \subseteq Diary!Makers("add_word")
      BY <1>2, <1>7, <2>2
    <3>2. inBook => inBook'
      BY <1>3
    <3> QED
      BY <1>11, <3>1, <3>2
  <2> QED
    BY <2>1, <2>2
<1>15. Diary!ReceiptsAreTrue'
  BY CardinalityIs, <1>12, <1>13, <1>14 DEF Diary!ReceiptsAreTrue
<1> QED
  BY <1>8, <1>9, <1>15 DEF DiaryInv, DiaryIsTrue, Diary!DiaryIsTrue

(* A request goes on without writing an entry.                              *)
LEMMA DiaryGoing ==
  ASSUME DiaryInv, NEW r \in Writers, NEW t \in DiaryRequest, Diary!Goes(r, t), UNCHANGED <<entry, cards>>,
         bound' = bound \/ bound' = bound + 1, inBook => inBook',
         t.at = "append" => t.seq \in 1 .. Cardinality(Diary!Rows) + 1
  PROVE  DiaryInv'
<1>1. /\ writers' \in [Writers -> DiaryRequest]
      /\ \A q \in Writers : writers'[q].at = "append" => writers'[q].seq \in 1 .. Cardinality(Diary!Rows) + 1
  BY DEF Diary!Goes, DiaryInv, DiaryTypes, DrawnInReach
<1>2. bound' \in Nat /\ bound <= bound' /\ cards' \in 0 .. 1 /\ cards <= cards'
  BY DEF DiaryInv, DiaryTypes
<1> QED
  BY <1>1, <1>2, EntriesKept

LEMMA DiaryNext == DiaryInv /\ [Diary!Next]_Diary!vars => DiaryInv'
<1> SUFFICES ASSUME DiaryInv, [Diary!Next]_Diary!vars PROVE DiaryInv'
  OBVIOUS
<1>0. Diary!Free \in DiaryRequest /\ Diary!Free.at = "free"
  BY DEF Diary!Free, DiaryRequest
<1>1. CASE UNCHANGED Diary!vars
  <2>1. UNCHANGED <<inBook, bound, cards, entry, writers>>
    BY <1>1 DEF Diary!vars
  <2> QED
    BY <2>1, EntriesKept DEF DiaryInv, DiaryTypes, DrawnInReach
<1>2. ASSUME NEW r \in Writers, Diary!Capture(r)
      PROVE  DiaryInv'
  <2> DEFINE t == [at |-> "captured", attempt |-> 0]
  <2>1. t \in DiaryRequest /\ t.at # "append"
    BY DEF DiaryRequest
  <2> QED
    BY <1>2, <2>1, DiaryGoing DEF Diary!Capture, Diary!KeptBook
<1>3. ASSUME NEW r \in Writers, Diary!AppendBegin(r)
      PROVE  DiaryInv'
  <2>1. Diary!NextSeq = Cardinality(Diary!Rows) + 1 /\ Cardinality(Diary!Rows) \in Nat
    BY NextNumber, DiaryFinite DEF DiaryInv, DiaryIsTrue, Diary!DiaryIsTrue
  <2>2. PICK n \in Nat : Diary!Goes(r, [at |-> "append", attempt |-> n, seq |-> Diary!NextSeq])
    <3>1. CASE writers[r].at = "captured"
      <4>1. writers[r].attempt \in Nat
        BY <3>1, DiaryRequests DEF DiaryInv, DiaryTypes
      <4> QED
        BY <1>3, <3>1, <4>1 DEF Diary!AppendBegin
    <3>2. CASE writers[r].at # "captured"
      BY <1>3, <3>2 DEF Diary!AppendBegin
    <3> QED
      BY <3>1, <3>2
  <2> DEFINE t == [at |-> "append", attempt |-> n, seq |-> Diary!NextSeq]
  <2>3. t \in DiaryRequest /\ t.seq \in 1 .. Cardinality(Diary!Rows) + 1
    BY <2>1 DEF DiaryRequest
  <2> QED
    BY <1>3, <2>2, <2>3, DiaryGoing DEF Diary!AppendBegin
<1>4. ASSUME NEW r \in Writers, Diary!AppendEnd(r), Diary!Taken(writers[r].seq)
      PROVE  DiaryInv'
  <2>1. writers[r].attempt \in Nat
    BY <1>4, DiaryRequests DEF Diary!AppendEnd, DiaryInv, DiaryTypes
  <2> DEFINE t == IF Diary!MayRetry(writers[r].attempt)
                    THEN [at |-> "captured", attempt |-> writers[r].attempt + 1] ELSE Diary!Free
  <2>2. t \in DiaryRequest /\ t.at # "append"
    BY <1>0, <2>1 DEF DiaryRequest
  <2>3. Diary!Goes(r, t) /\ UNCHANGED <<inBook, bound, cards, entry>>
    BY <1>4 DEF Diary!AppendEnd
  <2> HIDE DEF t
  <2> QED
    BY <2>2, <2>3, DiaryGoing
<1>5. ASSUME NEW r \in Writers, NEW e \in Entries, NEW s \in {"raw", "reviewed"} \cup Diary!Final, Diary!PatchRead(r, e, s)
      PROVE  DiaryInv'
  <2> DEFINE t == [at |-> "patch", entry |-> e, status |-> s]
  <2>1. t \in DiaryRequest /\ t.at # "append"
    BY DEF DiaryRequest
  <2> QED
    BY <1>5, <2>1, DiaryGoing DEF Diary!PatchRead
<1>6. ASSUME NEW r \in Writers, NEW e \in Entries, NEW a \in Diary!Actions, Diary!AbsorbRead(r, e, a)
      PROVE  DiaryInv'
  <2> DEFINE t == [at |-> "absorb", entry |-> e, action |-> a, found |-> bound > 0]
  <2>1. t \in DiaryRequest /\ t.at # "append"
    BY DEF DiaryRequest
  <2> QED
    BY <1>6, <2>1, DiaryGoing DEF Diary!AbsorbRead
<1>7. ASSUME NEW r \in Writers, Diary!Dies(r)
      PROVE  DiaryInv'
  BY <1>0, <1>7, DiaryGoing DEF Diary!Dies
<1> QED
  BY <1>1, <1>2, <1>3, <1>4, <1>5, <1>6, <1>7, AppendKeeps, PatchKeeps, AbsorbKeeps DEF Diary!Next, Diary!Step

LEMMA DiaryInit == Diary!Init => DiaryInv
<1> SUFFICES ASSUME Diary!Init PROVE DiaryInv
  OBVIOUS
<1>1. Diary!Rows = {} /\ Diary!Numbers = {} /\ \A a : Diary!Makers(a) = {}
  BY DEF Diary!Init, Diary!NoRow, Diary!Rows, Diary!Numbers, Diary!Makers
<1>2. Cardinality(Diary!Rows) = 0 /\ \A a : Cardinality(Diary!Makers(a)) = 0
  BY <1>1, FS_EmptySet
<1>3. DiaryTypes /\ DrawnInReach
  BY DEF Diary!Init, DiaryTypes, DrawnInReach, Diary!NoRow, Diary!Row, Diary!Receipts, Diary!Final, Diary!Free, DiaryRequest
<1> QED
  BY CardinalityIs, <1>1, <1>2, <1>3 DEF Diary!Init, DiaryInv, DiaryIsTrue, Diary!DiaryIsTrue, Diary!DenseNumbers, Diary!ReceiptsAreTrue

(* For any number of requests that overlap, begin again or die: the entries  *)
(* of a day are numbered without gap or double, and receipts tell what was   *)
(* done (daily-capture.service.ts:93-123).                                  *)
THEOREM DiaryTrue == Diary!Spec => []DiaryIsTrue
<1>1. DiaryInv => DiaryIsTrue
  BY DEF DiaryInv
<1> QED
  BY <1>1, DiaryInit, DiaryNext, PTL DEF Diary!Spec

-----------------------------------------------------------------------------
(* The ladder session                                                       *)

(* A post and an answer both tell whose session, word and key was used.     *)
Used == answers \cup posts

(* What the page, its storage and the requests under way may hold.          *)
SessionType == [run : Nat, visits : Seq(Ladder!Visit), pos : Nat \ {0}, rows : Seq(Words),
                written : SUBSET Words, keys : [Words -> Nat]]
PageType == [view : {"select", "gate", "session"}, session : SessionType, failed : Nat,
             sending : BOOLEAN, fired : BOOLEAN]
StoredType == [session : SessionType, keys : [Words -> Nat], count : Nat]
PostType == [id : Nat, run : Nat, word : Words, key : Nat, counted : BOOLEAN,
             at : {"sent", "done", "repeat"}, waits : {"page", "left", "nobody"}]

LadderTypes ==
  /\ answers \subseteq [run : Nat, word : Words, key : Nat]
  /\ stored \in StoredType /\ page \in PageType /\ posts \subseteq PostType
  /\ runs \in Nat /\ sends \in Nat

(* Keys: a run has one key for a word and a key is of one word, which        *)
(* storage and page still know; a key rates once; what an answer reports    *)
(* was done.                                                                *)
UsedInReach == \A x \in Used : x.run \in 1 .. runs /\ x.key \in 1 .. sends
RunsInReach ==
  /\ stored.session.visits # <<>> => stored.session.run \in 1 .. runs
  /\ Ladder!Open => Ladder!Session.run \in 1 .. runs
StoredKeysHold == \A x \in Used : x.run = stored.session.run => stored.keys[x.word] = x.key
PageKeysHold == Ladder!Open => \A x \in Used : x.run = Ladder!Session.run => Ladder!Session.keys[x.word] = x.key
OneKeyPerRun == \A x, y \in Used : x.run = y.run /\ x.word = y.word => x.key = y.key
OneWordPerKey == \A x, y \in Used : x.key = y.key => x.word = y.word
Traced(keys) == \A w \in Words : keys[w] # Ladder!NoKey => \E x \in Used : x.word = w /\ x.key = keys[w]
KeysAreUsed == Traced(stored.keys) /\ Traced(stored.session.keys) /\ Traced(Ladder!Session.keys)
RatedOncePerKey == \A a, b \in answers : a.key = b.key => a = b
HandledIsKnown == \A p \in posts : p.at # "sent" => Ladder!Known(p.key)

KeysInv ==
  /\ UsedInReach /\ RunsInReach /\ StoredKeysHold /\ PageKeysHold /\ OneKeyPerRun /\ OneWordPerKey
  /\ KeysAreUsed /\ RatedOncePerKey /\ HandledIsKnown

(* Sessions: the page shows what is cached; a request it waits for, or one   *)
(* that failed, is of the dictation it stands at; what lies behind it is    *)
(* settled, under the key that storage keeps.                               *)
PageIsCached ==
  Ladder!Open => /\ Ladder!Session.run = stored.session.run /\ Ladder!Session.visits = stored.session.visits
                 /\ Ladder!Session.pos = stored.session.pos /\ Ladder!Session.rows = stored.session.rows
                 /\ \A w \in Ladder!ToSet(Ladder!Session.rows) : Ladder!Session.keys[w] = stored.keys[w]

AtDictation(w) ==
  /\ Ladder!Open /\ Ladder!Session.pos <= Len(Ladder!Session.visits)
  /\ Ladder!Session.visits[Ladder!Session.pos] = [word |-> w, stage |-> "dictation"]
  /\ w \in Ladder!Session.written

AnswerIsCurrent ==
  \A p \in posts : p.waits = "page" =>
    /\ page.sending /\ AtDictation(p.word) /\ p.run = Ladder!Session.run
    /\ p.counted = Ladder!Settled(p.word) /\ (p.at = "done" => ~Ladder!Settled(p.word))
    /\ \A q \in posts : q.waits = "page" => p = q

FailureIsCurrent == page.failed # 0 => page.failed = Ladder!Session.pos /\ \E w \in Words : AtDictation(w)

Blank == ~Ladder!Open => page \in {Ladder!Select, Ladder!Gate}

Sound(s) ==
  /\ s.pos <= Len(s.visits) + 1 /\ Ladder!IsInjective(s.rows)
  /\ \A w \in Ladder!ToSet(s.rows) : \E i \in 1 .. Len(s.visits) : s.visits[i].word = w
  /\ \A i \in 1 .. Len(s.visits) :
       /\ i < s.pos /\ s.visits[i].stage = "dictation" => s.visits[i].word \in Ladder!ToSet(s.rows)
       /\ \E j \in 1 .. Len(s.visits) : s.visits[j] = [word |-> s.visits[i].word, stage |-> "dictation"]

Rated(s) == \A w \in Ladder!ToSet(s.rows) : \E a \in answers : a.word = w /\ a.key = stored.keys[w]

SessionInv ==
  /\ PageIsCached /\ AnswerIsCurrent /\ FailureIsCurrent /\ Blank
  /\ Sound(stored.session) /\ Rated(stored.session) /\ stored.count >= Len(stored.session.rows)

LadderInv == LadderTypes /\ KeysInv /\ SessionInv

LEMMA Blanks ==
  /\ Ladder!NoKeys \in [Words -> Nat] /\ Ladder!NoSession \in SessionType /\ \A w \in Words : Ladder!NoKeys[w] = Ladder!NoKey
  /\ Ladder!Select \in PageType /\ Ladder!Gate \in PageType
  /\ Ladder!Select.session = Ladder!NoSession /\ Ladder!Gate.session = Ladder!NoSession
  /\ Ladder!Select.view = "select" /\ Ladder!Gate.view = "gate"
  /\ Ladder!Select.failed = 0 /\ Ladder!Gate.failed = 0 /\ ~Ladder!Select.sending /\ ~Ladder!Gate.sending
  /\ Ladder!NoSession.run = 0 /\ Ladder!NoSession.visits = <<>> /\ Ladder!NoSession.rows = <<>> /\ Ladder!NoSession.keys = Ladder!NoKeys
  /\ Ladder!NoSession.pos = 1 /\ Ladder!NoSession.written = {}
<1>1. Ladder!NoKeys \in [Words -> Nat] /\ \A w \in Words : Ladder!NoKeys[w] = Ladder!NoKey
  BY DEF Ladder!NoKeys, Ladder!NoKey
<1>2. /\ Ladder!NoSession \in SessionType
      /\ Ladder!NoSession.run = 0 /\ Ladder!NoSession.visits = <<>> /\ Ladder!NoSession.rows = <<>> /\ Ladder!NoSession.keys = Ladder!NoKeys
      /\ Ladder!NoSession.pos = 1 /\ Ladder!NoSession.written = {}
  BY <1>1 DEF Ladder!NoSession, SessionType
<1>3. /\ Ladder!Select \in PageType /\ Ladder!Select.session = Ladder!NoSession
      /\ Ladder!Select.view = "select" /\ Ladder!Select.failed = 0 /\ ~Ladder!Select.sending
  BY <1>2 DEF Ladder!Select, PageType
<1>4. /\ Ladder!Gate \in PageType /\ Ladder!Gate.session = Ladder!NoSession
      /\ Ladder!Gate.view = "gate" /\ Ladder!Gate.failed = 0 /\ ~Ladder!Gate.sending
  BY <1>2 DEF Ladder!Gate, Ladder!Select, PageType
<1> QED
  BY <1>1, <1>2, <1>3, <1>4

LEMMA ShowsIs ==
  ASSUME NEW s \in SessionType
  PROVE  /\ Ladder!Shows(s) \in PageType /\ Ladder!Shows(s).view = "session" /\ Ladder!Shows(s).session = s
         /\ Ladder!Shows(s).failed = 0 /\ ~Ladder!Shows(s).sending
  BY DEF Ladder!Shows, Ladder!Select, PageType

LEMMA CachedIs ==
  ASSUME stored \in StoredType, NEW s \in SessionType, Ladder!Cached(s)
  PROVE  stored' \in StoredType /\ stored'.session = s /\ stored'.keys = stored.keys /\ stored'.count = stored.count
  BY DEF Ladder!Cached, StoredType

LEMMA RestoredIs ==
  ASSUME stored \in StoredType, NEW s \in SessionType
  PROVE  /\ Ladder!RestoredKeys(s) \in [Words -> Nat]
         /\ \A w \in Words : Ladder!RestoredKeys(s)[w] = IF stored.keys[w] # Ladder!NoKey THEN stored.keys[w] ELSE s.keys[w]
  BY DEF Ladder!RestoredKeys, StoredType, SessionType

(* No request is made: nobody uses another key, and storage and page keep   *)
(* theirs, restore them or forget them with their session.                  *)
KnownKeys == {stored.keys, stored.session.keys, Ladder!Session.keys, Ladder!NoKeys, Ladder!RestoredKeys(stored.session)}

(* Whatever keys a step takes over, each is one that was used.              *)
LEMMA AllTraced == ASSUME LadderTypes, KeysAreUsed, NEW k \in KnownKeys PROVE Traced(k)
<1>1. stored.session \in SessionType
  BY DEF LadderTypes, StoredType
<1> DEFINE s == stored.session
<1>2. /\ \A w \in Words : Ladder!RestoredKeys(s)[w] = IF stored.keys[w] # Ladder!NoKey THEN stored.keys[w] ELSE s.keys[w]
  BY <1>1, RestoredIs DEF LadderTypes
<1>3. Traced(Ladder!RestoredKeys(s))
  <2>1. Traced(stored.keys) /\ Traced(s.keys)
    BY DEF KeysAreUsed
  <2> HIDE DEF s
  <2>2. ASSUME NEW w \in Words, Ladder!RestoredKeys(s)[w] # Ladder!NoKey
        PROVE  \E x \in Used : x.word = w /\ x.key = Ladder!RestoredKeys(s)[w]
    <3>1. CASE stored.keys[w] # Ladder!NoKey
      BY <1>2, <2>1, <3>1 DEF Traced
    <3>2. CASE stored.keys[w] = Ladder!NoKey
      BY <1>2, <2>1, <2>2, <3>2 DEF Traced
    <3> QED
      BY <3>1, <3>2
  <2> QED
    BY <2>2 DEF Traced
<1>4. Traced(Ladder!NoKeys)
  BY Blanks DEF Traced
<1> QED
  BY <1>3, <1>4 DEF KeysAreUsed, KnownKeys

(* Keys survive a step that only makes new ones and uses known ones.        *)
LEMMA KeysKept ==
  ASSUME LadderTypes, LadderTypes', KeysInv, runs <= runs', sends <= sends',
         \A x \in Used' : \E y \in Used : y.run = x.run /\ y.word = x.word /\ y.key = x.key,
         \A y \in Used : \E x \in Used' : y.word = x.word /\ y.key = x.key,
         stored'.keys \in KnownKeys, stored'.session.keys \in KnownKeys, Ladder!Session'.keys \in KnownKeys,
         RunsInReach',
         \/ stored'.session.run \notin 1 .. runs
         \/ stored'.session.run = stored.session.run /\ stored'.keys = stored.keys,
         Ladder!Open' => \/ Ladder!Session'.run \notin 1 .. runs
                         \/ Ladder!Open /\ Ladder!Session'.run = Ladder!Session.run /\ Ladder!Session'.keys = Ladder!Session.keys
                         \/ Ladder!Session'.run = stored.session.run /\ Ladder!Session'.keys = Ladder!RestoredKeys(stored.session)
  PROVE  /\ UsedInReach' /\ RunsInReach' /\ StoredKeysHold' /\ PageKeysHold' /\ OneKeyPerRun' /\ OneWordPerKey'
         /\ KeysAreUsed'
<1>1. UsedInReach'
  BY DEF UsedInReach, KeysInv, LadderTypes
<1>2. StoredKeysHold'
  BY DEF UsedInReach, StoredKeysHold, KeysInv
<1>3. PageKeysHold'
  <2>1. SUFFICES ASSUME Ladder!Open', NEW x \in Used', x.run = Ladder!Session'.run
                 PROVE  Ladder!Session'.keys[x.word] = x.key
    BY DEF PageKeysHold
  <2>2. PICK y \in Used : y.run = x.run /\ y.word = x.word /\ y.key = x.key
    OBVIOUS
  <2>3. y.run \in 1 .. runs /\ y.key \in 1 .. sends /\ y.word \in Words
    BY DEF UsedInReach, KeysInv, LadderTypes, Used, PostType
  <2>4. CASE Ladder!Open /\ Ladder!Session'.run = Ladder!Session.run /\ Ladder!Session'.keys = Ladder!Session.keys
    BY <2>1, <2>2, <2>4 DEF PageKeysHold, KeysInv
  <2>5. CASE Ladder!Session'.run = stored.session.run /\ Ladder!Session'.keys = Ladder!RestoredKeys(stored.session)
    <3>1. stored.session \in SessionType
      BY DEF LadderTypes, StoredType
    <3>2. stored.keys[y.word] = y.key
      BY <2>1, <2>2, <2>5 DEF StoredKeysHold, KeysInv
    <3> QED
      BY <2>2, <2>3, <2>5, <3>1, <3>2, RestoredIs DEF LadderTypes, Ladder!NoKey
  <2> QED
    BY <2>1, <2>2, <2>3, <2>4, <2>5
<1>4. OneKeyPerRun' /\ OneWordPerKey'
  BY DEF OneKeyPerRun, OneWordPerKey, KeysInv
<1>5. KeysAreUsed'
  <2>1. \A k \in KnownKeys : Traced(k) => Traced(k)'
    BY DEF Traced
  <2> QED
    BY <2>1, AllTraced DEF KeysAreUsed, Traced, KeysInv
<1> QED
  BY <1>1, <1>2, <1>3, <1>4, <1>5

(* Two lists one after the other.                                           *)
LEMMA Joined ==
  ASSUME NEW S, NEW s \in Seq(S), NEW t \in Seq(S)
  PROVE  /\ s \o t \in Seq(S) /\ Len(s \o t) = Len(s) + Len(t)
         /\ \A i \in 1 .. Len(s) : (s \o t)[i] = s[i]
         /\ \A i \in 1 .. Len(t) : (s \o t)[Len(s) + i] = t[i]
  BY ConcatProperties

(* The visits of one stage: one for every word of the order.                *)
LEMMA VisitsIs ==
  ASSUME NEW order \in Seq(Words), NEW stage \in {"card", "follow", "dictation", "meaning"}
  PROVE  /\ Ladder!Visits(order, stage) \in Seq(Ladder!Visit) /\ Len(Ladder!Visits(order, stage)) = Len(order)
         /\ \A i \in 1 .. Len(order) : /\ Ladder!Visits(order, stage)[i] = [word |-> order[i], stage |-> stage]
                                       /\ Ladder!Visits(order, stage)[i].word = order[i]
<1> DEFINE v == Ladder!Visits(order, stage)
<1>1. v = [i \in 1 .. Len(order) |-> [word |-> order[i], stage |-> stage]] /\ Len(order) \in Nat
  BY DEF Ladder!Visits
<1>2. \A i \in 1 .. Len(order) : [word |-> order[i], stage |-> stage] \in Ladder!Visit
  BY DEF Ladder!Visit
<1> QED
  BY <1>1, <1>2

(* An order read backwards has the same words.                              *)
LEMMA ReverseIs ==
  ASSUME NEW order \in Seq(Words)
  PROVE  /\ Ladder!Reverse(order) \in Seq(Words) /\ Len(Ladder!Reverse(order)) = Len(order)
         /\ \A i \in 1 .. Len(order) : Ladder!Reverse(order)[i] = order[Len(order) - i + 1]
  BY DEF Ladder!Reverse

LEMMA OrdersAre ==
  ASSUME NEW S \in SUBSET Words, NEW order \in Ladder!SetToSeqs(S)
  PROVE  order \in Seq(Words)
<1>1. IsFiniteSet(S) /\ Cardinality(S) \in Nat
  BY WordsAssumption, FS_Subset, FS_CardinalityType
<1>2. Ladder!Cardinality(S) = Cardinality(S)
  BY DEF Ladder!Cardinality, Cardinality
<1> QED
  BY <1>1, <1>2 DEF Ladder!SetToSeqs

(* Every word of a session is written from dictation in the end.            *)
LEMMA BuiltSession ==
  ASSUME NEW easy \in Seq(Words), NEW hard \in Seq(Words)
  PROVE  LET b == Ladder!BuildSession(easy, hard) IN
         /\ b \in Seq(Ladder!Visit)
         /\ \A i \in 1 .. Len(b) : \E j \in 1 .. Len(b) : b[j] = [word |-> b[i].word, stage |-> "dictation"]
<1> DEFINE back == Ladder!Reverse(easy)
           A == Ladder!Visits(easy, "card")
           B == Ladder!Visits(back, "follow")
           last == hard \o back
           C == Ladder!Visits(last, "dictation")
           AB == A \o B
           b == AB \o C
           n == Len(easy)
           m == Len(hard)
<1>1. /\ back \in Seq(Words) /\ Len(back) = n /\ \A i \in 1 .. n : back[i] = easy[n - i + 1]
      /\ n \in Nat /\ m \in Nat
  BY ReverseIs
<1> HIDE DEF back
<1>2. /\ last \in Seq(Words) /\ Len(last) = m + n
      /\ \A i \in 1 .. n : last[m + i] = back[i]
  <2>1. /\ last \in Seq(Words) /\ Len(last) = Len(hard) + Len(back)
        /\ \A i \in 1 .. Len(back) : last[Len(hard) + i] = back[i]
    <3>1. back \in Seq(Words)
      BY <1>1
    <3> QED
      BY <3>1, Joined
  <2> QED
    BY <1>1, <2>1
<1> HIDE DEF last, n, m
<1>3. /\ A \in Seq(Ladder!Visit) /\ Len(A) = n /\ \A i \in 1 .. n : A[i].word = easy[i]
      /\ B \in Seq(Ladder!Visit) /\ Len(B) = n /\ \A i \in 1 .. n : B[i].word = back[i]
      /\ C \in Seq(Ladder!Visit) /\ Len(C) = m + n
      /\ \A i \in 1 .. m + n : C[i] = [word |-> last[i], stage |-> "dictation"] /\ C[i].word = last[i]
  <2>1. back \in Seq(Words) /\ last \in Seq(Words) /\ Len(back) = n /\ Len(last) = m + n
    BY <1>1, <1>2
  <2>2. A \in Seq(Ladder!Visit) /\ Len(A) = Len(easy) /\ \A i \in 1 .. Len(easy) : A[i].word = easy[i]
    BY VisitsIs
  <2>3. B \in Seq(Ladder!Visit) /\ Len(B) = Len(back) /\ \A i \in 1 .. Len(back) : B[i].word = back[i]
    BY <2>1, VisitsIs
  <2>4. /\ C \in Seq(Ladder!Visit) /\ Len(C) = Len(last)
        /\ \A i \in 1 .. Len(last) : C[i] = [word |-> last[i], stage |-> "dictation"] /\ C[i].word = last[i]
    BY <2>1, VisitsIs
  <2> HIDE DEF A, B, C
  <2>5. Len(easy) = n
    BY DEF n
  <2> QED
    BY <2>1, <2>2, <2>3, <2>4, <2>5
<1> HIDE DEF A, B, C
<1>4. /\ AB \in Seq(Ladder!Visit) /\ Len(AB) = n + n
      /\ \A i \in 1 .. n : AB[i] = A[i] /\ AB[n + i] = B[i]
  <2>1. /\ AB \in Seq(Ladder!Visit) /\ Len(AB) = Len(A) + Len(B)
        /\ \A i \in 1 .. Len(A) : AB[i] = A[i]
        /\ \A i \in 1 .. Len(B) : AB[Len(A) + i] = B[i]
    <3>1. A \in Seq(Ladder!Visit) /\ B \in Seq(Ladder!Visit)
      BY <1>3
    <3> QED
      BY <3>1, Joined
  <2> HIDE DEF AB
  <2> QED
    BY <1>1, <1>3, <2>1
<1> HIDE DEF AB
<1>5. /\ b \in Seq(Ladder!Visit) /\ Len(b) = n + n + m + n
      /\ \A i \in 1 .. n + n : b[i] = AB[i]
      /\ \A i \in 1 .. m + n : b[n + n + i] = C[i]
  <2>1. /\ b \in Seq(Ladder!Visit) /\ Len(b) = Len(AB) + Len(C)
        /\ \A i \in 1 .. Len(AB) : b[i] = AB[i]
        /\ \A i \in 1 .. Len(C) : b[Len(AB) + i] = C[i]
    <3>1. AB \in Seq(Ladder!Visit) /\ C \in Seq(Ladder!Visit)
      BY <1>3, <1>4
    <3> QED
      BY <3>1, Joined
  <2> HIDE DEF b
  <2>2. Len(AB) = n + n /\ Len(C) = m + n /\ n \in Nat /\ m \in Nat
    BY <1>1, <1>3, <1>4
  <2>3. Len(b) = n + n + m + n
    BY <2>1, <2>2
  <2> QED
    BY <2>1, <2>2, <2>3
<1> HIDE DEF b
<1>6. ASSUME NEW i \in 1 .. Len(b)
      PROVE  \E j \in 1 .. Len(b) : b[j] = [word |-> b[i].word, stage |-> "dictation"]
  <2>1. CASE i \in 1 .. n
    <3>0. i \in 1 .. n + n
      BY <1>1, <2>1
    <3>1. b[i].word = easy[i]
      BY <1>3, <1>4, <1>5, <2>1, <3>0
    <3>2. n - i + 1 \in 1 .. n /\ n - (n - i + 1) + 1 = i
      BY <1>1, <2>1
    <3>3. back[n - i + 1] = easy[i]
      BY <1>1, <3>2
    <3>4. last[m + (n - i + 1)] = easy[i] /\ m + (n - i + 1) \in 1 .. m + n
      <4>1. last[m + (n - i + 1)] = back[n - i + 1]
        BY <1>2, <3>2
      <4> QED
        BY <1>1, <3>2, <3>3, <4>1
    <3>5. b[n + n + (m + (n - i + 1))] = [word |-> easy[i], stage |-> "dictation"]
      BY <1>3, <1>5, <3>4
    <3>6. n + n + (m + (n - i + 1)) \in 1 .. Len(b)
      BY SMTT(30), <1>1, <1>5, <3>2
    <3> QED
      BY <3>1, <3>5, <3>6
  <2>2. CASE i \in n + 1 .. n + n
    <3> DEFINE k == i - n
    <3>1. k \in 1 .. n /\ i = n + k
      BY <1>1, <2>2
    <3> HIDE DEF k
    <3>2. b[i].word = back[k]
      <4>1. b[i] = AB[i]
        BY <1>5, <2>2, <1>1
      <4>2. AB[i] = B[k]
        BY <1>4, <3>1
      <4> QED
        BY <1>3, <3>1, <4>1, <4>2
    <3>3. last[m + k] = back[k] /\ m + k \in 1 .. m + n
      BY <1>1, <1>2, <3>1
    <3>4. b[n + n + (m + k)] = [word |-> back[k], stage |-> "dictation"]
      BY <1>3, <1>5, <3>3
    <3>5. n + n + (m + k) \in 1 .. Len(b)
      BY <1>1, <1>5, <3>1
    <3> QED
      BY <3>2, <3>4, <3>5
  <2>3. CASE i \in n + n + 1 .. n + n + m + n
    <3> DEFINE k == i - (n + n)
    <3>1. k \in 1 .. m + n /\ i = n + n + k
      BY <1>1, <2>3
    <3> HIDE DEF k
    <3>2. b[i] = [word |-> last[k], stage |-> "dictation"] /\ b[i].word = last[k]
      BY <1>3, <1>5, <3>1
    <3> QED
      BY <3>2
  <2> QED
    BY <1>1, <1>5, <2>1, <2>2, <2>3
<1>7. b = Ladder!BuildSession(easy, hard)
  BY DEF b, Ladder!BuildSession, AB, A, B, C, back, last
<1> QED
  BY <1>5, <1>6, <1>7

(* The session the page shows is one, whether it is open or not.            *)
LEMMA SessionTypes ==
  ASSUME LadderTypes
  PROVE  /\ stored.session \in SessionType /\ Ladder!Session \in SessionType
         /\ Ladder!Session.visits \in Seq(Ladder!Visit) /\ Ladder!Session.rows \in Seq(Words) /\ Ladder!Session.pos \in Nat \ {0}
         /\ Ladder!Session.keys \in [Words -> Nat] /\ stored.keys \in [Words -> Nat]
         /\ stored.session.visits \in Seq(Ladder!Visit) /\ stored.session.rows \in Seq(Words)
         /\ stored.session.keys \in [Words -> Nat] /\ stored.count \in Nat
  BY DEF LadderTypes, StoredType, PageType, SessionType, Ladder!Session

(* Nothing is under way for a page that is not open.                        *)
LEMMA NothingWaits ==
  ASSUME LadderTypes, SessionInv, NEW p \in posts, p.waits = "page"
  PROVE  Ladder!Open /\ page.sending /\ Ladder!Working /\ Ladder!Current.stage = "dictation"
<1>1. page.sending /\ AtDictation(p.word)
  BY DEF SessionInv, AnswerIsCurrent
<1>2. Ladder!Session.pos \in Nat /\ Len(Ladder!Session.visits) \in Nat
  BY SessionTypes
<1> QED
  BY <1>1, <1>2 DEF AtDictation, Ladder!Working, Ladder!Finished, Ladder!Current

(* A session is shown and cached.                                           *)
LEMMA OpeningPreserves ==
  ASSUME LadderInv, ~Ladder!Open, NEW s \in SessionType, page' = Ladder!Shows(s), Ladder!Cached(s),
         UNCHANGED <<answers, posts, sends>>, runs' \in Nat, runs <= runs',
         s.run \in 1 .. runs', Sound(s), Rated(s), stored.count >= Len(s.rows),
         \A w \in Ladder!ToSet(s.rows) : s.keys[w] = stored.keys[w],
         \/ s.run \notin 1 .. runs /\ s.keys = Ladder!NoKeys
         \/ s.run = stored.session.run /\ s.keys = Ladder!RestoredKeys(stored.session)
  PROVE  LadderInv'
<1>1. /\ stored' \in StoredType /\ stored'.session = s /\ stored'.keys = stored.keys /\ stored'.count = stored.count
  BY CachedIs DEF LadderInv, LadderTypes
<1>2. /\ page' \in PageType /\ Ladder!Open' /\ Ladder!Session' = s /\ page'.failed = 0 /\ ~page'.sending
  BY ShowsIs DEF Ladder!Open, Ladder!Session
<1>3. LadderTypes'
  BY <1>1, <1>2 DEF LadderInv, LadderTypes
<1>4. Used' = Used
  BY DEF Used
<1>5. KeysInv'
  <2>1. s.keys \in KnownKeys /\ stored.keys \in KnownKeys
    BY DEF KnownKeys
  <2>2. RunsInReach'
    BY <1>1, <1>2 DEF RunsInReach
  <2>3. RatedOncePerKey' /\ HandledIsKnown'
    BY DEF RatedOncePerKey, HandledIsKnown, Ladder!Known, KeysInv, LadderInv
  <2> QED
    BY <1>1, <1>2, <1>3, <1>4, <2>1, <2>2, <2>3, KeysKept DEF KeysInv, LadderInv, LadderTypes
<1>6. SessionInv'
  <2>1. \A p \in posts' : p.waits # "page"
    BY NothingWaits DEF LadderInv
  <2>2. PageIsCached' /\ AnswerIsCurrent' /\ FailureIsCurrent' /\ Blank'
    BY <1>1, <1>2, <2>1 DEF PageIsCached, AnswerIsCurrent, FailureIsCurrent, Blank
  <2>3. Sound(stored.session)' /\ Rated(stored.session)' /\ (stored.count >= Len(stored.session.rows))'
    BY <1>1 DEF Sound, Rated
  <2> QED
    BY <2>2, <2>3 DEF SessionInv
<1> QED
  BY <1>3, <1>5, <1>6 DEF LadderInv

LEMMA BeginPreserves ==
  ASSUME LadderInv, ~Ladder!Open, Ladder!Begin, UNCHANGED <<answers, posts, sends>>
  PROVE  LadderInv'
<1>0. PICK due \in (SUBSET Words) \ {{}} :
        \E easy \in Ladder!SetToSeqs(due \ Measured), hard \in Ladder!SetToSeqs(due \cap Measured) :
          LET s == [Ladder!NoSession EXCEPT !.run = runs + 1, !.visits = Ladder!BuildSession(easy, hard)]
          IN  page' = Ladder!Shows(s) /\ Ladder!Cached(s)
  BY DEF Ladder!Begin
<1>1. PICK easy \in Ladder!SetToSeqs(due \ Measured), hard \in Ladder!SetToSeqs(due \cap Measured) :
        LET s == [Ladder!NoSession EXCEPT !.run = runs + 1, !.visits = Ladder!BuildSession(easy, hard)]
        IN  page' = Ladder!Shows(s) /\ Ladder!Cached(s)
  BY <1>0
<1> DEFINE b == Ladder!BuildSession(easy, hard)
           s == [Ladder!NoSession EXCEPT !.run = runs + 1, !.visits = b]
<1>2. easy \in Seq(Words) /\ hard \in Seq(Words)
  BY OrdersAre
<1>3. /\ b \in Seq(Ladder!Visit)
      /\ \A i \in 1 .. Len(b) : \E j \in 1 .. Len(b) : b[j] = [word |-> b[i].word, stage |-> "dictation"]
  BY <1>2, BuiltSession
<1>4. page' = Ladder!Shows(s) /\ Ladder!Cached(s)
  BY <1>1
<1> HIDE DEF b
<1>5. /\ s.run = runs + 1 /\ s.visits = b /\ s.pos = 1 /\ s.rows = <<>> /\ s.written = {} /\ s.keys = Ladder!NoKeys
      /\ s \in SessionType /\ runs \in Nat
  <2>1. runs \in Nat
    BY DEF LadderInv, LadderTypes
  <2>2. /\ s.run = runs + 1 /\ s.visits = b /\ s.pos = 1 /\ s.rows = <<>> /\ s.written = {} /\ s.keys = Ladder!NoKeys
    BY DEF Ladder!NoSession
  <2>3. s \in SessionType
    <3> DEFINE t == [Ladder!NoSession EXCEPT !.run = runs + 1]
    <3>1. t \in SessionType
      BY <2>1, Blanks DEF SessionType
    <3>2. s = [t EXCEPT !.visits = b]
      BY Blanks DEF SessionType
    <3> HIDE DEF t, s
    <3> QED
      BY <1>3, <3>1, <3>2 DEF SessionType
  <2> QED
    BY <2>1, <2>2, <2>3
<1> HIDE DEF s
<1>6. Ladder!ToSet(s.rows) = {} /\ Len(s.rows) = 0 /\ Ladder!IsInjective(s.rows)
  BY <1>5 DEF Ladder!ToSet, Ladder!IsInjective
<1>7. Sound(s) /\ Rated(s)
  BY <1>3, <1>5, <1>6 DEF Sound, Rated
<1>8. runs' = runs + 1
  BY DEF Ladder!Begin
<1>9. stored.count >= 0
  BY SessionTypes DEF LadderInv
<1> QED
  BY <1>4, <1>5, <1>6, <1>7, <1>8, <1>9, OpeningPreserves

LEMMA RestorePreserves ==
  ASSUME LadderInv, ~Ladder!Open, stored.session.visits # <<>>, Ladder!Restore(stored.session), UNCHANGED <<answers, posts, sends>>
  PROVE  LadderInv'
<1> DEFINE old == stored.session
           keys == Ladder!RestoredKeys(old)
           s == [old EXCEPT !.keys = keys]
<1>1. old \in SessionType /\ stored \in StoredType
  BY SessionTypes DEF LadderInv, LadderTypes
<1>2. /\ keys \in [Words -> Nat]
      /\ \A w \in Words : keys[w] = IF stored.keys[w] # Ladder!NoKey THEN stored.keys[w] ELSE old.keys[w]
  BY <1>1, RestoredIs
<1>3. page' = Ladder!Shows(s) /\ Ladder!Cached(s) /\ UNCHANGED runs
  BY DEF Ladder!Restore
<1> HIDE DEF keys
<1>4. /\ s.run = old.run /\ s.visits = old.visits /\ s.pos = old.pos /\ s.rows = old.rows
      /\ s.written = old.written /\ s.keys = keys /\ s \in SessionType
  BY <1>1, <1>2 DEF SessionType
<1> HIDE DEF s
<1>5. Sound(s) /\ Rated(s) /\ stored.count >= Len(s.rows)
  BY <1>4 DEF LadderInv, SessionInv, Sound, Rated
<1>6. \A w \in Ladder!ToSet(s.rows) : s.keys[w] = stored.keys[w]
  <2>1. ASSUME NEW w \in Ladder!ToSet(s.rows)
        PROVE  s.keys[w] = stored.keys[w]
    <3>1. w \in Words
      BY <1>1, <1>4 DEF Ladder!ToSet, SessionType
    <3>2. PICK a \in answers : a.word = w /\ a.key = stored.keys[w]
      BY <1>5 DEF Rated
    <3>3. a.key # Ladder!NoKey
      BY <3>2 DEF LadderInv, LadderTypes, KeysInv, UsedInReach, Used, Ladder!NoKey
    <3> QED
      BY <1>2, <1>4, <3>1, <3>2, <3>3
  <2> QED
    BY <2>1
<1>7. s.run \in 1 .. runs /\ runs \in Nat
  BY <1>4 DEF LadderInv, LadderTypes, KeysInv, RunsInReach
<1>8. s.keys = Ladder!RestoredKeys(stored.session)
  BY <1>4 DEF keys
<1> QED
  BY <1>3, <1>4, <1>5, <1>6, <1>7, <1>8, OpeningPreserves

LEMMA MountPreserves ==
  ASSUME LadderInv, ~Ladder!Open, UNCHANGED <<answers, posts, sends>>, NEW s, Ladder!Mount(s), s = Ladder!NoSession \/ s = stored.session
  PROVE  LadderInv'
<1>1. CASE s.visits = <<>>
  BY <1>1, BeginPreserves DEF Ladder!Mount
<1>2. CASE s.visits # <<>>
  <2>1. s = stored.session
    BY <1>2, Blanks
  <2> QED
    BY <1>2, <2>1, RestorePreserves DEF Ladder!Mount
<1> QED
  BY <1>1, <1>2

(* The gate is shown; a session that was not asked for is forgotten.        *)
LEMMA GatePreserves ==
  ASSUME LadderInv, ~Ladder!Open, UNCHANGED <<answers, posts, runs, sends>>, page' = Ladder!Gate,
         NEW s, Ladder!Cached(s), s = Ladder!NoSession \/ s = stored.session
  PROVE  LadderInv'
<1>1. s \in SessionType
  BY SessionTypes, Blanks DEF LadderInv
<1>2. /\ stored' \in StoredType /\ stored'.session = s /\ stored'.keys = stored.keys /\ stored'.count = stored.count
  BY <1>1, CachedIs DEF LadderInv, LadderTypes
<1>3. page' \in PageType /\ ~Ladder!Open' /\ Ladder!Session' = Ladder!NoSession /\ page'.failed = 0 /\ ~page'.sending
  BY Blanks DEF Ladder!Open, Ladder!Session
<1>4. LadderTypes' /\ Used' = Used
  BY <1>2, <1>3 DEF LadderInv, LadderTypes, Used
<1>5. KeysInv'
  <2>1. s.keys \in KnownKeys /\ stored.keys \in KnownKeys /\ Ladder!Session'.keys \in KnownKeys
    BY <1>3, Blanks DEF KnownKeys
  <2>2. RunsInReach'
    BY <1>2, <1>3, Blanks DEF RunsInReach, LadderInv, KeysInv
  <2>3. RatedOncePerKey' /\ HandledIsKnown'
    BY DEF RatedOncePerKey, HandledIsKnown, Ladder!Known, KeysInv, LadderInv
  <2>4. s.run \notin 1 .. runs \/ s.run = stored.session.run
    BY Blanks
  <2> QED
    BY <1>2, <1>3, <1>4, <2>1, <2>2, <2>3, <2>4, KeysKept DEF KeysInv, LadderInv, LadderTypes
<1>6. SessionInv'
  <2>1. \A p \in posts' : p.waits # "page"
    BY NothingWaits DEF LadderInv
  <2>2. PageIsCached' /\ AnswerIsCurrent' /\ FailureIsCurrent' /\ Blank'
    BY <1>3, <2>1 DEF PageIsCached, AnswerIsCurrent, FailureIsCurrent, Blank, Ladder!Gate, Ladder!Select
  <2>3. Sound(Ladder!NoSession) /\ Rated(Ladder!NoSession) /\ stored.count >= Len(Ladder!NoSession.rows)
    <3>1. Ladder!ToSet(<<>>) = {} /\ Len(<<>>) = 0 /\ Ladder!IsInjective(<<>>)
      BY DEF Ladder!ToSet, Ladder!IsInjective
    <3>2. stored.count >= 0
      BY SessionTypes DEF LadderInv
    <3> QED
      BY <3>1, <3>2, Blanks DEF Sound, Rated
  <2>4. Sound(s) /\ Rated(s) /\ stored.count >= Len(s.rows)
    BY <2>3 DEF LadderInv, SessionInv
  <2>5. Sound(stored.session)' /\ Rated(stored.session)' /\ (stored.count >= Len(stored.session.rows))'
    BY <1>2, <2>4 DEF Sound, Rated
  <2> QED
    BY <2>2, <2>5 DEF SessionInv
<1> QED
  BY <1>4, <1>5, <1>6 DEF LadderInv

(* No key is made or used: requests may only lose who waits for them.       *)
LEMMA QuietKeys ==
  ASSUME LadderInv, LadderTypes', UNCHANGED <<answers, runs, sends>>,
         \A q \in posts' : \E p \in posts : p.run = q.run /\ p.word = q.word /\ p.key = q.key /\ p.at = q.at,
         \A p \in posts : \E q \in posts' : p.word = q.word /\ p.key = q.key,
         stored'.keys = stored.keys, stored'.session.run = stored.session.run,
         stored'.session.visits # <<>> => stored.session.visits # <<>> \/ Ladder!Open,
         stored'.session.keys \in {stored.session.keys, Ladder!Session.keys},
         \/ Ladder!Open /\ Ladder!Open' /\ Ladder!Session'.run = Ladder!Session.run /\ Ladder!Session'.keys = Ladder!Session.keys
         \/ page' = Ladder!Select
         \/ page' = page
  PROVE  KeysInv'
<1>1. /\ \A x \in Used' : \E y \in Used : y.run = x.run /\ y.word = x.word /\ y.key = x.key
      /\ \A y \in Used : \E x \in Used' : y.word = x.word /\ y.key = x.key
  BY DEF Used
<1>2. page' = Ladder!Select => ~Ladder!Open' /\ Ladder!Session'.keys = Ladder!NoKeys
  BY Blanks DEF Ladder!Open, Ladder!Session
<1>3. stored'.keys \in KnownKeys /\ stored'.session.keys \in KnownKeys /\ Ladder!Session'.keys \in KnownKeys
  BY <1>2 DEF KnownKeys, Ladder!Session
<1>4. RunsInReach'
  BY <1>2 DEF RunsInReach, LadderInv, KeysInv, SessionInv, PageIsCached, Ladder!Open, Ladder!Session
<1>5. RatedOncePerKey' /\ HandledIsKnown'
  BY DEF RatedOncePerKey, HandledIsKnown, Ladder!Known, KeysInv, LadderInv
<1>6. runs <= runs' /\ sends <= sends'
  BY DEF LadderInv, LadderTypes
<1> QED
  BY <1>1, <1>2, <1>3, <1>4, <1>5, <1>6, KeysKept DEF KeysInv, LadderInv, Ladder!Open, Ladder!Session

(* Every request is as one that was there.                                  *)
LEMMA SameOrNot ==
  \A p \in posts : \E q \in posts : q.run = p.run /\ q.word = p.word /\ q.key = p.key /\ q.at = p.at
  OBVIOUS

LEMMA PassPreserves == ASSUME LadderInv, Ladder!Pass PROVE LadderInv'
<1>1. /\ Ladder!Open /\ Ladder!Session.pos <= Len(Ladder!Session.visits) /\ Ladder!Session.visits[Ladder!Session.pos].stage # "dictation"
      /\ page' = [page EXCEPT !.session.pos = @ + 1] /\ Ladder!Cached(page'.session)
      /\ UNCHANGED <<answers, posts, runs, sends>>
  <2>1. Ladder!Session.pos \in Nat /\ Len(Ladder!Session.visits) \in Nat
    BY SessionTypes DEF LadderInv
  <2> QED
    BY <2>1 DEF Ladder!Pass, Ladder!Working, Ladder!Finished, Ladder!Current
<1>2. /\ page' \in PageType /\ page'.view = page.view /\ page'.failed = page.failed
      /\ Ladder!Session'.run = Ladder!Session.run /\ Ladder!Session'.visits = Ladder!Session.visits /\ Ladder!Session'.pos = Ladder!Session.pos + 1
      /\ Ladder!Session'.rows = Ladder!Session.rows /\ Ladder!Session'.keys = Ladder!Session.keys
  <2> DEFINE next == Ladder!Session.pos + 1
             s == [Ladder!Session EXCEPT !.pos = next]
  <2>1. Ladder!Session \in SessionType /\ next \in Nat \ {0}
    BY SessionTypes DEF LadderInv
  <2>2. page' = [page EXCEPT !.session = s]
    BY <1>1 DEF LadderInv, LadderTypes, PageType, SessionType, Ladder!Session
  <2> HIDE DEF next
  <2>3. /\ s \in SessionType /\ s.run = Ladder!Session.run /\ s.visits = Ladder!Session.visits /\ s.pos = next
        /\ s.rows = Ladder!Session.rows /\ s.keys = Ladder!Session.keys
    BY <2>1 DEF SessionType
  <2> HIDE DEF s
  <2> QED
    BY <2>2, <2>3 DEF LadderInv, LadderTypes, PageType, Ladder!Session, next
<1>3. page'.session \in SessionType /\ Ladder!Session' = page'.session /\ Ladder!Open'
  BY <1>1, <1>2 DEF PageType, Ladder!Session, Ladder!Open
<1>4. /\ stored' \in StoredType /\ stored'.session = Ladder!Session' /\ stored'.keys = stored.keys
      /\ stored'.count = stored.count
  BY <1>1, <1>3, CachedIs DEF LadderInv, LadderTypes
<1>5. LadderTypes'
  BY <1>1, <1>2, <1>4 DEF LadderInv, LadderTypes
<1>6. /\ Ladder!Session.run = stored.session.run /\ Ladder!Session.visits = stored.session.visits
      /\ Ladder!Session.pos = stored.session.pos /\ Ladder!Session.rows = stored.session.rows
  BY <1>1 DEF LadderInv, SessionInv, PageIsCached
<1>7. KeysInv'
  BY <1>1, <1>2, <1>3, <1>4, <1>5, <1>6, SameOrNot, QuietKeys
<1>8. SessionInv'
  <2>1. \A p \in posts : p.waits # "page"
    BY <1>1, NothingWaits DEF LadderInv, Ladder!Current
  <2>2. page.failed = 0
    <3>1. SUFFICES ASSUME page.failed # 0 PROVE FALSE
      OBVIOUS
    <3>2. PICK w \in Words : AtDictation(w)
      BY <3>1 DEF LadderInv, SessionInv, FailureIsCurrent
    <3>3. Ladder!Session.visits[Ladder!Session.pos] = [word |-> w, stage |-> "dictation"]
      BY <3>2 DEF AtDictation
    <3>4. Ladder!Session.visits[Ladder!Session.pos].stage = "dictation"
      BY <3>3
    <3> QED
      BY <1>1, <3>4
  <2>3. AnswerIsCurrent' /\ FailureIsCurrent' /\ Blank'
    BY <1>1, <1>2, <1>3, <2>1, <2>2 DEF AnswerIsCurrent, FailureIsCurrent, Blank
  <2>4. PageIsCached'
    BY <1>1, <1>2, <1>4 DEF LadderInv, SessionInv, PageIsCached
  <2>5. Sound(Ladder!Session')
    <3>1. Sound(stored.session)
      BY DEF LadderInv, SessionInv
    <3>2. Ladder!Session.pos \in Nat /\ Len(Ladder!Session.visits) \in Nat
      BY SessionTypes DEF LadderInv
    <3> QED
      BY <1>1, <1>2, <1>6, <3>1, <3>2 DEF Sound
  <2>6. Rated(stored.session)' /\ (stored.count >= Len(stored.session.rows))'
    BY <1>1, <1>2, <1>4, <1>6 DEF LadderInv, SessionInv, Rated
  <2>7. Sound(stored.session)'
    BY <1>4, <2>5 DEF Sound
  <2> QED
    BY <2>3, <2>4, <2>6, <2>7 DEF SessionInv
<1> QED
  BY <1>5, <1>7, <1>8 DEF LadderInv

(* Only what was written, and what marks a failure or a dictation done.     *)
LEMMA RetestPreserves == ASSUME LadderInv, Ladder!Retest PROVE LadderInv'
<1> DEFINE w == Ladder!Current.word
<1>1. /\ Ladder!Open /\ ~page.sending /\ UNCHANGED <<answers, stored, posts, runs, sends>>
      /\ page' = [Ladder!Forgiven(page) EXCEPT !.session.written = @ \ {w}, !.fired = FALSE]
  BY DEF Ladder!Retest, Ladder!Working
<1> HIDE DEF w
<1>2. /\ page' \in PageType /\ page'.view = page.view /\ page'.failed = 0
      /\ Ladder!Session'.run = Ladder!Session.run /\ Ladder!Session'.visits = Ladder!Session.visits /\ Ladder!Session'.pos = Ladder!Session.pos
      /\ Ladder!Session'.rows = Ladder!Session.rows /\ Ladder!Session'.keys = Ladder!Session.keys
  <2> DEFINE less == Ladder!Session.written \ {w}
             s == [Ladder!Session EXCEPT !.written = less]
  <2>1. less \subseteq Words /\ Ladder!Session \in SessionType
    BY SessionTypes DEF LadderInv, SessionType
  <2> HIDE DEF less
  <2>2. /\ s \in SessionType /\ s.run = Ladder!Session.run /\ s.visits = Ladder!Session.visits /\ s.pos = Ladder!Session.pos
        /\ s.rows = Ladder!Session.rows /\ s.keys = Ladder!Session.keys
    BY <2>1 DEF SessionType
  <2>3. page' = [view |-> page.view, session |-> s, failed |-> 0, sending |-> page.sending, fired |-> FALSE]
    BY <1>1 DEF Ladder!Forgiven, LadderInv, LadderTypes, PageType, SessionType, Ladder!Session, less
  <2> HIDE DEF s
  <2> QED
    BY <2>2, <2>3 DEF LadderInv, LadderTypes, PageType, Ladder!Session
<1>3. LadderTypes' /\ Ladder!Open'
  BY <1>1, <1>2 DEF LadderInv, LadderTypes, Ladder!Open
<1>4. KeysInv'
  BY <1>1, <1>2, <1>3, SameOrNot, QuietKeys
<1>5. SessionInv'
  <2>1. \A p \in posts : p.waits # "page"
    BY <1>1, NothingWaits DEF LadderInv
  <2>2. AnswerIsCurrent' /\ FailureIsCurrent' /\ Blank'
    BY <1>1, <1>2, <1>3, <2>1 DEF AnswerIsCurrent, FailureIsCurrent, Blank
  <2>3. PageIsCached'
    BY <1>1, <1>2 DEF LadderInv, SessionInv, PageIsCached
  <2>4. Sound(stored.session)' /\ Rated(stored.session)' /\ (stored.count >= Len(stored.session.rows))'
    BY <1>1 DEF LadderInv, SessionInv, Sound, Rated
  <2> QED
    BY <2>2, <2>3, <2>4 DEF SessionInv
<1> QED
  BY <1>3, <1>4, <1>5 DEF LadderInv

LEMMA StepBackPreserves == ASSUME LadderInv, Ladder!StepBack PROVE LadderInv'
<1> DEFINE w == Ladder!Session.visits[Ladder!Session.pos - 1].word
<1>1. /\ Ladder!Open /\ ~page.sending /\ Ladder!Session.pos > 1 /\ UNCHANGED <<answers, posts, runs, sends>>
      /\ page' = [Ladder!Forgiven(page) EXCEPT !.session.written = @ \ {w}, !.session.pos = @ - 1, !.fired = FALSE]
      /\ Ladder!Cached(page'.session)
  BY DEF Ladder!StepBack
<1> HIDE DEF w
<1>2. /\ page' \in PageType /\ page'.view = page.view /\ page'.failed = 0
      /\ Ladder!Session'.run = Ladder!Session.run /\ Ladder!Session'.visits = Ladder!Session.visits /\ Ladder!Session'.pos = Ladder!Session.pos - 1
      /\ Ladder!Session'.rows = Ladder!Session.rows /\ Ladder!Session'.keys = Ladder!Session.keys
  <2> DEFINE less == Ladder!Session.written \ {w}
             before == Ladder!Session.pos - 1
             s == [Ladder!Session EXCEPT !.written = less, !.pos = before]
  <2>1. less \subseteq Words /\ Ladder!Session \in SessionType /\ before \in Nat \ {0}
    BY <1>1, SessionTypes DEF LadderInv, SessionType
  <2>2. page' = [view |-> page.view, session |-> s, failed |-> 0, sending |-> page.sending, fired |-> FALSE]
    BY <1>1 DEF Ladder!Forgiven, LadderInv, LadderTypes, PageType, SessionType, Ladder!Session
  <2> HIDE DEF less, before
  <2>3. /\ s \in SessionType /\ s.run = Ladder!Session.run /\ s.visits = Ladder!Session.visits /\ s.pos = before
        /\ s.rows = Ladder!Session.rows /\ s.keys = Ladder!Session.keys
    BY <2>1 DEF SessionType
  <2> HIDE DEF s
  <2> QED
    BY <2>2, <2>3 DEF LadderInv, LadderTypes, PageType, Ladder!Session, before
<1>3. page'.session \in SessionType /\ Ladder!Session' = page'.session /\ Ladder!Open'
  BY <1>1, <1>2 DEF PageType, Ladder!Session, Ladder!Open
<1>4. /\ stored' \in StoredType /\ stored'.session = Ladder!Session' /\ stored'.keys = stored.keys
      /\ stored'.count = stored.count
  BY <1>1, <1>3, CachedIs DEF LadderInv, LadderTypes
<1>5. LadderTypes'
  BY <1>1, <1>2, <1>4 DEF LadderInv, LadderTypes
<1>6. /\ Ladder!Session.run = stored.session.run /\ Ladder!Session.visits = stored.session.visits
      /\ Ladder!Session.pos = stored.session.pos /\ Ladder!Session.rows = stored.session.rows
  BY <1>1 DEF LadderInv, SessionInv, PageIsCached
<1>7. KeysInv'
  BY <1>1, <1>2, <1>3, <1>4, <1>5, <1>6, SameOrNot, QuietKeys
<1>8. SessionInv'
  <2>1. \A p \in posts : p.waits # "page"
    BY <1>1, NothingWaits DEF LadderInv
  <2>2. AnswerIsCurrent' /\ FailureIsCurrent' /\ Blank'
    BY <1>1, <1>2, <1>3, <2>1 DEF AnswerIsCurrent, FailureIsCurrent, Blank
  <2>3. PageIsCached'
    BY <1>1, <1>2, <1>4 DEF LadderInv, SessionInv, PageIsCached
  <2>4. Sound(Ladder!Session')
    <3>1. Sound(stored.session)
      BY DEF LadderInv, SessionInv
    <3>2. Ladder!Session.pos \in Nat /\ Len(Ladder!Session.visits) \in Nat
      BY SessionTypes DEF LadderInv
    <3> QED
      BY <1>1, <1>2, <1>6, <3>1, <3>2 DEF Sound
  <2>5. Rated(stored.session)' /\ (stored.count >= Len(stored.session.rows))'
    BY <1>1, <1>2, <1>4, <1>6 DEF LadderInv, SessionInv, Rated
  <2>6. Sound(stored.session)'
    BY <1>4, <2>4 DEF Sound
  <2> QED
    BY <2>2, <2>3, <2>5, <2>6 DEF SessionInv
<1> QED
  BY <1>5, <1>7, <1>8 DEF LadderInv

(* The page is left or lost; nobody is shown an answer any more.            *)
LEMMA WaitingIs ==
  ASSUME LadderTypes, NEW from \in SUBSET {"page", "left"}, "page" \in from, NEW to \in {"left", "nobody"}, Ladder!Waiting(from, to)
  PROVE  /\ posts' \subseteq PostType /\ \A q \in posts' : q.waits # "page"
         /\ \A q \in posts' : \E p \in posts : p.run = q.run /\ p.word = q.word /\ p.key = q.key /\ p.at = q.at
         /\ \A p \in posts : \E q \in posts' : p.word = q.word /\ p.key = q.key
<1>1. ASSUME NEW p \in posts
      PROVE  LET q == IF p.waits \in from THEN [p EXCEPT !.waits = to] ELSE p IN
             /\ q \in PostType /\ q.waits # "page"
             /\ p.run = q.run /\ p.word = q.word /\ p.key = q.key /\ p.at = q.at
  BY DEF LadderTypes, PostType
<1> QED
  BY <1>1 DEF Ladder!Waiting

LEMMA AwayPreserves ==
  ASSUME LadderInv, page' = Ladder!Select, NEW from \in SUBSET {"page", "left"}, "page" \in from,
         NEW to \in {"left", "nobody"}, Ladder!Waiting(from, to), UNCHANGED <<answers, stored, runs, sends>>
  PROVE  LadderInv'
<1>1. /\ posts' \subseteq PostType /\ \A q \in posts' : q.waits # "page"
      /\ \A q \in posts' : \E p \in posts : p.run = q.run /\ p.word = q.word /\ p.key = q.key /\ p.at = q.at
      /\ \A p \in posts : \E q \in posts' : p.word = q.word /\ p.key = q.key
  BY WaitingIs DEF LadderInv
<1>2. page' \in PageType /\ ~Ladder!Open' /\ page'.failed = 0
  BY Blanks DEF Ladder!Open
<1>3. LadderTypes'
  BY <1>1, <1>2 DEF LadderInv, LadderTypes
<1>4. KeysInv'
  BY <1>1, <1>3, QuietKeys
<1>5. SessionInv'
  <2>1. AnswerIsCurrent' /\ FailureIsCurrent' /\ Blank' /\ PageIsCached'
    BY <1>1, <1>2, Blanks DEF AnswerIsCurrent, FailureIsCurrent, Blank, PageIsCached, Ladder!Select
  <2>2. Sound(stored.session)' /\ Rated(stored.session)' /\ (stored.count >= Len(stored.session.rows))'
    BY DEF LadderInv, SessionInv, Sound, Rated
  <2> QED
    BY <2>1, <2>2 DEF SessionInv
<1> QED
  BY <1>3, <1>4, <1>5 DEF LadderInv

LEMMA ClosePreserves == ASSUME LadderInv, Ladder!Close PROVE LadderInv'
<1>1. /\ page' = Ladder!Select /\ UNCHANGED <<answers, posts, runs, sends>>
      /\ stored' = [stored EXCEPT !.session = Ladder!NoSession, !.keys = Ladder!NoKeys]
      /\ ~Ladder!Working
  BY DEF Ladder!Close, Ladder!Working
<1>2. page' \in PageType /\ ~Ladder!Open' /\ page'.failed = 0 /\ Ladder!Session' = Ladder!NoSession
  BY <1>1, Blanks DEF Ladder!Open, Ladder!Session
<1>3. stored' \in StoredType /\ stored'.session = Ladder!NoSession /\ stored'.keys = Ladder!NoKeys /\ stored'.count = stored.count
  BY <1>1, Blanks DEF LadderInv, LadderTypes, StoredType
<1>4. LadderTypes' /\ Used' = Used
  BY <1>1, <1>2, <1>3 DEF LadderInv, LadderTypes, Used
<1>5. KeysInv'
  <2>1. Ladder!NoKeys \in KnownKeys
    BY DEF KnownKeys
  <2>2. RunsInReach'
    BY <1>2, <1>3, Blanks DEF RunsInReach
  <2>3. RatedOncePerKey' /\ HandledIsKnown'
    BY <1>1 DEF RatedOncePerKey, HandledIsKnown, Ladder!Known, KeysInv, LadderInv
  <2>4. stored'.session.run \notin 1 .. runs
    BY <1>3, Blanks
  <2> QED
    BY <1>1, <1>2, <1>3, <1>4, <2>1, <2>2, <2>3, <2>4, Blanks, KeysKept DEF KeysInv, LadderInv, LadderTypes
<1>6. SessionInv'
  <2>1. \A p \in posts : p.waits # "page"
    BY <1>1, NothingWaits DEF LadderInv
  <2>2. AnswerIsCurrent' /\ FailureIsCurrent' /\ Blank' /\ PageIsCached'
    BY <1>1, <1>2, <2>1 DEF AnswerIsCurrent, FailureIsCurrent, Blank, PageIsCached
  <2>3. Ladder!ToSet(<<>>) = {} /\ Len(<<>>) = 0 /\ Ladder!IsInjective(<<>>)
    BY DEF Ladder!ToSet, Ladder!IsInjective
  <2>4. stored.count >= 0
    BY SessionTypes DEF LadderInv
  <2>5. Sound(stored.session)' /\ Rated(stored.session)' /\ (stored.count >= Len(stored.session.rows))'
    BY <1>3, <2>3, <2>4, Blanks DEF Sound, Rated
  <2> QED
    BY <2>2, <2>5 DEF SessionInv
<1> QED
  BY <1>4, <1>5, <1>6 DEF LadderInv

(* A request is made for the dictation the page stands at.                  *)
LEMMA SubmitPreserves ==
  ASSUME LadderInv, Ladder!Working, Ladder!Current.stage = "dictation", ~page.sending, Ladder!Submit(Ladder!Current.word)
  PROVE  LadderInv'
<1>0. PICK w, k, settled : w = Ladder!Current.word /\ k = Ladder!KeyFor(w) /\ settled = Ladder!Settled(w)
  OBVIOUS
<1> DEFINE keys == [Ladder!Session.keys EXCEPT ![w] = k]
           new == [id |-> sends + 1, run |-> Ladder!Session.run, word |-> w, key |-> k,
                   counted |-> settled, at |-> "sent", waits |-> "page"]
<1>1. /\ Ladder!Open /\ Ladder!Session.pos <= Len(Ladder!Session.visits) /\ w \in Words
      /\ Ladder!Session.visits[Ladder!Session.pos] = [word |-> w, stage |-> "dictation"]
  <2>1. Ladder!Session.pos \in Nat \ {0} /\ Len(Ladder!Session.visits) \in Nat /\ Ladder!Session.visits \in Seq(Ladder!Visit)
    BY SessionTypes DEF LadderInv
  <2>2. Ladder!Open /\ Ladder!Session.pos <= Len(Ladder!Session.visits)
    BY <2>1 DEF Ladder!Working, Ladder!Finished
  <2>3. Ladder!Session.visits[Ladder!Session.pos] \in Ladder!Visit
    BY <2>1, <2>2
  <2> QED
    BY <1>0, <2>2, <2>3 DEF Ladder!Current, Ladder!Visit
<1>2. /\ sends' = sends + 1 /\ UNCHANGED <<answers, runs>> /\ posts' = posts \cup {new}
      /\ page' = [page EXCEPT !.session.keys[w] = k, !.session.written = @ \cup {w},
                              !.sending = TRUE, !.fired = TRUE]
      /\ stored' = [stored EXCEPT !.keys = page'.session.keys]
  BY <1>0 DEF Ladder!Submit, Ladder!KeptKeys
<1>3. settled \in BOOLEAN
  BY <1>0 DEF Ladder!Settled
<1>4. /\ Ladder!Session \in SessionType /\ Ladder!Session.keys \in [Words -> Nat] /\ sends \in Nat /\ Ladder!Session.written \subseteq Words
      /\ Ladder!Session.run \in Nat
  BY SessionTypes DEF LadderInv, LadderTypes, SessionType
<1>5. \A x \in Used : x.run \in 1 .. runs /\ x.key \in 1 .. sends /\ x.word \in Words
  BY DEF LadderInv, KeysInv, UsedInReach, LadderTypes, PostType, Used
<1>6. k = IF Ladder!Session.keys[w] = Ladder!NoKey THEN sends + 1 ELSE Ladder!Session.keys[w]
  BY <1>0 DEF Ladder!KeyFor
<1>7. Ladder!Session.keys[w] # Ladder!NoKey => \E x \in Used : x.word = w /\ x.key = Ladder!Session.keys[w]
  BY <1>1 DEF LadderInv, KeysInv, KeysAreUsed, Traced
<1>8. k \in 1 .. sends + 1
  BY <1>4, <1>5, <1>6, <1>7
<1>9. /\ keys \in [Words -> Nat] /\ keys[w] = k /\ \A v \in Words : v # w => keys[v] = Ladder!Session.keys[v]
  BY <1>1, <1>4, <1>8
<1>10. /\ page' \in PageType /\ page'.view = page.view /\ page'.failed = page.failed /\ page'.sending
       /\ Ladder!Session'.run = Ladder!Session.run /\ Ladder!Session'.visits = Ladder!Session.visits /\ Ladder!Session'.pos = Ladder!Session.pos
       /\ Ladder!Session'.rows = Ladder!Session.rows /\ Ladder!Session'.keys = keys /\ Ladder!Session'.written = Ladder!Session.written \cup {w}
  <2> DEFINE more == Ladder!Session.written \cup {w}
             s == [Ladder!Session EXCEPT !.keys = keys, !.written = more]
  <2>1. more \subseteq Words
    BY <1>1, <1>4
  <2>2. page' = [view |-> page.view, session |-> s, failed |-> page.failed, sending |-> TRUE, fired |-> TRUE]
    BY <1>1, <1>2, <1>4 DEF LadderInv, LadderTypes, PageType, SessionType, Ladder!Session
  <2> HIDE DEF more, keys
  <2>3. /\ s \in SessionType /\ s.run = Ladder!Session.run /\ s.visits = Ladder!Session.visits /\ s.pos = Ladder!Session.pos
        /\ s.rows = Ladder!Session.rows /\ s.keys = keys /\ s.written = more
    BY <1>4, <1>9, <2>1 DEF SessionType
  <2> HIDE DEF s
  <2> QED
    BY <2>2, <2>3 DEF LadderInv, LadderTypes, PageType, Ladder!Session, more
<1> HIDE DEF keys
<1>11. /\ stored' \in StoredType /\ stored'.session = stored.session /\ stored'.keys = keys
       /\ stored'.count = stored.count
  <2>1. page'.session.keys = keys
    BY <1>10 DEF Ladder!Session
  <2> QED
    BY <1>2, <1>9, <2>1 DEF LadderInv, LadderTypes, StoredType
<1>12. /\ new \in PostType /\ new.run = Ladder!Session.run /\ new.word = w /\ new.key = k /\ new.counted = settled
       /\ new.at = "sent" /\ new.waits = "page"
  BY <1>1, <1>3, <1>4, <1>8 DEF PostType
<1> HIDE DEF new
<1>13. LadderTypes' /\ Ladder!Open'
  BY <1>1, <1>2, <1>4, <1>10, <1>11, <1>12 DEF LadderInv, LadderTypes, Ladder!Open
<1>14. Used' = Used \cup {new}
  BY <1>2 DEF Used
<1>15. \A x \in Used : x.run = Ladder!Session.run => Ladder!Session.keys[x.word] = x.key /\ keys[x.word] = x.key
  <2>1. ASSUME NEW x \in Used, x.run = Ladder!Session.run
        PROVE  Ladder!Session.keys[x.word] = x.key /\ keys[x.word] = x.key
    <3>1. Ladder!Session.keys[x.word] = x.key /\ x.key # Ladder!NoKey
      BY <1>1, <1>5, <2>1 DEF LadderInv, KeysInv, PageKeysHold, Ladder!NoKey
    <3> QED
      BY <1>5, <1>6, <1>9, <3>1
  <2> QED
    BY <2>1
<1>16. /\ \A x \in Used : x.run = Ladder!Session.run /\ x.word = w => x.key = k
       /\ \A x \in Used : x.key = k => x.word = w
  <2>1. \A x \in Used : x.run = Ladder!Session.run /\ x.word = w => x.key = k
    BY <1>9, <1>15
  <2>2. CASE Ladder!Session.keys[w] = Ladder!NoKey
    BY <1>4, <1>5, <1>6, <2>1, <2>2
  <2>3. CASE Ladder!Session.keys[w] # Ladder!NoKey
    BY <1>6, <1>7, <2>1, <2>3 DEF LadderInv, KeysInv, OneWordPerKey
  <2> QED
    BY <2>2, <2>3
<1>17. /\ Ladder!Session.run = stored.session.run /\ Ladder!Session.visits = stored.session.visits
       /\ Ladder!Session.pos = stored.session.pos /\ Ladder!Session.rows = stored.session.rows
       /\ \A v \in Ladder!ToSet(Ladder!Session.rows) : Ladder!Session.keys[v] = stored.keys[v]
  BY <1>1 DEF LadderInv, SessionInv, PageIsCached
<1>18. Ladder!Session.run \in 1 .. runs
  BY <1>1 DEF LadderInv, KeysInv, RunsInReach
<1>19. KeysInv'
  <2>1. UsedInReach'
    BY <1>2, <1>4, <1>5, <1>8, <1>12, <1>14, <1>18 DEF UsedInReach
  <2>2. RunsInReach'
    BY <1>2, <1>10, <1>11, <1>17, <1>18 DEF RunsInReach
  <2>3. StoredKeysHold' /\ PageKeysHold'
    BY <1>9, <1>10, <1>11, <1>12, <1>14, <1>15, <1>17 DEF StoredKeysHold, PageKeysHold
  <2>4. OneKeyPerRun' /\ OneWordPerKey'
    BY <1>12, <1>14, <1>16 DEF LadderInv, KeysInv, OneKeyPerRun, OneWordPerKey
  <2>5. KeysAreUsed'
    <3>1. \A v \in Words : keys[v] # Ladder!NoKey => \E x \in Used' : x.word = v /\ x.key = keys[v]
      <4>1. ASSUME NEW v \in Words, keys[v] # Ladder!NoKey, v # w
            PROVE  \E x \in Used' : x.word = v /\ x.key = keys[v]
        BY <1>9, <1>14, <4>1 DEF LadderInv, KeysInv, KeysAreUsed, Traced
      <4>2. new \in Used' /\ new.word = w /\ new.key = keys[w]
        BY <1>9, <1>12, <1>14
      <4> QED
        BY <4>1, <4>2
    <3>2. Traced(stored.session.keys)'
      BY <1>11, <1>14 DEF LadderInv, KeysInv, KeysAreUsed, Traced
    <3>3. Traced(stored.keys)' /\ Traced(Ladder!Session.keys)'
      BY <1>10, <1>11, <3>1 DEF Traced
    <3> QED
      BY <3>2, <3>3 DEF KeysAreUsed
  <2>6. RatedOncePerKey' /\ HandledIsKnown'
    BY <1>2, <1>12 DEF LadderInv, KeysInv, RatedOncePerKey, HandledIsKnown, Ladder!Known
  <2> QED
    BY <2>1, <2>2, <2>3, <2>4, <2>5, <2>6 DEF KeysInv
<1>20. SessionInv'
  <2>1. PageIsCached' /\ Blank'
    BY <1>10, <1>11, <1>13, <1>17 DEF PageIsCached, Blank
  <2>2. \A p \in posts : p.waits # "page"
    BY NothingWaits DEF LadderInv
  <2>3. AtDictation(w)' /\ \A v \in Words : AtDictation(v) => AtDictation(v)'
    BY <1>1, <1>10, <1>13 DEF AtDictation
  <2>4. settled = Ladder!Settled(w)'
    BY <1>0, <1>10 DEF Ladder!Settled
  <2>5. AnswerIsCurrent'
    BY <1>2, <1>10, <1>12, <2>2, <2>3, <2>4 DEF AnswerIsCurrent
  <2>6. FailureIsCurrent'
    BY <1>10, <2>3 DEF LadderInv, SessionInv, FailureIsCurrent
  <2>7. Rated(stored.session)'
    <3>1. ASSUME NEW v \in Ladder!ToSet(stored.session.rows)
          PROVE  \E a \in answers : a.word = v /\ a.key = keys[v]
      <4>1. PICK a \in answers : a.word = v /\ a.key = stored.keys[v]
        BY DEF LadderInv, SessionInv, Rated
      <4>2. a.key # Ladder!NoKey /\ v \in Words
        BY <1>5, <4>1 DEF Used, Ladder!NoKey
      <4>3. Ladder!Session.keys[v] = a.key
        BY <1>17, <4>1
      <4>4. keys[v] = a.key
        BY <1>6, <1>9, <4>2, <4>3
      <4> QED
        BY <4>1, <4>4
    <3> QED
      BY <1>2, <1>11, <3>1 DEF Rated
  <2>8. Sound(stored.session)' /\ (stored.count >= Len(stored.session.rows))'
    BY <1>11 DEF LadderInv, SessionInv, Sound
  <2> QED
    BY <2>1, <2>5, <2>6, <2>7, <2>8 DEF SessionInv
<1> QED
  BY <1>13, <1>19, <1>20 DEF LadderInv

LEMMA RetrySubmitPreserves == ASSUME LadderInv, Ladder!RetrySubmit PROVE LadderInv'
<1>1. Ladder!Working /\ ~page.sending /\ page.failed = Ladder!Session.pos /\ page.failed # 0
  BY SessionTypes DEF Ladder!RetrySubmit, LadderInv
<1>2. PICK w \in Words : AtDictation(w)
  BY <1>1 DEF LadderInv, SessionInv, FailureIsCurrent
<1>3. Ladder!Current = [word |-> w, stage |-> "dictation"] /\ w \in Ladder!Session.written
  BY <1>2 DEF AtDictation, Ladder!Current
<1>4. Ladder!Current.word = w /\ Ladder!Current.stage = "dictation"
  BY <1>3
<1> QED
  BY <1>1, <1>3, <1>4, SubmitPreserves DEF Ladder!RetrySubmit

(* The server handles a request: a key that it knows rates nothing.         *)
LEMMA HandlePreserves == ASSUME LadderInv, NEW p \in posts, Ladder!Handle(p) PROVE LadderInv'
<1>0. PICK known \in BOOLEAN : known <=> Ladder!Known(p.key)
  OBVIOUS
<1> DEFINE a == [run |-> p.run, word |-> p.word, key |-> p.key]
           outcome == IF known THEN "repeat" ELSE "done"
           q == [p EXCEPT !.at = outcome]
<1>1. /\ p.at = "sent" /\ UNCHANGED <<stored, page, runs, sends>>
      /\ answers' = IF known THEN answers ELSE answers \cup {a}
      /\ posts' = (posts \ {p}) \cup {q}
  BY <1>0 DEF Ladder!Handle
<1>2. p \in PostType /\ outcome \in {"done", "repeat"}
  BY DEF LadderInv, LadderTypes
<1> HIDE DEF outcome
<1>3. /\ q \in PostType /\ q.run = p.run /\ q.word = p.word /\ q.key = p.key /\ q.at = outcome
      /\ q.waits = p.waits /\ q.counted = p.counted
  BY <1>2 DEF PostType
<1>4. /\ a \in [run : Nat, word : Words, key : Nat] /\ a.run = p.run /\ a.word = p.word /\ a.key = p.key
  BY <1>2 DEF PostType
<1> HIDE DEF a, q
<1>5. LadderTypes'
  BY <1>1, <1>3, <1>4 DEF LadderInv, LadderTypes
<1>6. /\ \A x \in Used' : \E y \in Used : y.run = x.run /\ y.word = x.word /\ y.key = x.key
      /\ \A y \in Used : \E x \in Used' : y.word = x.word /\ y.key = x.key
  BY <1>1, <1>3, <1>4 DEF Used
<1>7. KeysInv'
  <2>1. stored.keys \in KnownKeys /\ stored.session.keys \in KnownKeys /\ Ladder!Session.keys \in KnownKeys
    BY DEF KnownKeys
  <2>2. RunsInReach' /\ Ladder!Session' = Ladder!Session /\ (Ladder!Open' <=> Ladder!Open)
    BY <1>1 DEF LadderInv, KeysInv, RunsInReach, Ladder!Open, Ladder!Session
  <2>3. RatedOncePerKey'
    BY <1>0, <1>1, <1>4 DEF LadderInv, KeysInv, RatedOncePerKey, Ladder!Known
  <2>4. HandledIsKnown'
    <3>1. Ladder!Known(p.key)'
      BY <1>0, <1>1, <1>4 DEF Ladder!Known
    <3>2. \A r \in posts : r.at # "sent" => Ladder!Known(r.key)'
      BY <1>1 DEF LadderInv, KeysInv, HandledIsKnown, Ladder!Known
    <3> QED
      BY <1>1, <1>3, <3>1, <3>2 DEF HandledIsKnown, Ladder!Known
  <2>5. runs <= runs' /\ sends <= sends'
    BY <1>1 DEF LadderInv, LadderTypes
  <2> QED
    BY <1>1, <1>5, <1>6, <2>1, <2>2, <2>3, <2>4, <2>5, KeysKept DEF LadderInv, KeysInv
<1>8. SessionInv'
  <2>1. PageIsCached' /\ Blank' /\ FailureIsCurrent' /\ Sound(stored.session)'
        /\ (stored.count >= Len(stored.session.rows))'
    BY <1>1 DEF LadderInv, SessionInv, PageIsCached, Blank, FailureIsCurrent, Sound, AtDictation, Ladder!Open, Ladder!Session
  <2>2. Rated(stored.session)'
    BY <1>1 DEF LadderInv, SessionInv, Rated
  <2>3. \A w \in Words : (AtDictation(w)' <=> AtDictation(w)) /\ (Ladder!Settled(w)' = Ladder!Settled(w))
    BY <1>1 DEF AtDictation, Ladder!Open, Ladder!Session, Ladder!Settled
  <2>4. ASSUME p.waits = "page", ~known
        PROVE  ~Ladder!Settled(p.word)
    <3>1. SUFFICES ASSUME Ladder!Settled(p.word) PROVE FALSE
      OBVIOUS
    <3>2. Ladder!Open /\ p.run = Ladder!Session.run
      BY <2>4 DEF LadderInv, SessionInv, AnswerIsCurrent, AtDictation
    <3>3. Ladder!Session.keys[p.word] = p.key
      BY <3>2 DEF LadderInv, KeysInv, PageKeysHold, Used
    <3>4. p.word \in Ladder!ToSet(stored.session.rows) /\ stored.keys[p.word] = p.key
      BY <3>1, <3>2, <3>3 DEF LadderInv, SessionInv, PageIsCached, Ladder!Settled
    <3>5. Ladder!Known(p.key)
      BY <3>4 DEF LadderInv, SessionInv, Rated, Ladder!Known
    <3> QED
      BY <1>0, <2>4, <3>5
  <2>5. AnswerIsCurrent'
    <3>1. SUFFICES ASSUME NEW r \in posts', r.waits = "page"
                   PROVE  /\ page.sending /\ AtDictation(r.word) /\ r.run = Ladder!Session.run
                          /\ r.counted = Ladder!Settled(r.word) /\ (r.at = "done" => ~Ladder!Settled(r.word))
                          /\ \A t \in posts' : t.waits = "page" => r = t
      <4>1. \A r \in posts' : r.word \in Words
        BY <1>5 DEF LadderTypes, PostType
      <4>2. page' = page /\ Ladder!Session' = Ladder!Session
        BY <1>1 DEF Ladder!Session
      <4> QED
        BY <2>3, <4>1, <4>2 DEF AnswerIsCurrent
    <3>2. CASE r = q
      <4>1. p.waits = "page"
        BY <1>3, <3>1, <3>2
      <4>2. /\ page.sending /\ AtDictation(p.word) /\ p.run = Ladder!Session.run /\ p.counted = Ladder!Settled(p.word)
            /\ \A t \in posts : t.waits = "page" => p = t
        BY <4>1 DEF LadderInv, SessionInv, AnswerIsCurrent
      <4>3. r.at = "done" => ~known
        BY <1>3, <3>2 DEF outcome
      <4> QED
        BY <1>1, <1>3, <2>4, <3>2, <4>1, <4>2, <4>3
    <3>3. CASE r # q
      <4>1. r \in posts /\ r # p
        BY <1>1, <3>1, <3>3
      <4>2. p.waits # "page"
        BY <3>1, <4>1 DEF LadderInv, SessionInv, AnswerIsCurrent
      <4> QED
        BY <1>1, <1>3, <3>1, <4>1, <4>2 DEF LadderInv, SessionInv, AnswerIsCurrent
    <3> QED
      BY <3>2, <3>3
  <2> QED
    BY <2>1, <2>2, <2>5 DEF SessionInv
<1> QED
  BY <1>5, <1>7, <1>8 DEF LadderInv

LEMMA FailPreserves == ASSUME LadderInv, NEW p \in posts, Ladder!Fail(p) PROVE LadderInv'
<1> DEFINE q == [p EXCEPT !.waits = "nobody"]
<1>1. /\ UNCHANGED <<answers, stored, runs, sends>> /\ posts' = (posts \ {p}) \cup {q}
      /\ p.waits = "page" => page' = [page EXCEPT !.failed = Ladder!Session.pos, !.sending = FALSE]
      /\ p.waits # "page" => page' = page
  BY DEF Ladder!Fail
<1>2. /\ q \in PostType /\ q.run = p.run /\ q.word = p.word /\ q.key = p.key /\ q.at = p.at /\ q.waits = "nobody"
  BY DEF PostType, LadderInv, LadderTypes
<1> HIDE DEF q
<1>3. /\ page' \in PageType /\ page'.view = page.view /\ Ladder!Session' = Ladder!Session
      /\ p.waits = "page" => page'.failed = Ladder!Session.pos
  <2>1. Ladder!Session.pos \in Nat /\ page \in PageType
    BY SessionTypes DEF LadderInv, LadderTypes
  <2>2. CASE p.waits # "page"
    BY <1>1, <2>1, <2>2 DEF Ladder!Session
  <2>3. CASE p.waits = "page"
    BY <1>1, <2>1, <2>3 DEF PageType, Ladder!Session
  <2> QED
    BY <2>2, <2>3
<1>4. LadderTypes' /\ (Ladder!Open' <=> Ladder!Open)
  BY <1>1, <1>2, <1>3 DEF LadderInv, LadderTypes, Ladder!Open
<1>5. p.waits = "page" => Ladder!Open
  BY NothingWaits DEF LadderInv
<1>6. KeysInv'
  <2>1. /\ \A r \in posts' : \E t \in posts : t.run = r.run /\ t.word = r.word /\ t.key = r.key /\ t.at = r.at
        /\ \A t \in posts : \E r \in posts' : t.word = r.word /\ t.key = r.key
    BY <1>1, <1>2
  <2>2. (Ladder!Open /\ Ladder!Open' /\ Ladder!Session'.run = Ladder!Session.run /\ Ladder!Session'.keys = Ladder!Session.keys) \/ page' = page
    BY <1>1, <1>3, <1>4, <1>5
  <2> QED
    BY <1>1, <1>4, <2>1, <2>2, QuietKeys
<1>7. SessionInv'
  <2>1. PageIsCached' /\ Sound(stored.session)' /\ Rated(stored.session)'
        /\ (stored.count >= Len(stored.session.rows))'
    BY <1>1, <1>3, <1>4 DEF LadderInv, SessionInv, PageIsCached, Sound, Rated
  <2>2. Blank'
    BY <1>1, <1>4, <1>5 DEF LadderInv, SessionInv, Blank
  <2>3. \A w \in Words : (AtDictation(w)' <=> AtDictation(w)) /\ (Ladder!Settled(w)' = Ladder!Settled(w))
    BY <1>3, <1>4 DEF AtDictation, Ladder!Settled
  <2>4. CASE p.waits = "page"
    <3>1. AtDictation(p.word) /\ p.word \in Words /\ \A r \in posts : r.waits = "page" => p = r
      BY <2>4 DEF LadderInv, SessionInv, AnswerIsCurrent, LadderTypes, PostType
    <3>2. \A r \in posts' : r.waits # "page"
      BY <1>1, <1>2, <3>1
    <3>3. AnswerIsCurrent'
      BY <3>2 DEF AnswerIsCurrent
    <3>4. FailureIsCurrent'
      BY <1>3, <2>3, <2>4, <3>1 DEF FailureIsCurrent
    <3> QED
      BY <2>1, <2>2, <3>3, <3>4 DEF SessionInv
  <2>5. CASE p.waits # "page"
    <3>1. page' = page
      BY <1>1, <2>5
    <3>2. FailureIsCurrent'
      BY <1>3, <2>3, <3>1 DEF LadderInv, SessionInv, FailureIsCurrent
    <3>3. AnswerIsCurrent'
      <4>1. SUFFICES ASSUME NEW r \in posts', r.waits = "page"
                     PROVE  /\ page.sending /\ AtDictation(r.word) /\ r.run = Ladder!Session.run
                            /\ r.counted = Ladder!Settled(r.word) /\ (r.at = "done" => ~Ladder!Settled(r.word))
                            /\ \A t \in posts' : t.waits = "page" => r = t
        <5>1. \A r \in posts' : r.word \in Words
          BY <1>4 DEF LadderTypes, PostType
        <5> QED
          BY <1>3, <2>3, <3>1, <5>1 DEF AnswerIsCurrent
      <4>2. r \in posts /\ \A t \in posts' : t.waits = "page" => t \in posts
        BY <1>1, <1>2, <4>1
      <4> QED
        BY <4>1, <4>2 DEF LadderInv, SessionInv, AnswerIsCurrent
    <3> QED
      BY <2>1, <2>2, <3>2, <3>3 DEF SessionInv
  <2> QED
    BY <2>4, <2>5
<1> QED
  BY <1>4, <1>6, <1>7 DEF LadderInv

(* An answer is received: what it used stays in the log.                    *)
LEMMA AnsweredKeys ==
  ASSUME LadderInv, LadderTypes', UNCHANGED <<answers, runs, sends>>, NEW p \in posts, p.at # "sent",
         posts' = posts \ {p}, stored'.keys = stored.keys, stored'.session.run = stored.session.run,
         stored'.session.keys \in {stored.session.keys, Ladder!Session.keys},
         RunsInReach',
         \/ page' = page
         \/ Ladder!Open /\ Ladder!Open' /\ Ladder!Session'.run = Ladder!Session.run /\ Ladder!Session'.keys = Ladder!Session.keys
  PROVE  KeysInv'
<1>1. \E a \in answers : a.word = p.word /\ a.key = p.key
  <2>1. PICK a \in answers : a.key = p.key
    BY DEF LadderInv, KeysInv, HandledIsKnown, Ladder!Known
  <2>2. a.word = p.word
    BY <2>1 DEF LadderInv, KeysInv, OneWordPerKey, Used
  <2> QED
    BY <2>1, <2>2
<1>2. /\ \A x \in Used' : \E y \in Used : y.run = x.run /\ y.word = x.word /\ y.key = x.key
      /\ \A y \in Used : \E x \in Used' : y.word = x.word /\ y.key = x.key
  BY <1>1 DEF Used
<1>3. stored'.keys \in KnownKeys /\ stored'.session.keys \in KnownKeys /\ Ladder!Session'.keys \in KnownKeys
  BY DEF KnownKeys, Ladder!Session
<1>4. RatedOncePerKey' /\ HandledIsKnown'
  BY DEF RatedOncePerKey, HandledIsKnown, Ladder!Known, KeysInv, LadderInv
<1>5. runs <= runs' /\ sends <= sends'
  BY DEF LadderInv, LadderTypes
<1> QED
  BY <1>2, <1>3, <1>4, <1>5, KeysKept DEF KeysInv, LadderInv, Ladder!Open, Ladder!Session

LEMMA LateAnswerPreserves == ASSUME LadderInv, NEW p \in posts, Ladder!Answer(p), p.waits # "page" PROVE LadderInv'
<1> DEFINE count == IF Ladder!Counts(p) THEN stored.count + 1 ELSE stored.count
<1>1. /\ p.at # "sent" /\ page' = page /\ posts' = posts \ {p} /\ UNCHANGED <<answers, runs, sends>>
      /\ stored' = [stored EXCEPT !.session = stored.session, !.count = count]
  BY DEF Ladder!Answer, LadderInv, LadderTypes, StoredType
<1>2. count \in Nat /\ count >= stored.count
  BY SessionTypes DEF LadderInv
<1> HIDE DEF count
<1>3. stored' \in StoredType /\ stored'.session = stored.session /\ stored'.keys = stored.keys /\ stored'.count = count
  BY <1>1, <1>2 DEF LadderInv, LadderTypes, StoredType
<1>4. LadderTypes' /\ Ladder!Session' = Ladder!Session /\ (Ladder!Open' <=> Ladder!Open)
  BY <1>1, <1>3 DEF LadderInv, LadderTypes, Ladder!Session, Ladder!Open
<1>5. RunsInReach'
  BY <1>1, <1>3, <1>4 DEF LadderInv, KeysInv, RunsInReach
<1>6. KeysInv'
  BY <1>1, <1>3, <1>4, <1>5, AnsweredKeys
<1>7. SessionInv'
  <2>1. PageIsCached' /\ Sound(stored.session)' /\ Rated(stored.session)' /\ Blank'
    BY <1>1, <1>3, <1>4 DEF LadderInv, SessionInv, PageIsCached, Sound, Rated, Blank
  <2>2. (stored.count >= Len(stored.session.rows))'
    BY <1>2, <1>3, SessionTypes DEF LadderInv, SessionInv
  <2>3. AnswerIsCurrent' /\ FailureIsCurrent'
    BY <1>1, <1>4 DEF LadderInv, SessionInv, AnswerIsCurrent, FailureIsCurrent, AtDictation, Ladder!Settled
  <2> QED
    BY <2>1, <2>2, <2>3 DEF SessionInv
<1> QED
  BY <1>4, <1>6, <1>7 DEF LadderInv

(* The next visits, and the rows.                                           *)
LEMMA AskedIs ==
  ASSUME NEW s \in SessionType, NEW w \in Words, NEW done \in BOOLEAN
  PROVE  LET t == IF done THEN Ladder!AskMeaning(s, w) ELSE s IN
         /\ t \in SessionType /\ t.run = s.run /\ t.pos = s.pos /\ t.rows = s.rows /\ t.keys = s.keys
         /\ \/ t.visits = s.visits
            \/ t.visits = Append(s.visits, [word |-> w, stage |-> "meaning"])
<1> DEFINE more == Append(s.visits, [word |-> w, stage |-> "meaning"])
           t == [s EXCEPT !.visits = more]
<1>1. more \in Seq(Ladder!Visit)
  BY DEF SessionType, Ladder!Visit
<1> HIDE DEF more
<1>2. /\ t \in SessionType /\ t.run = s.run /\ t.pos = s.pos /\ t.rows = s.rows /\ t.keys = s.keys /\ t.visits = more
  BY <1>1 DEF SessionType
<1>3. Ladder!AskMeaning(s, w) = s \/ Ladder!AskMeaning(s, w) = t
  BY DEF Ladder!AskMeaning, more
<1> HIDE DEF t
<1> QED
  BY <1>2, <1>3 DEF more

(* The session after the answer to the request of its dictation.            *)
LEMMA AfterAnswerIs ==
  ASSUME LadderInv, NEW p \in posts, NEW s, s = Ladder!AfterAnswer(p)
  PROVE  /\ s \in SessionType /\ s.run = Ladder!Session.run /\ s.keys = Ladder!Session.keys /\ s.pos = Ladder!Session.pos + 1
         /\ s.rows = IF p.at = "repeat" /\ Ladder!Settled(p.word) THEN Ladder!Session.rows ELSE Append(Ladder!Session.rows, p.word)
         /\ \/ s.visits = Ladder!Session.visits
            \/ s.visits = Append(Ladder!Session.visits, [word |-> p.word, stage |-> "meaning"])
<1> DEFINE t == IF p.at = "done" THEN Ladder!AskMeaning(Ladder!Session, p.word) ELSE Ladder!Session
           rows == IF p.at = "repeat" /\ Ladder!Settled(p.word) THEN Ladder!Session.rows ELSE Append(Ladder!Session.rows, p.word)
           next == Ladder!Session.pos + 1
           r == [t EXCEPT !.rows = rows, !.pos = next]
<1>1. Ladder!Session \in SessionType /\ p.word \in Words
  BY SessionTypes DEF LadderInv, LadderTypes, PostType
<1>2. /\ t \in SessionType /\ t.run = Ladder!Session.run /\ t.pos = Ladder!Session.pos /\ t.rows = Ladder!Session.rows /\ t.keys = Ladder!Session.keys
      /\ \/ t.visits = Ladder!Session.visits
         \/ t.visits = Append(Ladder!Session.visits, [word |-> p.word, stage |-> "meaning"])
  <2>1. (p.at = "done") \in BOOLEAN
    OBVIOUS
  <2> QED
    BY <1>1, <2>1, AskedIs
<1>3. rows \in Seq(Words) /\ next \in Nat \ {0}
  BY <1>1 DEF SessionType
<1>4. s = [t EXCEPT !.rows = IF p.at = "repeat" /\ Ladder!Settled(p.word) THEN @ ELSE Append(@, p.word), !.pos = @ + 1]
  BY DEF Ladder!AfterAnswer
<1> HIDE DEF t
<1>5. s = r
  BY <1>2, <1>4 DEF SessionType
<1> HIDE DEF rows, next
<1>6. /\ r \in SessionType /\ r.run = t.run /\ r.keys = t.keys /\ r.pos = next /\ r.rows = rows /\ r.visits = t.visits
  BY <1>2, <1>3 DEF SessionType
<1> QED
  BY <1>2, <1>5, <1>6 DEF rows, next

LEMMA AnswerPreserves == ASSUME LadderInv, NEW p \in posts, Ladder!Answer(p), p.waits = "page" PROVE LadderInv'
<1>0. PICK s, w, settled, pos, rows, visits :
        /\ s = Ladder!AfterAnswer(p) /\ w = p.word /\ settled = Ladder!Settled(w)
        /\ pos = Ladder!Session.pos /\ rows = Ladder!Session.rows /\ visits = Ladder!Session.visits
  OBVIOUS
<1> DEFINE count == IF Ladder!Counts(p) THEN stored.count + 1 ELSE stored.count
           seen == p.at = "repeat" /\ settled
<1>1. /\ p.at \in {"done", "repeat"} /\ posts' = posts \ {p} /\ UNCHANGED <<answers, runs, sends>>
      /\ page' = Ladder!Shows(s) /\ stored' = [stored EXCEPT !.session = s, !.count = count]
  BY <1>0 DEF Ladder!Answer
<1>2. /\ Ladder!Open /\ pos <= Len(visits) /\ visits[pos] = [word |-> w, stage |-> "dictation"]
      /\ p.run = Ladder!Session.run /\ p.counted = settled /\ (p.at = "done" => ~settled)
      /\ \A q \in posts : q.waits = "page" => p = q
  BY <1>0 DEF LadderInv, SessionInv, AnswerIsCurrent, AtDictation
<1>3. /\ s \in SessionType /\ s.run = Ladder!Session.run /\ s.keys = Ladder!Session.keys /\ s.pos = pos + 1
      /\ s.rows = IF seen THEN rows ELSE Append(rows, w)
      /\ \/ s.visits = visits
         \/ s.visits = Append(visits, [word |-> w, stage |-> "meaning"])
  BY <1>0, AfterAnswerIs
<1>4. /\ w \in Words /\ pos \in Nat \ {0} /\ rows \in Seq(Words) /\ visits \in Seq(Ladder!Visit)
      /\ stored.count \in Nat /\ (settled <=> w \in Ladder!ToSet(rows))
  BY <1>0, SessionTypes DEF LadderInv, LadderTypes, PostType, Ladder!Settled
<1>5. /\ count \in Nat /\ count >= stored.count /\ (seen \/ count = stored.count + 1)
  BY <1>1, <1>2, <1>4 DEF Ladder!Counts
<1> HIDE DEF count, seen
<1>6. /\ stored' \in StoredType /\ stored'.session = s /\ stored'.keys = stored.keys /\ stored'.count = count
  BY <1>1, <1>3, <1>5 DEF LadderInv, LadderTypes, StoredType
<1>7. page' \in PageType /\ Ladder!Open' /\ Ladder!Session' = s /\ page'.failed = 0
  BY <1>1, <1>3, ShowsIs DEF Ladder!Open, Ladder!Session
<1>8. LadderTypes'
  BY <1>1, <1>6, <1>7 DEF LadderInv, LadderTypes
<1>9. /\ Ladder!Session.run = stored.session.run /\ visits = stored.session.visits /\ rows = stored.session.rows
      /\ pos = stored.session.pos
      /\ \A v \in Ladder!ToSet(rows) : Ladder!Session.keys[v] = stored.keys[v]
  BY <1>0, <1>2 DEF LadderInv, SessionInv, PageIsCached
<1>10. KeysInv'
  <2>1. RunsInReach'
    BY <1>1, <1>2, <1>3, <1>6, <1>7 DEF LadderInv, KeysInv, RunsInReach
  <2> QED
    BY <1>1, <1>2, <1>3, <1>6, <1>7, <1>8, <1>9, <2>1, AnsweredKeys
<1>11. Ladder!Session.keys[w] = p.key /\ stored.keys[w] = p.key
  BY <1>0, <1>2, <1>9 DEF LadderInv, KeysInv, PageKeysHold, StoredKeysHold, Used
<1>12. Ladder!ToSet(s.rows) = Ladder!ToSet(rows) \cup {w}
  <2>1. CASE seen
    BY <1>3, <1>4, <2>1 DEF seen
  <2>2. CASE ~seen
    <3>1. s.rows = Append(rows, w)
      BY <1>3, <2>2
    <3>2. /\ DOMAIN s.rows = 1 .. Len(rows) + 1 /\ DOMAIN rows = 1 .. Len(rows) /\ Len(rows) \in Nat
          /\ s.rows[Len(rows) + 1] = w /\ \A i \in 1 .. Len(rows) : s.rows[i] = rows[i]
      BY <1>4, <3>1
    <3>3. /\ \A i \in 1 .. Len(rows) : s.rows[i] \in Ladder!ToSet(rows)
          /\ \A v \in Ladder!ToSet(rows) : \E i \in 1 .. Len(rows) + 1 : s.rows[i] = v
      BY <3>2 DEF Ladder!ToSet
    <3>4. \A v \in Ladder!ToSet(s.rows) : v \in Ladder!ToSet(rows) \/ v = w
      <4>1. ASSUME NEW i \in 1 .. Len(rows) + 1
            PROVE  s.rows[i] \in Ladder!ToSet(rows) \/ s.rows[i] = w
        <5>1. i \in 1 .. Len(rows) \/ i = Len(rows) + 1
          BY <3>2
        <5> QED
          BY <3>2, <3>3, <5>1
      <4> QED
        BY <3>2, <4>1 DEF Ladder!ToSet
    <3>5. w \in Ladder!ToSet(s.rows) /\ \A v \in Ladder!ToSet(rows) : v \in Ladder!ToSet(s.rows)
      BY <3>2, <3>3 DEF Ladder!ToSet
    <3> QED
      BY <3>4, <3>5
  <2> QED
    BY <2>1, <2>2
<1>13. \A v \in Ladder!ToSet(s.rows) : s.keys[v] = stored.keys[v]
  BY <1>3, <1>9, <1>11, <1>12
<1>14. Sound(s)
  <2>1. /\ Len(visits) \in Nat /\ Ladder!IsInjective(rows)
        /\ \A v \in Ladder!ToSet(rows) : \E i \in 1 .. Len(visits) : visits[i].word = v
        /\ \A i \in 1 .. Len(visits) :
             /\ i < pos /\ visits[i].stage = "dictation" => visits[i].word \in Ladder!ToSet(rows)
             /\ \E j \in 1 .. Len(visits) : visits[j] = [word |-> visits[i].word, stage |-> "dictation"]
    BY <1>4, <1>9 DEF LadderInv, SessionInv, Sound
  <2>2. Ladder!IsInjective(s.rows)
    <3>1. CASE seen
      BY <1>3, <2>1, <3>1
    <3>2. CASE ~seen
      <4>1. s.rows = Append(rows, w) /\ w \notin Ladder!ToSet(rows)
        BY <1>1, <1>2, <1>3, <1>4, <3>2 DEF seen
      <4>2. /\ DOMAIN s.rows = 1 .. Len(rows) + 1 /\ DOMAIN rows = 1 .. Len(rows) /\ Len(rows) \in Nat
            /\ s.rows[Len(rows) + 1] = w /\ \A i \in 1 .. Len(rows) : s.rows[i] = rows[i]
        BY <1>4, <4>1
      <4>3. \A i \in 1 .. Len(rows) : rows[i] # w
        BY <4>1, <4>2 DEF Ladder!ToSet
      <4>4. \A i, j \in 1 .. Len(rows) : rows[i] = rows[j] => i = j
        BY <2>1, <4>2 DEF Ladder!IsInjective
      <4>5. ASSUME NEW i \in 1 .. Len(rows) + 1, NEW j \in 1 .. Len(rows) + 1, s.rows[i] = s.rows[j]
            PROVE  i = j
        <5>1. i \in 1 .. Len(rows) \/ i = Len(rows) + 1
          BY <4>2
        <5>2. j \in 1 .. Len(rows) \/ j = Len(rows) + 1
          BY <4>2
        <5> QED
          BY <4>2, <4>3, <4>4, <4>5, <5>1, <5>2
      <4> QED
        BY <4>2, <4>5 DEF Ladder!IsInjective
    <3> QED
      BY <3>1, <3>2
  <2> DEFINE n == Len(visits)
  <2>3. /\ Len(s.visits) \in {n, n + 1} /\ \A i \in 1 .. n : s.visits[i] = visits[i]
        /\ Len(s.visits) = n + 1 => s.visits[n + 1].word = w /\ s.visits[n + 1].stage = "meaning"
    <3>1. CASE s.visits = visits
      BY <1>4, <3>1
    <3>2. CASE s.visits = Append(visits, [word |-> w, stage |-> "meaning"])
      BY <1>4, <3>2 DEF Ladder!Visit
    <3> QED
      BY <1>3, <3>1, <3>2
  <2>4. visits[pos].word = w /\ pos \in 1 .. n
    BY <1>2, <1>4, <2>1
  <2> HIDE DEF n
  <2>5. n \in Nat
    BY <2>1 DEF n
  <2>6. \A v \in Ladder!ToSet(s.rows) : \E i \in 1 .. Len(s.visits) : s.visits[i].word = v
    <3>1. \A v \in Ladder!ToSet(s.rows) : \E i \in 1 .. n : visits[i].word = v
      BY <1>12, <2>1, <2>4 DEF n
    <3> QED
      BY <2>3, <2>5, <3>1
  <2>7. ASSUME NEW i \in 1 .. Len(s.visits)
        PROVE  /\ i < s.pos /\ s.visits[i].stage = "dictation" => s.visits[i].word \in Ladder!ToSet(s.rows)
               /\ \E j \in 1 .. Len(s.visits) : s.visits[j] = [word |-> s.visits[i].word, stage |-> "dictation"]
    <3>1. CASE i \in 1 .. n
      <4>1. s.visits[i] = visits[i]
        BY <2>3, <3>1
      <4>2. i < s.pos => i < pos \/ i = pos
        BY <1>3, <1>4, <2>5, <3>1
      <4>3. i < s.pos /\ s.visits[i].stage = "dictation" => s.visits[i].word \in Ladder!ToSet(s.rows)
        BY <1>12, <2>1, <2>4, <3>1, <4>1, <4>2 DEF n
      <4>4. PICK j \in 1 .. n : visits[j] = [word |-> visits[i].word, stage |-> "dictation"]
        BY <2>1, <3>1 DEF n
      <4>5. j \in 1 .. Len(s.visits) /\ s.visits[j] = visits[j]
        BY <2>3, <2>5
      <4> QED
        BY <4>1, <4>3, <4>4, <4>5
    <3>2. CASE i = n + 1
      <4>1. s.visits[i].word = w /\ s.visits[i].stage = "meaning"
        BY <2>3, <2>5, <3>2
      <4>2. pos \in 1 .. Len(s.visits) /\ s.visits[pos] = [word |-> w, stage |-> "dictation"]
        BY <1>2, <2>3, <2>4, <2>5
      <4> QED
        BY <4>1, <4>2
    <3> QED
      BY <2>3, <2>5, <3>1, <3>2
  <2>8. s.pos <= Len(s.visits) + 1
    BY <1>2, <1>3, <1>4, <2>3, <2>5 DEF n
  <2> QED
    BY <2>2, <2>6, <2>7, <2>8 DEF Sound
<1>15. Rated(stored.session)'
  <2>1. PICK a \in answers : a.key = p.key
    BY <1>1 DEF LadderInv, KeysInv, HandledIsKnown, Ladder!Known
  <2>2. a.word = w
    BY <1>0, <2>1 DEF LadderInv, KeysInv, OneWordPerKey, Used
  <2>3. \A v \in Ladder!ToSet(rows) : \E b \in answers : b.word = v /\ b.key = stored.keys[v]
    BY <1>9 DEF LadderInv, SessionInv, Rated
  <2> QED
    BY <1>1, <1>6, <1>11, <1>12, <2>1, <2>2, <2>3 DEF Rated
<1>16. count >= Len(s.rows)
  <2>1. stored.count >= Len(rows) /\ Len(rows) \in Nat
    BY <1>4, <1>9 DEF LadderInv, SessionInv
  <2>2. CASE seen
    BY <1>3, <1>4, <1>5, <2>1, <2>2
  <2>3. CASE ~seen
    <3>1. Len(s.rows) = Len(rows) + 1
      BY <1>3, <1>4, <2>3
    <3> QED
      BY <1>4, <1>5, <2>1, <2>3, <3>1
  <2> QED
    BY <2>2, <2>3
<1>17. SessionInv'
  <2>1. \A q \in posts' : q.waits # "page"
    BY <1>1, <1>2
  <2>2. AnswerIsCurrent' /\ FailureIsCurrent' /\ Blank'
    BY <1>7, <2>1 DEF AnswerIsCurrent, FailureIsCurrent, Blank
  <2>3. PageIsCached'
    BY <1>6, <1>7, <1>13 DEF PageIsCached
  <2>4. Sound(stored.session)' /\ (stored.count >= Len(stored.session.rows))'
    BY <1>6, <1>14, <1>16 DEF Sound
  <2> QED
    BY <1>15, <2>2, <2>3, <2>4 DEF SessionInv
<1> QED
  BY <1>8, <1>10, <1>17 DEF LadderInv

LEMMA EnterPreserves == ASSUME LadderInv, NEW s, s = Ladder!NoSession \/ s = stored.session, Ladder!Enter(s) PROVE LadderInv'
<1>1. ~Ladder!Open /\ UNCHANGED <<answers, posts, sends>>
  BY DEF Ladder!Enter, Ladder!Open
<1>2. CASE Ladder!LimitReached
  BY <1>1, <1>2, GatePreserves DEF Ladder!Enter
<1>3. CASE ~Ladder!LimitReached
  BY <1>1, <1>3, MountPreserves DEF Ladder!Enter
<1> QED
  BY <1>2, <1>3

LEMMA LadderNext == LadderInv /\ [Ladder!Next]_Ladder!vars => LadderInv'
<1> SUFFICES ASSUME LadderInv, [Ladder!Next]_Ladder!vars PROVE LadderInv'
  OBVIOUS
<1>1. CASE UNCHANGED Ladder!vars
  <2>1. UNCHANGED <<answers, stored, page, posts, runs, sends>>
    BY <1>1 DEF Ladder!vars
  <2>2. LadderTypes'
    BY <2>1 DEF LadderInv, LadderTypes
  <2>3. KeysInv'
    BY <2>1, <2>2, SameOrNot, QuietKeys
  <2>4. SessionInv'
    <3>1. Ladder!Session' = Ladder!Session /\ (Ladder!Open' <=> Ladder!Open)
      BY <2>1 DEF Ladder!Session, Ladder!Open
    <3>2. PageIsCached' /\ Sound(stored.session)' /\ Rated(stored.session)' /\ Blank'
          /\ (stored.count >= Len(stored.session.rows))'
      BY <2>1, <3>1 DEF LadderInv, SessionInv, PageIsCached, Sound, Rated, Blank
    <3>3. AnswerIsCurrent' /\ FailureIsCurrent'
      BY <2>1, <3>1 DEF LadderInv, SessionInv, AnswerIsCurrent, FailureIsCurrent, AtDictation, Ladder!Settled
    <3> QED
      BY <3>2, <3>3 DEF SessionInv
  <2> QED
    BY <2>2, <2>3, <2>4 DEF LadderInv
<1>2. CASE Ladder!Start
  BY <1>2, EnterPreserves DEF Ladder!Start
<1>3. CASE Ladder!Continue
  BY <1>3, EnterPreserves DEF Ladder!Continue
<1>4. CASE Ladder!Sprint
  BY <1>4, MountPreserves DEF Ladder!Sprint, Ladder!Open
<1>5. CASE Ladder!Pass
  BY <1>5, PassPreserves
<1>6. CASE Ladder!Dictate
  BY <1>6, SubmitPreserves DEF Ladder!Dictate
<1>7. CASE Ladder!RetrySubmit
  BY <1>7, RetrySubmitPreserves
<1>8. CASE Ladder!Retest
  BY <1>8, RetestPreserves
<1>9. CASE Ladder!StepBack
  BY <1>9, StepBackPreserves
<1>10. CASE Ladder!Leave
  BY <1>10, AwayPreserves DEF Ladder!Leave
<1>11. CASE Ladder!Close
  BY <1>11, ClosePreserves
<1>12. CASE Ladder!Reload
  BY <1>12, AwayPreserves DEF Ladder!Reload
<1>13. ASSUME NEW p \in posts, Ladder!Handle(p) \/ Ladder!Fail(p) \/ Ladder!Answer(p)
       PROVE  LadderInv'
  BY <1>13, HandlePreserves, FailPreserves, AnswerPreserves, LateAnswerPreserves
<1> QED
  BY <1>1, <1>2, <1>3, <1>4, <1>5, <1>6, <1>7, <1>8, <1>9, <1>10, <1>11, <1>12, <1>13 DEF Ladder!Next, Ladder!User

LEMMA LadderInit == Ladder!Init => LadderInv
<1> SUFFICES ASSUME Ladder!Init PROVE LadderInv
  OBVIOUS
<1>1. /\ answers = {} /\ posts = {} /\ runs = 0 /\ sends = 0 /\ page = Ladder!Select
      /\ stored.session = Ladder!NoSession /\ stored.keys = Ladder!NoKeys /\ stored.count = 0 /\ stored \in StoredType
  BY Blanks DEF Ladder!Init, StoredType
<1>2. ~Ladder!Open /\ Ladder!Session = Ladder!NoSession /\ page.failed = 0
  BY <1>1, Blanks DEF Ladder!Open, Ladder!Session
<1>3. LadderTypes
  BY <1>1, Blanks DEF LadderTypes
<1>4. Used = {}
  BY <1>1 DEF Used
<1>5. KeysInv
  BY <1>1, <1>2, <1>4, Blanks
  DEF KeysInv, UsedInReach, RunsInReach, StoredKeysHold, PageKeysHold, OneKeyPerRun, OneWordPerKey, KeysAreUsed,
      Traced, RatedOncePerKey, HandledIsKnown
<1>6. SessionInv
  <2>1. Ladder!ToSet(<<>>) = {} /\ Len(<<>>) = 0 /\ Ladder!IsInjective(<<>>)
    BY DEF Ladder!ToSet, Ladder!IsInjective
  <2> QED
    BY <1>1, <1>2, <2>1, Blanks
    DEF SessionInv, PageIsCached, AnswerIsCurrent, FailureIsCurrent, Blank, Sound, Rated
<1> QED
  BY <1>3, <1>5, <1>6 DEF LadderInv

(* The three parts together are inductive.                                  *)
LEMMA LadderInvariant == Ladder!Spec => []LadderInv
  BY LadderInit, LadderNext, PTL DEF Ladder!Spec

(* However often the page sends, is left, is reloaded or is answered late:  *)
(* within one session a word is rated at most once, by the keys kept with   *)
(* the session (LadderReviewSession.tsx:300-318, 503-510).                  *)
THEOREM RatedOnce == Ladder!Spec => []RatedOncePerRun
<1>1. LadderInv => RatedOncePerRun
  BY DEF LadderInv, KeysInv, OneKeyPerRun, RatedOncePerKey, Used, RatedOncePerRun, Ladder!RatedOncePerRun
<1> QED
  BY <1>1, LadderInvariant, PTL

(* For any words, limit and number of requests: a session that came to its  *)
(* end has a row for each of its words, once, each rated under its key, and *)
(* the count of the day knows them all (LadderReviewSession.tsx:534-604).   *)
THEOREM SettledAtTheEnd == Ladder!Spec => []FinishedIsSettled
<1>1. LadderInv => FinishedIsSettled
  <2>1. SUFFICES ASSUME LadderInv, Ladder!Open, Ladder!Finished(Ladder!Session)
                 PROVE  /\ Ladder!ToSet(Ladder!Session.rows) = {v.word : v \in Ladder!ToSet(Ladder!Session.visits)}
                        /\ Ladder!IsInjective(Ladder!Session.rows)
                        /\ \A w \in Ladder!ToSet(Ladder!Session.rows) : \E a \in answers : a.word = w /\ a.key = Ladder!Session.keys[w]
                        /\ stored.count >= Len(Ladder!Session.rows)
    BY DEF FinishedIsSettled, Ladder!FinishedIsSettled
  <2>2. /\ Ladder!Session.visits = stored.session.visits /\ Ladder!Session.pos = stored.session.pos
        /\ Ladder!Session.rows = stored.session.rows
        /\ \A w \in Ladder!ToSet(Ladder!Session.rows) : Ladder!Session.keys[w] = stored.keys[w]
    BY <2>1 DEF LadderInv, SessionInv, PageIsCached
  <2>3. /\ Ladder!Session.visits \in Seq(Ladder!Visit) /\ Ladder!Session.pos \in Nat /\ Len(Ladder!Session.visits) \in Nat
        /\ DOMAIN Ladder!Session.visits = 1 .. Len(Ladder!Session.visits)
    BY <2>1, SessionTypes DEF LadderInv
  <2>4. Ladder!Session.pos > Len(Ladder!Session.visits)
    BY <2>1 DEF Ladder!Finished
  <2>5. /\ Sound(stored.session) /\ Rated(stored.session) /\ stored.count >= Len(stored.session.rows)
    BY <2>1 DEF LadderInv, SessionInv
  <2>6. \A i \in 1 .. Len(Ladder!Session.visits) : Ladder!Session.visits[i].word \in Ladder!ToSet(Ladder!Session.rows)
    <3>1. ASSUME NEW i \in 1 .. Len(Ladder!Session.visits)
          PROVE  Ladder!Session.visits[i].word \in Ladder!ToSet(Ladder!Session.rows)
      <4>1. PICK j \in 1 .. Len(Ladder!Session.visits) : Ladder!Session.visits[j] = [word |-> Ladder!Session.visits[i].word, stage |-> "dictation"]
        BY <2>2, <2>5 DEF Sound
      <4>2. Ladder!Session.visits[j].word = Ladder!Session.visits[i].word /\ Ladder!Session.visits[j].stage = "dictation"
        BY <4>1
      <4>3. j < Ladder!Session.pos
        BY <2>3, <2>4
      <4> QED
        BY <2>2, <2>5, <4>2, <4>3 DEF Sound
    <3> QED
      BY <3>1
  <2>7. \A w \in Ladder!ToSet(Ladder!Session.rows) : \E i \in 1 .. Len(Ladder!Session.visits) : Ladder!Session.visits[i].word = w
    BY <2>2, <2>5 DEF Sound
  <2>8. Ladder!ToSet(Ladder!Session.rows) = {v.word : v \in Ladder!ToSet(Ladder!Session.visits)}
    <3>1. Ladder!ToSet(Ladder!Session.visits) = {Ladder!Session.visits[i] : i \in 1 .. Len(Ladder!Session.visits)}
      BY <2>3 DEF Ladder!ToSet
    <3>2. \A w : w \in {v.word : v \in Ladder!ToSet(Ladder!Session.visits)} <=> \E i \in 1 .. Len(Ladder!Session.visits) : Ladder!Session.visits[i].word = w
      BY <3>1
    <3> QED
      BY <2>6, <2>7, <3>2
  <2> QED
    BY <2>2, <2>5, <2>8 DEF Sound, Rated
<1> QED
  BY <1>1, LadderInvariant, PTL

-----------------------------------------------------------------------------
(* The page of topics                                                       *)

Reading == {"more", "seek"}
BoardBound == Cardinality(BoardTopics) + MaxWrites

BoardCursor == [venue : Venues \cup {NoVenue}, at : Nat]
BoardRead == [kind : {"load", "more", "seek", "closed"}, venue : Venues \cup {NoVenue}, cursor : BoardCursor,
              topic : BoardTopics \cup {NoTopic}, step : {"sent", "answered", "failed", "outdated", "closed"},
              page : [BoardTopics -> Nat], next : BoardCursor]
BoardView == [venue : Venues \cup {NoVenue}, shown : [BoardTopics -> Nat], cursor : BoardCursor,
              state : {"idle", "loading", "ready", "error"}, conflict : BoardTopics \cup {NoTopic},
              pending : BoardTopics \cup {NoTopic}]
BoardWrite == [step : {"none", "seek", "sent", "ok", "refused"}, topic : BoardTopics \cup {NoTopic},
               version : Nat, read : Nat]

StoreType == store \in [BoardTopics -> [version : Nat, at : Nat]]
CreatesType == creates \in [BoardTopics -> [step : {"unused", "sent", "made", "failed", "done"}, version : Nat]]
ReadsType == \E n \in 0 .. MaxReads : reads \in [1 .. n -> BoardRead]
BoardTypes == StoreType /\ CreatesType /\ ReadsType /\ view \in BoardView /\ write \in BoardWrite

(* A write names a topic, and unless it still looks for it, a version that  *)
(* is not above the one stored.                                            *)
WriteSound ==
  /\ write.step # "none" => write.topic \in BoardTopics
  /\ write.step \in {"sent", "ok", "refused"} => write.version > 0
  /\ write.step # "seek" => write.read = 0
  /\ write.step = "ok" => write.version <= store[write.topic].version

(* Moments are counted by writes, of which a version is one.                *)
MomentsInReach == \A t \in BoardTopics : store[t].version <= store[t].at /\ store[t].at <= BoardBound

(* What is shown or was created is stored, and a cursor is a moment that has *)
(* passed.                                                                  *)
Past(k) == BoardTopics # {} => k.at < Board!Now
ShownIsStored ==
  /\ \A t \in BoardTopics : view.shown[t] <= store[t].version /\ creates[t].version <= store[t].version
  /\ Past(view.cursor)

(* So is what was read; a read that counts is of the venue the page is on,  *)
(* and one that goes on has a cursor.                                       *)
Counts(r) == r.kind # "closed" /\ r.step # "outdated"
ReadSound(r) ==
  /\ \A t \in BoardTopics : r.page[t] <= store[t].version
  /\ Counts(r) => r.venue = view.venue
  /\ \A t \in BoardTopics : r.page[t] > 0 => Counts(r) /\ BoardVenueOf[t] = r.venue
  /\ Past(r.cursor) /\ Past(r.next)
  /\ r.kind \in Reading /\ r.step = "sent" => r.cursor # Board!NoCursor
  /\ r.kind = "seek" => r.topic \in BoardTopics
  /\ r.kind = "closed" => r.step = "closed"
ReadsSound == \A i \in DOMAIN reads : ReadSound(reads[i])

Awaited(r) == r.kind = "load" /\ Counts(r)
OneLoadCounts == \A i, j \in DOMAIN reads : Awaited(reads[i]) /\ Awaited(reads[j]) => i = j

(* A load that was answered has nothing older than what is shown, what was  *)
(* read by those that go on, and what they will read: behind a cursor       *)
(* nothing has changed.                                                    *)
Outlives(p, q) == \A t \in BoardTopics : p[t] > 0 => p[t] >= q[t]
Reaches(p, k) == \A t \in BoardTopics : p[t] > 0 /\ store[t].at < k.at => p[t] >= store[t].version
Newest(p) ==
  /\ Outlives(p, view.shown) /\ Reaches(p, view.cursor)
  /\ \A j \in DOMAIN reads : reads[j].kind \in Reading =>
       Outlives(p, reads[j].page) /\ Reaches(p, reads[j].cursor) /\ Reaches(p, reads[j].next)
LoadIsNewest == \A i \in DOMAIN reads : Awaited(reads[i]) => Newest(reads[i].page)

BoardInv ==
  /\ BoardTypes /\ WriteSound /\ MomentsInReach /\ ShownIsStored /\ ReadsSound
  /\ OneLoadCounts /\ LoadIsNewest /\ Board!LoadingIsOwed

-----------------------------------------------------------------------------

(* Finite sets of moments have a first and a last.                          *)
LEMMA Extremes ==
  ASSUME NEW S \in SUBSET Nat, IsFiniteSet(S), S # {}
  PROVE  /\ \E n \in S : \A x \in S : x <= n
         /\ \E n \in S : \A x \in S : n <= x
<1>1. \E n \in S : \A x \in S : n <= x
  <2>1. PICK n \in S : \A x \in S : ~(<<x, n>> \in OpToRel(<, Nat))
    BY NatLessThanWellFounded, WFMin
  <2>2. \A x \in S : ~(x < n)
    BY <2>1 DEF OpToRel
  <2> QED
    BY <2>2
<1>2. \E n \in S : \A x \in S : x <= n
  <2> DEFINE above(x) == {y \in S : x < y}
             T == {above(x) : x \in S}
  <2>1. FiniteSubsetsOf(S) = SUBSET S
    BY FS_FiniteSubsetsOfFinite
  <2>2. IsWellFoundedOn(StrictSubsetOrdering(S), SUBSET S)
    BY <2>1, FS_StrictSubsetOrderingWellFounded
  <2>3. T \subseteq SUBSET S /\ T # {}
    OBVIOUS
  <2>4. PICK u \in T : \A v \in T : ~(<<v, u>> \in StrictSubsetOrdering(S))
    <3> HIDE DEF T
    <3> QED
      BY <2>2, <2>3, WFMin
  <2>5. PICK n \in S : u = above(n)
    OBVIOUS
  <2>6. ASSUME NEW x \in S, n < x PROVE FALSE
    <3>1. x \in u /\ x \notin above(x)
      BY <2>5, <2>6
    <3>2. \A y \in above(x) : n < y
      BY <2>6
    <3>2a. above(x) \subseteq u
      BY <2>5, <3>2
    <3>3. above(x) \in T /\ above(x) \in SUBSET S /\ u \in SUBSET S
      BY <2>3
    <3> HIDE DEF above, T
    <3>4. <<above(x), u>> \in StrictSubsetOrdering(S)
      BY <3>1, <3>2a, <3>3 DEF StrictSubsetOrdering
    <3> QED
      BY <2>4, <3>3, <3>4
  <2>7. \A x \in S : x <= n
    BY <2>6
  <2> QED
    BY <2>7
<1> QED
  BY <1>1, <1>2

LEMMA BoardCardinality == \A S : Board!Cardinality(S) = Cardinality(S)
  BY DEF Board!Cardinality, Cardinality

(* The moments at which some topics were written last.                      *)
LEMMA MomentsOf ==
  ASSUME StoreType, NEW ts \in SUBSET BoardTopics, ts # {}
  PROVE  LET S == {store[t].at : t \in ts} IN
           /\ S \in SUBSET Nat /\ IsFiniteSet(S) /\ S # {}
           /\ Board!Max(S) \in S /\ \A x \in S : x <= Board!Max(S)
           /\ Board!Min(S) \in S /\ \A x \in S : Board!Min(S) <= x
<1> DEFINE S == {store[t].at : t \in ts}
<1>1. S \in SUBSET Nat /\ S # {}
  BY DEF StoreType
<1>2. IsFiniteSet(S)
  <2> DEFINE f == [t \in ts |-> store[t].at]
  <2>1. IsFiniteSet(ts)
    BY BoardAssumption, FS_Subset
  <2>2. f \in Surjection(ts, S)
    BY DEF Surjection
  <2> HIDE DEF f, S
  <2> QED
    BY <2>1, <2>2, FS_Surjection
<1> HIDE DEF S
<1>3. /\ \E n \in S : \A x \in S : n >= x
      /\ \E n \in S : \A x \in S : n <= x
  BY <1>1, <1>2, Extremes
<1>4. Board!Max(S) \in S /\ \A x \in S : Board!Max(S) >= x
  BY <1>3 DEF Board!Max
<1>5. Board!Min(S) \in S /\ \A x \in S : Board!Min(S) <= x
  BY <1>3 DEF Board!Min
<1>6. \A x \in S : x <= Board!Max(S)
  BY <1>1, <1>4
<1> QED
  BY <1>1, <1>2, <1>4, <1>5, <1>6 DEF S

NowIsNext ==
  StoreType /\ BoardTopics # {} =>
    /\ Board!Now \in Nat /\ \A t \in BoardTopics : store[t].at < Board!Now
    /\ \E t \in BoardTopics : Board!Now = store[t].at + 1

LEMMA NowIs == NowIsNext
<1> SUFFICES ASSUME StoreType, BoardTopics # {}
             PROVE  /\ Board!Now \in Nat /\ \A t \in BoardTopics : store[t].at < Board!Now
                    /\ \E t \in BoardTopics : Board!Now = store[t].at + 1
  BY DEF NowIsNext
<1> DEFINE S == {store[t].at : t \in BoardTopics}
<1>1. S \in SUBSET Nat /\ Board!Max(S) \in S /\ \A x \in S : x <= Board!Max(S)
  BY MomentsOf
<1>2. Board!Now = Board!Max(S) + 1
  BY DEF Board!Now
<1>3. PICK m : m = Board!Max(S)
  OBVIOUS
<1>4. m \in Nat /\ \A t \in BoardTopics : store[t].at <= m /\ store[t].at \in Nat
  BY <1>1, <1>3
<1>5. \E t \in BoardTopics : m = store[t].at
  BY <1>1, <1>3
<1> HIDE DEF S
<1> QED
  BY <1>2, <1>3, <1>4, <1>5

(* A write is the newest moment there is.                                   *)
LEMMA BumpIs ==
  ASSUME StoreType, MomentsInReach, NEW t \in BoardTopics, Board!Written, Board!Bump(t)
  PROVE  /\ StoreType' /\ MomentsInReach'
         /\ Board!Now \in Nat /\ \A u \in BoardTopics : store[u].at < Board!Now
         /\ Board!Now' \in Nat /\ Board!Now < Board!Now'
         /\ store'[t].version = store[t].version + 1 /\ store'[t].at = Board!Now
         /\ \A u \in BoardTopics \ {t} : store'[u] = store[u]
<1>1. Board!Now \in Nat /\ \A u \in BoardTopics : store[u].at < Board!Now
  BY NowIs DEF NowIsNext
<1>2. store' = [store EXCEPT ![t] = [version |-> store[t].version + 1, at |-> Board!Now]]
  BY DEF Board!Bump, StoreType
<1>3. StoreType'
  BY <1>1, <1>2 DEF StoreType
<1>4. /\ store'[t].version = store[t].version + 1 /\ store'[t].at = Board!Now
      /\ \A u \in BoardTopics \ {t} : store'[u] = store[u]
  BY <1>2 DEF StoreType
<1>5. Board!Now' \in Nat /\ store'[t].at < Board!Now'
  <2>1. NowIsNext'
    BY NowIs, PTL
  <2> QED
    BY <1>3, <2>1 DEF NowIsNext
<1>6. Board!Now < Board!Now'
  BY <1>4, <1>5
<1>7. Board!Now <= BoardBound
  <2>1. Board!AtFirst \subseteq BoardTopics
    BY DEF Board!AtFirst
  <2>2. Cardinality(Board!AtFirst) <= Cardinality(BoardTopics) /\ Cardinality(Board!AtFirst) \in Nat
        /\ Cardinality(BoardTopics) \in Nat
    BY <2>1, BoardAssumption, FS_Subset, FS_CardinalityType
  <2>3. Board!Now <= Cardinality(Board!AtFirst) + MaxWrites
    BY BoardCardinality DEF Board!Written
  <2> QED
    BY <1>1, <2>2, <2>3, BoardAssumption DEF BoardBound
<1>8. ASSUME NEW u \in BoardTopics PROVE store'[u].version <= store'[u].at /\ store'[u].at <= BoardBound
  <2>1. store[u].version <= store[u].at /\ store[u].at < Board!Now /\ store[u].version \in Nat /\ store[u].at \in Nat
    BY <1>1 DEF MomentsInReach, StoreType
  <2>2. CASE u = t
    BY <1>1, <1>4, <1>7, <2>1, <2>2
  <2>3. CASE u # t
    BY <1>4, <2>1, <2>3 DEF MomentsInReach
  <2> QED
    BY <2>2, <2>3
<1> QED
  BY <1>1, <1>3, <1>4, <1>5, <1>6, <1>8 DEF MomentsInReach

-----------------------------------------------------------------------------
(* Reads that were sent, given up or closed.                                *)

Void(r) == /\ ~Counts(r) /\ r.page = Board!NoPage /\ r.cursor = Board!NoCursor /\ r.next = Board!NoCursor
           /\ r.kind = "seek" => r.topic \in BoardTopics
           /\ r.kind = "closed" => r.step = "closed"

LEMMA BlankRead ==
  /\ Board!NoCursor \in BoardCursor /\ Board!NoCursor.at = 0
  /\ Board!NoPage \in [BoardTopics -> Nat] /\ \A t \in BoardTopics : Board!NoPage[t] = 0
  BY DEF Board!NoCursor, Board!NoPage, BoardCursor

LEMMA ReadIs ==
  ASSUME NEW kind \in {"load", "more", "seek", "closed"}, NEW v \in Venues \cup {NoVenue}, NEW k \in BoardCursor,
         NEW t \in BoardTopics \cup {NoTopic}
  PROVE  LET r == Board!Read(kind, v, k, t) IN
           /\ r \in BoardRead /\ r.kind = kind /\ r.venue = v /\ r.cursor = k /\ r.topic = t /\ r.step = "sent"
           /\ r.page = Board!NoPage /\ r.next = Board!NoCursor
  BY BlankRead DEF Board!Read, BoardRead

(* Reads given up keep their kind; they count no more.                      *)
LEMMA OutdatedIs ==
  ASSUME NEW n \in Nat, NEW rs \in [1 .. n -> BoardRead], NEW kinds \in SUBSET {"load", "more", "seek"},
         \A i \in 1 .. n : rs[i].kind = "seek" => rs[i].topic \in BoardTopics
  PROVE  /\ Board!Outdated(rs, kinds) \in [1 .. n -> BoardRead]
         /\ \A i \in 1 .. n : /\ Board!Outdated(rs, kinds)[i].kind = rs[i].kind
                              /\ rs[i].kind \in kinds => Void(Board!Outdated(rs, kinds)[i])
                              /\ rs[i].kind \notin kinds => Board!Outdated(rs, kinds)[i] = rs[i]
<1> DEFINE old(i) == [Board!Read(rs[i].kind, NoVenue, Board!NoCursor, rs[i].topic) EXCEPT !.step = "outdated"]
<1>1. ASSUME NEW i \in 1 .. n
      PROVE  old(i) \in BoardRead /\ old(i).kind = rs[i].kind /\ (rs[i].kind # "closed" => Void(old(i)))
  <2>1. rs[i].kind \in {"load", "more", "seek", "closed"} /\ rs[i].topic \in BoardTopics \cup {NoTopic}
    BY DEF BoardRead
  <2>2. PICK r : r = Board!Read(rs[i].kind, NoVenue, Board!NoCursor, rs[i].topic)
    OBVIOUS
  <2>3. /\ r \in BoardRead /\ r.kind = rs[i].kind /\ r.cursor = Board!NoCursor /\ r.topic = rs[i].topic
        /\ r.page = Board!NoPage /\ r.next = Board!NoCursor
    BY <2>1, <2>2, BlankRead, ReadIs
  <2>4. old(i) = [r EXCEPT !.step = "outdated"]
    BY <2>2
  <2>5. PICK q : q = [r EXCEPT !.step = "outdated"]
    OBVIOUS
  <2>6. /\ q \in BoardRead /\ q.kind = r.kind /\ q.cursor = r.cursor /\ q.topic = r.topic
        /\ q.page = r.page /\ q.next = r.next /\ q.step = "outdated"
    BY <2>3, <2>5 DEF BoardRead
  <2>7. rs[i].kind # "closed" => Void(q)
    BY <2>3, <2>6 DEF Void, Counts
  <2> HIDE DEF old
  <2> QED
    BY <2>3, <2>4, <2>5, <2>6, <2>7
<1>2. Board!Outdated(rs, kinds) = [i \in 1 .. n |-> IF rs[i].kind \in kinds THEN old(i) ELSE rs[i]]
  BY DEF Board!Outdated
<1> HIDE DEF old
<1> QED
  BY <1>1, <1>2

LEMMA SentIs ==
  ASSUME NEW n \in Nat, NEW rs \in [1 .. n -> BoardRead], NEW r \in BoardRead
  PROVE  /\ Board!Sent(rs, r) \in [1 .. n + 1 -> BoardRead] /\ Board!Sent(rs, r)[n + 1] = r
         /\ \A i \in 1 .. n : Board!Sent(rs, r)[i] = rs[i]
<1>1. DOMAIN rs = 1 .. n
  OBVIOUS
<1>2. Board!Cardinality(1 .. n) = n
  BY BoardCardinality, FS_Interval
<1>3. Board!Sent(rs, r) = [i \in 1 .. n + 1 |-> IF i \in 1 .. n THEN rs[i] ELSE r]
  BY <1>1, <1>2 DEF Board!Sent
<1> QED
  BY <1>3

(* There is room for one read more.                                        *)
LEMMA SendIs ==
  ASSUME ReadsType
  PROVE  \E n \in 0 .. MaxReads : reads \in [1 .. n -> BoardRead] /\ Board!Cardinality(Board!Ids) = n
<1>1. PICK n \in 0 .. MaxReads : reads \in [1 .. n -> BoardRead]
  BY DEF ReadsType
<1>2. Board!Cardinality(1 .. n) = n
  BY BoardCardinality, FS_Interval, BoardAssumption
<1>3. Board!Ids = 1 .. n
  BY <1>1 DEF Board!Ids
<1> QED
  BY <1>1, <1>2, <1>3

LEMMA CloseIs ==
  ASSUME ReadsType, NEW i \in DOMAIN reads
  PROVE  LET rs == Board!Close(reads, i) IN
           /\ \E n \in 0 .. MaxReads : rs \in [1 .. n -> BoardRead]
           /\ DOMAIN rs = DOMAIN reads /\ Void(rs[i]) /\ rs[i].kind = "closed"
           /\ \A j \in DOMAIN reads \ {i} : rs[j] = reads[j]
<1>1. PICK n \in 0 .. MaxReads : reads \in [1 .. n -> BoardRead]
  BY DEF ReadsType
<1>2. PICK r : r = Board!Read("closed", NoVenue, Board!NoCursor, NoTopic)
  OBVIOUS
<1>3. /\ r \in BoardRead /\ r.kind = "closed" /\ r.cursor = Board!NoCursor
      /\ r.page = Board!NoPage /\ r.next = Board!NoCursor
  <2>1. "closed" \in {"load", "more", "seek", "closed"} /\ NoVenue \in Venues \cup {NoVenue}
        /\ NoTopic \in BoardTopics \cup {NoTopic} /\ Board!NoCursor \in BoardCursor
    BY BlankRead
  <2> QED
    BY <1>2, <2>1, ReadIs
<1>4. PICK q : q = [r EXCEPT !.step = "closed"]
  OBVIOUS
<1>5. /\ q \in BoardRead /\ q.kind = "closed" /\ q.step = "closed" /\ q.cursor = r.cursor /\ q.page = r.page /\ q.next = r.next
  BY <1>3, <1>4 DEF BoardRead
<1>6. Void(q)
  BY <1>3, <1>5 DEF Void, Counts
<1>7. Board!Close(reads, i) = [reads EXCEPT ![i] = q]
  BY <1>2, <1>4 DEF Board!Close
<1> QED
  BY <1>1, <1>5, <1>6, <1>7

-----------------------------------------------------------------------------
(* What becomes of reads                                                    *)

Kept(i) == i \in DOMAIN reads /\ reads'[i] = reads[i]
Follows(r) ==
  /\ r \in BoardRead /\ r.kind \in Reading /\ r.step = "sent" /\ r.venue = view.venue
  /\ r.page = Board!NoPage /\ r.next = Board!NoCursor
  /\ r.cursor \in {view.cursor, view'.cursor} \ {Board!NoCursor}
  /\ r.kind = "seek" => r.topic \in BoardTopics

(* The state of reads and page, without writes.                             *)
PageInv ==
  /\ StoreType /\ ReadsType /\ view \in BoardView /\ MomentsInReach
  /\ \A t \in BoardTopics : view.shown[t] <= store[t].version
  /\ Past(view.cursor) /\ ReadsSound /\ OneLoadCounts /\ LoadIsNewest

LEMMA PageParts ==
  BoardInv <=> /\ PageInv /\ CreatesType /\ write \in BoardWrite /\ WriteSound /\ Board!LoadingIsOwed
               /\ \A t \in BoardTopics : creates[t].version <= store[t].version
  BY DEF BoardInv, PageInv, BoardTypes, ShownIsStored

LEMMA PastIs ==
  ASSUME UNCHANGED store, NEW k, Past(k)
  PROVE  Past(k)'
<1>1. Board!Now' = Board!Now
  BY DEF Board!Now
<1> QED
  BY <1>1 DEF Past

LEMMA StartIsPast ==
  ASSUME StoreType
  PROVE  Past(Board!NoCursor)
<1> SUFFICES ASSUME NEW t \in BoardTopics PROVE Board!NoCursor.at < Board!Now
  BY DEF Past
<1>1. Board!Now \in Nat /\ store[t].at < Board!Now /\ store[t].at \in Nat
  BY NowIs DEF NowIsNext, StoreType
<1> QED
  BY <1>1, BlankRead

LEMMA VoidIsSound ==
  ASSUME PageInv, UNCHANGED store, NEW r, Void(r)
  PROVE  ReadSound(r)'
<1>1. Past(Board!NoCursor)
  BY StartIsPast DEF PageInv
<1>2. Past(r.cursor)' /\ Past(r.next)'
  BY <1>1, PastIs DEF Void
<1>3. \A t \in BoardTopics : r.page[t] = 0 /\ store[t].version \in Nat
  BY BlankRead DEF Void, PageInv, StoreType
<1> QED
  BY <1>2, <1>3 DEF Void, ReadSound, Counts, Reading

LEMMA KeptIsSound ==
  ASSUME PageInv, UNCHANGED store, view'.venue = view.venue, NEW i, Kept(i)
  PROVE  ReadSound(reads[i])' /\ reads'[i] = reads[i] /\ ReadSound(reads[i])
<1>1. PICK r : r = reads[i]
  OBVIOUS
<1>2. ReadSound(r) /\ reads'[i] = r
  BY <1>1 DEF Kept, PageInv, ReadsSound
<1>3. Past(r.cursor)' /\ Past(r.next)'
  BY <1>2, PastIs DEF ReadSound
<1>4. ReadSound(r)'
  BY <1>2, <1>3 DEF ReadSound, Counts
<1> QED
  BY <1>1, <1>2, <1>4

LEMMA FollowsIsSound ==
  ASSUME PageInv, UNCHANGED store, view'.venue = view.venue, Past(view'.cursor), NEW r, Follows(r)
  PROVE  ReadSound(r)'
<1>1. Past(Board!NoCursor)
  BY StartIsPast DEF PageInv
<1>2. Past(r.cursor)' /\ Past(r.next)'
  <2>1. PICK k : k = r.cursor
    OBVIOUS
  <2>2. Past(k)
    BY <2>1 DEF Follows, PageInv
  <2>3. Past(k)'
    BY <2>2, PastIs
  <2> QED
    BY <1>1, <2>1, <2>3, PastIs DEF Follows
<1>3. \A t \in BoardTopics : r.page[t] = 0 /\ store[t].version \in Nat
  BY BlankRead DEF Follows, PageInv, StoreType
<1> QED
  BY <1>2, <1>3 DEF Follows, ReadSound, Reading

(* What a page shows and goes on from may be what a read has brought.       *)
Brings(t) == \E j \in DOMAIN reads : reads[j].kind \in Reading /\ view'.shown[t] = reads[j].page[t]
Continues == \E j \in DOMAIN reads : reads[j].kind \in Reading /\ view'.cursor = reads[j].next

LEMMA ReadsGoOn ==
  ASSUME PageInv, UNCHANGED store, ReadsType', view' \in BoardView, view'.venue = view.venue,
         \A t \in BoardTopics : view'.shown[t] = view.shown[t] \/ Brings(t),
         view'.cursor = view.cursor \/ Continues,
         \A i \in DOMAIN reads' : Kept(i) \/ Void(reads'[i]) \/ Follows(reads'[i])
  PROVE  PageInv'
<1>1. \A t \in BoardTopics : view'.shown[t] <= store'[t].version
  <2> SUFFICES ASSUME NEW t \in BoardTopics PROVE view'.shown[t] <= store[t].version
    OBVIOUS
  <2>1. CASE view'.shown[t] = view.shown[t]
    BY <2>1 DEF PageInv
  <2>2. CASE Brings(t)
    BY <2>2 DEF Brings, PageInv, ReadsSound, ReadSound
  <2> QED
    BY <2>1, <2>2
<1>2. Past(view'.cursor)
  <2>1. CASE view'.cursor = view.cursor
    BY <2>1 DEF PageInv
  <2>2. CASE Continues
    BY <2>2 DEF Continues, PageInv, ReadsSound, ReadSound
  <2> QED
    BY <2>1, <2>2
<1>3. ReadsSound'
  <2> SUFFICES ASSUME NEW i \in DOMAIN reads' PROVE ReadSound(reads[i])'
    BY DEF ReadsSound
  <2>1. PICK r : r = reads'[i]
    OBVIOUS
  <2>2. ReadSound(r)'
    <3>1. CASE Kept(i)
      BY <2>1, <3>1, KeptIsSound
    <3>2. CASE Void(r)
      BY <3>2, VoidIsSound
    <3>3. CASE Follows(r)
      BY <1>2, <3>3, FollowsIsSound
    <3> QED
      BY <2>1, <3>1, <3>2, <3>3
  <2> QED
    BY <2>1, <2>2
<1>4. Past(view.cursor)'
  BY <1>2, PastIs
<1>5. \A i \in DOMAIN reads' : Awaited(reads'[i]) => Kept(i)
  BY DEF Awaited, Void, Follows, Reading
<1>6. OneLoadCounts'
  BY <1>5 DEF OneLoadCounts, PageInv, Kept
<1>7. LoadIsNewest'
  <2> SUFFICES ASSUME NEW i \in DOMAIN reads', Awaited(reads'[i]) PROVE Newest(reads[i].page)'
    BY DEF LoadIsNewest
  <2>1. PICK p : p = reads[i].page
    OBVIOUS
  <2>2. reads'[i].page = p /\ i \in DOMAIN reads /\ Awaited(reads[i])
    BY <1>5, <2>1 DEF Kept
  <2>3. Newest(p)
    BY <2>1, <2>2 DEF PageInv, LoadIsNewest
  <2>4. p \in [BoardTopics -> Nat]
    BY <2>1, <2>2 DEF PageInv, ReadsType, BoardRead
  <2>5. Outlives(p, view'.shown)
    <3> SUFFICES ASSUME NEW t \in BoardTopics, p[t] > 0 PROVE p[t] >= view'.shown[t]
      BY DEF Outlives
    <3>1. CASE view'.shown[t] = view.shown[t]
      BY <2>3, <3>1 DEF Newest, Outlives
    <3>2. CASE Brings(t)
      BY <2>3, <3>2 DEF Newest, Outlives, Brings
    <3> QED
      BY <3>1, <3>2
  <2>6. Reaches(p, view'.cursor) /\ Reaches(p, view.cursor)
    BY <2>3 DEF Newest, Continues
  <2>7. ASSUME NEW j \in DOMAIN reads', reads'[j].kind \in Reading
        PROVE  Outlives(p, reads'[j].page) /\ Reaches(p, reads'[j].cursor) /\ Reaches(p, reads'[j].next)
    <3>1. CASE Kept(j)
      BY <2>3, <2>7, <3>1 DEF Newest, Kept
    <3>2. Outlives(p, Board!NoPage)
      BY <2>4, BlankRead DEF Outlives
    <3>3. Reaches(p, Board!NoCursor)
      BY BlankRead DEF Reaches, PageInv, StoreType
    <3>4. CASE Void(reads'[j])
      BY <3>2, <3>3, <3>4 DEF Void
    <3>5. CASE Follows(reads'[j])
      BY <2>6, <3>2, <3>3, <3>5 DEF Follows
    <3> QED
      BY <3>1, <3>4, <3>5
  <2>8. \A k : Reaches(p, k) => Reaches(p, k)'
    BY DEF Reaches
  <2>9. Newest(p)'
    BY <2>5, <2>6, <2>7, <2>8 DEF Newest, Outlives
  <2> QED
    BY <2>2, <2>9
<1> QED
  BY <1>1, <1>3, <1>4, <1>6, <1>7 DEF PageInv, StoreType, MomentsInReach

(* No load is awaited any more: the page may show whatever is stored.       *)
LEMMA NoLoadAwaited ==
  ASSUME PageInv, UNCHANGED store, ReadsType', view' \in BoardView, view'.venue = view.venue,
         \A t \in BoardTopics : view'.shown[t] <= store[t].version, Past(view'.cursor),
         \A i \in DOMAIN reads' : (Kept(i) /\ ~Awaited(reads[i])) \/ Void(reads'[i])
  PROVE  PageInv'
<1>1. ReadsSound'
  <2> SUFFICES ASSUME NEW i \in DOMAIN reads' PROVE ReadSound(reads[i])'
    BY DEF ReadsSound
  <2>1. PICK r : r = reads'[i]
    OBVIOUS
  <2>2. ReadSound(r)'
    <3>1. CASE Kept(i)
      BY <2>1, <3>1, KeptIsSound
    <3>2. CASE Void(r)
      BY <3>2, VoidIsSound
    <3> QED
      BY <2>1, <3>1, <3>2
  <2> QED
    BY <2>1, <2>2
<1>2. Past(view.cursor)'
  BY PastIs
<1>3. \A i \in DOMAIN reads' : ~Awaited(reads'[i])
  BY DEF Awaited, Void, Kept
<1>4. OneLoadCounts' /\ LoadIsNewest'
  BY <1>3 DEF OneLoadCounts, LoadIsNewest
<1> QED
  BY <1>1, <1>2, <1>4 DEF PageInv, StoreType, MomentsInReach

SeekersTopics(n, rs) == \A i \in 1 .. n : rs[i].kind = "seek" => rs[i].topic \in BoardTopics
LEMMA SeekersHaveTopics ==
  ASSUME PageInv, NEW n \in Nat, reads \in [1 .. n -> BoardRead]
  PROVE  SeekersTopics(n, reads)
  BY DEF PageInv, ReadsSound, ReadSound, SeekersTopics

(* A load takes the place of all that was asked for before.                 *)
LEMMA LoadPreserves ==
  ASSUME PageInv, NEW v \in Venues, Board!Load(v)
  PROVE  PageInv' /\ Board!LoadingIsOwed'
<1>1. PICK n \in 0 .. MaxReads : reads \in [1 .. n -> BoardRead] /\ Board!Cardinality(Board!Ids) = n
  BY SendIs DEF PageInv
<1>2. n + 1 \in 0 .. MaxReads /\ n \in Nat
  BY <1>1, BoardAssumption DEF Board!Load, Board!MaySend
<1>3. PICK old : old = Board!Outdated(reads, Board!Superseded)
  OBVIOUS
<1>4. /\ old \in [1 .. n -> BoardRead]
      /\ \A i \in 1 .. n : /\ old[i].kind = reads[i].kind
                           /\ Void(old[i]) \/ (old[i] = reads[i] /\ reads[i].kind = "closed")
  <2>1. SeekersTopics(n, reads)
    BY <1>1, <1>2, SeekersHaveTopics
  <2>2. Board!Superseded = {"load", "more", "seek"}
    BY DEF Board!Superseded
  <2>3. \A i \in 1 .. n : reads[i].kind \in {"load", "more", "seek", "closed"}
    BY <1>1 DEF BoardRead
  <2>4. /\ old \in [1 .. n -> BoardRead]
        /\ \A i \in 1 .. n : /\ old[i].kind = reads[i].kind
                             /\ reads[i].kind \in Board!Superseded => Void(old[i])
                             /\ reads[i].kind \notin Board!Superseded => old[i] = reads[i]
    BY <1>1, <1>2, <1>3, <2>1, <2>2, OutdatedIs DEF SeekersTopics
  <2> QED
    BY <2>2, <2>3, <2>4
<1>5. PICK r : r = Board!Read("load", v, Board!NoCursor, NoTopic)
  OBVIOUS
<1>6. /\ r \in BoardRead /\ r.kind = "load" /\ r.venue = v /\ r.cursor = Board!NoCursor /\ r.step = "sent"
      /\ r.page = Board!NoPage /\ r.next = Board!NoCursor
  <2>1. /\ v \in Venues \cup {NoVenue} /\ NoTopic \in BoardTopics \cup {NoTopic} /\ Board!NoCursor \in BoardCursor
        /\ "load" \in {"load", "more", "seek", "closed"}
    BY BlankRead
  <2> QED
    BY <1>5, <2>1, ReadIs
<1>7. /\ reads' \in [1 .. n + 1 -> BoardRead] /\ reads'[n + 1] = r
      /\ \A i \in 1 .. n : reads'[i] = old[i]
  <2>1. reads' = Board!Sent(old, r)
    BY <1>3, <1>5 DEF Board!Load
  <2> QED
    BY <1>2, <1>4, <1>6, <2>1, SentIs
<1>8. DOMAIN reads' = 1 .. n + 1 /\ \A i \in DOMAIN reads' : i = n + 1 \/ i \in 1 .. n
  BY <1>2, <1>7
<1>9. UNCHANGED store /\ view' = [view EXCEPT !.venue = v, !.state = "loading"]
  BY DEF Board!Load
<1>10. view' \in BoardView /\ view'.shown = view.shown /\ view'.cursor = view.cursor /\ view'.venue = v
  BY <1>9 DEF PageInv, BoardView
<1>11. ReadsType'
  BY <1>2, <1>7 DEF ReadsType
<1>12. ReadSound(r)'
  <2>1. Past(Board!NoCursor)
    BY StartIsPast DEF PageInv
  <2>2. Past(Board!NoCursor)'
    BY <1>9, <2>1, PastIs
  <2>3. \A t \in BoardTopics : r.page[t] = 0 /\ store'[t].version \in Nat
    BY <1>6, <1>9, BlankRead DEF PageInv, StoreType
  <2> QED
    BY <1>6, <1>10, <2>2, <2>3 DEF ReadSound, Reading
<1>13. ASSUME NEW i \in 1 .. n PROVE ReadSound(reads[i])' /\ ~Awaited(reads'[i])
  <2>1. PICK q : q = reads'[i]
    OBVIOUS
  <2>2. Void(q) \/ (q = reads[i] /\ reads[i].kind = "closed")
    BY <1>4, <1>7, <2>1
  <2>3. ReadSound(q)' /\ ~Awaited(q)
    <3>1. CASE Void(q)
      BY <1>9, <3>1, VoidIsSound DEF Void, Awaited
    <3>2. CASE q = reads[i] /\ reads[i].kind = "closed"
      <4>1. i \in DOMAIN reads
        BY <1>1
      <4>2. ReadSound(q)
        BY <3>2, <4>1 DEF PageInv, ReadsSound
      <4>3. Past(q.cursor)' /\ Past(q.next)'
        BY <1>9, <4>2, PastIs DEF ReadSound
      <4> QED
        BY <1>9, <3>2, <4>2, <4>3 DEF ReadSound, Counts, Awaited, Reading
    <3> QED
      BY <2>2, <3>1, <3>2
  <2> QED
    BY <2>1, <2>3
<1>14. ReadsSound'
  <2> SUFFICES ASSUME NEW i \in DOMAIN reads' PROVE ReadSound(reads[i])'
    BY DEF ReadsSound
  <2>1. CASE i = n + 1
    <3>1. PICK q : q = reads'[i]
      OBVIOUS
    <3>2. q = r
      BY <1>7, <2>1, <3>1
    <3> QED
      BY <1>12, <3>1, <3>2
  <2>2. CASE i \in 1 .. n
    BY <1>13, <2>2
  <2> QED
    BY <1>8, <2>1, <2>2
<1>15. OneLoadCounts'
  BY <1>8, <1>13 DEF OneLoadCounts
<1>16. LoadIsNewest'
  <2> SUFFICES ASSUME NEW i \in DOMAIN reads', Awaited(reads'[i]) PROVE Newest(reads[i].page)'
    BY DEF LoadIsNewest
  <2>1. reads'[i].page = Board!NoPage
    BY <1>6, <1>7, <1>8, <1>13
  <2>2. PICK p : p = reads'[i].page
    OBVIOUS
  <2>3. \A t \in BoardTopics : ~(p[t] > 0)
    BY <2>1, <2>2, BlankRead
  <2>4. Newest(p)'
    BY <2>3 DEF Newest, Outlives, Reaches
  <2> QED
    BY <2>2, <2>4
<1>17. Board!LoadingIsOwed'
  <2>1. n + 1 \in DOMAIN reads' /\ reads'[n + 1].kind = "load"
    BY <1>2, <1>6, <1>7, <1>8
  <2> QED
    BY <2>1 DEF Board!LoadingIsOwed, Board!Ids
<1>18. Past(view.cursor)'
  <2>1. PICK k : k = view.cursor
    OBVIOUS
  <2>2. Past(k)'
    BY <1>9, <2>1, PastIs DEF PageInv
  <2> QED
    BY <1>10, <2>1, <2>2
<1> QED
  BY <1>9, <1>10, <1>11, <1>14, <1>15, <1>16, <1>17, <1>18 DEF PageInv, StoreType, MomentsInReach

(* An answer brings something if there is anything to bring.                *)
LEMMA FirstIs ==
  ASSUME StoreType, NEW ts \in SUBSET BoardTopics
  PROVE  Board!FirstOf(ts) \subseteq ts /\ (ts # {} => Board!FirstOf(ts) # {})
<1>1. Board!FirstOf(ts) \subseteq ts
  BY DEF Board!FirstOf
<1>2. ASSUME ts # {} PROVE Board!FirstOf(ts) # {}
  <2> DEFINE S == {store[t].at : t \in ts}
  <2>1. S \in SUBSET Nat /\ Board!Max(S) \in S /\ \A x \in S : x <= Board!Max(S)
    BY <1>2, MomentsOf
  <2>2. PICK m : m = Board!Max(S)
    OBVIOUS
  <2>3. PICK t \in ts : m = store[t].at
    BY <2>1, <2>2
  <2>4. \A u \in ts : store[u].at <= store[t].at /\ store[u].at \in Nat
    BY <2>1, <2>2, <2>3
  <2>5. {u \in ts : store[u].at > store[t].at} = {}
    BY <2>4
  <2>6. Board!Cardinality({u \in ts : store[u].at > store[t].at}) = 0
    BY <2>5, BoardCardinality, FS_EmptySet
  <2>7. t \in Board!FirstOf(ts)
    BY <2>6, BoardAssumption DEF Board!FirstOf
  <2> QED
    BY <2>7
<1> QED
  BY <1>1, <1>2

(* What a read was answered: what is stored, in its venue, behind its cursor. *)
Truthful(r, p, k) ==
  /\ p \in [BoardTopics -> Nat] /\ k \in BoardCursor /\ Past(k)
  /\ \A t \in BoardTopics : p[t] = 0 \/ p[t] = store[t].version
  /\ \A t \in BoardTopics : p[t] > 0 => BoardVenueOf[t] = r.venue /\ (r.cursor = Board!NoCursor \/ store[t].at < r.cursor.at)
  /\ k # Board!NoCursor /\ r.cursor # Board!NoCursor => k.at <= r.cursor.at

LEMMA AnswerIs ==
  ASSUME PageInv, NEW i \in DOMAIN reads, Board!Answer(i)
  PROVE  LET r == reads[i] IN
           /\ r \in BoardRead /\ r.step = "sent" /\ UNCHANGED <<store, view, write, creates>>
           /\ \/ reads' = [reads EXCEPT ![i] = [r EXCEPT !.step = "failed"]]
              \/ \E p, k : /\ Truthful(r, p, k)
                           /\ reads' = [reads EXCEPT ![i] = [r EXCEPT !.step = "answered", !.page = p, !.next = k]]
<1> DEFINE r == reads[i]
           all == Board!After(r.venue, r.cursor)
           ts == Board!FirstOf(all)
           p == [t \in BoardTopics |-> IF t \in ts THEN store[t].version ELSE 0]
           S == {store[t].at : t \in ts}
           k == IF ts = all THEN Board!NoCursor ELSE [venue |-> r.venue, at |-> Board!Min(S)]
<1>1. r \in BoardRead /\ r.step = "sent" /\ UNCHANGED <<store, view, write, creates>>
  BY DEF PageInv, ReadsType, Board!Answer
<1>2. CASE reads' = [reads EXCEPT ![i].step = "failed"]
  BY <1>1, <1>2
<1>3. CASE reads' = [reads EXCEPT ![i].step = "answered", ![i].page = p, ![i].next = k]
  <2>1. reads' = [reads EXCEPT ![i] = [r EXCEPT !.step = "answered", !.page = p, !.next = k]]
    <3> HIDE DEF p, k
    <3> QED
      BY <1>3
  <2>2. all \subseteq BoardTopics /\ ts \subseteq all /\ (all # {} => ts # {})
    <3>1. all \in SUBSET BoardTopics
      BY DEF Board!After
    <3> HIDE DEF all
    <3> QED
      BY <3>1, FirstIs DEF PageInv
  <2>3. p \in [BoardTopics -> Nat] /\ \A t \in BoardTopics : p[t] = 0 \/ p[t] = store[t].version
    <3> HIDE DEF ts
    <3> QED
      BY DEF PageInv, StoreType
  <2>4. \A t \in ts : BoardVenueOf[t] = r.venue /\ (r.cursor = Board!NoCursor \/ store[t].at < r.cursor.at)
    BY <2>2 DEF Board!After
  <2>5. \A t \in BoardTopics : p[t] > 0 => t \in ts
    OBVIOUS
  <2>6. k \in BoardCursor /\ Past(k) /\ (k # Board!NoCursor /\ r.cursor # Board!NoCursor => k.at <= r.cursor.at)
    <3>1. CASE ts = all
      <4>1. k = Board!NoCursor
        BY <3>1
      <4> HIDE DEF k
      <4> QED
        BY <4>1, BlankRead, StartIsPast DEF PageInv
    <3>2. CASE ts # all
      <4>1. ts \in SUBSET BoardTopics /\ ts # {}
        BY <2>2, <3>2
      <4>2. S \in SUBSET Nat /\ Board!Min(S) \in S
        <5> HIDE DEF ts
        <5> QED
          BY <4>1, MomentsOf DEF PageInv
      <4>3. PICK m : m = Board!Min(S)
        OBVIOUS
      <4>4. PICK t \in ts : m = store[t].at
        BY <4>2, <4>3
      <4>5. m \in Nat /\ Board!Now \in Nat /\ m < Board!Now
        BY <4>1, <4>2, <4>3, <4>4, NowIs DEF NowIsNext, PageInv
      <4>6. k = [venue |-> r.venue, at |-> m]
        BY <3>2, <4>3
      <4>7. r.cursor \in BoardCursor /\ r.venue \in Venues \cup {NoVenue}
        BY <1>1 DEF BoardRead
      <4>8. r.cursor = Board!NoCursor \/ m < r.cursor.at
        BY <2>4, <4>4
      <4>9. r.cursor.at \in Nat
        BY <4>7 DEF BoardCursor
      <4> HIDE DEF k, r
      <4>10. k \in BoardCursor /\ k.at = m
        BY <4>5, <4>6, <4>7 DEF BoardCursor
      <4> QED
        BY <4>5, <4>8, <4>9, <4>10 DEF Past
    <3> QED
      BY <3>1, <3>2
  <2>7. Truthful(r, p, k)
    <3> HIDE DEF p, k, ts, r
    <3> QED
      BY <2>3, <2>4, <2>5, <2>6 DEF Truthful
  <2> HIDE DEF p, k
  <2> QED
    BY <1>1, <2>1, <2>7
<1>4. reads' = [reads EXCEPT ![i].step = "failed"]
      \/ reads' = [reads EXCEPT ![i].step = "answered", ![i].page = p, ![i].next = k]
  BY DEF Board!Answer
<1> HIDE DEF p, k
<1> QED
  BY <1>2, <1>3, <1>4

LEMMA BoardAnswerPreserves ==
  ASSUME PageInv, NEW i \in DOMAIN reads, Board!Answer(i)
  PROVE  /\ PageInv' /\ UNCHANGED <<store, view, write, creates>>
         /\ DOMAIN reads' = DOMAIN reads /\ \A j \in DOMAIN reads : reads'[j].kind = reads[j].kind
<1>1. PICK r : r = reads[i]
  OBVIOUS
<1>2. r \in BoardRead /\ r.step = "sent" /\ UNCHANGED <<store, view, write, creates>> /\ ReadSound(r)
  BY <1>1, AnswerIs DEF PageInv, ReadsSound
<1>3. PICK n \in 0 .. MaxReads : reads \in [1 .. n -> BoardRead]
  BY DEF PageInv, ReadsType
<1>4. PICK q : /\ q \in BoardRead /\ q.kind = r.kind /\ q.venue = r.venue /\ q.cursor = r.cursor /\ q.topic = r.topic
               /\ reads' = [reads EXCEPT ![i] = q] /\ q.step \in {"answered", "failed"}
               /\ (q.page = r.page /\ q.next = r.next) \/ Truthful(r, q.page, q.next)
  <2>1. CASE reads' = [reads EXCEPT ![i] = [r EXCEPT !.step = "failed"]]
    <3>1. PICK q : q = [r EXCEPT !.step = "failed"]
      OBVIOUS
    <3>2. /\ q \in BoardRead /\ q.kind = r.kind /\ q.venue = r.venue /\ q.cursor = r.cursor /\ q.topic = r.topic
          /\ q.page = r.page /\ q.next = r.next /\ q.step = "failed"
      BY <1>2, <3>1 DEF BoardRead
    <3> QED
      BY <2>1, <3>1, <3>2
  <2>2. ASSUME NEW p, NEW k, Truthful(r, p, k),
               reads' = [reads EXCEPT ![i] = [r EXCEPT !.step = "answered", !.page = p, !.next = k]]
        PROVE  \E q : /\ q \in BoardRead /\ q.kind = r.kind /\ q.venue = r.venue /\ q.cursor = r.cursor
                      /\ q.topic = r.topic
                      /\ reads' = [reads EXCEPT ![i] = q] /\ q.step \in {"answered", "failed"}
                      /\ Truthful(r, q.page, q.next)
    <3>1. PICK q : q = [r EXCEPT !.step = "answered", !.page = p, !.next = k]
      OBVIOUS
    <3>2. p \in [BoardTopics -> Nat] /\ k \in BoardCursor
      BY <2>2 DEF Truthful
    <3>3. /\ q \in BoardRead /\ q.kind = r.kind /\ q.venue = r.venue /\ q.cursor = r.cursor /\ q.topic = r.topic
          /\ q.page = p /\ q.next = k /\ q.step = "answered"
      BY <1>2, <3>1, <3>2 DEF BoardRead
    <3> QED
      BY <2>2, <3>1, <3>3
  <2> QED
    BY <1>1, <2>1, <2>2, AnswerIs
<1>5. /\ DOMAIN reads' = DOMAIN reads /\ reads'[i] = q /\ reads' \in [1 .. n -> BoardRead]
      /\ \A j \in DOMAIN reads \ {i} : reads'[j] = reads[j]
  BY <1>3, <1>4
<1>6. \A j \in DOMAIN reads : reads'[j].kind = reads[j].kind /\ (Awaited(reads'[j]) <=> Awaited(reads[j]))
  BY <1>1, <1>2, <1>4, <1>5 DEF Awaited, Counts
<1>7. r.kind # "closed"
  BY <1>2 DEF ReadSound
<1>8. ReadSound(q)
  <2>1. CASE q.page = r.page /\ q.next = r.next
    BY <1>2, <1>4, <2>1 DEF ReadSound, Counts
  <2>2. CASE Truthful(r, q.page, q.next)
    <3>1. \A t \in BoardTopics : q.page[t] <= store[t].version
      BY <2>2 DEF Truthful, PageInv, StoreType
    <3>2. Counts(q) /\ Counts(r)
      BY <1>2, <1>4, <1>7 DEF Counts
    <3> QED
      BY <1>2, <1>4, <1>7, <2>2, <3>1, <3>2 DEF Truthful, ReadSound
  <2> QED
    BY <1>4, <2>1, <2>2
<1>9. ReadsSound'
  <2> SUFFICES ASSUME NEW j \in DOMAIN reads PROVE ReadSound(reads[j])'
    BY <1>5 DEF ReadsSound
  <2>1. PICK s : s = reads'[j]
    OBVIOUS
  <2>2. ReadSound(s)
    BY <1>5, <1>8, <2>1 DEF PageInv, ReadsSound
  <2>3. Past(s.cursor)' /\ Past(s.next)'
    BY <1>2, <2>2, PastIs DEF ReadSound
  <2>4. ReadSound(s)'
    BY <1>2, <2>2, <2>3 DEF ReadSound
  <2> QED
    BY <2>1, <2>4
<1>10. OneLoadCounts'
  BY <1>5, <1>6 DEF PageInv, OneLoadCounts
<1>11. ASSUME NEW j \in DOMAIN reads, Awaited(reads[j])
       PROVE  Newest(reads[j].page)'
  <2>1. PICK p : p = reads'[j].page
    OBVIOUS
  <2>2. PICK p0 : p0 = reads[j].page
    OBVIOUS
  <2>3. Newest(p0) /\ p0 \in [BoardTopics -> Nat]
    BY <1>3, <1>11, <2>2 DEF PageInv, LoadIsNewest, BoardRead
  <2>4. p = p0 \/ (j = i /\ Truthful(r, p, q.next))
    BY <1>1, <1>4, <1>5, <2>1, <2>2
  <2>5. ASSUME j = i, Truthful(r, p, q.next)
        PROVE  Newest(p)
    <3>1. \A t \in BoardTopics : p[t] > 0 => p[t] = store[t].version
      BY <2>5 DEF Truthful
    <3>2. Outlives(p, view.shown) /\ \A s \in DOMAIN reads : Outlives(p, reads[s].page)
      BY <3>1 DEF Outlives, PageInv, ReadsSound, ReadSound, StoreType, BoardView
    <3>3. \A k : Reaches(p, k)
      BY <3>1 DEF Reaches, PageInv, StoreType
    <3> QED
      BY <3>2, <3>3 DEF Newest
  <2>6. Newest(p)
    BY <2>3, <2>4, <2>5
  <2>7. ASSUME NEW s \in DOMAIN reads, reads'[s].kind \in Reading
        PROVE  Outlives(p, reads'[s].page) /\ Reaches(p, reads'[s].cursor) /\ Reaches(p, reads'[s].next)
    <3>1. CASE s # i
      BY <1>5, <2>6, <2>7, <3>1 DEF Newest
    <3>2. CASE s = i
      <4>1. q.kind \in Reading /\ reads'[s] = q /\ r.kind \in Reading
        BY <1>4, <1>5, <2>7, <3>2
      <4>2. Outlives(p, r.page) /\ Reaches(p, r.cursor) /\ Reaches(p, r.next) /\ r.cursor # Board!NoCursor
        BY <1>1, <1>2, <2>6, <3>2, <4>1 DEF Newest, ReadSound
      <4>3. CASE q.page = r.page /\ q.next = r.next
        BY <1>4, <4>1, <4>2, <4>3
      <4>4. CASE Truthful(r, q.page, q.next)
        <5>1. p = p0
          BY <1>1, <1>11, <2>4, <3>2, <4>1 DEF Awaited, Reading
        <5>2. Outlives(p, q.page)
          BY <2>3, <4>2, <4>4, <5>1 DEF Outlives, Truthful, Reaches
        <5>3. Reaches(p, q.next)
          <6>1. CASE q.next = Board!NoCursor
            BY <6>1, BlankRead DEF Reaches, PageInv, StoreType
          <6>2. CASE q.next # Board!NoCursor
            <7>1. q.next.at <= r.cursor.at /\ q.next.at \in Nat /\ r.cursor.at \in Nat
              BY <1>2, <4>2, <4>4, <6>2 DEF Truthful, BoardRead, BoardCursor
            <7> QED
              BY <4>2, <7>1 DEF Reaches, PageInv, StoreType
          <6> QED
            BY <6>1, <6>2
        <5> QED
          BY <1>4, <4>1, <4>2, <5>2, <5>3
      <4> QED
        BY <1>4, <4>3, <4>4
    <3> QED
      BY <3>1, <3>2
  <2>8. \A k : Reaches(p, k) => Reaches(p, k)'
    BY <1>2 DEF Reaches
  <2>9. Newest(p)'
    BY <1>2, <1>5, <2>6, <2>7, <2>8 DEF Newest, Outlives
  <2> QED
    BY <2>1, <2>9
<1>12. LoadIsNewest'
  BY <1>5, <1>6, <1>11 DEF LoadIsNewest
<1>13. Past(view.cursor)'
  BY <1>2, PastIs DEF PageInv
<1>14. ReadsType'
  BY <1>5 DEF ReadsType
<1> QED
  BY <1>2, <1>5, <1>6, <1>9, <1>10, <1>12, <1>13, <1>14 DEF PageInv, StoreType, MomentsInReach

LEMMA BumpPreserves ==
  ASSUME PageInv, NEW t \in BoardTopics, Board!Written, Board!Bump(t), UNCHANGED <<view, reads>>
  PROVE  /\ PageInv' /\ store'[t].version = store[t].version + 1
         /\ \A u \in BoardTopics : store[u].version <= store'[u].version
<1>1. /\ StoreType' /\ MomentsInReach'
      /\ Board!Now \in Nat /\ \A u \in BoardTopics : store[u].at < Board!Now
      /\ Board!Now' \in Nat /\ Board!Now < Board!Now'
      /\ store'[t].version = store[t].version + 1 /\ store'[t].at = Board!Now
      /\ \A u \in BoardTopics \ {t} : store'[u] = store[u]
  BY BumpIs DEF PageInv
<1>2. \A u \in BoardTopics : /\ store[u].version <= store'[u].version
                            /\ store[u].version \in Nat /\ store'[u].version \in Nat /\ store[u].at \in Nat
  BY <1>1 DEF PageInv, StoreType
<1>3. ASSUME NEW k \in BoardCursor, Past(k)
      PROVE  Past(k)' /\ \A p : Reaches(p, k) => Reaches(p, k)'
  <2>1. k.at < Board!Now /\ k.at \in Nat
    BY <1>3 DEF Past, BoardCursor
  <2>2. Past(k)'
    BY <1>1, <2>1 DEF Past
  <2>3. ASSUME NEW p, Reaches(p, k), NEW u \in BoardTopics, p[u] > 0, store'[u].at < k.at
        PROVE  p[u] >= store'[u].version
    <3>1. u # t
      BY <1>1, <2>1, <2>3
    <3> QED
      BY <1>1, <2>3, <3>1 DEF Reaches
  <2> QED
    BY <2>2, <2>3 DEF Reaches
<1>4. view.cursor \in BoardCursor /\ \A i \in DOMAIN reads : reads[i] \in BoardRead
  BY DEF PageInv, BoardView, ReadsType
<1>5. ASSUME NEW r \in BoardRead, ReadSound(r) PROVE ReadSound(r)'
  <2>1. r.cursor \in BoardCursor /\ r.next \in BoardCursor /\ r.page \in [BoardTopics -> Nat]
    BY DEF BoardRead
  <2>2. Past(r.cursor)' /\ Past(r.next)'
    BY <1>3, <1>5, <2>1 DEF ReadSound
  <2>3. \A u \in BoardTopics : r.page[u] <= store'[u].version
    BY <1>2, <1>5, <2>1 DEF ReadSound
  <2> QED
    BY <1>5, <2>2, <2>3 DEF ReadSound
<1>6. ReadsSound'
  BY <1>4, <1>5 DEF PageInv, ReadsSound
<1>7. OneLoadCounts'
  BY DEF PageInv, OneLoadCounts
<1>8. Past(view.cursor)'
  BY <1>3, <1>4 DEF PageInv
<1>9. ASSUME NEW p, Newest(p) PROVE Newest(p)'
  <2>1. Reaches(p, view.cursor)'
    BY <1>3, <1>4, <1>9 DEF PageInv, Newest
  <2>2. ASSUME NEW j \in DOMAIN reads, reads[j].kind \in Reading
        PROVE  Reaches(p, reads[j].cursor)' /\ Reaches(p, reads[j].next)'
    <3>1. PICK r : r = reads[j]
      OBVIOUS
    <3>2. r \in BoardRead /\ ReadSound(r) /\ Reaches(p, r.cursor) /\ Reaches(p, r.next)
      BY <1>4, <1>9, <2>2, <3>1 DEF PageInv, ReadsSound, Newest
    <3>3. r.cursor \in BoardCursor /\ r.next \in BoardCursor
      BY <3>2 DEF BoardRead
    <3>4. Reaches(p, r.cursor)' /\ Reaches(p, r.next)'
      BY <1>3, <3>2, <3>3 DEF ReadSound
    <3> QED
      BY <3>1, <3>4
  <2> QED
    BY <1>9, <2>1, <2>2 DEF Newest, Outlives
<1>10. LoadIsNewest'
  <2> SUFFICES ASSUME NEW i \in DOMAIN reads, Awaited(reads[i]) PROVE Newest(reads[i].page)'
    BY DEF LoadIsNewest, Awaited, Counts
  <2>1. PICK p : p = reads[i].page
    OBVIOUS
  <2>2. Newest(p)
    BY <2>1 DEF PageInv, LoadIsNewest
  <2>3. Newest(p)'
    BY <1>9, <2>2
  <2> QED
    BY <2>1, <2>3
<1>11. \A u \in BoardTopics : view'.shown[u] <= store'[u].version
  BY <1>2 DEF PageInv, BoardView
<1> QED
  BY <1>1, <1>2, <1>6, <1>7, <1>8, <1>10, <1>11 DEF PageInv, ReadsType

-----------------------------------------------------------------------------
(* The other steps of the page                                              *)

(* The types of what a page shows after a read.                             *)
LEMMA MergedIs ==
  ASSUME PageInv, NEW r \in BoardRead
  PROVE  LET v == Board!Merged(view, r) IN
           /\ v \in BoardView /\ v.venue = view.venue /\ v.cursor = r.next /\ v.state = view.state
           /\ \A t \in BoardTopics : v.shown[t] = IF view.shown[t] > 0 THEN view.shown[t] ELSE r.page[t]
<1> DEFINE shown == [t \in BoardTopics |-> IF view.shown[t] > 0 THEN view.shown[t] ELSE r.page[t]]
<1>1. shown \in [BoardTopics -> Nat] /\ r.next \in BoardCursor
  BY DEF PageInv, BoardView, BoardRead
<1>2. PICK s : s = shown
  OBVIOUS
<1>3. Board!Merged(view, r) = [view EXCEPT !.shown = s, !.cursor = r.next]
  BY <1>2 DEF Board!Merged
<1>4. s \in [BoardTopics -> Nat]
  BY <1>1, <1>2
<1>5. PICK v : v = [view EXCEPT !.shown = s, !.cursor = r.next]
  OBVIOUS
<1>6. v \in BoardView /\ v.venue = view.venue /\ v.cursor = r.next /\ v.state = view.state /\ v.shown = s
  BY <1>1, <1>4, <1>5 DEF PageInv, BoardView
<1> QED
  BY <1>2, <1>3, <1>5, <1>6

LEMMA ReplacedIs ==
  ASSUME PageInv, NEW r \in BoardRead
  PROVE  LET v == Board!Replaced(view, r) IN
           /\ v \in BoardView /\ v.venue = view.venue /\ v.cursor = r.next /\ v.state = "ready" /\ v.shown = r.page
<1>1. PICK c \in BoardTopics \cup {NoTopic} :
        Board!Replaced(view, r) = [view EXCEPT !.shown = r.page, !.cursor = r.next, !.state = "ready", !.conflict = c]
  <2>1. PICK c : c = IF view.conflict # NoTopic /\ r.page[view.conflict] > 0 THEN NoTopic ELSE view.conflict
    OBVIOUS
  <2>2. c \in BoardTopics \cup {NoTopic}
    BY <2>1 DEF PageInv, BoardView
  <2> QED
    BY <2>1, <2>2 DEF Board!Replaced
<1>2. r.page \in [BoardTopics -> Nat] /\ r.next \in BoardCursor
  BY DEF BoardRead
<1>3. PICK v : v = [view EXCEPT !.shown = r.page, !.cursor = r.next, !.state = "ready", !.conflict = c]
  OBVIOUS
<1>4. v \in BoardView /\ v.venue = view.venue /\ v.cursor = r.next /\ v.state = "ready" /\ v.shown = r.page
  BY <1>2, <1>3 DEF PageInv, BoardView
<1> QED
  BY <1>1, <1>3, <1>4

(* Reads take back nothing that is shown, and bring nothing of other venues. *)
ShownGrows == \A t \in BoardTopics : view'.shown[t] # 0 => view'.shown[t] >= view.shown[t]
NothingForeign == \A t \in BoardTopics : view.shown[t] = 0 /\ view'.shown[t] > 0 => BoardVenueOf[t] = view'.venue
ReadStep == PageInv' /\ Board!LoadingIsOwed' /\ ShownGrows /\ NothingForeign

LEMMA LoadsStay ==
  ASSUME Board!LoadingIsOwed, view'.state = view.state \/ view'.state # "loading",
         \A j \in DOMAIN reads : reads[j].kind = "load" => j \in DOMAIN reads' /\ reads'[j].kind = "load"
  PROVE  Board!LoadingIsOwed'
  BY DEF Board!LoadingIsOwed, Board!Ids

LEMMA SameShown ==
  ASSUME PageInv, view'.shown = view.shown
  PROVE  ShownGrows /\ NothingForeign
  BY DEF PageInv, BoardView, ShownGrows, NothingForeign

LEMMA Closing ==
  ASSUME PageInv, NEW i \in DOMAIN reads, reads' = Board!Close(reads, i)
  PROVE  /\ ReadsType' /\ \A j \in DOMAIN reads' : (Kept(j) /\ j # i) \/ Void(reads'[j])
         /\ \A j \in DOMAIN reads \ {i} : j \in DOMAIN reads' /\ reads'[j] = reads[j]
<1>1. ReadsType
  BY DEF PageInv
<1>2. /\ \E n \in 0 .. MaxReads : reads' \in [1 .. n -> BoardRead]
      /\ DOMAIN reads' = DOMAIN reads /\ Void(reads'[i]) /\ \A j \in DOMAIN reads \ {i} : reads'[j] = reads[j]
  BY <1>1, CloseIs
<1> QED
  BY <1>2 DEF ReadsType, Kept

(* What a search or a continuation brings.                                  *)
LEMMA MergingStep ==
  ASSUME PageInv, NEW i \in DOMAIN reads, reads[i].kind \in Reading, reads[i].step = "answered",
         view' = Board!Merged(view, reads[i])
  PROVE  /\ view' \in BoardView /\ view'.venue = view.venue /\ view'.state = view.state
         /\ \A t \in BoardTopics : view'.shown[t] = view.shown[t] \/ Brings(t)
         /\ Continues /\ view'.cursor = reads[i].next /\ ShownGrows /\ NothingForeign
<1>1. PICK r : r = reads[i]
  OBVIOUS
<1>2. r \in BoardRead /\ ReadSound(r)
  BY <1>1 DEF PageInv, ReadsType, ReadsSound
<1>3. /\ view' \in BoardView /\ view'.venue = view.venue /\ view'.cursor = r.next /\ view'.state = view.state
      /\ \A t \in BoardTopics : view'.shown[t] = IF view.shown[t] > 0 THEN view.shown[t] ELSE r.page[t]
  BY <1>1, <1>2, MergedIs
<1>4. \A t \in BoardTopics : view.shown[t] \in Nat /\ r.page[t] \in Nat
  BY <1>2 DEF PageInv, BoardView, BoardRead
<1>5. Counts(r)
  BY <1>1 DEF Counts, Reading
<1>6. \A t \in BoardTopics : view'.shown[t] = view.shown[t] \/ Brings(t)
  BY <1>1, <1>3 DEF Brings
<1>7. ShownGrows
  BY <1>3, <1>4 DEF ShownGrows
<1>8. NothingForeign
  BY <1>2, <1>3, <1>4, <1>5 DEF NothingForeign, ReadSound
<1> QED
  BY <1>1, <1>3, <1>6, <1>7, <1>8 DEF Continues

LEMMA ReceiveMorePreserves ==
  ASSUME PageInv, Board!LoadingIsOwed, NEW i \in DOMAIN reads, Board!ReceiveMore(i)
  PROVE  ReadStep
<1>1. reads[i].kind = "more" /\ reads[i].kind \in Reading /\ UNCHANGED store /\ reads' = Board!Close(reads, i)
  BY DEF Board!ReceiveMore, Reading
<1>2. /\ view' \in BoardView /\ view'.venue = view.venue /\ view'.state = view.state
      /\ \A t \in BoardTopics : view'.shown[t] = view.shown[t] \/ Brings(t)
      /\ view'.cursor = view.cursor \/ Continues
      /\ ShownGrows /\ NothingForeign
  <2>1. CASE reads[i].step = "answered"
    BY <1>1, <2>1, MergingStep DEF Board!ReceiveMore
  <2>2. CASE reads[i].step # "answered"
    <3>1. view' = view
      BY <2>2 DEF Board!ReceiveMore
    <3> QED
      BY <3>1, SameShown DEF PageInv
  <2> QED
    BY <2>1, <2>2
<1>3. PageInv'
  BY <1>1, <1>2, Closing, ReadsGoOn
<1>4. Board!LoadingIsOwed'
  BY <1>1, <1>2, Closing, LoadsStay
<1> QED
  BY <1>2, <1>3, <1>4 DEF ReadStep

LEMMA ReceiveLoadPreserves ==
  ASSUME PageInv, Board!LoadingIsOwed, NEW i \in DOMAIN reads, Board!ReceiveLoad(i)
  PROVE  ReadStep
<1>1. PICK r : r = reads[i]
  OBVIOUS
<1>2. r.kind = "load" /\ UNCHANGED store /\ reads' = Board!Close(reads, i) /\ r \in BoardRead /\ ReadSound(r)
  BY <1>1 DEF Board!ReceiveLoad, PageInv, ReadsType, ReadsSound
<1>3. CASE r.step \in {"outdated", "failed"}
  <2>1. PICK state \in {"idle", "loading", "ready", "error"} : view' = [view EXCEPT !.state = state]
    <3>1. view = [view EXCEPT !.state = view.state] /\ view.state \in {"idle", "loading", "ready", "error"}
      BY DEF PageInv, BoardView
    <3> QED
      BY <1>1, <1>3, <3>1 DEF Board!ReceiveLoad, Board!Settled
  <2>2. view' \in BoardView /\ view'.venue = view.venue /\ view'.shown = view.shown /\ view'.cursor = view.cursor
    BY <2>1 DEF PageInv, BoardView
  <2>3. PageInv'
    BY <1>2, <2>2, Closing, ReadsGoOn
  <2>4. Board!LoadingIsOwed'
    <3>1. CASE r.step = "failed"
      <4>1. view' = [view EXCEPT !.state = "error"]
        BY <1>1, <3>1 DEF Board!ReceiveLoad
      <4>2. view'.state = "error"
        BY <4>1 DEF PageInv, BoardView
      <4> QED
        BY <4>2 DEF Board!LoadingIsOwed
    <3>2. CASE r.step = "outdated"
      <4>1. view' = Board!Settled(view, reads')
        BY <1>1, <3>2 DEF Board!ReceiveLoad
      <4>2. CASE view.state = "loading" /\ \A j \in DOMAIN reads' : reads'[j].kind # "load"
        <5>1. view' = [view EXCEPT !.state = "ready"]
          BY <4>1, <4>2 DEF Board!Settled
        <5>2. view'.state = "ready"
          BY <5>1 DEF PageInv, BoardView
        <5> QED
          BY <5>2 DEF Board!LoadingIsOwed
      <4>3. CASE ~(view.state = "loading" /\ \A j \in DOMAIN reads' : reads'[j].kind # "load")
        BY <4>1, <4>3 DEF Board!LoadingIsOwed, Board!Settled, Board!Ids
      <4> QED
        BY <4>2, <4>3
    <3> QED
      BY <1>3, <3>1, <3>2
  <2> QED
    BY <2>2, <2>3, <2>4, SameShown DEF ReadStep
<1>4. CASE r.step = "answered"
  <2>1. view' = Board!Replaced(view, r)
    BY <1>1, <1>4 DEF Board!ReceiveLoad
  <2>2. /\ view' \in BoardView /\ view'.venue = view.venue /\ view'.cursor = r.next /\ view'.state = "ready"
        /\ view'.shown = r.page
    BY <1>2, <2>1, ReplacedIs
  <2>3. Awaited(r) /\ Counts(r)
    BY <1>2, <1>4 DEF Awaited, Counts
  <2>4. \A j \in DOMAIN reads \ {i} : ~Awaited(reads[j])
    BY <1>1, <2>3 DEF PageInv, OneLoadCounts
  <2>5. Past(view'.cursor) /\ \A t \in BoardTopics : view'.shown[t] <= store[t].version
    BY <1>2, <2>2 DEF ReadSound
  <2>6. PageInv'
    <3>1. ReadsType' /\ \A j \in DOMAIN reads' : (Kept(j) /\ j # i) \/ Void(reads'[j])
      BY <1>2, Closing
    <3>2. \A j \in DOMAIN reads' : (Kept(j) /\ ~Awaited(reads[j])) \/ Void(reads'[j])
      BY <2>4, <3>1 DEF Kept
    <3> QED
      BY <1>2, <2>2, <2>5, <3>1, <3>2, NoLoadAwaited
  <2>7. Board!LoadingIsOwed'
    BY <2>2 DEF Board!LoadingIsOwed
  <2>8. \A t \in BoardTopics : view.shown[t] \in Nat /\ r.page[t] \in Nat
    BY <1>2 DEF PageInv, BoardView, BoardRead
  <2>9. Newest(r.page)
    BY <1>1, <2>3 DEF PageInv, LoadIsNewest
  <2>10. ShownGrows
    BY <2>2, <2>8, <2>9 DEF ShownGrows, Newest, Outlives
  <2>11. NothingForeign
    BY <1>2, <2>2, <2>3, <2>8 DEF NothingForeign, ReadSound
  <2> QED
    BY <2>6, <2>7, <2>10, <2>11 DEF ReadStep
<1> QED
  BY <1>1, <1>3, <1>4 DEF Board!ReceiveLoad, Board!Settles

(* A read is added to what is left of the others.                           *)
LEMMA SendingPreserves ==
  ASSUME PageInv, Board!LoadingIsOwed, UNCHANGED <<store, view>>,
         NEW n \in 0 .. MaxReads, reads \in [1 .. n -> BoardRead], n < MaxReads,
         NEW rs \in [1 .. n -> BoardRead],
         \A i \in 1 .. n : rs[i].kind = reads[i].kind /\ (rs[i] = reads[i] \/ Void(rs[i])),
         NEW r, Follows(r), reads' = Board!Sent(rs, r)
  PROVE  ReadStep
<1>1. n \in Nat /\ n + 1 \in 0 .. MaxReads /\ r \in BoardRead
  BY BoardAssumption DEF Follows
<1>2. /\ reads' \in [1 .. n + 1 -> BoardRead] /\ reads'[n + 1] = r /\ \A i \in 1 .. n : reads'[i] = rs[i]
  <2>1. n \in Nat /\ rs \in [1 .. n -> BoardRead] /\ r \in BoardRead
    BY <1>1
  <2>2. /\ Board!Sent(rs, r) \in [1 .. n + 1 -> BoardRead] /\ Board!Sent(rs, r)[n + 1] = r
        /\ \A i \in 1 .. n : Board!Sent(rs, r)[i] = rs[i]
    BY ONLY <2>1, SentIs
  <2>3. PICK next : next = Board!Sent(rs, r)
    OBVIOUS
  <2>4. next \in [1 .. n + 1 -> BoardRead] /\ next[n + 1] = r /\ \A i \in 1 .. n : next[i] = rs[i]
    BY <2>2, <2>3
  <2>5. reads' = next
    BY <2>3
  <2> QED
    BY <2>4, <2>5
<1>3. ReadsType'
  BY <1>1, <1>2 DEF ReadsType
<1>4. \A i \in DOMAIN reads' : i = n + 1 \/ i \in 1 .. n
  BY <1>1, <1>2
<1>5. \A i \in DOMAIN reads' : Kept(i) \/ Void(reads'[i]) \/ Follows(reads'[i])
  <2> SUFFICES ASSUME NEW i \in DOMAIN reads' PROVE Kept(i) \/ Void(reads'[i]) \/ Follows(reads'[i])
    OBVIOUS
  <2>1. CASE i = n + 1
    BY <1>2, <2>1
  <2>2. CASE i \in 1 .. n
    BY <1>2, <2>2 DEF Kept
  <2> QED
    BY <1>4, <2>1, <2>2
<1>6. view' \in BoardView
  BY DEF PageInv
<1>7. PageInv'
  BY <1>3, <1>5, <1>6, ReadsGoOn
<1>8. Board!LoadingIsOwed'
  <2>1. \A j \in DOMAIN reads : reads[j].kind = "load" => j \in DOMAIN reads' /\ reads'[j].kind = "load"
    BY <1>1, <1>2
  <2> QED
    BY <2>1, LoadsStay
<1> QED
  BY <1>7, <1>8, SameShown DEF ReadStep

LEMMA FollowingRead ==
  ASSUME PageInv, NEW kind \in Reading, NEW t \in BoardTopics \cup {NoTopic}, kind = "seek" => t \in BoardTopics,
         NEW k \in BoardCursor, k # Board!NoCursor, k = view.cursor \/ k = view'.cursor
  PROVE  Follows(Board!Read(kind, view.venue, k, t))
<1>1. PICK r : r = Board!Read(kind, view.venue, k, t)
  OBVIOUS
<1>2. kind \in {"load", "more", "seek", "closed"} /\ view.venue \in Venues \cup {NoVenue}
  BY DEF Reading, PageInv, BoardView
<1>3. /\ r \in BoardRead /\ r.kind = kind /\ r.venue = view.venue /\ r.cursor = k /\ r.topic = t /\ r.step = "sent"
      /\ r.page = Board!NoPage /\ r.next = Board!NoCursor
  BY <1>1, <1>2, ReadIs
<1>4. Follows(r)
  BY <1>3 DEF Follows
<1> QED
  BY <1>1, <1>4

LEMMA LoadMorePreserves ==
  ASSUME PageInv, Board!LoadingIsOwed, Board!LoadMore
  PROVE  ReadStep
<1>1. PICK n \in 0 .. MaxReads : reads \in [1 .. n -> BoardRead] /\ Board!Cardinality(Board!Ids) = n
  BY SendIs DEF PageInv
<1>2. n < MaxReads /\ n \in Nat
  BY <1>1, BoardAssumption DEF Board!LoadMore, Board!MaySend
<1>3. PICK rs : rs = Board!Outdated(reads, {"more", "seek"})
  OBVIOUS
<1>4. /\ rs \in [1 .. n -> BoardRead]
      /\ \A i \in 1 .. n : rs[i].kind = reads[i].kind /\ (rs[i] = reads[i] \/ Void(rs[i]))
  <2>1. SeekersTopics(n, reads) /\ {"more", "seek"} \in SUBSET {"load", "more", "seek"}
    BY <1>1, <1>2, SeekersHaveTopics
  <2>2. /\ rs \in [1 .. n -> BoardRead]
        /\ \A i \in 1 .. n : /\ rs[i].kind = reads[i].kind
                             /\ reads[i].kind \in {"more", "seek"} => Void(rs[i])
                             /\ reads[i].kind \notin {"more", "seek"} => rs[i] = reads[i]
    BY <1>1, <1>2, <1>3, <2>1, OutdatedIs DEF SeekersTopics
  <2> QED
    BY <2>2
<1>5. PICK r : r = Board!Read("more", view.venue, view.cursor, NoTopic)
  OBVIOUS
<1>6. Follows(r)
  <2>1. "more" \in Reading /\ view.cursor \in BoardCursor /\ view.cursor # Board!NoCursor
        /\ NoTopic \in BoardTopics \cup {NoTopic}
    BY DEF Reading, PageInv, BoardView, Board!LoadMore
  <2> QED
    BY <1>5, <2>1, FollowingRead
<1>7. reads' = Board!Sent(rs, r) /\ UNCHANGED <<store, view>>
  BY <1>3, <1>5 DEF Board!LoadMore
<1> QED
  BY <1>1, <1>2, <1>4, <1>6, <1>7, SendingPreserves

LEMMA SeekPreserves ==
  ASSUME PageInv, Board!LoadingIsOwed, NEW t \in BoardTopics, Board!Seek(t), UNCHANGED <<store, view>>
  PROVE  ReadStep
<1>1. PICK n \in 0 .. MaxReads : reads \in [1 .. n -> BoardRead] /\ Board!Cardinality(Board!Ids) = n
  BY SendIs DEF PageInv
<1>2. n < MaxReads /\ n \in Nat
  BY <1>1, BoardAssumption DEF Board!Seek, Board!MaySend
<1>3. PICK r : r = Board!Read("seek", view.venue, view.cursor, t)
  OBVIOUS
<1>4. Follows(r)
  <2>1. "seek" \in Reading /\ view.cursor \in BoardCursor /\ view.cursor # Board!NoCursor
    BY DEF Reading, PageInv, BoardView, Board!Seek
  <2> QED
    BY <1>3, <2>1, FollowingRead
<1>5. reads' = Board!Sent(reads, r)
  BY <1>3 DEF Board!Seek
<1> QED
  BY <1>1, <1>2, <1>4, <1>5, SendingPreserves

LEMMA ReceiveSeekPreserves ==
  ASSUME PageInv, Board!LoadingIsOwed, NEW i \in DOMAIN reads, Board!ReceiveSeek(i)
  PROVE  ReadStep
<1>1. PICK r : r = reads[i]
  OBVIOUS
<1>2. /\ r.kind = "seek" /\ r.kind \in Reading /\ UNCHANGED store /\ r \in BoardRead /\ ReadSound(r)
      /\ r.topic \in BoardTopics
  BY <1>1 DEF Board!ReceiveSeek, PageInv, ReadsType, ReadsSound, ReadSound, Reading
<1>3. CASE r.step # "answered"
  <2>1. view' = view /\ reads' = Board!Close(reads, i)
    BY <1>1, <1>3 DEF Board!ReceiveSeek
  <2>2. PageInv'
    BY <1>2, <2>1, Closing, ReadsGoOn DEF PageInv
  <2>3. Board!LoadingIsOwed'
    BY <1>1, <1>2, <2>1, Closing, LoadsStay
  <2> QED
    BY <2>1, <2>2, <2>3, SameShown DEF ReadStep
<1>4. CASE r.step = "answered"
  <2>1. view' = Board!Merged(view, r)
    BY <1>1, <1>4 DEF Board!ReceiveSeek
  <2>2. /\ view' \in BoardView /\ view'.venue = view.venue /\ view'.state = view.state
        /\ \A t \in BoardTopics : view'.shown[t] = view.shown[t] \/ Brings(t)
        /\ Continues /\ view'.cursor = r.next /\ ShownGrows /\ NothingForeign
    BY <1>1, <1>2, <1>4, <2>1, MergingStep
  <2>3. CASE reads' = Board!Close(reads, i)
    <3>1. PageInv'
      BY <1>2, <2>2, <2>3, Closing, ReadsGoOn
    <3>2. Board!LoadingIsOwed'
      BY <1>1, <1>2, <2>2, <2>3, Closing, LoadsStay
    <3> QED
      BY <2>2, <3>1, <3>2 DEF ReadStep
  <2>4. CASE reads' # Board!Close(reads, i)
    <3>1. PICK q : q = Board!Read("seek", r.venue, view'.cursor, r.topic)
      OBVIOUS
    <3>2. view'.cursor # Board!NoCursor /\ reads' = [reads EXCEPT ![i] = q]
      BY <1>1, <1>4, <2>1, <2>4, <3>1 DEF Board!ReceiveSeek
    <3>3. r.venue = view.venue
      BY <1>2, <1>4 DEF ReadSound, Counts
    <3>4. Follows(q)
      <4>1. "seek" \in Reading /\ view'.cursor \in BoardCursor /\ r.topic \in BoardTopics \cup {NoTopic}
        BY <1>2, <2>2 DEF Reading, BoardView
      <4> QED
        BY <1>2, <3>1, <3>2, <3>3, <4>1, FollowingRead
    <3>5. PICK n \in 0 .. MaxReads : reads \in [1 .. n -> BoardRead]
      BY DEF PageInv, ReadsType
    <3>6. /\ DOMAIN reads' = DOMAIN reads /\ reads' \in [1 .. n -> BoardRead] /\ reads'[i] = q
          /\ \A j \in DOMAIN reads \ {i} : reads'[j] = reads[j]
      BY <3>2, <3>4, <3>5 DEF Follows
    <3>7. ReadsType' /\ \A j \in DOMAIN reads' : Kept(j) \/ Follows(reads'[j])
      BY <3>4, <3>6 DEF ReadsType, Kept
    <3>8. PageInv'
      BY <1>2, <2>2, <3>7, ReadsGoOn
    <3>9. Board!LoadingIsOwed'
      BY <1>1, <1>2, <2>2, <3>6, LoadsStay
    <3> QED
      BY <2>2, <3>8, <3>9 DEF ReadStep
  <2> QED
    BY <2>3, <2>4
<1> QED
  BY <1>3, <1>4

(* A confirmation may show what it likes, and no load is awaited after it.   *)
LEMMA UpsertedPreserves ==
  ASSUME PageInv, Board!LoadingIsOwed, NEW t \in BoardTopics, NEW version \in Nat, version <= store[t].version,
         Board!Upserted(t, version), UNCHANGED store
  PROVE  PageInv' /\ Board!LoadingIsOwed' /\ NothingForeign
<1>1. CASE BoardVenueOf[t] # view.venue
  <2>1. view' = view /\ reads' = reads
    BY <1>1 DEF Board!Upserted
  <2>2. PageInv'
    BY <2>1, ReadsGoOn DEF PageInv, Kept, ReadsType
  <2> QED
    BY <2>1, <2>2, SameShown DEF Board!LoadingIsOwed, Board!Ids
<1>2. CASE BoardVenueOf[t] = view.venue
  <2>1. PICK shown : shown = [view.shown EXCEPT ![t] = version]
    OBVIOUS
  <2>2. view' = [view EXCEPT !.shown = shown] /\ reads' = Board!Outdated(reads, {"load"})
    BY <1>2, <2>1 DEF Board!Upserted
  <2>3. shown \in [BoardTopics -> Nat] /\ shown[t] = version /\ \A u \in BoardTopics \ {t} : shown[u] = view.shown[u]
    BY <2>1 DEF PageInv, BoardView
  <2>4. /\ view' \in BoardView /\ view'.venue = view.venue /\ view'.cursor = view.cursor /\ view'.state = view.state
        /\ view'.shown = shown
    BY <2>2, <2>3 DEF PageInv, BoardView
  <2>5. PICK n \in 0 .. MaxReads : reads \in [1 .. n -> BoardRead]
    BY DEF PageInv, ReadsType
  <2>6. /\ reads' \in [1 .. n -> BoardRead]
        /\ \A i \in 1 .. n : /\ reads'[i].kind = reads[i].kind
                             /\ reads[i].kind \in {"load"} => Void(reads'[i])
                             /\ reads[i].kind \notin {"load"} => reads'[i] = reads[i]
    <3>1. n \in Nat /\ {"load"} \in SUBSET {"load", "more", "seek"}
      BY <2>5
    <3>2. SeekersTopics(n, reads)
      BY <2>5, <3>1, SeekersHaveTopics
    <3> QED
      BY <2>2, <2>5, <3>1, <3>2, OutdatedIs DEF SeekersTopics
  <2>7. ReadsType' /\ \A i \in DOMAIN reads' : (Kept(i) /\ ~Awaited(reads[i])) \/ Void(reads'[i])
    BY <2>5, <2>6 DEF ReadsType, Kept, Awaited
  <2>8. Past(view'.cursor) /\ \A u \in BoardTopics : view'.shown[u] <= store[u].version
    BY <2>3, <2>4 DEF PageInv
  <2>9. PageInv'
    BY <2>4, <2>7, <2>8, NoLoadAwaited
  <2>10. Board!LoadingIsOwed'
    BY <2>4, <2>5, <2>6, LoadsStay
  <2>11. NothingForeign
    BY <1>2, <2>3, <2>4 DEF NothingForeign, PageInv, BoardView
  <2> QED
    BY <2>9, <2>10, <2>11
<1> QED
  BY <1>1, <1>2

-----------------------------------------------------------------------------
(* Every step                                                               *)

WritesInv ==
  /\ CreatesType /\ write \in BoardWrite /\ WriteSound
  /\ \A t \in BoardTopics : creates[t].version <= store[t].version
BoardShows == (Board!Confirmation \/ ShownGrows) /\ NothingForeign

LEMMA InvIs == BoardInv <=> PageInv /\ WritesInv /\ Board!LoadingIsOwed
  BY PageParts DEF WritesInv

LEMMA WritesStay ==
  ASSUME WritesInv, UNCHANGED <<store, write, creates>>
  PROVE  WritesInv'
  BY DEF WritesInv, CreatesType, WriteSound

LEMMA NewWrites ==
  /\ Board!NoWrite \in BoardWrite /\ Board!NoWrite.step = "none" /\ Board!NoWrite.read = 0
  /\ \A t \in BoardTopics, n \in Nat :
       LET w == Board!WriteOf(t, n) IN
         w \in BoardWrite /\ w.step = "sent" /\ w.topic = t /\ w.version = n /\ w.read = 0
  BY DEF Board!NoWrite, Board!WriteOf, BoardWrite

LEMMA NoWriteIsSound ==
  ASSUME WritesInv, write' = Board!NoWrite, UNCHANGED <<store, creates>>
  PROVE  WritesInv'
  BY NewWrites DEF WritesInv, CreatesType, WriteSound

LEMMA WriteOfIsSound ==
  ASSUME WritesInv, NEW t \in BoardTopics, NEW n \in Nat, n > 0, write' = Board!WriteOf(t, n), UNCHANGED <<store, creates>>
  PROVE  WritesInv'
  BY NewWrites DEF WritesInv, CreatesType, WriteSound

(* A search that ends lets the write that waits for it go on, or gives it up. *)
LEMMA EndsPreserves ==
  ASSUME WritesInv, NEW i \in Nat \ {0}, NEW n \in Nat, Board!Ends(i, n), UNCHANGED <<store, creates>>
  PROVE  WritesInv'
<1>1. CASE write.read # i
  BY <1>1, WritesStay DEF Board!Ends
<1>2. CASE write.read = i /\ n > 0
  <2>1. write.topic \in BoardTopics
    BY <1>2 DEF WritesInv, WriteSound
  <2> QED
    BY <1>2, <2>1, WriteOfIsSound DEF Board!Ends
<1>3. CASE write.read = i /\ ~(n > 0)
  BY <1>3, NoWriteIsSound DEF Board!Ends
<1> QED
  BY <1>1, <1>2, <1>3

BoardStep == BoardInv' /\ BoardShows

LEMMA ReadStepIs ==
  ASSUME ReadStep, WritesInv'
  PROVE  BoardStep
<1>1. (PageInv /\ WritesInv /\ Board!LoadingIsOwed)'
  BY DEF ReadStep
<1>2. BoardInv'
  BY <1>1, InvIs, PTL
<1> QED
  BY <1>2 DEF ReadStep, BoardStep, BoardShows

LEMMA PageStays ==
  ASSUME PageInv, Board!LoadingIsOwed, UNCHANGED <<store, view, reads>>
  PROVE  ReadStep
<1>1. PageInv'
  BY ReadsGoOn DEF PageInv, Kept, ReadsType
<1>2. Board!LoadingIsOwed'
  BY DEF Board!LoadingIsOwed, Board!Ids
<1> QED
  BY <1>1, <1>2, SameShown DEF ReadStep

LEMMA BeginWritePreserves ==
  ASSUME BoardInv, NEW t \in BoardTopics, Board!BeginWrite(t)
  PROVE  BoardStep
<1>1. PageInv /\ WritesInv /\ Board!LoadingIsOwed /\ UNCHANGED <<store, view, creates>>
  BY InvIs DEF Board!BeginWrite
<1>2. CASE Board!WriteShown(t) /\ write' = Board!WriteOf(t, view.shown[t]) /\ UNCHANGED reads
  <2>1. view.shown[t] \in Nat /\ view.shown[t] > 0
    BY <1>1, <1>2 DEF Board!WriteShown, PageInv, BoardView
  <2>2. WritesInv'
    BY <1>1, <1>2, <2>1, WriteOfIsSound
  <2> QED
    BY <1>1, <1>2, <2>2, PageStays, ReadStepIs
<1>3. CASE /\ Board!Seek(t)
           /\ write' = [step |-> "seek", topic |-> t, version |-> 0, read |-> Board!Cardinality(Board!Ids) + 1]
  <2>1. ReadStep
    BY <1>1, <1>3, SeekPreserves
  <2>2. PICK n \in 0 .. MaxReads : Board!Cardinality(Board!Ids) = n
    BY <1>1, SendIs DEF PageInv
  <2>3. write' \in BoardWrite /\ write'.step = "seek" /\ write'.topic = t
    BY <1>3, <2>2 DEF BoardWrite
  <2>4. WritesInv'
    BY <1>1, <2>3 DEF WritesInv, CreatesType, WriteSound
  <2> QED
    BY <2>1, <2>4, ReadStepIs
<1> QED
  BY <1>2, <1>3 DEF Board!BeginWrite

(* A write of the server leaves what was read and confirmed behind it.      *)
LEMMA BumpStep ==
  ASSUME PageInv, Board!LoadingIsOwed, NEW t \in BoardTopics, Board!Written, Board!Bump(t), UNCHANGED <<view, reads>>
  PROVE  ReadStep
<1>1. PageInv'
  BY BumpPreserves
<1>2. Board!LoadingIsOwed'
  BY DEF Board!LoadingIsOwed, Board!Ids
<1> QED
  BY <1>1, <1>2, SameShown DEF ReadStep

VersionsGrow == \A u \in BoardTopics : /\ store[u].version <= store'[u].version
                                       /\ store[u].version \in Nat /\ store'[u].version \in Nat
LEMMA BumpGrows ==
  ASSUME PageInv, NEW t \in BoardTopics, Board!Written, Board!Bump(t), UNCHANGED <<view, reads>>
  PROVE  VersionsGrow /\ store'[t].version = store[t].version + 1
<1>1. PageInv' /\ store'[t].version = store[t].version + 1 /\ \A u \in BoardTopics : store[u].version <= store'[u].version
  BY BumpPreserves
<1> QED
  BY <1>1 DEF VersionsGrow, PageInv, StoreType

LEMMA ElsewherePreserves ==
  ASSUME BoardInv, NEW t \in BoardTopics, Board!Elsewhere(t)
  PROVE  BoardStep
<1>1. /\ PageInv /\ WritesInv /\ Board!LoadingIsOwed /\ UNCHANGED <<view, reads, write, creates>>
      /\ Board!Written /\ Board!Bump(t)
  BY InvIs DEF Board!Elsewhere
<1>2. VersionsGrow
  BY <1>1, BumpGrows
<1>3. \A u \in BoardTopics : creates[u].version \in Nat
  BY <1>1 DEF WritesInv, CreatesType
<1>4. write.version \in Nat
  BY <1>1 DEF WritesInv, BoardWrite
<1>5. WritesInv'
  BY <1>1, <1>2, <1>3, <1>4 DEF WritesInv, CreatesType, WriteSound, VersionsGrow
<1> QED
  BY <1>1, <1>5, BumpStep, ReadStepIs

LEMMA HandleWritePreserves ==
  ASSUME BoardInv, Board!HandleWrite
  PROVE  BoardStep
<1>1. /\ PageInv /\ WritesInv /\ Board!LoadingIsOwed /\ UNCHANGED <<view, reads, creates>>
      /\ write.step = "sent"
  BY InvIs DEF Board!HandleWrite
<1>2. PICK t \in BoardTopics : t = write.topic
  BY <1>1 DEF WritesInv, WriteSound
<1>3. write.version \in Nat /\ write.version > 0 /\ write.read = 0
  BY <1>1 DEF WritesInv, WriteSound, BoardWrite
<1>4. CASE store[t].version = write.version
  <2>1. Board!Written /\ Board!Bump(t) /\ write' = [write EXCEPT !.step = "ok", !.version = @ + 1]
    BY <1>2, <1>4 DEF Board!HandleWrite
  <2>2. VersionsGrow /\ store'[t].version = store[t].version + 1
    BY <1>1, <2>1, BumpGrows
  <2>3. /\ write' \in BoardWrite /\ write'.step = "ok" /\ write'.version = write.version + 1
        /\ write'.topic = t /\ write'.read = 0
    <3>1. write \in BoardWrite
      BY <1>1 DEF WritesInv
    <3>2. PICK n : n = write.version + 1
      OBVIOUS
    <3>3. PICK w : w = [write EXCEPT !.step = "ok", !.version = n]
      OBVIOUS
    <3>4. n \in Nat
      BY <1>3, <3>2
    <3>5. w \in BoardWrite /\ w.step = "ok" /\ w.version = n /\ w.topic = write.topic /\ w.read = write.read
      BY <3>1, <3>3, <3>4 DEF BoardWrite
    <3> QED
      BY <1>2, <1>3, <2>1, <3>2, <3>3, <3>5
  <2>4. WriteSound'
    BY <1>3, <1>4, <2>2, <2>3 DEF WriteSound
  <2>5. \A u \in BoardTopics : creates[u].version \in Nat
    BY <1>1 DEF WritesInv, CreatesType
  <2>6. WritesInv'
    BY <1>1, <2>2, <2>3, <2>4, <2>5 DEF WritesInv, CreatesType, VersionsGrow
  <2> QED
    BY <1>1, <2>1, <2>6, BumpStep, ReadStepIs
<1>5. CASE store[t].version # write.version
  <2>1. UNCHANGED store /\ write' = [write EXCEPT !.step = "refused"]
    BY <1>2, <1>5 DEF Board!HandleWrite
  <2>2. /\ write' \in BoardWrite /\ write'.step = "refused" /\ write'.version = write.version
        /\ write'.topic = t /\ write'.read = 0
    <3>1. write \in BoardWrite
      BY <1>1 DEF WritesInv
    <3>2. PICK w : w = [write EXCEPT !.step = "refused"]
      OBVIOUS
    <3>3. w \in BoardWrite /\ w.step = "refused" /\ w.version = write.version /\ w.topic = write.topic /\ w.read = write.read
      BY <3>1, <3>2 DEF BoardWrite
    <3> QED
      BY <1>2, <1>3, <2>1, <3>2, <3>3
  <2>3. WritesInv'
    BY <1>1, <1>3, <2>1, <2>2 DEF WritesInv, WriteSound, CreatesType
  <2> QED
    BY <1>1, <2>1, <2>3, PageStays, ReadStepIs
<1> QED
  BY <1>4, <1>5

LEMMA LoseWritePreserves ==
  ASSUME BoardInv, Board!LoseWrite
  PROVE  BoardStep
<1>1. /\ PageInv /\ WritesInv /\ Board!LoadingIsOwed /\ UNCHANGED <<store, view, reads, creates>>
      /\ write' = Board!NoWrite
  BY InvIs DEF Board!LoseWrite
<1> QED
  BY <1>1, NoWriteIsSound, PageStays, ReadStepIs

(* A page with another notice is the same page.                             *)
LEMMA NoticeStep ==
  ASSUME PageInv, Board!LoadingIsOwed, UNCHANGED <<store, reads>>, view' \in BoardView, view'.venue = view.venue,
         view'.shown = view.shown, view'.cursor = view.cursor, view'.state = view.state
  PROVE  ReadStep
<1>1. PageInv'
  BY ReadsGoOn DEF PageInv, Kept, ReadsType
<1>2. Board!LoadingIsOwed'
  BY DEF Board!LoadingIsOwed, Board!Ids
<1> QED
  BY <1>1, <1>2, SameShown DEF ReadStep

LEMMA ConfirmedStep ==
  ASSUME PageInv, Board!LoadingIsOwed, NEW t \in BoardTopics, NEW version \in Nat, version <= store[t].version,
         Board!Upserted(t, version), UNCHANGED store, WritesInv', Board!Confirmation
  PROVE  BoardStep
<1>1. PageInv' /\ Board!LoadingIsOwed' /\ NothingForeign
  BY UpsertedPreserves
<1>2. (PageInv /\ WritesInv /\ Board!LoadingIsOwed)'
  BY <1>1
<1>3. BoardInv'
  BY <1>2, InvIs, PTL
<1> QED
  BY <1>1, <1>3 DEF BoardStep, BoardShows

LEMMA ReceiveWritePreserves ==
  ASSUME BoardInv, Board!ReceiveWrite
  PROVE  BoardStep
<1>1. /\ PageInv /\ WritesInv /\ Board!LoadingIsOwed /\ UNCHANGED <<store, creates>>
      /\ write' = Board!NoWrite /\ write.step \in {"ok", "refused"}
  BY InvIs DEF Board!ReceiveWrite
<1>2. WritesInv'
  BY <1>1, NoWriteIsSound
<1>3. PICK t \in BoardTopics : t = write.topic
  BY <1>1 DEF WritesInv, WriteSound
<1>4. CASE write.step = "ok" /\ Board!Upserted(write.topic, write.version)
  <2>1. write.version \in Nat /\ write.version <= store[t].version
    BY <1>1, <1>3, <1>4 DEF WritesInv, WriteSound, BoardWrite
  <2>2. Board!Confirmation
    BY <1>1, <1>4, NewWrites DEF Board!Confirmation
  <2> QED
    BY <1>1, <1>2, <1>3, <1>4, <2>1, <2>2, ConfirmedStep
<1>5. CASE write.step = "refused"
  <2>1. UNCHANGED reads /\ (view' = view \/ view' = [view EXCEPT !.conflict = t])
    BY <1>3, <1>5 DEF Board!ReceiveWrite
  <2>2. /\ view' \in BoardView /\ view'.venue = view.venue /\ view'.shown = view.shown
        /\ view'.cursor = view.cursor /\ view'.state = view.state
    BY <1>1, <2>1 DEF PageInv, BoardView
  <2> QED
    BY <1>1, <1>2, <2>1, <2>2, NoticeStep, ReadStepIs
<1> QED
  BY <1>4, <1>5 DEF Board!ReceiveWrite

-----------------------------------------------------------------------------

LEMMA CreatePreserves ==
  ASSUME BoardInv, NEW t \in BoardTopics, Board!Create(t)
  PROVE  BoardStep
<1>1. /\ PageInv /\ WritesInv /\ Board!LoadingIsOwed /\ UNCHANGED <<store, reads, write>>
      /\ creates' = [creates EXCEPT ![t].step = "sent"] /\ view' = [view EXCEPT !.pending = t]
  BY InvIs DEF Board!Create
<1>2. CreatesType' /\ \A u \in BoardTopics : creates'[u].version = creates[u].version
  BY <1>1 DEF WritesInv, CreatesType
<1>3. WritesInv'
  BY <1>1, <1>2 DEF WritesInv, WriteSound
<1>4. /\ view' \in BoardView /\ view'.venue = view.venue /\ view'.shown = view.shown
      /\ view'.cursor = view.cursor /\ view'.state = view.state
  BY <1>1 DEF PageInv, BoardView
<1> QED
  BY <1>1, <1>3, <1>4, NoticeStep, ReadStepIs

LEMMA HandleCreatePreserves ==
  ASSUME BoardInv, NEW t \in BoardTopics, Board!HandleCreate(t)
  PROVE  BoardStep
<1>1. /\ PageInv /\ WritesInv /\ Board!LoadingIsOwed /\ UNCHANGED <<view, reads, write>>
      /\ creates' = [creates EXCEPT ![t] = [step |-> "made", version |-> store'[t].version]]
  BY InvIs DEF Board!HandleCreate
<1>2. VersionsGrow /\ ReadStep
  <2>1. CASE store[t].version = 0
    <3>1. Board!Written /\ Board!Bump(t)
      BY <2>1 DEF Board!HandleCreate
    <3> QED
      BY <1>1, <3>1, BumpGrows, BumpStep
  <2>2. CASE store[t].version # 0
    <3>1. UNCHANGED store
      BY <2>2 DEF Board!HandleCreate
    <3> QED
      BY <1>1, <3>1, PageStays DEF VersionsGrow, PageInv, StoreType
  <2> QED
    BY <2>1, <2>2
<1>3. CreatesType' /\ creates'[t].version = store'[t].version /\ \A u \in BoardTopics \ {t} : creates'[u] = creates[u]
  BY <1>1, <1>2 DEF WritesInv, CreatesType, VersionsGrow
<1>4. \A u \in BoardTopics : creates'[u].version <= store'[u].version
  <2> SUFFICES ASSUME NEW u \in BoardTopics PROVE creates'[u].version <= store'[u].version
    OBVIOUS
  <2>1. creates[u].version \in Nat /\ creates[u].version <= store[u].version
    BY <1>1 DEF WritesInv, CreatesType
  <2>2. store[u].version <= store'[u].version /\ store[u].version \in Nat /\ store'[u].version \in Nat
    BY <1>2 DEF VersionsGrow
  <2> QED
    BY <1>3, <2>1, <2>2
<1>5. WriteSound'
  <2>1. write.version \in Nat
    BY <1>1 DEF WritesInv, BoardWrite
  <2> QED
    BY <1>1, <1>2, <2>1 DEF WritesInv, WriteSound, VersionsGrow
<1>6. WritesInv'
  BY <1>1, <1>3, <1>4, <1>5 DEF WritesInv
<1> QED
  BY <1>2, <1>6, ReadStepIs

LEMMA LoseCreatePreserves ==
  ASSUME BoardInv, NEW t \in BoardTopics, Board!LoseCreate(t)
  PROVE  BoardStep
<1>1. /\ PageInv /\ WritesInv /\ Board!LoadingIsOwed /\ UNCHANGED <<store, view, reads, write>>
      /\ creates' = [creates EXCEPT ![t].step = "failed"]
  BY InvIs DEF Board!LoseCreate
<1>2. CreatesType' /\ \A u \in BoardTopics : creates'[u].version = creates[u].version
  BY <1>1 DEF WritesInv, CreatesType
<1>3. WritesInv'
  BY <1>1, <1>2 DEF WritesInv, WriteSound
<1> QED
  BY <1>1, <1>3, PageStays, ReadStepIs

LEMMA ReceiveCreatePreserves ==
  ASSUME BoardInv, NEW t \in BoardTopics, Board!ReceiveCreate(t)
  PROVE  BoardStep
<1>1. /\ PageInv /\ WritesInv /\ Board!LoadingIsOwed /\ UNCHANGED <<store, write>> /\ creates[t].step = "made"
      /\ creates' = [creates EXCEPT ![t].step = "done"] /\ Board!Upserted(t, creates[t].version)
  BY InvIs DEF Board!ReceiveCreate
<1>2. /\ CreatesType' /\ \A u \in BoardTopics : creates'[u].version = creates[u].version
      /\ creates'[t].step = "done"
  BY <1>1 DEF WritesInv, CreatesType
<1>3. WritesInv'
  BY <1>1, <1>2 DEF WritesInv, WriteSound
<1>4. creates[t].version \in Nat /\ creates[t].version <= store[t].version
  BY <1>1 DEF WritesInv, CreatesType
<1>5. Board!Confirmation
  BY <1>1, <1>2 DEF Board!Confirmation
<1> QED
  BY <1>1, <1>3, <1>4, <1>5, ConfirmedStep

LEMMA ReadingSteps ==
  ASSUME BoardInv,
         \/ \E v \in Venues : Board!Load(v)
         \/ Board!LoadMore
         \/ \E i \in Board!Ids : Board!Arrives(i)
         \/ \E t \in BoardTopics : Board!Deeplink(t)
  PROVE  BoardStep
<1>1. PageInv /\ WritesInv /\ Board!LoadingIsOwed
  BY InvIs
<1>2. ASSUME NEW v \in Venues, Board!Load(v) PROVE BoardStep
  <2>1. UNCHANGED <<store, write, creates>> /\ view' = [view EXCEPT !.venue = v, !.state = "loading"]
    BY <1>2 DEF Board!Load
  <2>2. view'.shown = view.shown
    BY <1>1, <2>1 DEF PageInv, BoardView
  <2>3. PageInv' /\ Board!LoadingIsOwed'
    BY <1>1, <1>2, LoadPreserves
  <2>4. ReadStep
    BY <1>1, <2>2, <2>3, SameShown DEF ReadStep
  <2> QED
    BY <1>1, <2>1, <2>4, WritesStay, ReadStepIs
<1>3. CASE Board!LoadMore
  <2>1. UNCHANGED <<store, write, creates>>
    BY <1>3 DEF Board!LoadMore
  <2> QED
    BY <1>1, <1>3, <2>1, LoadMorePreserves, WritesStay, ReadStepIs
<1>4. ASSUME NEW i \in DOMAIN reads, Board!Arrives(i) PROVE BoardStep
  <2>1. CASE Board!Answer(i)
    <3>1. /\ PageInv' /\ UNCHANGED <<store, view, write, creates>>
          /\ DOMAIN reads' = DOMAIN reads /\ \A j \in DOMAIN reads : reads'[j].kind = reads[j].kind
      BY <1>1, <2>1, BoardAnswerPreserves
    <3>2. Board!LoadingIsOwed'
      BY <1>1, <3>1, LoadsStay
    <3>3. ReadStep
      BY <1>1, <3>1, <3>2, SameShown DEF ReadStep
    <3> QED
      BY <1>1, <3>1, <3>3, WritesStay, ReadStepIs
  <2>2. CASE Board!ReceiveLoad(i)
    <3>1. UNCHANGED <<store, write, creates>>
      BY <2>2 DEF Board!ReceiveLoad
    <3> QED
      BY <1>1, <2>2, <3>1, ReceiveLoadPreserves, WritesStay, ReadStepIs
  <2>3. CASE Board!ReceiveMore(i)
    <3>1. UNCHANGED <<store, write, creates>>
      BY <2>3 DEF Board!ReceiveMore
    <3> QED
      BY <1>1, <2>3, <3>1, ReceiveMorePreserves, WritesStay, ReadStepIs
  <2>4. CASE Board!ReceiveSeek(i)
    <3>1. UNCHANGED <<store, creates>> /\ i \in Nat \ {0}
      BY <1>1, <2>4 DEF Board!ReceiveSeek, PageInv, ReadsType
    <3>2. UNCHANGED write \/ \E n \in Nat : Board!Ends(i, n)
      <4>1. PICK m : m = Board!Merged(view, reads[i])
        OBVIOUS
      <4>2. \A t \in BoardTopics : m.shown[t] \in Nat
        <5>1. reads[i] \in BoardRead
          BY <1>1 DEF PageInv, ReadsType
        <5>2. m \in BoardView
          BY <1>1, <4>1, <5>1, MergedIs
        <5> QED
          BY <5>2 DEF BoardView
      <4>3. reads[i].topic \in BoardTopics
        BY <1>1, <2>4 DEF Board!ReceiveSeek, PageInv, ReadsSound, ReadSound
      <4>4. UNCHANGED write \/ Board!Ends(i, 0) \/ Board!Ends(i, m.shown[reads[i].topic])
        BY <2>4, <4>1 DEF Board!ReceiveSeek
      <4> QED
        BY <4>2, <4>3, <4>4
    <3>3. WritesInv'
      BY <1>1, <3>1, <3>2, EndsPreserves, WritesStay
    <3> QED
      BY <1>1, <2>4, <3>3, ReceiveSeekPreserves, ReadStepIs
  <2> QED
    BY <1>4, <2>1, <2>2, <2>3, <2>4 DEF Board!Arrives
<1>5. ASSUME NEW t \in BoardTopics, Board!Deeplink(t) PROVE BoardStep
  <2>1. Board!Seek(t) /\ UNCHANGED <<store, view, write, creates>>
    BY <1>5 DEF Board!Deeplink
  <2> QED
    BY <1>1, <2>1, SeekPreserves, WritesStay, ReadStepIs
<1> QED
  BY <1>2, <1>3, <1>4, <1>5 DEF Board!Ids

LEMMA BoardNext ==
  ASSUME BoardInv, Board!Next
  PROVE  BoardStep
<1>1. \/ \/ \E v \in Venues : Board!Load(v)
         \/ Board!LoadMore
         \/ \E i \in Board!Ids : Board!Arrives(i)
         \/ \E t \in BoardTopics : Board!Deeplink(t)
      \/ \E t \in BoardTopics :
           \/ Board!BeginWrite(t) \/ Board!Elsewhere(t)
           \/ Board!Create(t) \/ Board!HandleCreate(t) \/ Board!LoseCreate(t) \/ Board!ReceiveCreate(t)
      \/ Board!HandleWrite \/ Board!LoseWrite \/ Board!ReceiveWrite
  BY DEF Board!Next
<1> QED
  BY <1>1, ReadingSteps, BeginWritePreserves, ElsewherePreserves, CreatePreserves, HandleCreatePreserves,
     LoseCreatePreserves, ReceiveCreatePreserves, HandleWritePreserves, LoseWritePreserves, ReceiveWritePreserves

LEMMA BoardStutters ==
  ASSUME BoardInv, UNCHANGED Board!vars
  PROVE  BoardStep
<1>1. PageInv /\ WritesInv /\ Board!LoadingIsOwed /\ UNCHANGED <<store, view, reads, write, creates>>
  BY InvIs DEF Board!vars
<1> QED
  BY <1>1, PageStays, WritesStay, ReadStepIs

LEMMA BoardInitInv == Board!Init => BoardInv
<1> SUFFICES ASSUME Board!Init PROVE BoardInv
  OBVIOUS
<1>1. /\ store \in [BoardTopics -> [version : {0, 1}, at : 0 .. Board!Cardinality(BoardTopics)]]
      /\ \A t \in BoardTopics : store[t].version = 0 <=> store[t].at = 0
  BY DEF Board!Init
<1>2. Cardinality(BoardTopics) \in Nat /\ Board!Cardinality(BoardTopics) = Cardinality(BoardTopics)
  BY BoardAssumption, BoardCardinality, FS_CardinalityType
<1>3. StoreType
  BY <1>1, <1>2 DEF StoreType
<1>4. MomentsInReach
  <2> SUFFICES ASSUME NEW t \in BoardTopics PROVE store[t].version <= store[t].at /\ store[t].at <= BoardBound
    BY DEF MomentsInReach
  <2>1. store[t].version \in {0, 1} /\ store[t].at \in 0 .. Cardinality(BoardTopics)
    BY <1>1, <1>2
  <2> QED
    BY <1>1, <1>2, <2>1, BoardAssumption DEF BoardBound
<1>5. /\ view \in BoardView /\ view.shown = Board!NoPage /\ view.cursor = Board!NoCursor /\ view.state = "idle"
  <2>1. view = [venue |-> NoVenue, shown |-> Board!NoPage, cursor |-> Board!NoCursor, state |-> "idle",
                conflict |-> NoTopic, pending |-> NoTopic]
    BY DEF Board!Init
  <2> QED
    BY <2>1, BlankRead DEF BoardView
<1>6. DOMAIN reads = {} /\ reads \in [1 .. 0 -> BoardRead]
  <2>1. reads = [i \in {} |-> Board!Read("load", NoVenue, Board!NoCursor, NoTopic)]
    BY DEF Board!Init
  <2> QED
    BY <2>1
<1>7. ReadsType
  BY <1>6, BoardAssumption DEF ReadsType
<1>8. \A t \in BoardTopics : view.shown[t] = 0 /\ store[t].version \in Nat
  BY <1>3, <1>5, BlankRead DEF StoreType
<1>9. ReadsSound /\ OneLoadCounts /\ LoadIsNewest
  BY <1>6 DEF ReadsSound, OneLoadCounts, LoadIsNewest
<1>10. Past(view.cursor)
  BY <1>3, <1>5, StartIsPast
<1>11. PageInv
  BY <1>3, <1>4, <1>5, <1>7, <1>8, <1>9, <1>10 DEF PageInv
<1>12. CreatesType /\ \A t \in BoardTopics : creates[t].version = 0
  <2>1. creates = [t \in BoardTopics |-> [step |-> IF store[t].version = 0 THEN "unused" ELSE "done", version |-> 0]]
    BY DEF Board!Init
  <2> QED
    BY <2>1 DEF CreatesType
<1>13. write = Board!NoWrite
  BY DEF Board!Init
<1>14. WritesInv
  BY <1>8, <1>12, <1>13, NewWrites DEF WritesInv, WriteSound
<1>15. Board!LoadingIsOwed
  BY <1>5 DEF Board!LoadingIsOwed
<1> QED
  BY <1>11, <1>14, <1>15, InvIs

LEMMA BoardInvariant == Board!Spec => []BoardInv
<1>1. BoardInv /\ [Board!Next]_(Board!vars) => BoardInv'
  BY BoardNext, BoardStutters DEF BoardStep
<1> QED
  BY <1>1, BoardInitInv, PTL DEF Board!Spec

(* Whatever was written elsewhere, lost, created or searched for, and in    *)
(* whatever order answers come: only the confirmation of an own write may    *)
(* show less than was shown, nothing of another venue appears, and a page    *)
(* that says it is loading has a load to wait for.                          *)
THEOREM ShownFollowsReads == Board!Spec => PageFollowsReads
<1>1. ASSUME BoardInv, [Board!Next]_(Board!vars) PROVE BoardShows
  BY <1>1, BoardNext, BoardStutters DEF BoardStep
<1>2. BoardInv /\ [Board!Next]_(Board!vars) =>
        /\ [Board!Confirmation \/ \A t \in BoardTopics : view'.shown[t] # 0 => view'.shown[t] >= view.shown[t]]_(Board!vars)
        /\ [\A t \in BoardTopics : view.shown[t] = 0 /\ view'.shown[t] > 0 => BoardVenueOf[t] = view'.venue]_(Board!vars)
  BY <1>1 DEF BoardShows, ShownGrows, NothingForeign
<1>3. BoardInv => Board!LoadingIsOwed
  BY DEF BoardInv
<1> QED
  BY <1>2, <1>3, BoardInvariant, PTL DEF Board!Spec, PageFollowsReads, Board!PageFollowsReads, Board!ReadsNeverRegress, Board!NothingForeignArrives

-----------------------------------------------------------------------------
(* Types and bounds of the five                                             *)

LEMMA BoardTypesHold == BoardInv => Board!TypeOK
<1> SUFFICES ASSUME BoardInv PROVE Board!TypeOK
  OBVIOUS
<1>0. Board!Cardinality(BoardTopics) + MaxWrites = BoardBound /\ BoardBound \in Nat
  BY BoardCardinality, BoardAssumption, FS_CardinalityType DEF BoardBound
<1>1. BoardTypes /\ WriteSound /\ MomentsInReach /\ ShownIsStored /\ ReadsSound
  BY DEF BoardInv
<1>a. \A n \in Nat, m \in 0 .. BoardBound : n <= m => n \in 0 .. BoardBound
  BY <1>0
<1>2. \A t \in BoardTopics : /\ store[t].version \in 0 .. BoardBound /\ store[t].at \in 0 .. BoardBound
                            /\ store[t] = [version |-> store[t].version, at |-> store[t].at]
  BY <1>0, <1>1 DEF BoardTypes, StoreType, MomentsInReach
<1>3. store \in [BoardTopics -> [version : 0 .. BoardBound, at : 0 .. BoardBound]]
  BY <1>1, <1>2 DEF BoardTypes, StoreType
<1>4. /\ view.venue \in Venues \cup {NoVenue} /\ view.state \in {"idle", "loading", "ready", "error"}
      /\ view.conflict \in BoardTopics \cup {NoTopic} /\ view.pending \in BoardTopics \cup {NoTopic}
      /\ view.shown \in [BoardTopics -> Nat]
  BY <1>1 DEF BoardTypes, BoardView
<1>5. view.shown \in [BoardTopics -> 0 .. BoardBound]
  <2>1. \A t \in BoardTopics : view.shown[t] \in 0 .. BoardBound
    BY <1>1, <1>2, <1>4, <1>a DEF ShownIsStored
  <2> QED
    BY <1>4, <2>1
<1>6. creates \in [BoardTopics -> [step : {"unused", "sent", "made", "failed", "done"}, version : 0 .. BoardBound]]
  <2>1. \A t \in BoardTopics : /\ creates[t].step \in {"unused", "sent", "made", "failed", "done"}
                              /\ creates[t].version \in Nat
                              /\ creates[t] = [step |-> creates[t].step, version |-> creates[t].version]
    BY <1>1 DEF BoardTypes, CreatesType
  <2>2. \A t \in BoardTopics : creates[t].version \in 0 .. BoardBound
    BY <1>1, <1>2, <1>a, <2>1 DEF ShownIsStored
  <2> QED
    BY <1>1, <2>1, <2>2 DEF BoardTypes, CreatesType
<1>7. Board!Cardinality(Board!Ids) <= MaxReads
  BY <1>1, SendIs DEF BoardTypes
<1>8. \A i \in Board!Ids : reads[i].page \in [BoardTopics -> 0 .. BoardBound]
  <2> SUFFICES ASSUME NEW i \in DOMAIN reads PROVE reads[i].page \in [BoardTopics -> 0 .. BoardBound]
    BY DEF Board!Ids
  <2>1. PICK p : p = reads[i].page
    OBVIOUS
  <2>2. p \in [BoardTopics -> Nat]
    BY <1>1, <2>1 DEF BoardTypes, ReadsType, BoardRead
  <2>3. \A t \in BoardTopics : p[t] <= store[t].version
    BY <1>1, <2>1 DEF ReadsSound, ReadSound
  <2>4. \A t \in BoardTopics : p[t] \in 0 .. BoardBound
    BY <1>2, <1>a, <2>2, <2>3
  <2> QED
    BY <2>1, <2>2, <2>4
<1>9. write.step = "none" \/ (write.topic \in BoardTopics /\ (write.step = "seek" \/ write.version > 0))
  BY <1>1 DEF BoardTypes, BoardWrite, WriteSound
<1> QED
  BY <1>0, <1>3, <1>4, <1>5, <1>6, <1>7, <1>8, <1>9 DEF Board!TypeOK

-----------------------------------------------------------------------------
(* A write is one call, and who is about to write has made his.             *)
ShelfReach ==
  /\ calls \in 0 .. MaxCalls
  /\ \A t \in Topics : topic[t].version <= calls + 1 /\ Cardinality(Members(t)) <= MemberMax
  /\ \A n \in Notes : note[n].version <= calls + 1
  /\ \A c \in Callers : /\ Moving(c) => topic[Wanted(c).topic].version <= calls
                        /\ Saving(c) => note[Wanted(c).note].version <= calls

RowsWanted ==
  \A c \in Callers : /\ Moving(c) => Wanted(c).topic \in Topics
                     /\ Saving(c) => Wanted(c).note \in Notes
LEMMA WantedRows == Inv => RowsWanted
  BY Holding DEF RowsWanted

HoldersKept ==
  \A c \in Callers : /\ Moving(c)' => Moving(c) /\ Wanted(c)' = Wanted(c)
                     /\ Saving(c)' => Saving(c) /\ Wanted(c)' = Wanted(c)
TopicReaches(t) ==
  topic'[t].version = topic[t].version
  \/ (topic'[t].version <= calls' + 1 /\ \A c \in Callers : Moving(c)' => Wanted(c)'.topic # t)
NoteReaches(n) ==
  note'[n].version = note[n].version
  \/ (note'[n].version <= calls' + 1 /\ \A c \in Callers : Saving(c)' => Wanted(c)'.note # n)
Fitting == \A t \in Topics : Cardinality(Members(t)) <= MemberMax

LEMMA ReachStep ==
  ASSUME Inv, Inv', ShelfReach, calls' \in {calls, calls + 1}, calls' <= MaxCalls,
         calls' = calls => HoldersKept, Fitting',
         \A t \in Topics : TopicReaches(t), \A n \in Notes : NoteReaches(n)
  PROVE  ShelfReach'
<1>1. RowsWanted' /\ calls \in Nat /\ calls' \in Nat /\ calls <= calls'
  <2>1. RowsWanted'
    BY WantedRows, PTL
  <2> QED
    BY <2>1 DEF ShelfReach
<1>2. \A t \in Topics : topic[t].version \in Nat /\ topic'[t].version \in Nat
  BY DEF Inv, ShelfTypes
<1>3. \A n \in Notes : note[n].version \in Nat /\ note'[n].version \in Nat
  BY DEF Inv, ShelfTypes
<1>4. \A t \in Topics : topic'[t].version <= calls' + 1
  BY <1>1, <1>2 DEF ShelfReach, TopicReaches
<1>5. \A n \in Notes : note'[n].version <= calls' + 1
  BY <1>1, <1>3 DEF ShelfReach, NoteReaches
<1>6. ASSUME NEW c \in Callers, Moving(c)' PROVE topic'[Wanted(c)'.topic].version <= calls'
  <2>1. PICK t \in Topics : t = Wanted(c)'.topic
    BY <1>1, <1>6 DEF RowsWanted
  <2>2. topic'[t].version = topic[t].version
    BY <1>6, <2>1 DEF TopicReaches
  <2>3. CASE calls' = calls
    BY <1>6, <2>1, <2>2, <2>3 DEF HoldersKept, ShelfReach
  <2>4. CASE calls' = calls + 1
    BY <2>1, <2>2, <2>4 DEF ShelfReach
  <2> QED
    BY <2>3, <2>4
<1>7. ASSUME NEW c \in Callers, Saving(c)' PROVE note'[Wanted(c)'.note].version <= calls'
  <2>1. PICK n \in Notes : n = Wanted(c)'.note
    BY <1>1, <1>7 DEF RowsWanted
  <2>2. note'[n].version = note[n].version
    BY <1>7, <2>1 DEF NoteReaches
  <2>3. CASE calls' = calls
    BY <1>7, <2>1, <2>2, <2>3 DEF HoldersKept, ShelfReach
  <2>4. CASE calls' = calls + 1
    BY <2>1, <2>2, <2>4 DEF ShelfReach
  <2> QED
    BY <2>3, <2>4
<1>8. calls' \in 0 .. MaxCalls
  BY <1>1, ShelfAssumption
<1> QED
  BY <1>4, <1>5, <1>6, <1>7, <1>8 DEF ShelfReach, Fitting

(* Steps that write no row.                                                 *)
LEMMA LockReach ==
  ASSUME Inv, Inv', ShelfReach, UNCHANGED <<note, topic, at>>, calls' \in {calls, calls + 1}, calls' <= MaxCalls,
         calls' = calls => HoldersKept
  PROVE  ShelfReach'
<1>1. \A t \in Topics : TopicReaches(t)
  BY DEF TopicReaches
<1>2. \A n \in Notes : NoteReaches(n)
  BY DEF NoteReaches
<1>3. Fitting'
  BY DEF Fitting, ShelfReach, Members
<1> QED
  BY <1>1, <1>2, <1>3, ReachStep

LEMMA Freed ==
  ASSUME Inv, NEW c \in Callers, Goes(c, Free), UNCHANGED asked
  PROVE  HoldersKept /\ ~Moving(c)' /\ ~Saving(c)'
<1>1. \A d \in Callers : tx'[d] = IF d = c THEN Free ELSE tx[d]
  BY DEF Goes, Inv, ShelfTypes
<1>2. Free.step = "free"
  BY DEF Free
<1> QED
  BY <1>1, <1>2 DEF HoldersKept, Moving, Saving, Wanted

LEMMA MoveReach ==
  ASSUME Inv, Inv', Numbered, ShelfReach, NEW c \in Callers, MoveWrites(c)
  PROVE  ShelfReach'
<1>1. calls' = calls /\ UNCHANGED asked /\ Goes(c, Free) /\ calls \in Nat /\ calls <= MaxCalls /\ UNCHANGED note
  BY DEF MoveWrites, Answered, ShelfReach
<1>2. HoldersKept /\ ~Moving(c)' /\ ~Saving(c)'
  BY <1>1, Freed
<1>3. CASE Answered(c)
  BY <1>1, <1>2, <1>3, LockReach DEF Answered
<1>4. CASE ~Answered(c)
  <2>1. PICK r, w, t : r = tx[c].req /\ w = asked[r] /\ t = w.topic
    OBVIOUS
  <2>2. /\ Moving(c) /\ Wanted(c) = w /\ t \in Topics /\ w.note \in Notes /\ r \in Requests /\ HoldsTopic(c, t)
    BY <2>1, Holding DEF MoveWrites, Moving, Wanted, HoldsTopic
  <2>3. /\ at' = [at EXCEPT ![t] = Reordered(w)] /\ topic' = [topic EXCEPT ![t] = Bumped(topic[t], r)] /\ Admitted(w)
    BY <1>4, <2>1 DEF MoveWrites
  <2>4. topic'[t].version = topic[t].version + 1 /\ \A u \in Topics \ {t} : topic'[u] = topic[u]
    BY <2>2, <2>3, BumpedRow DEF Inv, ShelfTypes
  <2>5. topic[t].version <= calls /\ topic[t].version \in Nat
    BY <2>1, <2>2 DEF ShelfReach, Inv, ShelfTypes
  <2>6. \A d \in Callers : Moving(d)' => Wanted(d)'.topic # t
    <3> SUFFICES ASSUME NEW d \in Callers, Moving(d)', Wanted(d)'.topic = t PROVE FALSE
      OBVIOUS
    <3>1. d # c /\ Moving(d) /\ Wanted(d).topic = t
      BY <1>2 DEF HoldersKept
    <3>2. HoldsTopic(d, t)
      BY <3>1 DEF Moving, Wanted, HoldsTopic
    <3> QED
      BY <2>2, <3>1, <3>2 DEF Inv, TopicsLockedOnce
  <2>7. \A u \in Topics : TopicReaches(u)
    BY <1>1, <2>4, <2>5, <2>6 DEF TopicReaches
  <2>8. \A n \in Notes : NoteReaches(n)
    BY <1>1 DEF NoteReaches
  <2>9. Fitting'
    <3> SUFFICES ASSUME NEW u \in Topics PROVE Cardinality(DOMAIN at'[u]) <= MemberMax
      BY DEF Fitting, Members
    <3>1. CASE u # t
      BY <2>3, <3>1 DEF Inv, ShelfTypes, ShelfReach, Members
    <3>2. CASE u = t
      <4>1. DOMAIN at'[t] = (Members(t) \ {w.note}) \cup {w.note}
        BY <2>1, <2>2, <2>3 DEF Inv, ShelfTypes, Reordered, Others
      <4>2. IsFiniteSet(Members(t)) /\ Cardinality(Members(t)) \in Nat /\ Cardinality(Members(t)) <= MemberMax
        BY <2>2, FS_CardinalityType DEF Numbered, Numbering, Members, ShelfReach
      <4>3. CASE w.note \in Members(t)
        <5>1. DOMAIN at'[t] = Members(t)
          BY <4>1, <4>3
        <5> QED
          BY <3>2, <4>2, <5>1
      <4>4. CASE w.note \notin Members(t)
        <5>1. DOMAIN at'[t] = Members(t) \cup {w.note}
          BY <4>1, <4>4
        <5>2. Cardinality(DOMAIN at'[t]) = Cardinality(Members(t)) + 1
          BY <4>2, <4>4, <5>1, FS_AddElement
        <5>3. Cardinality(Members(t)) < MemberMax
          BY <2>1, <2>3, <4>4 DEF Admitted
        <5> QED
          BY <3>2, <4>2, <5>2, <5>3, ShelfAssumption
      <4> QED
        BY <4>3, <4>4
    <3> QED
      BY <3>1, <3>2
  <2> QED
    BY <1>1, <1>2, <2>7, <2>8, <2>9, ReachStep
<1> QED
  BY <1>3, <1>4

(* Calls that write a topic at once.                                        *)
LEMMA CallReach ==
  ASSUME Inv, Inv', Numbered, ShelfReach, NEW c \in Callers, NEW r \in Requests,
         RemoveMember(c, r) \/ SaveTopic(c, r)
  PROVE  ShelfReach'
<1>1. /\ calls' = calls + 1 /\ calls' <= MaxCalls /\ calls \in Nat /\ asked[r].kind \in {"remove", "retitle"}
      /\ UNCHANGED <<asked, note>> /\ TopicFree(asked[r].topic)
  BY ShelfAssumption DEF RemoveMember, SaveTopic, Sends, Answered, ShelfReach
<1>2. PICK w : w = asked[r]
  OBVIOUS
<1>3. PICK t \in Topics : t = w.topic
  BY <1>1, <1>2, Kinds DEF Inv
<1>4. CASE Answered(c)
  BY <1>1, <1>4, LockReach DEF Answered
<1>5. CASE ~Answered(c)
  <2>1. UNCHANGED tx /\ (topic' = [topic EXCEPT ![t] = Bumped(topic[t], r)]
                         \/ topic' = [topic EXCEPT ![t] = [Bumped(topic[t], r) EXCEPT !.status = w.status]])
    BY <1>2, <1>3, <1>5 DEF RemoveMember, SaveTopic
  <2>2. topic'[t].version = topic[t].version + 1 /\ \A u \in Topics \ {t} : topic'[u] = topic[u]
    <3>1. topic[t] \in [version : Nat, last : Requests \cup {NoRequest}, status : Statuses]
      BY DEF Inv, ShelfTypes
    <3>2. Bumped(topic[t], r) = [version |-> topic[t].version + 1, last |-> r, status |-> topic[t].status]
      BY <3>1, BumpedTopic
    <3>3. [Bumped(topic[t], r) EXCEPT !.status = w.status].version = topic[t].version + 1
      BY <3>2
    <3>4. Bumped(topic[t], r).version = topic[t].version + 1
      BY <3>2
    <3> QED
      BY <2>1, <3>3, <3>4 DEF Inv, ShelfTypes
  <2>3. topic[t].version <= calls + 1 /\ topic[t].version \in Nat
    BY DEF ShelfReach, Inv, ShelfTypes
  <2>4. \A d \in Callers : Moving(d)' => Wanted(d)'.topic # t
    BY <1>1, <1>2, <1>3, <2>1 DEF TopicFree, HoldsTopic, Moving, Wanted
  <2>5. \A u \in Topics : TopicReaches(u)
    BY <1>1, <2>2, <2>3, <2>4 DEF TopicReaches
  <2>6. \A n \in Notes : NoteReaches(n)
    BY <1>1 DEF NoteReaches
  <2>7. Fitting'
    <3> SUFFICES ASSUME NEW u \in Topics PROVE Cardinality(DOMAIN at'[u]) <= MemberMax
      BY DEF Fitting, Members
    <3>1. CASE at'[u] = at[u]
      BY <3>1 DEF ShelfReach, Members
    <3>2. CASE u = t /\ at' = [at EXCEPT ![t] = Removed(w)]
      <4>1. DOMAIN at'[t] \subseteq Members(t)
        BY <1>3, <3>2 DEF Inv, ShelfTypes, Removed, Others
      <4>2. IsFiniteSet(Members(t)) /\ Cardinality(Members(t)) <= MemberMax
        BY DEF Numbered, Numbering, Members, ShelfReach
      <4>3. Cardinality(DOMAIN at'[t]) <= Cardinality(Members(t)) /\ Cardinality(DOMAIN at'[t]) \in Nat
            /\ Cardinality(Members(t)) \in Nat
        BY <4>1, <4>2, FS_Subset, FS_CardinalityType
      <4> QED
        BY <3>2, <4>2, <4>3, ShelfAssumption
    <3>3. UNCHANGED at \/ at' = [at EXCEPT ![t] = Removed(w)]
      BY <1>2, <1>3, <1>5 DEF RemoveMember, SaveTopic
    <3> QED
      BY <3>1, <3>2, <3>3 DEF Inv, ShelfTypes
  <2> QED
    BY <1>1, <2>5, <2>6, <2>7, ReachStep
<1> QED
  BY <1>4, <1>5

LEMMA SaveReach ==
  ASSUME Inv, Inv', ShelfReach, NEW c \in Callers, SaveWrites(c)
  PROVE  ShelfReach'
<1>1. calls' = calls /\ UNCHANGED <<topic, at, asked>> /\ Goes(c, Free) /\ calls \in Nat /\ calls <= MaxCalls
  BY DEF SaveWrites, ShelfReach
<1>2. HoldersKept /\ ~Moving(c)' /\ ~Saving(c)'
  BY <1>1, Freed
<1>3. PICK r, w, n : r = tx[c].req /\ w = asked[r] /\ n = w.note
  OBVIOUS
<1>4. Saving(c) /\ Wanted(c) = w /\ n \in Notes /\ r \in Requests /\ HoldsNote(c, n)
  BY <1>3, Holding DEF SaveWrites, Saving, Wanted, HoldsNote
<1>5. note' = [note EXCEPT ![n] = [Bumped(note[n], r) EXCEPT !.venues = w.venues]]
  BY <1>3 DEF SaveWrites
<1>6. note'[n].version = note[n].version + 1 /\ \A m \in Notes \ {n} : note'[m] = note[m]
  <2>1. note[n] \in [version : Nat, last : Requests \cup {NoRequest}, venues : SUBSET Venues]
    BY <1>4 DEF Inv, ShelfTypes
  <2>2. Bumped(note[n], r) = [version |-> note[n].version + 1, last |-> r, venues |-> note[n].venues]
    BY <1>4, <2>1, BumpedNote
  <2>3. [Bumped(note[n], r) EXCEPT !.venues = w.venues].version = note[n].version + 1
    BY <2>2
  <2> QED
    BY <1>4, <1>5, <2>3 DEF Inv, ShelfTypes
<1>7. note[n].version <= calls /\ note[n].version \in Nat
  BY <1>3, <1>4 DEF ShelfReach, Inv, ShelfTypes
<1>8. \A d \in Callers : Saving(d)' => Wanted(d)'.note # n
  <2> SUFFICES ASSUME NEW d \in Callers, Saving(d)', Wanted(d)'.note = n PROVE FALSE
    OBVIOUS
  <2>1. d # c /\ Saving(d) /\ Wanted(d).note = n
    BY <1>2 DEF HoldersKept
  <2>2. HoldsNote(d, n)
    BY <2>1 DEF Saving, Wanted, HoldsNote
  <2> QED
    BY <1>4, <2>1, <2>2 DEF Inv, NotesLockedOnce
<1>9. \A m \in Notes : NoteReaches(m)
  BY <1>1, <1>6, <1>7, <1>8 DEF NoteReaches
<1>10. \A t \in Topics : TopicReaches(t)
  BY <1>1 DEF TopicReaches
<1>11. Fitting'
  BY <1>1 DEF Fitting, ShelfReach, Members
<1> QED
  BY <1>1, <1>2, <1>9, <1>10, <1>11, ReachStep

RowsThere(c) ==
  /\ Moving(c) => topic[Wanted(c).topic].version # 0
  /\ Saving(c) => note[Wanted(c).note].version # 0

LEMMA CreateReach ==
  ASSUME Inv, Inv', ShelfReach, (\E n \in Notes : CreateNote(n)) \/ (\E t \in Topics : CreateTopic(t))
  PROVE  ShelfReach'
<1>1. calls' = calls /\ UNCHANGED <<at, asked, tx>> /\ calls \in Nat /\ calls <= MaxCalls
  BY DEF CreateNote, CreateTopic, ShelfReach
<1>2. HoldersKept
  BY <1>1 DEF HoldersKept, Moving, Saving, Wanted
<1>3. Fitting'
  BY <1>1 DEF Fitting, ShelfReach, Members
<1>4. \A c \in Callers : RowsThere(c)
  <2> SUFFICES ASSUME NEW c \in Callers PROVE RowsThere(c)
    OBVIOUS
  <2>1. Moving(c) \/ Saving(c) => Wanted(c).expected > 0 /\ Wanted(c).expected \in Nat
    <3>1. Moving(c) \/ Saving(c) => tx[c].req \in Requests /\ Wanted(c).kind \in {"move", "save"}
      BY Holding DEF Moving, Saving
    <3>2. Moving(c) \/ Saving(c) => Wanted(c) # Unasked
      BY <3>1 DEF Unasked
    <3> QED
      BY <3>1, <3>2, Holding DEF Inv, AskedFromARow, Wanted
  <2> QED
    BY <2>1 DEF Inv, HeldIsCurrent, RowsThere
<1>5. ASSUME NEW n \in Notes, CreateNote(n) PROVE (\A m \in Notes : NoteReaches(m)) /\ \A t \in Topics : TopicReaches(t)
  <2>1. note[n].version = 0 /\ UNCHANGED topic
    BY <1>5 DEF CreateNote
  <2>2. note'[n].version = 1 /\ \A m \in Notes \ {n} : note'[m] = note[m]
    BY <1>5 DEF CreateNote, Inv, ShelfTypes
  <2>3. ASSUME NEW c \in Callers, Saving(c)' PROVE Wanted(c)'.note # n
    <3>1. Saving(c) /\ Wanted(c)' = Wanted(c)
      BY <1>2, <2>3 DEF HoldersKept
    <3>2. note[Wanted(c).note].version # 0
      BY <1>4, <3>1 DEF RowsThere
    <3> QED
      BY <2>1, <3>1, <3>2
  <2> QED
    BY <1>1, <2>1, <2>2, <2>3 DEF NoteReaches, TopicReaches
<1>6. ASSUME NEW t \in Topics, CreateTopic(t) PROVE (\A m \in Notes : NoteReaches(m)) /\ \A u \in Topics : TopicReaches(u)
  <2>1. topic[t].version = 0 /\ UNCHANGED note
    BY <1>6 DEF CreateTopic
  <2>2. topic'[t].version = 1 /\ \A u \in Topics \ {t} : topic'[u] = topic[u]
    BY <1>6 DEF CreateTopic, Inv, ShelfTypes
  <2>3. ASSUME NEW c \in Callers, Moving(c)' PROVE Wanted(c)'.topic # t
    <3>1. Moving(c) /\ Wanted(c)' = Wanted(c)
      BY <1>2, <2>3 DEF HoldersKept
    <3>2. topic[Wanted(c).topic].version # 0
      BY <1>4, <3>1 DEF RowsThere
    <3> QED
      BY <2>1, <3>1, <3>2
  <2> QED
    BY <1>1, <2>1, <2>2, <2>3 DEF NoteReaches, TopicReaches
<1> QED
  BY <1>1, <1>2, <1>3, <1>5, <1>6, ReachStep

LEMMA ShelfReachNext == Inv /\ Inv' /\ Numbered /\ ShelfReach /\ [Next]_vars => ShelfReach'
<1> SUFFICES ASSUME Inv, Inv', Numbered, ShelfReach, [Next]_vars PROVE ShelfReach'
  OBVIOUS
<1>0. calls \in Nat /\ calls <= MaxCalls /\ MaxCalls \in Nat
  BY ShelfAssumption DEF ShelfReach
<1>1. CASE UNCHANGED vars
  <2>1. UNCHANGED <<note, topic, at, asked, tx, calls>>
    BY <1>1 DEF vars
  <2> QED
    BY <1>0, <2>1, LockReach DEF HoldersKept, Moving, Saving, Wanted
<1>2. ASSUME NEW r \in Requests, AskAny(r) PROVE ShelfReach'
  <2>1. asked[r] = Unasked /\ UNCHANGED <<note, topic, at, tx, calls>>
    BY <1>2 DEF AskAny, Ask
  <2>2. \A q \in Requests \ {r} : asked'[q] = asked[q]
    BY <1>2 DEF AskAny, Ask, Inv, ShelfTypes
  <2>3. \A c \in Callers : Moving(c) \/ Saving(c) => tx[c].req \in Requests \ {r}
    <3> SUFFICES ASSUME NEW c \in Callers, Moving(c) \/ Saving(c) PROVE tx[c].req \in Requests \ {r}
      OBVIOUS
    <3>1. tx[c].req \in Requests /\ asked[tx[c].req].kind \in {"move", "save"}
      BY Holding DEF Moving, Saving, Wanted
    <3> QED
      BY <2>1, <3>1 DEF Unasked
  <2>4. HoldersKept
    BY <2>1, <2>2, <2>3 DEF HoldersKept, Moving, Saving, Wanted
  <2> QED
    BY <1>0, <2>1, <2>4, LockReach
<1>3. ASSUME NEW c \in Callers, NEW r \in Requests, MoveLocksTopic(c, r) \/ SaveLocksNote(c, r) PROVE ShelfReach'
  <2>1. calls' = calls + 1 /\ calls' <= MaxCalls /\ UNCHANGED <<note, topic, at>>
    BY <1>0, <1>3 DEF MoveLocksTopic, SaveLocksNote, Sends, Answered
  <2> QED
    BY <1>0, <2>1, LockReach
<1>4. ASSUME NEW c \in Callers, MoveLocksNote(c) PROVE ShelfReach'
  <2>1. calls' = calls /\ UNCHANGED <<note, topic, at, asked>>
    BY <1>4 DEF MoveLocksNote, Answered
  <2>2. HoldersKept
    <3>1. CASE Goes(c, Free)
      BY <2>1, <3>1, Freed
    <3>2. CASE Goes(c, [tx[c] EXCEPT !.step = "both"])
      <4>1. tx[c].step = "topic" /\ tx[c] \in {Free} \cup [step : {"topic", "both", "note"}, req : Requests]
        BY <1>4 DEF MoveLocksNote, Inv, ShelfTypes
      <4>2. PICK q \in Requests : tx[c] = [step |-> "topic", req |-> q]
        BY <4>1 DEF Free
      <4>3. [tx[c] EXCEPT !.step = "both"] = [step |-> "both", req |-> q]
        BY <4>2
      <4>4. \A d \in Callers : tx'[d] = IF d = c THEN [step |-> "both", req |-> q] ELSE tx[d]
        BY <3>2, <4>3 DEF Goes, Inv, ShelfTypes
      <4> QED
        BY <2>1, <4>2, <4>4 DEF HoldersKept, Moving, Saving, Wanted
    <3> QED
      BY <1>4, <3>1, <3>2 DEF MoveLocksNote, Answered
  <2> QED
    BY <1>0, <2>1, <2>2, LockReach
<1>5. ASSUME NEW c \in Callers, Abort(c) PROVE ShelfReach'
  <2>1. Goes(c, Free) /\ UNCHANGED <<note, topic, at, asked, calls>>
    BY <1>5 DEF Abort
  <2> QED
    BY <1>0, <2>1, Freed, LockReach
<1> QED
  BY <1>1, <1>2, <1>3, <1>4, <1>5, MoveReach, CallReach, SaveReach, CreateReach DEF Next, Begin, Continue

LEMMA ShelfReachInit == Init => ShelfReach
<1> SUFFICES ASSUME Init PROVE ShelfReach
  OBVIOUS
<1>1. calls = 0 /\ calls \in 0 .. MaxCalls
  BY ShelfAssumption DEF Init
<1>2. \A n \in Notes : note[n].version \in {0, 1}
  BY DEF Init
<1>3. \A t \in Topics : topic[t].version \in {0, 1}
  BY DEF Init
<1>4. \A c \in Callers : ~Moving(c) /\ ~Saving(c)
  BY DEF Init, Moving, Saving, Free
<1>5. ASSUME NEW t \in Topics PROVE Cardinality(Members(t)) <= MemberMax
  <2>1. PICK ms \in SUBSET Notes : at[t] \in Bijection(ms, 0..Cardinality(ms) - 1) /\ Cardinality(ms) <= MemberMax
    BY DEF Init, Arranged
  <2>2. DOMAIN at[t] = ms
    BY <2>1 DEF Bijection, Injection
  <2> QED
    BY <2>1, <2>2 DEF Members
<1> QED
  BY <1>1, <1>2, <1>3, <1>4, <1>5 DEF ShelfReach

LEMMA ShelfTypesHold == Inv /\ Numbered /\ ShelfReach => TypeOK
<1> SUFFICES ASSUME Inv, Numbered, ShelfReach PROVE TypeOK
  OBVIOUS
<1>1. ShelfTypes /\ calls \in 0 .. MaxCalls /\ MaxCalls \in Nat /\ MemberMax \in Nat
  BY ShelfAssumption DEF Inv, ShelfReach
<1>2. \A n \in Notes : /\ note[n] \in [version : Nat, last : Requests \cup {NoRequest}, venues : SUBSET Venues]
                      /\ note[n].version <= calls + 1
  BY <1>1 DEF ShelfTypes, ShelfReach
<1>3. \A n \in Notes : note[n] \in [version : 0 .. MaxCalls + 1, last : Requests \cup {NoRequest}, venues : SUBSET Venues]
  BY <1>1, <1>2
<1>4. \A t \in Topics : /\ topic[t] \in [version : Nat, last : Requests \cup {NoRequest}, status : Statuses]
                       /\ topic[t].version <= calls + 1
  BY <1>1 DEF ShelfTypes, ShelfReach
<1>5. \A t \in Topics : topic[t] \in [version : 0 .. MaxCalls + 1, last : Requests \cup {NoRequest}, status : Statuses]
  BY <1>1, <1>4
<1>6. ASSUME NEW t \in Topics
      PROVE  Members(t) \subseteq Notes /\ at[t] \in [Members(t) -> 0 .. MemberMax - 1]
  <2>1. PICK f : f = at[t]
    OBVIOUS
  <2>2. IsFiniteSet(DOMAIN f) /\ f \in Bijection(DOMAIN f, 0 .. Cardinality(DOMAIN f) - 1)
    BY <2>1 DEF Numbered, Numbering
  <2>3. Cardinality(DOMAIN f) \in Nat /\ Cardinality(DOMAIN f) <= MemberMax
    BY <2>1, <2>2, FS_CardinalityType DEF ShelfReach, Members
  <2>4. f \in [DOMAIN f -> 0 .. Cardinality(DOMAIN f) - 1]
    BY <2>2 DEF Bijection, Injection
  <2>5. f \in [DOMAIN f -> 0 .. MemberMax - 1]
    BY <1>1, <2>3, <2>4
  <2> QED
    BY <1>1, <2>1, <2>5 DEF ShelfTypes, Members
<1>7. /\ note \in [Notes -> [version : 0 .. MaxCalls + 1, last : Requests \cup {NoRequest}, venues : SUBSET Venues]]
      /\ topic \in [Topics -> [version : 0 .. MaxCalls + 1, last : Requests \cup {NoRequest}, status : Statuses]]
  BY <1>1, <1>3, <1>5 DEF ShelfTypes
<1> QED
  BY <1>1, <1>6, <1>7 DEF TypeOK, ShelfTypes

-----------------------------------------------------------------------------
(* A call binds one sentence at most, if it has not done so yet.            *)
Absorbing == {r \in Writers : writers[r].at = "absorb"}
Attempting(t) == t.at \in {"captured", "append"} => t.attempt \in 0 .. SeqRetryLimit - 1
DiaryReach ==
  /\ inBook \in BOOLEAN /\ captures \in 0 .. MaxDiaryCalls
  /\ IsFiniteSet(Absorbing) /\ bound + Cardinality(Absorbing) <= captures
  /\ \A r \in Writers : Attempting(writers[r])

LEMMA DiaryStep ==
  ASSUME DiaryInv, DiaryInv', DiaryReach, NEW r \in Writers, NEW t, Diary!Goes(r, t), Attempting(t),
         inBook' \in BOOLEAN, captures' \in {captures, captures + 1}, captures' <= MaxDiaryCalls,
         \/ t.at # "absorb" /\ bound' = bound
         \/ t.at # "absorb" /\ bound' \in {bound, bound + 1} /\ (captures' = captures + 1 \/ writers[r].at = "absorb")
         \/ bound' = bound /\ captures' = captures + 1
  PROVE  DiaryReach'
<1>0. /\ bound \in Nat /\ bound' \in Nat /\ captures \in Nat /\ captures' \in Nat /\ MaxDiaryCalls \in Nat
      /\ IsFiniteSet(Absorbing) /\ Cardinality(Absorbing) \in Nat /\ bound + Cardinality(Absorbing) <= captures
  BY BoundsAssumption, FS_CardinalityType DEF DiaryInv, DiaryTypes, DiaryReach
<1>1. \A q \in Writers : writers'[q] = IF q = r THEN t ELSE writers[q]
  BY DEF Diary!Goes, DiaryInv, DiaryTypes
<1>2. \A q \in Writers : Attempting(writers'[q])
  BY <1>1 DEF DiaryReach
<1>3. CASE t.at # "absorb"
  <2>1. Absorbing' = Absorbing \ {r}
    BY <1>1, <1>3 DEF Absorbing
  <2>2. /\ IsFiniteSet(Absorbing')
        /\ Cardinality(Absorbing') = IF r \in Absorbing THEN Cardinality(Absorbing) - 1 ELSE Cardinality(Absorbing)
    BY <1>0, <2>1, FS_RemoveElement
  <2>3. writers[r].at = "absorb" => r \in Absorbing
    BY DEF Absorbing
  <2>4. bound' + Cardinality(Absorbing') <= captures'
    BY <1>0, <1>3, <2>2, <2>3
  <2> QED
    BY <1>0, <1>2, <2>2, <2>4 DEF DiaryReach
<1>4. CASE t.at = "absorb"
  <2>1. Absorbing' = Absorbing \cup {r}
    BY <1>1, <1>4 DEF Absorbing
  <2>2. IsFiniteSet(Absorbing') /\ Cardinality(Absorbing') <= Cardinality(Absorbing) + 1 /\ Cardinality(Absorbing') \in Nat
    <3>1. PICK A : A = Absorbing
      OBVIOUS
    <3>2. IsFiniteSet(A \cup {r}) /\ Cardinality(A \cup {r}) = IF r \in A THEN Cardinality(A) ELSE Cardinality(A) + 1
      BY <1>0, <3>1, FS_AddElement
    <3>3. Cardinality(A) \in Nat
      BY <1>0, <3>1
    <3>4. Absorbing' = A \cup {r}
      BY <2>1, <3>1
    <3> QED
      BY <3>1, <3>2, <3>3, <3>4
  <2>3. bound' + Cardinality(Absorbing') <= captures'
    BY <1>0, <1>4, <2>2
  <2> QED
    BY <1>0, <1>2, <2>2, <2>3 DEF DiaryReach
<1> QED
  BY <1>3, <1>4

LEMMA DiaryReachNext == DiaryInv /\ DiaryInv' /\ DiaryReach /\ [Diary!Next]_Diary!vars => DiaryReach'
<1> SUFFICES ASSUME DiaryInv, DiaryInv', DiaryReach, [Diary!Next]_Diary!vars PROVE DiaryReach'
  OBVIOUS
<1>0. /\ captures \in Nat /\ captures <= MaxDiaryCalls /\ inBook \in BOOLEAN /\ SeqRetryLimit - 1 \in Nat
      /\ Diary!Free.at = "free"
  BY BoundsAssumption DEF DiaryReach, Diary!Free
<1>1. CASE UNCHANGED Diary!vars
  <2>1. UNCHANGED <<inBook, bound, writers, captures>>
    BY <1>1 DEF Diary!vars
  <2> QED
    BY <2>1 DEF DiaryReach, Absorbing
<1>2. ASSUME NEW r \in Writers, Diary!Begins(r)
      PROVE  captures' = captures + 1 /\ captures' <= MaxDiaryCalls
  BY <1>0, <1>2, BoundsAssumption DEF Diary!Begins
<1>3. ASSUME NEW r \in Writers, Diary!Capture(r) PROVE DiaryReach'
  <2> DEFINE t == [at |-> "captured", attempt |-> 0]
  <2>1. Attempting(t) /\ t.at # "absorb"
    BY <1>0 DEF Attempting
  <2>3. Diary!Goes(r, t)
    BY <1>3 DEF Diary!Capture
  <2>4. bound' \in {bound, bound + 1}
    BY <1>3 DEF Diary!Capture
  <2>5. inBook' \in BOOLEAN
    BY <1>0, <1>3 DEF Diary!Capture, Diary!KeptBook
  <2>2. captures' = captures + 1 /\ captures' <= MaxDiaryCalls
    BY <1>2, <1>3 DEF Diary!Capture
  <2> HIDE DEF t
  <2> QED
    BY <2>1, <2>2, <2>3, <2>4, <2>5, DiaryStep
<1>4. ASSUME NEW r \in Writers, Diary!AppendBegin(r) PROVE DiaryReach'
  <2>1. UNCHANGED <<inBook, bound>>
    BY <1>4 DEF Diary!AppendBegin
  <2>2. CASE Diary!Begins(r) /\ Diary!Goes(r, [at |-> "append", attempt |-> 0, seq |-> Diary!NextSeq])
    <3> DEFINE t == [at |-> "append", attempt |-> 0, seq |-> Diary!NextSeq]
    <3>1. Attempting(t) /\ t.at # "absorb"
      BY <1>0 DEF Attempting
    <3> HIDE DEF t
    <3> QED
      BY <1>0, <1>2, <2>1, <2>2, <3>1, DiaryStep DEF t
  <2>3. CASE /\ writers[r].at = "captured" /\ UNCHANGED captures
             /\ Diary!Goes(r, [at |-> "append", attempt |-> writers[r].attempt, seq |-> Diary!NextSeq])
    <3> DEFINE t == [at |-> "append", attempt |-> writers[r].attempt, seq |-> Diary!NextSeq]
    <3>1. Attempting(writers[r])
      BY DEF DiaryReach
    <3>2. Attempting(t) /\ t.at # "absorb"
      BY <2>3, <3>1 DEF Attempting
    <3> HIDE DEF t
    <3> QED
      BY <1>0, <2>1, <2>3, <3>2, DiaryStep DEF t
  <2> QED
    BY <1>4, <2>2, <2>3 DEF Diary!AppendBegin
<1>5. ASSUME NEW r \in Writers, Diary!AppendEnd(r) PROVE DiaryReach'
  <2>1. writers[r].at = "append" /\ UNCHANGED <<inBook, bound, captures>>
    BY <1>5 DEF Diary!AppendEnd
  <2>2. PICK t : /\ Diary!Goes(r, t)
                 /\ \/ t = Diary!Free
                    \/ Diary!MayRetry(writers[r].attempt) /\ t = [at |-> "captured", attempt |-> writers[r].attempt + 1]
    BY <1>5 DEF Diary!AppendEnd
  <2>3. writers[r].attempt \in 0 .. SeqRetryLimit - 1
    BY <2>1 DEF DiaryReach, Attempting
  <2>4. Attempting(t) /\ t.at # "absorb"
    BY <1>0, <2>2, <2>3 DEF Attempting, Diary!MayRetry
  <2> QED
    BY <1>0, <2>1, <2>2, <2>4, DiaryStep
<1>6. ASSUME NEW r \in Writers, NEW e \in Entries, NEW s \in {"raw", "reviewed"} \cup Diary!Final, Diary!PatchRead(r, e, s)
      PROVE  DiaryReach'
  <2> DEFINE t == [at |-> "patch", entry |-> e, status |-> s]
  <2>1. Attempting(t) /\ t.at # "absorb" /\ Diary!Goes(r, t) /\ UNCHANGED <<inBook, bound>> /\ Diary!Begins(r)
    BY <1>6 DEF Attempting, Diary!PatchRead
  <2> HIDE DEF t
  <2> QED
    BY <1>0, <1>2, <2>1, DiaryStep
<1>7. ASSUME NEW r \in Writers, NEW e \in Entries, NEW a \in Diary!Actions, Diary!AbsorbRead(r, e, a)
      PROVE  DiaryReach'
  <2> DEFINE t == [at |-> "absorb", entry |-> e, action |-> a, found |-> bound > 0]
  <2>1. Attempting(t) /\ Diary!Goes(r, t) /\ UNCHANGED <<inBook, bound>> /\ Diary!Begins(r)
    BY <1>7 DEF Attempting, Diary!AbsorbRead
  <2> HIDE DEF t
  <2> QED
    BY <1>0, <1>2, <2>1, DiaryStep
<1>8. ASSUME NEW r \in Writers, Diary!PatchWrite(r) \/ Diary!Dies(r)
      PROVE  DiaryReach'
  <2>1. Diary!Goes(r, Diary!Free) /\ UNCHANGED <<inBook, bound, captures>>
    BY <1>8 DEF Diary!PatchWrite, Diary!Dies
  <2>2. Attempting(Diary!Free)
    BY <1>0 DEF Attempting
  <2> QED
    BY <1>0, <2>1, <2>2, DiaryStep
<1>9. ASSUME NEW r \in Writers, Diary!AbsorbWrite(r)
      PROVE  DiaryReach'
  <2>1. /\ Diary!Goes(r, Diary!Free) /\ UNCHANGED captures /\ bound' \in {bound, bound + 1} /\ inBook' \in BOOLEAN
        /\ writers[r].at = "absorb"
    BY <1>9 DEF Diary!AbsorbWrite
  <2>2. Attempting(Diary!Free)
    BY <1>0 DEF Attempting
  <2> QED
    BY <1>0, <2>1, <2>2, DiaryStep
<1> QED
  BY <1>1, <1>3, <1>4, <1>5, <1>6, <1>7, <1>8, <1>9 DEF Diary!Next, Diary!Step

LEMMA DiaryReachInit == Diary!Init => DiaryReach
<1> SUFFICES ASSUME Diary!Init PROVE DiaryReach
  OBVIOUS
<1>1. inBook = FALSE /\ bound = 0 /\ captures = 0 /\ \A r \in Writers : writers[r].at = "free"
  BY DEF Diary!Init, Diary!Free
<1>2. Absorbing = {}
  BY <1>1 DEF Absorbing
<1>3. IsFiniteSet(Absorbing) /\ Cardinality(Absorbing) = 0
  BY <1>2, FS_EmptySet
<1>4. \A r \in Writers : Attempting(writers[r])
  BY <1>1 DEF Attempting
<1>5. captures \in 0 .. MaxDiaryCalls /\ bound + Cardinality(Absorbing) <= captures
  BY <1>1, <1>3, BoundsAssumption
<1> QED
  BY <1>1, <1>3, <1>4, <1>5 DEF DiaryReach

LEMMA DiaryTypesHold == DiaryInv /\ DiaryReach => Diary!TypeOK
<1> SUFFICES ASSUME DiaryInv, DiaryReach PROVE Diary!TypeOK
  OBVIOUS
<1>1. bound \in 0 .. MaxDiaryCalls /\ captures \in 0 .. MaxDiaryCalls
  <2>1. bound \in Nat /\ Cardinality(Absorbing) \in Nat /\ bound + Cardinality(Absorbing) <= captures
        /\ captures \in Nat /\ captures <= MaxDiaryCalls /\ MaxDiaryCalls \in Nat
    BY BoundsAssumption, FS_CardinalityType DEF DiaryInv, DiaryTypes, DiaryReach
  <2> QED
    BY <2>1
<1>2. ASSUME NEW r \in Writers PROVE writers[r] \in Diary!Requesting
  <2>1. PICK t \in DiaryRequest : t = writers[r]
    BY DEF DiaryInv, DiaryTypes
  <2>2. Attempting(t)
    BY <2>1 DEF DiaryReach
  <2>3. t.at = "append" => t.seq \in 1 .. Diary!Cardinality(Entries) + 1
    <3>1. Diary!Rows \subseteq Entries
      BY DEF Diary!Rows
    <3>2. /\ Cardinality(Diary!Rows) <= Cardinality(Entries) /\ Cardinality(Diary!Rows) \in Nat
          /\ Cardinality(Entries) \in Nat
      BY <3>1, EntriesAssumption, FS_Subset, FS_CardinalityType
    <3>3. t.at = "append" => t.seq \in 1 .. Cardinality(Diary!Rows) + 1
      BY <2>1 DEF DiaryInv, DrawnInReach
    <3>4. t.at = "append" => t.seq \in 1 .. Cardinality(Entries) + 1
      BY <3>2, <3>3
    <3> QED
      BY <3>4, CardinalityIs
  <2>4. t \in Diary!Requesting
    <3>1. CASE t = Diary!Free
      BY <3>1 DEF Diary!Requesting
    <3>2. CASE t \in [at : {"captured"}, attempt : Nat]
      <4>1. t.at = "captured" /\ t = [at |-> t.at, attempt |-> t.attempt] /\ t.attempt \in 0 .. SeqRetryLimit - 1
        BY <2>2, <3>2 DEF Attempting
      <4>2. t \in [at : {"captured"}, attempt : 0 .. SeqRetryLimit - 1]
        BY <4>1
      <4> QED
        BY <4>2 DEF Diary!Requesting
    <3>3. CASE t \in [at : {"append"}, attempt : Nat, seq : Nat]
      <4>1. t.at = "append" /\ t = [at |-> t.at, attempt |-> t.attempt, seq |-> t.seq]
            /\ t.attempt \in 0 .. SeqRetryLimit - 1
        BY <2>2, <3>3 DEF Attempting
      <4>2. t \in [at : {"append"}, attempt : 0 .. SeqRetryLimit - 1, seq : 1 .. Diary!Cardinality(Entries) + 1]
        BY <2>3, <4>1
      <4> QED
        BY <4>2 DEF Diary!Requesting
    <3>4. CASE t \in [at : {"patch"}, entry : Entries, status : {"raw", "reviewed"} \cup Diary!Final]
      BY <3>4 DEF Diary!Requesting
    <3>5. CASE t \in [at : {"absorb"}, entry : Entries, action : Diary!Actions, found : BOOLEAN]
      BY <3>5 DEF Diary!Requesting
    <3> QED
      BY <3>1, <3>2, <3>3, <3>4, <3>5 DEF DiaryRequest
  <2> QED
    BY <2>1, <2>4
<1>3. writers \in [Writers -> Diary!Requesting]
  BY <1>2 DEF DiaryInv, DiaryTypes
<1> QED
  BY <1>1, <1>3 DEF Diary!TypeOK, DiaryInv, DiaryTypes, DiaryReach

-----------------------------------------------------------------------------
(* A request counts once at most, when its answer has come.                 *)
LadderReach ==
  /\ runs <= MaxRuns /\ sends <= MaxSends /\ stored.session.run <= runs
  /\ IsFiniteSet(posts) /\ stored.count + Cardinality(posts) <= sends

RunsStay == runs' = runs /\ stored'.session.run \in {0, stored.session.run}
RunBegins == runs' = runs + 1 /\ runs < MaxRuns /\ stored'.session.run = runs'
PostsStay ==
  /\ sends' = sends /\ stored'.count = stored.count
  /\ IsFiniteSet(posts') /\ Cardinality(posts') <= Cardinality(posts)
PostMade ==
  /\ sends' = sends + 1 /\ sends < MaxSends /\ stored'.count = stored.count
  /\ IsFiniteSet(posts') /\ Cardinality(posts') <= Cardinality(posts) + 1
PostAnswered ==
  /\ sends' = sends /\ stored'.count \in {stored.count, stored.count + 1}
  /\ IsFiniteSet(posts') /\ Cardinality(posts') = Cardinality(posts) - 1

LEMMA LadderStep ==
  ASSUME LadderInv, LadderInv', LadderReach, RunsStay \/ RunBegins, PostsStay \/ PostMade \/ PostAnswered
  PROVE  LadderReach'
<1>1. /\ runs \in Nat /\ sends \in Nat /\ stored.session.run \in Nat /\ stored.count \in Nat /\ Cardinality(posts) \in Nat
      /\ runs' \in Nat /\ sends' \in Nat /\ MaxRuns \in Nat /\ MaxSends \in Nat
  <2>1. Cardinality(posts) \in Nat
    BY FS_CardinalityType DEF LadderReach
  <2> QED
    BY <2>1, BoundsAssumption DEF LadderInv, LadderTypes, StoredType, SessionType
<1>2. IsFiniteSet(posts') /\ Cardinality(posts') \in Nat /\ stored'.count \in Nat
  <2>1. IsFiniteSet(posts')
    BY DEF PostsStay, PostMade, PostAnswered
  <2> QED
    BY <1>1, <2>1, FS_CardinalityType DEF PostsStay, PostMade, PostAnswered
<1>3. runs' <= MaxRuns /\ stored'.session.run <= runs'
  BY <1>1 DEF LadderReach, RunsStay, RunBegins
<1>4. sends' <= MaxSends /\ stored'.count + Cardinality(posts') <= sends'
  BY <1>1, <1>2 DEF LadderReach, PostsStay, PostMade, PostAnswered
<1> QED
  BY <1>2, <1>3, <1>4 DEF LadderReach

(* Requests are replaced, made and answered one at a time.                  *)
LEMMA PostSets ==
  ASSUME LadderReach, NEW p \in posts, NEW q
  PROVE  /\ IsFiniteSet(posts \ {p}) /\ Cardinality(posts \ {p}) = Cardinality(posts) - 1
         /\ IsFiniteSet(posts \cup {q}) /\ Cardinality(posts \cup {q}) <= Cardinality(posts) + 1
         /\ IsFiniteSet((posts \ {p}) \cup {q}) /\ Cardinality((posts \ {p}) \cup {q}) <= Cardinality(posts)
<1>1. IsFiniteSet(posts) /\ Cardinality(posts) \in Nat
  BY FS_CardinalityType DEF LadderReach
<1>2. IsFiniteSet(posts \ {p}) /\ Cardinality(posts \ {p}) = Cardinality(posts) - 1
  BY <1>1, FS_RemoveElement
<1>3. ASSUME NEW S, IsFiniteSet(S)
      PROVE  IsFiniteSet(S \cup {q}) /\ Cardinality(S \cup {q}) <= Cardinality(S) + 1
  <2>1. Cardinality(S) \in Nat /\ IsFiniteSet(S \cup {q})
        /\ Cardinality(S \cup {q}) = IF q \in S THEN Cardinality(S) ELSE Cardinality(S) + 1
    BY <1>3, FS_AddElement, FS_CardinalityType
  <2> QED
    BY <2>1
<1>4. IsFiniteSet(posts \cup {q}) /\ Cardinality(posts \cup {q}) <= Cardinality(posts) + 1
  BY <1>1, <1>3
<1>5. /\ IsFiniteSet((posts \ {p}) \cup {q}) /\ Cardinality((posts \ {p}) \cup {q}) \in Nat
      /\ Cardinality((posts \ {p}) \cup {q}) <= Cardinality(posts \ {p}) + 1
  BY <1>2, <1>3, FS_CardinalityType
<1> QED
  BY <1>1, <1>2, <1>4, <1>5

LEMMA PostAdded ==
  ASSUME LadderReach, NEW q
  PROVE  IsFiniteSet(posts \cup {q}) /\ Cardinality(posts \cup {q}) <= Cardinality(posts) + 1
<1>1. IsFiniteSet(posts) /\ Cardinality(posts) \in Nat
  BY FS_CardinalityType DEF LadderReach
<1>2. IsFiniteSet(posts \cup {q})
      /\ Cardinality(posts \cup {q}) = IF q \in posts THEN Cardinality(posts) ELSE Cardinality(posts) + 1
  BY <1>1, FS_AddElement
<1> QED
  BY <1>1, <1>2

LEMMA SamePosts ==
  ASSUME LadderReach, UNCHANGED <<posts, sends>>, stored'.count = stored.count PROVE PostsStay
<1>1. IsFiniteSet(posts) /\ Cardinality(posts) \in Nat
  BY FS_CardinalityType DEF LadderReach
<1> QED
  BY <1>1 DEF PostsStay

LEMMA WaitingReach ==
  ASSUME LadderReach, NEW from, NEW to, Ladder!Waiting(from, to), UNCHANGED <<stored, sends>> PROVE PostsStay
<1> DEFINE f(p) == IF p.waits \in from THEN [p EXCEPT !.waits = to] ELSE p
           g == [p \in posts |-> f(p)]
<1>1. IsFiniteSet(posts) /\ Cardinality(posts) \in Nat
  BY FS_CardinalityType DEF LadderReach
<1>2. posts' = {f(p) : p \in posts}
  BY DEF Ladder!Waiting
<1> HIDE DEF f
<1>3. g \in [posts -> posts'] /\ \A q \in posts' : \E p \in posts : g[p] = q
  BY <1>2
<1> HIDE DEF g
<1>4. g \in Surjection(posts, posts')
  BY <1>3 DEF Surjection
<1>5. IsFiniteSet(posts') /\ Cardinality(posts') <= Cardinality(posts)
  BY <1>1, <1>4, FS_Surjection
<1> QED
  BY <1>5 DEF PostsStay

LEMMA CachedHolds ==
  ASSUME stored \in StoredType, NEW s, Ladder!Cached(s)
  PROVE  stored'.session = s /\ stored'.count = stored.count
  BY DEF Ladder!Cached, StoredType

LEMMA MountReach ==
  ASSUME LadderInv, NEW s, s = Ladder!NoSession \/ s = stored.session, Ladder!Mount(s)
  PROVE  (RunsStay \/ RunBegins) /\ stored'.count = stored.count
<1>1. stored \in StoredType /\ stored.session \in SessionType /\ runs \in Nat
  BY DEF LadderInv, LadderTypes, StoredType
<1>2. CASE s.visits = <<>>
  <2>1. Ladder!Begin
    BY <1>2 DEF Ladder!Mount
  <2>2. PICK b, e : e = [Ladder!NoSession EXCEPT !.run = runs + 1, !.visits = b] /\ Ladder!Cached(e)
    BY <2>1 DEF Ladder!Begin
  <2>3. e.run = runs + 1
    BY <2>2 DEF Ladder!NoSession
  <2>4. stored'.session = e /\ stored'.count = stored.count
    BY <1>1, <2>2, CachedHolds
  <2>5. runs' = runs + 1 /\ runs < MaxRuns
    BY <2>1 DEF Ladder!Begin
  <2> QED
    BY <2>3, <2>4, <2>5 DEF RunBegins
<1>3. CASE s.visits # <<>>
  <2>1. s = stored.session
    BY <1>3, Blanks
  <2>2. PICK k, e : e = [s EXCEPT !.keys = k] /\ Ladder!Cached(e)
    BY <1>3 DEF Ladder!Mount, Ladder!Restore
  <2>3. e.run = stored.session.run
    BY <1>1, <2>1, <2>2 DEF SessionType
  <2>4. stored'.session = e /\ stored'.count = stored.count
    BY <1>1, <2>2, CachedHolds
  <2>5. runs' = runs
    BY <1>3 DEF Ladder!Mount, Ladder!Restore
  <2> QED
    BY <2>3, <2>4, <2>5 DEF RunsStay
<1> QED
  BY <1>2, <1>3

LEMMA EnterReach ==
  ASSUME LadderInv, LadderInv', LadderReach, NEW s, s = Ladder!NoSession \/ s = stored.session, Ladder!Enter(s)
  PROVE  LadderReach'
<1>1. UNCHANGED <<posts, sends>>
  BY DEF Ladder!Enter
<1>2. (RunsStay \/ RunBegins) /\ stored'.count = stored.count
  <2>1. CASE Ladder!LimitReached
    <3>1. Ladder!Cached(s) /\ runs' = runs
      BY <2>1 DEF Ladder!Enter
    <3>2. stored'.session = s /\ stored'.count = stored.count
      BY <3>1, CachedHolds DEF LadderInv, LadderTypes
    <3>3. s.run \in {0, stored.session.run}
      BY Blanks
    <3> QED
      BY <3>1, <3>2, <3>3 DEF RunsStay
  <2>2. CASE ~Ladder!LimitReached
    BY <2>2, MountReach DEF Ladder!Enter
  <2> QED
    BY <2>1, <2>2
<1> QED
  BY <1>1, <1>2, SamePosts, LadderStep

(* The session shown is cached, moved by a step.                            *)
LEMMA ShownReach ==
  ASSUME LadderInv, LadderInv', LadderReach, Ladder!Open, UNCHANGED <<runs, posts, sends>>,
         page'.session.run = Ladder!Session.run, Ladder!Cached(page'.session)
  PROVE  LadderReach'
<1>1. stored'.session = page'.session /\ stored'.count = stored.count
  BY CachedHolds DEF LadderInv, LadderTypes
<1>2. Ladder!Session.run = stored.session.run
  BY DEF LadderInv, SessionInv, PageIsCached
<1> QED
  BY <1>1, <1>2, SamePosts, LadderStep DEF RunsStay

LEMMA SubmitReach ==
  ASSUME LadderInv, LadderInv', LadderReach, NEW w, Ladder!Submit(w)
  PROVE  LadderReach'
<1>1. PICK k : stored' = [stored EXCEPT !.keys = k]
  BY DEF Ladder!Submit
<1>2. stored'.session = stored.session /\ stored'.count = stored.count
  BY <1>1 DEF LadderInv, LadderTypes, StoredType
<1>3. PICK q : posts' = posts \cup {q}
  BY DEF Ladder!Submit
<1>4. IsFiniteSet(posts') /\ Cardinality(posts') <= Cardinality(posts) + 1
  BY <1>3, PostAdded
<1>5. runs' = runs /\ sends' = sends + 1 /\ sends < MaxSends
  BY DEF Ladder!Submit
<1> QED
  BY <1>2, <1>4, <1>5, LadderStep DEF RunsStay, PostMade

LEMMA AnswerReach ==
  ASSUME LadderInv, LadderInv', LadderReach, NEW p \in posts, Ladder!Answer(p)
  PROVE  LadderReach'
<1>1. PICK s : s = IF p.waits = "page" THEN Ladder!AfterAnswer(p) ELSE stored.session
  OBVIOUS
<1>2. s.run = stored.session.run
  <2>1. CASE p.waits = "page"
    <3>1. Ladder!Open
      BY <2>1, NothingWaits DEF LadderInv
    <3>2. s.run = Ladder!Session.run
      BY <1>1, <2>1, AfterAnswerIs
    <3> QED
      BY <3>1, <3>2 DEF LadderInv, SessionInv, PageIsCached
  <2> QED
    BY <1>1, <2>1
<1>3. stored' = [stored EXCEPT !.session = s, !.count = IF Ladder!Counts(p) THEN @ + 1 ELSE @]
  BY <1>1 DEF Ladder!Answer
<1>4. stored'.session = s /\ stored'.count \in {stored.count, stored.count + 1}
  BY <1>3 DEF LadderInv, LadderTypes, StoredType
<1>5. posts' = posts \ {p} /\ runs' = runs /\ sends' = sends
  BY DEF Ladder!Answer
<1>6. IsFiniteSet(posts') /\ Cardinality(posts') = Cardinality(posts) - 1
  BY <1>5, PostSets
<1> QED
  BY <1>2, <1>4, <1>5, <1>6, LadderStep DEF RunsStay, PostAnswered

LEMMA LadderReachNext == LadderInv /\ LadderInv' /\ LadderReach /\ [Ladder!Next]_Ladder!vars => LadderReach'
<1> SUFFICES ASSUME LadderInv, LadderInv', LadderReach, [Ladder!Next]_Ladder!vars PROVE LadderReach'
  OBVIOUS
<1>0. page \in PageType /\ page.session \in SessionType
  BY DEF LadderInv, LadderTypes, PageType
<1>1. CASE UNCHANGED Ladder!vars
  BY <1>1, SamePosts, LadderStep DEF Ladder!vars, RunsStay
<1>2. CASE Ladder!Start \/ Ladder!Continue
  BY <1>2, EnterReach DEF Ladder!Start, Ladder!Continue
<1>3. CASE Ladder!Sprint
  BY <1>3, MountReach, SamePosts, LadderStep DEF Ladder!Sprint
<1>4. CASE Ladder!Pass
  <2>1. page'.session.run = Ladder!Session.run
    BY <1>0, <1>4 DEF Ladder!Pass, Ladder!Session, PageType, SessionType
  <2> QED
    BY <1>4, <2>1, ShownReach DEF Ladder!Pass, Ladder!Working
<1>5. CASE Ladder!Dictate
  BY <1>5, SubmitReach DEF Ladder!Dictate
<1>6. CASE Ladder!RetrySubmit
  <2>1. CASE Ladder!Current.word \in Ladder!Session.written
    BY <1>6, <2>1, SubmitReach DEF Ladder!RetrySubmit
  <2>2. CASE Ladder!Current.word \notin Ladder!Session.written
    <3>1. /\ page' = [page EXCEPT !.session.pos = @ + 1, !.fired = FALSE]
          /\ Ladder!Cached(page'.session) /\ UNCHANGED <<posts, runs, sends>> /\ Ladder!Open
      BY <1>6, <2>2 DEF Ladder!RetrySubmit, Ladder!Working
    <3>2. page'.session.run = page.session.run
      BY <1>0, <3>1 DEF PageType, SessionType
    <3> QED
      BY <3>1, <3>2, ShownReach DEF Ladder!Session
  <2> QED
    BY <2>1, <2>2
<1>7. CASE Ladder!Retest
  <2>1. UNCHANGED <<stored, posts, runs, sends>>
    BY <1>7 DEF Ladder!Retest
  <2> QED
    BY <2>1, SamePosts, LadderStep DEF RunsStay
<1>8. CASE Ladder!StepBack
  <2>1. page'.session.run = Ladder!Session.run
    BY <1>0, <1>8 DEF Ladder!StepBack, Ladder!Forgiven, Ladder!Session, PageType, SessionType
  <2> QED
    BY <1>8, <2>1, ShownReach DEF Ladder!StepBack
<1>9. CASE Ladder!Leave \/ Ladder!Reload
  <2>1. UNCHANGED <<stored, runs, sends>> /\ \E from, to : Ladder!Waiting(from, to)
    BY <1>9 DEF Ladder!Leave, Ladder!Reload
  <2> QED
    BY <2>1, WaitingReach, LadderStep DEF RunsStay
<1>10. CASE Ladder!Close
  <2>1. stored' = [stored EXCEPT !.session = Ladder!NoSession, !.keys = Ladder!NoKeys] /\ UNCHANGED <<posts, runs, sends>>
    BY <1>10 DEF Ladder!Close
  <2>2. stored'.session = Ladder!NoSession /\ stored'.count = stored.count
    BY <2>1 DEF LadderInv, LadderTypes, StoredType
  <2>3. stored'.session.run = 0
    BY <2>2, Blanks
  <2> QED
    BY <2>1, <2>2, <2>3, SamePosts, LadderStep DEF RunsStay
<1>11. ASSUME NEW p \in posts, Ladder!Handle(p) \/ Ladder!Fail(p) PROVE LadderReach'
  <2>1. PICK q : posts' = (posts \ {p}) \cup {q}
    BY <1>11 DEF Ladder!Handle, Ladder!Fail
  <2>2. IsFiniteSet(posts') /\ Cardinality(posts') <= Cardinality(posts)
    BY <2>1, PostSets
  <2>3. UNCHANGED <<stored, runs, sends>>
    BY <1>11 DEF Ladder!Handle, Ladder!Fail
  <2> QED
    BY <2>2, <2>3, LadderStep DEF RunsStay, PostsStay
<1>12. ASSUME NEW p \in posts, Ladder!Answer(p) PROVE LadderReach'
  BY <1>12, AnswerReach
<1> QED
  BY <1>1, <1>2, <1>3, <1>4, <1>5, <1>6, <1>7, <1>8, <1>9, <1>10, <1>11, <1>12 DEF Ladder!Next, Ladder!User

LEMMA LadderReachInit == Ladder!Init => LadderReach
<1> SUFFICES ASSUME Ladder!Init PROVE LadderReach
  OBVIOUS
<1>1. posts = {} /\ runs = 0 /\ sends = 0 /\ stored.session = Ladder!NoSession /\ stored.count = 0
  BY DEF Ladder!Init
<1>2. stored.session.run = 0
  BY <1>1, Blanks
<1>3. IsFiniteSet(posts) /\ Cardinality(posts) = 0
  BY <1>1, FS_EmptySet
<1>4. runs <= MaxRuns /\ sends <= MaxSends /\ stored.count + Cardinality(posts) <= sends
  BY <1>1, <1>3, BoundsAssumption
<1> QED
  BY <1>1, <1>2, <1>3, <1>4 DEF LadderReach

SessionFits(s) ==
  /\ s.run \in 0 .. MaxRuns /\ Ladder!ToSet(s.visits) \subseteq Ladder!Visit /\ s.pos \in 1 .. Len(s.visits) + 1
  /\ Ladder!ToSet(s.rows) \subseteq Words /\ s.written \subseteq Words /\ s.keys \in Ladder!KeysOfDay

LEMMA LadderTypesHold == LadderInv /\ LadderReach => Ladder!TypeOK
<1> SUFFICES ASSUME LadderInv, LadderReach PROVE Ladder!TypeOK
  OBVIOUS
<1>1. /\ LadderTypes /\ KeysInv /\ SessionInv /\ MaxRuns \in Nat /\ MaxSends \in Nat
      /\ runs \in 0 .. MaxRuns /\ sends \in 0 .. MaxSends /\ stored.count \in 0 .. MaxSends
  <2>1. Cardinality(posts) \in Nat
    BY FS_CardinalityType DEF LadderReach
  <2> QED
    BY <2>1, BoundsAssumption DEF LadderReach, LadderInv, LadderTypes, StoredType
<1>2. \A x \in Used : x.run \in 1 .. MaxRuns /\ x.key \in 1 .. MaxSends
  BY <1>1 DEF KeysInv, UsedInReach
<1>3. answers \subseteq [run : 1 .. MaxRuns, word : Words, key : 1 .. MaxSends]
  <2> SUFFICES ASSUME NEW a \in answers PROVE a \in [run : 1 .. MaxRuns, word : Words, key : 1 .. MaxSends]
    OBVIOUS
  <2>1. a \in [run : Nat, word : Words, key : Nat] /\ a \in Used
    BY <1>1 DEF LadderTypes, Used
  <2> QED
    BY <1>2, <2>1
<1>4. ASSUME NEW k \in [Words -> Nat], Traced(k) PROVE k \in Ladder!KeysOfDay
  <2>1. \A w \in Words : k[w] \in 0 .. MaxSends
    BY <1>1, <1>2, <1>4 DEF Traced, Ladder!NoKey
  <2> QED
    BY <2>1 DEF Ladder!KeysOfDay
<1>5. ASSUME NEW s \in SessionType, s.run <= runs, s.pos <= Len(s.visits) + 1, Traced(s.keys) PROVE SessionFits(s)
  <2>1. s.run \in 0 .. MaxRuns
    BY <1>1, <1>5 DEF SessionType
  <2>2. s.pos \in 1 .. Len(s.visits) + 1
    BY <1>5 DEF SessionType
  <2>3. Ladder!ToSet(s.visits) \subseteq Ladder!Visit /\ Ladder!ToSet(s.rows) \subseteq Words /\ s.written \subseteq Words
    BY DEF SessionType, Ladder!ToSet
  <2>4. s.keys \in Ladder!KeysOfDay
    BY <1>4, <1>5 DEF SessionType
  <2> QED
    BY <2>1, <2>2, <2>3, <2>4 DEF SessionFits
<1>6. SessionFits(stored.session)
  BY <1>1, <1>5, SessionTypes DEF LadderReach, SessionInv, Sound, KeysInv, KeysAreUsed
<1>7. SessionFits(page.session)
  <2>1. page.session = Ladder!Session /\ page.session \in SessionType /\ Traced(page.session.keys)
    BY <1>1, SessionTypes DEF KeysInv, KeysAreUsed, Ladder!Session
  <2>2. CASE Ladder!Open
    <3>1. /\ page.session.run = stored.session.run /\ page.session.visits = stored.session.visits
          /\ page.session.pos = stored.session.pos
      BY <1>1, <2>1, <2>2 DEF SessionInv, PageIsCached
    <3>2. page.session.run <= runs /\ page.session.pos <= Len(page.session.visits) + 1
      BY <1>1, <3>1 DEF LadderReach, SessionInv, Sound
    <3> QED
      BY <1>5, <2>1, <3>2
  <2>3. CASE ~Ladder!Open
    <3>1. page.session = Ladder!NoSession
      BY <1>1, <2>3, Blanks DEF SessionInv, Blank
    <3>2. page.session.run = 0 /\ page.session.pos = 1 /\ page.session.visits = <<>>
      BY <3>1, Blanks
    <3>3. page.session.run <= runs /\ page.session.pos <= Len(page.session.visits) + 1
      BY <1>1, <3>2
    <3> QED
      BY <1>5, <2>1, <3>3
  <2> QED
    BY <2>2, <2>3
<1>8. stored.keys \in Ladder!KeysOfDay
  BY <1>1, <1>4, SessionTypes DEF KeysInv, KeysAreUsed
<1>9. page.failed \in 0 .. Len(Ladder!Session.visits)
  <2>1. page.failed \in Nat /\ Len(Ladder!Session.visits) \in Nat
    BY <1>1, SessionTypes DEF LadderTypes, PageType
  <2>2. page.failed # 0 => page.failed <= Len(Ladder!Session.visits)
    BY <1>1 DEF SessionInv, FailureIsCurrent, AtDictation
  <2> QED
    BY <2>1, <2>2
<1>10. page.view \in {"select", "gate", "session"} /\ page.sending \in BOOLEAN /\ page.fired \in BOOLEAN
  BY <1>1 DEF LadderTypes, PageType
<1>11. \A p \in posts : /\ p.at \in {"sent", "done", "repeat"} /\ p.waits \in {"page", "left", "nobody"}
                       /\ p.counted \in BOOLEAN /\ p.word \in Words
  BY <1>1 DEF LadderTypes, PostType
<1> QED
  BY <1>1, <1>3, <1>6, <1>7, <1>8, <1>9, <1>10, <1>11 DEF Ladder!TypeOK, SessionFits

-----------------------------------------------------------------------------
(* The five together: the one that runs takes a step of its own, the others *)
(* stutter.                                                                *)
ServicesInv ==
  /\ OrderInv /\ Inv /\ Numbered /\ ShelfReach /\ DiaryInv /\ DiaryReach /\ BoardInv /\ LadderInv /\ LadderReach

LEMMA ServicesSteps ==
  ASSUME [ServicesNext]_allVars
  PROVE  /\ [OrderNext]_orderVars /\ [Next]_vars /\ [Diary!Next]_Diary!vars
         /\ [Board!Next]_Board!vars /\ [Ladder!Next]_Ladder!vars
<1>1. /\ diary = Diary!vars /\ board = Board!vars /\ ladder = Ladder!vars
  BY DEF diary, board, ladder, Diary!vars, Board!vars, Ladder!vars
<1>2. CASE UNCHANGED allVars
  <2>1. UNCHANGED orderVars /\ UNCHANGED vars /\ UNCHANGED diary /\ UNCHANGED board /\ UNCHANGED ladder
    BY <1>2 DEF allVars
  <2>2. UNCHANGED Diary!vars /\ UNCHANGED Board!vars /\ UNCHANGED Ladder!vars
    BY <2>1 DEF diary, board, ladder, Diary!vars, Board!vars, Ladder!vars
  <2> QED
    BY <2>1, <2>2
<1>3. CASE ServicesNext
  <2>1. UNCHANGED diary => UNCHANGED Diary!vars
    BY DEF diary, Diary!vars
  <2>2. UNCHANGED board => UNCHANGED Board!vars
    BY DEF board, Board!vars
  <2>3. UNCHANGED ladder => UNCHANGED Ladder!vars
    BY DEF ladder, Ladder!vars
  <2> QED
    BY <1>3, <2>1, <2>2, <2>3 DEF ServicesNext
<1> QED
  BY <1>2, <1>3

LEMMA ServicesStep == ServicesInv /\ [ServicesNext]_allVars => ServicesInv'
<1> SUFFICES ASSUME ServicesInv, [ServicesNext]_allVars PROVE ServicesInv'
  OBVIOUS
<1>1. /\ [OrderNext]_orderVars /\ [Next]_vars /\ [Diary!Next]_Diary!vars
      /\ [Board!Next]_Board!vars /\ [Ladder!Next]_Ladder!vars
  BY ServicesSteps
<1>2. OrderInv'
  BY <1>1, OrderNextInv DEF ServicesInv
<1>3. Inv' /\ Numbered' /\ ShelfReach'
  <2>1. Inv' /\ Numbered'
    BY <1>1, NextInv, NumberedStep DEF ServicesInv
  <2> QED
    BY <1>1, <2>1, ShelfReachNext DEF ServicesInv
<1>4. DiaryInv' /\ DiaryReach'
  <2>1. DiaryInv'
    BY <1>1, DiaryNext DEF ServicesInv
  <2> QED
    BY <1>1, <2>1, DiaryReachNext DEF ServicesInv
<1>5. BoardInv'
  BY <1>1, BoardNext, BoardStutters DEF ServicesInv, BoardStep
<1>6. LadderInv' /\ LadderReach'
  <2>1. LadderInv'
    BY <1>1, LadderNext DEF ServicesInv
  <2> QED
    BY <1>1, <2>1, LadderReachNext DEF ServicesInv
<1> QED
  BY <1>2, <1>3, <1>4, <1>5, <1>6 DEF ServicesInv

(* Whichever component runs, the values of all five have their types, the   *)
(* bounds of their counters included: no version, count or number leaves    *)
(* the range its calls account for.                                        *)
THEOREM AllTypes == ServicesSpec => []AllTypesOK
<1>1. ServicesInit => ServicesInv
  <2> SUFFICES ASSUME ServicesInit PROVE ServicesInv
    OBVIOUS
  <2>1. OrderInit /\ Init /\ Diary!Init /\ Board!Init /\ Ladder!Init
    BY DEF ServicesInit
  <2>2. OrderInv /\ Inv
    BY <2>1, OrderInitInv, InitInv
  <2>3. Numbered /\ ShelfReach
    BY <2>1, NumberedInit, ShelfReachInit
  <2>4. DiaryInv /\ DiaryReach /\ BoardInv
    BY <2>1, DiaryInit, DiaryReachInit, BoardInitInv
  <2>5. LadderInv /\ LadderReach
    BY <2>1, LadderInit, LadderReachInit
  <2> QED
    BY <2>2, <2>3, <2>4, <2>5 DEF ServicesInv
<1>2. ServicesInv => AllTypesOK
  <2> SUFFICES ASSUME ServicesInv PROVE AllTypesOK
    OBVIOUS
  <2>1. OrderTypeOK
    BY DEF ServicesInv, OrderInv
  <2>2. TypeOK
    BY ShelfTypesHold DEF ServicesInv
  <2>3. Diary!TypeOK
    BY DiaryTypesHold DEF ServicesInv
  <2>4. Board!TypeOK
    BY BoardTypesHold DEF ServicesInv
  <2>5. Ladder!TypeOK
    BY LadderTypesHold DEF ServicesInv
  <2> QED
    BY <2>1, <2>2, <2>3, <2>4, <2>5 DEF AllTypesOK
<1> QED
  BY <1>1, <1>2, ServicesStep, PTL DEF ServicesSpec
=============================================================================
