-------------------------- MODULE ReviewTrackProofs --------------------------
(***************************************************************************)
(* Theorems about ReviewTrack, for any cards, sessions, keys and requests  *)
(* and any bound on the log.                                               *)
(***************************************************************************)
EXTENDS ReviewTrack, SequenceTheorems, TLAPS

(* What a transaction may look like at each of its steps. *)
Request == [step : {"idle", "begun", "logged", "joined", "carded", "ready"},
            op : Ops \cup {"none"}, card : Cards \cup {NoCard},
            session : Sessions \cup {"none"}, key : Keys \cup {NoKey},
            log : Nat, seen : Row]

Shaped(t) ==
  \/ t = Idle
  \/ /\ t.op \in {"submit", "skip", "suspend"} /\ t.step \in {"begun", "carded", "ready"}
     /\ t.card \in Cards
     /\ t.session \in Sessions \/ t.op = "suspend"
  \/ /\ t.op = "undo" /\ t.step \in {"begun", "logged", "joined", "ready"}
     /\ t.card \in Cards /\ t.session \in Sessions
     /\ t.log \in 1..Len(logs) /\ logs[t.log].card = t.card

TxShape == \A r \in Requests : Shaped(tx[r])

(* No two transactions hold a card. *)
CardLocks ==
  \A q, r \in Requests : \A c \in Cards : HoldsCard(q, c) /\ HoldsCard(r, c) => q = r

(* A key belongs to one transaction, and to one that has not committed. *)
KeyLocks ==
  \A r \in Requests : \A k \in Keys : HoldsKey(r, k) =>
    /\ \A q \in Requests : HoldsKey(q, k) => q = r
    /\ \A i \in 1..Len(logs) : logs[i].key # k

(* A session that a transaction has locked is open. *)
SessionLocks ==
  \A r \in Requests : \A s \in Sessions : HoldsSession(r, s) => s \in open

AnswersOf(c) == {i \in 1..Len(logs) : IsAnswer(i, c)}

(* RowsHoldAnswers and SnapshotsChain, for cards not yet enqueued   *)
(* too, which have neither schedule nor answers.                           *)
Sound(c) ==
  row[c].state # "gone" =>
    /\ row[c].learnt = AnswersOf(c)
    /\ \A i \in AnswersOf(c) : logs[i].prev.learnt = {j \in AnswersOf(c) : j < i}

(* No snapshot suspends or removes the card it is written back to. *)
SnapshotsAreActive ==
  \A i \in 1..Len(logs) : logs[i].kind = "answer" => logs[i].prev.state = "active"

Types == TypeOK /\ TxShape
Locks == CardLocks /\ KeyLocks /\ SessionLocks /\ ReadsStayCurrent
Data == KeyTakesEffectOnce /\ SnapshotsAreActive /\ \A c \in Cards : Sound(c)
Inv == Types /\ Locks /\ Data

-----------------------------------------------------------------------------
(* How the log grows. *)

LEMMA LogDomain ==
  ASSUME TypeOK
  PROVE  /\ Len(logs) \in Nat
         /\ DOMAIN logs = 1..Len(logs)
         /\ \A i \in 1..Len(logs) : logs[i] \in Entry
  BY LenProperties, ElementOfSeq DEF TypeOK

LEMMA Appended ==
  ASSUME TypeOK, NEW e \in Entry, logs' = Append(logs, e)
  PROVE  /\ logs' \in Seq(Entry)
         /\ Len(logs') = Len(logs) + 1
         /\ logs'[Len(logs) + 1] = e
         /\ \A i \in 1..Len(logs) : logs'[i] = logs[i]
  BY AppendProperties DEF TypeOK

SameEntry(d, e) ==
  /\ d.kind = e.kind /\ d.card = e.card /\ d.session = e.session
  /\ d.key = e.key /\ d.prev = e.prev

LEMMA Marked ==
  ASSUME TypeOK, NEW i \in 1..Len(logs)
  PROVE  LET marked == [logs EXCEPT ![i].undone = TRUE]
         IN /\ marked \in Seq(Entry)
            /\ Len(marked) = Len(logs)
            /\ \A j \in 1..Len(logs) : /\ SameEntry(marked[j], logs[j])
                                       /\ marked[j].undone = (j = i \/ logs[j].undone)
  <1> DEFINE e == [logs[i] EXCEPT !.undone = TRUE]
             marked == [logs EXCEPT ![i] = e]
  <1>1. logs[i] \in Entry
    BY LogDomain
  <1>2. e \in Entry /\ SameEntry(e, logs[i]) /\ e.undone = TRUE
    BY <1>1 DEF Entry, SameEntry
  <1>3. /\ marked \in Seq(Entry)
        /\ Len(marked) = Len(logs)
        /\ \A j \in 1..Len(logs) : marked[j] = IF j = i THEN e ELSE logs[j]
    BY <1>2, ExceptSeq DEF TypeOK
  <1>4. \A j \in 1..Len(logs) : logs[j].undone \in BOOLEAN
    BY LogDomain DEF Entry
  <1>5. marked = [logs EXCEPT ![i].undone = TRUE]
    OBVIOUS
  <1> HIDE DEF marked, e
  <1>6. \A j \in 1..Len(logs) : /\ SameEntry(marked[j], logs[j])
                                /\ marked[j].undone = (j = i \/ logs[j].undone)
    BY <1>2, <1>3, <1>4 DEF SameEntry
  <1> QED
    BY <1>3, <1>5, <1>6

(* The steps that write only how far a transaction is. *)
Reading(r) == Begin(r) \/ BeginUndo(r) \/ LockCard(r) \/ LockLog(r) \/ LockSession(r) \/ Abort(r)
Committing(r) == SubmitAnswer(r) \/ SkipCard(r) \/ SuspendCard(r) \/ UndoReview(r)
OneStatement(c) == EnqueueCard(c) \/ RemoveCard(c) \/ SetState(c)

LEMMA NextCases ==
  Next <=> \/ \E r \in Requests : Reading(r) \/ Committing(r)
           \/ \E c \in Cards : OneStatement(c)
           \/ \E s \in Sessions : EndSession(s)
  BY DEF Next, Step, Reading, Committing, OneStatement

LEMMA SetTx ==
  ASSUME Types, NEW r \in Requests, NEW t \in Request, Shaped(t),
         tx' = [tx EXCEPT ![r] = t], UNCHANGED <<row, logs, open>>
  PROVE  Types'
  <1>1. TypeOK'
    BY DEF Types, TypeOK, Request
  <1>2. \A q \in Requests : tx'[q] = IF q = r THEN t ELSE tx[q]
    BY DEF Types, TypeOK
  <1>3. TxShape'
    BY <1>2 DEF Types, TxShape, Shaped
  <1> QED
    BY <1>1, <1>3 DEF Types

LEMMA IdleIsRequest == Idle \in Request /\ Shaped(Idle)
  BY DEF Idle, Request, Shaped, Row, Blank, States

LEMMA TxType ==
  ASSUME Types, NEW r \in Requests
  PROVE  tx[r] \in Request /\ Shaped(tx[r])
  BY DEF Types, TypeOK, TxShape, Request

LEMMA ReadingKeepsTypes ==
  ASSUME Types, NEW r \in Requests, Reading(r)
  PROVE  Types' /\ UNCHANGED <<row, logs, open>>
  <1> DEFINE Ends(t) == t \in Request /\ Shaped(t) /\ tx' = [tx EXCEPT ![r] = t]
  <1>1. UNCHANGED <<row, logs, open>>
    BY DEF Reading, Begin, BeginUndo, LockCard, LockLog, LockSession, Abort
  <1>2. tx[r] \in Request /\ Shaped(tx[r])
    BY TxType
  <1>3. CASE Begin(r)
    <2>1. PICK op \in Ops \ {"undo"}, c \in Cards, s \in Sessions \cup {"none"}, k \in Keys \cup {NoKey} :
             /\ s = "none" => op = "suspend"
             /\ KeyFree(k)
             /\ tx' = [tx EXCEPT ![r] = [Idle EXCEPT !.step = "begun", !.op = op, !.card = c,
                                                     !.session = s, !.key = k]]
      BY <1>3 DEF Begin
    <2> DEFINE t == [Idle EXCEPT !.step = "begun", !.op = op, !.card = c, !.session = s, !.key = k]
    <2>2. t \in Request
      BY IdleIsRequest DEF Request, Idle
    <2>3. Shaped(t)
      BY <2>1 DEF Shaped, Idle, Ops
    <2> QED
      BY <1>1, <2>1, <2>2, <2>3, SetTx
  <1>4. CASE BeginUndo(r)
    <2>1. PICK i \in DOMAIN logs, s \in Sessions, k \in Keys \cup {NoKey} :
             tx' = [tx EXCEPT ![r] = [Idle EXCEPT !.step = "begun", !.op = "undo", !.log = i,
                                        !.card = logs[i].card, !.session = s, !.key = k]]
      BY <1>4 DEF BeginUndo
    <2> DEFINE t == [Idle EXCEPT !.step = "begun", !.op = "undo", !.log = i,
                                 !.card = logs[i].card, !.session = s, !.key = k]
    <2>2. i \in 1..Len(logs) /\ i \in Nat /\ logs[i].card \in Cards
      BY LogDomain DEF Types, Entry
    <2>3. t \in Request
      BY <2>2, IdleIsRequest DEF Request, Idle, Ops
    <2>4. Shaped(t)
      BY <2>2 DEF Shaped, Idle
    <2> QED
      BY <1>1, <2>1, <2>3, <2>4, SetTx
  <1>5. CASE LockCard(r)
    <2> DEFINE t == [tx[r] EXCEPT !.seen = row[tx[r].card],
                                  !.step = IF tx[r].op = "undo" \/ tx[r].session = "none"
                                             THEN "ready" ELSE "carded"]
    <2>1. tx[r].card \in Cards
      BY <1>2, <1>5 DEF LockCard, Shaped, Idle
    <2>2. tx' = [tx EXCEPT ![r] = t]
      BY <1>2, <1>5 DEF LockCard, Request
    <2>3. t \in Request
      BY <1>2, <2>1 DEF Request, Types, TypeOK
    <2>4. Shaped(t)
      BY <1>2, <1>5, ReviewAssumption DEF LockCard, Shaped, Idle, Request
    <2> QED
      BY <1>1, <2>2, <2>3, <2>4, SetTx
  <1>6. CASE LockLog(r) \/ LockSession(r)
    <2>1. PICK step \in {"logged", "joined", "ready"} :
             /\ tx' = [tx EXCEPT ![r] = [tx[r] EXCEPT !.step = step]]
             /\ tx[r].op = "undo" \/ step = "ready"
             /\ tx[r] # Idle
      BY <1>2, <1>6 DEF LockLog, LockSession, Advance, Request, Idle
    <2> DEFINE t == [tx[r] EXCEPT !.step = step]
    <2>2. t \in Request
      BY <1>2 DEF Request
    <2>3. Shaped(t)
      BY <1>2, <2>1 DEF Shaped, Request
    <2> QED
      BY <1>1, <2>1, <2>2, <2>3, SetTx
  <1>7. CASE Abort(r)
    BY <1>1, <1>7, IdleIsRequest, SetTx DEF Abort, Done
  <1> QED
    BY <1>1, <1>3, <1>4, <1>5, <1>6, <1>7 DEF Reading

LEMMA LogEntry ==
  ASSUME Types, NEW r \in Requests, tx[r].op # "none",
         NEW kind \in Kinds, NEW prev \in Row
  PROVE  Log(r, kind, prev) \in Entry
  <1>1. tx[r] \in Request /\ tx[r].card \in Cards
    BY TxType DEF Shaped, Idle
  <1> QED
    BY <1>1 DEF Log, Entry, Request

LEMMA UndoLogs ==
  ASSUME Types, NEW r \in Requests, UndoReview(r)
  PROVE  /\ logs' \in Seq(Entry)
         /\ \/ Len(logs') = Len(logs)
            \/ /\ Len(logs') = Len(logs) + 1 /\ tx[r].key # NoKey
               /\ logs'[Len(logs) + 1] = Log(r, "undo", Blank)
         /\ \A j \in 1..Len(logs) :
              /\ SameEntry(logs'[j], logs[j])
              /\ logs'[j].undone = (j = tx[r].log \/ logs[j].undone)
  <1> DEFINE i == tx[r].log
             marked == [logs EXCEPT ![i].undone = TRUE]
             e == Log(r, "undo", Blank)
  <1>1. i \in 1..Len(logs) /\ tx[r].op = "undo"
    BY TxType DEF UndoReview, Ready, Shaped, Idle
  <1>2. /\ marked \in Seq(Entry) /\ Len(marked) = Len(logs)
        /\ \A j \in 1..Len(logs) : /\ SameEntry(marked[j], logs[j])
                                   /\ marked[j].undone = (j = i \/ logs[j].undone)
    BY <1>1, Marked DEF Types
  <1>3. e \in Entry
    BY <1>1, LogEntry DEF Kinds, Row, Blank, States
  <1>4. /\ Append(marked, e) \in Seq(Entry)
        /\ Len(Append(marked, e)) = Len(logs) + 1
        /\ \A j \in 1..Len(logs) : Append(marked, e)[j] = marked[j]
        /\ Append(marked, e)[Len(logs) + 1] = e
    BY <1>2, <1>3, AppendProperties
  <1>5. logs' = IF tx[r].key = NoKey THEN marked ELSE Append(marked, e)
    BY DEF UndoReview
  <1> HIDE DEF marked, e
  <1> QED
    BY <1>2, <1>4, <1>5 DEF e

(* Entries are never taken out of the log or changed, but for the mark of  *)
(* an undo, and a step adds one at most.                                   *)
LogGrows ==
  /\ logs' \in Seq(Entry)
  /\ Len(logs') \in {Len(logs), Len(logs) + 1}
  /\ \A i \in 1..Len(logs) : SameEntry(logs'[i], logs[i])

LEMMA TypesFrom ==
  ASSUME Types, LogGrows, row' \in [Cards -> Row], open' \subseteq Sessions,
         \/ UNCHANGED tx
         \/ \E r \in Requests : tx' = [tx EXCEPT ![r] = Idle]
  PROVE  Types'
  <1>1. tx' \in [Requests -> Request]
    BY IdleIsRequest DEF Types, TypeOK, Request
  <1>2. TypeOK'
    BY <1>1 DEF LogGrows, TypeOK, Request
  <1>3. \A q \in Requests : tx'[q] = tx[q] \/ tx'[q] = Idle
    BY DEF Types, TypeOK
  <1>4. Len(logs) \in Nat
    BY LogDomain DEF Types
  <1>5. ASSUME NEW q \in Requests
        PROVE  Shaped(tx[q])'
    <2>1. CASE tx'[q] = Idle
      BY <2>1 DEF Shaped, Idle
    <2>2. CASE tx'[q] = tx[q]
      BY <1>4, <2>2 DEF Types, TxShape, Shaped, LogGrows, SameEntry, Idle
    <2> QED
      BY <1>3, <2>1, <2>2
  <1> QED
    BY <1>2, <1>5 DEF Types, TxShape

(* What a commit finds. *)
LEMMA ReadyTx ==
  ASSUME Types, NEW r \in Requests, Committing(r)
  PROVE  /\ tx[r].step = "ready" /\ tx[r].op \in Ops
         /\ tx[r].card \in Cards /\ tx[r].seen \in Row
         /\ tx[r].key \in Keys \cup {NoKey}
         /\ tx[r].session \in Sessions \cup {"none"}
         /\ tx[r].session \in Sessions \/ tx[r].op = "suspend"
         /\ HoldsCard(r, tx[r].card)
         /\ \A k \in Keys : tx[r].key = k => HoldsKey(r, k)
         /\ \A s \in Sessions : tx[r].session = s => HoldsSession(r, s)
         /\ tx' = [tx EXCEPT ![r] = Idle]
         /\ UNCHANGED open
  <1>1. tx[r] \in Request /\ Shaped(tx[r])
    BY TxType
  <1>2. /\ tx[r].step = "ready" /\ tx[r].op \in Ops
        /\ tx' = [tx EXCEPT ![r] = Idle] /\ UNCHANGED open
    BY DEF Committing, SubmitAnswer, SkipCard, SuspendCard, UndoReview, Ready, Done, Ops
  <1> QED
    BY <1>1, <1>2 DEF Shaped, Idle, Request, HoldsCard, HoldsKey, HoldsSession, Past

LEMMA CommitKeepsTypes ==
  ASSUME Types, NEW r \in Requests, Committing(r)
  PROVE  /\ Types' /\ LogGrows
         /\ Len(logs') = Len(logs) + 1 =>
              /\ logs'[Len(logs) + 1].key = tx[r].key
              /\ logs'[Len(logs) + 1].session = tx[r].session
              /\ logs'[Len(logs) + 1].card = tx[r].card
  <1> DEFINE n == Len(logs) + 1
             Adds(e) == e.key = tx[r].key /\ e.session = tx[r].session /\ e.card = tx[r].card
  <1>1. /\ tx[r].op # "none" /\ tx[r].card \in Cards /\ tx[r].seen \in Row
        /\ tx' = [tx EXCEPT ![r] = Idle] /\ open' \subseteq Sessions
    BY ReadyTx DEF Ops, Types, TypeOK
  <1>2. Blank \in Row /\ \A kind, prev : Adds(Log(r, kind, prev))
    BY DEF Blank, Row, States, Log
  <1>3. Len(logs) \in Nat /\ \A i \in 1..Len(logs) : SameEntry(logs[i], logs[i])
    BY LogDomain DEF Types, SameEntry
  <1>4. ASSUME NEW kind \in Kinds, NEW prev \in Row, logs' = Append(logs, Log(r, kind, prev))
        PROVE  LogGrows /\ Adds(logs'[n])
    BY <1>1, <1>2, <1>3, <1>4, LogEntry, Appended DEF LogGrows, Types
  <1>5. LogGrows /\ (Len(logs') = n => Adds(logs'[n]))
    <2>1. CASE UndoReview(r)
      BY <1>2, <1>3, <2>1, UndoLogs DEF LogGrows
    <2>2. CASE ~UndoReview(r)
      BY <1>1, <1>2, <1>4, <2>2
      DEF Committing, SubmitAnswer, SkipCard, SuspendCard, Snapshot, Kinds
    <2> QED
      BY <2>1, <2>2
  <1>6. row' \in [Cards -> Row]
    <2>1. CASE SubmitAnswer(r)
      <3>1. [state |-> "active", learnt |-> tx[r].seen.learnt \cup {n}] \in Row
        BY <1>1, <1>3 DEF Row, States
      <3> QED
        BY <2>1, <3>1 DEF SubmitAnswer, Types, TypeOK
    <2>2. CASE SkipCard(r)
      BY <2>2 DEF SkipCard, Types, TypeOK
    <2>3. CASE SuspendCard(r)
      <3>1. row' = [row EXCEPT ![tx[r].card] = [row[tx[r].card] EXCEPT !.state = "suspended"]]
        BY <2>3 DEF SuspendCard
      <3>2. [row[tx[r].card] EXCEPT !.state = "suspended"] \in Row
        BY <1>1 DEF Types, TypeOK, Row, States
      <3> QED
        BY <3>1, <3>2 DEF Types, TypeOK
    <2>4. CASE UndoReview(r)
      <3>1. logs[tx[r].log].prev \in Row
        BY <2>4, TxType, LogDomain DEF Types, UndoReview, Ready, Shaped, Idle, Entry
      <3> QED
        BY <2>4, <3>1 DEF UndoReview, Types, TypeOK
    <2> QED
      BY <2>1, <2>2, <2>3, <2>4 DEF Committing
  <1> QED
    BY <1>1, <1>5, <1>6, TypesFrom

Removed(c) ==
  [kind |-> "removed", card |-> c, session |-> "none", key |-> NoKey,
   prev |-> [state |-> row[c].state, learnt |-> {}], undone |-> FALSE]

LEMMA OneStatementKeepsTypes ==
  ASSUME Types, NEW c \in Cards, OneStatement(c)
  PROVE  /\ Types' /\ LogGrows /\ UNCHANGED <<open, tx>>
         /\ \A d \in Cards \ {c} : row'[d] = row[d]
         /\ \/ logs' = logs
            \/ /\ Len(logs') = Len(logs) + 1 /\ logs'[Len(logs) + 1] = Removed(c)
               /\ \A i \in 1..Len(logs) : logs'[i] = logs[i]
               /\ row'[c].state = "gone"
  <1>1. UNCHANGED <<open, tx>>
    BY DEF OneStatement, EnqueueCard, RemoveCard, SetState
  <1>2. /\ Len(logs) \in Nat /\ logs \in Seq(Entry) /\ open \subseteq Sessions
        /\ \A i \in 1..Len(logs) : SameEntry(logs[i], logs[i])
    BY LogDomain DEF Types, TypeOK, SameEntry
  <1>3. CASE RemoveCard(c)
    <2>1. Removed(c) \in Entry
      BY DEF Removed, Entry, Row, Kinds, Types, TypeOK
    <2>2. logs' = Append(logs, Removed(c))
      BY <1>3 DEF RemoveCard, Removed
    <2>3. /\ logs' \in Seq(Entry) /\ Len(logs') = Len(logs) + 1
          /\ logs'[Len(logs) + 1] = Removed(c)
          /\ \A i \in 1..Len(logs) : logs'[i] = logs[i]
      BY <2>1, <2>2, Appended DEF Types
    <2>4. LogGrows
      BY <1>2, <2>3 DEF LogGrows, SameEntry
    <2>5. /\ row' \in [Cards -> Row] /\ row'[c].state = "gone"
          /\ \A d \in Cards \ {c} : row'[d] = row[d]
      BY <1>3 DEF RemoveCard, Types, TypeOK, Row, States
    <2> QED
      BY <1>1, <1>2, <2>3, <2>4, <2>5, TypesFrom
  <1>4. CASE EnqueueCard(c) \/ SetState(c)
    <2>1. PICK state \in States : row' = [row EXCEPT ![c] = [row[c] EXCEPT !.state = state]]
      BY <1>4 DEF EnqueueCard, SetState, States
    <2>2. /\ row' \in [Cards -> Row]
          /\ \A d \in Cards \ {c} : row'[d] = row[d]
      BY <2>1 DEF Types, TypeOK, Row
    <2>3. logs' = logs
      BY <1>4 DEF EnqueueCard, SetState
    <2>4. LogGrows
      BY <1>2, <2>3 DEF LogGrows
    <2> QED
      BY <1>1, <1>2, <2>2, <2>3, <2>4, TypesFrom
  <1> QED
    BY <1>3, <1>4 DEF OneStatement

LEMMA TypesNext == Types /\ [Next]_vars => Types'
  <1> SUFFICES ASSUME Types, [Next]_vars PROVE Types'
    OBVIOUS
  <1>1. CASE UNCHANGED vars
    BY <1>1 DEF Types, TypeOK, TxShape, Shaped, Idle, vars
  <1>2. ASSUME NEW s \in Sessions, EndSession(s)
        PROVE  Types'
    BY <1>2 DEF EndSession, Types, TypeOK, TxShape, Shaped, Idle
  <1> QED
    BY <1>1, <1>2, NextCases, ReadingKeepsTypes, CommitKeepsTypes, OneStatementKeepsTypes

LEMMA TypesInit == Init => Types
  <1> SUFFICES ASSUME Init PROVE Types
    OBVIOUS
  <1>1. /\ row \in [Cards -> Row] /\ logs \in Seq(Entry) /\ open \subseteq Sessions
        /\ tx \in [Requests -> Request] /\ \A r \in Requests : tx[r] = Idle
    BY IdleIsRequest, EmptySeq DEF Init, Row, Blank, States
  <1> QED
    BY <1>1 DEF Types, TypeOK, TxShape, Shaped, Request

(* Rows, log and transactions of the review track have the types their     *)
(* tables and ReviewService give them, in every reachable state.           *)
THEOREM ReviewTypes == Spec => []TypeOK
  <1>1. Spec => []Types
    BY TypesInit, TypesNext, PTL DEF Spec
  <1>2. Types => TypeOK
    BY DEF Types
  <1> QED
    BY <1>1, <1>2, PTL

-----------------------------------------------------------------------------
(***************************************************************************)
(* Locks.  They are what lets a transaction write what it read: the card   *)
(* is still the one it read, the key is still unused, the session is still *)
(* open.                                                                   *)
(***************************************************************************)

LEMMA ReadingTakesFree ==
  ASSUME Types, NEW r \in Requests, Reading(r)
  PROVE  /\ \A q \in Requests \ {r} : tx'[q] = tx[q]
         /\ \A c \in Cards : HoldsCard(r, c)' =>
              \/ HoldsCard(r, c) /\ tx'[r].seen = tx[r].seen
              \/ CardFree(c) /\ Exists(c) /\ tx'[r].seen = row[c]
         /\ \A k \in Keys : HoldsKey(r, k)' => HoldsKey(r, k) \/ KeyFree(k)
         /\ \A s \in Sessions : HoldsSession(r, s)' => HoldsSession(r, s) \/ s \in open
  <1> USE DEF HoldsCard, HoldsKey, HoldsSession, Past
  <1>1. tx[r] \in Request /\ Shaped(tx[r]) /\ tx \in [Requests -> Request]
    BY TxType DEF Types, TypeOK, Request
  <1>2. CASE Abort(r)
    BY <1>1, <1>2, ReviewAssumption DEF Abort, Done, Idle
  <1>3. CASE Begin(r)
    <2>1. PICK op \in Ops \ {"undo"}, c \in Cards, s \in Sessions \cup {"none"}, k \in Keys \cup {NoKey} :
             /\ s = "none" => op = "suspend"
             /\ KeyFree(k)
             /\ tx' = [tx EXCEPT ![r] = [Idle EXCEPT !.step = "begun", !.op = op, !.card = c,
                                                     !.session = s, !.key = k]]
      BY <1>3 DEF Begin
    <2>2. /\ \A q \in Requests \ {r} : tx'[q] = tx[q]
          /\ tx'[r].step = "begun" /\ tx'[r].key = k
      BY <1>1, <2>1 DEF Idle
    <2> QED
      BY <2>1, <2>2
  <1>4. CASE BeginUndo(r)
    <2>1. PICK i \in DOMAIN logs, s \in Sessions, k \in Keys \cup {NoKey} :
             /\ KeyFree(k)
             /\ tx' = [tx EXCEPT ![r] = [Idle EXCEPT !.step = "begun", !.op = "undo", !.log = i,
                                        !.card = logs[i].card, !.session = s, !.key = k]]
      BY <1>4 DEF BeginUndo
    <2>2. /\ \A q \in Requests \ {r} : tx'[q] = tx[q]
          /\ tx'[r].step = "begun" /\ tx'[r].key = k
      BY <1>1, <2>1 DEF Idle
    <2> QED
      BY <2>1, <2>2
  <1>5. CASE LockCard(r)
    <2>1. /\ \A q \in Requests \ {r} : tx'[q] = tx[q]
          /\ tx'[r].card = tx[r].card /\ tx'[r].key = tx[r].key /\ tx'[r].op = tx[r].op
          /\ tx'[r].session = tx[r].session
          /\ tx'[r].seen = row[tx[r].card]
          /\ tx'[r].step = IF tx[r].op = "undo" \/ tx[r].session = "none" THEN "ready" ELSE "carded"
      BY <1>1, <1>5 DEF LockCard, Request
    <2>2. /\ CardFree(tx[r].card) /\ Exists(tx[r].card)
          /\ tx[r].step = (IF tx[r].op = "undo" THEN "joined" ELSE "begun")
      BY <1>5 DEF LockCard
    <2> QED
      BY <2>1, <2>2, ReviewAssumption
  <1>6. CASE LockLog(r)
    <2>1. /\ \A q \in Requests \ {r} : tx'[q] = tx[q]
          /\ tx'[r] = [tx[r] EXCEPT !.step = "logged"]
          /\ tx[r].step = "begun" /\ tx[r].op = "undo"
      BY <1>1, <1>6 DEF LockLog, Advance, Request
    <2> QED
      BY <1>1, <2>1 DEF Request
  <1>7. CASE LockSession(r)
    <2>1. /\ \A q \in Requests \ {r} : tx'[q] = tx[q]
          /\ tx'[r] = [tx[r] EXCEPT !.step = IF tx[r].op = "undo" THEN "joined" ELSE "ready"]
          /\ tx[r].step = (IF tx[r].op = "undo" THEN "logged" ELSE "carded")
          /\ tx[r].session \in open
      BY <1>1, <1>7 DEF LockSession, Advance, Request
    <2> QED
      BY <1>1, <2>1 DEF Request
  <1> QED
    BY <1>2, <1>3, <1>4, <1>5, <1>6, <1>7 DEF Reading

LEMMA ReadingKeepsLocks ==
  ASSUME Types, Locks, NEW r \in Requests, Reading(r)
  PROVE  Locks'
  <1>1. UNCHANGED <<row, logs, open>>
    BY ReadingKeepsTypes
  <1>2. \A q \in Requests \ {r} :
          /\ tx'[q] = tx[q]
          /\ \A c \in Cards : HoldsCard(q, c)' = HoldsCard(q, c)
          /\ \A k \in Keys : HoldsKey(q, k)' = HoldsKey(q, k)
          /\ \A s \in Sessions : HoldsSession(q, s)' = HoldsSession(q, s)
    BY ReadingTakesFree DEF HoldsCard, HoldsKey, HoldsSession, Past
  <1>3. CardLocks'
    BY <1>2, ReadingTakesFree DEF Locks, CardLocks, CardFree
  <1>4. ReadsStayCurrent'
    BY <1>1, <1>2, ReadingTakesFree DEF Locks, ReadsStayCurrent, Exists
  <1>5. SessionLocks'
    BY <1>1, <1>2, ReadingTakesFree DEF Locks, SessionLocks
  <1>6. KeyLocks'
    <2>1. \A k \in Keys : KeyFree(k) => /\ \A q \in Requests : ~HoldsKey(q, k)
                                        /\ \A i \in 1..Len(logs) : logs[i].key # k
      BY LogDomain, ReviewAssumption DEF KeyFree, Types
    <2> QED
      BY <1>1, <1>2, <2>1, ReadingTakesFree DEF Locks, KeyLocks
  <1> QED
    BY <1>3, <1>4, <1>5, <1>6 DEF Locks

LEMMA CommitKeepsLocks ==
  ASSUME Types, Locks, NEW r \in Requests, Committing(r)
  PROVE  Locks'
  <1>1. /\ tx[r].card \in Cards /\ tx' = [tx EXCEPT ![r] = Idle] /\ UNCHANGED open
        /\ HoldsCard(r, tx[r].card)
        /\ \A k \in Keys : tx[r].key = k => HoldsKey(r, k)
        /\ tx \in [Requests -> Request]
    BY ReadyTx DEF Types, TypeOK, Request
  <1>2. \A q \in Requests \ {r} :
          /\ tx'[q] = tx[q]
          /\ \A c \in Cards : HoldsCard(q, c)' = HoldsCard(q, c)
          /\ \A k \in Keys : HoldsKey(q, k)' = HoldsKey(q, k)
          /\ \A s \in Sessions : HoldsSession(q, s)' = HoldsSession(q, s)
    BY <1>1 DEF HoldsCard, HoldsKey, HoldsSession, Past
  <1>3. /\ \A c \in Cards : ~HoldsCard(r, c)'
        /\ \A k \in Keys : ~HoldsKey(r, k)'
        /\ \A s \in Sessions : ~HoldsSession(r, s)'
    BY <1>1 DEF HoldsCard, HoldsKey, HoldsSession, Past, Idle
  <1>4. \A d \in Cards \ {tx[r].card} : row'[d] = row[d]
    BY DEF Committing, SubmitAnswer, SkipCard, SuspendCard, UndoReview, Types, TypeOK
  <1>5. CardLocks'
    BY <1>2, <1>3 DEF Locks, CardLocks
  <1>6. ReadsStayCurrent'
    BY <1>1, <1>2, <1>3, <1>4 DEF Locks, ReadsStayCurrent, Exists, CardLocks
  <1>7. SessionLocks'
    BY <1>1, <1>2, <1>3 DEF Locks, SessionLocks
  <1>8. KeyLocks'
    <2>1. /\ \A i \in 1..Len(logs) : logs'[i].key = logs[i].key
          /\ Len(logs') \in {Len(logs), Len(logs) + 1} /\ Len(logs) \in Nat
          /\ Len(logs') = Len(logs) + 1 => logs'[Len(logs) + 1].key = tx[r].key
      BY CommitKeepsTypes, LogDomain DEF LogGrows, SameEntry, Types
    <2>2. ASSUME NEW q \in Requests, NEW k \in Keys, HoldsKey(q, k)'
          PROVE  /\ \A p \in Requests : HoldsKey(p, k)' => p = q
                 /\ \A i \in 1..Len(logs') : logs'[i].key # k
      <3>1. q # r /\ HoldsKey(q, k)
        BY <1>2, <1>3, <2>2
      <3>2. tx[r].key # k /\ \A i \in 1..Len(logs) : logs[i].key # k
        BY <1>1, <3>1 DEF Locks, KeyLocks
      <3> QED
        BY <1>2, <1>3, <2>1, <3>1, <3>2 DEF Locks, KeyLocks
    <2> QED
      BY <2>2 DEF KeyLocks
  <1> QED
    BY <1>5, <1>6, <1>7, <1>8 DEF Locks

LEMMA OneStatementKeepsLocks ==
  ASSUME Types, Locks, NEW c \in Cards, OneStatement(c)
  PROVE  Locks'
  <1>1. /\ UNCHANGED <<open, tx>>
        /\ \A d \in Cards \ {c} : row'[d] = row[d]
        /\ \A i \in 1..Len(logs) : logs'[i].key = logs[i].key
        /\ Len(logs') \in {Len(logs), Len(logs) + 1} /\ Len(logs) \in Nat
        /\ Len(logs') = Len(logs) + 1 => logs'[Len(logs) + 1].key = NoKey
    <2>1. /\ UNCHANGED <<open, tx>> /\ LogGrows /\ \A d \in Cards \ {c} : row'[d] = row[d]
          /\ logs' = logs \/ logs'[Len(logs) + 1] = Removed(c)
      BY OneStatementKeepsTypes
    <2>2. Len(logs) \in Nat /\ Removed(c).key = NoKey
      BY LogDomain DEF Types, Removed
    <2> QED
      BY <2>1, <2>2 DEF LogGrows, SameEntry
  <1>2. \A q \in Requests :
          /\ \A d \in Cards : HoldsCard(q, d)' = HoldsCard(q, d)
          /\ \A k \in Keys : HoldsKey(q, k)' = HoldsKey(q, k)
          /\ \A s \in Sessions : HoldsSession(q, s)' = HoldsSession(q, s)
    BY <1>1 DEF HoldsCard, HoldsKey, HoldsSession, Past
  <1>3. \A q \in Requests : ~HoldsCard(q, c)
    BY DEF OneStatement, EnqueueCard, RemoveCard, SetState, CardFree, Locks, ReadsStayCurrent, Exists
  <1>4. CardLocks' /\ SessionLocks'
    BY <1>1, <1>2 DEF Locks, CardLocks, SessionLocks
  <1>5. ReadsStayCurrent'
    BY <1>1, <1>2, <1>3 DEF Locks, ReadsStayCurrent, Exists
  <1>6. KeyLocks'
    BY <1>1, <1>2, ReviewAssumption DEF Locks, KeyLocks
  <1> QED
    BY <1>4, <1>5, <1>6 DEF Locks

LEMMA EndSessionKeepsLocks ==
  ASSUME Types, Locks, NEW s \in Sessions, EndSession(s)
  PROVE  Locks'
  BY DEF EndSession, SessionFree, Locks, CardLocks, KeyLocks, SessionLocks, ReadsStayCurrent,
         HoldsCard, HoldsKey, HoldsSession, Past, Exists

LEMMA LocksNext == Types /\ Locks /\ [Next]_vars => Locks'
  <1> SUFFICES ASSUME Types, Locks, [Next]_vars PROVE Locks'
    OBVIOUS
  <1>1. CASE UNCHANGED vars
    BY <1>1 DEF vars, Locks, CardLocks, KeyLocks, SessionLocks, ReadsStayCurrent,
                HoldsCard, HoldsKey, HoldsSession, Past, Exists
  <1> QED
    BY <1>1, NextCases, ReadingKeepsLocks, CommitKeepsLocks, OneStatementKeepsLocks,
       EndSessionKeepsLocks

LEMMA LocksInit == Init => Locks
  BY ReviewAssumption
  DEF Init, Locks, CardLocks, KeyLocks, SessionLocks, ReadsStayCurrent,
      HoldsCard, HoldsKey, HoldsSession, Past, Idle

-----------------------------------------------------------------------------
(***************************************************************************)
(* Schedules, snapshots and keys.  A commit changes the answers of the     *)
(* card it holds and of no other.                                          *)
(***************************************************************************)

LEMMA SameAnswers ==
  ASSUME Types, LogGrows, NEW c \in Cards,
         \A i \in 1..Len(logs) : logs[i].card = c => logs'[i].undone = logs[i].undone,
         Len(logs') = Len(logs) + 1 =>
           logs'[Len(logs) + 1].kind # "answer" \/ logs'[Len(logs) + 1].card # c
  PROVE  AnswersOf(c)' = AnswersOf(c)
  <1>1. Len(logs) \in Nat
    BY LogDomain DEF Types
  <1>2. \A i \in 1..Len(logs) : IsAnswer(i, c)' <=> IsAnswer(i, c)
    BY DEF LogGrows, SameEntry, IsAnswer
  <1>3. \A i \in Nat : (i = Len(logs) + 1 /\ Len(logs') = i) => ~IsAnswer(i, c)'
    BY <1>1 DEF IsAnswer
  <1> QED
    BY <1>1, <1>2, <1>3 DEF AnswersOf, LogGrows

LEMMA SoundFrom ==
  ASSUME Types, LogGrows, NEW c \in Cards, Sound(c), AnswersOf(c)' = AnswersOf(c),
         row'[c].state # "gone" => row[c].state # "gone" /\ row'[c].learnt = row[c].learnt
  PROVE  Sound(c)'
  <1>1. AnswersOf(c) \subseteq 1..Len(logs)
    BY DEF AnswersOf
  <1> QED
    BY <1>1 DEF Sound, LogGrows, SameEntry

LEMMA SubmitIsSound ==
  ASSUME Inv, NEW r \in Requests, SubmitAnswer(r), NEW c \in Cards
  PROVE  Sound(c)'
  <1> DEFINE n == Len(logs) + 1
             e == Log(r, "answer", tx[r].seen)
  <1>1. /\ tx[r].card \in Cards /\ tx[r].seen \in Row /\ tx[r].op # "none"
        /\ HoldsCard(r, tx[r].card)
    BY ReadyTx DEF Inv, Committing, SubmitAnswer, Ready
  <1>2. Exists(tx[r].card) /\ tx[r].seen = row[tx[r].card]
    BY <1>1 DEF Inv, Locks, ReadsStayCurrent
  <1>3. Len(logs) \in Nat /\ logs' \in Seq(Entry) /\ Len(logs') = n
        /\ logs'[n] = e /\ \A i \in 1..Len(logs) : logs'[i] = logs[i]
    BY <1>1, LogEntry, LogDomain, Appended DEF Inv, Types, SubmitAnswer, Snapshot, Kinds
  <1>4. e.kind = "answer" /\ e.card = tx[r].card /\ e.prev = tx[r].seen /\ e.undone = FALSE
    BY DEF Log
  <1>5. LogGrows
    BY <1>3 DEF LogGrows, SameEntry
  <1>6. CASE c # tx[r].card
    <2>1. row'[c] = row[c]
      BY <1>6 DEF SubmitAnswer, Inv, Types, TypeOK
    <2>2. AnswersOf(c)' = AnswersOf(c)
      BY <1>3, <1>4, <1>5, <1>6, SameAnswers DEF Inv
    <2> QED
      BY <1>5, <2>1, <2>2, SoundFrom DEF Inv, Data
  <1>7. CASE c = tx[r].card
    <2>1. row[c].state # "gone" /\ row'[c].learnt = row[c].learnt \cup {n}
      BY <1>2, <1>7 DEF SubmitAnswer, Inv, Types, TypeOK, Exists
    <2>2. /\ row[c].learnt = AnswersOf(c)
          /\ \A i \in AnswersOf(c) : logs[i].prev.learnt = {j \in AnswersOf(c) : j < i}
      BY <2>1 DEF Inv, Data, Sound
    <2>3. AnswersOf(c)' = AnswersOf(c) \cup {n}
      BY <1>3, <1>4, <1>7 DEF AnswersOf, IsAnswer
    <2>4. AnswersOf(c) \subseteq 1..Len(logs)
      BY DEF AnswersOf
    <2>5. \A i \in AnswersOf(c) \cup {n} :
            {j \in AnswersOf(c) \cup {n} : j < i} = {j \in AnswersOf(c) : j < i}
      BY <1>3, <2>4
    <2>6. {j \in AnswersOf(c) : j < n} = AnswersOf(c)
      BY <1>3, <2>4
    <2>7. \A i \in AnswersOf(c) : logs'[i].prev.learnt = {j \in AnswersOf(c) : j < i}
      BY <1>3, <2>2, <2>4
    <2>8. logs'[n].prev.learnt = {j \in AnswersOf(c) : j < n}
      BY <1>2, <1>3, <1>4, <1>7, <2>2, <2>6
    <2> HIDE DEF n
    <2> QED
      BY <2>1, <2>2, <2>3, <2>5, <2>7, <2>8 DEF Sound
  <1> QED
    BY <1>6, <1>7

LEMMA UndoIsSound ==
  ASSUME Inv, NEW r \in Requests, UndoReview(r), NEW c \in Cards
  PROVE  Sound(c)'
  <1> DEFINE i == tx[r].log
  <1>1. /\ tx[r].card \in Cards /\ HoldsCard(r, tx[r].card) /\ LogGrows
    BY ReadyTx, CommitKeepsTypes DEF Inv, Committing
  <1>2. i \in 1..Len(logs) /\ logs[i].card = tx[r].card
    BY TxType DEF Inv, UndoReview, Ready, Shaped, Idle
  <1>3. /\ \A j \in 1..Len(logs) : /\ SameEntry(logs'[j], logs[j])
                                   /\ logs'[j].undone = (j = i \/ logs[j].undone)
        /\ Len(logs') = Len(logs) + 1 => logs'[Len(logs) + 1].kind = "undo"
        /\ Len(logs') \in {Len(logs), Len(logs) + 1} /\ Len(logs) \in Nat
        /\ \A j \in 1..Len(logs) : logs[j] \in Entry
    <2>1. Len(logs) \in Nat /\ \A j \in 1..Len(logs) : logs[j] \in Entry
      BY LogDomain DEF Inv, Types
    <2>2. Log(r, "undo", Blank).kind = "undo"
      BY DEF Log
    <2> QED
      BY <2>1, <2>2, UndoLogs DEF Inv
  <1>4. CASE c # tx[r].card
    <2>1. row'[c] = row[c]
      BY <1>4 DEF UndoReview, Inv, Types, TypeOK
    <2>2. AnswersOf(c)' = AnswersOf(c)
      BY <1>1, <1>2, <1>3, <1>4, SameAnswers DEF Inv, Entry
    <2> QED
      BY <1>1, <2>1, <2>2, SoundFrom DEF Inv, Data
  <1>5. CASE c = tx[r].card
    <2>1. row[c].state # "gone"
      BY <1>1, <1>5 DEF Inv, Locks, ReadsStayCurrent, Exists
    <2>2. /\ row[c].learnt = AnswersOf(c)
          /\ \A j \in AnswersOf(c) : logs[j].prev.learnt = {k \in AnswersOf(c) : k < j}
      BY <2>1 DEF Inv, Data, Sound
    <2>3. IsAnswer(i, c) /\ \A j \in 1..Len(logs) : IsAnswer(j, c) => j <= i
      BY <1>5, LogDomain DEF UndoReview, IsLatest, Inv, Types
    <2>4. i \in AnswersOf(c) /\ AnswersOf(c) \subseteq 1..Len(logs)
      BY <1>2, <2>3 DEF AnswersOf
    <2>5. row'[c] = logs[i].prev
      BY <1>1, <1>5 DEF UndoReview, Inv, Types, TypeOK
    <2>6. {k \in AnswersOf(c) : k < i} = AnswersOf(c) \ {i}
      BY <1>2, <1>3, <2>3, <2>4 DEF AnswersOf
    <2>7. AnswersOf(c)' = AnswersOf(c) \ {i}
      <3>1. \A j \in 1..Len(logs) : IsAnswer(j, c)' <=> (IsAnswer(j, c) /\ j # i)
        BY <1>3 DEF IsAnswer, SameEntry, Entry
      <3>2. \A j \in Nat : (j = Len(logs) + 1 /\ Len(logs') = j) => ~IsAnswer(j, c)'
        BY <1>3 DEF IsAnswer
      <3> QED
        BY <1>3, <3>1, <3>2 DEF AnswersOf
    <2>8. \A j \in AnswersOf(c) \ {i} :
            {k \in AnswersOf(c) \ {i} : k < j} = {k \in AnswersOf(c) : k < j}
      BY <1>3, <2>3, <2>4 DEF AnswersOf
    <2>9. \A j \in AnswersOf(c) : logs'[j].prev = logs[j].prev
      BY <1>3, <2>4 DEF SameEntry
    <2> QED
      BY <2>2, <2>4, <2>5, <2>6, <2>7, <2>8, <2>9 DEF Sound
  <1> QED
    BY <1>4, <1>5

LEMMA CommitIsSound ==
  ASSUME Inv, NEW r \in Requests, Committing(r), NEW c \in Cards
  PROVE  Sound(c)'
  <1>1. CASE SkipCard(r) \/ SuspendCard(r)
    <2>1. tx[r].card \in Cards /\ tx[r].op # "none" /\ LogGrows
      BY ReadyTx, CommitKeepsTypes DEF Inv, Ops
    <2>2. PICK kind \in {"skip", "suspend"} : logs' = Append(logs, Log(r, kind, Blank))
      BY <1>1 DEF SkipCard, SuspendCard
    <2>3. Log(r, kind, Blank) \in Entry /\ Log(r, kind, Blank).kind # "answer"
      BY <2>1, LogEntry DEF Inv, Kinds, Row, Blank, States, Log
    <2>4. /\ \A i \in 1..Len(logs) : logs'[i] = logs[i]
          /\ logs'[Len(logs) + 1].kind # "answer"
      BY <2>2, <2>3, Appended DEF Inv, Types
    <2>5. AnswersOf(c)' = AnswersOf(c)
      BY <2>1, <2>4, SameAnswers DEF Inv
    <2>6. row'[c].state # "gone" => row[c].state # "gone" /\ row'[c].learnt = row[c].learnt
      <3>1. CASE SkipCard(r)
        BY <3>1 DEF SkipCard
      <3>2. CASE SuspendCard(r)
        <4>1. Exists(tx[r].card)
          BY <2>1, ReadyTx DEF Inv, Locks, ReadsStayCurrent
        <4> QED
          BY <3>2, <4>1 DEF SuspendCard, Inv, Types, TypeOK, Row, Exists
      <3> QED
        BY <1>1, <3>1, <3>2
    <2> QED
      BY <2>1, <2>5, <2>6, SoundFrom DEF Inv, Data
  <1> QED
    BY <1>1, SubmitIsSound, UndoIsSound DEF Committing

LEMMA OneStatementIsSound ==
  ASSUME Inv, NEW d \in Cards, OneStatement(d), NEW c \in Cards
  PROVE  Sound(c)'
  <1>1. /\ LogGrows /\ \A b \in Cards \ {d} : row'[b] = row[b]
        /\ \/ logs' = logs
           \/ /\ Len(logs') = Len(logs) + 1 /\ logs'[Len(logs) + 1] = Removed(d)
              /\ \A i \in 1..Len(logs) : logs'[i] = logs[i]
              /\ row'[d].state = "gone"
    BY OneStatementKeepsTypes DEF Inv
  <1>2. Len(logs) \in Nat /\ Removed(d).kind # "answer"
    BY LogDomain DEF Inv, Types, Removed
  <1>3. AnswersOf(c)' = AnswersOf(c)
    BY <1>1, <1>2, SameAnswers DEF Inv
  <1>4. row'[c].state # "gone" => row[c].state # "gone" /\ row'[c].learnt = row[c].learnt
    <2>1. CASE c # d
      BY <1>1, <2>1
    <2>2. CASE c = d
      BY <2>2 DEF OneStatement, EnqueueCard, RemoveCard, SetState, Inv, Types, TypeOK, Row, Exists
    <2> QED
      BY <2>1, <2>2
  <1> QED
    BY <1>1, <1>3, <1>4, SoundFrom DEF Inv, Data

(* The rest of Data, from what a step adds to the log. *)
LEMMA LogIsSound ==
  ASSUME Inv, LogGrows,
         Len(logs') = Len(logs) + 1 =>
           /\ \/ logs'[Len(logs) + 1].key = NoKey
              \/ \A i \in 1..Len(logs) : logs[i].key # logs'[Len(logs) + 1].key
           /\ logs'[Len(logs) + 1].kind = "answer" => logs'[Len(logs) + 1].prev.state = "active"
  PROVE  KeyTakesEffectOnce' /\ SnapshotsAreActive'
  <1>1. /\ Len(logs) \in Nat /\ DOMAIN logs = 1..Len(logs)
        /\ DOMAIN logs' = 1..Len(logs')
    BY LogDomain, LenProperties DEF Inv, Types, LogGrows
  <1>2. /\ Len(logs') \in {Len(logs), Len(logs) + 1}
        /\ \A i \in 1..Len(logs) :
             /\ logs'[i].key = logs[i].key /\ logs'[i].kind = logs[i].kind
             /\ logs'[i].prev = logs[i].prev
    BY DEF LogGrows, SameEntry
  <1>3. \A i \in 1..Len(logs') : i \in 1..Len(logs) \/ (i = Len(logs) + 1 /\ Len(logs') = i)
    <2>1. Len(logs) \in Nat /\ (Len(logs') = Len(logs) \/ Len(logs') = Len(logs) + 1)
      BY <1>1, <1>2
    <2> QED
      BY <2>1
  <1>4. ASSUME NEW i \in 1..Len(logs'), NEW j \in 1..Len(logs'), i # j,
               logs'[i].key = logs'[j].key
        PROVE  logs'[i].key = NoKey
    <2>1. CASE i \in 1..Len(logs) /\ j \in 1..Len(logs)
      BY <1>1, <1>2, <1>4, <2>1 DEF KeyTakesEffectOnce, Inv, Data
    <2>2. CASE i \in 1..Len(logs) /\ j = Len(logs) + 1 /\ Len(logs') = j
      BY <1>2, <1>4, <2>2
    <2>3. CASE j \in 1..Len(logs) /\ i = Len(logs) + 1 /\ Len(logs') = i
      BY <1>2, <1>4, <2>3
    <2> QED
      BY <1>3, <1>4, <2>1, <2>2, <2>3
  <1>5. KeyTakesEffectOnce'
    BY <1>1, <1>4 DEF KeyTakesEffectOnce
  <1>6. ASSUME NEW i \in 1..Len(logs'), logs'[i].kind = "answer"
        PROVE  logs'[i].prev.state = "active"
    <2>1. CASE i \in 1..Len(logs)
      BY <1>2, <1>6, <2>1 DEF SnapshotsAreActive, Inv, Data
    <2> QED
      BY <1>3, <1>6, <2>1
  <1> QED
    BY <1>5, <1>6 DEF SnapshotsAreActive

LEMMA CommitAdds ==
  ASSUME Inv, NEW r \in Requests, Committing(r), Len(logs') = Len(logs) + 1
  PROVE  /\ \/ logs'[Len(logs) + 1].key = NoKey
            \/ \A i \in 1..Len(logs) : logs[i].key # logs'[Len(logs) + 1].key
         /\ logs'[Len(logs) + 1].kind = "answer" =>
              /\ SubmitAnswer(r)
              /\ logs'[Len(logs) + 1].prev.state = "active"
              /\ Exists(tx[r].card) /\ row[tx[r].card].state # "suspended"
  <1> DEFINE new == logs'[Len(logs) + 1]
  <1>1. /\ tx[r].key \in Keys \cup {NoKey} /\ tx[r].card \in Cards /\ tx[r].op # "none"
        /\ tx[r].seen \in Row
        /\ HoldsCard(r, tx[r].card)
        /\ \A k \in Keys : tx[r].key = k => HoldsKey(r, k)
    BY ReadyTx DEF Inv, Ops
  <1>2. new.key = tx[r].key
    BY CommitKeepsTypes DEF Inv
  <1>3. new.key = NoKey \/ \A i \in 1..Len(logs) : logs[i].key # new.key
    BY <1>1, <1>2 DEF Inv, Locks, KeyLocks
  <1>4. Exists(tx[r].card) /\ tx[r].seen = row[tx[r].card]
    BY <1>1 DEF Inv, Locks, ReadsStayCurrent
  <1>5. ASSUME NEW kind \in Kinds, NEW prev \in Row, logs' = Append(logs, Log(r, kind, prev))
        PROVE  new.kind = kind /\ new.prev = prev
    <2>1. new = Log(r, kind, prev)
      BY <1>1, <1>5, LogEntry, Appended DEF Inv, Types
    <2> QED
      BY <2>1 DEF Log
  <1>6. Blank \in Row
    BY DEF Blank, Row, States
  <1>7. CASE SubmitAnswer(r)
    BY <1>1, <1>3, <1>4, <1>5, <1>7 DEF SubmitAnswer, Snapshot, Kinds, Exists, Row, States
  <1>8. CASE SkipCard(r)
    BY <1>3, <1>5, <1>6, <1>8 DEF SkipCard, Kinds
  <1>9. CASE SuspendCard(r)
    BY <1>3, <1>5, <1>6, <1>9 DEF SuspendCard, Kinds
  <1>10. CASE UndoReview(r)
    <2>1. Len(logs) \in Nat /\ Log(r, "undo", Blank).kind = "undo"
      BY LogDomain DEF Inv, Types, Log
    <2> QED
      BY <1>3, <1>10, <2>1, UndoLogs DEF Inv
  <1> QED
    BY <1>7, <1>8, <1>9, <1>10 DEF Committing

LEMMA DataNext == Inv /\ [Next]_vars => Data'
  <1> SUFFICES ASSUME Inv, [Next]_vars PROVE Data'
    OBVIOUS
  <1>1. CASE UNCHANGED <<row, logs>>
    BY <1>1 DEF Inv, Data, KeyTakesEffectOnce, SnapshotsAreActive, Sound, AnswersOf, IsAnswer
  <1>2. ASSUME NEW r \in Requests, Committing(r)
        PROVE  Data'
    <2>1. LogGrows
      BY <1>2, CommitKeepsTypes DEF Inv
    <2>2. KeyTakesEffectOnce' /\ SnapshotsAreActive'
      BY <1>2, <2>1, CommitAdds, LogIsSound
    <2> QED
      BY <1>2, <2>2, CommitIsSound DEF Data
  <1>3. ASSUME NEW c \in Cards, OneStatement(c)
        PROVE  Data'
    <2>1. /\ LogGrows
          /\ logs' = logs \/ logs'[Len(logs) + 1] = Removed(c)
      BY <1>3, OneStatementKeepsTypes DEF Inv
    <2>2. Len(logs) \in Nat /\ Removed(c).key = NoKey /\ Removed(c).kind # "answer"
      BY LogDomain DEF Inv, Types, Removed
    <2>3. KeyTakesEffectOnce' /\ SnapshotsAreActive'
      BY <2>1, <2>2, LogIsSound
    <2> QED
      BY <1>3, <2>3, OneStatementIsSound DEF Data
  <1>4. ASSUME NEW s \in Sessions, EndSession(s)
        PROVE  UNCHANGED <<row, logs>>
    BY <1>4 DEF EndSession
  <1> QED
    BY <1>1, <1>2, <1>3, <1>4, NextCases, ReadingKeepsTypes DEF vars, Inv

LEMMA InvInit == Init => Inv
  <1> SUFFICES ASSUME Init PROVE Inv
    OBVIOUS
  <1>1. Len(logs) = 0 /\ DOMAIN logs = {}
    BY DEF Init
  <1>2. Data
    BY <1>1 DEF Init, Data, KeyTakesEffectOnce, SnapshotsAreActive, Sound, AnswersOf, Blank
  <1> QED
    BY <1>2, TypesInit, LocksInit DEF Inv

LEMMA InvNext == Inv /\ [Next]_vars => Inv'
  BY TypesNext, LocksNext, DataNext DEF Inv

LEMMA Invariance == Spec => []Inv
  BY InvInit, InvNext, PTL DEF Spec

(* What the invariant says of the cards that exist. *)
LEMMA SoundCards ==
  ASSUME Inv
  PROVE  RowsHoldAnswers /\ SnapshotsChain
  <1>1. DOMAIN logs = 1..Len(logs)
    BY LogDomain DEF Inv, Types
  <1>2. ASSUME NEW c \in Cards, Exists(c)
        PROVE  /\ row[c].learnt = AnswersOf(c)
               /\ \A i \in AnswersOf(c) : logs[i].prev.learnt = {j \in AnswersOf(c) : j < i}
    BY <1>2 DEF Inv, Data, Sound, Exists
  <1>3. RowsHoldAnswers
    BY <1>1, <1>2 DEF RowsHoldAnswers, AnswersOf
  <1>4. SnapshotsChain
    <2>1. \A i \in DOMAIN logs : \A c \in Cards :
            {j \in AnswersOf(c) : j < i} = {j \in DOMAIN logs : IsAnswer(j, c) /\ j < i}
      BY <1>1 DEF AnswersOf
    <2>2. \A i \in DOMAIN logs : \A c \in Cards : IsAnswer(i, c) => i \in AnswersOf(c)
      BY <1>1 DEF AnswersOf
    <2> QED
      BY <1>2, <2>1, <2>2 DEF SnapshotsChain
  <1> QED
    BY <1>3, <1>4

(* A card's schedule holds exactly the answers that stand, whatever        *)
(* submits, undos, suspensions and restores run concurrently: the row lock *)
(* is held from submit's read of the card to its commit.                   *)
THEOREM ReviewSchedules == Spec => []ScheduleFollowsAnswers
  <1>1. Inv => ScheduleFollowsAnswers
    BY SoundCards DEF Inv, Types, ScheduleFollowsAnswers
  <1> QED
    BY <1>1, Invariance, PTL

(* The snapshot in each answer's log row is the schedule without it, so    *)
(* undoing the latest answer, and then the one before, goes back a step at *)
(* a time.                                                                 *)
THEOREM ReviewSnapshots == Spec => []SnapshotsChain
  BY Invariance, SoundCards, PTL

(* Nothing a transaction read of a card under FOR UPDATE is stale when it  *)
(* writes the card.                                                        *)
THEOREM ReviewReads == Spec => []ReadsStayCurrent
  <1>1. Inv => ReadsStayCurrent
    BY DEF Inv, Locks
  <1> QED
    BY <1>1, Invariance, PTL

(* An idempotency key is in one log row at most, because its advisory lock *)
(* is held from the lookup to the commit.                                  *)
THEOREM ReviewKeys == Spec => []KeyTakesEffectOnce
  <1>1. Inv => KeyTakesEffectOnce
    BY DEF Inv, Data
  <1> QED
    BY <1>1, Invariance, PTL

-----------------------------------------------------------------------------
(* What a step may never do. *)

(* The log keeps its entries and gains one at most. *)
LEMMA LogSteps ==
  ASSUME Types, LogGrows
  PROVE  /\ DOMAIN logs = 1..Len(logs) /\ DOMAIN logs' = 1..Len(logs')
         /\ \A i \in DOMAIN logs' : i \notin DOMAIN logs =>
              i = Len(logs) + 1 /\ Len(logs') = Len(logs) + 1
  <1>1. Len(logs) \in Nat /\ DOMAIN logs = 1..Len(logs) /\ DOMAIN logs' = 1..Len(logs')
    BY LogDomain, LenProperties DEF Types, LogGrows
  <1>2. Len(logs') = Len(logs) \/ Len(logs') = Len(logs) + 1
    BY DEF LogGrows
  <1>3. \A i \in 1..Len(logs') : i \in 1..Len(logs) \/ (i = Len(logs) + 1 /\ Len(logs') = i)
    <2>1. Len(logs) \in Nat
      BY <1>1
    <2> QED
      BY <1>2, <2>1
  <1> QED
    BY <1>1, <1>3

SessionsStep ==
  /\ \A i \in DOMAIN logs' : i \notin DOMAIN logs => logs'[i].session \in open \cup {"none"}
  /\ \A i \in DOMAIN logs : logs'[i].undone # logs[i].undone => logs[i].session \in open

AnswersStep ==
  \A i \in DOMAIN logs' :
    (i \notin DOMAIN logs /\ logs'[i].kind = "answer") =>
      Exists(logs'[i].card) /\ row[logs'[i].card].state # "suspended"

LEMMA CommitStep ==
  ASSUME Inv, NEW r \in Requests, Committing(r)
  PROVE  SessionsStep /\ AnswersStep
  <1>1. /\ tx[r].session \in Sessions \cup {"none"}
        /\ \A s \in Sessions : tx[r].session = s => HoldsSession(r, s)
    BY ReadyTx DEF Inv
  <1>2. tx[r].session \in open \cup {"none"}
    BY <1>1 DEF Inv, Locks, SessionLocks
  <1>3. /\ LogGrows
        /\ Len(logs') = Len(logs) + 1 => /\ logs'[Len(logs) + 1].session = tx[r].session
                                         /\ logs'[Len(logs) + 1].card = tx[r].card
    BY CommitKeepsTypes DEF Inv
  <1>4. /\ DOMAIN logs = 1..Len(logs)
        /\ \A i \in DOMAIN logs' : i \notin DOMAIN logs =>
             i = Len(logs) + 1 /\ Len(logs') = Len(logs) + 1
    BY <1>3, LogSteps DEF Inv
  <1>5. \A i \in DOMAIN logs : logs'[i].undone # logs[i].undone => logs[i].session \in open
    <2>1. CASE UndoReview(r)
      <3>1. /\ \A j \in 1..Len(logs) : logs'[j].undone = (j = tx[r].log \/ logs[j].undone)
            /\ \A j \in 1..Len(logs) : logs[j] \in Entry
        BY <2>1, UndoLogs, LogDomain DEF Inv, Types
      <3>2. tx[r].session \in Sessions /\ tx[r].op = "undo"
        BY <2>1, TxType DEF Inv, UndoReview, Ready, Shaped, Idle
      <3>3. tx[r].session \in open
        BY <1>2, <3>2, ReviewAssumption
      <3>4. logs[tx[r].log].session = tx[r].session
        BY <2>1 DEF UndoReview
      <3> QED
        BY <1>4, <3>1, <3>3, <3>4 DEF Entry
    <2>2. CASE ~UndoReview(r)
      <3>1. PICK kind \in Kinds, prev \in Row : logs' = Append(logs, Log(r, kind, prev))
        BY <2>2, ReadyTx
        DEF Inv, Committing, SubmitAnswer, SkipCard, SuspendCard, Snapshot, Kinds, Row, Blank, States
      <3>2. Log(r, kind, prev) \in Entry
        BY ReadyTx, LogEntry DEF Inv, Ops
      <3> QED
        BY <1>4, <3>1, <3>2, Appended DEF Inv, Types
    <2> QED
      BY <2>1, <2>2
  <1> QED
    BY <1>2, <1>3, <1>4, <1>5, CommitAdds DEF SessionsStep, AnswersStep

LEMMA StepsAreAllowed == Inv /\ [Next]_vars => SessionsStep /\ AnswersStep
  <1> SUFFICES ASSUME Inv, [Next]_vars PROVE SessionsStep /\ AnswersStep
    OBVIOUS
  <1>1. CASE UNCHANGED logs
    BY <1>1 DEF SessionsStep, AnswersStep
  <1>2. ASSUME NEW c \in Cards, OneStatement(c)
        PROVE  SessionsStep /\ AnswersStep
    <2>1. /\ LogGrows
          /\ logs' = logs \/ (/\ logs'[Len(logs) + 1] = Removed(c)
                              /\ \A i \in 1..Len(logs) : logs'[i] = logs[i])
      BY <1>2, OneStatementKeepsTypes DEF Inv
    <2>2. Removed(c).session = "none" /\ Removed(c).kind = "removed"
      BY DEF Removed
    <2> QED
      BY <1>1, <2>1, <2>2, LogSteps DEF SessionsStep, AnswersStep, Inv
  <1>3. ASSUME NEW s \in Sessions, EndSession(s)
        PROVE  UNCHANGED logs
    BY <1>3 DEF EndSession
  <1> QED
    BY <1>1, <1>2, <1>3, CommitStep, NextCases, ReadingKeepsTypes DEF vars, Inv

(* A session that EndSession closed gets no further log entry, and none of *)
(* its answers is undone: the session row is locked from the check that it *)
(* is open to the commit.                                                  *)
THEOREM ReviewSessionsClose == Spec => SessionsClose
  <1>1. Inv /\ [Next]_vars =>
          [/\ \A i \in DOMAIN logs' : i \notin DOMAIN logs => logs'[i].session \in open \cup {"none"}
           /\ \A i \in DOMAIN logs : logs'[i].undone # logs[i].undone => logs[i].session \in open]_vars
    BY StepsAreAllowed DEF SessionsStep
  <1> QED
    BY <1>1, Invariance, PTL DEF Spec, SessionsClose

(* An answer is recorded only for a card that is in the queue and not      *)
(* suspended at the commit, not only when the submit read it.              *)
THEOREM ReviewAnswersLiveCards == Spec => OnlyLiveCardsAnswered
  <1>1. Inv /\ [Next]_vars =>
          [\A i \in DOMAIN logs' :
             (i \notin DOMAIN logs /\ logs'[i].kind = "answer") =>
               Exists(logs'[i].card) /\ row[logs'[i].card].state # "suspended"]_vars
    BY StepsAreAllowed DEF AnswersStep
  <1> QED
    BY <1>1, Invariance, PTL DEF Spec, OnlyLiveCardsAnswered

(* A commit acts on the session and the card as they are when it commits.  *)
THEOREM ReviewCommits == Spec => CommitsAreCurrent
  BY ReviewSessionsClose, ReviewAnswersLiveCards DEF CommitsAreCurrent

-----------------------------------------------------------------------------
(* The refinement of AnswerStack. *)

LEMMA SameStack == UNCHANGED <<row, logs>> => UNCHANGED Stack!stackVars
  BY DEF Stack!stackVars, PlaceView, StackView

(* A step that writes one row changes its place and its stack alone. *)
LEMMA OneRow ==
  ASSUME NEW c \in Cards, \A d \in Cards \ {c} : row'[d] = row[d],
         NEW place, place = (IF row'[c].state \in {"none", "gone"} THEN row'[c].state ELSE "queued")
  PROVE  /\ PlaceView' = [PlaceView EXCEPT ![c] = place]
         /\ StackView' = [StackView EXCEPT ![c] = row'[c].learnt]
  BY DEF PlaceView, StackView

LEMMA CommitImplements ==
  ASSUME Inv, NEW r \in Requests, Committing(r)
  PROVE  [Stack!StackNext]_(Stack!stackVars)
  <1> DEFINE c == tx[r].card
  <1>1. c \in Cards /\ LogGrows /\ HoldsCard(r, c) /\ tx[r].op # "none" /\ tx[r].seen \in Row
    BY ReadyTx, CommitKeepsTypes DEF Inv, Ops
  <1>2. Exists(c) /\ tx[r].seen = row[c]
    BY <1>1 DEF Inv, Locks, ReadsStayCurrent
  <1>3. /\ PlaceView[c] = "queued" /\ StackView[c] = row[c].learnt
        /\ row \in [Cards -> Row] /\ Len(logs) \in Nat
        /\ Len(logs') = Len(logs) \/ Len(logs') = Len(logs) + 1
    BY <1>1, <1>2, LogDomain DEF PlaceView, StackView, Exists, Inv, Types, TypeOK, LogGrows
  <1>4. ASSUME NEW kind \in Kinds, NEW prev \in Row, logs' = Append(logs, Log(r, kind, prev))
        PROVE  Len(logs') = Len(logs) + 1
    BY <1>1, <1>4, LogEntry, Appended DEF Inv, Types
  <1>5. Blank \in Row
    BY DEF Blank, Row, States
  <1>6. CASE SubmitAnswer(r)
    <2>1. Len(logs') = Len(logs) + 1
      BY <1>1, <1>4, <1>6 DEF SubmitAnswer, Snapshot, Kinds
    <2>2. /\ \A d \in Cards \ {c} : row'[d] = row[d]
          /\ row'[c].state = "active" /\ row'[c].learnt = row[c].learnt \cup {Len(logs')}
      BY <1>1, <1>2, <1>3, <1>6, <2>1 DEF SubmitAnswer
    <2>3. /\ PlaceView' = [PlaceView EXCEPT ![c] = "queued"]
          /\ StackView' = [StackView EXCEPT ![c] = row'[c].learnt]
      BY <1>1, <2>2, OneRow
    <2>4. PlaceView' = PlaceView
      BY <1>3, <2>3 DEF PlaceView
    <2>5. StackView' = [StackView EXCEPT ![c] = @ \cup {Len(logs')}]
      BY <1>3, <2>2, <2>3
    <2>6. Stack!Push(c)
      BY <1>3, <2>1, <2>4, <2>5 DEF Stack!Push
    <2> QED
      BY <1>1, <2>6 DEF Stack!StackNext
  <1>7. CASE SkipCard(r)
    <2>1. Len(logs') > Len(logs) /\ UNCHANGED row
      BY <1>3, <1>4, <1>5, <1>7 DEF SkipCard, Kinds
    <2>2. UNCHANGED <<PlaceView, StackView>>
      BY <2>1 DEF PlaceView, StackView
    <2> QED
      BY <2>1, <2>2 DEF Stack!StackNext, Stack!Number
  <1>8. CASE SuspendCard(r)
    <2>1. Len(logs') > Len(logs)
      BY <1>3, <1>4, <1>5, <1>8 DEF SuspendCard, Kinds
    <2>2. /\ \A d \in Cards \ {c} : row'[d] = row[d]
          /\ row'[c].state = "suspended" /\ row'[c].learnt = row[c].learnt
      BY <1>1, <1>3, <1>8 DEF SuspendCard, Row
    <2>3. /\ PlaceView' = [PlaceView EXCEPT ![c] = "queued"]
          /\ StackView' = [StackView EXCEPT ![c] = row'[c].learnt]
      BY <1>1, <2>2, OneRow
    <2>4. UNCHANGED <<PlaceView, StackView>>
      BY <1>3, <2>2, <2>3 DEF PlaceView, StackView
    <2> QED
      BY <2>1, <2>4 DEF Stack!StackNext, Stack!Number
  <1>9. CASE UndoReview(r)
    <2> DEFINE i == tx[r].log
    <2>1. /\ row' = [row EXCEPT ![c] = logs[i].prev]
          /\ IsAnswer(i, c) /\ \A j \in 1..Len(logs) : IsAnswer(j, c) => j <= i
      BY <1>9, LogDomain DEF UndoReview, IsLatest, Inv, Types
    <2>2. i \in AnswersOf(c)
      BY <1>9, <2>1, TxType DEF Inv, UndoReview, Ready, Shaped, Idle, AnswersOf
    <2>3. /\ row[c].learnt = AnswersOf(c)
          /\ logs[i].prev.learnt = {j \in AnswersOf(c) : j < i}
          /\ logs[i].prev.state = "active"
      BY <1>1, <1>2, <2>1, <2>2
      DEF Inv, Data, Sound, Exists, SnapshotsAreActive, IsAnswer, AnswersOf
    <2>4. Stack!Top(StackView[c], i)
      BY <1>3, <2>1, <2>2, <2>3 DEF Stack!Top, AnswersOf
    <2>5. {j \in AnswersOf(c) : j < i} = AnswersOf(c) \ {i}
      BY <1>3, <2>1, <2>2 DEF AnswersOf
    <2>6. /\ \A d \in Cards \ {c} : row'[d] = row[d]
          /\ row'[c].state = "active" /\ row'[c].learnt = row[c].learnt \ {i}
      BY <1>1, <1>3, <2>1, <2>3, <2>5
    <2>7. /\ PlaceView' = [PlaceView EXCEPT ![c] = "queued"]
          /\ StackView' = [StackView EXCEPT ![c] = row'[c].learnt]
      BY <1>1, <2>6, OneRow
    <2>8. PlaceView' = PlaceView
      BY <1>3, <2>7 DEF PlaceView
    <2>9. StackView' = [StackView EXCEPT ![c] = @ \ {i}]
      BY <1>3, <2>6, <2>7
    <2>10. Len(logs') >= Len(logs)
      BY <1>3
    <2>11. Stack!Pop(c, i) /\ i \in StackView[c]
      BY <1>3, <2>4, <2>8, <2>9, <2>10 DEF Stack!Pop, Stack!Top
    <2> QED
      BY <1>1, <2>11 DEF Stack!StackNext
  <1> QED
    BY <1>6, <1>7, <1>8, <1>9 DEF Committing

LEMMA OneStatementImplements ==
  ASSUME Inv, NEW c \in Cards, OneStatement(c)
  PROVE  [Stack!StackNext]_(Stack!stackVars)
  <1>1. /\ row \in [Cards -> Row] /\ Len(logs) \in Nat
        /\ \A d \in Cards \ {c} : row'[d] = row[d]
        /\ logs' = logs \/ Len(logs') = Len(logs) + 1
    BY OneStatementKeepsTypes, LogDomain DEF Inv, Types, TypeOK
  <1>2. PlaceView[c] = (IF row[c].state \in {"none", "gone"} THEN row[c].state ELSE "queued")
        /\ StackView[c] = row[c].learnt
    BY DEF PlaceView, StackView
  <1>3. CASE EnqueueCard(c)
    <2>1. row'[c].state = "active" /\ row'[c].learnt = row[c].learnt /\ row[c].state = "none"
      BY <1>1, <1>3 DEF EnqueueCard, Row
    <2>2. /\ PlaceView' = [PlaceView EXCEPT ![c] = "queued"]
          /\ StackView' = [StackView EXCEPT ![c] = row'[c].learnt]
      BY <1>1, <2>1, OneRow
    <2>3. StackView' = StackView /\ UNCHANGED logs
      BY <1>2, <1>3, <2>1, <2>2 DEF StackView, EnqueueCard
    <2>4. Stack!Enter(c)
      BY <1>2, <2>1, <2>2, <2>3 DEF Stack!Enter
    <2> QED
      BY <2>4 DEF Stack!StackNext
  <1>4. CASE RemoveCard(c)
    <2>1. row'[c].state = "gone" /\ row'[c].learnt = {}
      BY <1>1, <1>4 DEF RemoveCard
    <2>2. /\ PlaceView' = [PlaceView EXCEPT ![c] = "gone"]
          /\ StackView' = [StackView EXCEPT ![c] = {}]
      BY <1>1, <2>1, OneRow
    <2>3. Len(logs') >= Len(logs) /\ PlaceView[c] = "queued"
      BY <1>1, <1>2, <1>4 DEF RemoveCard, Exists
    <2>4. Stack!Leave(c)
      BY <2>2, <2>3 DEF Stack!Leave
    <2> QED
      BY <2>4 DEF Stack!StackNext
  <1>5. CASE SetState(c)
    <2>1. /\ row'[c].state \in {"active", "suspended"} /\ row'[c].learnt = row[c].learnt
          /\ Exists(c) /\ UNCHANGED logs
      BY <1>1, <1>5 DEF SetState, Row
    <2>2. /\ PlaceView' = [PlaceView EXCEPT ![c] = "queued"]
          /\ StackView' = [StackView EXCEPT ![c] = row'[c].learnt]
      BY <1>1, <2>1, OneRow
    <2>3. UNCHANGED <<PlaceView, StackView>>
      BY <1>2, <2>1, <2>2 DEF PlaceView, StackView, Exists
    <2> QED
      BY <2>1, <2>3 DEF Stack!stackVars
  <1> QED
    BY <1>3, <1>4, <1>5 DEF OneStatement

(* Submits, undos, skips and suspensions of concurrent requests do to each *)
(* card's schedule what pushes and pops of a stack of answers do.          *)
THEOREM ReviewRefinement == Spec => ImplementsAnswerStack
  <1>1. Init => Stack!StackInit
    BY DEF Init, Blank, PlaceView, StackView, Stack!StackInit
  <1>2. Inv /\ [Next]_vars => [Stack!StackNext]_(Stack!stackVars)
    <2> SUFFICES ASSUME Inv, [Next]_vars PROVE [Stack!StackNext]_(Stack!stackVars)
      OBVIOUS
    <2>1. CASE UNCHANGED <<row, logs>>
      BY <2>1, SameStack
    <2>2. ASSUME NEW s \in Sessions, EndSession(s)
          PROVE  UNCHANGED <<row, logs>>
      BY <2>2 DEF EndSession
    <2>3. ASSUME NEW r \in Requests, Reading(r)
          PROVE  UNCHANGED <<row, logs>>
      BY <2>3, ReadingKeepsTypes DEF Inv
    <2> QED
      BY <2>1, <2>2, <2>3, NextCases, CommitImplements, OneStatementImplements DEF vars
  <1> QED
    BY <1>1, <1>2, Invariance, PTL DEF Spec, ImplementsAnswerStack, Stack!StackSpec
=============================================================================
