------------------------------ MODULE CrossTrack ------------------------------
(***************************************************************************)
(* What the two tracks of one word do to each other.  L1 answers and       *)
(* drill (L2) answers are recorded with an outbox event each; workers take *)
(* the events later and in any order, promote the word to L2 when it is    *)
(* stable, pause its L2 row when L1 collapses and resume it when L1        *)
(* recovers, and flag the L1 card when drilling keeps failing.  Undo,      *)
(* suspension, forgetting and its restore, removal and promotion by hand   *)
(* go on meanwhile, without events.                                        *)
(*                                                                         *)
(* Module Outbox shows that an event takes effect exactly once or is given *)
(* up, so events are counted here.  An L1 event is processed in one        *)
(* transaction that locks the L1 row, and reads what it holds by then, not *)
(* what it held when the answer was given; it is two steps, the read and   *)
(* the writes.  Ratings good and easy are one.                             *)
(***************************************************************************)
EXTENDS Naturals, Sequences, SequencesExt

CONSTANTS
  Workers,
  MaxAnswers,  \* bound on the standing L1 answers
  MaxEvents    \* bound on the events of both tracks that wait or are in work

VARIABLES
  card,      \* the L1 row: here, suspended, or gone
  answers,   \* its standing answers, each with the flag its snapshot kept
  flag,      \* l1_weak_signal
  pause,     \* l2_paused_reason of the L2 row; live: not paused; none: no row
  failures,  \* how many of the latest drill ratings are again, up to three
  events,    \* pending events, by track
  worker,    \* per worker: the L1 event transaction it is in
  promoting, \* the transaction of a promotion by hand has found no L2 row
  settled    \* history: by track, only events came after the last answer

vars == <<card, answers, flag, pause, failures, events, worker, promoting, settled>>

Tracks == {"l1", "l2"}
Ratings == {"again", "hard", "good"}
Window == 2
WeakWindow == 3
Free == [busy |-> FALSE, read |-> <<>>, promoted |-> FALSE]

LastAre(s, rating) ==
  /\ Len(s) >= Window
  /\ \A i \in (Len(s) - Window + 1)..Len(s) : s[i] = rating
Collapsed(s) == LastAre(s, "again")
Recovered(s) == LastAre(s, "good")

RatingsOf(s) == [i \in DOMAIN s |-> s[i].rating]

(* findProgressForOutbox locks the L1 row; every writer of it waits. *)
RowFree_PlainSelect == TRUE
RowFree == \A w \in Workers : ~worker[w].busy

(* Events that wait, and the L1 event that is in work: never two of those. *)
InWork == IF RowFree THEN 0 ELSE 1
Outstanding == events["l1"] + events["l2"] + InWork

-----------------------------------------------------------------------------

Init ==
  /\ card = "here" /\ answers = <<>> /\ flag = FALSE
  /\ pause = "none" /\ failures = 0
  /\ events = [t \in Tracks |-> 0]
  /\ worker = [w \in Workers |-> Free]
  /\ promoting = FALSE
  /\ settled = [t \in Tracks |-> FALSE]

Enqueued(track) == events' = [events EXCEPT ![track] = @ + 1]
Consumed(track) == events' = [events EXCEPT ![track] = @ - 1]

(* submitAnswer *)
Answer ==
  /\ card = "here" /\ RowFree
  /\ Len(answers) < MaxAnswers /\ Outstanding < MaxEvents
  /\ \E r \in Ratings : answers' = Append(answers, [rating |-> r, flag |-> flag])
  /\ Enqueued("l1")
  /\ settled' = [settled EXCEPT !["l1"] = TRUE]
  /\ UNCHANGED <<card, flag, pause, failures, worker, promoting>>

(* undo_review_log; the outbox and the L2 row do not hear of it. *)
Undo ==
  /\ card # "gone" /\ answers # <<>> /\ RowFree
  /\ answers' = Front(answers)
  /\ flag' = Last(answers).flag
  /\ card' = "here"
  /\ settled' = [t \in Tracks |-> FALSE]
  /\ UNCHANGED <<pause, failures, events, worker, promoting>>

Suspend ==
  /\ card = "here" /\ RowFree
  /\ card' = "suspended"
  /\ UNCHANGED <<answers, flag, pause, failures, events, worker, promoting, settled>>

(* The events of a removed card are given up, as are those that name it    *)
(* after the word was enqueued again: they name the row by its id.         *)
RemoveCard ==
  /\ card # "gone" /\ RowFree
  /\ card' = "gone" /\ answers' = <<>> /\ flag' = FALSE
  /\ events' = [events EXCEPT !["l1"] = 0]
  /\ settled' = [t \in Tracks |-> FALSE]
  /\ UNCHANGED <<pause, failures, worker, promoting>>

EnqueueCard ==
  /\ card = "gone"
  /\ card' = "here"
  /\ settled' = [t \in Tracks |-> FALSE]
  /\ UNCHANGED <<answers, flag, pause, failures, events, worker, promoting>>

(* clearL1WeakSignal: the user has seen the flag. *)
ClearWeakSignal ==
  /\ card # "gone" /\ flag /\ RowFree
  /\ flag' = FALSE
  /\ settled' = [settled EXCEPT !["l2"] = FALSE]
  /\ UNCHANGED <<card, answers, pause, failures, events, worker, promoting>>

(* ForgettingService.apply on a wordbook of which the word is no anchor:   *)
(* it locks the L1 row only when it suspends it.                           *)
ForgetBook ==
  LET candidate == card = "here" /\ answers # <<>>
  IN /\ candidate => RowFree
     /\ card' = IF candidate THEN "suspended" ELSE card
     /\ pause' = IF pause = "none" THEN "none" ELSE "manual"
     /\ settled' = [settled EXCEPT !["l1"] = FALSE]
     /\ UNCHANGED <<answers, flag, failures, events, worker, promoting>>

(* ForgettingService.restore of a batch, which may have held the card. *)
RestoreBook ==
  /\ \/ card = "suspended" /\ RowFree /\ card' = "here"
     \/ card' = card
  /\ pause' = IF pause = "manual" THEN "live" ELSE pause
  /\ settled' = [settled EXCEPT !["l1"] = FALSE]
  /\ UNCHANGED <<answers, flag, failures, events, worker, promoting>>

(* promoteNow and promoteWithSeed: look for an L2 row, then insert one.    *)
(* The insert of a row that came meanwhile fails on the unique key.        *)
PromoteRead ==
  /\ card # "gone" /\ pause = "none" /\ ~promoting
  /\ promoting' = TRUE
  /\ UNCHANGED <<card, answers, flag, pause, failures, events, worker, settled>>

PromoteWrite ==
  /\ promoting
  /\ promoting' = FALSE
  /\ pause' = IF pause = "none" THEN "live" ELSE pause
  /\ settled' = [settled EXCEPT !["l1"] = FALSE]
  /\ UNCHANGED <<card, answers, flag, failures, events, worker>>

-----------------------------------------------------------------------------
(* The drill: answers on an L2 row that is not paused, and their undo. *)

Drilled(again) == IF again THEN IF failures < WeakWindow THEN failures + 1 ELSE failures ELSE 0

DrillAnswer ==
  /\ pause = "live" /\ Outstanding < MaxEvents
  /\ \E again \in BOOLEAN : failures' = Drilled(again)
  /\ Enqueued("l2")
  /\ settled' = [settled EXCEPT !["l2"] = TRUE]
  /\ UNCHANGED <<card, answers, flag, pause, worker, promoting>>

(* recent_ratings go back to any earlier run of failures. *)
DrillUndo ==
  /\ pause # "none"
  /\ failures' \in 0..WeakWindow
  /\ settled' = [settled EXCEPT !["l2"] = FALSE]
  /\ UNCHANGED <<card, answers, flag, pause, events, worker, promoting>>

-----------------------------------------------------------------------------
(* Workers. *)

(* BEGIN, findProgressForOutbox, and the look for an L2 row. *)
Take(w) ==
  /\ ~worker[w].busy /\ events["l1"] > 0 /\ RowFree
  /\ Consumed("l1")
  /\ worker' = [worker EXCEPT ![w] =
                  [busy |-> TRUE, read |-> RatingsOf(answers), promoted |-> pause # "none"]]
  /\ UNCHANGED <<card, answers, flag, pause, failures, promoting, settled>>

(* checkAndTransition: how stable the card is is not modelled. *)
Promoted(w) ==
  IF worker[w].promoted \/ worker[w].read = <<>> \/ Last(worker[w].read) # "good"
    THEN {pause}
    ELSE {pause, "live"}

(* checkL1Cascade *)
Cascaded_AnswerAlone(read, p) ==
  IF p = "none" THEN p
  ELSE IF read # <<>> /\ Last(read) = "again" THEN "l1_cascade_failure"
  ELSE IF Recovered(read) /\ p = "l1_cascade_failure" THEN "live"
  ELSE p

Cascaded(read, p) ==
  IF p = "none" THEN p
  ELSE IF Collapsed(read) THEN "l1_cascade_failure"
  ELSE IF Recovered(read) /\ p = "l1_cascade_failure" THEN "live"
  ELSE p

(* When another transaction inserted the L2 row meanwhile, the insert here *)
(* fails on the unique key, and the transaction with it.                   *)
Apply(w) ==
  /\ worker[w].busy
  /\ \E p \in Promoted(w) :
       /\ p # pause => pause = "none"
       /\ pause' = Cascaded(worker[w].read, p)
  /\ worker' = [worker EXCEPT ![w] = Free]
  /\ UNCHANGED <<card, answers, flag, failures, events, promoting, settled>>

(* ROLLBACK; the event is retried, or given up after its last attempt. *)
Fail(w) ==
  /\ worker[w].busy
  /\ worker' = [worker EXCEPT ![w] = Free]
  /\ \/ Enqueued("l1") /\ UNCHANGED settled
     \/ UNCHANGED events /\ settled' = [settled EXCEPT !["l1"] = FALSE]
  /\ UNCHANGED <<card, answers, flag, pause, failures, promoting>>

(* checkL2FailureCascade: its read and its one UPDATE are one step here,   *)
(* for a drill answer given in between has an event of its own.            *)
RaisesFlag == failures >= WeakWindow

ApplyDrill(w) ==
  /\ ~worker[w].busy /\ events["l2"] > 0 /\ RowFree
  /\ Consumed("l2")
  /\ flag' = (flag \/ (RaisesFlag /\ card # "gone"))
  /\ UNCHANGED <<card, answers, pause, failures, worker, promoting, settled>>

GiveUpDrill ==
  /\ events["l2"] > 0
  /\ Consumed("l2")
  /\ settled' = [settled EXCEPT !["l2"] = FALSE]
  /\ UNCHANGED <<card, answers, flag, pause, failures, worker, promoting>>

-----------------------------------------------------------------------------

Next ==
  \/ Answer \/ Undo \/ Suspend \/ RemoveCard \/ EnqueueCard \/ ClearWeakSignal
  \/ ForgetBook \/ RestoreBook \/ PromoteRead \/ PromoteWrite
  \/ DrillAnswer \/ DrillUndo \/ GiveUpDrill
  \/ \E w \in Workers : Take(w) \/ Apply(w) \/ Fail(w) \/ ApplyDrill(w)

Spec == Init /\ [][Next]_vars

-----------------------------------------------------------------------------

TypeOK ==
  /\ card \in {"here", "suspended", "gone"}
  /\ answers \in Seq([rating : Ratings, flag : BOOLEAN])
  /\ flag \in BOOLEAN /\ promoting \in BOOLEAN
  /\ pause \in {"none", "live", "l1_cascade_failure", "manual"}
  /\ failures \in 0..WeakWindow
  /\ events \in [Tracks -> Nat]
  /\ worker \in [Workers -> [busy : BOOLEAN, read : Seq(Ratings), promoted : BOOLEAN]]
  /\ settled \in [Tracks -> BOOLEAN]

Drained == events["l1"] = 0 /\ \A w \in Workers : ~worker[w].busy

(* Once the events are worked off, and nothing but events came after the   *)
(* last answer, the L2 row is as the latest ratings of L1 want it: paused  *)
(* after a collapse, not paused for one after a recovery; in whatever      *)
(* order and by however many workers the events were processed.            *)
CascadeConverges ==
  (Drained /\ settled["l1"] /\ pause # "none") =>
    /\ Collapsed(RatingsOf(answers)) => pause = "l1_cascade_failure"
    /\ Recovered(RatingsOf(answers)) => pause # "l1_cascade_failure"

(* A card whose drilling keeps failing ends up flagged, unless an undo on  *)
(* either track, or the user clearing the flag, came after the last drill  *)
(* answer.                                                                 *)
FailuresRaiseFlag ==
  (events["l2"] = 0 /\ settled["l2"] /\ failures = WeakWindow /\ card # "gone") => flag

(* The two tracks, of values of their types, converge once the events are  *)
(* worked off.                                                             *)
TracksConverge == TypeOK /\ CascadeConverges /\ FailuresRaiseFlag

(* The L2 row is paused for a collapse, or resumed after one, only while   *)
(* the ratings of L1 say so at that moment: not on ratings that were       *)
(* answered over or undone while the event waited or was in work.          *)
PausesFollowCurrentRatings ==
  [][/\ (pause # "l1_cascade_failure" /\ pause' = "l1_cascade_failure") =>
          Collapsed(RatingsOf(answers))
     /\ (pause = "l1_cascade_failure" /\ pause' = "live") => Recovered(RatingsOf(answers))]_vars
=============================================================================
