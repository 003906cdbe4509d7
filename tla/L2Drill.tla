------------------------------- MODULE L2Drill -------------------------------
(***************************************************************************)
(* The L2 drill of one wordbook: queues build the steps of a session, a    *)
(* discrimination step is answered and rates the word's L2 row, a correct  *)
(* answer opens a production step that is self-assessed, and undo takes    *)
(* back the session's last step.  Cascades and forgetting pause rows       *)
(* meanwhile (module CrossTrack).                                          *)
(*                                                                         *)
(* Requests are READ COMMITTED transactions.  A submit is split at its     *)
(* locks: its key, the step, the row.  An undo reads the last step without *)
(* a lock, then locks the log row of its answer, then writes.  The columns *)
(* that scheduling writes (stability, difficulty, due date, ratings) are   *)
(* one value, the answers they were computed from; the scheduler's payload *)
(* is a second copy, from which the next answer is scheduled.              *)
(*                                                                         *)
(* created_at is the start of a step's transaction; steps are taken to be  *)
(* created in the order of the commits.                                    *)
(*                                                                         *)
(* Session checks are as in module ReviewTrack and not repeated: a submit  *)
(* they refuse is one that aborts here, and undo makes none.               *)
(***************************************************************************)
EXTENDS Naturals, Sequences

CONSTANTS
  Words,
  Sessions,
  Keys,      \* idempotency keys of clients
  NoKey,
  Requests,  \* transactions that may be open at a time
  MaxLogs,   \* bound on the log
  MaxTime    \* bound on the transactions that create steps

ASSUME L2DrillAssumption == NoKey \notin Keys /\ MaxLogs \in Nat /\ MaxTime \in Nat

VARIABLES
  row,    \* rows of user_word_l2_progress
  steps,  \* l2_drill_session_steps, by session, word and step_index
  time,   \* created_at of the latest steps
  logs,   \* the L2 rows of review_logs, in the order they were committed
  tx      \* per request: what it was asked, how far it is, what it read

vars == <<row, steps, time, logs, tx>>

Indices == {0, 1}
Statuses == {"none", "pending", "completed", "skipped"}

Row == [sched : SUBSET Nat, payload : SUBSET Nat, paused : BOOLEAN, produced : BOOLEAN]

(* A step is told apart from an earlier one in its place by when it was    *)
(* created; log is the review_log_id of its answer, 0 if there is none.    *)
Step == [status : Statuses, production : BOOLEAN, born : Nat, log : Nat]
NoStep == [status |-> "none", production |-> FALSE, born |-> 0, log |-> 0]
NewStep(production, born) ==
  [NoStep EXCEPT !.status = "pending", !.production = production, !.born = born]

Idle == [step |-> "idle", op |-> "none", session |-> "none", word |-> "none", index |-> 0,
         key |-> NoKey, read |-> NoStep, payload |-> {}, sched |-> {}]

(* findLastDrillStep: by created_at, then step_index, the latest first. *)
Last(s) ==
  {at \in Words \X Indices :
     LET last == steps[s][at[1]][at[2]] IN
     /\ last.status # "none"
     /\ \A w \in Words, i \in Indices : steps[s][w][i].status # "none" =>
          \/ steps[s][w][i].born < last.born
          \/ steps[s][w][i].born = last.born /\ i <= at[2]}

-----------------------------------------------------------------------------
(* Locks follow from how far each open transaction is. *)

Submitting(r, at) == tx[r].op = "submit" /\ tx[r].step \in at

StepFree_PlainSelect(s, w, i) == TRUE
StepFree(s, w, i) ==
  i = 0 => \A r \in Requests :
             Submitting(r, {"stepped", "ready"}) => tx[r].session # s \/ tx[r].word # w

RowFree(w) == \A r \in Requests : Submitting(r, {"ready"}) => tx[r].word # w

LogFree(i) == \A r \in Requests : ~(tx[r].step = "logged" /\ tx[r].read.log = i)

KeyFree(k) ==
  k # NoKey => /\ \A r \in Requests : tx[r].step # "idle" => tx[r].key # k
               /\ \A i \in DOMAIN logs : logs[i].key # k

-----------------------------------------------------------------------------

Init ==
  /\ row = [w \in Words |-> [sched |-> {}, payload |-> {}, paused |-> FALSE, produced |-> FALSE]]
  /\ steps = [s \in Sessions |-> [w \in Words |-> [i \in Indices |-> NoStep]]]
  /\ time = 0
  /\ logs = <<>>
  /\ tx = [r \in Requests |-> Idle]

Done(r) == tx' = [tx EXCEPT ![r] = Idle]

(* getQueue: a step for every due word that has none; whether the word's   *)
(* content allows a discrimination task is left open.                      *)
GetQueue(s) ==
  /\ time < MaxTime
  /\ \E due \in SUBSET {w \in Words : ~row[w].paused /\ steps[s][w][0].status = "none"} :
       \E single \in SUBSET due :
         /\ due # {}
         /\ steps' = [steps EXCEPT ![s] = [w \in Words |->
               IF w \in due THEN [@[w] EXCEPT ![0] = NewStep(w \in single, time + 1)] ELSE @[w]]]
  /\ time' = time + 1
  /\ UNCHANGED <<row, logs, tx>>

(* submitTaskAnswer.  A key that was used is answered from the log.        *)
SubmitBegin(r) ==
  /\ tx[r] = Idle
  /\ \E s \in Sessions, w \in Words, k \in Keys \cup {NoKey} :
       /\ KeyFree(k) /\ steps[s][w][0].status # "none"
       /\ tx' = [tx EXCEPT ![r] = [Idle EXCEPT !.step = "begun", !.op = "submit",
                                               !.session = s, !.word = w, !.key = k]]
  /\ UNCHANGED <<row, steps, time, logs>>

(* findDrillStepForUpdate *)
SubmitLockStep(r) ==
  LET s == tx[r].session
      w == tx[r].word
      step == steps[s][w][0]
  IN /\ Submitting(r, {"begun"}) /\ StepFree(s, w, 0)
     /\ step.status = "pending" /\ ~step.production
     /\ tx' = [tx EXCEPT ![r].step = "stepped", ![r].read = step]
     /\ UNCHANGED <<row, steps, time, logs>>

(* findForUpdate; a row that was paused meanwhile has its step skipped. *)
SubmitLockRow(r) ==
  LET s == tx[r].session
      w == tx[r].word
  IN /\ Submitting(r, {"stepped"}) /\ RowFree(w)
     /\ IF row[w].paused
          THEN steps' = [steps EXCEPT ![s][w][0].status = "skipped"] /\ Done(r)
          ELSE /\ tx' = [tx EXCEPT ![r].step = "ready", ![r].payload = row[w].payload,
                                   ![r].sched = row[w].sched]
               /\ UNCHANGED steps
     /\ UNCHANGED <<row, time, logs>>

Entry(r, kind, prev) ==
  [kind |-> kind, word |-> tx[r].word, session |-> tx[r].session, step |-> tx[r].read.born,
   key |-> tx[r].key, prev |-> prev, undone |-> FALSE]

Completed(step, log) == [step EXCEPT !.status = "completed", !.log = log]

(* answerWithinTx and completeDrillStep; a correct answer adds the         *)
(* production step, if there is none.                                      *)
SubmitWrite(r) ==
  LET s == tx[r].session
      w == tx[r].word
      n == Len(logs) + 1
      learnt == tx[r].payload \cup {n}
      answered == [steps EXCEPT ![s][w][0] = Completed(@, n)]
  IN /\ Submitting(r, {"ready"}) /\ n <= MaxLogs
     /\ row' = [row EXCEPT ![w].sched = learnt, ![w].payload = learnt]
     /\ logs' = Append(logs, Entry(r, "answer", tx[r].sched))
     /\ \/ steps' = answered /\ UNCHANGED time
        \/ /\ time < MaxTime
           /\ steps' = [answered EXCEPT ![s][w][1] =
                          IF @.status = "none" THEN NewStep(TRUE, time + 1) ELSE @]
           /\ time' = time + 1
     /\ Done(r)

(* submitSelfAssessment on a pending step; its key is never recorded. *)
SelfAssess(s, w, i) ==
  /\ steps[s][w][i].status = "pending" /\ steps[s][w][i].production
  /\ StepFree(s, w, i) /\ RowFree(w)
  /\ steps' = [steps EXCEPT ![s][w][i].status = "completed"]
  /\ row' = [row EXCEPT ![w].produced = TRUE]
  /\ UNCHANGED <<time, logs, tx>>

-----------------------------------------------------------------------------
(* undo *)

(* checkIdempotency and findLastDrillStep; of the steps one queue created  *)
(* at the same time any may be the last.                                   *)
UndoRead(r, s) ==
  /\ tx[r] = Idle
  /\ \E k \in Keys \cup {NoKey} : \E last \in Last(s) :
       /\ KeyFree(k)
       /\ tx' = [tx EXCEPT ![r] =
                   [Idle EXCEPT !.step = "begun", !.op = "undo", !.session = s, !.word = last[1],
                                !.index = last[2], !.key = k,
                                !.read = steps[s][last[1]][last[2]]]]
  /\ UNCHANGED <<row, steps, time, logs>>

Undoing(r, at) == tx[r].op = "undo" /\ tx[r].step = at

(* deleteDrillStep, by id *)
Deleted(r) ==
  [steps EXCEPT ![tx[r].session][tx[r].word][tx[r].index] =
     IF @.born = tx[r].read.born THEN NoStep ELSE @]

Deletes(r) ==
  /\ StepFree(tx[r].session, tx[r].word, tx[r].index)
  /\ steps' = Deleted(r)

(* A step that was read as not completed is deleted, and no key recorded. *)
UndoPending(r) ==
  /\ Undoing(r, "begun") /\ tx[r].read.status # "completed"
  /\ Deletes(r)
  /\ Done(r)
  /\ UNCHANGED <<row, time, logs>>

UndoProduction(r) ==
  /\ Undoing(r, "begun") /\ tx[r].read.status = "completed" /\ tx[r].read.production
  /\ RowFree(tx[r].word) /\ Deletes(r)
  /\ row' = [row EXCEPT ![tx[r].word].produced = FALSE]
  /\ tx[r].key # NoKey => Len(logs) < MaxLogs
  /\ logs' = IF tx[r].key = NoKey THEN logs ELSE Append(logs, Entry(r, "undo", {}))
  /\ Done(r)
  /\ UNCHANGED time

(* findReviewLogForL2Undo; an answer undone meanwhile ends the request. *)
Standing_Unchecked(i) == TRUE
Standing(i) == ~logs[i].undone

UndoLockLog(r) ==
  LET i == tx[r].read.log
  IN /\ Undoing(r, "begun") /\ tx[r].read.status = "completed" /\ ~tx[r].read.production
     /\ LogFree(i)
     /\ IF Standing(i) THEN tx' = [tx EXCEPT ![r].step = "logged"] ELSE Done(r)
     /\ UNCHANGED <<row, steps, time, logs>>

(* applyL2UndoSnapshot (all but the payload), markL2ReviewLogUndone,       *)
(* deleteDrillStep, the pending production step, and the audit row.        *)
UndoWrite(r) ==
  LET s == tx[r].session
      w == tx[r].word
      i == tx[r].read.log
  IN /\ Undoing(r, "logged") /\ Len(logs) < MaxLogs
     /\ RowFree(w) /\ StepFree(s, w, 0)
     /\ row' = [row EXCEPT ![w].sched = logs[i].prev]
     /\ logs' = Append([logs EXCEPT ![i].undone = TRUE], Entry(r, "undo", {}))
     /\ steps' = [Deleted(r) EXCEPT ![s][w][1] = IF @.status = "pending" THEN NoStep ELSE @]
     /\ Done(r)
     /\ UNCHANGED time

Abort(r) ==
  /\ tx[r] # Idle
  /\ Done(r)
  /\ UNCHANGED <<row, steps, time, logs>>

(* pause, unpauseByReason, batchPauseByWordbook, batchUnpauseManual *)
SetPaused(w) ==
  /\ RowFree(w)
  /\ row' = [row EXCEPT ![w].paused = ~@]
  /\ UNCHANGED <<steps, time, logs, tx>>

-----------------------------------------------------------------------------

Next ==
  \/ \E s \in Sessions : GetQueue(s) \/ \E w \in Words, i \in Indices : SelfAssess(s, w, i)
  \/ \E w \in Words : SetPaused(w)
  \/ \E r \in Requests :
       \/ SubmitBegin(r) \/ SubmitLockStep(r) \/ SubmitLockRow(r) \/ SubmitWrite(r)
       \/ \E s \in Sessions : UndoRead(r, s)
       \/ UndoPending(r) \/ UndoProduction(r) \/ UndoLockLog(r) \/ UndoWrite(r) \/ Abort(r)

Spec == Init /\ [][Next]_vars

-----------------------------------------------------------------------------

TypeOK ==
  /\ row \in [Words -> Row]
  /\ steps \in [Sessions -> [Words -> [Indices -> Step]]]
  /\ time \in 0..MaxTime
  /\ \A i \in DOMAIN logs :
       logs[i] \in [kind : {"answer", "undo"}, word : Words, session : Sessions, step : Nat,
                    key : Keys \cup {NoKey}, prev : SUBSET Nat, undone : BOOLEAN]
  /\ tx \in [Requests -> [step : {"idle", "begun", "stepped", "ready", "logged"},
               op : {"none", "submit", "undo"}, session : Sessions \cup {"none"},
               word : Words \cup {"none"}, index : Indices, key : Keys \cup {NoKey},
               read : Step, payload : SUBSET Nat, sched : SUBSET Nat]]

Answers(w) == {i \in DOMAIN logs : logs[i].kind = "answer" /\ logs[i].word = w}

(* A step is rated at most once, whatever double clicks, second tabs,      *)
(* retries and undos come in between.                                      *)
OneAnswerPerStep ==
  \A w \in Words : \A i, j \in Answers(w) :
    (logs[i].session = logs[j].session /\ logs[i].step = logs[j].step) => i = j

(* A key rates at most once: a retry that overtakes the original, or comes *)
(* after the answer's step was undone and built again, does not rate.      *)
KeyRatesOnce ==
  \A i, j \in DOMAIN logs :
    (logs[i].key = logs[j].key /\ i # j) => logs[i].key = NoKey

(* Neither a step nor a key rates twice, and all values have their types.  *)
AnswersRateOnce == TypeOK /\ OneAnswerPerStep /\ KeyRatesOnce

(* A schedule changes only with the log: by a new answer on a row that is  *)
(* not paused, also when it was paused after the submit began; or back to  *)
(* what an answer replaced as that answer becomes undone.  An undo that    *)
(* comes late, after the answer was taken back and given again, does       *)
(* nothing.                                                                *)
ScheduleMovesWithLog ==
  [][\A w \in Words : row'[w].sched # row[w].sched =>
       \/ Len(logs) + 1 \in row'[w].sched /\ ~row[w].paused
       \/ \E i \in Answers(w) : /\ ~logs[i].undone /\ logs'[i].undone
                                /\ row'[w].sched = logs[i].prev]_vars
=============================================================================
