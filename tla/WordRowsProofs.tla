---------------------------- MODULE WordRowsProofs ----------------------------
(***************************************************************************)
(* Theorems about the three models that MCWordRows runs, each of its own   *)
(* specification: the L2 drill (EXTENDed), the state column of the L1 row  *)
(* (L1), and what the tracks do to each other (Cross).                     *)
(*                                                                         *)
(* Drill: the invariant says what the locks of the open requests are for - *)
(* the step and the row a submit holds are as it read them, the answer an  *)
(* undo holds stands - that no key is used twice, by open requests or in   *)
(* the log, and that a step that is pending is not rated in the log.       *)
(* State: a batch that is being forgotten is still empty, a plan that is   *)
(* being made is not active yet, and the end of a plan that is under way   *)
(* has read every card that is suspended for the plan.                     *)
(* Tracks: a worker that holds the L1 row has read the ratings it has;     *)
(* then what it does to the L2 row is what they ask for, however late it   *)
(* comes.                                                                  *)
(***************************************************************************)
EXTENDS MCWordRows, SequenceTheorems, TLAPS

-----------------------------------------------------------------------------
(* The drill                                                                *)

(* What logs, requests and the table of steps may hold. *)
Log == [kind : {"answer", "undo"}, word : Words, session : Sessions, step : Nat,
        key : Keys \cup {NoKey}, prev : SUBSET Nat, undone : BOOLEAN]
Request == [step : {"idle", "begun", "stepped", "ready", "logged"},
            op : {"none", "submit", "undo"}, session : Sessions \cup {"none"},
            word : Words \cup {"none"}, index : Indices, key : Keys \cup {NoKey},
            read : Step, payload : SUBSET Nat, sched : SUBSET Nat]
Table == [Sessions -> [Words -> [Indices -> Step]]]

DrillTypes ==
  /\ row \in [Words -> Row] /\ steps \in Table /\ time \in 0 .. MaxTime
  /\ logs \in Seq(Log) /\ tx \in [Requests -> Request]

(* An open request is about a session and a word; one at rest holds no key. *)
Asked == \A r \in Requests :
  /\ tx[r].step # "idle" => tx[r].session \in Sessions /\ tx[r].word \in Words
  /\ tx[r].step = "idle" => tx[r].key = NoKey

(* No key is used twice, by open requests or in the log.                    *)
OpenKeysDiffer ==
  /\ \A r \in Requests, i \in DOMAIN logs : tx[r].key # NoKey => logs[i].key # tx[r].key
  /\ \A q, r \in Requests : tx[q].key = tx[r].key /\ q # r => tx[r].key = NoKey

(* What is rated is older than what will be created; a pending step is not  *)
(* rated yet; an answered one knows its answer.                             *)
BornInReach ==
  /\ \A s \in Sessions, w \in Words, i \in Indices : steps[s][w][i].born <= time
  /\ \A i \in DOMAIN logs : logs[i].step <= time
  /\ \A r \in Requests : tx[r].read.born <= time
PendingIsFresh ==
  \A i \in DOMAIN logs : logs[i].kind = "answer" =>
    LET st == steps[logs[i].session][logs[i].word][0]
    IN st.status = "pending" => st.born # logs[i].step
Answered(st, w, log) ==
  st.status = "completed" /\ ~st.production =>
    st.log \in DOMAIN log /\ log[st.log].kind = "answer" /\ log[st.log].word = w
AnswersAreKnown ==
  /\ \A s \in Sessions, w \in Words, i \in Indices : Answered(steps[s][w][i], w, logs)
  /\ \A r \in Requests : tx[r].step # "idle" => Answered(tx[r].read, tx[r].word, logs)

(* The locks: who holds a step has read it as it is; a row that is held is  *)
(* not paused; an answer that is held stands.                               *)
Holds(r) == Submitting(r, {"stepped", "ready"})
HeldStep == \A r \in Requests : Holds(r) =>
  /\ tx[r].read = steps[tx[r].session][tx[r].word][0]
  /\ tx[r].read.status = "pending" /\ ~tx[r].read.production
OneHolder == \A q, r \in Requests :
  Holds(q) /\ Holds(r) /\ tx[q].session = tx[r].session /\ tx[q].word = tx[r].word => q = r
HeldRow == \A r \in Requests : Submitting(r, {"ready"}) => ~row[tx[r].word].paused
HeldLog == \A r \in Requests : tx[r].step = "logged" =>
  /\ tx[r].read.status = "completed" /\ ~tx[r].read.production
  /\ ~logs[tx[r].read.log].undone
  /\ \A q \in Requests : tx[q].step = "logged" /\ tx[q].read.log = tx[r].read.log => q = r

DrillInv ==
  /\ DrillTypes /\ Asked /\ OpenKeysDiffer /\ KeyRatesOnce /\ BornInReach /\ PendingIsFresh
  /\ OneAnswerPerStep /\ AnswersAreKnown /\ HeldStep /\ OneHolder /\ HeldRow /\ HeldLog

-----------------------------------------------------------------------------
(* How the log, the steps and the rows may change under requests that end.  *)
LogsGoOn ==
  /\ \A i \in DOMAIN logs : /\ i \in DOMAIN logs'
                            /\ logs'[i].kind = logs[i].kind /\ logs'[i].word = logs[i].word
                            /\ logs'[i].session = logs[i].session /\ logs'[i].step = logs[i].step
                            /\ logs'[i].key = logs[i].key
  /\ \A i \in DOMAIN logs' \ DOMAIN logs :
       /\ i = Len(logs) + 1 /\ logs'[i].step <= time
       /\ \E r \in Requests : tx[r].step # "idle" /\ tx'[r] = Idle /\ logs'[i].key = tx[r].key
       /\ logs'[i].kind = "answer" =>
            LET s == logs'[i].session
                w == logs'[i].word
            IN /\ steps[s][w][0].status = "pending" /\ steps[s][w][0].born = logs'[i].step
               /\ steps'[s][w][0].status # "pending"

CellGoesOn(s, w, i) ==
  LET old == steps[s][w][i]
      new == steps'[s][w][i]
  IN \/ new = old
     \/ /\ new.status # "pending" /\ new.born <= time
        /\ Answered(new, w, logs')
        /\ i = 0 => \A r \in Requests : Holds(r) /\ tx[r].session = s /\ tx[r].word = w => tx'[r] = Idle
     \/ /\ old.status = "none" /\ new.status = "pending" /\ new.born = time + 1 /\ time' = time + 1

RowsGoOn == \A w \in Words, r \in Requests :
  row'[w].paused # row[w].paused /\ Submitting(r, {"ready"}) /\ tx[r].word = w => tx'[r] = Idle

UndoneGoesOn == \A i \in DOMAIN logs, r \in Requests :
  ~logs[i].undone /\ logs'[i].undone /\ tx[r].step = "logged" /\ tx[r].read.log = i => tx'[r] = Idle

(* A request at rest, and a step that is not there, have their types.       *)
LEMMA IdleIs == Idle \in Request /\ Idle.step = "idle" /\ Idle.op = "none" /\ Idle.key = NoKey /\ Idle.read = NoStep
                /\ NoStep \in Step /\ NoStep.status = "none" /\ NoStep.born = 0 /\ ~NoStep.production
  BY DEF Idle, Request, NoStep, Step, Statuses, Indices

(* Requests end, and what they write goes on as said: the invariant holds   *)
(* on.                                                                      *)
LEMMA GoesOn ==
  ASSUME DrillInv, DrillTypes', time <= time', LogsGoOn, RowsGoOn, UndoneGoesOn,
         \A q \in Requests : tx'[q] = tx[q] \/ tx'[q] = Idle,
         \A s \in Sessions, w \in Words, i \in Indices : CellGoesOn(s, w, i)
  PROVE  DrillInv'
<1> USE DEF DrillInv
<1>0. /\ time \in Nat /\ time' \in Nat
      /\ \A i \in DOMAIN logs : logs[i] \in Log
      /\ \A i \in DOMAIN logs' : logs'[i] \in Log
      /\ DOMAIN logs \subseteq DOMAIN logs'
      /\ \A i \in DOMAIN logs' : i \in DOMAIN logs \/ i = Len(logs) + 1
  <2>1. time \in Nat /\ time' \in Nat
    BY L2DrillAssumption DEF DrillTypes
  <2>2. \A i \in DOMAIN logs : logs[i] \in Log
    BY DEF DrillTypes
  <2>3. \A i \in DOMAIN logs' : logs'[i] \in Log
    BY DEF DrillTypes
  <2> QED
    BY <2>1, <2>2, <2>3 DEF LogsGoOn
<1>1. Asked'
  BY IdleIs DEF Asked
<1>2. OpenKeysDiffer'
  <2>1. ASSUME NEW r \in Requests, NEW i \in DOMAIN logs', tx'[r].key # NoKey
        PROVE  logs'[i].key # tx'[r].key
    <3>1. tx'[r] = tx[r]
      BY <2>1, IdleIs
    <3>2. CASE i \in DOMAIN logs
      BY <2>1, <3>1, <3>2 DEF OpenKeysDiffer, LogsGoOn
    <3>3. CASE i \notin DOMAIN logs
      <4>1. PICK q \in Requests : tx[q].step # "idle" /\ tx'[q] = Idle /\ logs'[i].key = tx[q].key
        BY <3>3 DEF LogsGoOn
      <4>2. q # r
        BY <2>1, <4>1, IdleIs
      <4> QED
        BY <2>1, <3>1, <4>1, <4>2 DEF OpenKeysDiffer
    <3> QED
      BY <3>2, <3>3
  <2>2. ASSUME NEW q \in Requests, NEW r \in Requests, tx'[q].key = tx'[r].key, q # r
        PROVE  tx'[r].key = NoKey
    BY <2>2, IdleIs DEF OpenKeysDiffer
  <2> QED
    BY <2>1, <2>2 DEF OpenKeysDiffer
<1>3. KeyRatesOnce'
  <2>1. SUFFICES ASSUME NEW i \in DOMAIN logs', NEW j \in DOMAIN logs', logs'[i].key = logs'[j].key, i # j
                 PROVE  logs'[i].key = NoKey
    BY DEF KeyRatesOnce
  <2>2. ASSUME NEW k \in DOMAIN logs', k \notin DOMAIN logs, NEW m \in DOMAIN logs, logs'[k].key = logs[m].key
        PROVE  logs[m].key = NoKey
    <3>1. PICK q \in Requests : logs'[k].key = tx[q].key
      BY <2>2 DEF LogsGoOn
    <3> QED
      BY <2>2, <3>1 DEF OpenKeysDiffer
  <2>3. CASE i \in DOMAIN logs /\ j \in DOMAIN logs
    BY <2>1, <2>3 DEF KeyRatesOnce, LogsGoOn
  <2>4. CASE i \in DOMAIN logs /\ j \notin DOMAIN logs
    BY <2>1, <2>2, <2>4 DEF LogsGoOn
  <2>5. CASE i \notin DOMAIN logs /\ j \in DOMAIN logs
    BY <2>1, <2>2, <2>5 DEF LogsGoOn
  <2>6. CASE i \notin DOMAIN logs /\ j \notin DOMAIN logs
    BY <1>0, <2>1, <2>6
  <2> QED
    BY <2>3, <2>4, <2>5, <2>6
<1>4. BornInReach'
  <2>1. ASSUME NEW s \in Sessions, NEW w \in Words, NEW i \in Indices PROVE steps'[s][w][i].born <= time'
    <3>1. steps[s][w][i] \in Step /\ steps'[s][w][i] \in Step
      BY DEF DrillTypes, Table
    <3>2. steps[s][w][i].born \in Nat /\ steps'[s][w][i].born \in Nat /\ steps[s][w][i].born <= time
      BY <3>1 DEF Step, BornInReach
    <3>3. CellGoesOn(s, w, i)
      OBVIOUS
    <3> QED
      BY <1>0, <3>2, <3>3 DEF CellGoesOn
  <2>2. ASSUME NEW i \in DOMAIN logs' PROVE logs'[i].step <= time'
    <3>1. logs'[i].step \in Nat
      BY <1>0 DEF Log
    <3>2. logs'[i].step <= time
      BY <1>0 DEF LogsGoOn, BornInReach
    <3> QED
      BY <1>0, <3>1, <3>2
  <2>3. ASSUME NEW r \in Requests PROVE tx'[r].read.born <= time'
    <3>1. tx[r].read.born \in Nat /\ tx[r].read.born <= time
      BY DEF DrillTypes, Request, Step, BornInReach
    <3> QED
      BY <1>0, <3>1, IdleIs
  <2> QED
    BY <2>1, <2>2, <2>3 DEF BornInReach
<1>5. PendingIsFresh'
  <2>1. SUFFICES ASSUME NEW i \in DOMAIN logs', logs'[i].kind = "answer",
                        NEW s, NEW w, s = logs'[i].session, w = logs'[i].word,
                        steps'[s][w][0].status = "pending"
                 PROVE  steps'[s][w][0].born # logs'[i].step
    BY DEF PendingIsFresh
  <2>2. s \in Sessions /\ w \in Words /\ 0 \in Indices
    BY <1>0, <2>1 DEF Log, Indices
  <2>3. i \in DOMAIN logs
    BY <2>1 DEF LogsGoOn
  <2>4. logs[i].kind = "answer" /\ logs[i].session = s /\ logs[i].word = w /\ logs[i].step = logs'[i].step
    BY <2>1, <2>3 DEF LogsGoOn
  <2>5. logs[i].step \in Nat /\ logs[i].step <= time
    BY <1>0, <2>3 DEF Log, BornInReach
  <2>6. CellGoesOn(s, w, 0)
    BY <2>2
  <2>7. CASE steps'[s][w][0] = steps[s][w][0]
    BY <2>1, <2>3, <2>4, <2>7 DEF PendingIsFresh
  <2>8. CASE steps'[s][w][0] # steps[s][w][0]
    BY <1>0, <2>1, <2>4, <2>5, <2>6, <2>8 DEF CellGoesOn
  <2> QED
    BY <2>7, <2>8
<1>6. OneAnswerPerStep'
  <2>1. SUFFICES ASSUME NEW i \in DOMAIN logs', NEW j \in DOMAIN logs',
                        logs'[i].kind = "answer", logs'[j].kind = "answer", logs'[i].word = logs'[j].word,
                        logs'[i].session = logs'[j].session, logs'[i].step = logs'[j].step
                 PROVE  i = j
    BY DEF OneAnswerPerStep, Answers
  <2>2. ASSUME NEW k \in DOMAIN logs', k \notin DOMAIN logs, logs'[k].kind = "answer",
               NEW m \in DOMAIN logs, logs[m].kind = "answer", logs[m].word = logs'[k].word,
               logs[m].session = logs'[k].session
        PROVE  logs[m].step # logs'[k].step
    BY <2>2 DEF LogsGoOn, PendingIsFresh
  <2>3. CASE i \in DOMAIN logs /\ j \in DOMAIN logs
    BY <1>0, <2>1, <2>3 DEF LogsGoOn, OneAnswerPerStep, Answers, Log
  <2>4. CASE i \in DOMAIN logs /\ j \notin DOMAIN logs
    BY <2>1, <2>2, <2>4 DEF LogsGoOn
  <2>5. CASE i \notin DOMAIN logs /\ j \in DOMAIN logs
    BY <2>1, <2>2, <2>5 DEF LogsGoOn
  <2>6. CASE i \notin DOMAIN logs /\ j \notin DOMAIN logs
    BY <1>0, <2>6
  <2> QED
    BY <2>3, <2>4, <2>5, <2>6
<1>7. AnswersAreKnown'
  <2>1. ASSUME NEW s \in Sessions, NEW w \in Words, NEW i \in Indices
        PROVE  Answered(steps'[s][w][i], w, logs')
    <3>1. Answered(steps[s][w][i], w, logs) /\ CellGoesOn(s, w, i)
      BY DEF AnswersAreKnown
    <3>2. CASE steps'[s][w][i] = steps[s][w][i]
      BY <3>1, <3>2 DEF Answered, LogsGoOn
    <3>3. CASE steps'[s][w][i] # steps[s][w][i]
      BY <3>1, <3>3 DEF CellGoesOn, Answered
    <3> QED
      BY <3>2, <3>3
  <2>2. ASSUME NEW r \in Requests, tx'[r].step # "idle"
        PROVE  Answered(tx'[r].read, tx'[r].word, logs')
    <3>1. tx'[r] = tx[r] /\ Answered(tx[r].read, tx[r].word, logs)
      BY <2>2, IdleIs DEF AnswersAreKnown
    <3> QED
      BY <3>1 DEF Answered, LogsGoOn
  <2> QED
    BY <2>1, <2>2 DEF AnswersAreKnown
<1>8. HeldStep' /\ OneHolder'
  <2>1. \A r \in Requests : Holds(r)' => tx'[r] = tx[r] /\ Holds(r)
    BY IdleIs DEF Holds, Submitting
  <2>2. ASSUME NEW r \in Requests, Holds(r)'
        PROVE  steps'[tx[r].session][tx[r].word][0] = steps[tx[r].session][tx[r].word][0]
    <3> DEFINE s == tx[r].session
               w == tx[r].word
    <3>1. Holds(r) /\ tx'[r] # Idle
      BY <2>1, <2>2, IdleIs DEF Holds, Submitting
    <3>2. s \in Sessions /\ w \in Words /\ 0 \in Indices
      BY <3>1 DEF Holds, Submitting, Asked, Indices
    <3>3. steps[s][w][0].status = "pending"
      BY <3>1 DEF HeldStep
    <3>4. CellGoesOn(s, w, 0)
      BY <3>2
    <3> QED
      BY <3>1, <3>3, <3>4 DEF CellGoesOn
  <2> QED
    BY <2>1, <2>2 DEF HeldStep, OneHolder
<1>9. HeldRow'
  <2>1. SUFFICES ASSUME NEW r \in Requests, Submitting(r, {"ready"})'
                 PROVE  ~row'[tx'[r].word].paused
    BY DEF HeldRow
  <2>2. tx'[r] = tx[r] /\ tx'[r] # Idle /\ Submitting(r, {"ready"})
    BY <2>1, IdleIs DEF Submitting
  <2>3. tx[r].word \in Words
    BY <2>2 DEF Asked, Submitting
  <2>4. row[tx[r].word].paused \in BOOLEAN /\ row'[tx[r].word].paused \in BOOLEAN
    BY <2>3 DEF DrillTypes, Row
  <2> QED
    BY <2>2, <2>3, <2>4 DEF HeldRow, RowsGoOn
<1>10. HeldLog'
  <2>1. SUFFICES ASSUME NEW r \in Requests, tx'[r].step = "logged"
                 PROVE  /\ tx'[r].read.status = "completed" /\ ~tx'[r].read.production
                        /\ ~logs'[tx'[r].read.log].undone
                        /\ \A q \in Requests : tx'[q].step = "logged" /\ tx'[q].read.log = tx'[r].read.log => q = r
    BY DEF HeldLog
  <2>2. tx'[r] = tx[r] /\ tx'[r] # Idle
    BY <2>1, IdleIs
  <2>3. tx[r].read.status = "completed" /\ ~tx[r].read.production /\ ~logs[tx[r].read.log].undone
    BY <2>1, <2>2 DEF HeldLog
  <2>4. tx[r].read.log \in DOMAIN logs
    BY <2>1, <2>2, <2>3 DEF AnswersAreKnown, Answered
  <2>5. ~logs'[tx[r].read.log].undone
    BY <2>1, <2>2, <2>3, <2>4 DEF UndoneGoesOn
  <2>6. \A q \in Requests : tx'[q].step = "logged" => tx'[q] = tx[q]
    BY IdleIs
  <2> QED
    BY <2>1, <2>2, <2>3, <2>5, <2>6 DEF HeldLog
<1> QED
  BY <1>1, <1>2, <1>3, <1>4, <1>5, <1>6, <1>7, <1>8, <1>9, <1>10

(* A request reads and goes on: nothing else changes.                       *)
LEMMA ReadsOn ==
  ASSUME DrillInv, UNCHANGED <<row, steps, time, logs>>, NEW r \in Requests, NEW t \in Request,
         tx' = [tx EXCEPT ![r] = t], t.step # "idle", t.session \in Sessions, t.word \in Words,
         t.key = tx[r].key \/ KeyFree(t.key),
         t.read.born <= time, Answered(t.read, t.word, logs),
         t.op = "submit" /\ t.step \in {"stepped", "ready"} =>
           /\ t.read = steps[t.session][t.word][0] /\ t.read.status = "pending" /\ ~t.read.production
           /\ \/ StepFree(t.session, t.word, 0)
              \/ Holds(r) /\ tx[r].session = t.session /\ tx[r].word = t.word
           /\ t.step = "ready" => ~row[t.word].paused,
         t.step = "logged" => /\ t.read.status = "completed" /\ ~t.read.production
                              /\ ~logs[t.read.log].undone /\ LogFree(t.read.log)
  PROVE  DrillInv'
<1> USE DEF DrillInv
<1>1. tx'[r] = t /\ \A q \in Requests : q # r => tx'[q] = tx[q]
  BY DEF DrillTypes
<1>2. DrillTypes'
  BY DEF DrillTypes
<1>3. Asked'
  BY <1>1 DEF Asked
<1>4. OpenKeysDiffer'
  <2>1. ASSUME NEW i \in DOMAIN logs, t.key # NoKey PROVE logs[i].key # t.key
    BY <2>1 DEF OpenKeysDiffer, KeyFree
  <2>2. ASSUME NEW q \in Requests, q # r, tx[q].key = t.key PROVE t.key = NoKey
    BY <2>2 DEF OpenKeysDiffer, KeyFree, Asked
  <2>3. ASSUME NEW p \in Requests, NEW i \in DOMAIN logs, tx'[p].key # NoKey PROVE logs[i].key # tx'[p].key
    BY <1>1, <2>1, <2>3 DEF OpenKeysDiffer
  <2>4. ASSUME NEW p \in Requests, NEW q \in Requests, tx'[p].key = tx'[q].key, p # q PROVE tx'[q].key = NoKey
    BY <1>1, <2>2, <2>4 DEF OpenKeysDiffer
  <2> QED
    BY <2>3, <2>4 DEF OpenKeysDiffer
<1>5. KeyRatesOnce' /\ PendingIsFresh' /\ OneAnswerPerStep'
  BY DEF KeyRatesOnce, PendingIsFresh, OneAnswerPerStep, Answers
<1>6. BornInReach'
  BY <1>1 DEF BornInReach
<1>7. AnswersAreKnown'
  BY <1>1 DEF AnswersAreKnown
<1>8. HeldStep'
  BY <1>1 DEF HeldStep, Holds, Submitting
<1>9. OneHolder'
  <2>1. ASSUME NEW q \in Requests, q # r, Holds(q), t.op = "submit", t.step \in {"stepped", "ready"},
               tx[q].session = t.session, tx[q].word = t.word
        PROVE  FALSE
    BY <2>1 DEF OneHolder, Holds, StepFree
  <2> QED
    BY <1>1, <2>1 DEF OneHolder, Holds, Submitting
<1>10. HeldRow'
  BY <1>1 DEF HeldRow, Submitting
<1>11. HeldLog'
  BY <1>1 DEF HeldLog, LogFree
<1> QED
  BY <1>2, <1>3, <1>4, <1>5, <1>6, <1>7, <1>8, <1>9, <1>10, <1>11

-----------------------------------------------------------------------------
(* The table of steps, one cell at a time.                                  *)
Differs(old, new, s, w, i, x) ==
  /\ new \in Table
  /\ \A s2 \in Sessions, w2 \in Words, i2 \in Indices :
       new[s2][w2][i2] = IF s2 = s /\ w2 = w /\ i2 = i THEN x ELSE old[s2][w2][i2]

(* One cell of the table gets a value.                                      *)
LEMMA CellWritten ==
  ASSUME NEW st \in Table, NEW s \in Sessions, NEW w \in Words, NEW i \in Indices, NEW x \in Step
  PROVE  Differs(st, [st EXCEPT ![s][w][i] = x], s, w, i, x)
  BY DEF Table, Differs

(* What a request is about that is open.                                    *)
LEMMA OpenIs ==
  ASSUME DrillInv, NEW r \in Requests, tx[r].step # "idle"
  PROVE  tx[r] \in Request /\ tx[r].session \in Sessions /\ tx[r].word \in Words /\ 0 \in Indices /\ 1 \in Indices
  BY DEF DrillInv, Asked, DrillTypes, Indices

(* A submit begins with a key nobody used.                                  *)
LEMMA SubmitBeginPreserves == ASSUME DrillInv, NEW r \in Requests, SubmitBegin(r) PROVE DrillInv'
<1>1. PICK s \in Sessions, w \in Words, k \in Keys \cup {NoKey} :
        /\ KeyFree(k)
        /\ tx' = [tx EXCEPT ![r] = [Idle EXCEPT !.step = "begun", !.op = "submit",
                                                !.session = s, !.word = w, !.key = k]]
  BY DEF SubmitBegin
<1> DEFINE t == [Idle EXCEPT !.step = "begun", !.op = "submit", !.session = s, !.word = w, !.key = k]
<1>2. /\ t.step = "begun" /\ t.op = "submit" /\ t.session = s /\ t.word = w
      /\ t.key = k /\ t.read = NoStep
  BY IdleIs DEF Request
<1>3. t \in Request
  BY IdleIs DEF Request
<1>4. Answered(t.read, t.word, logs) /\ t.read.born <= time
  BY <1>2, IdleIs, L2DrillAssumption DEF Answered, DrillInv, DrillTypes
<1>6. tx' = [tx EXCEPT ![r] = t]
  BY <1>1
<1> HIDE DEF t
<1> QED
  BY <1>1, <1>2, <1>3, <1>4, <1>6, ReadsOn DEF SubmitBegin

(* It locks its step and reads it.                                          *)
LEMMA SubmitLockStepPreserves == ASSUME DrillInv, NEW r \in Requests, SubmitLockStep(r) PROVE DrillInv'
<1> DEFINE s == tx[r].session
           w == tx[r].word
           st == steps[s][w][0]
           t == [tx[r] EXCEPT !.step = "stepped", !.read = st]
<1>1. s \in Sessions /\ w \in Words /\ 0 \in Indices /\ tx[r] \in Request
  BY OpenIs DEF SubmitLockStep, Submitting
<1>2. st \in Step /\ st.born <= time /\ Answered(st, w, logs)
  BY <1>1 DEF DrillInv, DrillTypes, Table, BornInReach, AnswersAreKnown
<1>3. t \in Request /\ t.step = "stepped" /\ t.read = st /\ t.session = s /\ t.word = w /\ t.key = tx[r].key
  BY <1>1, <1>2 DEF Request
<1>4. tx' = [tx EXCEPT ![r] = t]
  BY <1>1 DEF SubmitLockStep, DrillInv, DrillTypes
<1>5. st.status = "pending" /\ ~st.production /\ StepFree(s, w, 0)
  BY DEF SubmitLockStep
<1>6. UNCHANGED <<row, steps, time, logs>>
  BY DEF SubmitLockStep
<1> HIDE DEF t, s, w, st
<1>7. st = steps[t.session][t.word][0]
  BY <1>3 DEF s, w, st
<1> QED
  BY <1>1, <1>2, <1>3, <1>4, <1>5, <1>6, <1>7, ReadsOn

(* A request ends without a write.                                          *)
LEMMA EndsPreserves ==
  ASSUME DrillInv, NEW r \in Requests, Done(r), UNCHANGED <<row, steps, time, logs>>
  PROVE  DrillInv'
<1>1. DrillTypes'
  BY IdleIs DEF Done, DrillInv, DrillTypes
<1>2. \A q \in Requests : tx'[q] = tx[q] \/ tx'[q] = Idle
  BY DEF Done, DrillInv, DrillTypes
<1>3. time <= time'
  BY L2DrillAssumption DEF DrillInv, DrillTypes
<1> QED
  BY <1>1, <1>2, <1>3, GoesOn DEF LogsGoOn, RowsGoOn, UndoneGoesOn, CellGoesOn

(* It locks the row, or skips the step of a paused row.                     *)
LEMMA SubmitLockRowPreserves == ASSUME DrillInv, NEW r \in Requests, SubmitLockRow(r) PROVE DrillInv'
<1>0. PICK s, w : s = tx[r].session /\ w = tx[r].word
  OBVIOUS
<1>1. Holds(r) /\ tx[r].op = "submit" /\ tx[r].step = "stepped" /\ UNCHANGED <<row, time, logs>>
  BY DEF SubmitLockRow, Submitting, Holds
<1>2. s \in Sessions /\ w \in Words /\ 0 \in Indices /\ tx[r] \in Request
  BY <1>0, <1>1, OpenIs
<1>3. /\ tx[r].read = steps[s][w][0] /\ tx[r].read.status = "pending" /\ ~tx[r].read.production
      /\ tx[r].read.born <= time /\ Answered(tx[r].read, w, logs)
  BY <1>0, <1>1 DEF DrillInv, HeldStep, BornInReach, AnswersAreKnown
<1>4. CASE row[w].paused
  <2>0. PICK st : st = [steps[s][w][0] EXCEPT !.status = "skipped"]
    OBVIOUS
  <2>3. steps \in Table /\ steps[s][w][0] \in Step
    BY <1>2 DEF DrillInv, DrillTypes, Table
  <2>2. st \in Step /\ st.status = "skipped" /\ st.born = steps[s][w][0].born
    BY <2>0, <2>3 DEF Step, Statuses
  <2>1. Done(r) /\ steps' = [steps EXCEPT ![s][w][0] = st]
    BY <1>0, <1>2, <1>4, <2>0, <2>3 DEF SubmitLockRow, Table
  <2>4. Differs(steps, steps', s, w, 0, st)
    BY <1>2, <2>1, <2>2, <2>3, CellWritten
  <2>5. DrillTypes'
    BY <1>1, <2>1, <2>4, IdleIs DEF Done, DrillInv, DrillTypes, Differs
  <2>6. /\ \A q \in Requests : tx'[q] = tx[q] \/ tx'[q] = Idle
        /\ tx'[r] = Idle
    BY <2>1 DEF Done, DrillInv, DrillTypes
  <2>7. time <= time'
    BY <1>1, L2DrillAssumption DEF DrillInv, DrillTypes
  <2>8. LogsGoOn /\ RowsGoOn /\ UndoneGoesOn
    BY <1>1 DEF LogsGoOn, RowsGoOn, UndoneGoesOn
  <2>9. ASSUME NEW s2 \in Sessions, NEW w2 \in Words, NEW i2 \in Indices PROVE CellGoesOn(s2, w2, i2)
    <3>1. CASE s2 = s /\ w2 = w /\ i2 = 0
      <4>1. steps'[s2][w2][i2].status = "skipped" /\ steps'[s2][w2][i2].born <= time
        BY <1>3, <2>2, <2>4, <3>1 DEF Differs
      <4>2. \A q \in Requests : Holds(q) /\ tx[q].session = s2 /\ tx[q].word = w2 => q = r
        BY <1>0, <1>1, <3>1 DEF DrillInv, OneHolder
      <4> QED
        BY <2>6, <4>1, <4>2 DEF CellGoesOn, Answered
    <3>2. CASE ~(s2 = s /\ w2 = w /\ i2 = 0)
      BY <2>4, <3>2 DEF CellGoesOn, Differs
    <3> QED
      BY <3>1, <3>2
  <2> QED
    BY <2>5, <2>6, <2>7, <2>8, <2>9, GoesOn
<1>5. CASE ~row[w].paused
  <2> DEFINE t == [tx[r] EXCEPT !.step = "ready", !.payload = row[w].payload, !.sched = row[w].sched]
  <2>1. tx' = [tx EXCEPT ![r] = t] /\ UNCHANGED steps
    BY <1>0, <1>2, <1>5 DEF SubmitLockRow, DrillInv, DrillTypes
  <2>2. row[w].payload \in SUBSET Nat /\ row[w].sched \in SUBSET Nat
    BY <1>2 DEF DrillInv, DrillTypes, Row
  <2>3. /\ t \in Request /\ t.step = "ready" /\ t.op = "submit" /\ t.read = tx[r].read /\ t.session = s
        /\ t.word = w /\ t.key = tx[r].key
    BY <1>0, <1>1, <1>2, <2>2 DEF Request
  <2> HIDE DEF t
  <2> QED
    BY <1>0, <1>1, <1>2, <1>3, <1>5, <2>1, <2>3, ReadsOn
<1> QED
  BY <1>4, <1>5

(* A request that fails leaves nothing.                                     *)
LEMMA AbortPreserves == ASSUME DrillInv, NEW r \in Requests, Abort(r) PROVE DrillInv'
  BY EndsPreserves DEF Abort

(* A row is added to a log of which only `undone' changed.                  *)
LEMMA Logged ==
  ASSUME DrillInv, NEW r \in Requests, tx[r].step # "idle", Done(r),
         NEW ls \in Seq(Log), Len(ls) = Len(logs),
         \A i \in DOMAIN logs : /\ ls[i].kind = logs[i].kind /\ ls[i].word = logs[i].word
                                /\ ls[i].session = logs[i].session /\ ls[i].step = logs[i].step
                                /\ ls[i].key = logs[i].key,
         NEW e \in Log, e.step <= time, e.key = tx[r].key, logs' = Append(ls, e),
         e.kind = "answer" => /\ steps[e.session][e.word][0].status = "pending"
                              /\ steps[e.session][e.word][0].born = e.step
                              /\ steps'[e.session][e.word][0].status # "pending"
  PROVE  /\ logs' \in Seq(Log) /\ LogsGoOn
         /\ Len(logs) + 1 \in DOMAIN logs' /\ logs'[Len(logs) + 1] = e
         /\ \A i \in DOMAIN logs : i \in DOMAIN logs' /\ logs'[i] = ls[i]
<1>1. logs \in Seq(Log) /\ Len(logs) \in Nat /\ DOMAIN logs = 1 .. Len(logs) /\ DOMAIN ls = 1 .. Len(logs)
  BY DEF DrillInv, DrillTypes
<1>2. /\ logs' \in Seq(Log) /\ DOMAIN logs' = 1 .. Len(logs) + 1
      /\ logs'[Len(logs) + 1] = e /\ \A i \in 1 .. Len(logs) : logs'[i] = ls[i]
  BY <1>1, AppendProperties
<1>3. tx'[r] = Idle
  BY DEF Done, DrillInv, DrillTypes
<1>4. ASSUME NEW i \in DOMAIN logs', i \notin DOMAIN logs PROVE i = Len(logs) + 1 /\ logs'[i] = e
  BY <1>1, <1>2, <1>4
<1>5. LogsGoOn
  <2>1. \A i \in DOMAIN logs :
          /\ i \in DOMAIN logs' /\ logs'[i].kind = logs[i].kind /\ logs'[i].word = logs[i].word
          /\ logs'[i].session = logs[i].session /\ logs'[i].step = logs[i].step /\ logs'[i].key = logs[i].key
    BY <1>1, <1>2
  <2> QED
    BY <1>3, <1>4, <2>1 DEF LogsGoOn
<1> QED
  BY <1>1, <1>2, <1>5

(* It rates the row once, and the step is not pending any more.             *)
LEMMA SubmitWritePreserves == ASSUME DrillInv, NEW r \in Requests, SubmitWrite(r) PROVE DrillInv'
<1>0. PICK s, w, n, learnt, old, done, one :
        /\ s = tx[r].session /\ w = tx[r].word /\ n = Len(logs) + 1 /\ learnt = tx[r].payload \cup {n}
        /\ old = steps[s][w][0] /\ done = Completed(old, n) /\ one = [steps EXCEPT ![s][w][0] = done]
  OBVIOUS
<1>1. Holds(r) /\ tx[r].step # "idle" /\ Done(r)
  BY DEF SubmitWrite, Submitting, Holds
<1>2. s \in Sessions /\ w \in Words /\ 0 \in Indices /\ 1 \in Indices /\ tx[r] \in Request
  BY <1>0, <1>1, OpenIs
<1>3. /\ tx[r].read = old /\ old.status = "pending" /\ ~old.production /\ old \in Step
      /\ old.born <= time /\ steps \in Table /\ time \in Nat /\ MaxTime \in Nat /\ old.born \in Nat
  <2>1. tx[r].read = old /\ old.status = "pending" /\ ~old.production
    BY <1>0, <1>1 DEF DrillInv, HeldStep
  <2>2. old.born <= time
    BY <2>1 DEF DrillInv, BornInReach
  <2>3. old \in Step /\ old.born \in Nat
    BY <1>2, <2>1 DEF Request, Step
  <2>4. steps \in Table /\ time \in Nat /\ MaxTime \in Nat
    BY L2DrillAssumption DEF DrillInv, DrillTypes
  <2> QED
    BY <2>1, <2>2, <2>3, <2>4
<1>4. n \in Nat /\ logs \in Seq(Log) /\ learnt \in SUBSET Nat
  BY <1>0, <1>2 DEF DrillInv, DrillTypes, Request
<1>5. /\ done \in Step /\ done.status = "completed" /\ done.log = n /\ done.born = old.born
      /\ done.production = old.production
  BY <1>0, <1>3, <1>4 DEF Completed, Step, Statuses
<1>6. Differs(steps, one, s, w, 0, done)
  BY <1>0, <1>2, <1>3, <1>5, CellWritten
<1>7. \/ steps' = one /\ time' = time
      \/ /\ time < MaxTime /\ time' = time + 1
         /\ steps' = [one EXCEPT ![s][w][1] = IF one[s][w][1].status = "none" THEN NewStep(TRUE, time + 1) ELSE one[s][w][1]]
  <2>1. PICK answered : /\ answered = [steps EXCEPT ![tx[r].session][tx[r].word][0] = Completed(steps[tx[r].session][tx[r].word][0], Len(logs) + 1)]
                        /\ \/ steps' = answered /\ UNCHANGED time
                           \/ /\ time < MaxTime
                              /\ steps' = [answered EXCEPT ![tx[r].session][tx[r].word][1] =
                                             IF answered[tx[r].session][tx[r].word][1].status = "none" THEN NewStep(TRUE, time + 1)
                                             ELSE answered[tx[r].session][tx[r].word][1]]
                              /\ time' = time + 1
    BY Zenon DEF SubmitWrite
  <2>2. answered = one
    BY <1>0, <2>1
  <2> QED
    BY ZenonT(60), <1>0, <2>1, <2>2
<1>8. time' \in 0 .. MaxTime /\ time <= time'
  <2>1. time' = time \/ (time < MaxTime /\ time' = time + 1)
    BY <1>7
  <2>2. time \in 0 .. MaxTime
    BY DEF DrillInv, DrillTypes
  <2> QED
    BY <1>3, <2>1, <2>2
<1>9. NewStep(TRUE, time + 1) \in Step /\ NewStep(TRUE, time + 1).status = "pending" /\ NewStep(TRUE, time + 1).born = time + 1
  <2>1. time + 1 \in Nat
    BY <1>3
  <2> QED
    BY <2>1, IdleIs DEF NewStep, Step, Statuses
<1>10. /\ steps' \in Table /\ steps'[s][w][0] = done
       /\ \A s2 \in Sessions, w2 \in Words, i2 \in Indices :
            \/ steps'[s2][w2][i2] = steps[s2][w2][i2]
            \/ s2 = s /\ w2 = w /\ i2 = 0
            \/ /\ steps[s2][w2][i2].status = "none" /\ steps'[s2][w2][i2] = NewStep(TRUE, time + 1)
               /\ time' = time + 1
  <2>1. CASE steps' = one /\ time' = time
    BY <1>2, <1>6, <2>1 DEF Differs
  <2>2. CASE /\ time < MaxTime /\ time' = time + 1
             /\ steps' = [one EXCEPT ![s][w][1] = IF one[s][w][1].status = "none" THEN NewStep(TRUE, time + 1) ELSE one[s][w][1]]
    <3>1. PICK x : x = IF one[s][w][1].status = "none" THEN NewStep(TRUE, time + 1) ELSE one[s][w][1]
      OBVIOUS
    <3>2. one \in Table /\ one[s][w][1] = steps[s][w][1] /\ one[s][w][1] \in Step
      BY <1>2, <1>6 DEF Differs, Table
    <3>3. x \in Step
      BY <1>9, <3>1, <3>2
    <3>4. Differs(one, steps', s, w, 1, x)
      <4>1. steps' = [one EXCEPT ![s][w][1] = x]
        BY <2>2, <3>1
      <4> QED
        BY <1>2, <3>2, <3>3, <4>1, CellWritten
    <3>5. steps' \in Table /\ steps'[s][w][0] = done
      BY <1>2, <1>6, <3>4 DEF Differs
    <3>6. ASSUME NEW s2 \in Sessions, NEW w2 \in Words, NEW i2 \in Indices
          PROVE  \/ steps'[s2][w2][i2] = steps[s2][w2][i2]
                 \/ s2 = s /\ w2 = w /\ i2 = 0
                 \/ steps[s2][w2][i2].status = "none" /\ steps'[s2][w2][i2] = NewStep(TRUE, time + 1)
      <4>1. CASE s2 = s /\ w2 = w /\ i2 = 1
        <5>1. steps'[s2][w2][i2] = x
          BY <3>4, <4>1 DEF Differs
        <5> QED
          BY <3>1, <3>2, <4>1, <5>1
      <4>2. CASE ~(s2 = s /\ w2 = w /\ i2 = 1)
        <5>1. steps'[s2][w2][i2] = one[s2][w2][i2]
          BY <3>4, <4>2 DEF Differs
        <5>2. one[s2][w2][i2] = steps[s2][w2][i2] \/ (s2 = s /\ w2 = w /\ i2 = 0)
          BY <1>6 DEF Differs
        <5> QED
          BY <5>1, <5>2
      <4> QED
        BY <4>1, <4>2
    <3>7. time' = time + 1
      BY <2>2
    <3> QED
      BY <3>5, <3>6, <3>7
  <2> QED
    BY <1>7, <2>1, <2>2
<1>11. PICK e : e = Entry(r, "answer", tx[r].sched)
  OBVIOUS
<1>12. /\ e \in Log /\ e.step = old.born /\ e.key = tx[r].key /\ e.session = s /\ e.word = w /\ e.kind = "answer"
  BY <1>0, <1>2, <1>3, <1>11 DEF Entry, Log, Request
<1>13. logs' = Append(logs, e)
  BY <1>11 DEF SubmitWrite
<1>14. /\ logs' \in Seq(Log) /\ LogsGoOn
       /\ n \in DOMAIN logs' /\ logs'[n] = e
       /\ \A i \in DOMAIN logs : i \in DOMAIN logs' /\ logs'[i] = logs[i]
  <2>1. steps[s][w][0].status = "pending" /\ steps[s][w][0].born = e.step /\ steps'[s][w][0].status # "pending"
    BY <1>0, <1>3, <1>5, <1>10, <1>12
  <2> QED
    BY ZenonT(60), <1>0, <1>1, <1>3, <1>4, <1>12, <1>13, <2>1, Logged
<1>15. /\ row' \in [Words -> Row] /\ \A v \in Words : row'[v].paused = row[v].paused
  <2>1. row' = [row EXCEPT ![w].sched = learnt, ![w].payload = learnt]
    BY <1>0 DEF SubmitWrite
  <2>2. row \in [Words -> Row]
    BY DEF DrillInv, DrillTypes
  <2> QED
    BY <1>2, <1>4, <2>1, <2>2 DEF Row
<1>16. /\ tx' \in [Requests -> Request] /\ tx'[r] = Idle
       /\ \A q \in Requests : tx'[q] = tx[q] \/ tx'[q] = Idle
  BY <1>1, IdleIs DEF Done, DrillInv, DrillTypes
<1>17. DrillTypes'
  BY <1>8, <1>10, <1>14, <1>15, <1>16 DEF DrillTypes
<1>18. RowsGoOn /\ UndoneGoesOn
  BY <1>14, <1>15 DEF RowsGoOn, UndoneGoesOn
<1>19. ASSUME NEW s2 \in Sessions, NEW w2 \in Words, NEW i2 \in Indices PROVE CellGoesOn(s2, w2, i2)
  <2>1. CASE s2 = s /\ w2 = w /\ i2 = 0
    <3>1. steps'[s2][w2][i2] = done /\ done.born <= time
      BY <1>3, <1>5, <1>10, <2>1
    <3>2. \A q \in Requests : Holds(q) /\ tx[q].session = s2 /\ tx[q].word = w2 => q = r
      BY <1>0, <1>1, <2>1 DEF DrillInv, OneHolder
    <3>3. Answered(done, w2, logs')
      BY <1>5, <1>12, <1>14, <2>1 DEF Answered
    <3> QED
      BY <1>5, <1>16, <3>1, <3>2, <3>3 DEF CellGoesOn
  <2>2. CASE ~(s2 = s /\ w2 = w /\ i2 = 0)
    BY <1>9, <1>10, <2>2 DEF CellGoesOn
  <2> QED
    BY <2>1, <2>2
<1> QED
  BY <1>8, <1>14, <1>16, <1>17, <1>18, <1>19, GoesOn

-----------------------------------------------------------------------------
(* An undo reads the last step.                                             *)
LEMMA UndoReadPreserves == ASSUME DrillInv, NEW r \in Requests, NEW s \in Sessions, UndoRead(r, s) PROVE DrillInv'
<1>1. PICK k \in Keys \cup {NoKey}, last \in Last(s) :
        /\ KeyFree(k)
        /\ tx' = [tx EXCEPT ![r] = [Idle EXCEPT !.step = "begun", !.op = "undo", !.session = s, !.word = last[1],
                                                !.index = last[2], !.key = k, !.read = steps[s][last[1]][last[2]]]]
  BY DEF UndoRead
<1>2. PICK w, i, st : w = last[1] /\ i = last[2] /\ st = steps[s][w][i]
  OBVIOUS
<1>3. w \in Words /\ i \in Indices
  BY <1>2 DEF Last
<1>4. st \in Step /\ st.born <= time /\ Answered(st, w, logs)
  BY <1>2, <1>3 DEF DrillInv, DrillTypes, Table, BornInReach, AnswersAreKnown
<1> DEFINE t == [Idle EXCEPT !.step = "begun", !.op = "undo", !.session = s, !.word = w, !.index = i, !.key = k, !.read = st]
<1>5. tx' = [tx EXCEPT ![r] = t]
  BY <1>1, <1>2
<1>6. t \in Request /\ t.step = "begun" /\ t.op = "undo" /\ t.session = s /\ t.word = w /\ t.key = k /\ t.read = st
  BY <1>3, <1>4, IdleIs DEF Request
<1> HIDE DEF t
<1> QED
  BY <1>1, <1>3, <1>4, <1>5, <1>6, ReadsOn DEF UndoRead

(* It locks the answer of that step, if it stands.                          *)
LEMMA UndoLockLogPreserves == ASSUME DrillInv, NEW r \in Requests, UndoLockLog(r) PROVE DrillInv'
<1>1. /\ tx[r].step = "begun" /\ tx[r].op = "undo" /\ tx[r].read.status = "completed" /\ ~tx[r].read.production
      /\ LogFree(tx[r].read.log) /\ UNCHANGED <<row, steps, time, logs>>
  BY DEF UndoLockLog, Undoing
<1>2. tx[r] \in Request /\ tx[r].session \in Sessions /\ tx[r].word \in Words
  BY <1>1, OpenIs
<1>3. CASE Standing(tx[r].read.log)
  <2> DEFINE t == [tx[r] EXCEPT !.step = "logged"]
  <2>1. tx' = [tx EXCEPT ![r] = t]
    BY <1>2, <1>3 DEF UndoLockLog, DrillInv, DrillTypes
  <2>2. /\ t \in Request /\ t.step = "logged" /\ t.op = "undo" /\ t.session = tx[r].session /\ t.word = tx[r].word
        /\ t.key = tx[r].key /\ t.read = tx[r].read
    BY <1>1, <1>2 DEF Request
  <2>3. Answered(t.read, t.word, logs) /\ t.read.born <= time /\ ~logs[t.read.log].undone
    BY <1>1, <1>3, <2>2 DEF DrillInv, AnswersAreKnown, BornInReach, Standing
  <2> HIDE DEF t
  <2> QED
    BY <1>1, <1>2, <2>1, <2>2, <2>3, ReadsOn
<1>4. CASE ~Standing(tx[r].read.log)
  BY <1>1, <1>4, EndsPreserves DEF UndoLockLog
<1> QED
  BY <1>3, <1>4

(* A step is deleted: it goes, or another took its place.                   *)
LEMMA DeletedIs ==
  ASSUME DrillInv, NEW r \in Requests, tx[r].step # "idle"
  PROVE  /\ Deleted(r) \in Table
         /\ \A s \in Sessions, w \in Words, i \in Indices :
              \/ Deleted(r)[s][w][i] = steps[s][w][i]
              \/ /\ s = tx[r].session /\ w = tx[r].word /\ i = tx[r].index
                 /\ Deleted(r)[s][w][i] = NoStep
<1>1. PICK s, w, i, x : /\ s = tx[r].session /\ w = tx[r].word /\ i = tx[r].index
                       /\ x = IF steps[s][w][i].born = tx[r].read.born THEN NoStep ELSE steps[s][w][i]
  OBVIOUS
<1>2. s \in Sessions /\ w \in Words /\ i \in Indices /\ steps \in Table
  BY <1>1, OpenIs DEF Request, DrillInv, DrillTypes
<1>3. x \in Step /\ x \in {NoStep, steps[s][w][i]}
  BY <1>1, <1>2, IdleIs DEF Table
<1>4. Deleted(r) = [steps EXCEPT ![s][w][i] = x]
  BY <1>1 DEF Deleted
<1>5. PICK new : new = Deleted(r)
  OBVIOUS
<1>6. Differs(steps, new, s, w, i, x)
  <2>1. new = [steps EXCEPT ![s][w][i] = x]
    BY <1>4, <1>5
  <2> QED
    BY <1>2, <1>3, <2>1, CellWritten
<1> QED
  BY SMTT(30), <1>1, <1>3, <1>5, <1>6 DEF Differs

(* A cell that is emptied under its lock.                                   *)
LEMMA Emptied ==
  ASSUME DrillInv, NEW s \in Sessions, NEW w \in Words, NEW i \in Indices, StepFree(s, w, i),
         steps'[s][w][i] = steps[s][w][i] \/ steps'[s][w][i] = NoStep
  PROVE  CellGoesOn(s, w, i)
<1>1. time \in Nat
  BY L2DrillAssumption DEF DrillInv, DrillTypes
<1>2. i = 0 => \A q \in Requests : ~(Holds(q) /\ tx[q].session = s /\ tx[q].word = w)
  BY DEF StepFree, Holds
<1> QED
  BY <1>1, <1>2, IdleIs DEF CellGoesOn, Answered

(* A request ends.                                                          *)
LEMMA DoneIs ==
  ASSUME DrillInv, NEW r \in Requests, Done(r)
  PROVE  /\ tx' \in [Requests -> Request] /\ tx'[r] = Idle
         /\ \A q \in Requests : tx'[q] = tx[q] \/ tx'[q] = Idle
  BY IdleIs DEF Done, DrillInv, DrillTypes

(* A step that was not completed is deleted.                                *)
LEMMA UndoPendingPreserves == ASSUME DrillInv, NEW r \in Requests, UndoPending(r) PROVE DrillInv'
<1>1. tx[r].step # "idle" /\ Done(r) /\ Deletes(r) /\ UNCHANGED <<row, time, logs>>
  BY DEF UndoPending, Undoing
<1>2. DrillTypes'
  BY <1>1, DeletedIs, DoneIs DEF DrillInv, DrillTypes, Deletes
<1>3. time <= time'
  BY <1>1, L2DrillAssumption DEF DrillInv, DrillTypes
<1>4. LogsGoOn /\ RowsGoOn /\ UndoneGoesOn
  BY <1>1 DEF LogsGoOn, RowsGoOn, UndoneGoesOn
<1>5. ASSUME NEW s \in Sessions, NEW w \in Words, NEW i \in Indices PROVE CellGoesOn(s, w, i)
  <2>1. CASE steps'[s][w][i] = steps[s][w][i]
    BY <2>1 DEF CellGoesOn
  <2>2. CASE steps'[s][w][i] # steps[s][w][i]
    <3>1. s = tx[r].session /\ w = tx[r].word /\ i = tx[r].index /\ steps'[s][w][i] = NoStep
      BY <1>1, <2>2, DeletedIs DEF Deletes
    <3>2. StepFree(s, w, i)
      BY <1>1, <3>1 DEF Deletes
    <3> QED
      BY <3>1, <3>2, Emptied
  <2> QED
    BY <2>1, <2>2
<1> QED
  BY <1>1, <1>2, <1>3, <1>4, <1>5, DoneIs, GoesOn

(* The audit row of an undo.                                                *)
LEMMA UndoEntryIs ==
  ASSUME DrillInv, NEW r \in Requests, tx[r].step # "idle", NEW e, e = Entry(r, "undo", {})
  PROVE  e \in Log /\ e.step <= time /\ e.key = tx[r].key /\ e.kind = "undo"
<1>1. tx[r] \in Request /\ tx[r].session \in Sessions /\ tx[r].word \in Words
  BY OpenIs
<1>2. tx[r].read.born \in Nat /\ tx[r].read.born <= time
  BY <1>1 DEF Request, Step, DrillInv, BornInReach
<1> QED
  BY <1>1, <1>2 DEF Entry, Log, Request

(* A production step is deleted, and its key logged.                        *)
LEMMA UndoProductionPreserves == ASSUME DrillInv, NEW r \in Requests, UndoProduction(r) PROVE DrillInv'
<1>1. tx[r].step # "idle" /\ Done(r) /\ Deletes(r) /\ UNCHANGED time
  BY DEF UndoProduction, Undoing
<1>2. row' \in [Words -> Row] /\ \A w \in Words : row'[w].paused = row[w].paused
  BY <1>1, OpenIs DEF UndoProduction, DrillInv, DrillTypes, Row
<1>3. /\ logs' \in Seq(Log) /\ LogsGoOn
      /\ \A i \in DOMAIN logs : logs'[i] = logs[i]
  <2>1. CASE logs' = logs
    BY <2>1 DEF LogsGoOn, DrillInv, DrillTypes
  <2>2. CASE logs' = Append(logs, Entry(r, "undo", {}))
    <3>1. PICK e : e = Entry(r, "undo", {})
      OBVIOUS
    <3>2. e \in Log /\ e.step <= time /\ e.key = tx[r].key /\ e.kind = "undo"
      BY <1>1, <3>1, UndoEntryIs
    <3>3. logs \in Seq(Log)
      BY DEF DrillInv, DrillTypes
    <3>4. logs' = Append(logs, e)
      BY <2>2, <3>1
    <3> QED
      BY <1>1, <3>2, <3>3, <3>4, Logged
  <2> QED
    BY <2>1, <2>2 DEF UndoProduction
<1>4. DrillTypes'
  BY <1>1, <1>2, <1>3, DeletedIs, DoneIs DEF DrillInv, DrillTypes, Deletes
<1>5. time <= time'
  BY <1>1, L2DrillAssumption DEF DrillInv, DrillTypes
<1>6. RowsGoOn /\ UndoneGoesOn
  BY <1>2, <1>3 DEF RowsGoOn, UndoneGoesOn
<1>7. ASSUME NEW s \in Sessions, NEW w \in Words, NEW i \in Indices PROVE CellGoesOn(s, w, i)
  <2>1. CASE steps'[s][w][i] = steps[s][w][i]
    BY <2>1 DEF CellGoesOn
  <2>2. CASE steps'[s][w][i] # steps[s][w][i]
    <3>1. s = tx[r].session /\ w = tx[r].word /\ i = tx[r].index /\ steps'[s][w][i] = NoStep
      BY <1>1, <2>2, DeletedIs DEF Deletes
    <3>2. StepFree(s, w, i)
      BY <1>1, <3>1 DEF Deletes
    <3> QED
      BY <3>1, <3>2, Emptied
  <2> QED
    BY <2>1, <2>2
<1> QED
  BY <1>1, <1>3, <1>4, <1>5, <1>6, <1>7, DoneIs, GoesOn

(* An undo writes back what its answer replaced, under the lock of the      *)
(* answer.                                                                  *)
LEMMA UndoWritePreserves == ASSUME DrillInv, NEW r \in Requests, UndoWrite(r) PROVE DrillInv'
<1>0. PICK s, w, n, gone : s = tx[r].session /\ w = tx[r].word /\ n = tx[r].read.log /\ gone = Deleted(r)
  OBVIOUS
<1>1. tx[r].step = "logged" /\ tx[r].op = "undo" /\ Done(r) /\ UNCHANGED time /\ StepFree(s, w, 0) /\ RowFree(w)
  BY <1>0 DEF UndoWrite, Undoing
<1>2. s \in Sessions /\ w \in Words /\ 0 \in Indices /\ 1 \in Indices /\ tx[r] \in Request
  BY <1>0, <1>1, OpenIs
<1>3. n \in DOMAIN logs /\ logs[n] \in Log /\ logs \in Seq(Log)
  <2>1. tx[r].read.status = "completed" /\ ~tx[r].read.production
    BY <1>1 DEF DrillInv, HeldLog
  <2>2. n \in DOMAIN logs
    BY <1>0, <1>1, <2>1 DEF DrillInv, AnswersAreKnown, Answered
  <2> QED
    BY <2>2 DEF DrillInv, DrillTypes
<1>4. /\ gone \in Table
      /\ \A s2 \in Sessions, w2 \in Words, i2 \in Indices :
           \/ gone[s2][w2][i2] = steps[s2][w2][i2]
           \/ s2 = s /\ w2 = w /\ i2 = tx[r].index /\ gone[s2][w2][i2] = NoStep
  BY <1>0, <1>1, DeletedIs
<1>5. PICK x : x = IF gone[s][w][1].status = "pending" THEN NoStep ELSE gone[s][w][1]
  OBVIOUS
<1>6. x \in Step /\ x \in {NoStep, gone[s][w][1]}
  BY <1>2, <1>4, <1>5, IdleIs DEF Table
<1>7. Differs(gone, steps', s, w, 1, x)
  <2>1. steps' = [gone EXCEPT ![s][w][1] = x]
    BY <1>0, <1>5 DEF UndoWrite
  <2> QED
    BY <1>2, <1>4, <1>6, <2>1, CellWritten
<1>8. ASSUME NEW s2 \in Sessions, NEW w2 \in Words, NEW i2 \in Indices PROVE CellGoesOn(s2, w2, i2)
  <2>1. CASE steps'[s2][w2][i2] = steps[s2][w2][i2]
    BY <2>1 DEF CellGoesOn
  <2>2. CASE steps'[s2][w2][i2] # steps[s2][w2][i2]
    <3>1. s2 = s /\ w2 = w /\ steps'[s2][w2][i2] = NoStep
      BY <1>2, <1>4, <1>6, <1>7, <2>2 DEF Differs
    <3>2. StepFree(s2, w2, i2)
      BY <1>1, <3>1 DEF StepFree
    <3> QED
      BY <3>1, <3>2, Emptied
  <2> QED
    BY <2>1, <2>2
<1>9. PICK e : e = Entry(r, "undo", {})
  OBVIOUS
<1>10. e \in Log /\ e.step <= time /\ e.key = tx[r].key /\ e.kind = "undo"
  BY <1>1, <1>9, UndoEntryIs
<1>11. PICK ls : ls = [logs EXCEPT ![n].undone = TRUE]
  OBVIOUS
<1>12. /\ ls \in Seq(Log) /\ Len(ls) = Len(logs)
       /\ \A i \in DOMAIN logs : /\ ls[i].kind = logs[i].kind /\ ls[i].word = logs[i].word
                                 /\ ls[i].session = logs[i].session /\ ls[i].step = logs[i].step
                                 /\ ls[i].key = logs[i].key /\ (i # n => ls[i] = logs[i])
  <2>1. PICK l : l = [logs[n] EXCEPT !.undone = TRUE]
    OBVIOUS
  <2>2. /\ l \in Log /\ l.kind = logs[n].kind /\ l.word = logs[n].word /\ l.session = logs[n].session
        /\ l.step = logs[n].step /\ l.key = logs[n].key
    BY <1>3, <2>1 DEF Log
  <2>3. ls = [logs EXCEPT ![n] = l]
    BY <1>11, <2>1
  <2>4. ls \in Seq(Log) /\ Len(ls) = Len(logs)
    BY <1>3, <2>2, <2>3, ExceptSeq
  <2>5. \A i \in DOMAIN logs : ls[i] = IF i = n THEN l ELSE logs[i]
    BY <2>3
  <2> QED
    BY <2>2, <2>4, <2>5
<1>13. /\ logs' \in Seq(Log) /\ LogsGoOn
       /\ \A i \in DOMAIN logs : i \in DOMAIN logs' /\ logs'[i] = ls[i]
  <2>1. logs' = Append(ls, e)
    BY <1>0, <1>9, <1>11 DEF UndoWrite
  <2> QED
    BY <1>1, <1>10, <1>12, <2>1, Logged
<1>14. row' \in [Words -> Row] /\ \A v \in Words : row'[v].paused = row[v].paused
  <2>1. row' = [row EXCEPT ![w].sched = logs[n].prev]
    BY <1>0 DEF UndoWrite
  <2>2. logs[n].prev \in SUBSET Nat
    BY <1>3 DEF Log
  <2> QED
    BY <1>2, <2>1, <2>2 DEF DrillInv, DrillTypes, Row
<1>15. DrillTypes'
  <2>1. steps' \in Table
    BY <1>7 DEF Differs
  <2>2. tx' \in [Requests -> Request]
    BY <1>1, DoneIs
  <2>3. time' \in 0 .. MaxTime
    BY <1>1 DEF DrillInv, DrillTypes
  <2> QED
    BY <1>13, <1>14, <2>1, <2>2, <2>3 DEF DrillTypes
<1>16. time <= time'
  BY <1>1, L2DrillAssumption DEF DrillInv, DrillTypes
<1>17. RowsGoOn
  BY <1>14 DEF RowsGoOn
<1>18. UndoneGoesOn
  <2>1. SUFFICES ASSUME NEW i \in DOMAIN logs, NEW q \in Requests, ~logs[i].undone, logs'[i].undone,
                        tx[q].step = "logged", tx[q].read.log = i
                 PROVE  tx'[q] = Idle
    BY DEF UndoneGoesOn
  <2>2. i = n
    BY <1>12, <1>13, <2>1
  <2>3. q = r
    BY <1>0, <1>1, <2>1, <2>2 DEF DrillInv, HeldLog
  <2> QED
    BY <1>1, <2>3, DoneIs
<1>19. \A q \in Requests : tx'[q] = tx[q] \/ tx'[q] = Idle
  BY <1>1, DoneIs
<1> QED
  BY <1>8, <1>13, <1>15, <1>16, <1>17, <1>18, <1>19, GoesOn

-----------------------------------------------------------------------------
(* What changes no request: rows, and steps under no lock.                  *)
(* A queue creates steps where there are none.                              *)
LEMMA GetQueuePreserves == ASSUME DrillInv, NEW s \in Sessions, GetQueue(s) PROVE DrillInv'
<1>1. PICK due, single :
        /\ due \in SUBSET {w \in Words : ~row[w].paused /\ steps[s][w][0].status = "none"}
        /\ steps' = [steps EXCEPT ![s] = [w \in Words |->
               IF w \in due THEN [steps[s][w] EXCEPT ![0] = NewStep(w \in single, time + 1)] ELSE steps[s][w]]]
  BY ZenonT(60) DEF GetQueue
<1>2. time < MaxTime /\ time' = time + 1 /\ UNCHANGED <<row, logs, tx>>
  BY DEF GetQueue
<1>3. time \in 0 .. MaxTime /\ time \in Nat /\ MaxTime \in Nat /\ steps \in Table
  BY L2DrillAssumption DEF DrillInv, DrillTypes
<1>4. ASSUME NEW w \in Words
      PROVE  /\ NewStep(w \in single, time + 1) \in Step /\ NewStep(w \in single, time + 1).status = "pending"
             /\ NewStep(w \in single, time + 1).born = time + 1
  <2>0. time + 1 \in Nat
    BY <1>3
  <2>1. CASE w \in single
    <3>1. (w \in single) = TRUE
      BY <2>1
    <3>2. /\ NewStep(TRUE, time + 1) \in Step /\ NewStep(TRUE, time + 1).status = "pending"
          /\ NewStep(TRUE, time + 1).born = time + 1
      BY <2>0, IdleIs DEF NewStep, Step, Statuses
    <3> QED
      BY <3>1, <3>2, Zenon
  <2>2. CASE w \notin single
    <3>1. (w \in single) = FALSE
      BY <2>2
    <3>2. /\ NewStep(FALSE, time + 1) \in Step /\ NewStep(FALSE, time + 1).status = "pending"
          /\ NewStep(FALSE, time + 1).born = time + 1
      BY <2>0, IdleIs DEF NewStep, Step, Statuses
    <3> QED
      BY <3>1, <3>2, Zenon
  <2> QED
    BY <2>1, <2>2
<1> DEFINE cells == [w \in Words |-> IF w \in due THEN [steps[s][w] EXCEPT ![0] = NewStep(w \in single, time + 1)]
                                     ELSE steps[s][w]]
<1>5. /\ cells \in [Words -> [Indices -> Step]]
      /\ \A w \in Words, i \in Indices :
           cells[w][i] = IF w \in due /\ i = 0 THEN NewStep(w \in single, time + 1) ELSE steps[s][w][i]
  <2>1. ASSUME NEW w \in Words
        PROVE  /\ cells[w] \in [Indices -> Step]
               /\ \A i \in Indices : cells[w][i] = IF w \in due /\ i = 0 THEN NewStep(w \in single, time + 1) ELSE steps[s][w][i]
    <3>1. PICK new : new = NewStep(w \in single, time + 1)
      OBVIOUS
    <3>2. new \in Step /\ steps[s][w] \in [Indices -> Step]
      BY <1>3, <1>4, <3>1 DEF Table
    <3>3. cells[w] = IF w \in due THEN [steps[s][w] EXCEPT ![0] = new] ELSE steps[s][w]
      BY <3>1
    <3> HIDE DEF cells
    <3> QED
      BY <3>1, <3>2, <3>3
  <2>2. cells = [w \in Words |-> cells[w]]
    OBVIOUS
  <2> HIDE DEF cells
  <2> QED
    BY <2>1, <2>2
<1>6. steps' = [steps EXCEPT ![s] = cells]
  BY <1>1
<1> HIDE DEF cells
<1>7. /\ steps' \in Table
      /\ \A s2 \in Sessions, w2 \in Words, i2 \in Indices :
           \/ steps'[s2][w2][i2] = steps[s2][w2][i2]
           \/ s2 = s /\ w2 \in due /\ i2 = 0 /\ steps'[s2][w2][i2] = NewStep(w2 \in single, time + 1)
  BY <1>3, <1>5, <1>6 DEF Table
<1>8. DrillTypes'
  BY <1>2, <1>3, <1>7 DEF DrillInv, DrillTypes
<1>9. LogsGoOn /\ RowsGoOn /\ UndoneGoesOn
  BY <1>2 DEF LogsGoOn, RowsGoOn, UndoneGoesOn
<1>10. ASSUME NEW s2 \in Sessions, NEW w2 \in Words, NEW i2 \in Indices PROVE CellGoesOn(s2, w2, i2)
  <2>1. CASE steps'[s2][w2][i2] = steps[s2][w2][i2]
    BY <2>1 DEF CellGoesOn
  <2>2. CASE s2 = s /\ w2 \in due /\ i2 = 0 /\ steps'[s2][w2][i2] = NewStep(w2 \in single, time + 1)
    <3>1. steps[s2][w2][i2].status = "none"
      BY <1>1, <2>2
    <3> QED
      BY <1>2, <1>4, <2>2, <3>1 DEF CellGoesOn
  <2> QED
    BY <1>7, <2>1, <2>2
<1> QED
  BY <1>2, <1>3, <1>8, <1>9, <1>10, GoesOn

(* A production step is completed.                                          *)
LEMMA SelfAssessPreserves ==
  ASSUME DrillInv, NEW s \in Sessions, NEW w \in Words, NEW i \in Indices, SelfAssess(s, w, i)
  PROVE  DrillInv'
<1>1. /\ steps[s][w][i].status = "pending" /\ steps[s][w][i].production /\ StepFree(s, w, i)
      /\ UNCHANGED <<time, logs, tx>>
  BY DEF SelfAssess
<1>2. time \in Nat /\ steps \in Table /\ steps[s][w][i] \in Step /\ steps[s][w][i].born <= time
  BY L2DrillAssumption DEF DrillInv, DrillTypes, Table, BornInReach
<1>3. PICK st : st = [steps[s][w][i] EXCEPT !.status = "completed"]
  OBVIOUS
<1>4. st \in Step /\ st.status = "completed" /\ st.production /\ st.born <= time
  BY <1>1, <1>2, <1>3 DEF Step, Statuses
<1>5. Differs(steps, steps', s, w, i, st)
  <2>1. steps' = [steps EXCEPT ![s][w][i] = st]
    BY <1>2, <1>3 DEF SelfAssess, Table
  <2> QED
    BY <1>2, <1>4, <2>1, CellWritten
<1>6. row' \in [Words -> Row] /\ \A v \in Words : row'[v].paused = row[v].paused
  BY DEF SelfAssess, DrillInv, DrillTypes, Row
<1>7. DrillTypes'
  BY <1>1, <1>5, <1>6 DEF DrillInv, DrillTypes, Differs
<1>8. LogsGoOn /\ RowsGoOn /\ UndoneGoesOn
  BY <1>1, <1>6 DEF LogsGoOn, RowsGoOn, UndoneGoesOn
<1>9. ASSUME NEW s2 \in Sessions, NEW w2 \in Words, NEW i2 \in Indices PROVE CellGoesOn(s2, w2, i2)
  <2>1. CASE s2 = s /\ w2 = w /\ i2 = i
    <3>1. steps'[s2][w2][i2] = st
      BY <1>5, <2>1 DEF Differs
    <3>2. i2 = 0 => \A q \in Requests : ~(Holds(q) /\ tx[q].session = s2 /\ tx[q].word = w2)
      BY <1>1, <2>1 DEF StepFree, Holds
    <3> QED
      BY <1>4, <3>1, <3>2 DEF CellGoesOn, Answered
  <2>2. CASE ~(s2 = s /\ w2 = w /\ i2 = i)
    BY <1>5, <2>2 DEF CellGoesOn, Differs
  <2> QED
    BY <2>1, <2>2
<1> QED
  BY <1>1, <1>2, <1>7, <1>8, <1>9, GoesOn

(* A row nobody holds is paused or resumed.                                 *)
LEMMA SetPausedPreserves == ASSUME DrillInv, NEW w \in Words, SetPaused(w) PROVE DrillInv'
<1>1. RowFree(w) /\ UNCHANGED <<steps, time, logs, tx>>
  BY DEF SetPaused
<1>2. row' \in [Words -> Row] /\ \A v \in Words : v # w => row'[v] = row[v]
  BY DEF SetPaused, DrillInv, DrillTypes, Row
<1>3. DrillTypes' /\ time \in Nat
  BY <1>1, <1>2, L2DrillAssumption DEF DrillInv, DrillTypes
<1>4. LogsGoOn /\ UndoneGoesOn
  BY <1>1 DEF LogsGoOn, UndoneGoesOn
<1>5. RowsGoOn
  BY <1>1, <1>2 DEF RowsGoOn, RowFree
<1>6. \A s2 \in Sessions, w2 \in Words, i2 \in Indices : CellGoesOn(s2, w2, i2)
  BY <1>1 DEF CellGoesOn
<1> QED
  BY <1>1, <1>3, <1>4, <1>5, <1>6, GoesOn

-----------------------------------------------------------------------------
(* The invariant of the drill holds at the start, after every step, and so  *)
(* always.                                                                  *)
LEMMA DrillInit == ASSUME Init PROVE DrillInv
<1>1. /\ row \in [Words -> Row] /\ steps \in Table /\ time = 0 /\ logs = <<>> /\ tx \in [Requests -> Request]
      /\ \A r \in Requests : tx[r] = Idle
      /\ \A s \in Sessions, w \in Words, i \in Indices : steps[s][w][i] = NoStep
  BY IdleIs DEF Init, Row, Table
<1>2. DOMAIN logs = {} /\ logs \in Seq(Log) /\ time \in 0 .. MaxTime
  BY <1>1, L2DrillAssumption
<1>3. DrillTypes
  BY <1>1, <1>2 DEF DrillTypes
<1>4. Asked /\ OpenKeysDiffer /\ KeyRatesOnce
  BY <1>1, <1>2, IdleIs DEF Asked, OpenKeysDiffer, KeyRatesOnce
<1>5. BornInReach /\ PendingIsFresh /\ OneAnswerPerStep /\ AnswersAreKnown
  BY <1>1, <1>2, IdleIs DEF BornInReach, PendingIsFresh, OneAnswerPerStep, Answers, AnswersAreKnown, Answered
<1>6. HeldStep /\ OneHolder /\ HeldRow /\ HeldLog
  BY <1>1, IdleIs DEF HeldStep, OneHolder, HeldRow, HeldLog, Holds, Submitting
<1> QED
  BY <1>3, <1>4, <1>5, <1>6 DEF DrillInv

(* Every step of the drill preserves the invariant.                         *)
LEMMA DrillNext == ASSUME DrillInv, [Next]_vars PROVE DrillInv'
<1>1. ASSUME NEW s \in Sessions, GetQueue(s) \/ \E w \in Words, i \in Indices : SelfAssess(s, w, i) PROVE DrillInv'
  BY <1>1, GetQueuePreserves, SelfAssessPreserves
<1>2. ASSUME NEW w \in Words, SetPaused(w) PROVE DrillInv'
  BY <1>2, SetPausedPreserves
<1>3. ASSUME NEW r \in Requests, SubmitBegin(r) \/ SubmitLockStep(r) \/ SubmitLockRow(r) \/ SubmitWrite(r) PROVE DrillInv'
  BY <1>3, SubmitBeginPreserves, SubmitLockStepPreserves, SubmitLockRowPreserves, SubmitWritePreserves
<1>4. ASSUME NEW r \in Requests,
             \/ \E s \in Sessions : UndoRead(r, s)
             \/ UndoPending(r) \/ UndoProduction(r) \/ UndoLockLog(r) \/ UndoWrite(r) \/ Abort(r)
      PROVE  DrillInv'
  BY <1>4, UndoReadPreserves, UndoPendingPreserves, UndoProductionPreserves, UndoLockLogPreserves,
     UndoWritePreserves, AbortPreserves
<1>5. CASE UNCHANGED vars
  <2>1. UNCHANGED <<row, steps, time, logs, tx>>
    BY <1>5 DEF vars
  <2>2. DrillTypes' /\ time \in Nat
    BY <2>1, L2DrillAssumption DEF DrillInv, DrillTypes
  <2> QED
    BY <2>1, <2>2, GoesOn DEF LogsGoOn, RowsGoOn, UndoneGoesOn, CellGoesOn
<1> QED
  BY <1>1, <1>2, <1>3, <1>4, <1>5 DEF Next

(* The locks of the drill do what they are for, in every behaviour.         *)
THEOREM DrillInvariant == Spec => []DrillInv
<1>1. Init => DrillInv
  BY DrillInit
<1>2. DrillInv /\ [Next]_vars => DrillInv'
  BY DrillNext
<1> QED
  BY <1>1, <1>2, PTL DEF Spec

(* No step and no key rates twice, whatever double clicks, second tabs,     *)
(* retries and undos come in between.                                       *)
THEOREM AnswersOnce == Spec => []AnswersRateOnce
<1>1. DrillInv => AnswersRateOnce
  <2>1. DrillTypes => TypeOK
    <3>1. logs \in Seq(Log) => \A i \in DOMAIN logs : logs[i] \in Log
      OBVIOUS
    <3> QED
      BY <3>1, Zenon DEF DrillTypes, TypeOK, Table, Request, Log
  <2> QED
    BY <2>1 DEF DrillInv, AnswersRateOnce
<1> QED
  BY <1>1, DrillInvariant, PTL

(* A schedule moves with the log: forward by an answer on a row that is not *)
(* paused, back to what an answer replaced as it becomes undone.            *)
THEOREM ScheduleMoves == Spec => ScheduleMovesWithLog
<1> DEFINE Moves(w) == row'[w].sched # row[w].sched =>
              \/ Len(logs) + 1 \in row'[w].sched /\ ~row[w].paused
              \/ \E i \in Answers(w) : /\ ~logs[i].undone /\ logs'[i].undone
                                       /\ row'[w].sched = logs[i].prev
<1>1. ASSUME DrillInv, [Next]_vars, NEW w \in Words, row'[w].sched # row[w].sched
      PROVE  \/ Len(logs) + 1 \in row'[w].sched /\ ~row[w].paused
             \/ \E i \in Answers(w) : /\ ~logs[i].undone /\ logs'[i].undone
                                      /\ row'[w].sched = logs[i].prev
  <2>0. row \in [Words -> Row]
    BY <1>1 DEF DrillInv, DrillTypes
  <2>1. ASSUME NEW r \in Requests, SubmitWrite(r)
        PROVE  Len(logs) + 1 \in row'[w].sched /\ ~row[w].paused
    <3>1. w = tx[r].word
      BY <1>1, <2>0, <2>1 DEF SubmitWrite, Row
    <3>2. Len(logs) + 1 \in row'[w].sched
      BY <2>0, <2>1, <3>1 DEF SubmitWrite, Row
    <3>3. ~row[w].paused
      BY <1>1, <2>1, <3>1 DEF SubmitWrite, DrillInv, HeldRow
    <3> QED
      BY <3>2, <3>3
  <2>2. ASSUME NEW r \in Requests, UndoWrite(r)
        PROVE  \E i \in Answers(w) : ~logs[i].undone /\ logs'[i].undone /\ row'[w].sched = logs[i].prev
    <3>1. PICK n : n = tx[r].read.log
      OBVIOUS
    <3>2. w = tx[r].word /\ row'[w].sched = logs[n].prev
      BY <1>1, <2>0, <2>2, <3>1 DEF UndoWrite, Row
    <3>3. n \in DOMAIN logs /\ logs[n].kind = "answer" /\ logs[n].word = w /\ ~logs[n].undone
      BY <1>1, <2>2, <3>1, <3>2 DEF UndoWrite, Undoing, DrillInv, HeldLog, AnswersAreKnown, Answered
    <3>4. logs'[n].undone
      <4>1. PICK ls, e : ls = [logs EXCEPT ![n].undone = TRUE] /\ e = Entry(r, "undo", {})
        OBVIOUS
      <4>2. logs \in Seq(Log) /\ logs[n] \in Log
        BY <1>1, <3>3 DEF DrillInv, DrillTypes
      <4>3. PICK l : l = [logs[n] EXCEPT !.undone = TRUE]
        OBVIOUS
      <4>4. l \in Log /\ l.undone /\ ls = [logs EXCEPT ![n] = l]
        BY <4>1, <4>2, <4>3 DEF Log
      <4>5. ls \in Seq(Log) /\ Len(ls) = Len(logs) /\ ls[n] = l
        BY <3>3, <4>2, <4>4, ExceptSeq
      <4>6. logs' = Append(ls, e)
        BY <2>2, <3>1, <4>1 DEF UndoWrite
      <4>7. n \in 1 .. Len(ls)
        BY <3>3, <4>2, <4>5
      <4>8. e \in Log
        BY <1>1, <2>2, <4>1, UndoEntryIs DEF UndoWrite, Undoing
      <4>9. logs'[n] = ls[n]
        BY <4>5, <4>6, <4>7, <4>8, AppendProperties
      <4> QED
        BY <4>4, <4>5, <4>9
    <3> QED
      BY <3>2, <3>3, <3>4 DEF Answers
  <2>3. CASE UNCHANGED vars
    BY <1>1, <2>3 DEF vars
  <2>4. ASSUME NEW s \in Sessions, GetQueue(s) \/ \E v \in Words, i \in Indices : SelfAssess(s, v, i) PROVE FALSE
    BY <1>1, <2>0, <2>4 DEF GetQueue, SelfAssess, Row
  <2>5. ASSUME NEW v \in Words, SetPaused(v) PROVE FALSE
    BY <1>1, <2>0, <2>5 DEF SetPaused, Row
  <2>6. ASSUME NEW r \in Requests, SubmitBegin(r) \/ SubmitLockStep(r) \/ SubmitLockRow(r) PROVE FALSE
    BY <1>1, <2>6 DEF SubmitBegin, SubmitLockStep, SubmitLockRow
  <2>7. ASSUME NEW r \in Requests,
               (\E s \in Sessions : UndoRead(r, s)) \/ UndoPending(r) \/ UndoLockLog(r) \/ Abort(r)
        PROVE  FALSE
    BY <1>1, <2>7 DEF UndoRead, UndoPending, UndoLockLog, Abort
  <2>8. ASSUME NEW r \in Requests, UndoProduction(r) PROVE FALSE
    BY <1>1, <2>0, <2>8 DEF UndoProduction, Row
  <2> QED
    BY <1>1, <2>1, <2>2, <2>3, <2>4, <2>5, <2>6, <2>7, <2>8 DEF Next
<1>2. DrillInv /\ [Next]_vars => [\A w \in Words : Moves(w)]_vars
  BY <1>1
<1> QED
  BY <1>2, DrillInvariant, PTL DEF Spec, ScheduleMovesWithLog

-----------------------------------------------------------------------------
(* The state column                                                         *)

(* While a bulk statement is under way: the batch it will fill is empty,   *)
(* so that nobody was suspended by it before; the plan it will make is not *)
(* active; the plan it will end is, and what it has read is what that plan *)
(* keeps, of every card the plan suspended that is suspended still.        *)
RunsOnce ==
  /\ \A b \in Batches : flight[b].open => batch[b] = L1!Empty
  /\ flight["sprint"].open => ~sprint.active
  /\ flight["end"].open => sprint.active
EndReadsAll ==
  flight["end"].open => \A c \in Cards :
    /\ c \in L1!Kept(flight["end"].read) => flight["end"].read[c] = sprint.snapshot[c]
    /\ state[c] = "suspended" /\ cause[c] = "sprint" => c \in L1!Kept(flight["end"].read)

Recorded(c) ==
  state[c] = "suspended" =>
    /\ cause[c] \in Batches => c \in L1!Kept(batch[cause[c]])
    /\ cause[c] = "sprint" => sprint.active /\ c \in L1!Kept(sprint.snapshot)

StateInv == L1!SuspensionsAreRecorded /\ RunsOnce /\ EndReadsAll

(* Being suspended, gone or nowhere is no state of scheduling.              *)
LEMMA Values ==
  /\ "suspended" \notin L1!Learning /\ "none" \notin L1!Learning /\ "gone" \notin L1!Learning
  /\ L1!Learning \subseteq L1!States /\ "new" \in L1!Learning /\ Scheduled \subseteq L1!Learning
  BY CardStateAssumption DEF L1!Learning, L1!States

(* The empty record keeps nobody.                                           *)
LEMMA EmptyIsRecord == L1!Empty \in L1!Record /\ L1!Kept(L1!Empty) = {}
  BY DEF L1!Empty, L1!Record, L1!Kept

(* What a sequence of states gives back and leaves.                        *)
LEMMA Popping ==
  ASSUME NEW s \in Seq(L1!Learning), s # <<>>
  PROVE  L1!Last(s) \in L1!Learning /\ L1!Front(s) \in Seq(L1!Learning)
<1>1. Len(s) \in Nat \ {0}
  OBVIOUS
<1> QED
  BY <1>1 DEF L1!Last, L1!Front

(* The runs, and the flights they have.                                     *)
Flight == [open : BOOLEAN, read : L1!Record]
LEMMA RunsAre ==
  /\ Batches \subseteq L1!Runs /\ "sprint" \in L1!Runs /\ "end" \in L1!Runs
  /\ "sprint" \notin Batches /\ "end" \notin Batches
  /\ L1!Closed \in Flight /\ ~L1!Closed.open
  BY CardStateAssumption, EmptyIsRecord DEF L1!Runs, L1!Closed, Flight

(* The invariant, card by card.                                             *)
LEMMA StateInvParts == StateInv <=> L1!TypeOK /\ RunsOnce /\ EndReadsAll /\ \A c \in Cards : Recorded(c)
  BY DEF StateInv, L1!SuspensionsAreRecorded, Recorded

(* It holds at the start.                                                   *)
LEMMA StateInit == L1!Init => StateInv
<1> SUFFICES ASSUME L1!Init PROVE StateInv
  OBVIOUS
<1>1. L1!TypeOK
  BY Values, EmptyIsRecord, RunsAre DEF L1!Init, L1!TypeOK, L1!NoSprint, L1!States, Flight
<1>2. RunsOnce /\ EndReadsAll /\ \A c \in Cards : Recorded(c)
  BY RunsAre DEF L1!Init, RunsOnce, EndReadsAll, Recorded
<1> QED
  BY <1>1, <1>2, StateInvParts

(* Transactions on one card *)

(* A card is written and nothing else: it is recorded unless it becomes    *)
(* suspended by forgetting or by a sprint.                                 *)
LEMMA OneCard ==
  ASSUME StateInv, NEW c \in Cards, NEW s \in L1!States,
         state' = [state EXCEPT ![c] = s],
         prior' \in [Cards -> Seq(L1!Learning)],
         \/ s # "suspended" /\ UNCHANGED cause
         \/ cause' = [cause EXCEPT ![c] = "user"],
         UNCHANGED <<flight, batch, sprint>>
  PROVE  StateInv'
<1>1. L1!TypeOK'
  BY DEF StateInv, L1!SuspensionsAreRecorded, L1!TypeOK
<1>2. RunsOnce'
  BY DEF StateInv, RunsOnce, L1!Empty
<1>5. EndReadsAll'
  BY DEF StateInv, L1!SuspensionsAreRecorded, L1!TypeOK, EndReadsAll, L1!Kept
<1>3. ASSUME NEW d \in Cards PROVE Recorded(d)'
  <2>1. CASE d = c
    BY <2>1, CardStateAssumption DEF StateInv, L1!SuspensionsAreRecorded, L1!TypeOK, Recorded
  <2>2. CASE d # c
    BY <2>2 DEF StateInv, L1!SuspensionsAreRecorded, L1!TypeOK, Recorded, L1!Kept
  <2> QED
    BY <2>1, <2>2
<1>4. L1!TypeOK' /\ RunsOnce' /\ EndReadsAll' /\ \A d \in Cards : Recorded(d)'
  BY <1>1, <1>2, <1>3, <1>5
<1> QED
  BY <1>4 DEF StateInv, L1!SuspensionsAreRecorded, Recorded

(* Transactions on one card preserve it.                                    *)
LEMMA CardPreserves ==
  ASSUME StateInv, NEW c \in Cards, L1!Enqueue(c) \/ L1!Answer(c) \/ L1!Undo(c) \/ L1!Suspend(c) \/ L1!RemoveCard(c)
  PROVE  StateInv'
<1> USE DEF StateInv, L1!SuspensionsAreRecorded, L1!TypeOK
<1>1. CASE L1!Enqueue(c)
  BY <1>1, OneCard, Values DEF L1!Enqueue
<1>2. CASE L1!Answer(c)
  <2>1. PICK next \in Scheduled : state' = [state EXCEPT ![c] = next]
    BY <1>2 DEF L1!Answer
  <2>2. state[c] \in L1!Learning /\ prior' = [prior EXCEPT ![c] = Append(@, state[c])]
    BY <1>2 DEF L1!Answer
  <2>3. prior' \in [Cards -> Seq(L1!Learning)]
    BY <2>2
  <2> QED
    BY <1>2, <2>1, <2>3, OneCard, Values DEF L1!Answer
<1>3. CASE L1!Undo(c)
  <2>1. L1!Last(prior[c]) \in L1!Learning /\ L1!Front(prior[c]) \in Seq(L1!Learning)
    BY <1>3, Popping DEF L1!Undo
  <2>2. prior' \in [Cards -> Seq(L1!Learning)]
    BY <1>3, <2>1 DEF L1!Undo
  <2> QED
    BY <1>3, <2>1, <2>2, OneCard, Values DEF L1!Undo
<1>4. CASE L1!Suspend(c)
  BY <1>4, OneCard DEF L1!Suspend, L1!States
<1>5. CASE L1!RemoveCard(c)
  <2>1. <<>> \in Seq(L1!Learning) /\ prior \in [Cards -> Seq(L1!Learning)]
    OBVIOUS
  <2>2. prior' \in [Cards -> Seq(L1!Learning)]
    BY <1>5, <2>1 DEF L1!RemoveCard
  <2> HIDE DEF StateInv, L1!SuspensionsAreRecorded, L1!TypeOK
  <2> QED
    BY <1>5, <2>2, OneCard DEF L1!RemoveCard, L1!States
<1> QED
  BY <1>1, <1>2, <1>3, <1>4, <1>5

(* Bulk statements *)

(* A bulk statement begins: the others go on with what they have read.     *)
LEMMA OpeningPreserves ==
  ASSUME StateInv, NEW who \in L1!Runs, NEW new \in Flight,
         flight' = [flight EXCEPT ![who] = new],
         who \in Batches => batch[who] = L1!Empty,
         who = "sprint" => ~sprint.active,
         who = "end" => EndReadsAll' /\ sprint.active,
         UNCHANGED <<state, prior, batch, sprint, cause>>
  PROVE  StateInv'
<1>1. L1!TypeOK'
  BY DEF StateInv, L1!SuspensionsAreRecorded, L1!TypeOK, Flight
<1>2. RunsOnce'
  BY RunsAre DEF StateInv, L1!SuspensionsAreRecorded, L1!TypeOK, RunsOnce, L1!Empty
<1>3. EndReadsAll'
  <2>1. CASE who # "end"
    BY <2>1, RunsAre DEF StateInv, L1!SuspensionsAreRecorded, L1!TypeOK, EndReadsAll, L1!Kept
  <2> QED
    BY <2>1
<1>4. \A c \in Cards : Recorded(c)'
  BY DEF StateInv, L1!SuspensionsAreRecorded, Recorded, L1!Kept
<1> QED
  BY <1>1, <1>2, <1>3, <1>4 DEF StateInv, L1!SuspensionsAreRecorded, Recorded

(* Forgetting and a new plan read states of scheduling.                     *)
LEMMA ReadPreserves ==
  ASSUME StateInv, NEW who \in Batches \cup {"sprint"}, NEW S, S \subseteq Cards,
         \A c \in S : state[c] \in L1!Learning,
         who \in Batches => batch[who] = L1!Empty,
         who = "sprint" => ~sprint.active,
         L1!Read(who, S)
  PROVE  StateInv'
<1> DEFINE read == [c \in Cards |-> IF c \in S THEN state[c] ELSE "none"]
           new == [open |-> TRUE, read |-> read]
<1>1. read \in L1!Record
  BY DEF L1!Record
<1>2. new \in Flight /\ flight' = [flight EXCEPT ![who] = new] /\ UNCHANGED <<state, prior, batch, sprint, cause>>
  BY <1>1 DEF L1!Read, Flight
<1>3. who \in L1!Runs /\ who # "end"
  BY RunsAre
<1> HIDE DEF new, read
<1> QED
  BY <1>2, <1>3, OpeningPreserves

(* The end of a plan reads the cards that are suspended, those that the    *)
(* plan suspended among them.                                              *)
LEMMA EndReadPreserves ==
  ASSUME StateInv, L1!EndRead
  PROVE  StateInv'
<1>p. PICK read : read = [c \in Cards |-> IF state[c] = "suspended" THEN sprint.snapshot[c] ELSE "none"]
  OBVIOUS
<1>q. PICK new : new = [open |-> TRUE, read |-> read]
  OBVIOUS
<1>1. sprint.snapshot \in L1!Record /\ flight \in [L1!Runs -> Flight]
  BY DEF StateInv, L1!SuspensionsAreRecorded, L1!TypeOK, Flight
<1>2. read \in L1!Record
  BY <1>1, <1>p DEF L1!Record
<1>3. /\ new \in Flight /\ flight' = [flight EXCEPT !["end"] = new] /\ sprint.active
      /\ UNCHANGED <<state, prior, batch, sprint, cause>>
  BY <1>2, <1>p, <1>q DEF L1!EndRead, Flight
<1>4. flight'["end"] = new
  BY <1>1, <1>3, RunsAre
<1>5. \A c \in Cards : /\ c \in L1!Kept(read) => read[c] = sprint.snapshot[c]
                       /\ state[c] = "suspended" /\ cause[c] = "sprint" => c \in L1!Kept(read)
  BY <1>p DEF StateInv, L1!SuspensionsAreRecorded, L1!Kept
<1>6. flight'["end"].read = read
  BY <1>4, <1>q
<1>7. EndReadsAll'
  <2>1. UNCHANGED <<state, sprint, cause>>
    BY <1>3
  <2>2. L1!Kept(flight["end"].read)' = L1!Kept(read)
    BY <1>6 DEF L1!Kept
  <2> QED
    BY <1>5, <1>6, <2>1, <2>2 DEF EndReadsAll
<1> QED
  BY <1>3, <1>7, RunsAre, OpeningPreserves

(* Cards are given a state of scheduling, or left as they are.             *)
LEMMA GivingBack ==
  ASSUME StateInv, NEW record \in L1!Record, NEW S, S \subseteq L1!Kept(record),
         state' = [c \in Cards |-> IF c \in S THEN record[c] ELSE state[c]]
  PROVE  /\ state' \in [Cards -> L1!States]
         /\ \A c \in Cards : state'[c] = "suspended" => c \notin S /\ state[c] = "suspended"
<1>1. \A c \in S : c \in Cards /\ record[c] \in L1!Learning
  BY DEF L1!Kept, L1!Record
<1> QED
  BY <1>1, Values DEF StateInv, L1!SuspensionsAreRecorded, L1!TypeOK

(* A batch gives back what it keeps, and suspends nobody.                   *)
LEMMA RestorePreserves ==
  ASSUME StateInv, NEW b \in Batches, L1!Restore(b)
  PROVE  StateInv'
<1>1. batch[b] \in L1!Record
  BY DEF StateInv, L1!SuspensionsAreRecorded, L1!TypeOK
<1>2. state' = [c \in Cards |-> IF c \in {k \in L1!Kept(batch[b]) : L1!Exists(k)} THEN batch[b][c] ELSE state[c]]
  BY DEF L1!Restore
<1>3. /\ state' \in [Cards -> L1!States]
      /\ \A c \in Cards : state'[c] = "suspended" => state[c] = "suspended"
  BY <1>1, <1>2, GivingBack
<1>4. L1!TypeOK' /\ RunsOnce' /\ EndReadsAll' /\ \A c \in Cards : Recorded(c)'
  BY <1>3 DEF L1!Restore, StateInv, L1!SuspensionsAreRecorded, L1!TypeOK, RunsOnce, EndReadsAll, Recorded, L1!Empty, L1!Kept
<1> QED
  BY <1>4 DEF StateInv, L1!SuspensionsAreRecorded, Recorded

(* What the end of a plan writes: what the plan kept, on cards that are    *)
(* suspended by then, and all those that the plan suspended are among them. *)
LEMMA EndWriteIs ==
  ASSUME StateInv, L1!EndWrite
  PROVE  /\ state' \in [Cards -> L1!States]
         /\ \A c \in Cards : state'[c] # state[c] => state[c] = "suspended" /\ state'[c] = sprint.snapshot[c]
         /\ \A c \in Cards : state'[c] = "suspended" => state[c] = "suspended" /\ cause[c] # "sprint"
<1>p. PICK read : read = flight["end"].read
  OBVIOUS
<1>q. PICK S : S = {c \in Cards : L1!Restorable(c)}
  OBVIOUS
<1>1. flight["end"].open /\ read \in L1!Record
  BY <1>p, RunsAre DEF L1!EndWrite, StateInv, L1!SuspensionsAreRecorded, L1!TypeOK
<1>2. /\ S \subseteq L1!Kept(read) /\ \A c \in S : state[c] = "suspended"
      /\ \A c \in L1!Kept(read) : state[c] = "suspended" => c \in S
  BY <1>p, <1>q DEF L1!Restorable, L1!Kept
<1>3. state' = [c \in Cards |-> IF c \in S THEN read[c] ELSE state[c]]
  BY <1>p, <1>q DEF L1!EndWrite
<1>4. \A c \in Cards : /\ c \in L1!Kept(read) => read[c] = sprint.snapshot[c]
                       /\ state[c] = "suspended" /\ cause[c] = "sprint" => c \in L1!Kept(read)
  BY <1>1, <1>p DEF StateInv, EndReadsAll
<1>5. /\ state' \in [Cards -> L1!States]
      /\ \A c \in Cards : state'[c] = "suspended" => c \notin S /\ state[c] = "suspended"
  BY <1>1, <1>2, <1>3, GivingBack
<1>6. \A c \in Cards : state'[c] # state[c] => c \in S /\ state'[c] = read[c]
  BY <1>3
<1>7. \A c \in Cards : state'[c] # state[c] => state[c] = "suspended" /\ state'[c] = sprint.snapshot[c]
  BY <1>2, <1>4, <1>6
<1>8. \A c \in Cards : state'[c] = "suspended" => state[c] = "suspended" /\ cause[c] # "sprint"
  BY <1>2, <1>4, <1>5
<1> QED
  BY <1>5, <1>7, <1>8

(* Who is suspended by a sprint is given back.                             *)
LEMMA EndWritePreserves ==
  ASSUME StateInv, L1!EndWrite
  PROVE  StateInv'
<1>1. /\ flight["end"].open /\ flight' = [flight EXCEPT !["end"] = L1!Closed]
      /\ sprint' = L1!NoSprint /\ UNCHANGED <<prior, batch, cause>>
  BY DEF L1!EndWrite, L1!Close
<1>2. flight' \in [L1!Runs -> Flight] /\ flight \in [L1!Runs -> Flight] /\ flight'["end"] = L1!Closed
  BY <1>1, RunsAre DEF StateInv, L1!SuspensionsAreRecorded, L1!TypeOK, Flight
<1>3. L1!NoSprint \in [active : BOOLEAN, snapshot : L1!Record] /\ ~L1!NoSprint.active
  BY EmptyIsRecord DEF L1!NoSprint
<1>4. L1!TypeOK'
  BY <1>1, <1>2, <1>3, EndWriteIs DEF StateInv, L1!SuspensionsAreRecorded, L1!TypeOK, Flight
<1>5. RunsOnce' /\ EndReadsAll'
  BY <1>1, <1>2, <1>3, RunsAre DEF StateInv, RunsOnce, EndReadsAll, L1!Empty
<1>6. ASSUME NEW c \in Cards PROVE Recorded(c)'
  BY <1>1, EndWriteIs DEF StateInv, L1!SuspensionsAreRecorded, Recorded, L1!Kept
<1> QED
  BY <1>4, <1>5, <1>6 DEF StateInv, L1!SuspensionsAreRecorded, Recorded

(* A bulk statement writes: who is hit is suspended by it.                 *)
LEMMA Suspending ==
  ASSUME StateInv, NEW who \in Batches \cup {"sprint"}, L1!SuspendHits(who)
  PROVE  /\ state' \in [Cards -> L1!States] /\ cause' \in [Cards -> Batches \cup {"none", "user", "sprint"}]
         /\ flight[who].open /\ flight[who] \in Flight
         /\ flight' \in [L1!Runs -> Flight] /\ ~flight'[who].open
         /\ \A d \in L1!Runs \ {who} : flight'[d] = flight[d]
         /\ L1!Hit(who) \subseteq L1!Kept(flight[who].read)
         /\ \A c \in Cards : IF c \in L1!Hit(who) THEN cause'[c] = who
                             ELSE cause'[c] = cause[c] /\ state'[c] = state[c]
<1>1. flight \in [L1!Runs -> Flight] /\ who \in L1!Runs /\ flight' = [flight EXCEPT ![who] = L1!Closed]
  BY RunsAre DEF StateInv, L1!SuspensionsAreRecorded, L1!TypeOK, Flight, L1!SuspendHits, L1!Close
<1>2. /\ flight[who] \in Flight /\ flight' \in [L1!Runs -> Flight] /\ ~flight'[who].open
      /\ \A d \in L1!Runs \ {who} : flight'[d] = flight[d]
  BY <1>1, RunsAre
<1>3. /\ state' \in [Cards -> L1!States] /\ cause' \in [Cards -> Batches \cup {"none", "user", "sprint"}]
      /\ \A c \in Cards : IF c \in L1!Hit(who) THEN cause'[c] = who
                          ELSE cause'[c] = cause[c] /\ state'[c] = state[c]
  BY DEF L1!SuspendHits, StateInv, L1!SuspensionsAreRecorded, L1!TypeOK, L1!States
<1> QED
  BY <1>2, <1>3 DEF L1!SuspendHits, L1!Hit

(* A batch keeps whom it suspends; it was empty, so nobody was suspended by *)
(* it before.                                                               *)
LEMMA ForgetWritePreserves ==
  ASSUME StateInv, NEW b \in Batches, L1!ForgetWrite(b)
  PROVE  StateInv'
<1>1. L1!SuspendHits(b) /\ batch' = [batch EXCEPT ![b] = flight[b].read] /\ UNCHANGED <<prior, sprint>>
  BY DEF L1!ForgetWrite
<1>2. L1!TypeOK'
  BY <1>1, Suspending DEF StateInv, L1!SuspensionsAreRecorded, L1!TypeOK, Flight
<1>4. batch[b] = L1!Empty /\ \A d \in Batches \ {b} : batch'[d] = batch[d]
  BY <1>1, Suspending DEF StateInv, L1!SuspensionsAreRecorded, L1!TypeOK, RunsOnce
<1>5. batch'[b] = flight[b].read
  BY <1>1 DEF StateInv, L1!SuspensionsAreRecorded, L1!TypeOK
<1>7. flight'["end"] = flight["end"] /\ flight'["sprint"] = flight["sprint"]
  BY <1>1, Suspending, RunsAre
<1>3. RunsOnce'
  <2>1. ASSUME NEW d \in Batches, flight'[d].open PROVE batch'[d] = L1!Empty
    BY <1>1, <1>4, <2>1, Suspending, RunsAre DEF StateInv, RunsOnce
  <2> QED
    BY <1>1, <1>7, <2>1 DEF StateInv, RunsOnce, L1!Empty
<1>8. EndReadsAll'
  <2>1. \A c \in Cards : state'[c] = "suspended" /\ cause'[c] = "sprint" => state[c] = "suspended" /\ cause[c] = "sprint"
    BY <1>1, Suspending, RunsAre
  <2> QED
    BY <1>1, <1>7, <2>1 DEF StateInv, EndReadsAll, L1!Kept
<1>6. ASSUME NEW c \in Cards PROVE Recorded(c)'
  <2>1. CASE c \in L1!Hit(b)
    <3>1. cause'[c] = b /\ c \in L1!Kept(flight[b].read) /\ b # "sprint"
      BY <1>1, <2>1, Suspending, CardStateAssumption
    <3> QED
      BY <1>5, <3>1 DEF Recorded, L1!Kept
  <2>2. CASE c \notin L1!Hit(b)
    <3>1. cause'[c] = cause[c] /\ state'[c] = state[c]
      BY <1>1, <2>2, Suspending
    <3>2. state[c] = "suspended" => cause[c] # b
      BY <1>4, EmptyIsRecord DEF StateInv, L1!SuspensionsAreRecorded
    <3> QED
      BY <1>1, <1>4, <3>1, <3>2 DEF StateInv, L1!SuspensionsAreRecorded, Recorded, L1!Kept
  <2> QED
    BY <2>1, <2>2
<1> QED
  BY <1>2, <1>3, <1>6, <1>8 DEF StateInv, L1!SuspensionsAreRecorded, Recorded

(* A sprint keeps whom it suspends.                                         *)
LEMMA SprintWritePreserves ==
  ASSUME StateInv, L1!SprintWrite
  PROVE  StateInv'
<1>1. /\ L1!SuspendHits("sprint") /\ UNCHANGED <<prior, batch>>
      /\ sprint' = [active |-> TRUE, snapshot |-> L1!Snapshot]
  BY DEF L1!SprintWrite
<1>2. L1!Snapshot \in L1!Record /\ \A c \in L1!Hit("sprint") : c \in L1!Kept(L1!Snapshot)
  <2>1. flight["sprint"].read \in L1!Record
    BY RunsAre DEF StateInv, L1!SuspensionsAreRecorded, L1!TypeOK
  <2> QED
    BY <2>1 DEF L1!Snapshot, L1!Record, L1!Kept, L1!Hit
<1>3. L1!TypeOK'
  BY <1>1, <1>2, Suspending DEF StateInv, L1!SuspensionsAreRecorded, L1!TypeOK, Flight
<1>6. ~flight["end"].open
  BY <1>1, Suspending DEF StateInv, RunsOnce
<1>7. /\ flight'["end"] = flight["end"] /\ ~flight'["sprint"].open
      /\ \A d \in Batches : flight'[d] = flight[d]
  BY <1>1, Suspending, RunsAre
<1>4. RunsOnce' /\ EndReadsAll'
  BY <1>1, <1>6, <1>7 DEF StateInv, RunsOnce, EndReadsAll, L1!Empty
<1>5. ASSUME NEW c \in Cards PROVE Recorded(c)'
  <2>1. CASE c \in L1!Hit("sprint")
    <3>1. cause'[c] = "sprint"
      BY <1>1, <2>1, Suspending
    <3> QED
      BY <1>1, <1>2, <2>1, <3>1, CardStateAssumption DEF Recorded, L1!Kept
  <2>2. CASE c \notin L1!Hit("sprint")
    <3>1. cause'[c] = cause[c] /\ state'[c] = state[c]
      BY <1>1, <2>2, Suspending
    <3>2. ~sprint.active
      BY <1>1, Suspending DEF StateInv, RunsOnce
    <3> QED
      BY <1>1, <3>1, <3>2 DEF StateInv, L1!SuspensionsAreRecorded, Recorded, L1!Kept
  <2> QED
    BY <2>1, <2>2
<1> QED
  BY <1>3, <1>4, <1>5 DEF StateInv, L1!SuspensionsAreRecorded, Recorded

(* A bulk statement that fails leaves nothing.                              *)
LEMMA BulkFailsPreserves ==
  ASSUME StateInv, NEW who \in L1!Runs, L1!BulkFails(who)
  PROVE  StateInv'
<1>1. flight' = [flight EXCEPT ![who] = L1!Closed] /\ UNCHANGED <<state, prior, batch, sprint, cause>>
  BY DEF L1!BulkFails, L1!Close
<1>2. /\ flight \in [L1!Runs -> Flight] /\ flight' \in [L1!Runs -> Flight]
      /\ \A d \in L1!Runs : flight'[d].open => flight'[d] = flight[d]
  BY <1>1, RunsAre DEF StateInv, L1!SuspensionsAreRecorded, L1!TypeOK, Flight
<1>3. L1!TypeOK'
  BY <1>1, <1>2 DEF StateInv, L1!SuspensionsAreRecorded, L1!TypeOK, Flight
<1>4. RunsOnce' /\ EndReadsAll'
  BY <1>1, <1>2, RunsAre DEF StateInv, RunsOnce, EndReadsAll, L1!Empty, L1!Kept
<1>5. \A c \in Cards : Recorded(c)'
  BY <1>1 DEF StateInv, L1!SuspensionsAreRecorded, Recorded, L1!Kept
<1> QED
  BY <1>3, <1>4, <1>5 DEF StateInv, L1!SuspensionsAreRecorded, Recorded

(* Forgetting reads the cards it may suspend.                               *)
LEMMA ForgetReadPreserves ==
  ASSUME StateInv, NEW b \in Batches, L1!ForgetRead(b)
  PROVE  StateInv'
<1>1. PICK anchors \in SUBSET Cards : L1!Read(b, {c \in Cards \ anchors : L1!Forgettable(c)})
  BY DEF L1!ForgetRead
<1>2. \A c \in {d \in Cards \ anchors : L1!Forgettable(d)} : state[c] \in L1!Learning
  BY DEF L1!Forgettable, StateInv, L1!SuspensionsAreRecorded, L1!TypeOK, L1!States, L1!Learning
<1> QED
  BY <1>1, <1>2, ReadPreserves, RunsAre DEF L1!ForgetRead

(* And so does a sprint.                                                    *)
LEMMA SprintReadPreserves ==
  ASSUME StateInv, L1!SprintRead
  PROVE  StateInv'
<1>1. PICK words \in SUBSET Cards : L1!Read("sprint", {c \in words : L1!Sprintable(c)})
  BY DEF L1!SprintRead
<1>2. \A c \in {d \in words : L1!Sprintable(d)} : state[c] \in L1!Learning
  BY DEF L1!Sprintable
<1> QED
  BY <1>1, <1>2, ReadPreserves, RunsAre DEF L1!SprintRead

(* Every step preserves the invariant.                                      *)
LEMMA StateNext == StateInv /\ [L1!Next]_L1!vars => StateInv'
<1> SUFFICES ASSUME StateInv, [L1!Next]_L1!vars PROVE StateInv'
  OBVIOUS
<1>1. CASE UNCHANGED L1!vars
  BY <1>1 DEF L1!vars, StateInv, L1!SuspensionsAreRecorded, L1!TypeOK, RunsOnce, EndReadsAll, L1!Empty, L1!Kept
<1>2. ASSUME NEW c \in Cards, L1!Enqueue(c) \/ L1!Answer(c) \/ L1!Undo(c) \/ L1!Suspend(c) \/ L1!RemoveCard(c) PROVE StateInv'
  BY <1>2, CardPreserves
<1>3. ASSUME NEW b \in Batches, L1!ForgetRead(b) \/ L1!ForgetWrite(b) \/ L1!Restore(b) PROVE StateInv'
  BY <1>3, ForgetReadPreserves, ForgetWritePreserves, RestorePreserves
<1>4. CASE L1!SprintRead \/ L1!SprintWrite \/ L1!EndRead \/ L1!EndWrite
  BY <1>4, SprintReadPreserves, SprintWritePreserves, EndReadPreserves, EndWritePreserves
<1>5. ASSUME NEW who \in L1!Runs, L1!BulkFails(who) PROVE StateInv'
  BY <1>5, BulkFailsPreserves
<1> QED
  BY <1>1, <1>2, <1>3, <1>4, <1>5 DEF L1!Next

(* And in every behaviour.                                                  *)
LEMMA StateInvariant == L1!Spec => []StateInv
  BY StateInit, StateNext, PTL DEF L1!Spec

(* A card that forgetting or a sprint suspended can be given back, for any *)
(* cards, batches and states of scheduling, though the bulk statements of  *)
(* several batches and of a plan overlap, and overwrite what others        *)
(* committed after they had read (review.repository.ts:1096-1303).         *)
THEOREM GivenBack == L1!Spec => []SuspensionsAreRecorded
<1>1. StateInv => SuspensionsAreRecorded
  BY DEF StateInv, SuspensionsAreRecorded
<1> QED
  BY <1>1, StateInvariant, PTL

(* What the end of a sprint writes is what the plan kept, on cards that    *)
(* are suspended when it writes, for any cards, batches and states of      *)
(* scheduling: work that overtakes it stays (restoreSuspendSnapshot).      *)
THEOREM WorkKept == L1!Spec => GivingBackKeepsWork
<1>1. ASSUME StateInv, L1!Next, sprint.active, ~sprint'.active PROVE L1!EndWrite
  <2>1. CASE UNCHANGED sprint
    BY <1>1, <2>1
  <2>2. CASE L1!SprintWrite
    BY <1>1, <2>2 DEF L1!SprintWrite
  <2>3. \/ UNCHANGED sprint \/ L1!SprintWrite \/ L1!EndWrite
    <3>1. ASSUME NEW c \in Cards, L1!Enqueue(c) \/ L1!Answer(c) \/ L1!Undo(c) \/ L1!Suspend(c) \/ L1!RemoveCard(c)
          PROVE  UNCHANGED sprint
      BY <3>1 DEF L1!Enqueue, L1!Answer, L1!Undo, L1!Suspend, L1!RemoveCard
    <3>2. ASSUME NEW b \in Batches, L1!ForgetRead(b) \/ L1!ForgetWrite(b) \/ L1!Restore(b) PROVE UNCHANGED sprint
      BY <3>2 DEF L1!ForgetRead, L1!ForgetWrite, L1!Restore, L1!Read
    <3>3. ASSUME L1!SprintRead \/ L1!EndRead \/ \E who \in L1!Runs : L1!BulkFails(who) PROVE UNCHANGED sprint
      BY <3>3 DEF L1!SprintRead, L1!EndRead, L1!BulkFails, L1!Read
    <3> QED
      BY <1>1, <3>1, <3>2, <3>3 DEF L1!Next
  <2> QED
    BY <2>1, <2>2, <2>3
<1>2. StateInv /\ [L1!Next]_L1!vars =>
        [sprint.active /\ ~sprint'.active =>
           \A c \in Cards : state'[c] # state[c] =>
             /\ state[c] = "suspended"
             /\ state'[c] = sprint.snapshot[c]]_L1!vars
  BY <1>1, EndWriteIs
<1> QED
  BY <1>2, StateInvariant, PTL DEF L1!Spec, GivingBackKeepsWork, L1!GivingBackKeepsWork

-----------------------------------------------------------------------------
(* What the tracks do to each other                                         *)

Reply == [rating : Cross!Ratings, flag : BOOLEAN]
Work == [busy : BOOLEAN, read : Seq(Cross!Ratings), promoted : BOOLEAN]

(* Who holds the L1 row has read the ratings it has.                        *)
ReadsAreCurrent == \A w \in Workers : worker[w].busy => worker[w].read = Cross!RatingsOf(answers)

TrackInv == Cross!TypeOK /\ ReadsAreCurrent /\ Cross!CascadeConverges /\ Cross!FailuresRaiseFlag

(* The ratings of the answers are ratings.                                  *)
LEMMA RatingsAre ==
  ASSUME NEW s \in Seq(Reply)
  PROVE  Cross!RatingsOf(s) \in Seq(Cross!Ratings)
<1>1. \A i \in 1 .. Len(s) : s[i].rating \in Cross!Ratings
  <2>1. \A i \in 1 .. Len(s) : s[i] \in Reply
    BY ElementOfSeq
  <2> QED
    BY <2>1 DEF Reply
<1>2. DOMAIN s = 1 .. Len(s) /\ Len(s) \in Nat
  OBVIOUS
<1>3. Cross!RatingsOf(s) \in [1 .. Len(s) -> Cross!Ratings]
  BY <1>1, <1>2 DEF Cross!RatingsOf
<1> QED
  BY <1>2, <1>3, SeqDef

(* The step of a worker: what it does to the pause is what the ratings say. *)
LEMMA ApplyIs ==
  ASSUME TrackInv, NEW w \in Workers, Cross!Apply(w)
  PROVE  /\ pause' \in {"none", "live", "l1_cascade_failure", "manual"}
         /\ pause' # "none" => /\ Cross!Collapsed(Cross!RatingsOf(answers)) => pause' = "l1_cascade_failure"
                               /\ Cross!Recovered(Cross!RatingsOf(answers)) => pause' # "l1_cascade_failure"
         /\ pause # "l1_cascade_failure" /\ pause' = "l1_cascade_failure" => Cross!Collapsed(Cross!RatingsOf(answers))
         /\ pause = "l1_cascade_failure" /\ pause' = "live" => Cross!Recovered(Cross!RatingsOf(answers))
<1> DEFINE read == Cross!RatingsOf(answers)
<1>1. worker[w].read = read /\ read \in Seq(Cross!Ratings)
  BY RatingsAre DEF Cross!Apply, TrackInv, ReadsAreCurrent, Cross!TypeOK, Reply
<1>2. PICK p \in Cross!Promoted(w) : (p # pause => pause = "none") /\ pause' = Cross!Cascaded(read, p)
  BY <1>1 DEF Cross!Apply
<1>3. p \in {pause, "live"} /\ pause \in {"none", "live", "l1_cascade_failure", "manual"}
  BY <1>2 DEF Cross!Promoted, TrackInv, Cross!TypeOK
<1>4. ~(Cross!Collapsed(read) /\ Cross!Recovered(read))
  BY <1>1 DEF Cross!Collapsed, Cross!Recovered, Cross!LastAre, Cross!Window
<1> HIDE DEF read
<1>5. /\ pause' \in {"none", "live", "l1_cascade_failure", "manual"}
      /\ pause' # "none" => /\ Cross!Collapsed(read) => pause' = "l1_cascade_failure"
                            /\ Cross!Recovered(read) => pause' # "l1_cascade_failure"
      /\ pause # "l1_cascade_failure" /\ pause' = "l1_cascade_failure" => Cross!Collapsed(read)
      /\ pause = "l1_cascade_failure" /\ pause' = "live" => Cross!Recovered(read)
  BY <1>2, <1>3, <1>4 DEF Cross!Cascaded
<1> QED
  BY <1>5 DEF read

(* Every step keeps the types.                                              *)
LEMMA TrackTypesNext == TrackInv /\ [Cross!Next]_Cross!vars => Cross!TypeOK'
<1> SUFFICES ASSUME TrackInv, [Cross!Next]_Cross!vars PROVE Cross!TypeOK'
  OBVIOUS
<1> USE CrossTrackAssumption DEF Cross!Tracks, Cross!Enqueued, Cross!Consumed
<1>0. /\ Cross!TypeOK /\ answers \in Seq(Reply)
      /\ <<>> \in Seq(Reply) /\ <<>> \in Seq([rating : Cross!Ratings, flag : BOOLEAN])
  BY EmptySeq DEF TrackInv, Cross!TypeOK, Reply
<1>f. Cross!Free \in [busy : BOOLEAN, read : Seq(Cross!Ratings), promoted : BOOLEAN]
  BY EmptySeq DEF Cross!Free
<1>1. CASE Cross!Answer
  <2>1. PICK r \in Cross!Ratings : answers' = Append(answers, [rating |-> r, flag |-> flag])
    BY <1>1 DEF Cross!Answer
  <2>2. answers' \in Seq(Reply)
    BY <1>0, <2>1 DEF Cross!TypeOK, Reply
  <2> QED
    BY <1>0, <1>1, <2>2 DEF Cross!Answer, Cross!TypeOK, Reply
<1>2. CASE Cross!Undo
  <2>1. Cross!Front(answers) \in Seq(Reply) /\ Cross!Last(answers) \in Reply
    BY <1>0, <1>2, EmptySeq, SubSeqProperties DEF Cross!Undo, Cross!Front, Cross!Last
  <2> QED
    BY <1>0, <1>2, <2>1 DEF Cross!Undo, Cross!TypeOK, Reply
<1>3. CASE Cross!RemoveCard
  <2>1. events' \in [Cross!Tracks -> Nat]
    BY <1>0, <1>3 DEF Cross!RemoveCard, Cross!TypeOK
  <2>2. settled' \in [Cross!Tracks -> BOOLEAN]
    BY <1>3 DEF Cross!RemoveCard
  <2>3. answers' \in Seq([rating : Cross!Ratings, flag : BOOLEAN])
    BY <1>0, <1>3 DEF Cross!RemoveCard
  <2>4. UNCHANGED <<pause, failures, worker, promoting>> /\ card' = "gone" /\ flag' = FALSE
    BY <1>3 DEF Cross!RemoveCard
  <2> QED
    BY <1>0, <2>1, <2>2, <2>3, <2>4 DEF Cross!TypeOK
<1>4. CASE Cross!DrillAnswer \/ Cross!DrillUndo \/ Cross!GiveUpDrill
  <2>1. failures' \in 0 .. Cross!WeakWindow
    BY <1>0, <1>4 DEF Cross!DrillAnswer, Cross!DrillUndo, Cross!GiveUpDrill, Cross!TypeOK, Cross!Drilled, Cross!WeakWindow
  <2>2. events' \in [Cross!Tracks -> Nat]
    BY <1>0, <1>4 DEF Cross!DrillAnswer, Cross!DrillUndo, Cross!GiveUpDrill, Cross!TypeOK
  <2>3. settled' \in [Cross!Tracks -> BOOLEAN]
    BY <1>0, <1>4 DEF Cross!DrillAnswer, Cross!DrillUndo, Cross!GiveUpDrill, Cross!TypeOK
  <2> QED
    BY <1>0, <1>4, <2>1, <2>2, <2>3 DEF Cross!DrillAnswer, Cross!DrillUndo, Cross!GiveUpDrill, Cross!TypeOK
<1>5. CASE Cross!Suspend \/ Cross!EnqueueCard \/ Cross!ClearWeakSignal \/ Cross!ForgetBook \/ Cross!RestoreBook \/ Cross!PromoteRead \/ Cross!PromoteWrite
  BY <1>0, <1>5 DEF Cross!Suspend, Cross!EnqueueCard, Cross!ClearWeakSignal, Cross!ForgetBook, Cross!RestoreBook, Cross!PromoteRead, Cross!PromoteWrite, Cross!TypeOK
<1>6. ASSUME NEW w \in Workers, Cross!Take(w) PROVE Cross!TypeOK'
  <2>1. Cross!RatingsOf(answers) \in Seq(Cross!Ratings)
    BY <1>0, RatingsAre
  <2> DEFINE new == [busy |-> TRUE, read |-> Cross!RatingsOf(answers), promoted |-> pause # "none"]
  <2>2. new \in [busy : BOOLEAN, read : Seq(Cross!Ratings), promoted : BOOLEAN]
    BY <2>1
  <2>3. worker' = [worker EXCEPT ![w] = new]
    BY <1>6 DEF Cross!Take
  <2> HIDE DEF new
  <2> QED
    BY <1>0, <1>6, <2>2, <2>3 DEF Cross!Take, Cross!TypeOK
<1>7. ASSUME NEW w \in Workers, Cross!Apply(w) PROVE Cross!TypeOK'
  <2>1. UNCHANGED <<card, answers, flag, failures, events, promoting, settled>> /\ worker' = [worker EXCEPT ![w] = Cross!Free]
    BY <1>7 DEF Cross!Apply
  <2>2. pause' \in {"none", "live", "l1_cascade_failure", "manual"}
    BY <1>7, ApplyIs
  <2>3. worker' \in [Workers -> [busy : BOOLEAN, read : Seq(Cross!Ratings), promoted : BOOLEAN]]
    BY <1>0, <1>f, <2>1 DEF Cross!TypeOK
  <2> QED
    BY <1>0, <2>1, <2>2, <2>3 DEF Cross!TypeOK
<1>8. ASSUME NEW w \in Workers, Cross!Fail(w) PROVE Cross!TypeOK'
  <2>1. events' \in [Cross!Tracks -> Nat]
    <3>1. CASE UNCHANGED events
      BY <1>0, <3>1 DEF Cross!TypeOK
    <3>2. CASE events' = [events EXCEPT !["l1"] = @ + 1]
      BY <1>0, <3>2 DEF Cross!TypeOK
    <3> QED
      BY <1>8, <3>1, <3>2 DEF Cross!Fail
  <2>3. settled' \in [Cross!Tracks -> BOOLEAN]
    BY <1>0, <1>8 DEF Cross!Fail, Cross!TypeOK
  <2>2. worker' \in [Workers -> [busy : BOOLEAN, read : Seq(Cross!Ratings), promoted : BOOLEAN]]
    BY <1>0, <1>f, <1>8 DEF Cross!Fail, Cross!TypeOK
  <2> QED
    BY <1>0, <1>8, <2>1, <2>2, <2>3 DEF Cross!Fail, Cross!TypeOK
<1>9. ASSUME NEW w \in Workers, Cross!ApplyDrill(w) PROVE Cross!TypeOK'
  BY <1>0, <1>9 DEF Cross!ApplyDrill, Cross!TypeOK, Cross!RaisesFlag, Cross!WeakWindow
<1>10. CASE UNCHANGED Cross!vars
  BY <1>0, <1>10 DEF Cross!vars, Cross!TypeOK
<1> QED
  BY <1>1, <1>2, <1>3, <1>4, <1>5, <1>6, <1>7, <1>8, <1>9, <1>10 DEF Cross!Next

(* Every step keeps what a worker read current, and the pauses with it.     *)
LEMMA TracksNext == TrackInv /\ [Cross!Next]_Cross!vars => ReadsAreCurrent' /\ Cross!CascadeConverges' /\ Cross!FailuresRaiseFlag'
<1> SUFFICES ASSUME TrackInv, [Cross!Next]_Cross!vars PROVE ReadsAreCurrent' /\ Cross!CascadeConverges' /\ Cross!FailuresRaiseFlag'
  OBVIOUS
<1> USE CrossTrackAssumption DEF Cross!Tracks, Cross!Enqueued, Cross!Consumed, TrackInv, Cross!TypeOK
<1> USE DEF ReadsAreCurrent, Cross!CascadeConverges, Cross!FailuresRaiseFlag, Cross!Drained
<1>1. CASE Cross!Answer
  BY <1>1 DEF Cross!Answer, Cross!RowFree
<1>2. CASE Cross!Undo
  BY <1>2 DEF Cross!Undo, Cross!RowFree
<1>3. CASE Cross!RemoveCard
  BY <1>3 DEF Cross!RemoveCard, Cross!RowFree
<1>4. CASE Cross!DrillAnswer \/ Cross!DrillUndo \/ Cross!GiveUpDrill
  BY <1>4 DEF Cross!DrillAnswer, Cross!DrillUndo, Cross!GiveUpDrill
<1>5. CASE Cross!Suspend \/ Cross!EnqueueCard \/ Cross!ClearWeakSignal \/ Cross!ForgetBook \/ Cross!RestoreBook \/ Cross!PromoteRead \/ Cross!PromoteWrite
  BY <1>5 DEF Cross!Suspend, Cross!EnqueueCard, Cross!ClearWeakSignal, Cross!ForgetBook, Cross!RestoreBook, Cross!PromoteRead, Cross!PromoteWrite
<1>6. ASSUME NEW w \in Workers, Cross!Take(w) PROVE ReadsAreCurrent' /\ Cross!CascadeConverges' /\ Cross!FailuresRaiseFlag'
  BY <1>6 DEF Cross!Take
<1>7. ASSUME NEW w \in Workers, Cross!Apply(w) PROVE ReadsAreCurrent' /\ Cross!CascadeConverges' /\ Cross!FailuresRaiseFlag'
  <2>1. UNCHANGED <<card, answers, flag, failures, events, promoting, settled>> /\ worker' = [worker EXCEPT ![w] = Cross!Free]
    BY <1>7 DEF Cross!Apply
  <2>2. ReadsAreCurrent' /\ Cross!FailuresRaiseFlag'
    BY <2>1 DEF Cross!Free
  <2> QED
    BY <1>7, <2>1, <2>2, ApplyIs
<1>8. ASSUME NEW w \in Workers, Cross!Fail(w) PROVE ReadsAreCurrent' /\ Cross!CascadeConverges' /\ Cross!FailuresRaiseFlag'
  BY <1>8 DEF Cross!Fail, Cross!Free
<1>9. ASSUME NEW w \in Workers, Cross!ApplyDrill(w) PROVE ReadsAreCurrent' /\ Cross!CascadeConverges' /\ Cross!FailuresRaiseFlag'
  BY <1>9 DEF Cross!ApplyDrill, Cross!RaisesFlag
<1>10. CASE UNCHANGED Cross!vars
  BY <1>10 DEF Cross!vars
<1> QED
  BY <1>1, <1>2, <1>3, <1>4, <1>5, <1>6, <1>7, <1>8, <1>9, <1>10 DEF Cross!Next

(* The invariant of the tracks holds at the start.                          *)
LEMMA TrackInit == Cross!Init => TrackInv
<1> SUFFICES ASSUME Cross!Init PROVE TrackInv
  OBVIOUS
<1>1. Cross!Free \in [busy : BOOLEAN, read : Seq(Cross!Ratings), promoted : BOOLEAN] /\ ~Cross!Free.busy
  BY EmptySeq DEF Cross!Free
<1>2. <<>> \in Seq([rating : Cross!Ratings, flag : BOOLEAN])
  BY EmptySeq
<1>3. Cross!TypeOK
  <2>1. events \in [Cross!Tracks -> Nat] /\ settled \in [Cross!Tracks -> BOOLEAN]
    BY CrossTrackAssumption DEF Cross!Init, Cross!Tracks
  <2>2. worker \in [Workers -> [busy : BOOLEAN, read : Seq(Cross!Ratings), promoted : BOOLEAN]]
    BY <1>1 DEF Cross!Init
  <2> QED
    BY <1>2, <2>1, <2>2, 0 \in 0 .. 3 DEF Cross!Init, Cross!TypeOK, Cross!WeakWindow
<1>4. ReadsAreCurrent /\ Cross!CascadeConverges /\ Cross!FailuresRaiseFlag
  BY <1>1 DEF Cross!Init, ReadsAreCurrent, Cross!CascadeConverges, Cross!FailuresRaiseFlag, Cross!Drained, Cross!Tracks
<1> QED
  BY <1>3, <1>4 DEF TrackInv

(* And in every behaviour.                                                  *)
THEOREM TrackInvariant == Cross!Spec => []TrackInv
<1>1. TrackInv /\ [Cross!Next]_Cross!vars => TrackInv'
  BY TrackTypesNext, TracksNext DEF TrackInv
<1> QED
  BY TrackInit, <1>1, PTL DEF Cross!Spec

(* For any workers, answers and events: once the events are worked off the   *)
(* L2 row is as the latest ratings of L1 want it, and a card whose drilling  *)
(* keeps failing is flagged (checkL1Cascade, checkL2FailureCascade).        *)
THEOREM Converges == Cross!Spec => []TracksConverge
<1>1. TrackInv => TracksConverge
  BY DEF TrackInv, TracksConverge, Cross!TracksConverge
<1> QED
  BY <1>1, TrackInvariant, PTL

(* For any workers and events the L2 row is paused or resumed only on the    *)
(* ratings L1 has at that moment (findProgressForOutbox).                   *)
THEOREM PausesCurrent == Cross!Spec => PausesFollowCurrentRatings
<1>1. TrackInv /\ [Cross!Next]_Cross!vars =>
        [/\ (pause # "l1_cascade_failure" /\ pause' = "l1_cascade_failure") => Cross!Collapsed(Cross!RatingsOf(answers))
         /\ (pause = "l1_cascade_failure" /\ pause' = "live") => Cross!Recovered(Cross!RatingsOf(answers))]_Cross!vars
  <2> SUFFICES ASSUME TrackInv, Cross!Next
               PROVE  /\ (pause # "l1_cascade_failure" /\ pause' = "l1_cascade_failure") => Cross!Collapsed(Cross!RatingsOf(answers))
                      /\ (pause = "l1_cascade_failure" /\ pause' = "live") => Cross!Recovered(Cross!RatingsOf(answers))
    OBVIOUS
  <2>1. \/ \E w \in Workers : Cross!Apply(w)
        \/ pause' \in {pause, "none", "manual"}
        \/ pause \in {"none", "manual"} /\ pause' = "live"
    <3>1. CASE Cross!Answer \/ Cross!Undo \/ Cross!Suspend \/ Cross!RemoveCard \/ Cross!EnqueueCard \/ Cross!ClearWeakSignal
      BY <3>1 DEF Cross!Answer, Cross!Undo, Cross!RemoveCard, Cross!Suspend, Cross!EnqueueCard, Cross!ClearWeakSignal
    <3>2. CASE Cross!ForgetBook \/ Cross!RestoreBook \/ Cross!PromoteRead \/ Cross!PromoteWrite
      BY <3>2 DEF Cross!ForgetBook, Cross!RestoreBook, Cross!PromoteRead, Cross!PromoteWrite
    <3>3. CASE Cross!DrillAnswer \/ Cross!DrillUndo \/ Cross!GiveUpDrill
      BY <3>3 DEF Cross!DrillAnswer, Cross!DrillUndo, Cross!GiveUpDrill
    <3>4. ASSUME NEW w \in Workers, Cross!Take(w) \/ Cross!Fail(w) \/ Cross!ApplyDrill(w) PROVE pause' = pause
      BY <3>4 DEF Cross!Take, Cross!Fail, Cross!ApplyDrill
    <3> QED
      BY <3>1, <3>2, <3>3, <3>4 DEF Cross!Next
  <2> QED
    BY <2>1, ApplyIs
<1> QED
  BY <1>1, TrackInvariant, PTL DEF Cross!Spec, PausesFollowCurrentRatings, Cross!PausesFollowCurrentRatings
=============================================================================
