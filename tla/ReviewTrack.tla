----------------------------- MODULE ReviewTrack -----------------------------
(***************************************************************************)
(* The L1 review track: cards (rows of user_word_progress), the review     *)
(* log, sessions, and the transactions of ReviewService on them: submit,   *)
(* skip, suspend and undo, with their idempotency keys.                    *)
(*                                                                         *)
(* Requests run concurrently (tabs, devices, retries of a request whose    *)
(* answer got lost).  Each is one READ COMMITTED transaction, split at its *)
(* locks: the advisory lock of its key, FOR UPDATE on the card, on the     *)
(* session, on the log row being undone.  What it reads under a lock it    *)
(* writes later, at its commit.  Submit locks the card before the session, *)
(* undo the session before the card: two requests can wait for each other, *)
(* and PostgreSQL then aborts one, as any transaction may abort.           *)
(*                                                                         *)
(* A log row's number is its place in logs.  The columns that scheduling   *)
(* writes in one statement (payload, due date, stability, counters,        *)
(* recent ratings) are one value here: learnt, the answers they were       *)
(* computed from; that the user may move a due date up to now is left out. *)
(* reviewed_at is taken to grow with the order of commits on a card, as it *)
(* does when the servers' clocks agree.                                    *)
(***************************************************************************)
EXTENDS Naturals, Sequences

CONSTANTS
  Cards,     \* progress rows; a word enqueued again gets another row
  Sessions,  \* review sessions of the wordbook
  Keys,      \* idempotency keys of clients
  NoKey,     \* the request carries no key
  Requests,  \* transactions that may be open at a time
  NoCard,
  MaxLogs    \* bound on the log

ASSUME ReviewAssumption ==
  /\ "none" \notin Sessions
  /\ NoKey \notin Keys
  /\ NoCard \notin Cards
  /\ MaxLogs \in Nat

VARIABLES
  row,     \* per card: its place in the queue, state and schedule
  logs,    \* review_logs, in the order they were committed
  open,    \* the sessions with ended_at IS NULL
  tx       \* per request: what it was asked, how far it is, what it read

vars == <<row, logs, open, tx>>

(* "active" stands for new, learning, review and relearning, which module  *)
(* CardState tells apart.                                                  *)
States == {"none", "active", "suspended", "gone"}
Ops == {"submit", "skip", "suspend", "undo"}
Kinds == {"answer", "skip", "suspend", "undo", "removed"}

Row == [state : States, learnt : SUBSET Nat]
Blank == [state |-> "none", learnt |-> {}]

Entry == [kind : Kinds, card : Cards, session : Sessions \cup {"none"},
          key : Keys \cup {NoKey}, prev : Row, undone : BOOLEAN]

Idle == [step |-> "idle", op |-> "none", card |-> NoCard, session |-> "none",
         key |-> NoKey, log |-> 0, seen |-> Blank]

Exists(c) == row[c].state \notin {"none", "gone"}

-----------------------------------------------------------------------------
(* Locks follow from how far each open transaction is. *)

Past(r, steps) == tx[r].step \in steps

HoldsKey(r, k) == ~Past(r, {"idle"}) /\ tx[r].key = k

HoldsCard_Never(r, c) == FALSE
HoldsCard(r, c) ==
  /\ tx[r].card = c
  /\ IF tx[r].op = "undo" THEN Past(r, {"ready"}) ELSE Past(r, {"carded", "ready"})

HoldsSession_Never(r, s) == FALSE
HoldsSession(r, s) ==
  /\ tx[r].session = s
  /\ Past(r, {"joined", "ready"})

HoldsLog(r, i) ==
  /\ tx[r].op = "undo" /\ tx[r].log = i
  /\ Past(r, {"logged", "joined", "ready"})

CardFree(c) == \A r \in Requests : ~HoldsCard(r, c)
SessionFree(s) == \A r \in Requests : ~HoldsSession(r, s)
LogFree(i) == \A r \in Requests : ~HoldsLog(r, i)

(* checkIdempotency: wait for the key's advisory lock, then look it up. *)
KeyFree_LookupOnly(k) == \A i \in DOMAIN logs : logs[i].key # k
KeyFree(k) ==
  k # NoKey => /\ \A r \in Requests : ~HoldsKey(r, k)
               /\ \A i \in DOMAIN logs : logs[i].key # k

-----------------------------------------------------------------------------

Init ==
  /\ row = [c \in Cards |-> Blank]
  /\ logs = <<>>
  /\ open = Sessions
  /\ tx = [r \in Requests |-> Idle]

Advance(r, step) == tx' = [tx EXCEPT ![r].step = step]
Done(r) == tx' = [tx EXCEPT ![r] = Idle]

(* BEGIN and the idempotency check.  A key that was used is answered from  *)
(* the log and changes nothing.  suspend may come without a session.       *)
Begin(r) ==
  /\ tx[r] = Idle
  /\ \E op \in Ops \ {"undo"}, c \in Cards, s \in Sessions \cup {"none"}, k \in Keys \cup {NoKey} :
       /\ s = "none" => op = "suspend"
       /\ KeyFree(k)
       /\ tx' = [tx EXCEPT ![r] = [Idle EXCEPT !.step = "begun", !.op = op, !.card = c,
                                               !.session = s, !.key = k]]
  /\ UNCHANGED <<row, logs, open>>

BeginUndo(r) ==
  /\ tx[r] = Idle
  /\ \E i \in DOMAIN logs, s \in Sessions, k \in Keys \cup {NoKey} :
       /\ KeyFree(k)
       /\ tx' = [tx EXCEPT ![r] = [Idle EXCEPT !.step = "begun", !.op = "undo", !.log = i,
                                     !.card = logs[i].card, !.session = s, !.key = k]]
  /\ UNCHANGED <<row, logs, open>>

(* findProgressForUpdate, findProgressForSkip, findProgressForSuspend; in  *)
(* undo_review_log the card comes last.                                    *)
LockCard(r) ==
  /\ tx[r].step = (IF tx[r].op = "undo" THEN "joined" ELSE "begun")
  /\ tx[r].op # "none"
  /\ CardFree(tx[r].card) /\ Exists(tx[r].card)
  /\ tx' = [tx EXCEPT ![r].seen = row[tx[r].card],
                      ![r].step = IF tx[r].op = "undo" \/ tx[r].session = "none"
                                    THEN "ready" ELSE "carded"]
  /\ UNCHANGED <<row, logs, open>>

(* findReviewLogWordbookForUndo *)
LockLog(r) ==
  /\ tx[r].step = "begun" /\ tx[r].op = "undo"
  /\ LogFree(tx[r].log)
  /\ Advance(r, "logged")
  /\ UNCHANGED <<row, logs, open>>

(* assertActiveOwned *)
LockSession(r) ==
  /\ tx[r].step = (IF tx[r].op = "undo" THEN "logged" ELSE "carded")
  /\ SessionFree(tx[r].session) /\ tx[r].session \in open
  /\ Advance(r, IF tx[r].op = "undo" THEN "joined" ELSE "ready")
  /\ UNCHANGED <<row, logs, open>>

-----------------------------------------------------------------------------
(* The writes of each operation and its COMMIT. *)

Log(r, kind, prev) ==
  [kind |-> kind, card |-> tx[r].card, session |-> tx[r].session, key |-> tx[r].key,
   prev |-> prev, undone |-> FALSE]

Ready(r, op) == tx[r].step = "ready" /\ tx[r].op = op /\ Len(logs) < MaxLogs

(* buildPreviousSnapshot copies what was read before the answer. *)
Snapshot_NoState(r) == [state |-> "null", learnt |-> tx[r].seen.learnt]
Snapshot(r) == tx[r].seen

SubmitAnswer(r) ==
  /\ Ready(r, "submit")
  /\ tx[r].seen.state # "suspended"
  /\ row' = [row EXCEPT ![tx[r].card] =
               [state |-> "active", learnt |-> tx[r].seen.learnt \cup {Len(logs) + 1}]]
  /\ logs' = Append(logs, Log(r, "answer", Snapshot(r)))
  /\ Done(r)
  /\ UNCHANGED open

(* skip_count is not modelled. *)
SkipCard(r) ==
  /\ Ready(r, "skip")
  /\ logs' = Append(logs, Log(r, "skip", Blank))
  /\ Done(r)
  /\ UNCHANGED <<row, open>>

SuspendCard(r) ==
  /\ Ready(r, "suspend")
  /\ row' = [row EXCEPT ![tx[r].card].state = "suspended"]
  /\ logs' = Append(logs, Log(r, "suspend", Blank))
  /\ Done(r)
  /\ UNCHANGED open

(* undo_review_log *)
IsAnswer(i, c) == logs[i].kind = "answer" /\ logs[i].card = c /\ ~logs[i].undone

IsLatest_AnyAnswer(i, c) == IsAnswer(i, c)
IsLatest(i, c) == \A j \in DOMAIN logs : IsAnswer(j, c) => j <= i

UndoReview(r) ==
  LET i == tx[r].log
      c == tx[r].card
      marked == [logs EXCEPT ![i].undone = TRUE]
  IN /\ Ready(r, "undo")
     /\ IsAnswer(i, c) /\ IsLatest(i, c)
     /\ logs[i].session = tx[r].session
     /\ row' = [row EXCEPT ![c] = logs[i].prev]
     /\ logs' = IF tx[r].key = NoKey THEN marked ELSE Append(marked, Log(r, "undo", Blank))
     /\ Done(r)
     /\ UNCHANGED open

(* Any other end: a check above fails, a lock cycle or a timeout is broken *)
(* by PostgreSQL, the server or the connection dies.  ROLLBACK.            *)
Abort(r) ==
  /\ tx[r] # Idle
  /\ Done(r)
  /\ UNCHANGED <<row, logs, open>>

-----------------------------------------------------------------------------
(* Writers that hold their locks for one statement. *)

EnqueueCard(c) ==
  /\ row[c].state = "none"
  /\ row' = [row EXCEPT ![c].state = "active"]
  /\ UNCHANGED <<logs, open, tx>>

RemoveCard(c) ==
  /\ Exists(c) /\ CardFree(c) /\ Len(logs) < MaxLogs
  /\ row' = [row EXCEPT ![c] = [state |-> "gone", learnt |-> {}]]
  /\ logs' = Append(logs, [kind |-> "removed", card |-> c, session |-> "none", key |-> NoKey,
                           prev |-> [state |-> row[c].state, learnt |-> {}], undone |-> FALSE])
  /\ UNCHANGED <<open, tx>>

(* Forgetting, its restore, sprint plans and content rechecks write the    *)
(* state column and no other column of the schedule (module CardState).    *)
SetState(c) ==
  /\ Exists(c) /\ CardFree(c)
  /\ \E state \in {"active", "suspended"} : row' = [row EXCEPT ![c].state = state]
  /\ UNCHANGED <<logs, open, tx>>

EndSession(s) ==
  /\ s \in open /\ SessionFree(s)
  /\ open' = open \ {s}
  /\ UNCHANGED <<row, logs, tx>>

-----------------------------------------------------------------------------

Step(r) ==
  \/ Begin(r) \/ BeginUndo(r) \/ LockCard(r) \/ LockLog(r) \/ LockSession(r)
  \/ SubmitAnswer(r) \/ SkipCard(r) \/ SuspendCard(r) \/ UndoReview(r) \/ Abort(r)

Next ==
  \/ \E r \in Requests : Step(r)
  \/ \E c \in Cards : EnqueueCard(c) \/ RemoveCard(c) \/ SetState(c)
  \/ \E s \in Sessions : EndSession(s)

Spec == Init /\ [][Next]_vars

-----------------------------------------------------------------------------

TypeOK ==
  /\ row \in [Cards -> Row]
  /\ logs \in Seq(Entry)
  /\ open \subseteq Sessions
  /\ tx \in [Requests -> [step : {"idle", "begun", "logged", "joined", "carded", "ready"},
                          op : Ops \cup {"none"}, card : Cards \cup {NoCard},
                          session : Sessions \cup {"none"}, key : Keys \cup {NoKey},
                          log : Nat, seen : Row]]

(* A card's schedule is what its surviving answers make it: no answer is   *)
(* lost to a concurrent one, counted twice, or left in the schedule after  *)
(* its undo, in any interleaving of submits, undos, suspensions and        *)
(* restores.                                                               *)
RowsHoldAnswers ==
  \A c \in Cards : Exists(c) =>
    row[c].learnt = {i \in DOMAIN logs : IsAnswer(i, c)}

(* Every value has its type, and no answer is lost in a schedule, counted  *)
(* twice, or left there by its undo (submitAnswer, undoLastReview).        *)
ScheduleFollowsAnswers == TypeOK /\ RowsHoldAnswers

(* The snapshot kept with an answer is the schedule of the answers before  *)
(* it that still stand, whatever was undone and answered again since.      *)
SnapshotsChain ==
  \A i \in DOMAIN logs : \A c \in Cards :
    (Exists(c) /\ IsAnswer(i, c)) =>
      logs[i].prev.learnt = {j \in DOMAIN logs : IsAnswer(j, c) /\ j < i}

(* What a transaction read from a card under its lock is still the card    *)
(* when the transaction writes.                                            *)
ReadsStayCurrent ==
  \A r \in Requests : \A c \in Cards :
    HoldsCard(r, c) => Exists(c) /\ tx[r].seen = row[c]

(* A key takes effect at most once, over all operations: a retry of a      *)
(* request whose answer was lost, even one that overtakes the original,    *)
(* never answers, skips, suspends or undoes again.                         *)
KeyTakesEffectOnce ==
  \A i, j \in DOMAIN logs : logs[i].key = logs[j].key /\ i # j => logs[i].key = NoKey

(* A session that was ended gets no more answers, skips or undos, not even *)
(* from a request that found it open.                                      *)
SessionsClose ==
  [][/\ \A i \in DOMAIN logs' : i \notin DOMAIN logs => logs'[i].session \in open \cup {"none"}
     /\ \A i \in DOMAIN logs : logs'[i].undone # logs[i].undone => logs[i].session \in open]_vars

(* No answer is recorded for a card that is suspended or was removed, not  *)
(* even when that happened after the submit began.                         *)
OnlyLiveCardsAnswered ==
  [][\A i \in DOMAIN logs' :
       (i \notin DOMAIN logs /\ logs'[i].kind = "answer") =>
         Exists(logs'[i].card) /\ row[logs'[i].card].state # "suspended"]_vars

(* What a commit records still holds when it commits: the session is open  *)
(* and the card is there to be answered.                                   *)
CommitsAreCurrent == SessionsClose /\ OnlyLiveCardsAnswered

(* The review track implements a stack of answers per card. *)
PlaceView == [c \in Cards |-> IF row[c].state \in {"none", "gone"} THEN row[c].state ELSE "queued"]
StackView == [c \in Cards |-> row[c].learnt]
Stack == INSTANCE AnswerStack WITH place <- PlaceView, stack <- StackView, last <- Len(logs)
ImplementsAnswerStack == Stack!StackSpec
=============================================================================
