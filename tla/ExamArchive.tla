----------------------------- MODULE ExamArchive -----------------------------
(***************************************************************************)
(* The server side of the exam sheets of one scope (ADR-0034, 0035, 0037,  *)
(* 0038): questions, sheets with their answers, attempts and verdicts, and *)
(* the notes taken on the questions.  The owner seals, annotates, edits    *)
(* and deletes; the agent grades and edits pending questions.              *)
(*                                                                         *)
(* A request is one READ COMMITTED transaction.  Those that read first and *)
(* write under what they read are two steps, the reads and the writes:     *)
(* the second re-evaluates the WHERE of its statements and nothing else.   *)
(* A request refused by its reads changes nothing and is not shown.  A     *)
(* statement of its own is one step.  The scope is a file, which no paper, *)
(* writing task or study note refers to; the text of notes is left out.    *)
(***************************************************************************)
EXTENDS Naturals, Sequences, FiniteSets

CONSTANTS
  Workers,      \* requests under way at the same time
  Questions, Notes, Answers,
  None,         \* no answer, no note, no review: not among them
  MaxSheets, MaxFace, MaxPatches   \* bounds: sheets, edits of a question, patches

VARIABLES
  question,   \* l3_questions: status and how often the face was edited
  sheets,     \* l3_submissions with l3_question_attempts and l3_grading_results
  note,       \* l3_question_annotations
  tx          \* per worker, the transaction between its reads and its writes

vars == <<question, sheets, note, tx>>

Modes == {"full", "incremental", "summary"}
Verdicts == {"sound", "questionable"}

NoAttempt == [state |-> "none", answer |-> None]
Idle == [op |-> "idle"]
NoNote == [stage |-> "none", q |-> None, sheet |-> 0, review |-> None]

(* An empty list is NULL: the scope is resolved when it is needed. *)
NewSheet(list) ==
  [status |-> "draft", list |-> list, ver |-> 0,
   answers |-> [q \in Questions |-> None],
   attempts |-> [q \in Questions |-> NoAttempt],
   graded |-> [q \in Questions |-> FALSE]]

Active == {q \in Questions : question[q].status = "active"}
Exists(q) == question[q].status # "gone"
Drafts == {s \in DOMAIN sheets : sheets[s].status = "draft"}

(* resolveSheetScopedQuestions: the list only ever shrinks. *)
Scoped(s) == IF sheets[s].list = {} THEN Active ELSE sheets[s].list \cap Active

Begin(w, t) == tx[w] = Idle /\ tx' = [tx EXCEPT ![w] = t]
End(w) == tx' = [tx EXCEPT ![w] = Idle]

-----------------------------------------------------------------------------
(* Sheets *)

(* A question accepted or deleted between the reads of openSheet and its    *)
(* INSERT is the same as one accepted or deleted right after.              *)
OpenSheet ==
  /\ Drafts = {} /\ Len(sheets) < MaxSheets
  /\ sheets' = Append(sheets, NewSheet(Active))
  /\ UNCHANGED <<question, note, tx>>

(* patchSheet with the version of the row; one with another changes nothing. *)
PatchSheet(s, q, a) ==
  /\ s \in Drafts /\ q \in Scoped(s)
  /\ sheets[s].ver < MaxPatches
  /\ sheets' = [sheets EXCEPT ![s].ver = @ + 1, ![s].answers[q] = a]
  /\ UNCHANGED <<question, note, tx>>

SealRead(w, s, mode) ==
  /\ s \in Drafts
  /\ mode = "summary" => Scoped(s) # {}
  /\ Begin(w, [op |-> "seal", s |-> s, mode |-> mode, ver |-> sheets[s].ver,
               scope |-> Scoped(s), answers |-> sheets[s].answers])
  /\ UNCHANGED <<question, sheets, note>>

Answered(t) == {q \in t.scope : t.answers[q] # None}

(* The rows that the full mode inserts, which refer to their questions. *)
Materialised(t) ==
  [q \in Questions |-> IF q \in Answered(t) THEN [state |-> "active", answer |-> t.answers[q]]
                                            ELSE NoAttempt]

SealMatches_AnyVersion(t) == sheets[t.s].status = "draft"

(* UPDATE ... WHERE status = 'draft' AND draft_version = $6 *)
SealMatches(t) == sheets[t.s].status = "draft" /\ sheets[t.s].ver = t.ver

(* promoteBySheet *)
Promoted(s) ==
  [n \in Notes |-> IF note[n].stage = "draft" /\ note[n].sheet = s
                     THEN [note[n] EXCEPT !.stage = "submitted"] ELSE note[n]]

Settle(t, status, attempts) ==
  sheets' = [sheets EXCEPT
    ![t.s].status = status,
    ![t.s].answers = [q \in Questions |-> None],
    ![t.s].attempts = attempts,
    ![t.s].list = IF t.mode = "full" /\ @ = {} THEN t.scope ELSE @]

SealFull(t) ==
  /\ t.mode = "full" /\ \A q \in Answered(t) : Exists(q)
  /\ Settle(t, "sealed", Materialised(t))
  /\ note' = Promoted(t.s)

SealIncremental(t) ==
  /\ t.mode = "incremental"
  /\ Settle(t, "discarded", sheets[t.s].attempts)
  /\ note' = Promoted(t.s)

(* The summary is a note on the first question. *)
SealSummary(t) ==
  /\ t.mode = "summary"
  /\ \E q \in t.scope, n \in Notes :
       /\ Exists(q) /\ note[n].stage = "none"
       /\ note' = [note EXCEPT ![n] = [stage |-> "submitted", q |-> q, sheet |-> t.s, review |-> None]]
  /\ Settle(t, "discarded", sheets[t.s].attempts)

SealWrite(w) ==
  LET t == tx[w] IN
  /\ t.op = "seal"
  /\ SealMatches(t)
  /\ SealFull(t) \/ SealIncremental(t) \/ SealSummary(t)
  /\ End(w)
  /\ UNCHANGED question

(* softDeleteAttempt *)
DeleteAttempt(s, q) ==
  /\ sheets[s].attempts[q].state = "active"
  /\ sheets' = [sheets EXCEPT ![s].attempts[q].state = "deleted"]
  /\ UNCHANGED <<question, note, tx>>

-----------------------------------------------------------------------------
(* Questions *)

AcceptQuestion(q) ==
  /\ question[q].status = "pending"
  /\ question' = [question EXCEPT ![q].status = "active"]
  /\ UNCHANGED <<sheets, note, tx>>

RejectQuestion(q) ==
  /\ question[q].status = "pending"
  /\ question' = [question EXCEPT ![q].status = "rejected"]
  /\ UNCHANGED <<sheets, note, tx>>

Editable(by) == IF by = "owner" THEN {"active", "pending"} ELSE {"pending"}

(* countQuestionAttempts and countQuestionGradings are 0; deleted attempts  *)
(* count.                                                                  *)
Unused(q) == \A s \in DOMAIN sheets : sheets[s].attempts[q] = NoAttempt /\ ~sheets[s].graded[q]

EditRead(w, q, by) ==
  /\ question[q].status \in Editable(by) /\ Unused(q)
  /\ question[q].face < MaxFace
  /\ Begin(w, [op |-> "edit", q |-> q, by |-> by])
  /\ UNCHANGED <<question, sheets, note>>

EditMatches_ById(t) == Exists(t.q)

(* UPDATE ... WHERE status = ANY(editable_statuses) *)
EditMatches(t) == question[t.q].status \in Editable(t.by)

EditWrite(w) ==
  LET t == tx[w] IN
  /\ t.op = "edit" /\ EditMatches(t)
  /\ question' = [question EXCEPT ![t.q].face = @ + 1]
  /\ End(w)
  /\ UNCHANGED <<sheets, note>>

DeleteRead(w, q) ==
  /\ Exists(q) /\ Unused(q)
  /\ Begin(w, [op |-> "delete", q |-> q])
  /\ UNCHANGED <<question, sheets, note>>

(* DELETE ... WHERE id = $1: the rows that refer to the question go with it. *)
DeleteWrite(w) ==
  LET t == tx[w] IN
  /\ t.op = "delete"
  /\ question' = [question EXCEPT ![t.q].status = "gone"]
  /\ sheets' = [s \in DOMAIN sheets |-> [sheets[s] EXCEPT !.attempts[t.q] = NoAttempt,
                                                          !.graded[t.q] = FALSE]]
  /\ note' = [n \in Notes |-> IF note[n].q = t.q THEN [note[n] EXCEPT !.stage = "gone"] ELSE note[n]]
  /\ End(w)

-----------------------------------------------------------------------------
(* Notes *)

(* Without a sheet a note is formal at once. *)
CreateNote(n, q) ==
  /\ note[n].stage = "none" /\ Exists(q)
  /\ note' = [note EXCEPT ![n] = [stage |-> "confirmed", q |-> q, sheet |-> 0, review |-> None]]
  /\ UNCHANGED <<question, sheets, tx>>

DraftNoteRead(w, n, q, s) ==
  /\ Exists(q) /\ s \in Drafts /\ note[n].stage = "none"
  /\ Begin(w, [op |-> "annotate", n |-> n, q |-> q, s |-> s])
  /\ UNCHANGED <<question, sheets, note>>

DraftNoteWrite(w) ==
  LET t == tx[w] IN
  /\ t.op = "annotate" /\ Exists(t.q) /\ note[t.n].stage = "none"
  /\ note' = [note EXCEPT ![t.n] = [stage |-> "draft", q |-> t.q, sheet |-> t.s, review |-> None]]
  /\ End(w)
  /\ UNCHANGED <<question, sheets>>

WithdrawRead(w, n, s) ==
  /\ note[n].stage = "submitted"
  /\ s \in Drafts \cup {0}
  /\ Begin(w, [op |-> "withdraw", n |-> n, s |-> s, origin |-> note[n].sheet])
  /\ UNCHANGED <<question, sheets, note>>

(* The review goes with the submission it was about. *)
Withdrawn(r, s) == [r EXCEPT !.stage = "draft", !.sheet = s, !.review = None]

(* Without a sheet the draft of the scope is taken, or opened with the list *)
(* of the sheet the note comes from.                                       *)
WithdrawWrite(w) ==
  LET t == tx[w] IN
  /\ t.op = "withdraw" /\ note[t.n].stage = "submitted"
  /\ \/ /\ t.s # 0 \/ Drafts # {}
        /\ \E s \in IF t.s # 0 THEN {t.s} ELSE Drafts :
             note' = [note EXCEPT ![t.n] = Withdrawn(@, s)]
        /\ UNCHANGED sheets
     \/ /\ t.s = 0 /\ Drafts = {} /\ Len(sheets) < MaxSheets
        /\ sheets' = Append(sheets, NewSheet(sheets[t.origin].list))
        /\ note' = [note EXCEPT ![t.n] = Withdrawn(@, Len(sheets'))]
  /\ End(w)
  /\ UNCHANGED question

DeleteNote(n) ==
  /\ note[n].stage \in {"draft", "submitted", "confirmed"}
  /\ note' = [note EXCEPT ![n].stage = "gone"]
  /\ UNCHANGED <<question, sheets, tx>>

ConfirmNote(n) ==
  /\ note[n].stage = "submitted"
  /\ note' = [note EXCEPT ![n].stage = "confirmed"]
  /\ UNCHANGED <<question, sheets, tx>>

-----------------------------------------------------------------------------
(* Grading *)

Gradable_Scoped(s) == Scoped(s)

(* gradableQuestionIds: questions of the scope with an active attempt. *)
Gradable(s) == {q \in Scoped(s) : sheets[s].attempts[q].state = "active"}

Reviewable(s) == {n \in Notes : note[n].sheet = s /\ note[n].stage \in {"submitted", "confirmed"}}

(* nextAnnotationStage *)
NextStage(stage, verdict) ==
  IF verdict = "sound" /\ stage = "submitted" THEN "confirmed" ELSE stage

(* A submission holds a result for a question and a review of a note, or   *)
(* none.                                                                   *)
GradeRead(w, s, q, n, verdict) ==
  /\ sheets[s].status = "sealed" /\ q \in Gradable(s)
  /\ n # None => n \in Reviewable(s)
  /\ Begin(w, [op |-> "grade", s |-> s, q |-> q, n |-> n, verdict |-> verdict,
               stage |-> IF n = None THEN None ELSE NextStage(note[n].stage, verdict)])
  /\ UNCHANGED <<question, sheets, note>>

(* applyAnnotationReview: UPDATE ... WHERE stage <> 'draft'; when no row    *)
(* matches the transaction fails as a whole.                               *)
ReviewMatches(n) == note[n].stage \in {"submitted", "confirmed"}

GradeWrite(w) ==
  LET t == tx[w] IN
  /\ t.op = "grade" /\ Exists(t.q)
  /\ IF t.n = None THEN UNCHANGED note
     ELSE /\ ReviewMatches(t.n)
          /\ note' = [note EXCEPT ![t.n].review = t.verdict, ![t.n].stage = t.stage]
  /\ sheets' = [sheets EXCEPT ![t.s].graded[t.q] = TRUE]
  /\ End(w)
  /\ UNCHANGED question

(* The writes of a transaction fail, or its connection does. *)
Rollback(w) ==
  /\ tx[w] # Idle
  /\ End(w)
  /\ UNCHANGED <<question, sheets, note>>

-----------------------------------------------------------------------------
Init ==
  /\ question \in [Questions -> [status : {"active", "pending"}, face : {0}]]
  /\ sheets = <<>>
  /\ note = [n \in Notes |-> NoNote]
  /\ tx = [w \in Workers |-> Idle]

Sitting ==
  \/ OpenSheet
  \/ \E s \in DOMAIN sheets, q \in Questions :
       DeleteAttempt(s, q) \/ \E a \in Answers \cup {None} : PatchSheet(s, q, a)
  \/ \E w \in Workers, s \in DOMAIN sheets, mode \in Modes : SealRead(w, s, mode)
  \/ \E w \in Workers : SealWrite(w)

Bank ==
  \/ \E q \in Questions : AcceptQuestion(q) \/ RejectQuestion(q)
  \/ \E w \in Workers, q \in Questions :
       DeleteRead(w, q) \/ \E by \in {"owner", "agent"} : EditRead(w, q, by)
  \/ \E w \in Workers : EditWrite(w) \/ DeleteWrite(w)

Annotations ==
  \/ \E n \in Notes : DeleteNote(n) \/ ConfirmNote(n) \/ \E q \in Questions : CreateNote(n, q)
  \/ \E w \in Workers, n \in Notes :
       \/ \E s \in 0..Len(sheets) : WithdrawRead(w, n, s)
       \/ \E s \in DOMAIN sheets, q \in Questions : DraftNoteRead(w, n, q, s)
  \/ \E w \in Workers : DraftNoteWrite(w) \/ WithdrawWrite(w)

Grading ==
  \/ \E w \in Workers, s \in DOMAIN sheets, q \in Questions, n \in Notes \cup {None}, v \in Verdicts :
       GradeRead(w, s, q, n, v)
  \/ \E w \in Workers : GradeWrite(w)

Next == Sitting \/ Bank \/ Annotations \/ Grading \/ \E w \in Workers : Rollback(w)

Spec == Init /\ [][Next]_vars

-----------------------------------------------------------------------------
(* Properties *)

Stages == {"none", "draft", "submitted", "confirmed", "gone"}

(* Type invariant; a scope has one draft at a time. *)
TypeOK ==
  /\ \A q \in Questions : /\ question[q].status \in {"active", "pending", "rejected", "gone"}
                          /\ question[q].face \in Nat
  /\ \A s \in DOMAIN sheets :
       /\ sheets[s].status \in {"draft", "sealed", "discarded"}
       /\ sheets[s].list \subseteq Questions
       /\ sheets[s].answers \in [Questions -> Answers \cup {None}]
       /\ \A q \in Questions : sheets[s].attempts[q].state \in {"none", "active", "deleted"}
  /\ \A r, s \in DOMAIN sheets :
       sheets[r].status = "draft" /\ sheets[s].status = "draft" => r = s
  /\ \A n \in Notes : /\ note[n].stage \in Stages /\ note[n].sheet \in 0..Len(sheets)
                      /\ note[n].review \in Verdicts \cup {None}

(* The attempts of a sheet are the answers it had when it was sealed: what  *)
(* was read before and overtaken by a save is never written (sealSheet).   *)
SealKeepsAnswers ==
  [][\A s \in DOMAIN sheets :
       sheets[s].status = "draft" /\ sheets'[s].status = "sealed" =>
         \A q \in Questions :
           sheets'[s].attempts[q].answer = IF q \in Active THEN sheets[s].answers[q] ELSE None]_vars

(* A verdict is about an attempt, which may have been removed from view     *)
(* since (ADR-0038: a graded question has an attempt).  A scope has one     *)
(* draft at a time (TypeOK).                                               *)
GradedHasAttempt ==
  /\ TypeOK
  /\ \A s \in DOMAIN sheets, q \in Questions :
       sheets[s].graded[q] => sheets[s].attempts[q].state # "none"

(* Whatever overtakes an agent's edit, it never changes a question that the *)
(* owner has accepted (updateQuestion, editable_statuses).                 *)
AgentLeavesActiveAlone ==
  [][\A w \in Workers :
       tx[w].op = "edit" /\ tx'[w] = Idle /\ question' # question =>
         question[tx[w].q].status = "pending" \/ tx[w].by = "owner"]_vars
=============================================================================
