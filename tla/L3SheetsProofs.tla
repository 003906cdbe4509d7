----------------------------- MODULE L3SheetsProofs -----------------------------
(***************************************************************************)
(* Theorems about the two kinds of L3 sheets that MCL3Sheets runs, each of   *)
(* its own specification: the writing task (EXTENDed) and the exam archive   *)
(* (Exam).                                                                  *)
(*                                                                         *)
(* Writing: besides the properties the inductive invariant says that the     *)
(* numbers given so far have a highest one (which is what                   *)
(* findMaxRevisionNo reads) and that a draft made from a revision has a      *)
(* sealed parent.  Exam: what a transaction read stays true enough until it  *)
(* writes - a grader saw an attempt, a seal has the answers of its version   *)
(* and answers are of questions in the scope of their sheet.                *)
(***************************************************************************)
EXTENDS MCL3Sheets, SequenceTheorems, TLAPS

-----------------------------------------------------------------------------
(* The writing task                                                         *)

HasHighest == \E n \in Numbers \cup {0} : \A m \in Numbers : m <= n

DraftParents == \A s \in Drafts : parent[s] # NoSheet => parent[s] \in Sealed

IInv == /\ TypeOK /\ RevisionsAreNumbered /\ FeedbackBindsContent /\ OneOpenDraft
        /\ HasHighest /\ DraftParents

-----------------------------------------------------------------------------
(* The number of the next revision is above all others and next to one of   *)
(* them, or 1 (findMaxRevisionNo).                                         *)
LEMMA NextNoIsNext ==
  ASSUME TypeOK, HasHighest
  PROVE  /\ NextNo \in Nat /\ NextNo > 0
         /\ \A s \in Sealed : no[s] < NextNo
         /\ NextNo > 1 => \E r \in Sealed : NextNo = no[r] + 1
<1> DEFINE top == CHOOSE n \in Numbers \cup {0} : \A m \in Numbers : m <= n
<1>1. top \in Numbers \cup {0} /\ \A m \in Numbers : m <= top
  BY DEF HasHighest
<1>2. NextNo = top + 1
  BY DEF NextNo
<1> HIDE DEF top
<1>3. Numbers \subseteq Nat /\ \A s \in Sealed : no[s] \in Numbers
  BY DEF TypeOK, Numbers, Sealed
<1>4. top \in Nat
  BY <1>1, <1>3
<1>5. top # 0 => \E r \in Sealed : top = no[r]
  BY <1>1 DEF Numbers
<1>6. \A s \in Sealed : no[s] \in Nat /\ no[s] <= top
  BY <1>1, <1>3
<1> QED
  BY <1>2, <1>4, <1>5, <1>6

(* The task is created with one empty draft and no revision. *)
LEMMA InitIInv == ASSUME Init PROVE IInv
<1> USE WritingTaskAssumption
<1>1. PICK s \in Sheets : status = [r \in Sheets |-> IF r = s THEN "draft" ELSE "absent"]
  BY DEF Init
<1>2. Drafts = {s} /\ Sealed = {} /\ Numbers = {}
  BY <1>1 DEF Drafts, Sealed, Numbers
<1>3. TypeOK
  BY <1>1 DEF Init, TypeOK, AllTexts, NoFeedback, Feedbacks
<1>4. RevisionsAreNumbered /\ OneOpenDraft /\ HasHighest
  BY <1>2 DEF Init, RevisionsAreNumbered, OneOpenDraft, HasHighest
<1>5. FeedbackBindsContent
  BY DEF Init, FeedbackBindsContent, NoFeedback
<1>6. DraftParents
  BY DEF Init, DraftParents, Drafts
<1> QED
  BY <1>3, <1>4, <1>5, <1>6 DEF IInv

(* Types, step by step. *)
LEMMA TypeNext == ASSUME IInv, [Next]_vars PROVE TypeOK'
<1> USE WritingTaskAssumption DEF IInv, TypeOK
<1>1. ASSUME NEW s \in Sheets, NEW v \in 0..MaxVersion, NEW t \in AllTexts, SaveDraft(s, v, t)
      PROVE  TypeOK'
  BY <1>1 DEF SaveDraft, MaySave
<1>2. ASSUME NEW s \in Sheets, NEW v \in 0..MaxVersion, Submit(s, v)
      PROVE  TypeOK'
  BY <1>2, NextNoIsNext DEF Submit, AllTexts
<1>3. ASSUME NEW s \in Sheets, NEW v \in 0..MaxVersion, Discard(s, v)
      PROVE  TypeOK'
  BY <1>3 DEF Discard, MayDiscard, AllTexts
<1>4. ASSUME NEW s \in Sheets, NEW v \in 0..MaxVersion, NEW t \in Texts, NEW k \in Keys,
             PutFeedback(s, t, v, k)
      PROVE  TypeOK'
  BY <1>4 DEF PutFeedback, MayPut, Feedbacks, AllTexts
<1>5. ASSUME NEW s \in Sheets, NEW p \in Sheets \cup {NoSheet}, NEW copy \in BOOLEAN,
             CreateDraft(s, p, copy)
      PROVE  TypeOK'
  BY <1>5 DEF CreateDraft, AllTexts
<1>6. ASSUME NEW s \in Sheets, ClearContent(s)
      PROVE  TypeOK'
  BY <1>6 DEF ClearContent, Remaining, NoFeedback, Feedbacks, AllTexts
<1>7. CASE Archive \/ Restore \/ UNCHANGED vars
  BY <1>7 DEF Archive, Restore, vars
<1> QED
  BY <1>1, <1>2, <1>3, <1>4, <1>5, <1>6, <1>7 DEF Next

(* Only a submit adds to the revisions. *)
LEMMA SealedGrows ==
  ASSUME TypeOK, [Next]_vars
  PROVE  \/ Sealed' = Sealed /\ no' = no /\ Numbers' = Numbers
         \/ \E s \in Drafts : /\ \E v \in 0..MaxVersion : Submit(s, v)
                              /\ Sealed' = Sealed \cup {s}
<1> USE DEF Sealed, Drafts, TypeOK
<1>1. ASSUME NEW s \in Sheets, NEW v \in 0..MaxVersion, Submit(s, v)
      PROVE  s \in Drafts /\ Sealed' = Sealed \cup {s}
  BY <1>1 DEF Submit
<1>2. ASSUME NEW s \in Sheets, NEW v \in 0..MaxVersion, Discard(s, v)
      PROVE  Sealed' = Sealed /\ no' = no
  BY <1>2 DEF Discard, MayDiscard
<1>3. ASSUME NEW s \in Sheets, NEW p \in Sheets \cup {NoSheet}, NEW copy \in BOOLEAN,
             CreateDraft(s, p, copy)
      PROVE  Sealed' = Sealed /\ no' = no
  BY <1>3 DEF CreateDraft
<1>4. ASSUME status' = status, no' = no
      PROVE  Sealed' = Sealed /\ no' = no
  BY <1>4
<1>5. ASSUME Sealed' = Sealed, no' = no
      PROVE  Numbers' = Numbers
  BY <1>5 DEF Numbers
<1> HIDE DEF Sealed, Drafts, TypeOK
<1>6. \/ \E s \in Sheets, v \in 0..MaxVersion : Submit(s, v) \/ Discard(s, v)
      \/ \E s \in Sheets, p \in Sheets \cup {NoSheet}, copy \in BOOLEAN : CreateDraft(s, p, copy)
      \/ status' = status /\ no' = no
  BY DEF Next, vars, SaveDraft, PutFeedback, ClearContent, Archive, Restore
<1> QED
  BY <1>1, <1>2, <1>3, <1>4, <1>5, <1>6

(* Numbers stay in order: the new one is next (Submit under the task lock). *)
LEMMA NumbersNext ==
  ASSUME IInv, [Next]_vars
  PROVE  RevisionsAreNumbered' /\ HasHighest'
<1> USE DEF IInv
<1>1. CASE Sealed' = Sealed /\ no' = no /\ Numbers' = Numbers
  <2>1. \A s \in Sealed : parent'[s] = parent[s]
    BY DEF TypeOK, Sealed, Next, vars, SaveDraft, Submit, Discard, PutFeedback,
           CreateDraft, ClearContent, Archive, Restore
  <2> QED
    BY <1>1, <2>1 DEF RevisionsAreNumbered, HasHighest
<1>2. ASSUME NEW s \in Drafts, NEW v \in 0..MaxVersion, Submit(s, v), Sealed' = Sealed \cup {s}
      PROVE  RevisionsAreNumbered' /\ HasHighest'
  <2>1. /\ NextNo \in Nat /\ NextNo > 0
        /\ \A r \in Sealed : no[r] < NextNo
        /\ NextNo > 1 => \E r \in Sealed : NextNo = no[r] + 1
    BY NextNoIsNext
  <2>2. s \in Sheets /\ s \notin Sealed
    BY DEF Drafts, Sealed
  <2>3. /\ no'[s] = NextNo /\ parent' = parent
        /\ \A r \in Sealed : no'[r] = no[r] /\ no[r] \in Nat
    BY <1>2, <2>2 DEF Submit, TypeOK, Sealed
  <2>4. parent[s] # NoSheet => parent[s] \in Sealed
    BY DEF DraftParents
  <2>5. \A r, q \in Sealed' : no'[r] = no'[q] => r = q
    BY <1>2, <2>1, <2>3 DEF RevisionsAreNumbered
  <2>6. \A r \in Sealed' :
          no'[r] > 0 /\ (no'[r] > 1 => \E q \in Sealed' : no'[r] = no'[q] + 1)
    <3>1. CASE NextNo > 1
      BY <1>2, <2>1, <2>3, <3>1 DEF RevisionsAreNumbered
    <3>2. CASE ~(NextNo > 1)
      BY <1>2, <2>1, <2>3, <3>2 DEF RevisionsAreNumbered
    <3> QED
      BY <3>1, <3>2
  <2>7. \A r \in Sealed' :
          parent'[r] # NoSheet => parent'[r] \in Sealed' /\ no'[parent'[r]] < no'[r]
    BY <1>2, <2>1, <2>3, <2>4 DEF RevisionsAreNumbered
  <2>8. HasHighest'
    <3>1. NextNo \in Numbers'
      BY <1>2, <2>3 DEF Numbers
    <3>2. \A m \in Numbers' : m <= NextNo
      BY <1>2, <2>1, <2>3 DEF Numbers
    <3> QED
      BY <3>1, <3>2 DEF HasHighest
  <2> QED
    BY <2>5, <2>6, <2>7, <2>8 DEF RevisionsAreNumbered
<1> QED
  BY <1>1, <1>2, SealedGrows

(* A draft is only created where there is none, and archiving needs none.   *)
LEMMA DraftsNext ==
  ASSUME IInv, [Next]_vars
  PROVE  OneOpenDraft' /\ DraftParents'
<1> USE DEF IInv
<1>1. Sealed \subseteq Sealed'
  BY SealedGrows
<1>2. ASSUME NEW s \in Sheets, NEW p \in Sheets \cup {NoSheet}, NEW copy \in BOOLEAN,
             CreateDraft(s, p, copy)
      PROVE  OneOpenDraft' /\ DraftParents'
  <2>1. Drafts' = {s} /\ task' # "archived"
    BY <1>2 DEF CreateDraft, Occupied, Drafts, TypeOK
  <2>2. parent'[s] # NoSheet => parent'[s] \in Sealed
    BY <1>2 DEF CreateDraft, Copyable, Sealed, TypeOK
  <2> QED
    BY <1>1, <2>1, <2>2 DEF OneOpenDraft, DraftParents
<1>3. ASSUME Drafts' \subseteq Drafts, parent' = parent, task' = task \/ task' = "active" \/ Drafts' = {}
      PROVE  OneOpenDraft' /\ DraftParents'
  BY <1>1, <1>3 DEF OneOpenDraft, DraftParents
<1>4. \/ \E s \in Sheets, p \in Sheets \cup {NoSheet}, copy \in BOOLEAN : CreateDraft(s, p, copy)
      \/ Drafts' \subseteq Drafts /\ parent' = parent
           /\ (task' = task \/ task' = "active" \/ Drafts' = {})
  <2>1. ASSUME NEW s \in Sheets, NEW v \in 0..MaxVersion, Submit(s, v) \/ Discard(s, v)
        PROVE  Drafts' \subseteq Drafts /\ parent' = parent /\ task' = task
    BY <2>1 DEF Submit, Discard, Drafts, TypeOK
  <2>2. CASE Archive
    BY <2>2 DEF Archive, MayArchive, Drafts
  <2>3. CASE status' = status /\ parent' = parent /\ (task' = task \/ task' = "active")
    BY <2>3 DEF Drafts
  <2> QED
    BY <2>1, <2>2, <2>3
       DEF Next, vars, SaveDraft, PutFeedback, ClearContent, Restore
<1> QED
  BY <1>2, <1>3, <1>4

(* Feedback goes with the text it is of (putFeedback, clearRevisionContent). *)
LEMMA FeedbackNext == ASSUME IInv, [Next]_vars PROVE FeedbackBindsContent'
<1> USE DEF IInv, FeedbackBindsContent, TypeOK
<1>1. ASSUME NEW s \in Sheets, NEW v \in 0..MaxVersion, Submit(s, v)
      PROVE  FeedbackBindsContent'
  BY <1>1 DEF Submit
<1>2. ASSUME NEW s \in Sheets, NEW v \in 0..MaxVersion, Discard(s, v)
      PROVE  FeedbackBindsContent'
  BY <1>2 DEF Discard, MayDiscard
<1>3. ASSUME NEW s \in Sheets, NEW v \in 0..MaxVersion, NEW t \in Texts, NEW k \in Keys,
             PutFeedback(s, t, v, k)
      PROVE  FeedbackBindsContent'
  BY <1>3 DEF PutFeedback, MayPut
<1>4. ASSUME NEW s \in Sheets, NEW p \in Sheets \cup {NoSheet}, NEW copy \in BOOLEAN,
             CreateDraft(s, p, copy)
      PROVE  FeedbackBindsContent'
  BY <1>4 DEF CreateDraft
<1>5. ASSUME NEW s \in Sheets, ClearContent(s)
      PROVE  FeedbackBindsContent'
  BY <1>5 DEF ClearContent, Remaining, NoFeedback
<1>6. CASE UNCHANGED <<status, attempt, body, feedback>>
  BY <1>6
<1> HIDE DEF IInv, FeedbackBindsContent, TypeOK
<1> QED
  BY <1>1, <1>2, <1>3, <1>4, <1>5, <1>6
     DEF Next, vars, SaveDraft, Archive, Restore

-----------------------------------------------------------------------------
(* The inductive invariant holds of every state a writing task reaches.      *)
THEOREM WritingInvariant == Spec => []IInv
<1>1. Init => IInv
  BY InitIInv
<1>2. IInv /\ [Next]_vars => IInv'
  <2> SUFFICES ASSUME IInv, [Next]_vars PROVE IInv'
    OBVIOUS
  <2> QED
    BY TypeNext, NumbersNext, DraftsNext, FeedbackNext DEF IInv
<1> QED
  BY <1>1, <1>2, PTL DEF Spec

(* Every row has the type the schema gives it, and the text of a sheet is in *)
(* one place (l3_submissions.answers or the attempt).                       *)
THEOREM WritingTypes == Spec => []TypeOK
<1>1. IInv => TypeOK
  BY DEF IInv
<1> QED
  BY <1>1, WritingInvariant, PTL

(* Revision numbers are 1, 2, ... in the order of submission (submit).       *)
THEOREM NumbersInOrder == Spec => []RevisionsAreNumbered
<1>1. IInv => RevisionsAreNumbered
  BY DEF IInv
<1> QED
  BY <1>1, WritingInvariant, PTL

(* Feedback is on the text it was written for, and goes with it              *)
(* (putFeedback, clearRevisionContent).                                    *)
THEOREM FeedbackOnItsText == Spec => []FeedbackBindsContent
<1>1. IInv => FeedbackBindsContent
  BY DEF IInv
<1> QED
  BY <1>1, WritingInvariant, PTL

(* One draft at most, none in the archive (createDraft, archive).            *)
THEOREM AtMostOneDraft == Spec => []OneOpenDraft
<1>1. IInv => OneOpenDraft
  BY DEF IInv
<1> QED
  BY <1>1, WritingInvariant, PTL

(* What was submitted stays as it was submitted (submit, saveDraft, discard, *)
(* clearRevisionContent).                                                  *)
THEOREM RevisionsStay == Spec => RevisionsAreFinal
<1>1. IInv /\ [Next]_vars =>
        [\A s \in Sealed :
           /\ status'[s] = "sealed" /\ no'[s] = no[s] /\ body'[s] = body[s]
           /\ attempt[s] = "deleted" => attempt'[s] = "deleted"]_vars
  <2> SUFFICES ASSUME IInv, Next, NEW s \in Sealed
               PROVE  /\ status'[s] = "sealed" /\ no'[s] = no[s] /\ body'[s] = body[s]
                      /\ attempt[s] = "deleted" => attempt'[s] = "deleted"
    OBVIOUS
  <2>1. status[s] = "sealed" /\ s \in Sheets
    BY DEF Sealed
  <2> QED
    BY <2>1 DEF IInv, TypeOK, Next, SaveDraft, MaySave, Submit, Discard, MayDiscard,
                PutFeedback, CreateDraft, ClearContent, Archive, Restore
<1> QED
  BY <1>1, WritingInvariant, PTL DEF Spec, RevisionsAreFinal

-----------------------------------------------------------------------------
(* The exam archive                                                         *)

(* What rows, notes and transactions may hold.                               *)
Marks == Answers \cup {None}
Attempt == [state : {"none", "active", "deleted"}, answer : Marks]
Lists == SUBSET Questions
Answering == [Questions -> Marks]
Attempting == [Questions -> Attempt]
Marking == [Questions -> BOOLEAN]
States == {"draft", "sealed", "discarded"}
Sheet == [status : States, list : Lists, ver : Nat, answers : Answering, attempts : Attempting, graded : Marking]
Question == [status : {"active", "pending", "rejected", "gone"}, face : Nat]
Note == [stage : Exam!Stages, q : Questions \cup {None}, sheet : Nat, review : Exam!Verdicts \cup {None}]

SealRequest == [op : {"seal"}, s : Nat, mode : Exam!Modes, ver : Nat, scope : SUBSET Questions,
            answers : [Questions -> Marks]]
GradeRequest == [op : {"grade"}, s : Nat, q : Questions, n : Notes \cup {None}, verdict : Exam!Verdicts,
            stage : {"submitted", "confirmed", None}]
EditRequest == [op : {"edit"}, q : Questions, by : {"owner", "agent"}]
DeleteRequest == [op : {"delete"}, q : Questions]
NoteRequest == [op : {"annotate"}, n : Notes, q : Questions, s : Nat]
WithdrawRequest == [op : {"withdraw"}, n : Notes, s : Nat, origin : Nat]
Transaction ==
  {Exam!Idle} \cup SealRequest \cup GradeRequest
  \cup EditRequest \cup DeleteRequest \cup NoteRequest \cup WithdrawRequest

RowTypes == question \in [Questions -> Question] /\ sheets \in Seq(Sheet)
NoteTypes == note \in [Notes -> Note] /\ \A n \in Notes : note[n].sheet \in 0 .. Len(sheets)
TxTypes == tx \in [Workers -> Transaction]

(* What a transaction and a note refer to is there.                         *)
References ==
  /\ \A w \in Workers :
       /\ tx[w].op \in {"seal", "annotate", "grade"} => tx[w].s \in DOMAIN sheets
       /\ tx[w].op = "withdraw" => tx[w].s \in 0 .. Len(sheets) /\ tx[w].origin \in DOMAIN sheets
       /\ tx[w].op = "grade" /\ tx[w].n # None =>
            /\ tx[w].stage \in {"submitted", "confirmed"}
            /\ note[tx[w].n].stage # "none" /\ note[tx[w].n].sheet \in DOMAIN sheets
  /\ \A n \in Notes : note[n].stage \in {"draft", "submitted"} => note[n].sheet \in DOMAIN sheets

(* One draft; graded is what was attempted; answers are in scope; and what  *)
(* a transaction read is true enough until it writes.                       *)
OneDraft == \A r, s \in DOMAIN sheets : sheets[r].status = "draft" /\ sheets[s].status = "draft" => r = s

Graded ==
  \A s \in DOMAIN sheets, q \in Questions :
    sheets[s].graded[q] => sheets[s].status = "sealed" /\ sheets[s].attempts[q].state # "none"

GradersSawAttempts ==
  \A w \in Workers : tx[w].op = "grade" =>
    /\ sheets[tx[w].s].status = "sealed"
    /\ Exam!Exists(tx[w].q) => sheets[tx[w].s].attempts[tx[w].q].state # "none"

AnswersAreScoped ==
  \A s \in DOMAIN sheets, q \in Questions : sheets[s].answers[q] # None =>
    /\ question[q].status \in {"active", "gone"}
    /\ sheets[s].list = {} \/ q \in sheets[s].list

SealsAreCurrent ==
  \A w \in Workers : tx[w].op = "seal" =>
    /\ tx[w].ver <= sheets[tx[w].s].ver
    /\ sheets[tx[w].s].status = "draft" /\ sheets[tx[w].s].ver = tx[w].ver =>
         sheets[tx[w].s].answers = tx[w].answers
    /\ \A q \in tx[w].scope : question[q].status \in {"active", "gone"}
    /\ \A q \in Questions : tx[w].answers[q] # None /\ Exam!Exists(q) => q \in tx[w].scope

Inv == /\ RowTypes /\ NoteTypes /\ TxTypes /\ References /\ OneDraft /\ Graded
       /\ GradersSawAttempts /\ AnswersAreScoped /\ SealsAreCurrent

-----------------------------------------------------------------------------
(* How rows change, whoever writes: a sheet that was sealed stays sealed and *)
(* keeps its attempts unless their question goes; answers change with the    *)
(* version; a question once active is active until it is gone.              *)
Onward ==
  /\ \A q \in Questions :
       /\ question[q].status = "gone" => question'[q].status = "gone"
       /\ question[q].status = "active" => question'[q].status \in {"active", "gone"}
  /\ Len(sheets) <= Len(sheets')
  /\ \A s \in DOMAIN sheets :
       /\ s \in DOMAIN sheets'
       /\ sheets[s].ver <= sheets'[s].ver
       /\ sheets'[s].status = "draft" /\ sheets'[s].ver = sheets[s].ver =>
            sheets[s].status = "draft" /\ sheets'[s].answers = sheets[s].answers
       /\ sheets[s].status = "sealed" =>
            /\ sheets'[s].status = "sealed"
            /\ \A q \in Questions :
                 sheets[s].attempts[q].state # "none" /\ question'[q].status # "gone" =>
                   sheets'[s].attempts[q].state # "none"

(* The part of the invariant that is about rows, and a whole step.          *)
Rows == RowTypes /\ OneDraft /\ Graded /\ AnswersAreScoped

(* A transaction is of the kind its operation says.                         *)
LEMMA Requests ==
  ASSUME NEW t \in Transaction
  PROVE  /\ t.op = "seal" => t \in SealRequest
         /\ t.op = "grade" => t \in GradeRequest
         /\ t.op = "edit" => t \in EditRequest
         /\ t.op = "delete" => t \in DeleteRequest
         /\ t.op = "annotate" => t \in NoteRequest
         /\ t.op = "withdraw" => t \in WithdrawRequest
  BY DEF Transaction, Exam!Idle, SealRequest, GradeRequest, EditRequest, DeleteRequest, NoteRequest, WithdrawRequest

(* A new sheet has no answers, attempts and verdicts.                       *)
LEMMA NewSheetType ==
  ASSUME NEW list \in SUBSET Questions
  PROVE  /\ Exam!NewSheet(list) \in Sheet /\ Exam!NewSheet(list).status = "draft" /\ Exam!NewSheet(list).list = list
         /\ \A q \in Questions : Exam!NewSheet(list).answers[q] = None /\ ~Exam!NewSheet(list).graded[q]
  BY DEF Exam!NewSheet, Sheet, Exam!NoAttempt, Attempt, Marks, Lists, Answering, Attempting, Marking, States

(* A sheet is opened when the scope has no draft.                           *)
LEMMA Opening ==
  ASSUME Rows, NEW list \in SUBSET Questions, Exam!Drafts = {}, sheets' = Append(sheets, Exam!NewSheet(list)),
         UNCHANGED question
  PROVE  Rows' /\ Onward
<1> DEFINE new == Exam!NewSheet(list)
<1>1. new \in Sheet /\ new.status = "draft" /\ \A q \in Questions : new.answers[q] = None /\ ~new.graded[q]
  BY NewSheetType
<1>0. sheets' = Append(sheets, new)
  OBVIOUS
<1> HIDE DEF new
<1>2. sheets \in Seq(Sheet) /\ sheets' \in Seq(Sheet) /\ Len(sheets') = Len(sheets) + 1
  BY <1>0, <1>1 DEF Rows, RowTypes
<1>3. /\ DOMAIN sheets = 1 .. Len(sheets) /\ DOMAIN sheets' = DOMAIN sheets \cup {Len(sheets) + 1}
      /\ Len(sheets) + 1 \notin DOMAIN sheets
      /\ \A s \in DOMAIN sheets : sheets'[s] = sheets[s] /\ sheets[s] \in Sheet
      /\ sheets'[Len(sheets) + 1] = new
  BY <1>0, <1>1, <1>2
<1>4. OneDraft'
  BY <1>1, <1>3 DEF OneDraft, Exam!Drafts
<1>5. Graded' /\ AnswersAreScoped'
  BY <1>1, <1>3 DEF Rows, Graded, AnswersAreScoped
<1>6. Onward
  BY <1>2, <1>3 DEF Onward, Sheet
<1> QED
  BY <1>2, <1>4, <1>5, <1>6 DEF Rows, RowTypes

(* What is known of a sheet. *)
LEMMA SheetFacts ==
  ASSUME RowTypes, NEW s \in DOMAIN sheets
  PROVE  /\ s \in Nat /\ s \in 1 .. Len(sheets) /\ sheets[s] \in Sheet
         /\ sheets[s].ver \in Nat /\ sheets[s].list \in SUBSET Questions
         /\ sheets[s].answers \in [Questions -> Marks]
         /\ sheets[s].attempts \in [Questions -> Attempt]
         /\ sheets[s].graded \in [Questions -> BOOLEAN]
         /\ sheets[s].status \in {"draft", "sealed", "discarded"}
<1>1. sheets \in Seq(Sheet)
  BY DEF RowTypes
<1>2. s \in 1 .. Len(sheets) /\ sheets[s] \in Sheet
  BY <1>1
<1> QED
  BY <1>1, <1>2 DEF Sheet, Lists, Answering, Attempting, Marking, States

(* One sheet is replaced by another row. *)
LEMMA Replacing ==
  ASSUME RowTypes, NEW s \in DOMAIN sheets, NEW row \in Sheet, sheets' = [sheets EXCEPT ![s] = row]
  PROVE  /\ sheets' \in Seq(Sheet) /\ Len(sheets') = Len(sheets) /\ DOMAIN sheets' = DOMAIN sheets
         /\ sheets'[s] = row
         /\ \A r \in DOMAIN sheets : r # s => sheets'[r] = sheets[r]
  BY DEF RowTypes

(* A draft gets an answer and its next version.                             *)
LEMMA Patching ==
  ASSUME Rows, NEW s \in DOMAIN sheets, NEW q \in Questions, NEW a \in Answers \cup {None}, Exam!PatchSheet(s, q, a)
  PROVE  Rows' /\ Onward
<1> DEFINE row == [sheets[s] EXCEPT !.ver = @ + 1, !.answers[q] = a]
<1>1. RowTypes /\ s \in Exam!Drafts /\ q \in Exam!Scoped(s) /\ sheets' = [sheets EXCEPT ![s] = row]
  BY DEF Rows, Exam!PatchSheet
<1>2. /\ row \in Sheet /\ row.status = sheets[s].status /\ row.ver = sheets[s].ver + 1
      /\ row.list = sheets[s].list /\ row.graded = sheets[s].graded /\ row.attempts = sheets[s].attempts
      /\ row.answers \in [Questions -> Marks] /\ row.answers[q] = a
      /\ \A p \in Questions : p # q => row.answers[p] = sheets[s].answers[p]
  <2> DEFINE as == [sheets[s].answers EXCEPT ![q] = a]
             v == sheets[s].ver + 1
  <2>1. sheets[s] \in Sheet /\ v \in Nat /\ sheets[s].answers \in [Questions -> Marks] /\ a \in Marks
    BY <1>1, SheetFacts DEF Marks
  <2>2. as \in Answering /\ as[q] = a /\ \A p \in Questions : p # q => as[p] = sheets[s].answers[p]
    BY <2>1 DEF Answering
  <2>3. row = [sheets[s] EXCEPT !.ver = v, !.answers = as]
    BY <2>1 DEF Sheet
  <2>4. v = sheets[s].ver + 1
    OBVIOUS
  <2> HIDE DEF row, as, v
  <2>5. row \in Sheet
    BY <2>1, <2>2, <2>3 DEF Sheet
  <2> QED
    BY <2>1, <2>2, <2>3, <2>4, <2>5 DEF Sheet, Answering
<1> HIDE DEF row
<1>3. /\ sheets' \in Seq(Sheet) /\ Len(sheets') = Len(sheets) /\ DOMAIN sheets' = DOMAIN sheets
      /\ sheets'[s] = row
      /\ \A r \in DOMAIN sheets : r # s => sheets'[r] = sheets[r]
  BY <1>1, <1>2, Replacing
<1>4. UNCHANGED question
  BY DEF Exam!PatchSheet
<1>5. \A r \in DOMAIN sheets : sheets'[r].status = sheets[r].status
  BY <1>2, <1>3
<1>6. OneDraft' /\ Graded'
  BY <1>2, <1>3, <1>5 DEF Rows, OneDraft, Graded
<1>7. AnswersAreScoped'
  <2>1. question[q].status = "active" /\ (sheets[s].list = {} \/ q \in sheets[s].list)
    BY <1>1 DEF Exam!Scoped, Exam!Active
  <2> QED
    BY <1>2, <1>3, <1>4, <2>1 DEF Rows, AnswersAreScoped
<1>8. Onward
  <2>1. \A r \in DOMAIN sheets : sheets[r].ver \in Nat
    BY <1>1, SheetFacts
  <2>2. Len(sheets) \in Nat
    BY <1>1 DEF RowTypes
  <2> QED
    BY <1>2, <1>3, <1>4, <2>1, <2>2 DEF Onward
<1> QED
  BY <1>3, <1>4, <1>6, <1>7, <1>8 DEF Rows, RowTypes

(* An attempt is removed from view; it stays an attempt.                    *)
LEMMA DeletingAttempt ==
  ASSUME Rows, NEW s \in DOMAIN sheets, NEW q \in Questions, Exam!DeleteAttempt(s, q)
  PROVE  Rows' /\ Onward
<1> DEFINE as == [sheets[s].attempts EXCEPT ![q].state = "deleted"]
           row == [sheets[s] EXCEPT !.attempts = as]
<1>1. RowTypes /\ sheets[s].attempts[q].state = "active"
  BY DEF Rows, Exam!DeleteAttempt
<1>2. /\ sheets[s] \in Sheet /\ sheets[s].attempts \in [Questions -> Attempt]
  BY <1>1, SheetFacts
<1>3. sheets' = [sheets EXCEPT ![s] = row]
  BY <1>2 DEF Exam!DeleteAttempt, Sheet
<1>4. as \in Attempting /\ \A p \in Questions : as[p].state = "none" <=> sheets[s].attempts[p].state = "none"
  BY <1>1, <1>2 DEF Attempt, Attempting
<1> HIDE DEF as
<1>5. /\ row \in Sheet /\ row.status = sheets[s].status /\ row.ver = sheets[s].ver
      /\ row.list = sheets[s].list /\ row.graded = sheets[s].graded /\ row.attempts = as
      /\ row.answers = sheets[s].answers
  BY <1>2, <1>4 DEF Sheet
<1> HIDE DEF row
<1>6. /\ sheets' \in Seq(Sheet) /\ Len(sheets') = Len(sheets) /\ DOMAIN sheets' = DOMAIN sheets
      /\ sheets'[s] = row
      /\ \A r \in DOMAIN sheets : r # s => sheets'[r] = sheets[r]
  BY <1>1, <1>3, <1>5, Replacing
<1>7. UNCHANGED question
  BY DEF Exam!DeleteAttempt
<1>8. \A r \in DOMAIN sheets :
        /\ sheets'[r].status = sheets[r].status /\ sheets'[r].ver = sheets[r].ver
        /\ sheets'[r].list = sheets[r].list /\ sheets'[r].graded = sheets[r].graded
        /\ sheets'[r].answers = sheets[r].answers
        /\ \A p \in Questions :
             sheets'[r].attempts[p].state = "none" <=> sheets[r].attempts[p].state = "none"
  BY <1>4, <1>5, <1>6
<1>9. OneDraft' /\ Graded' /\ AnswersAreScoped'
  <2>1. OneDraft'
    BY <1>6, <1>8 DEF Rows, OneDraft
  <2>2. Graded'
    BY <1>6, <1>8 DEF Rows, Graded
  <2>3. AnswersAreScoped'
    BY <1>6, <1>7, <1>8 DEF Rows, AnswersAreScoped
  <2> QED
    BY <2>1, <2>2, <2>3
<1>10. Onward
  <2>1. \A r \in DOMAIN sheets : sheets[r].ver \in Nat
    BY <1>1, SheetFacts
  <2>2. Len(sheets) \in Nat
    BY <1>1 DEF RowTypes
  <2> QED
    BY <1>6, <1>7, <1>8, <2>1, <2>2 DEF Onward
<1> QED
  BY <1>6, <1>7, <1>9, <1>10 DEF Rows, RowTypes

(* A sheet is closed: it is no draft any more, its answers are gone, and     *)
(* nobody graded it before.                                                *)
LEMMA Closing ==
  ASSUME Rows, NEW t, t.s \in DOMAIN sheets, NEW end \in {"sealed", "discarded"},
         NEW attempts \in Attempting, sheets[t.s].status = "draft", t.scope \in Lists,
         Exam!Settle(t, end, attempts), UNCHANGED question
  PROVE  /\ Rows' /\ Onward
         /\ sheets'[t.s].attempts = attempts
         /\ \A r \in DOMAIN sheets : r # t.s => sheets'[r] = sheets[r]
<1> DEFINE s == t.s
           as == [q \in Questions |-> None]
           list == IF t.mode = "full" /\ sheets[s].list = {} THEN t.scope ELSE sheets[s].list
           row == [sheets[s] EXCEPT !.status = end, !.answers = as, !.attempts = attempts, !.list = list]
<1>1. RowTypes
  BY DEF Rows
<1>2. /\ sheets[s] \in Sheet /\ sheets[s].list \in Lists /\ sheets[s].ver \in Nat
  BY <1>1, SheetFacts DEF Lists
<1>3. sheets' = [sheets EXCEPT ![s] = row]
  BY <1>2 DEF Exam!Settle, Sheet
<1>4. as \in Answering /\ (\A q \in Questions : as[q] = None) /\ list \in Lists /\ end \in States
  BY <1>2 DEF Answering, Marks, States
<1> HIDE DEF as, list
<1>5. /\ row \in Sheet /\ row.status = end /\ row.ver = sheets[s].ver
      /\ row.graded = sheets[s].graded /\ row.attempts = attempts /\ row.answers = as
  BY <1>2, <1>4 DEF Sheet
<1> HIDE DEF row
<1>6. /\ sheets' \in Seq(Sheet) /\ Len(sheets') = Len(sheets) /\ DOMAIN sheets' = DOMAIN sheets
      /\ sheets'[s] = row
      /\ \A r \in DOMAIN sheets : r # s => sheets'[r] = sheets[r]
  BY <1>1, <1>3, <1>5, Replacing
<1>7. \A q \in Questions : ~sheets[s].graded[q]
  BY DEF Rows, Graded
<1>8. OneDraft' /\ Graded' /\ AnswersAreScoped'
  <2>4. end # "draft"
    OBVIOUS
  <2>0. \A r \in DOMAIN sheets : sheets'[r].status = "draft" => sheets[r].status = "draft"
    BY <1>5, <1>6, <2>4
  <2>1. OneDraft'
    BY <1>6, <2>0 DEF Rows, OneDraft
  <2>2. Graded'
    BY <1>5, <1>6, <1>7 DEF Rows, Graded
  <2>5. \A r \in DOMAIN sheets', q \in Questions : sheets'[r].answers[q] # None =>
          r \in DOMAIN sheets /\ sheets'[r] = sheets[r]
    BY <1>4, <1>5, <1>6
  <2>3. AnswersAreScoped'
    BY <2>5 DEF Rows, AnswersAreScoped
  <2> QED
    BY <2>1, <2>2, <2>3
<1>9. Onward
  <2>1. \A r \in DOMAIN sheets : sheets[r].ver \in Nat
    BY <1>1, SheetFacts
  <2>2. Len(sheets) \in Nat
    BY <1>1 DEF RowTypes
  <2> QED
    BY <1>4, <1>5, <1>6, <2>1, <2>2 DEF Onward
<1> QED
  BY <1>5, <1>6, <1>8, <1>9 DEF Rows, RowTypes

(* A seal that finds its version writes the answers it read.                *)
LEMMA SealWriting ==
  ASSUME Rows, NEW w \in Workers, TxTypes, References, SealsAreCurrent, Exam!SealWrite(w)
  PROVE  /\ Rows' /\ Onward
         /\ \A s \in DOMAIN sheets : sheets[s].status = "draft" /\ sheets'[s].status = "sealed" =>
              \A q \in Questions :
                sheets'[s].attempts[q].answer = IF q \in Exam!Active THEN sheets[s].answers[q] ELSE None
<1> DEFINE t == tx[w]
<1>1. t \in SealRequest /\ t.s \in DOMAIN sheets /\ Exam!SealMatches(t) /\ UNCHANGED question
  <2>1. t \in Transaction /\ t.op = "seal"
    BY DEF Exam!SealWrite, TxTypes
  <2>2. t.s \in DOMAIN sheets
    BY <2>1 DEF References
  <2> QED
    BY <2>1, <2>2, Requests DEF Exam!SealWrite
<1>2. /\ t.answers \in [Questions -> Marks] /\ t.scope \in Lists
      /\ sheets[t.s].status = "draft" /\ sheets[t.s].answers = t.answers
      /\ \A q \in t.scope : question[q].status \in {"active", "gone"}
      /\ \A q \in Questions : t.answers[q] # None /\ Exam!Exists(q) => q \in t.scope
  BY <1>1 DEF SealsAreCurrent, Exam!SealMatches, SealRequest, Lists
<1>3. RowTypes /\ sheets[t.s].attempts \in Attempting
  BY <1>1, SheetFacts DEF Rows, Attempting
<1>4. Exam!Materialised(t) \in Attempting
  BY <1>2 DEF Exam!Materialised, Exam!Answered, Exam!NoAttempt, Attempting, Attempt, Marks
<1>5. Exam!SealFull(t) \/ Exam!SealIncremental(t) \/ Exam!SealSummary(t)
  BY DEF Exam!SealWrite
<1>6. CASE Exam!SealFull(t)
  <2>1. Exam!Settle(t, "sealed", Exam!Materialised(t)) /\ \A q \in Exam!Answered(t) : Exam!Exists(q)
    BY <1>6 DEF Exam!SealFull
  <2>2. /\ Rows' /\ Onward /\ sheets'[t.s].attempts = Exam!Materialised(t)
        /\ \A r \in DOMAIN sheets : r # t.s => sheets'[r] = sheets[r]
    BY <1>1, <1>2, <1>4, <2>1, Closing
  <2>3. ASSUME NEW q \in Questions
        PROVE  Exam!Materialised(t)[q].answer = IF q \in Exam!Active THEN sheets[t.s].answers[q] ELSE None
    <3>1. Exam!Materialised(t)[q].answer = IF q \in Exam!Answered(t) THEN t.answers[q] ELSE None
      BY DEF Exam!Materialised, Exam!NoAttempt
    <3>2. CASE q \in Exam!Answered(t)
      <4>1. q \in Exam!Active
        BY <1>2, <2>1, <3>2 DEF Exam!Answered, Exam!Active, Exam!Exists
      <4> QED
        BY <1>2, <3>1, <3>2, <4>1
    <3>3. CASE q \notin Exam!Answered(t)
      <4>1. q \in Exam!Active => t.answers[q] = None
        BY <1>2, <3>3 DEF Exam!Answered, Exam!Active, Exam!Exists
      <4> QED
        BY <1>2, <3>1, <3>3, <4>1
    <3> QED
      BY <3>2, <3>3
  <2> QED
    BY <2>2, <2>3
<1>7. CASE Exam!SealIncremental(t) \/ Exam!SealSummary(t)
  <2>1. Exam!Settle(t, "discarded", sheets[t.s].attempts)
    BY <1>7 DEF Exam!SealIncremental, Exam!SealSummary
  <2>2. /\ Rows' /\ Onward
        /\ \A r \in DOMAIN sheets : r # t.s => sheets'[r] = sheets[r]
    BY <1>1, <1>2, <1>3, <2>1, Closing
  <2>3. sheets'[t.s].status # "sealed"
    BY <1>1, <1>3, <2>1, SheetFacts DEF Exam!Settle, RowTypes, Sheet
  <2> QED
    BY <2>2, <2>3
<1> QED
  BY <1>5, <1>6, <1>7

(* A verdict is written under the attempt its reader saw.                   *)
LEMMA GradeWriting ==
  ASSUME Rows, NEW w \in Workers, TxTypes, References, GradersSawAttempts, Exam!GradeWrite(w)
  PROVE  Rows' /\ Onward
<1> DEFINE t == tx[w]
           s == t.s
           marks == [sheets[s].graded EXCEPT ![t.q] = TRUE]
           row == [sheets[s] EXCEPT !.graded = marks]
<1>1. /\ t \in GradeRequest /\ s \in DOMAIN sheets /\ t.q \in Questions /\ Exam!Exists(t.q) /\ UNCHANGED question
      /\ sheets[s].status = "sealed" /\ sheets[s].attempts[t.q].state # "none"
  <2>1. t \in Transaction /\ t.op = "grade" /\ Exam!Exists(t.q) /\ UNCHANGED question
    BY DEF Exam!GradeWrite, TxTypes
  <2>2. t \in GradeRequest /\ t.q \in Questions /\ s \in DOMAIN sheets
    BY <2>1, Requests DEF References, GradeRequest
  <2> QED
    BY <2>1, <2>2 DEF GradersSawAttempts
<1>2. RowTypes /\ sheets[s] \in Sheet /\ sheets[s].graded \in [Questions -> BOOLEAN]
  BY <1>1, SheetFacts DEF Rows
<1>3. sheets' = [sheets EXCEPT ![s] = row]
  BY <1>2 DEF Exam!GradeWrite, Sheet
<1>4. /\ marks \in Marking /\ \A p \in Questions : p # t.q => marks[p] = sheets[s].graded[p]
  BY <1>1, <1>2 DEF Marking
<1> HIDE DEF marks
<1>5. /\ row \in Sheet /\ row.status = sheets[s].status /\ row.ver = sheets[s].ver
      /\ row.list = sheets[s].list /\ row.graded = marks /\ row.attempts = sheets[s].attempts
      /\ row.answers = sheets[s].answers
  BY <1>2, <1>4 DEF Sheet
<1> HIDE DEF row
<1>6. /\ sheets' \in Seq(Sheet) /\ Len(sheets') = Len(sheets) /\ DOMAIN sheets' = DOMAIN sheets
      /\ sheets'[s] = row
      /\ \A r \in DOMAIN sheets : r # s => sheets'[r] = sheets[r]
  BY <1>1, <1>2, <1>3, <1>5, Replacing
<1>7. \A r \in DOMAIN sheets :
        /\ sheets'[r].status = sheets[r].status /\ sheets'[r].ver = sheets[r].ver
        /\ sheets'[r].list = sheets[r].list /\ sheets'[r].answers = sheets[r].answers
        /\ sheets'[r].attempts = sheets[r].attempts
  BY <1>5, <1>6
<1>8. OneDraft' /\ Graded' /\ AnswersAreScoped'
  <2>1. OneDraft'
    BY <1>6, <1>7 DEF Rows, OneDraft
  <2>2. Graded'
    BY <1>1, <1>4, <1>5, <1>6, <1>7 DEF Rows, Graded
  <2>3. AnswersAreScoped'
    BY <1>1, <1>6, <1>7 DEF Rows, AnswersAreScoped
  <2> QED
    BY <2>1, <2>2, <2>3
<1>9. Onward
  <2>1. \A r \in DOMAIN sheets : sheets[r].ver \in Nat
    BY <1>2, SheetFacts
  <2>2. Len(sheets) \in Nat
    BY <1>2 DEF RowTypes
  <2> QED
    BY <1>1, <1>6, <1>7, <2>1, <2>2 DEF Onward
<1> QED
  BY <1>1, <1>2, <1>6, <1>8, <1>9 DEF Rows, RowTypes

(* A sheet without what refers to a question.                               *)
Erased(s, q) == [sheets[s] EXCEPT !.attempts[q] = Exam!NoAttempt, !.graded[q] = FALSE]

(* A sheet without what refers to a question is a sheet.                    *)
LEMMA Erasing ==
  ASSUME RowTypes, NEW s \in DOMAIN sheets, NEW q \in Questions
  PROVE  LET row == Erased(s, q) IN
         /\ row \in Sheet /\ row.status = sheets[s].status /\ row.ver = sheets[s].ver
         /\ row.list = sheets[s].list /\ row.answers = sheets[s].answers /\ ~row.graded[q]
         /\ \A p \in Questions : p # q => /\ row.graded[p] <=> sheets[s].graded[p]
                                         /\ row.attempts[p] = sheets[s].attempts[p]
<1> DEFINE row == Erased(s, q)
           as == [sheets[s].attempts EXCEPT ![q] = Exam!NoAttempt]
           marks == [sheets[s].graded EXCEPT ![q] = FALSE]
<1>1. /\ sheets[s] \in Sheet /\ sheets[s].attempts \in [Questions -> Attempt]
      /\ sheets[s].graded \in [Questions -> BOOLEAN]
  BY SheetFacts
<1>2. row = [sheets[s] EXCEPT !.attempts = as, !.graded = marks]
  BY <1>1 DEF Sheet, Erased
<1>3. /\ as \in Attempting /\ \A p \in Questions : p # q => as[p] = sheets[s].attempts[p]
  BY <1>1 DEF Attempting, Attempt, Exam!NoAttempt, Marks
<1>4. /\ marks \in Marking /\ ~marks[q] /\ \A p \in Questions : p # q => (marks[p] <=> sheets[s].graded[p])
  BY <1>1 DEF Marking
<1> HIDE DEF as, marks
<1> QED
  BY <1>1, <1>2, <1>3, <1>4 DEF Sheet

(* A question goes, and with it what refers to it on every sheet.           *)
LEMMA DeletingQuestion ==
  ASSUME Rows, NEW w \in Workers, TxTypes, Exam!DeleteWrite(w)
  PROVE  Rows' /\ Onward
<1> DEFINE q == tx[w].q
<1>1. q \in Questions
  <2>1. tx[w] \in Transaction /\ tx[w].op = "delete"
    BY DEF Exam!DeleteWrite, TxTypes
  <2> QED
    BY <2>1, Requests DEF DeleteRequest
<1>2. RowTypes
  BY DEF Rows
<1>3. /\ question' \in [Questions -> Question] /\ question'[q].status = "gone"
      /\ \A p \in Questions : p # q => question'[p] = question[p]
  BY <1>1, <1>2 DEF Exam!DeleteWrite, RowTypes, Question
<1>4. /\ DOMAIN sheets' = DOMAIN sheets
      /\ \A r \in DOMAIN sheets : sheets'[r] = Erased(r, q)
  BY DEF Exam!DeleteWrite, Erased
<1> HIDE DEF q
<1>5. \A r \in DOMAIN sheets :
        /\ sheets'[r] \in Sheet /\ sheets'[r].status = sheets[r].status /\ sheets'[r].ver = sheets[r].ver
        /\ sheets'[r].list = sheets[r].list /\ sheets'[r].answers = sheets[r].answers /\ ~sheets'[r].graded[q]
        /\ \A p \in Questions : p # q => /\ sheets'[r].graded[p] <=> sheets[r].graded[p]
                                        /\ sheets'[r].attempts[p] = sheets[r].attempts[p]
  BY <1>1, <1>2, <1>4, Erasing
<1>6. Len(sheets) \in Nat /\ DOMAIN sheets = 1 .. Len(sheets)
  BY <1>2 DEF RowTypes
<1>7. sheets' \in Seq(Sheet) /\ Len(sheets') = Len(sheets)
  <2>1. sheets' = [r \in 1 .. Len(sheets) |-> sheets'[r]]
    BY <1>6 DEF Exam!DeleteWrite
  <2>2. sheets' \in [1 .. Len(sheets) -> Sheet]
    BY <1>5, <1>6, <2>1
  <2> QED
    BY <1>4, <1>6, <2>2, SeqDef, LenProperties
<1>8. OneDraft'
  BY <1>4, <1>5 DEF Rows, OneDraft
<1>9. Graded'
  BY <1>4, <1>5 DEF Rows, Graded
<1>10. AnswersAreScoped'
  BY <1>3, <1>4, <1>5 DEF Rows, AnswersAreScoped
<1>11. Onward
  <2>1. \A r \in DOMAIN sheets : sheets[r].ver \in Nat
    BY <1>2, SheetFacts
  <2>2. \A r \in DOMAIN sheets, p \in Questions :
          question'[p].status # "gone" => sheets'[r].attempts[p] = sheets[r].attempts[p]
    BY <1>3, <1>5
  <2>3. /\ question[q].status = "gone" => question'[q].status = "gone"
        /\ question[q].status = "active" => question'[q].status \in {"active", "gone"}
    BY <1>3
  <2> QED
    BY <1>3, <1>4, <1>5, <1>6, <1>7, <2>1, <2>2, <2>3 DEF Onward
<1> QED
  BY <1>3, <1>7, <1>8, <1>9, <1>10, <1>11 DEF Rows, RowTypes

(* No sheet is written, and a question only as follows.                      *)
LEMMA Keeping ==
  ASSUME Rows, UNCHANGED sheets, question' \in [Questions -> Question],
         \A q \in Questions : question[q].status \in {"active", "gone"} => question'[q].status = question[q].status
  PROVE  Rows' /\ Onward
<1>1. RowTypes /\ RowTypes'
  BY DEF Rows, RowTypes
<1>2. Len(sheets) \in Nat /\ \A r \in DOMAIN sheets : sheets[r].ver \in Nat
  BY <1>1, SheetFacts DEF RowTypes
<1>3. Onward
  BY <1>2 DEF Onward
<1> QED
  BY <1>1, <1>3 DEF Rows, OneDraft, Graded, AnswersAreScoped

-----------------------------------------------------------------------------
(* How notes change, whoever writes.                                        *)
NotesOnward ==
  /\ note' \in [Notes -> Note]
  /\ \A n \in Notes :
       /\ note'[n].sheet \in 0 .. Len(sheets')
       /\ note[n].stage # "none" => note'[n].stage # "none"
       /\ note[n].stage # "none" /\ note[n].sheet \in DOMAIN sheets => note'[n].sheet \in DOMAIN sheets'
       /\ note'[n].stage \in {"draft", "submitted"} => note'[n].sheet \in DOMAIN sheets'

(* What a transaction may have read in the state in which it begins.         *)
Read(t) ==
  /\ t \in Transaction
  /\ t.op \in {"seal", "annotate", "grade"} => t.s \in DOMAIN sheets
  /\ t.op = "withdraw" => t.s \in 0 .. Len(sheets) /\ t.origin \in DOMAIN sheets
  /\ t.op = "grade" /\ t.n # None =>
       t.stage \in {"submitted", "confirmed"} /\ note[t.n].stage # "none" /\ note[t.n].sheet \in DOMAIN sheets
  /\ t.op = "grade" => sheets[t.s].status = "sealed" /\ sheets[t.s].attempts[t.q].state # "none"
  /\ t.op = "seal" =>
       /\ t.ver = sheets[t.s].ver /\ t.answers = sheets[t.s].answers
       /\ \A q \in t.scope : question[q].status = "active"
       /\ \A q \in Questions : t.answers[q] # None /\ Exam!Exists(q) => q \in t.scope

(* A transaction ends, or begins with its reads; the others go on.           *)
TxOnward ==
  /\ tx' = [w \in Workers |-> tx'[w]]
  /\ \A w \in Workers : \/ tx'[w] = tx[w] \/ tx'[w] = Exam!Idle
                        \/ UNCHANGED <<question, sheets, note>> /\ Read(tx'[w])

(* A transaction ends.                                                      *)
LEMMA Ending ==
  ASSUME TxTypes, NEW w \in Workers, Exam!End(w)
  PROVE  TxOnward
  BY DEF TxTypes, Exam!End, TxOnward

(* A transaction begins with its reads.                                     *)
LEMMA Beginning ==
  ASSUME TxTypes, NEW w \in Workers, NEW t, Read(t), Exam!Begin(w, t), UNCHANGED <<question, sheets, note>>
  PROVE  TxOnward
  BY DEF TxTypes, Exam!Begin, TxOnward

(* Notes are left as they are.                                              *)
LEMMA NotesKept ==
  ASSUME Inv, Rows', Onward, UNCHANGED note
  PROVE  NotesOnward
<1>1. Len(sheets) \in Nat /\ Len(sheets') \in Nat /\ Len(sheets) <= Len(sheets')
  BY DEF Inv, Rows, RowTypes, Onward
<1>2. \A n \in Notes : note[n].sheet \in 0 .. Len(sheets')
  BY <1>1 DEF Inv, NoteTypes
<1> QED
  BY <1>2 DEF Inv, NoteTypes, NotesOnward, References, Onward

(* One note is written.                                                     *)
LEMMA NoteWritten ==
  ASSUME Inv, Rows', Onward, NEW n \in Notes, NEW row \in Note, note' = [note EXCEPT ![n] = row],
         row.sheet \in 0 .. Len(sheets'), row.stage # "none",
         note[n].stage # "none" /\ note[n].sheet \in DOMAIN sheets => row.sheet \in DOMAIN sheets',
         row.stage \in {"draft", "submitted"} => row.sheet \in DOMAIN sheets'
  PROVE  NotesOnward
<1>1. Len(sheets) \in Nat /\ Len(sheets') \in Nat /\ Len(sheets) <= Len(sheets')
  BY DEF Inv, Rows, RowTypes, Onward
<1>2. /\ note' \in [Notes -> Note] /\ note'[n] = row
      /\ \A m \in Notes : m # n => note'[m] = note[m]
  BY DEF Inv, NoteTypes
<1>3. \A m \in Notes : note[m].sheet \in 0 .. Len(sheets')
  BY <1>1 DEF Inv, NoteTypes
<1> QED
  BY <1>2, <1>3 DEF Inv, NotesOnward, References, Onward

(* The drafts of notes on a sealed sheet are submitted.                     *)
LEMMA Promoting ==
  ASSUME Inv, Rows', Onward, NEW s, note' = Exam!Promoted(s)
  PROVE  NotesOnward
<1>1. Len(sheets) \in Nat /\ Len(sheets') \in Nat /\ Len(sheets) <= Len(sheets')
  BY DEF Inv, Rows, RowTypes, Onward
<1>2. ASSUME NEW n \in Notes
      PROVE  /\ note'[n] \in Note /\ note'[n].sheet = note[n].sheet
             /\ note'[n].stage = note[n].stage \/ (note[n].stage = "draft" /\ note'[n].stage = "submitted")
  BY DEF Exam!Promoted, Inv, NoteTypes, Note, Exam!Stages
<1>3. \A n \in Notes : note[n].sheet \in 0 .. Len(sheets')
  BY <1>1 DEF Inv, NoteTypes
<1>4. note' \in [Notes -> Note]
  <2>1. note' = [n \in Notes |-> note'[n]]
    BY DEF Exam!Promoted
  <2> QED
    BY <1>2, <2>1
<1>5. ASSUME NEW n \in Notes
      PROVE  /\ note'[n].sheet \in 0 .. Len(sheets')
             /\ note[n].stage # "none" => note'[n].stage # "none"
             /\ note[n].stage # "none" /\ note[n].sheet \in DOMAIN sheets => note'[n].sheet \in DOMAIN sheets'
             /\ note'[n].stage \in {"draft", "submitted"} => note'[n].sheet \in DOMAIN sheets'
  BY <1>2, <1>3 DEF Inv, References, Onward
<1> QED
  BY <1>4, <1>5 DEF NotesOnward

(* What the transactions under way read stays true enough of the new rows.  *)
LEMMA TxStep ==
  ASSUME Inv, Rows', Onward, NotesOnward, TxOnward
  PROVE  TxTypes' /\ References' /\ GradersSawAttempts' /\ SealsAreCurrent'
<1>0. \A w \in Workers : tx[w] \in Transaction
  BY DEF Inv, TxTypes
<1>1. \A w \in Workers : tx'[w] = tx[w] \/ tx'[w] = Exam!Idle
                         \/ (UNCHANGED <<question, sheets, note>> /\ Read(tx'[w]))
  BY DEF TxOnward
<1>2. \A w \in Workers : tx'[w] \in Transaction
  BY <1>0, <1>1 DEF Read, Transaction
<1>3. TxTypes'
  <2>1. tx' = [w \in Workers |-> tx'[w]]
    BY DEF TxOnward
  <2> QED
    BY <1>2, <2>1 DEF TxTypes
<1>4. Exam!Idle.op = "idle"
  BY DEF Exam!Idle
<1>5. \A s \in DOMAIN sheets : s \in DOMAIN sheets' /\ sheets[s].ver \in Nat /\ sheets'[s].ver \in Nat
                               /\ sheets[s].ver <= sheets'[s].ver
  <2>1. \A s \in DOMAIN sheets : s \in DOMAIN sheets' /\ sheets[s].ver <= sheets'[s].ver
    BY DEF Onward
  <2>2. \A s \in DOMAIN sheets : sheets[s].ver \in Nat
    BY SheetFacts DEF Inv
  <2>3. \A s \in DOMAIN sheets' : sheets'[s].ver \in Nat
    <3>1. sheets' \in Seq(Sheet)
      BY DEF Rows, RowTypes
    <3>2. \A s \in DOMAIN sheets' : sheets'[s] \in Sheet
      BY <3>1
    <3> QED
      BY <3>2 DEF Sheet
  <2> QED
    BY <2>1, <2>2, <2>3
<1>6. References'
  <2>1. ASSUME NEW w \in Workers
        PROVE  /\ tx'[w].op \in {"seal", "annotate", "grade"} => tx'[w].s \in DOMAIN sheets'
               /\ tx'[w].op = "withdraw" => tx'[w].s \in 0 .. Len(sheets') /\ tx'[w].origin \in DOMAIN sheets'
               /\ tx'[w].op = "grade" /\ tx'[w].n # None =>
                    /\ tx'[w].stage \in {"submitted", "confirmed"}
                    /\ note'[tx'[w].n].stage # "none" /\ note'[tx'[w].n].sheet \in DOMAIN sheets'
    <3>1. CASE tx'[w] = Exam!Idle
      BY <1>4, <3>1
    <3>2. CASE UNCHANGED <<question, sheets, note>> /\ Read(tx'[w])
      BY <3>2 DEF Read
    <3>3. CASE tx'[w] = tx[w]
      <4>1. tx[w].op \in {"seal", "annotate", "grade"} => tx[w].s \in DOMAIN sheets'
        BY <1>5 DEF Inv, References
      <4>2. tx[w].op = "withdraw" => tx[w].s \in 0 .. Len(sheets') /\ tx[w].origin \in DOMAIN sheets'
        <5>1. Len(sheets) \in Nat /\ Len(sheets') \in Nat /\ Len(sheets) <= Len(sheets')
          BY DEF Inv, Rows, RowTypes, Onward
        <5> QED
          BY <1>5, <5>1 DEF Inv, References
      <4>3. tx[w].op = "grade" /\ tx[w].n # None =>
              /\ tx[w].stage \in {"submitted", "confirmed"}
              /\ note'[tx[w].n].stage # "none" /\ note'[tx[w].n].sheet \in DOMAIN sheets'
        <5>1. tx[w].op = "grade" /\ tx[w].n # None => tx[w].n \in Notes
          BY <1>0, Requests DEF GradeRequest
        <5> QED
          BY <5>1 DEF Inv, References, NotesOnward
      <4> QED
        BY <3>3, <4>1, <4>2, <4>3
    <3> QED
      BY <1>1, <3>1, <3>2, <3>3
  <2>2. \A n \in Notes : note'[n].stage \in {"draft", "submitted"} => note'[n].sheet \in DOMAIN sheets'
    BY DEF NotesOnward
  <2> QED
    BY <2>1, <2>2 DEF References
<1>7. GradersSawAttempts'
  <2>1. ASSUME NEW w \in Workers, tx'[w].op = "grade"
        PROVE  /\ sheets'[tx'[w].s].status = "sealed"
               /\ question'[tx'[w].q].status # "gone" => sheets'[tx'[w].s].attempts[tx'[w].q].state # "none"
    <3>1. CASE tx'[w] = Exam!Idle
      BY <1>4, <2>1, <3>1
    <3>2. CASE UNCHANGED <<question, sheets, note>> /\ Read(tx'[w])
      BY <2>1, <3>2 DEF Read
    <3>3. CASE tx'[w] = tx[w]
      <4>1. tx[w].s \in DOMAIN sheets /\ tx[w].q \in Questions
        BY <1>0, <2>1, <3>3, Requests DEF GradeRequest, Inv, References
      <4>2. /\ sheets[tx[w].s].status = "sealed"
            /\ question[tx[w].q].status # "gone" => sheets[tx[w].s].attempts[tx[w].q].state # "none"
        BY <2>1, <3>3 DEF Inv, GradersSawAttempts, Exam!Exists
      <4> QED
        BY <3>3, <4>1, <4>2 DEF Onward
    <3> QED
      BY <1>1, <3>1, <3>2, <3>3
  <2> QED
    BY <2>1 DEF GradersSawAttempts, Exam!Exists
<1>8. SealsAreCurrent'
  <2>1. ASSUME NEW w \in Workers, tx'[w].op = "seal"
        PROVE  /\ tx'[w].ver <= sheets'[tx'[w].s].ver
               /\ sheets'[tx'[w].s].status = "draft" /\ sheets'[tx'[w].s].ver = tx'[w].ver =>
                    sheets'[tx'[w].s].answers = tx'[w].answers
               /\ \A q \in tx'[w].scope : question'[q].status \in {"active", "gone"}
               /\ \A q \in Questions : tx'[w].answers[q] # None /\ question'[q].status # "gone" =>
                    q \in tx'[w].scope
    <3>1. CASE tx'[w] = Exam!Idle
      BY <1>4, <2>1, <3>1
    <3>2. CASE UNCHANGED <<question, sheets, note>> /\ Read(tx'[w])
      BY <1>5, <2>1, <3>2 DEF Read, Exam!Exists
    <3>3. CASE tx'[w] = tx[w]
      <4>1. tx[w].s \in DOMAIN sheets /\ tx[w].scope \in SUBSET Questions /\ tx[w].ver \in Nat
        BY <1>0, <2>1, <3>3, Requests DEF SealRequest, Inv, References
      <4>2. /\ tx[w].ver <= sheets[tx[w].s].ver
            /\ sheets[tx[w].s].status = "draft" /\ sheets[tx[w].s].ver = tx[w].ver =>
                 sheets[tx[w].s].answers = tx[w].answers
            /\ \A q \in tx[w].scope : question[q].status \in {"active", "gone"}
            /\ \A q \in Questions : tx[w].answers[q] # None /\ question[q].status # "gone" =>
                 q \in tx[w].scope
        BY <2>1, <3>3 DEF Inv, SealsAreCurrent, Exam!Exists
      <4>3. tx[w].ver <= sheets'[tx[w].s].ver
        BY <1>5, <4>1, <4>2
      <4>4. sheets'[tx[w].s].status = "draft" /\ sheets'[tx[w].s].ver = tx[w].ver =>
              sheets'[tx[w].s].answers = tx[w].answers
        <5>1. sheets'[tx[w].s].ver = tx[w].ver => sheets'[tx[w].s].ver = sheets[tx[w].s].ver
          BY <1>5, <4>1, <4>2
        <5> QED
          BY <4>1, <4>2, <5>1 DEF Onward
      <4>5. /\ \A q \in tx[w].scope : question'[q].status \in {"active", "gone"}
            /\ \A q \in Questions : tx[w].answers[q] # None /\ question'[q].status # "gone" =>
                 q \in tx[w].scope
        BY <4>1, <4>2 DEF Onward
      <4> QED
        BY <3>3, <4>3, <4>4, <4>5
    <3> QED
      BY <1>1, <3>1, <3>2, <3>3
  <2> QED
    BY <2>1 DEF SealsAreCurrent, Exam!Exists
<1> QED
  BY <1>3, <1>6, <1>7, <1>8

-----------------------------------------------------------------------------
(* Every step is a step of rows, notes and transactions as above.            *)
(* The attempts a seal writes are the answers it finds.                     *)
SealsAnswers ==
  \A s \in DOMAIN sheets : sheets[s].status = "draft" /\ sheets'[s].status = "sealed" =>
    \A q \in Questions :
      sheets'[s].attempts[q].answer = IF q \in Exam!Active THEN sheets[s].answers[q] ELSE None

Step == Rows' /\ Onward /\ NotesOnward /\ TxOnward /\ SealsAnswers

(* The rows are a part of the invariant.                                    *)
LEMMA InvRows == Inv => Rows
  BY DEF Inv, Rows

(* A step that writes no row.                                               *)
LEMMA RequestStep ==
  ASSUME Inv, UNCHANGED <<question, sheets, note>>, TxOnward
  PROVE  Step
<1>1. Rows' /\ Onward
  BY Keeping, InvRows DEF Rows, RowTypes
<1>2. SealsAnswers
  BY DEF SealsAnswers
<1> QED
  BY <1>1, <1>2, NotesKept DEF Step

(* Every step on sheets goes on as said, and so do the others below.        *)
LEMMA SittingStep ==
  ASSUME Inv, Exam!Sitting
  PROVE  Step
<1>0. Rows /\ TxTypes
  BY InvRows DEF Inv
<1>1. CASE Exam!OpenSheet
  <2>1. Exam!Active \in SUBSET Questions
    BY DEF Exam!Active
  <2>2. Rows' /\ Onward
    BY <1>0, <1>1, <2>1, Opening DEF Exam!OpenSheet
  <2>3. \A s \in DOMAIN sheets : sheets'[s] = sheets[s]
    BY <1>0, <1>1 DEF Exam!OpenSheet, Rows, RowTypes, Exam!Drafts
  <2> QED
    BY <1>0, <1>1, <2>2, <2>3, NotesKept DEF Exam!OpenSheet, TxOnward, TxTypes, SealsAnswers, Step
<1>2. ASSUME NEW s \in DOMAIN sheets, NEW q \in Questions, Exam!DeleteAttempt(s, q)
      PROVE  Step
  <2>1. Rows' /\ Onward
    BY <1>0, <1>2, DeletingAttempt
  <2>2. SealsAnswers
    BY <1>0, <1>2 DEF Exam!DeleteAttempt, Rows, RowTypes, Sheet, SealsAnswers
  <2> QED
    BY <1>0, <1>2, <2>1, <2>2, NotesKept DEF Exam!DeleteAttempt, TxOnward, TxTypes, Step
<1>3. ASSUME NEW s \in DOMAIN sheets, NEW q \in Questions, NEW a \in Answers \cup {None}, Exam!PatchSheet(s, q, a)
      PROVE  Step
  <2>1. Rows' /\ Onward
    BY <1>0, <1>3, Patching
  <2>2. SealsAnswers
    BY <1>0, <1>3 DEF Exam!PatchSheet, Exam!Drafts, Rows, RowTypes, Sheet, SealsAnswers
  <2> QED
    BY <1>0, <1>3, <2>1, <2>2, NotesKept DEF Exam!PatchSheet, TxOnward, TxTypes, Step
<1>4. ASSUME NEW w \in Workers, NEW s \in DOMAIN sheets, NEW mode \in Exam!Modes, Exam!SealRead(w, s, mode)
      PROVE  Step
  <2> DEFINE t == [op |-> "seal", s |-> s, mode |-> mode, ver |-> sheets[s].ver,
                   scope |-> Exam!Scoped(s), answers |-> sheets[s].answers]
  <2>1. /\ s \in Nat /\ sheets[s].ver \in Nat /\ sheets[s].answers \in [Questions -> Marks]
        /\ Exam!Scoped(s) \in SUBSET Questions
    BY <1>0, SheetFacts DEF Rows, Exam!Scoped, Exam!Active
  <2>2. t \in SealRequest
    BY <2>1 DEF SealRequest
  <2>3. /\ \A q \in Exam!Scoped(s) : question[q].status = "active"
        /\ \A q \in Questions : sheets[s].answers[q] # None /\ Exam!Exists(q) => q \in Exam!Scoped(s)
    BY <1>0 DEF Exam!Scoped, Exam!Active, Rows, AnswersAreScoped, Exam!Exists
  <2>4. Read(t)
    BY <2>2, <2>3 DEF Read, Transaction
  <2> QED
    BY <1>0, <1>4, <2>4, Beginning, RequestStep DEF Exam!SealRead
<1>5. ASSUME NEW w \in Workers, Exam!SealWrite(w)
      PROVE  Step
  <2>1. Rows' /\ Onward /\ SealsAnswers
    BY <1>0, <1>5, SealWriting DEF Inv, SealsAnswers
  <2>2. TxOnward
    BY <1>0, <1>5, Ending DEF Exam!SealWrite
  <2>3. NotesOnward
    <3> DEFINE t == tx[w]
    <3>1. t \in SealRequest /\ t.s \in DOMAIN sheets
      <4>1. t \in Transaction /\ t.op = "seal"
        BY <1>0, <1>5 DEF Exam!SealWrite, TxTypes
      <4> QED
        BY <4>1, Requests DEF Inv, References
    <3>2. CASE Exam!SealFull(t) \/ Exam!SealIncremental(t)
      <4>1. note' = Exam!Promoted(t.s)
        BY <3>2 DEF Exam!SealFull, Exam!SealIncremental
      <4> QED
        BY <2>1, <4>1, Promoting
    <3>3. CASE Exam!SealSummary(t)
      <4>1. PICK q \in t.scope, n \in Notes :
              /\ note[n].stage = "none"
              /\ note' = [note EXCEPT ![n] = [stage |-> "submitted", q |-> q, sheet |-> t.s, review |-> None]]
        BY <3>3 DEF Exam!SealSummary
      <4> DEFINE row == [stage |-> "submitted", q |-> q, sheet |-> t.s, review |-> None]
      <4>2. t.s \in DOMAIN sheets' /\ t.s \in 0 .. Len(sheets') /\ t.s \in Nat /\ q \in Questions
        BY <2>1, <3>1 DEF Onward, Rows, RowTypes, SealRequest
      <4>3. row \in Note
        BY <4>2 DEF Note, Exam!Stages
      <4> QED
        BY <2>1, <4>1, <4>2, <4>3, NoteWritten
    <3> QED
      BY <1>5, <3>2, <3>3 DEF Exam!SealWrite
  <2> QED
    BY <2>1, <2>2, <2>3 DEF Step
<1> QED
  BY <1>1, <1>2, <1>3, <1>4, <1>5 DEF Exam!Sitting

(* Steps on questions.                                                      *)
LEMMA BankStep ==
  ASSUME Inv, Exam!Bank
  PROVE  Step
<1>0. Rows /\ TxTypes /\ question \in [Questions -> Question]
  BY InvRows DEF Inv, RowTypes
<1>1. ASSUME NEW q \in Questions, Exam!AcceptQuestion(q) \/ Exam!RejectQuestion(q)
      PROVE  Step
  <2>1. /\ UNCHANGED <<sheets, note, tx>> /\ question' \in [Questions -> Question]
        /\ question[q].status = "pending" /\ \A p \in Questions : p # q => question'[p] = question[p]
    BY <1>0, <1>1 DEF Exam!AcceptQuestion, Exam!RejectQuestion, Question
  <2>2. Rows' /\ Onward
    BY <1>0, <2>1, Keeping
  <2> QED
    BY <1>0, <2>1, <2>2, NotesKept DEF TxOnward, TxTypes, SealsAnswers, Step
<1>2. ASSUME NEW w \in Workers, NEW q \in Questions, Exam!DeleteRead(w, q)
      PROVE  Step
  <2> DEFINE t == [op |-> "delete", q |-> q]
  <2>1. Read(t)
    BY DEF Read, Transaction, DeleteRequest
  <2> QED
    BY <1>0, <1>2, <2>1, Beginning, RequestStep DEF Exam!DeleteRead
<1>3. ASSUME NEW w \in Workers, NEW q \in Questions, NEW by \in {"owner", "agent"}, Exam!EditRead(w, q, by)
      PROVE  Step
  <2> DEFINE t == [op |-> "edit", q |-> q, by |-> by]
  <2>1. Read(t)
    BY DEF Read, Transaction, EditRequest
  <2> QED
    BY <1>0, <1>3, <2>1, Beginning, RequestStep DEF Exam!EditRead
<1>4. ASSUME NEW w \in Workers, Exam!EditWrite(w)
      PROVE  Step
  <2>1. tx[w].q \in Questions
    <3>1. tx[w] \in Transaction /\ tx[w].op = "edit"
      BY <1>0, <1>4 DEF TxTypes, Exam!EditWrite
    <3> QED
      BY <3>1, Requests DEF EditRequest
  <2>2. /\ UNCHANGED <<sheets, note>> /\ question' \in [Questions -> Question]
        /\ \A p \in Questions : question'[p].status = question[p].status
    BY <1>0, <1>4, <2>1 DEF Exam!EditWrite, Question
  <2>3. Rows' /\ Onward
    BY <1>0, <2>2, Keeping
  <2>4. TxOnward
    BY <1>0, <1>4, Ending DEF Exam!EditWrite
  <2> QED
    BY <2>2, <2>3, <2>4, NotesKept DEF SealsAnswers, Step
<1>5. ASSUME NEW w \in Workers, Exam!DeleteWrite(w)
      PROVE  Step
  <2>1. Rows' /\ Onward
    BY <1>0, <1>5, DeletingQuestion
  <2>2. TxOnward
    BY <1>0, <1>5, Ending DEF Exam!DeleteWrite
  <2>3. SealsAnswers
    <3>1. \A s \in DOMAIN sheets : sheets'[s] = Erased(s, tx[w].q)
      BY <1>5 DEF Exam!DeleteWrite, Erased
    <3>2. tx[w].q \in Questions
      <4>1. tx[w] \in Transaction /\ tx[w].op = "delete"
        BY <1>0, <1>5 DEF TxTypes, Exam!DeleteWrite
      <4> QED
        BY <4>1, Requests DEF DeleteRequest
    <3>3. \A s \in DOMAIN sheets : sheets'[s].status = sheets[s].status
      BY <1>0, <3>1, <3>2, Erasing DEF Rows
    <3> QED
      BY <3>3 DEF SealsAnswers
  <2>4. NotesOnward
    <3> DEFINE q == tx[w].q
    <3>1. note' = [n \in Notes |-> IF note[n].q = q THEN [note[n] EXCEPT !.stage = "gone"] ELSE note[n]]
      BY <1>5 DEF Exam!DeleteWrite
    <3> HIDE DEF q
    <3>2. ASSUME NEW n \in Notes
          PROVE  /\ note'[n] \in Note /\ note'[n].sheet = note[n].sheet
                 /\ note'[n].stage = note[n].stage \/ note'[n].stage = "gone"
      BY <3>1 DEF Inv, NoteTypes, Note, Exam!Stages
    <3>3. note' \in [Notes -> Note]
      <4>1. note' = [n \in Notes |-> note'[n]]
        BY <3>1
      <4> QED
        BY <3>2, <4>1
    <3>4. Len(sheets) \in Nat /\ Len(sheets') \in Nat /\ Len(sheets) <= Len(sheets')
      BY <2>1 DEF Inv, Rows, RowTypes, Onward
    <3>5. \A n \in Notes : note[n].sheet \in 0 .. Len(sheets')
      BY <3>4 DEF Inv, NoteTypes
    <3>6. ASSUME NEW n \in Notes
          PROVE  /\ note'[n].sheet \in 0 .. Len(sheets')
                 /\ note[n].stage # "none" => note'[n].stage # "none"
                 /\ note[n].stage # "none" /\ note[n].sheet \in DOMAIN sheets => note'[n].sheet \in DOMAIN sheets'
                 /\ note'[n].stage \in {"draft", "submitted"} => note'[n].sheet \in DOMAIN sheets'
      BY <2>1, <3>2, <3>5 DEF Inv, References, Onward
    <3> QED
      BY <3>3, <3>6 DEF NotesOnward
  <2> QED
    BY <2>1, <2>2, <2>3, <2>4 DEF Step
<1> QED
  BY <1>1, <1>2, <1>3, <1>4, <1>5 DEF Exam!Bank

(* Steps on notes.                                                          *)
LEMMA AnnotationStep ==
  ASSUME Inv, Exam!Annotations
  PROVE  Step
<1>0. /\ Rows /\ TxTypes /\ note \in [Notes -> Note] /\ Len(sheets) \in Nat
      /\ DOMAIN sheets = 1 .. Len(sheets) /\ question \in [Questions -> Question]
  BY InvRows DEF Inv, NoteTypes, RowTypes
<1>1. ASSUME NEW n \in Notes, Exam!DeleteNote(n) \/ Exam!ConfirmNote(n) \/ \E q \in Questions : Exam!CreateNote(n, q)
      PROVE  Step
  <2>1. UNCHANGED <<question, sheets, tx>>
    BY <1>1 DEF Exam!DeleteNote, Exam!ConfirmNote, Exam!CreateNote
  <2>2. Rows' /\ Onward
    BY <1>0, <2>1, Keeping
  <2>3. TxOnward /\ SealsAnswers
    BY <1>0, <2>1 DEF TxTypes, TxOnward, SealsAnswers
  <2>4. PICK row \in Note :
          /\ note' = [note EXCEPT ![n] = row] /\ row.stage \in {"confirmed", "gone"}
          /\ row.sheet = IF note[n].stage = "none" THEN 0 ELSE note[n].sheet
    <3>1. CASE Exam!DeleteNote(n)
      <4> DEFINE row == [note[n] EXCEPT !.stage = "gone"]
      <4>1. row \in Note /\ row.stage = "gone" /\ row.sheet = note[n].sheet
        BY <1>0 DEF Note, Exam!Stages
      <4>2. note' = [note EXCEPT ![n] = row] /\ note[n].stage # "none"
        BY <3>1 DEF Exam!DeleteNote
      <4> QED
        BY <4>1, <4>2
    <3>2. CASE Exam!ConfirmNote(n)
      <4> DEFINE row == [note[n] EXCEPT !.stage = "confirmed"]
      <4>1. row \in Note /\ row.stage = "confirmed" /\ row.sheet = note[n].sheet
        BY <1>0 DEF Note, Exam!Stages
      <4>2. note' = [note EXCEPT ![n] = row] /\ note[n].stage # "none"
        BY <3>2 DEF Exam!ConfirmNote
      <4> QED
        BY <4>1, <4>2
    <3>3. ASSUME NEW q \in Questions, Exam!CreateNote(n, q)
          PROVE  \E row \in Note :
                   /\ note' = [note EXCEPT ![n] = row] /\ row.stage \in {"confirmed", "gone"}
                   /\ row.sheet = IF note[n].stage = "none" THEN 0 ELSE note[n].sheet
      <4> DEFINE row == [stage |-> "confirmed", q |-> q, sheet |-> 0, review |-> None]
      <4>1. row \in Note /\ row.stage = "confirmed" /\ row.sheet = 0
        BY DEF Note, Exam!Stages
      <4>2. note' = [note EXCEPT ![n] = row] /\ note[n].stage = "none"
        BY <3>3 DEF Exam!CreateNote
      <4> QED
        BY <4>1, <4>2
    <3> QED
      BY <1>1, <3>1, <3>2, <3>3
  <2>5. row.sheet \in 0 .. Len(sheets') /\ row.stage # "none" /\ row.stage \notin {"draft", "submitted"}
    BY <1>0, <2>1, <2>4 DEF Inv, NoteTypes
  <2>6. note[n].stage # "none" /\ note[n].sheet \in DOMAIN sheets => row.sheet \in DOMAIN sheets'
    BY <2>1, <2>4
  <2>7. NotesOnward
    BY <2>2, <2>4, <2>5, <2>6, NoteWritten
  <2> QED
    BY <2>2, <2>3, <2>7 DEF Step
<1>2. ASSUME NEW w \in Workers, NEW n \in Notes, NEW s \in 0 .. Len(sheets), Exam!WithdrawRead(w, n, s)
      PROVE  Step
  <2> DEFINE t == [op |-> "withdraw", n |-> n, s |-> s, origin |-> note[n].sheet]
  <2>1. note[n].sheet \in DOMAIN sheets /\ note[n].sheet \in Nat /\ s \in Nat
    BY <1>0, <1>2 DEF Exam!WithdrawRead, Inv, References
  <2>2. Read(t)
    BY <2>1 DEF Read, Transaction, WithdrawRequest
  <2> QED
    BY <1>0, <1>2, <2>2, Beginning, RequestStep DEF Exam!WithdrawRead
<1>3. ASSUME NEW w \in Workers, NEW n \in Notes, NEW s \in DOMAIN sheets, NEW q \in Questions,
             Exam!DraftNoteRead(w, n, q, s)
      PROVE  Step
  <2> DEFINE t == [op |-> "annotate", n |-> n, q |-> q, s |-> s]
  <2>1. s \in Nat
    BY <1>0
  <2>2. Read(t)
    BY <2>1 DEF Read, Transaction, NoteRequest
  <2> QED
    BY <1>0, <1>3, <2>2, Beginning, RequestStep DEF Exam!DraftNoteRead
<1>4. ASSUME NEW w \in Workers, Exam!DraftNoteWrite(w)
      PROVE  Step
  <2> DEFINE t == tx[w]
             row == [stage |-> "draft", q |-> t.q, sheet |-> t.s, review |-> None]
  <2>1. t \in NoteRequest /\ t.s \in DOMAIN sheets
    <3>1. t \in Transaction /\ t.op = "annotate"
      BY <1>0, <1>4 DEF TxTypes, Exam!DraftNoteWrite
    <3> QED
      BY <3>1, Requests DEF Inv, References
  <2>2. UNCHANGED <<question, sheets>> /\ note' = [note EXCEPT ![t.n] = row] /\ Exam!End(w)
    BY <1>4 DEF Exam!DraftNoteWrite
  <2>3. Rows' /\ Onward
    BY <1>0, <2>2, Keeping
  <2>4. row \in Note /\ t.n \in Notes /\ t.s \in 0 .. Len(sheets)
    BY <1>0, <2>1 DEF NoteRequest, Note, Exam!Stages
  <2>5. NotesOnward
    BY <2>1, <2>2, <2>3, <2>4, NoteWritten
  <2> QED
    BY <1>0, <2>2, <2>3, <2>5, Ending DEF SealsAnswers, Step
<1>5. ASSUME NEW w \in Workers, Exam!WithdrawWrite(w)
      PROVE  Step
  <2> DEFINE t == tx[w]
  <2>1. t \in WithdrawRequest /\ t.s \in 0 .. Len(sheets) /\ t.origin \in DOMAIN sheets /\ t.n \in Notes
    <3>1. t \in Transaction /\ t.op = "withdraw"
      BY <1>0, <1>5 DEF TxTypes, Exam!WithdrawWrite
    <3> QED
      BY <3>1, Requests DEF Inv, References, WithdrawRequest
  <2>2. UNCHANGED question /\ TxOnward
    BY <1>0, <1>5, Ending DEF Exam!WithdrawWrite
  <2>3. ASSUME NEW s \in Nat, Rows', Onward, s \in DOMAIN sheets', s \in 0 .. Len(sheets'),
               note' = [note EXCEPT ![t.n] = Exam!Withdrawn(@, s)]
        PROVE  NotesOnward
    <3> DEFINE row == Exam!Withdrawn(note[t.n], s)
    <3>1. row \in Note /\ row.sheet = s /\ row.stage = "draft"
      BY <1>0, <2>1 DEF Exam!Withdrawn, Note, Exam!Stages
    <3>2. note' = [note EXCEPT ![t.n] = row]
      BY <2>3
    <3> HIDE DEF row
    <3> QED
      BY <2>1, <2>3, <3>1, <3>2, NoteWritten
  <2>4. CASE UNCHANGED sheets /\ \E s \in IF t.s # 0 THEN {t.s} ELSE Exam!Drafts :
                                   note' = [note EXCEPT ![t.n] = Exam!Withdrawn(@, s)]
    <3>1. Rows' /\ Onward /\ SealsAnswers
      BY <1>0, <2>2, <2>4, Keeping DEF SealsAnswers
    <3>2. PICK s \in IF t.s # 0 THEN {t.s} ELSE Exam!Drafts : note' = [note EXCEPT ![t.n] = Exam!Withdrawn(@, s)]
      BY <2>4
    <3>4. s \in DOMAIN sheets
      <4>1. CASE t.s # 0
        BY <1>0, <2>1, <3>2, <4>1
      <4>2. CASE t.s = 0
        BY <3>2, <4>2 DEF Exam!Drafts
      <4> QED
        BY <4>1, <4>2
    <3>5. s \in Nat /\ s \in DOMAIN sheets' /\ s \in 0 .. Len(sheets')
      BY <1>0, <2>4, <3>4
    <3>3. NotesOnward
      BY <2>3, <3>1, <3>2, <3>5 DEF Step
    <3> QED
      BY <2>2, <3>1, <3>3 DEF Step
  <2>5. CASE /\ Exam!Drafts = {} /\ sheets' = Append(sheets, Exam!NewSheet(sheets[t.origin].list))
             /\ note' = [note EXCEPT ![t.n] = Exam!Withdrawn(@, Len(sheets'))]
    <3>1. sheets[t.origin].list \in SUBSET Questions
      BY <1>0, <2>1, SheetFacts DEF Rows
    <3>2. Rows' /\ Onward
      BY <1>0, <2>2, <2>5, <3>1, Opening
    <3>3. \A s \in DOMAIN sheets : sheets'[s] = sheets[s]
      BY <1>0, <2>5 DEF Rows, RowTypes
    <3>4. Len(sheets') = Len(sheets) + 1
      BY <1>0, <2>5, <3>1, NewSheetType DEF Rows, RowTypes
    <3>5. Len(sheets') \in DOMAIN sheets' /\ Len(sheets') \in 0 .. Len(sheets') /\ Len(sheets') \in Nat
      BY <1>0, <3>2, <3>4 DEF Rows, RowTypes
    <3>6. NotesOnward
      BY <2>3, <2>5, <3>2, <3>5
    <3> QED
      BY <2>2, <3>2, <3>3, <3>6 DEF SealsAnswers, Step
  <2> QED
    BY <1>5, <2>4, <2>5 DEF Exam!WithdrawWrite
<1> QED
  BY <1>1, <1>2, <1>3, <1>4, <1>5 DEF Exam!Annotations

(* Steps of graders.                                                        *)
LEMMA GradingStep ==
  ASSUME Inv, Exam!Grading
  PROVE  Step
<1>0. /\ Rows /\ TxTypes /\ note \in [Notes -> Note] /\ Len(sheets) \in Nat
      /\ DOMAIN sheets = 1 .. Len(sheets)
  BY InvRows DEF Inv, NoteTypes, RowTypes
<1>1. ASSUME NEW w \in Workers, NEW s \in DOMAIN sheets, NEW q \in Questions, NEW n \in Notes \cup {None},
             NEW v \in Exam!Verdicts, Exam!GradeRead(w, s, q, n, v)
      PROVE  Step
  <2> DEFINE stage == IF n = None THEN None ELSE Exam!NextStage(note[n].stage, v)
             t == [op |-> "grade", s |-> s, q |-> q, n |-> n, verdict |-> v, stage |-> stage]
  <2>1. n # None => n \in Notes /\ note[n].stage \in {"submitted", "confirmed"} /\ note[n].sheet = s
    BY <1>1 DEF Exam!GradeRead, Exam!Reviewable
  <2>2. /\ stage \in {"submitted", "confirmed", None}
        /\ n # None => stage \in {"submitted", "confirmed"}
    BY <2>1 DEF Exam!NextStage
  <2> HIDE DEF stage
  <2>3. s \in Nat
    BY <1>0
  <2>4. t \in GradeRequest
    BY <2>2, <2>3 DEF GradeRequest
  <2>5. sheets[s].status = "sealed" /\ sheets[s].attempts[q].state # "none"
    BY <1>1 DEF Exam!GradeRead, Exam!Gradable
  <2>6. Read(t)
    BY <2>1, <2>2, <2>4, <2>5 DEF Read, Transaction
  <2>7. Exam!Begin(w, t) /\ UNCHANGED <<question, sheets, note>>
    BY <1>1 DEF Exam!GradeRead, stage
  <2> HIDE DEF t
  <2> QED
    BY <1>0, <2>6, <2>7, Beginning, RequestStep
<1>2. ASSUME NEW w \in Workers, Exam!GradeWrite(w)
      PROVE  Step
  <2> DEFINE t == tx[w]
             s == t.s
  <2>0. Rows' /\ Onward
    BY <1>0, <1>2, GradeWriting DEF Inv
  <2>1. TxOnward
    BY <1>0, <1>2, Ending DEF Exam!GradeWrite
  <2>2. t \in GradeRequest /\ s \in DOMAIN sheets /\ sheets[s].status = "sealed"
    <3>1. t \in Transaction /\ t.op = "grade"
      BY <1>0, <1>2 DEF TxTypes, Exam!GradeWrite
    <3> QED
      BY <3>1, Requests DEF Inv, References, GradersSawAttempts
  <2>3. SealsAnswers
    <3>1. \A r \in DOMAIN sheets : r # s => sheets'[r] = sheets[r]
      BY <1>2 DEF Exam!GradeWrite
    <3> QED
      BY <2>2, <3>1 DEF SealsAnswers
  <2>4. NotesOnward
    <3>1. CASE t.n = None
      BY <1>2, <2>0, <3>1, NotesKept DEF Exam!GradeWrite
    <3>2. CASE t.n # None
      <4>1. PICK m \in Notes, v \in Exam!Verdicts, stage \in {"submitted", "confirmed"} :
              m = t.n /\ v = t.verdict /\ stage = t.stage /\ note[m].sheet \in DOMAIN sheets /\ note[m].stage # "none"
        BY <2>2, <3>2 DEF GradeRequest, Inv, References
      <4>2. note' = [note EXCEPT ![m].review = v, ![m].stage = stage]
        BY <1>2, <3>2, <4>1 DEF Exam!GradeWrite
      <4> DEFINE row == [note[m] EXCEPT !.review = v, !.stage = stage]
      <4>3. note' = [note EXCEPT ![m] = row] /\ row \in Note /\ row.sheet = note[m].sheet /\ row.stage = stage
        <5>1. note[m] \in Note /\ stage \in Exam!Stages /\ v \in Exam!Verdicts \cup {None}
          BY <1>0 DEF Exam!Stages
        <5> QED
          BY <1>0, <4>2, <5>1 DEF Note
      <4> HIDE DEF row
      <4>4. row.sheet \in DOMAIN sheets' /\ row.sheet \in 0 .. Len(sheets')
        BY <2>0, <4>1, <4>3 DEF Onward, Rows, RowTypes
      <4> QED
        BY <2>0, <4>1, <4>2, <4>3, <4>4, NoteWritten
    <3> QED
      BY <3>1, <3>2
  <2> QED
    BY <2>0, <2>1, <2>3, <2>4 DEF Step
<1> QED
  BY <1>1, <1>2 DEF Exam!Grading

(* Every step.                                                              *)
LEMMA Progressing ==
  ASSUME Inv, Exam!Next
  PROVE  Step
<1>1. ASSUME NEW w \in Workers, Exam!Rollback(w)
      PROVE  Step
  BY <1>1, Ending, RequestStep DEF Exam!Rollback, Inv
<1> QED
  BY <1>1, SittingStep, BankStep, AnnotationStep, GradingStep DEF Exam!Next

(* No step.                                                                 *)
LEMMA StutterStep ==
  ASSUME Inv, UNCHANGED Exam!vars
  PROVE  Step
  BY RequestStep DEF Exam!vars, TxOnward, Inv, TxTypes

(* The invariant is inductive.                                              *)
LEMMA InvNext ==
  ASSUME Inv, [Exam!Next]_Exam!vars
  PROVE  Inv' /\ Step
<1>1. Step
  BY Progressing, StutterStep
<1>2. NoteTypes'
  BY <1>1 DEF Step, NotesOnward, NoteTypes
<1>3. TxTypes' /\ References' /\ GradersSawAttempts' /\ SealsAreCurrent'
  BY <1>1, TxStep DEF Step
<1> QED
  BY <1>1, <1>2, <1>3 DEF Step, Rows, Inv

(* And holds at the start.                                                  *)
LEMMA InvInit == Exam!Init => Inv
<1> SUFFICES ASSUME Exam!Init PROVE Inv
  OBVIOUS
<1>1. sheets = <<>> /\ sheets \in Seq(Sheet) /\ DOMAIN sheets = {} /\ Len(sheets) = 0
  BY DEF Exam!Init
<1>2. RowTypes
  BY <1>1 DEF Exam!Init, RowTypes, Question
<1>3. NoteTypes /\ \A n \in Notes : note[n].stage = "none"
  BY <1>1 DEF Exam!Init, NoteTypes, Exam!NoNote, Note, Exam!Stages
<1>4. TxTypes /\ \A w \in Workers : tx[w].op = "idle"
  BY DEF Exam!Init, TxTypes, Transaction, Exam!Idle
<1>5. References /\ GradersSawAttempts /\ SealsAreCurrent
  BY <1>3, <1>4 DEF References, GradersSawAttempts, SealsAreCurrent
<1> QED
  BY <1>1, <1>2, <1>3, <1>4, <1>5 DEF OneDraft, Graded, AnswersAreScoped, Inv

(* The invariant of the exam archive holds in every behaviour.              *)
THEOREM InvHolds == Exam!Spec => []Inv
<1> QED
  BY InvInit, InvNext, PTL DEF Exam!Spec

-----------------------------------------------------------------------------
(* It says of each row what the property says.                              *)
LEMMA InvGraded == Inv => GradedHasAttempt
<1> SUFFICES ASSUME Inv PROVE GradedHasAttempt
  OBVIOUS
<1>1. \A q \in Questions : question[q] \in Question
  BY DEF Inv, RowTypes
<1>2. \A n \in Notes : note[n] \in Note /\ note[n].sheet \in 0 .. Len(sheets)
  BY DEF Inv, NoteTypes
<1>3. ASSUME NEW s \in DOMAIN sheets
      PROVE  /\ sheets[s].status \in {"draft", "sealed", "discarded"}
             /\ sheets[s].list \subseteq Questions
             /\ sheets[s].answers \in [Questions -> Answers \cup {None}]
             /\ \A q \in Questions : sheets[s].attempts[q].state \in {"none", "active", "deleted"}
  BY SheetFacts DEF Inv, Marks, Attempt
<1>4. Exam!TypeOK
  BY <1>1, <1>2, <1>3 DEF Exam!TypeOK, Question, Note, Inv, OneDraft
<1> QED
  BY <1>4 DEF GradedHasAttempt, Exam!GradedHasAttempt, Inv, Graded

(* For any questions, notes, answers and overlapping transactions a verdict *)
(* is about an attempt, and a scope has one draft (l3-grading.service.ts,   *)
(* l3-sheets.repository.ts).                                                *)
THEOREM GradedCorrect == Exam!Spec => []GradedHasAttempt
  BY InvHolds, InvGraded, PTL

(* For any saves, edits and deletions while a seal is under way, the        *)
(* attempts written are the answers the sheet has then (sealSheet).         *)
THEOREM SealsCorrect == Exam!Spec => SealKeepsAnswers
<1>1. Inv /\ [Exam!Next]_Exam!vars => [\A s \in DOMAIN sheets :
        sheets[s].status = "draft" /\ sheets'[s].status = "sealed" =>
          \A q \in Questions :
            sheets'[s].attempts[q].answer = IF q \in Exam!Active THEN sheets[s].answers[q] ELSE None]_Exam!vars
  BY InvNext DEF Step, SealsAnswers
<1> QED
  BY <1>1, InvHolds, PTL DEF Exam!Spec, SealKeepsAnswers, Exam!SealKeepsAnswers

(* For any questions and overlapping transactions an agent whose edit       *)
(* changes a question found it pending (updateQuestion, editable_statuses). *)
THEOREM AgentsCorrect == Exam!Spec => AgentLeavesActiveAlone
<1>1. Inv /\ [Exam!Next]_Exam!vars => [\A w \in Workers :
        tx[w].op = "edit" /\ tx'[w] = Exam!Idle /\ question' # question =>
          question[tx[w].q].status = "pending" \/ tx[w].by = "owner"]_Exam!vars
  <2> SUFFICES ASSUME Inv, Exam!Next, NEW w \in Workers, tx[w].op = "edit", tx'[w] = Exam!Idle, question' # question
               PROVE  question[tx[w].q].status = "pending" \/ tx[w].by = "owner"
    BY DEF Exam!vars
  <2>1. tx[w] # Exam!Idle
    BY DEF Exam!Idle
  <2>2. \/ \E q \in Questions : Exam!AcceptQuestion(q) \/ Exam!RejectQuestion(q)
        \/ \E v \in Workers : Exam!EditWrite(v) \/ Exam!DeleteWrite(v)
    BY DEF Exam!Next, Exam!Sitting, Exam!Bank, Exam!Annotations, Exam!Grading, Exam!OpenSheet, Exam!PatchSheet, Exam!SealRead, Exam!SealWrite,
           Exam!DeleteAttempt, Exam!DeleteRead, Exam!EditRead, Exam!DeleteNote, Exam!ConfirmNote, Exam!CreateNote, Exam!WithdrawRead,
           Exam!DraftNoteRead, Exam!DraftNoteWrite, Exam!WithdrawWrite, Exam!GradeRead, Exam!GradeWrite, Exam!Rollback
  <2>3. CASE \E q \in Questions : Exam!AcceptQuestion(q) \/ Exam!RejectQuestion(q)
    BY <2>1, <2>3 DEF Exam!AcceptQuestion, Exam!RejectQuestion
  <2>4. ASSUME NEW v \in Workers, Exam!EditWrite(v) \/ Exam!DeleteWrite(v)
        PROVE  v = w /\ Exam!EditWrite(w)
    <3>1. v = w
      BY <2>1, <2>4 DEF Exam!EditWrite, Exam!DeleteWrite, Exam!End, Inv, TxTypes
    <3> QED
      BY <2>4, <3>1 DEF Exam!DeleteWrite
  <2>5. CASE \E v \in Workers : Exam!EditWrite(v) \/ Exam!DeleteWrite(v)
    <3>1. Exam!EditWrite(w)
      BY <2>4, <2>5
    <3>2. tx[w] \in EditRequest
      BY Requests DEF Inv, TxTypes
    <3> QED
      BY <3>1, <3>2 DEF Exam!EditWrite, Exam!EditMatches, Exam!Editable, EditRequest
  <2> QED
    BY <2>2, <2>3, <2>5
<1> QED
  BY <1>1, InvHolds, PTL DEF Exam!Spec, AgentLeavesActiveAlone, Exam!AgentLeavesActiveAlone
=============================================================================
