------------------------------- MODULE WritingTask -------------------------------
(***************************************************************************)
(* A writing task on the server: its sheets (drafts and revisions), the     *)
(* attempt that holds the text of a revision, and the feedback on it.       *)
(*                                                                         *)
(* Every operation locks the task and then the sheet (FOR UPDATE) and is    *)
(* one transaction, so one step.  Requests carry any version and any text:  *)
(* a call that is repeated, late or made from an old page is among them.    *)
(* An operation that is refused, and one that is answered from what is      *)
(* there already (a submit of a sealed sheet, a feedback request repeated,  *)
(* a second createDraft from the same parent), changes nothing.  A hash is  *)
(* the text it is of.                                                      *)
(***************************************************************************)
EXTENDS Naturals

CONSTANTS
  Sheets,      \* identities of sheets
  NoSheet,
  Texts,       \* texts that are not blank
  Blank,
  Keys,        \* requestIds of feedback
  NoKey,
  MaxVersion   \* bound of the versions of drafts and feedback

ASSUME WritingTaskAssumption ==
  /\ NoSheet \notin Sheets /\ Blank \notin Texts /\ NoKey \notin Keys
  /\ MaxVersion \in Nat

VARIABLES
  task,       \* status of the task
  status,     \* of each sheet; "absent" before it is created
  version,    \* draft_version
  text,       \* answers[questionId].text
  parent,     \* parent_sheet_id
  no,         \* revision_no, 0 for none
  attempt,    \* status of the attempt of the sheet
  body,       \* its answer.text
  feedback    \* the feedback row: version (0: no row), text_sha256, request_id

vars == <<task, status, version, text, parent, no, attempt, body, feedback>>

AllTexts == Texts \cup {Blank}

NoFeedback == [ver |-> 0, of |-> Blank, key |-> NoKey]

Feedbacks == [ver : Nat, of : AllTexts, key : Keys \cup {NoKey}]

Sealed == {s \in Sheets : status[s] = "sealed"}
Drafts == {s \in Sheets : status[s] = "draft"}

Numbers == {no[s] : s \in Sealed}

NextNo_AmongAvailable ==
  (CHOOSE n \in {no[s] : s \in {r \in Sealed : attempt[r] = "active"}} \cup {0} :
     \A s \in Sealed : attempt[s] = "active" => no[s] <= n) + 1

(* findMaxRevisionNo + 1, under the lock of the task. *)
NextNo == (CHOOSE n \in Numbers \cup {0} : \A m \in Numbers : m <= n) + 1

-----------------------------------------------------------------------------
MaySave(s, v) == status[s] = "draft" /\ version[s] = v

SaveDraft(s, v, t) ==
  /\ MaySave(s, v) /\ v < MaxVersion
  /\ version' = [version EXCEPT ![s] = v + 1]
  /\ text' = [text EXCEPT ![s] = t]
  /\ UNCHANGED <<task, status, parent, no, attempt, body, feedback>>

(* The text moves from the draft into the attempt. *)
Submit(s, v) ==
  /\ task = "active" /\ status[s] = "draft" /\ version[s] = v
  /\ text[s] # Blank
  /\ no' = [no EXCEPT ![s] = NextNo]
  /\ attempt' = [attempt EXCEPT ![s] = "active"]
  /\ body' = [body EXCEPT ![s] = text[s]]
  /\ status' = [status EXCEPT ![s] = "sealed"]
  /\ version' = [version EXCEPT ![s] = v + 1]
  /\ text' = [text EXCEPT ![s] = Blank]
  /\ UNCHANGED <<task, parent, feedback>>

(* findDraftByTask: a draft from the same parent is taken up again, one from *)
(* another parent is a conflict.                                           *)
Occupied(p) == Drafts # {}

(* The parent is a revision whose text was not cleared.                     *)
Copyable(p) == status[p] = "sealed" /\ attempt[p] = "active"

CreateDraft(s, p, copy) ==
  /\ task = "active" /\ status[s] = "absent"
  /\ p # NoSheet => Copyable(p)
  /\ copy => p # NoSheet
  /\ ~Occupied(p)
  /\ status' = [status EXCEPT ![s] = "draft"]
  /\ parent' = [parent EXCEPT ![s] = p]
  /\ text' = [text EXCEPT ![s] = IF copy THEN body[p] ELSE Blank]
  /\ UNCHANGED <<task, version, no, attempt, body, feedback>>

MayDiscard(s, v) == status[s] = "draft" /\ version[s] = v

Discard(s, v) ==
  /\ MayDiscard(s, v)
  /\ status' = [status EXCEPT ![s] = "discarded"]
  /\ text' = [text EXCEPT ![s] = Blank]
  /\ UNCHANGED <<task, version, parent, no, attempt, body, feedback>>

Remaining_Kept(s) == feedback[s]

(* The feedback quotes the text: it goes in the same transaction.           *)
Remaining(s) == NoFeedback

(* clearRevisionContent; the row of the attempt stays, as deleted. *)
ClearContent(s) ==
  /\ status[s] = "sealed"
  /\ attempt' = [attempt EXCEPT ![s] = IF @ = "active" THEN "deleted" ELSE @]
  /\ feedback' = [feedback EXCEPT ![s] = Remaining(s)]
  /\ UNCHANGED <<task, status, version, text, parent, no, body>>

(* putFeedback: the key of the row answers a repeated request; else the      *)
(* version must be the expected one, 0 for the first.                       *)
MayPut(s, t, v, k) ==
  /\ status[s] = "sealed" /\ attempt[s] = "active"
  /\ t = body[s]
  /\ k # feedback[s].key /\ feedback[s].ver = v

PutFeedback(s, t, v, k) ==
  /\ MayPut(s, t, v, k) /\ v < MaxVersion
  /\ feedback' = [feedback EXCEPT ![s] = [ver |-> v + 1, of |-> t, key |-> k]]
  /\ UNCHANGED <<task, status, version, text, parent, no, attempt, body>>

MayArchive == Drafts = {}

Archive ==
  /\ MayArchive
  /\ task' = "archived"
  /\ UNCHANGED <<status, version, text, parent, no, attempt, body, feedback>>

Restore ==
  /\ task' = "active"
  /\ UNCHANGED <<status, version, text, parent, no, attempt, body, feedback>>

-----------------------------------------------------------------------------
(* The task is created with one empty draft, in one transaction. *)
Init ==
  /\ task = "active"
  /\ \E s \in Sheets : status = [r \in Sheets |-> IF r = s THEN "draft" ELSE "absent"]
  /\ version = [s \in Sheets |-> 0]
  /\ text = [s \in Sheets |-> Blank]
  /\ parent = [s \in Sheets |-> NoSheet]
  /\ no = [s \in Sheets |-> 0]
  /\ attempt = [s \in Sheets |-> "none"]
  /\ body = [s \in Sheets |-> Blank]
  /\ feedback = [s \in Sheets |-> NoFeedback]

Next ==
  \/ \E s \in Sheets, v \in 0..MaxVersion :
       \/ \E t \in AllTexts : SaveDraft(s, v, t)
       \/ Submit(s, v)
       \/ Discard(s, v)
       \/ \E t \in Texts, k \in Keys : PutFeedback(s, t, v, k)
  \/ \E s \in Sheets, p \in Sheets \cup {NoSheet}, copy \in BOOLEAN : CreateDraft(s, p, copy)
  \/ \E s \in Sheets : ClearContent(s)
  \/ Archive
  \/ Restore

Spec == Init /\ [][Next]_vars

-----------------------------------------------------------------------------
(* Properties *)

(* Type invariant; the text is in the draft or in the attempt, never in both.*)
TypeOK ==
  /\ task \in {"active", "archived"}
  /\ status \in [Sheets -> {"absent", "draft", "sealed", "discarded"}]
  /\ version \in [Sheets -> Nat]
  /\ text \in [Sheets -> AllTexts]
  /\ parent \in [Sheets -> Sheets \cup {NoSheet}]
  /\ no \in [Sheets -> Nat]
  /\ attempt \in [Sheets -> {"none", "active", "deleted"}]
  /\ body \in [Sheets -> AllTexts]
  /\ feedback \in [Sheets -> Feedbacks]
  /\ \A s \in Sheets : /\ status[s] # "draft" => text[s] = Blank
                       /\ status[s] # "sealed" => attempt[s] = "none" /\ body[s] = Blank

(* The revisions are numbered 1, 2, ... in the order they were submitted,    *)
(* whatever is discarded or cleared in between: no number twice, none left   *)
(* out, and a revision has a higher one than the revision it was made from.  *)
RevisionsAreNumbered ==
  /\ \A r, s \in Sealed : no[r] = no[s] => r = s
  /\ \A s \in Sealed : no[s] > 0 /\ (no[s] > 1 => \E r \in Sealed : no[s] = no[r] + 1)
  /\ \A s \in Sealed : parent[s] # NoSheet => parent[s] \in Sealed /\ no[parent[s]] < no[s]

(* Feedback is only ever on a revision whose text is there, and of that      *)
(* text: nothing of a cleared text is left in it.                           *)
FeedbackBindsContent ==
  \A s \in Sheets :
    feedback[s].ver > 0 => /\ status[s] = "sealed" /\ attempt[s] = "active"
                           /\ feedback[s].of = body[s]

(* A task has at most one draft, and none when it is archived.              *)
OneOpenDraft ==
  /\ \A r, s \in Drafts : r = s
  /\ task = "archived" => Drafts = {}

(* A revision stays what it is: its number and its text never change, it     *)
(* does not become a draft again, and a text once cleared does not return.   *)
RevisionsAreFinal ==
  [][\A s \in Sealed :
       /\ status'[s] = "sealed" /\ no'[s] = no[s] /\ body'[s] = body[s]
       /\ attempt[s] = "deleted" => attempt'[s] = "deleted"]_vars
=============================================================================
