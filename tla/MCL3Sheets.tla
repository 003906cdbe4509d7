------------------------------- MODULE MCL3Sheets -------------------------------
(***************************************************************************)
(* The server side of the two kinds of L3 sheets: a writing task, and the   *)
(* exam sheets of a scope.  They share no row here, so a behaviour runs one *)
(* of them, chosen at the start, and leaves the other as it is.             *)
(***************************************************************************)
EXTENDS WritingTask, TLC

CONSTANTS Workers, Questions, Notes, Answers, None, MaxSheets, MaxFace, MaxPatches

VARIABLES
  kind,                       \* the kind of sheets that runs
  question, sheets, note, tx

archive == <<question, sheets, note, tx>>

Exam == INSTANCE ExamArchive

SheetsInit ==
  /\ kind \in {"writing", "exam"}
  /\ Init
  /\ Exam!Init /\ (kind = "writing" => \A q \in Questions : question[q].status = "active")

SheetsNext ==
  \/ kind = "writing" /\ Next /\ UNCHANGED <<kind, archive>>
  \/ kind = "exam" /\ Exam!Next /\ UNCHANGED <<kind, vars>>

SheetsSpec == SheetsInit /\ [][SheetsNext]_<<kind, vars, archive>>

Symmetry == Permutations(Sheets) \cup Permutations(Workers)

-----------------------------------------------------------------------------
(* Properties of the archive, an instance here *)

(* A verdict has the attempt it is about, whatever is sealed, graded or     *)
(* deleted meanwhile (ExamArchive).                                        *)
GradedHasAttempt == Exam!GradedHasAttempt

(* The attempts of a sheet are the answers it had at its seal (ExamArchive). *)
SealKeepsAnswers == Exam!SealKeepsAnswers

(* An agent leaves accepted questions alone (ExamArchive).                  *)
AgentLeavesActiveAlone == Exam!AgentLeavesActiveAlone
=============================================================================
