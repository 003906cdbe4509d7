----------------------------- MODULE MCExamSheet -----------------------------
(* Small instances of ExamSheet for TLC. *)
EXTENDS ExamSheet
=============================================================================
