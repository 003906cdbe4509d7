---------------------------- MODULE MCWritingDraft ----------------------------
(* Small instances of WritingDraft for TLC. *)
EXTENDS WritingDraft, TLC
=============================================================================
