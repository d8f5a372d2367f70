-------------------------- MODULE MCAnswerThreads --------------------------
(* AnswerThreads for TLC. *)
EXTENDS AnswerThreads
=============================================================================
