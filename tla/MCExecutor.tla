----------------------------- MODULE MCExecutor -----------------------------
(* Executor for TLC: the second call does not fit a chunk, nor does any answer to the first *)
(* or the second. *)
EXTENDS Executor

MCLarge == {2}
MCLargeAnswers == {1, 2}
=============================================================================
