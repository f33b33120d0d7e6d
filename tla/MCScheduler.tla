----------------------------- MODULE MCScheduler -----------------------------
(* Scheduler for TLC: requests that share their first block. *)
EXTENDS Scheduler

\* With max_model_len = 5 the first request grows to it, and the third prompt fills the
\* whole of it.
MCPrompt == <<<<1, 1, 2>>, <<1, 1>>, <<1, 1, 2, 1, 1>>>>
=============================================================================
