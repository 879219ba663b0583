---------------------------- MODULE MC_Scheduler ----------------------------
EXTENDS Scheduler

CONSTANTS j1, j2

(* Two jobs: one can be restarted or cancelled while the other runs. *)
MCJobs == {j1, j2}

=============================================================================
