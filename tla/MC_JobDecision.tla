--------------------------- MODULE MC_JobDecision ---------------------------
EXTENDS JobDecision

CONSTANTS w1, w2

(* Two solvers and a validation job on the commits before ("h~") and after *)
(* ("h") a bug fix.                                                        *)
MCSubJobs == {1, 2}
MCWorkers == {w1, w2}
MCCommit == [j \in MCSubJobs |-> [hash |-> "h", tilde |-> j = 1]]

(* VTG puts nothing (a component failed first) or one status. *)
MCStatusChoices == {<<>>, <<[vo |-> "o1", rs |-> "r1", st |-> "unsafe"]>>}

(* Ideal verdicts: for the sub-job before the fix every list of one or  *)
(* two of an exact, an object-only, a rule-only and a catch-all verdict, *)
(* with alternating verdicts; for the one after it every single verdict. *)
MCEntries ==
  {[vo |-> "o1", rs |-> "r1", iv |-> "unsafe"], [vo |-> "o1", rs |-> Absent, iv |-> "safe"],
   [vo |-> Absent, rs |-> "r1", iv |-> "unsafe"], [vo |-> Absent, rs |-> Absent, iv |-> "safe"]}
MCIdealChoices(j) ==
  {<<e>> : e \in MCEntries}
    \cup IF j = 1 THEN {<<e, f>> \in MCEntries \X MCEntries : e # f} ELSE {}

=============================================================================
