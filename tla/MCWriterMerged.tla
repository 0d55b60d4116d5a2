--------------------------- MODULE MCWriterMerged ---------------------------
(***************************************************************************)
(* Two fix Jobs of one Sentry issue (an issue gets a task for every day on *)
(* which it is seen) and the sentence of docs/fix-lane.md about a run that *)
(* crashed between filing the spec and opening the pull request.  Which    *)
(* runs did is recorded in a history variable, beside the writer as it is. *)
(***************************************************************************)
EXTENDS MCSpecWriter

VARIABLE interrupted   \* runs that died between the two calls

(* Run r dies with its spec on the branch and no pull request yet.         *)
DiesBetween(r) ==
  LET h == target[r] IN
  /\ pc[r] \in {"readBase", "listPulls", "createPull"} /\ pc'[r] = "idle"
  /\ file[h] = IssueOf[r] /\ pulls[h] = <<>>

Remember == interrupted' = interrupted \cup {r \in Runs : DiesBetween(r)}

(* Every action of the writer, under the fairness of FairSpec.             *)
RememberingSpec ==
  /\ Init /\ interrupted = {}
  /\ [][Next /\ Remember]_<<vars, interrupted>>
  /\ \A r \in Runs : WF_vars(Step(r))

(* docs/fix-lane.md: "a run that crashed between the two calls completes on *)
(* its next attempt".  Here it may take as many attempts as it likes.      *)
InterruptedCompletes ==
  \A r \in Runs : r \in interrupted ~> pc[r] \in {"recorded", "declined"}
=============================================================================
