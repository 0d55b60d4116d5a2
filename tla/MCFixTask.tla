----------------------------- MODULE MCFixTask ------------------------------
(* Small instances of FixTask: an admitted, a refused and, where the run    *)
(* wants one, a misconfigured repository.                                  *)
EXTENDS FixTask, TLC

CONSTANTS p1, p2, p3

OneRefused == [p \in Repos |-> IF p = p2 THEN "refused" ELSE "admitted"]
OneBroken == [p \in Repos |-> IF p = p3 THEN "broken" ELSE "admitted"]
=============================================================================
