----------------------------- MODULE Judgement -----------------------------
(***************************************************************************)
(* What a verdict section promises its readers, whatever its text looks    *)
(* like: one judgement turns what the model answered into what the section *)
(* says from then on (finalizeVerdict of pkg/steps/reassign.go and the     *)
(* same sequence in pkg/steps/disqualifier-guard.go).  VerdictBlock is the *)
(* line-by-line editing that implements it; TaskPipeline relies on it.     *)
(***************************************************************************)

CONSTANT CanonicalId(_)   \* the identity of a reference

VARIABLES
  reading,    \* what the section says
  judged      \* has it been judged?

(* `unanalyzable` does not stand beside a cause or fix of its own.          *)
Guarded(r) == IF r.label = "unanalyzable" /\ r.named THEN "real bug" ELSE r.label

(* A fired disqualifier forces every label but that one.                   *)
Forced(r) ==
  IF r.live = "firing" /\ Guarded(r) # "unanalyzable" THEN "real bug" ELSE Guarded(r)

(* The binary's own fields are its own: a band where there are dates, a     *)
(* promotion where something fired.                                        *)
Final(r) ==
  [r EXCEPT !.label = Forced(r), !.id = CanonicalId(@),
            !.urgency = IF r.live = "undated" THEN "absent" ELSE "computed",
            !.promoted = IF r.live = "firing" THEN "computed" ELSE "absent"]

Init == judged = FALSE

Judge ==
  /\ ~judged /\ judged' = TRUE
  /\ reading' = Final(reading)

Spec == Init /\ [][Judge]_<<reading, judged>>
=============================================================================
