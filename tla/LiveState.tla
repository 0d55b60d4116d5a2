------------------------------ MODULE LiveState ------------------------------
(***************************************************************************)
(* What a verdict says of one alert's live state, pass after pass: the      *)
(* disqualifiers and the urgency band (pkg/verdict/disqualifiers.go and     *)
(* urgency.go) as applyDisqualifiers (pkg/steps/reassign.go) stamps them    *)
(* on the block of the triage agent and then of the deep analyzer.          *)
(*                                                                         *)
(* The model reads the alert some time before the binary evaluates what it *)
(* read; in between the clock moves, and so does the alert.  Times are      *)
(* hours; a label other than "real bug" and "unanalyzable" is "noise".     *)
(***************************************************************************)
EXTENDS Integers

CONSTANTS
  Counts,        \* event counts an alert may have
  Times,         \* instants, in hours
  Firsts,        \* instants at which an alert may have been first seen
  Unknown,       \* the count could not be measured
  MaxPasses      \* bound: verdicts written for the alert

ASSUME LiveStateAssumption ==
  /\ Counts \subseteq Nat /\ Times \subseteq Nat /\ Firsts \subseteq Times
  /\ Unknown \notin Nat
  /\ MaxPasses \in Nat

VolumeThreshold == 10000
BurstEventThreshold == 1000
BurstWindow == 24
SpanThreshold == 30 * 24
MinSpanCount == 100
SoonWindow == 7 * 24
SoonMinCount == 100
SoonCountFloor == 1000

Disqualifiers == {"Volume", "Active burst", "Regressed", "Sustained span"}
Bands == {"now", "soon", "someday"}
Labels == {"real bug", "noise", "unanalyzable"}
Alerts == [count : Counts, first : Firsts, last : Times, regressed : BOOLEAN]

(* What the model reports: the alert, its count or its dates possibly       *)
(* unavailable; claimed: a disqualifiers_fired list of the model's own.     *)
Evidence == [count : Counts \cup {Unknown}, first : Firsts, last : Times,
             regressed : BOOLEAN, dated : BOOLEAN, claimed : BOOLEAN]
Blocks == [label : Labels, urgency : Bands \cup {"none"},
           fired : SUBSET (Disqualifiers \cup {"claimed"}),
           promoted : BOOLEAN, on : Evidence]

VARIABLES
  now,       \* the clock
  alert,     \* the alert at Sentry
  passes,    \* verdicts written: the first by triage, the others by deep
  asked,     \* is a model's answer waiting to be finalized?
  answer,    \* its label
  seen,      \* its evidence
  block      \* the ## Verdict block of the last pass

vars == <<now, alert, passes, asked, answer, seen, block>>

Reported(dated, known, claimed) ==
  [count |-> IF known THEN alert.count ELSE Unknown,
   first |-> alert.first, last |-> alert.last, regressed |-> alert.regressed,
   dated |-> dated, claimed |-> claimed]

(* Sentry's timestamps are taken as they come: a skewed clock puts them in   *)
(* the future or in the wrong order.                                       *)
Init ==
  /\ now \in Times
  /\ alert \in Alerts
  /\ passes = 0
  /\ asked = FALSE
  /\ answer = "noise"
  /\ seen = Reported(FALSE, FALSE, FALSE)
  /\ block = [label |-> "noise", urgency |-> "none", fired |-> {},
              promoted |-> FALSE, on |-> seen]

-----------------------------------------------------------------------------
(***************************************************************************)
(* The evaluator, against one instant t.                                   *)
(***************************************************************************)

Known(e) == e.count # Unknown

(* More than 30 days between first and last, at an event a day or 100 in   *)
(* all: about the rate, not the age.                                       *)
SustainedSpanFires(e) ==
  /\ Known(e)
  /\ e.last > e.first + SpanThreshold
  /\ e.count * 24 >= e.last - e.first \/ e.count >= MinSpanCount

(* A last_seen in the future counts as just now.                            *)
Within(e, t, window) == t <= e.last + window
Exceeds(e, n) == Known(e) /\ e.count > n
Reaches(e, n) == Known(e) /\ e.count >= n

DisqualifiersAt(e, t) ==
  {d \in Disqualifiers :
     \/ d = "Volume" /\ Exceeds(e, VolumeThreshold)
     \/ d = "Active burst" /\ Exceeds(e, BurstEventThreshold) /\ Within(e, t, BurstWindow)
     \/ d = "Regressed" /\ e.regressed
     \/ d = "Sustained span" /\ SustainedSpanFires(e)}

(* A plausible bug, which nothing uses: an age whose operands are swapped.   *)
PressingSwapped(e, t) ==
  \/ Exceeds(e, VolumeThreshold)
  \/ Exceeds(e, BurstEventThreshold) /\ e.last <= t - BurstWindow
  \/ e.regressed

(* The "now" branch restates three disqualifiers; Sustained span it leaves  *)
(* out on purpose.                                                         *)
Pressing(e, t) ==
  \/ Exceeds(e, VolumeThreshold)
  \/ Exceeds(e, BurstEventThreshold) /\ Within(e, t, BurstWindow)
  \/ e.regressed

Scheduled(e, t) ==
  \/ Reaches(e, SoonMinCount) /\ Within(e, t, SoonWindow)
  \/ Reaches(e, SoonCountFloor)

UrgencyAt(e, t) ==
  CASE Pressing(e, t) -> "now"
    [] ~Pressing(e, t) /\ Scheduled(e, t) -> "soon"
    [] OTHER -> "someday"

-----------------------------------------------------------------------------
(***************************************************************************)
(* One pass of applyDisqualifiers.                                         *)
(***************************************************************************)

(* Without dates nothing is evaluated: the label and a list of the model's  *)
(* own stand, urgency and promoted are stripped.                           *)
Unevaluated(e, label) ==
  [label |-> label, urgency |-> "none",
   fired |-> IF e.claimed THEN {"claimed"} ELSE {},
   promoted |-> FALSE, on |-> e]

(* A list of the model's own is replaced when a disqualifier fires, and     *)
(* left when none does.                                                    *)
Evaluated(e, label, urgency, fired) ==
  [label |-> IF fired # {} /\ label # "unanalyzable" THEN "real bug" ELSE label,
   urgency |-> urgency,
   fired |-> IF fired # {} THEN fired
             ELSE IF e.claimed THEN {"claimed"} ELSE {},
   promoted |-> fired # {}, on |-> e]

(* The model reads the alert and answers.                                  *)
Answer(label, dated, known, claimed) ==
  /\ ~asked /\ asked' = TRUE
  /\ passes < MaxPasses /\ passes' = passes + 1
  /\ answer' = label
  /\ seen' = Reported(dated, known, claimed)
  /\ UNCHANGED <<now, alert, block>>

(* Plausible bugs: Evaluate and EvaluateUrgency, each reading the clock;    *)
(* and the unavailable dates taken for zero ones.                          *)
FinalizeTwice ==
  /\ asked /\ asked' = FALSE
  /\ \E t \in Times :
       /\ t >= now /\ now' = t
       /\ block' = IF seen.dated
                   THEN Evaluated(seen, answer, UrgencyAt(seen, t), DisqualifiersAt(seen, now))
                   ELSE Unevaluated(seen, answer)
  /\ UNCHANGED <<alert, passes, answer, seen>>

FinalizeUndated ==
  /\ asked /\ asked' = FALSE
  /\ block' = Evaluated(seen, answer, UrgencyAt(seen, now), DisqualifiersAt(seen, now))
  /\ UNCHANGED <<now, alert, passes, answer, seen>>

(* EvaluateAll takes one clock reading for both.                            *)
Finalize ==
  /\ asked /\ asked' = FALSE
  /\ block' = IF seen.dated
              THEN Evaluated(seen, answer, UrgencyAt(seen, now), DisqualifiersAt(seen, now))
              ELSE Unevaluated(seen, answer)
  /\ UNCHANGED <<now, alert, passes, answer, seen>>

(* Time passes.                                                            *)
Tick ==
  /\ \E t \in Times : t > now /\ now' = t
  /\ UNCHANGED <<alert, passes, asked, answer, seen, block>>

(* Events arrive, or the issue regresses.                                   *)
Happen ==
  /\ \/ \E c \in Counts : c > alert.count
                          /\ alert' = [alert EXCEPT !.count = c, !.last = now]
     \/ ~alert.regressed /\ alert' = [alert EXCEPT !.regressed = TRUE]
  /\ UNCHANGED <<now, passes, asked, answer, seen, block>>

Next ==
  \/ \E label \in Labels, dated, known, claimed \in BOOLEAN :
       Answer(label, dated, known, claimed)
  \/ Finalize \/ Tick \/ Happen

Spec == Init /\ [][Next]_vars

-----------------------------------------------------------------------------
(***************************************************************************)
(* Properties.                                                             *)
(***************************************************************************)

(* Types; a block has a band exactly when its dates could be evaluated,     *)
(* whatever band the model wrote.                                          *)
TypeOK ==
  /\ now \in Times /\ alert \in Alerts /\ passes \in Nat
  /\ asked \in BOOLEAN /\ answer \in Labels
  /\ seen \in Evidence
  /\ block \in Blocks
  /\ block.urgency = "none" <=> ~block.on.dated

(* An alert that a disqualifier about its live pressure promotes is never   *)
(* labelled with a quieter band than "now" (urgency.go), however much time  *)
(* passes between the model's reading and the evaluation.                  *)
BandAgrees ==
  (block.fired \cap {"Volume", "Active burst", "Regressed"} # {}) => block.urgency = "now"

(* Time alone only quiets an alert: a later pass on the same evidence fires *)
(* no further disqualifier and gives no more urgent band.                   *)
Rank == [b \in Bands |-> CASE b = "now" -> 2 [] b = "soon" -> 1 [] OTHER -> 0]
TimeOnlyQuiets ==
  [][block.on.dated /\ block'.on = block.on =>
       /\ block'.fired \ {"claimed"} \subseteq block.fired
       /\ Rank[block'.urgency] <= Rank[block.urgency]]_vars

(* The inductive invariant: band and fired disqualifiers are those of one   *)
(* instant, which has passed.                                              *)
Stamped ==
  IF block.on.dated
  THEN \E t \in Times :
         /\ t <= now
         /\ block.urgency = UrgencyAt(block.on, t)
         /\ block.fired \ {"claimed"} = DisqualifiersAt(block.on, t)
  ELSE block.fired \subseteq {"claimed"}
LiveInv == TypeOK /\ Stamped
=============================================================================
