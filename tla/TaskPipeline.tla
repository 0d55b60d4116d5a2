---------------------------- MODULE TaskPipeline ----------------------------
(***************************************************************************)
(* One alert task on its way through the triage agent, the deep analyzer   *)
(* and the fix agent: the planning and execution steps of each agent with  *)
(* the wrappers that decide where the task goes next (pkg/factory and      *)
(* pkg/steps: reassign, disqualifier guard, fix handoff, handed-off guard).*)
(*                                                                         *)
(* The agent library, the task controller and the executor are outside     *)
(* this repository and are modelled as its code relies on them: a Job runs *)
(* the phase it was dispatched for and goes on in the same process into    *)
(* any next phase its own agent declares; the deliverer publishes a phase  *)
(* only for Done with a next phase; the controller keeps the assignee that *)
(* is on disk unless the write declares a reassignment.  The fix Job is a  *)
(* single step here; FixTask looks inside it.                              *)
(***************************************************************************)
EXTENDS Naturals

CONSTANTS
  NoVerdict,     \* the task has no ## Verdict section
  MaxFaults,     \* bound: Job deaths, failed calls and unusable answers
  MaxTriggers    \* bound: times a person reopens an ended task

(* The model's answer as far as the wrappers tell answers apart: whether    *)
(* understanding and fix_certainty are High, whether the block names its    *)
(* own cause or fix, what its dates say, and whether its fence is closed.   *)
(* "none": the answer holds no verdict block.                              *)
Labels == {"real bug", "noise", "unanalyzable", "none"}
Lives == {"absent", "quiet", "firing"}
Answers == [label : Labels, sure : BOOLEAN, named : BOOLEAN, live : Lives,
            closed : BOOLEAN]
Types == {"triage", "deep", "fix"}
Verdicts == [label : Labels, sure : BOOLEAN, live : Lives, closed : BOOLEAN,
             by : Types, final : BOOLEAN]

ASSUME PipelineAssumption ==
  NoVerdict \notin Verdicts /\ MaxFaults \in Nat /\ MaxTriggers \in Nat

Tasks == [type : Types, assignee : {"analyzer", "fixer"},
          phase : {"planning", "execution", "done"},
          status : {"in_progress", "completed", "stopped"},
          analysis : BOOLEAN, context : BOOLEAN,
          verdict : Verdicts \cup {NoVerdict}]

(* The Config CRs: which agent takes a task type, and at which phases; the  *)
(* phases an agent declares are those it is triggered at.                  *)
AgentOf == [t \in Types |-> IF t = "fix" THEN "fixer" ELSE "analyzer"]
PhasesOf == [t \in Types |->
               IF t = "fix" THEN {"planning"} ELSE {"planning", "execution"}]

VARIABLES
  saved,      \* the task file at the controller
  pc,         \* the phase the running Job is in; "nil": nothing ran
  job,        \* the task type the Job was started for
  doc,        \* the Job's copy of the task
  produced,   \* has a step of this Job returned a result?
  faults, triggers

vars == <<saved, pc, job, doc, produced, faults, triggers>>

(* Fresh tasks of the collector, and deep tasks as a Job killed at its      *)
(* deadline leaves them.                                                   *)
Init ==
  /\ saved \in [type : {"triage", "deep"}, assignee : {"analyzer"},
                phase : {"planning", "execution"}, status : {"in_progress"},
                analysis : BOOLEAN, context : BOOLEAN, verdict : {NoVerdict}]
  /\ saved.type = "triage" => saved.phase = "planning" /\ ~saved.analysis
                              /\ ~saved.context
  /\ pc = "idle"
  /\ job = saved.type
  /\ doc = saved
  /\ produced = FALSE
  /\ faults = 0 /\ triggers = 0

-----------------------------------------------------------------------------
(***************************************************************************)
(* Plausible bugs, for the runs to notice; nothing else uses them.         *)
(***************************************************************************)

(* A result that advances no phase publishes what it left there.           *)
PublishedAsIs(d, next, declared) ==
  [d EXCEPT !.phase = next,
            !.status = IF next = "done" THEN "completed" ELSE "in_progress",
            !.assignee = IF declared THEN @ ELSE saved.assignee]

(* The override on the triage path only.                                   *)
ForcedInTriage(a, label) ==
  IF job = "triage" /\ a.live = "firing" /\ label \notin {"real bug", "unanalyzable"}
  THEN "real bug" ELSE label

(* The handoff gate on the label alone.                                    *)
CertainByLabel(v) == v.label = "real bug"

(* The deep planning step without its handed-off guard.                    *)
PlanningUnguarded ==
  CASE job = "triage" -> ~doc.analysis
    [] job = "deep"   -> ~doc.context
    [] OTHER          -> TRUE

-----------------------------------------------------------------------------
(***************************************************************************)
(* What the agent library, the deliverer and the controller do.            *)
(***************************************************************************)

(* NextPhase "none" stands for Status InProgress: nothing is published.     *)
Published(d, next, declared) ==
  [d EXCEPT !.phase = IF next = "none" THEN saved.phase ELSE next,
            !.status = IF next = "done" THEN "completed" ELSE "in_progress",
            !.assignee = IF declared THEN @ ELSE saved.assignee]

Deliver(d, next, declared) ==
  /\ doc' = d
  /\ saved' = Published(d, next, declared)
  /\ produced' = TRUE
  /\ pc' = IF next \in PhasesOf[job] THEN next ELSE "idle"
  /\ UNCHANGED <<job, triggers>>

Fault == faults < MaxFaults /\ faults' = faults + 1

-----------------------------------------------------------------------------
(***************************************************************************)
(* applyAnalyzabilityGuard, then applyDisqualifiers.                       *)
(***************************************************************************)

Contradicts(a) == a.label = "unanalyzable" /\ a.named

Guarded(a) == IF Contradicts(a) THEN "real bug" ELSE a.label

Forced(a, label) ==
  IF a.live = "firing" /\ label \notin {"real bug", "unanalyzable"}
  THEN "real bug" ELSE label

(* A re-rendered block is closed; without dates it is left as it was.       *)
Finalized(a) ==
  [label |-> Forced(a, Guarded(a)), sure |-> a.sure, live |-> a.live,
   closed |-> a.closed \/ Contradicts(a) \/ a.live # "absent",
   by |-> job, final |-> TRUE]

(* The section as the model wrote it.                                      *)
Raw(a) ==
  [label |-> a.label, sure |-> a.sure, live |-> a.live, closed |-> a.closed,
   by |-> job, final |-> FALSE]

Judged(a) == IF a.label = "none" THEN Raw(a) ELSE Finalized(a)

(* The handoff gate: three fields, and the assignee as its idempotency key. *)
Certain(v) == v.label = "real bug" /\ v.sure
HandsOff(v) == v.closed /\ Certain(v) /\ doc.assignee # "fixer"

PlanningShouldRun ==
  CASE job = "triage" -> ~doc.analysis
    [] job = "deep"   -> doc.assignee # "fixer" /\ ~doc.context
    [] OTHER          -> TRUE
ExecutionShouldRun == doc.verdict = NoVerdict

-----------------------------------------------------------------------------
(***************************************************************************)
(* Plausible bugs in the steps.                                            *)
(***************************************************************************)

(* The handoff as Status InProgress, its phase set in the copy only.       *)
HandoffInProgress(v) ==
  Deliver([doc EXCEPT !.verdict = v, !.assignee = "fixer", !.type = "fix",
                      !.phase = "planning"], "none", TRUE)

(* A run in which every step skipped exits without delivering anything.    *)
DeliverNilNothing ==
  /\ pc = "nil" /\ pc' = "idle"
  /\ UNCHANGED <<saved, job, doc, produced, faults, triggers>>

-----------------------------------------------------------------------------
(***************************************************************************)
(* The Job.                                                                *)
(***************************************************************************)

(* The executor starts a Job for a task whose type, phase and assignee its  *)
(* Config CRs name; any other task it drops without a word.                *)
Dispatch ==
  /\ saved.status = "in_progress"
  /\ saved.phase \in PhasesOf[saved.type] /\ saved.assignee = AgentOf[saved.type]
  /\ pc = "idle" /\ pc' = saved.phase
  /\ job' = saved.type
  /\ doc' = saved
  /\ produced' = FALSE
  /\ UNCHANGED <<saved, faults, triggers>>

(* A phase whose step does not run has no result: the Job ends with the one *)
(* it has delivered already, or with none.                                 *)
Skip ==
  /\ \/ pc = "planning" /\ ~PlanningShouldRun
     \/ pc = "execution" /\ ~ExecutionShouldRun
  /\ pc' = IF produced THEN "idle" ELSE "nil"
  /\ UNCHANGED <<saved, job, doc, produced, faults, triggers>>

(* deliverNilResult.                                                       *)
DeliverNil ==
  /\ pc = "nil" /\ pc' = "idle"
  /\ saved' = [saved EXCEPT !.status = "stopped"]
  /\ UNCHANGED <<job, doc, produced, faults, triggers>>

Plan ==
  /\ pc = "planning" /\ job # "fix" /\ PlanningShouldRun
  /\ Deliver(IF job = "triage" THEN [doc EXCEPT !.analysis = TRUE]
                               ELSE [doc EXCEPT !.context = TRUE],
             "execution", FALSE)
  /\ UNCHANGED faults

Execution(type) == pc = "execution" /\ job = type /\ ExecutionShouldRun

(* reassignExecutionStep: a real bug goes to the deep analyzer, under the   *)
(* lane's own assignee, as an in-place save.                               *)
ExecuteTriage(a) ==
  LET v == Judged(a) IN
  /\ Execution("triage")
  /\ \/ /\ v.label = "real bug"
        /\ Deliver([doc EXCEPT !.verdict = v, !.assignee = "analyzer",
                               !.type = "deep", !.phase = "planning"],
                   "none", FALSE)
     \/ /\ v.label # "real bug"
        /\ Deliver([doc EXCEPT !.verdict = v], "done", FALSE)
  /\ UNCHANGED faults

Handoff(v) ==
  Deliver([doc EXCEPT !.verdict = v, !.assignee = "fixer", !.type = "fix",
                      !.phase = "planning"], "planning", TRUE)

(* fixHandoffStep around disqualifierGuardStep.                            *)
ExecuteDeep(a) ==
  LET v == Judged(a) IN
  /\ Execution("deep")
  /\ \/ HandsOff(v) /\ Handoff(v)
     \/ /\ v.closed /\ ~HandsOff(v)
        /\ Deliver([doc EXCEPT !.verdict = v], "done", FALSE)
  /\ UNCHANGED faults

Fix ==
  /\ pc = "planning" /\ job = "fix" /\ PlanningShouldRun
  /\ Deliver(doc, "done", FALSE)
  /\ UNCHANGED faults

Job == \/ Dispatch \/ Skip \/ DeliverNil \/ Plan \/ Fix
       \/ \E a \in Answers : ExecuteTriage(a) \/ ExecuteDeep(a)

-----------------------------------------------------------------------------
(***************************************************************************)
(* Faults and people.                                                      *)
(***************************************************************************)

(* The Job dies, or a call, a parse, the identity lookup or the delivery    *)
(* fails: nothing is delivered.                                            *)
Crash ==
  /\ Fault
  /\ pc # "idle" /\ pc' = "idle"
  /\ UNCHANGED <<saved, job, doc, produced, triggers>>

(* The handoff's own parser takes no unclosed fence, and fails the Job.     *)
HandoffFails(a) ==
  /\ Fault
  /\ Execution("deep") /\ ~Judged(a).closed
  /\ pc' = "idle"
  /\ UNCHANGED <<saved, job, doc, produced, triggers>>

(* The model's run fails or asks for input: the wrappers pass the result on *)
(* and leave the section, where there is one, as the model wrote it.       *)
AgentStops(a) ==
  /\ Fault
  /\ \/ pc = "planning" /\ job # "fix" /\ PlanningShouldRun /\ saved' = [saved EXCEPT !.status = "stopped"]
     \/ /\ Execution("triage") \/ Execution("deep")
        /\ \E v \in {NoVerdict, Raw(a)} :
             saved' = [saved EXCEPT !.status = "stopped", !.verdict = v]
  /\ pc' = "idle"
  /\ UNCHANGED <<job, doc, produced, triggers>>

(* A person triggers an ended task again, at a phase its agent is           *)
(* triggered at; to have it judged again, without its verdict.             *)
Reopen ==
  /\ triggers < MaxTriggers /\ triggers' = triggers + 1
  /\ saved.status # "in_progress" /\ pc = "idle"
  /\ \E p \in PhasesOf[saved.type],
        v \in {saved.verdict} \cup (IF saved.type = "fix" THEN {} ELSE {NoVerdict}) :
       saved' = [saved EXCEPT !.status = "in_progress", !.phase = p, !.verdict = v]
  /\ UNCHANGED <<pc, job, doc, produced, faults>>

Next ==
  \/ Job \/ Crash \/ Reopen
  \/ \E a \in Answers : HandoffFails(a) \/ AgentStops(a)

Spec == Init /\ [][Next]_vars

(* A Job that is not killed keeps running, and the executor starts one for  *)
(* every task it does not refuse.                                          *)
FairSpec == Spec /\ WF_vars(Job)

-----------------------------------------------------------------------------
(***************************************************************************)
(* Properties.                                                             *)
(***************************************************************************)

(* Types; a published phase is one a task can be at.                        *)
TypeOK ==
  /\ saved \in Tasks /\ doc \in Tasks
  /\ pc \in {"idle", "planning", "execution", "nil"}
  /\ job \in Types
  /\ produced \in BOOLEAN
  /\ faults \in Nat /\ triggers \in Nat

(* A fired disqualifier is authoritative on both paths: no task whose live  *)
(* state fires one is completed with a verdict that dismisses it, and no    *)
(* completed verdict is one the guards have not seen.                      *)
FiredNeverDismissed ==
  saved.status = "completed" =>
    \/ saved.verdict.label = "none"
    \/ /\ saved.verdict.final
       /\ saved.verdict.live = "firing" =>
            saved.verdict.label \in {"real bug", "unanalyzable"}

(* The fix agent is given only tasks whose verdict is a finalized High/High *)
(* real bug that its own parser can read, and it is their assignee.        *)
FixOnlyWhenCertain ==
  saved.type = "fix" =>
    /\ saved.verdict # NoVerdict
    /\ saved.verdict.final /\ saved.verdict.closed
    /\ saved.verdict.label = "real bug" /\ saved.verdict.sure
    /\ saved.assignee = "fixer"

(* A task that has left for the fix agent is not planned again by the deep  *)
(* analyzer's Job, which declares the phase it was published with too.     *)
NotReplanned ==
  [][saved.type = "fix" => saved'.context = saved.context /\ saved'.type = "fix"]_vars

(* A handed-off task reaches the fix agent and is completed by it.          *)
HandedOffIsFixed ==
  (saved.type = "fix" /\ saved.status = "in_progress") ~> saved.status = "completed"

(* No task is dispatched for ever, nor left in progress with nobody to take *)
(* it: a run in which every step skips still ends it.                      *)
Ends == saved.status = "in_progress" ~> saved.status # "in_progress"

(* How far a task is from its end, and how far its Job is from giving it    *)
(* back: a Job that has delivered something may exit, one that has not     *)
(* still owes a result.                                                    *)
Left ==
  IF saved.status # "in_progress" THEN 0
  ELSE CASE saved.type = "fix" -> 1
         [] saved.type = "deep" -> IF saved.context THEN 2 ELSE 3
         [] OTHER -> IF saved.analysis THEN 4 ELSE 5
Stage == CASE pc = "nil" -> 0
           [] pc = "idle" -> 2
           [] OTHER -> IF produced THEN 3 ELSE 1
Rank == 4 * Left + Stage

(* No churn: every step of a Job, the executor's dispatch among them, brings *)
(* the task nearer to its end, so that between two faults or triggers only *)
(* so many Jobs are started for it.                                        *)
NeverChurns == [][Job => Rank' < Rank]_vars

(* The deep analyzer re-runs a full verdict on a task the triage agent      *)
(* flagged (pkg/factory/factory.go).                                       *)
Flagged == saved.type = "deep" /\ saved.verdict # NoVerdict
DeepFollowsTriage ==
  (Flagged /\ saved.verdict.by = "triage") ~>
    (saved.verdict # NoVerdict /\ saved.verdict.by = "deep")

(***************************************************************************)
(* What the safety properties rest on.                                     *)
(***************************************************************************)

(* The copy of a running Job agrees with the file in what decides where the *)
(* task goes: nobody else writes the file while a Job runs.                *)
CopyAgrees ==
  pc # "idle" =>
    /\ doc.type = saved.type
    /\ doc.verdict = saved.verdict
    /\ doc.assignee = saved.assignee
    /\ doc.context = saved.context

Assigned == saved.assignee = AgentOf[saved.type]

(* A triage Job stops at the reassignment; a deep Job may outlive its       *)
(* handoff.                                                                *)
JobKnowsTask ==
  pc # "idle" =>
    /\ job = "triage" => saved.type = "triage"
    /\ job = "deep" => saved.type # "triage"
    /\ job = "fix" => saved.type = "fix"

(* A task in progress is at a phase its agent is triggered at, whoever      *)
(* delivered it; Published keeps the phase of a task of another type.      *)
AtItsPhase ==
  saved.status = "in_progress" => saved.phase \in PhasesOf[saved.type]

(* A running Job's task is in progress, and its step is still to be done.  *)
JobIsNeeded ==
  pc # "idle" =>
    /\ saved.status = "in_progress"
    /\ doc.analysis = saved.analysis
    /\ pc = "execution" => job # "fix"

(* The inductive invariant: without CopyAgrees, a Job could deliver a stale *)
(* copy over a handed-off task.                                            *)
PipelineInv ==
  /\ TypeOK /\ CopyAgrees /\ Assigned /\ JobKnowsTask /\ AtItsPhase /\ JobIsNeeded
  /\ FixOnlyWhenCertain /\ FiredNeverDismissed
=============================================================================
