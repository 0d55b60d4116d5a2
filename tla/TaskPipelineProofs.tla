------------------------- MODULE TaskPipelineProofs -------------------------
(***************************************************************************)
(* Theorems about TaskPipeline for any number of faults and re-triggers,   *)
(* proved from the inductive invariant PipelineInv.                        *)
(***************************************************************************)
EXTENDS TaskPipeline, TLAPS

(* The guards return a verdict of the schema; one that was classified is    *)
(* final, and one that dismisses the alert has no fired disqualifier.      *)
LEMMA JudgedType ==
  ASSUME NEW a \in Answers, job \in Types
  PROVE  /\ Judged(a) \in Verdicts
         /\ Judged(a).label = "none" \/ Judged(a).final
         /\ Judged(a).live = "firing" =>
              Judged(a).label \in {"none", "real bug", "unanalyzable"}
         /\ Raw(a) \in Verdicts
<1>1. CASE a.label = "none"
  BY <1>1 DEF Judged, Raw, Answers, Verdicts, Labels
<1>2. CASE a.label # "none"
  <2>1. Forced(a, Guarded(a)) \in Labels
    BY DEF Forced, Guarded, Answers, Labels
  <2>2. a.live = "firing" => Forced(a, Guarded(a)) \in {"real bug", "unanalyzable"}
    BY DEF Forced
  <2>3. (a.closed \/ Contradicts(a) \/ a.live # "absent") \in BOOLEAN
    OBVIOUS
  <2> QED
    BY <1>2, <2>1, <2>2, <2>3
    DEF Judged, Finalized, Raw, Answers, Verdicts
<1> QED
  BY <1>1, <1>2

(* A delivery keeps the copy, the file and the Job in step, whatever it     *)
(* publishes, provided it does not smuggle in another assignee.            *)
LEMMA DeliverKeeps ==
  ASSUME NEW d \in Tasks, NEW next \in {"planning", "execution", "done", "none"},
         NEW declared \in BOOLEAN,
         PipelineInv, pc # "idle", Deliver(d, next, declared),
         ~declared => d.assignee = saved.assignee,
         d.assignee = AgentOf[d.type],
         \/ next \in PhasesOf[d.type] \cup {"done"}
         \/ next = "none" /\ PhasesOf[saved.type] \subseteq PhasesOf[d.type]
  PROVE  /\ saved' \in Tasks /\ doc' \in Tasks /\ produced' \in BOOLEAN
         /\ pc' \in {"idle", "planning", "execution", "nil"}
         /\ job' = job /\ triggers' = triggers
         /\ CopyAgrees' /\ Assigned' /\ AtItsPhase' /\ JobIsNeeded'
         /\ saved'.type = d.type /\ saved'.verdict = d.verdict
         /\ saved'.assignee = d.assignee /\ saved'.context = d.context
         /\ saved'.status = "completed" <=> next = "done"
         /\ next = "done" \/ next = "none" => pc' = "idle"
         /\ next = "planning" => pc' \in {"planning", "idle"}
<1>1. saved \in Tasks /\ job \in Types
  BY DEF PipelineInv, TypeOK
<1>2. saved.phase \in {"planning", "execution", "done"} /\ saved.assignee \in {"analyzer", "fixer"}
  BY <1>1 DEF Tasks
<1>3. /\ saved' = Published(d, next, declared)
      /\ doc' = d /\ produced' = TRUE /\ job' = job /\ triggers' = triggers
      /\ pc' = IF next \in PhasesOf[job] THEN next ELSE "idle"
  BY DEF Deliver
<1>4. PhasesOf[job] \subseteq {"planning", "execution"}
  BY <1>1 DEF PhasesOf
<1>5. /\ saved' \in Tasks
      /\ saved'.type = d.type /\ saved'.verdict = d.verdict
      /\ saved'.assignee = d.assignee /\ saved'.context = d.context
      /\ saved'.status = "completed" <=> next = "done"
  BY <1>2, <1>3 DEF Published, Tasks
<1>6. saved.status = "in_progress" /\ saved.phase \in PhasesOf[saved.type]
  BY DEF PipelineInv, JobIsNeeded, AtItsPhase
<1>7. AtItsPhase'
  <2>1. saved'.status = "in_progress" => saved'.phase \in PhasesOf[d.type]
    <3>1. next = "none" => saved'.phase = saved.phase
      BY <1>3 DEF Published, Tasks
    <3>2. next # "none" => saved'.phase = next
      BY <1>3 DEF Published, Tasks
    <3>3. next = "none" => next \notin PhasesOf[d.type] \cup {"done"}
      BY DEF PhasesOf, Tasks
    <3>4. next = "done" => saved'.status # "in_progress"
      BY <1>5
    <3> QED BY <1>6, <3>1, <3>2, <3>3, <3>4
  <2> QED BY <1>5, <2>1 DEF AtItsPhase
<1>8. JobIsNeeded'
  <2>1. saved'.analysis = d.analysis
    BY <1>3 DEF Published, Tasks
  <2>2. pc' # "idle" => next \in PhasesOf[job] /\ saved'.status = "in_progress" /\ pc' = next
    BY <1>3, <1>4 DEF Published, Tasks
  <2>3. "execution" \in PhasesOf[job] => job # "fix"
    BY <1>1 DEF PhasesOf
  <2> QED BY <1>3, <2>1, <2>2, <2>3 DEF JobIsNeeded
<1> QED
  BY <1>3, <1>4, <1>5, <1>7, <1>8 DEF CopyAgrees, Assigned

(* The invariant holds of every task as it arrives.                        *)
LEMMA PipelineInit == Init => PipelineInv
<1> SUFFICES ASSUME Init PROVE PipelineInv
  OBVIOUS
<1>1. /\ saved \in Tasks /\ saved.type \in {"triage", "deep"}
      /\ saved.assignee = "analyzer" /\ saved.status = "in_progress"
  BY DEF Init, Tasks, Types
<1>2. Assigned
  BY <1>1 DEF Assigned, AgentOf, Types
<1>3. doc \in Tasks /\ job \in Types /\ pc = "idle" /\ produced = FALSE
      /\ faults = 0 /\ triggers = 0
  BY <1>1 DEF Init, Types
<1>4. TypeOK
  BY <1>1, <1>3 DEF TypeOK
<1>5. AtItsPhase
  <2>1. saved.phase \in {"planning", "execution"}
    BY DEF Init
  <2> QED BY <1>1, <2>1 DEF AtItsPhase, PhasesOf, Types
<1> QED
  BY <1>1, <1>2, <1>3, <1>4, <1>5
  DEF PipelineInv, CopyAgrees, JobKnowsTask, JobIsNeeded, FixOnlyWhenCertain,
      FiredNeverDismissed

(* Every step of a Job, every fault and every person keeps the invariant.   *)
LEMMA PipelineStep == PipelineInv /\ [Next]_vars => PipelineInv'
<1> SUFFICES ASSUME PipelineInv, [Next]_vars PROVE PipelineInv'
  OBVIOUS
<1> USE PipelineAssumption
<1>0. /\ saved \in Tasks /\ doc \in Tasks /\ job \in Types
      /\ faults \in Nat /\ triggers \in Nat
  BY DEF PipelineInv, TypeOK
<1>1. CASE Dispatch
  <2>0. /\ UNCHANGED <<saved, faults, triggers>> /\ doc' = saved /\ job' = saved.type
        /\ pc' = saved.phase /\ pc' \in {"planning", "execution"} /\ produced' = FALSE
    BY <1>1 DEF Dispatch, PipelineInv, TypeOK, PhasesOf, Types, Tasks
  <2>1. /\ TypeOK' /\ Assigned' /\ AtItsPhase'
        /\ FixOnlyWhenCertain' /\ FiredNeverDismissed'
    <3>1. saved.type \in Types
      BY <1>0 DEF Tasks
    <3>2. TypeOK'
      BY <1>0, <2>0, <3>1 DEF TypeOK
    <3>3. Assigned' /\ AtItsPhase' /\ FixOnlyWhenCertain' /\ FiredNeverDismissed'
      BY <2>0
      DEF PipelineInv, Assigned, AtItsPhase, FixOnlyWhenCertain, FiredNeverDismissed
    <3> QED BY <3>2, <3>3
  <2>2. CopyAgrees' /\ JobKnowsTask'
    BY <1>0, <1>1 DEF Dispatch, PipelineInv, CopyAgrees, JobKnowsTask, Assigned, Types
  <2>3. JobIsNeeded'
    BY <1>0, <1>1 DEF Dispatch, PipelineInv, JobIsNeeded, AtItsPhase, PhasesOf, Types
  <2> QED BY <2>1, <2>2, <2>3 DEF PipelineInv
<1>2. CASE Skip
  BY <1>0, <1>2
  DEF Skip, PipelineInv, TypeOK, CopyAgrees, Assigned, JobKnowsTask, AtItsPhase, JobIsNeeded,
      FixOnlyWhenCertain, FiredNeverDismissed
<1>3. CASE DeliverNil
  <2>1. saved' = [saved EXCEPT !.status = "stopped"]
    BY <1>3 DEF DeliverNil
  <2>2. saved' \in Tasks /\ saved'.type = saved.type /\ saved'.verdict = saved.verdict
        /\ saved'.assignee = saved.assignee /\ saved'.status = "stopped"
    BY <1>0, <2>1 DEF Tasks
  <2> QED
    BY <1>0, <1>3, <2>2
    DEF DeliverNil, PipelineInv, TypeOK, CopyAgrees, Assigned, JobKnowsTask, AtItsPhase, JobIsNeeded,
        FixOnlyWhenCertain, FiredNeverDismissed
<1>4. CASE Plan
  <2> DEFINE d == IF job = "triage" THEN [doc EXCEPT !.analysis = TRUE]
                                    ELSE [doc EXCEPT !.context = TRUE]
  <2>1. pc # "idle" /\ Deliver(d, "execution", FALSE)
        /\ UNCHANGED faults
    BY <1>4 DEF Plan
  <2>2. d \in Tasks /\ d.type = doc.type /\ d.verdict = doc.verdict
        /\ d.assignee = doc.assignee
    BY <1>0 DEF Tasks
  <2>3. doc.type = saved.type /\ doc.verdict = saved.verdict
        /\ doc.assignee = saved.assignee /\ saved.assignee = AgentOf[saved.type]
    BY <2>1 DEF PipelineInv, CopyAgrees, Assigned
  <2>5. "execution" \in PhasesOf[d.type]
    <3>1. saved.type # "fix"
      BY <1>0, <1>4, <2>3
      DEF Plan, PlanningShouldRun, PipelineInv, JobKnowsTask, AgentOf, Types, Tasks
    <3> QED BY <1>0, <2>2, <2>3, <3>1 DEF PhasesOf, Tasks
  <2> HIDE DEF d
  <2>4. /\ saved' \in Tasks /\ doc' \in Tasks /\ produced' \in BOOLEAN
        /\ pc' \in {"idle", "planning", "execution", "nil"}
        /\ job' = job /\ triggers' = triggers /\ CopyAgrees' /\ Assigned'
        /\ AtItsPhase' /\ JobIsNeeded'
        /\ saved'.type = saved.type /\ saved'.verdict = saved.verdict
        /\ saved'.assignee = saved.assignee /\ saved'.status # "completed"
    BY <2>1, <2>2, <2>3, <2>5, DeliverKeeps
  <2> QED
    BY <1>0, <2>1, <2>4
    DEF PipelineInv, TypeOK, JobKnowsTask, FixOnlyWhenCertain, FiredNeverDismissed
<1>5. CASE Fix
  <2>1. pc # "idle" /\ job = "fix" /\ Deliver(doc, "done", FALSE)
        /\ UNCHANGED faults
    BY <1>5 DEF Fix
  <2>2. doc.type = saved.type /\ doc.verdict = saved.verdict
        /\ doc.assignee = saved.assignee /\ saved.assignee = AgentOf[saved.type]
        /\ saved.type = "fix"
    BY <2>1 DEF PipelineInv, CopyAgrees, Assigned, JobKnowsTask
  <2>3. /\ saved' \in Tasks /\ doc' \in Tasks /\ produced' \in BOOLEAN
        /\ pc' = "idle"
        /\ job' = job /\ triggers' = triggers /\ CopyAgrees' /\ Assigned'
        /\ AtItsPhase' /\ JobIsNeeded'
        /\ saved'.type = saved.type /\ saved'.verdict = saved.verdict
        /\ saved'.assignee = saved.assignee
    BY <1>0, <2>1, <2>2, DeliverKeeps
  <2> QED
    BY <1>0, <2>1, <2>2, <2>3
    DEF PipelineInv, TypeOK, JobKnowsTask, FixOnlyWhenCertain, FiredNeverDismissed
<1>6. ASSUME NEW a \in Answers, ExecuteTriage(a) PROVE PipelineInv'
  <2> DEFINE v == Judged(a)
  <2>1. pc # "idle" /\ job = "triage" /\ doc.verdict = NoVerdict /\ faults' = faults
    BY <1>6 DEF ExecuteTriage, Execution, ExecutionShouldRun
  <2>2. doc.type = "triage" /\ doc.assignee = saved.assignee
        /\ saved.assignee = "analyzer"
    BY <2>1 DEF PipelineInv, CopyAgrees, JobKnowsTask, Assigned, AgentOf, Types
  <2>3. /\ v \in Verdicts
        /\ v.label = "none" \/ v.final
        /\ v.live = "firing" => v.label \in {"none", "real bug", "unanalyzable"}
    BY <1>0, <1>6, JudgedType
  <2> DEFINE e == [doc EXCEPT !.verdict = v, !.assignee = "analyzer",
                              !.type = "deep", !.phase = "planning"]
  <2> DEFINE d == [doc EXCEPT !.verdict = v]
  <2> HIDE DEF v
  <2>5. e \in Tasks /\ e.type = "deep" /\ e.assignee = "analyzer" /\ e.verdict = v
        /\ e.assignee = AgentOf[e.type]
    BY <1>0, <2>3 DEF Tasks, Types, AgentOf
  <2>6. d \in Tasks /\ d.type = "triage" /\ d.assignee = "analyzer" /\ d.verdict = v
        /\ d.assignee = AgentOf[d.type]
    BY <1>0, <2>2, <2>3 DEF Tasks, Types, AgentOf
  <2>4. PhasesOf[saved.type] \subseteq PhasesOf[e.type]
    BY <2>1, <2>5 DEF PipelineInv, JobKnowsTask, PhasesOf, Types
  <2>7. Deliver(e, "none", FALSE) \/ Deliver(d, "done", FALSE)
    BY <1>6 DEF ExecuteTriage, v
  <2> HIDE DEF d, e
  <2>8. /\ saved' \in Tasks /\ doc' \in Tasks /\ produced' \in BOOLEAN
        /\ pc' = "idle"
        /\ job' = job /\ triggers' = triggers /\ CopyAgrees' /\ Assigned'
        /\ AtItsPhase' /\ JobIsNeeded'
        /\ saved'.type # "fix" /\ saved'.verdict = v
    BY <2>1, <2>2, <2>4, <2>5, <2>6, <2>7, DeliverKeeps
  <2> QED
    BY <1>0, <2>1, <2>3, <2>8
    DEF PipelineInv, TypeOK, JobKnowsTask, FixOnlyWhenCertain, FiredNeverDismissed
<1>7. ASSUME NEW a \in Answers, ExecuteDeep(a) PROVE PipelineInv'
  <2> DEFINE v == Judged(a)
  <2>1. pc # "idle" /\ job = "deep" /\ doc.verdict = NoVerdict /\ faults' = faults
    BY <1>7 DEF ExecuteDeep, Execution, ExecutionShouldRun
  <2>2. doc.type = "deep" /\ doc.assignee = saved.assignee
        /\ saved.assignee = "analyzer"
    BY <1>0, <2>1
    DEF PipelineInv, CopyAgrees, JobKnowsTask, Assigned, AgentOf, Types,
        FixOnlyWhenCertain, Tasks
  <2>3. /\ v \in Verdicts
        /\ v.label = "none" \/ v.final
        /\ v.live = "firing" => v.label \in {"none", "real bug", "unanalyzable"}
    BY <1>0, <1>7, JudgedType
  <2> DEFINE e == [doc EXCEPT !.verdict = v, !.assignee = "fixer",
                              !.type = "fix", !.phase = "planning"]
  <2> DEFINE d == [doc EXCEPT !.verdict = v]
  <2>5. (HandsOff(v) /\ Deliver(e, "planning", TRUE)) \/ Deliver(d, "done", FALSE)
    BY <1>7 DEF ExecuteDeep, Handoff
  <2>6. HandsOff(v) => v.closed /\ v.label = "real bug" /\ v.sure
    BY DEF HandsOff, Certain
  <2> HIDE DEF v
  <2>7. e \in Tasks /\ e.type = "fix" /\ e.assignee = "fixer" /\ e.verdict = v
        /\ e.assignee = AgentOf[e.type] /\ "planning" \in PhasesOf[e.type]
    BY <1>0, <2>3 DEF Tasks, Types, AgentOf, PhasesOf
  <2>8. d \in Tasks /\ d.type = "deep" /\ d.assignee = "analyzer" /\ d.verdict = v
        /\ d.assignee = AgentOf[d.type]
    BY <1>0, <2>2, <2>3 DEF Tasks, Types, AgentOf
  <2> HIDE DEF d, e
  <2>9. /\ saved' \in Tasks /\ doc' \in Tasks /\ produced' \in BOOLEAN
        /\ pc' \in {"idle", "planning", "execution", "nil"}
        /\ job' = job /\ triggers' = triggers /\ CopyAgrees' /\ Assigned'
        /\ AtItsPhase' /\ JobIsNeeded'
        /\ saved'.verdict = v
    BY <2>1, <2>2, <2>5, <2>7, <2>8, DeliverKeeps
  <2>10. \/ saved'.type = "fix" /\ HandsOff(v) /\ saved'.assignee = "fixer"
            /\ saved'.status # "completed"
         \/ saved'.type = "deep"
    BY <2>1, <2>2, <2>5, <2>7, <2>8, DeliverKeeps
  <2>11. v \in Verdicts /\ NoVerdict # v
    BY <2>1, <2>3, PipelineAssumption
  <2> QED
    BY <1>0, <2>1, <2>3, <2>6, <2>9, <2>10, <2>11
    DEF PipelineInv, TypeOK, JobKnowsTask, FixOnlyWhenCertain, FiredNeverDismissed
<1>8. CASE Crash
  <2>1. faults' \in Nat
    BY <1>0, <1>8 DEF Crash, Fault
  <2> QED
    BY <1>0, <1>8, <2>1
    DEF Crash, PipelineInv, TypeOK, CopyAgrees, Assigned, JobKnowsTask, AtItsPhase, JobIsNeeded,
        FixOnlyWhenCertain, FiredNeverDismissed
<1>9. ASSUME NEW a \in Answers, HandoffFails(a) PROVE PipelineInv'
  <2>1. faults' \in Nat
    BY <1>0, <1>9 DEF HandoffFails, Fault
  <2> QED
    BY <1>0, <1>9, <2>1
    DEF HandoffFails, PipelineInv, TypeOK, CopyAgrees, Assigned, JobKnowsTask, AtItsPhase, JobIsNeeded,
        FixOnlyWhenCertain, FiredNeverDismissed
<1>10. ASSUME NEW a \in Answers, AgentStops(a) PROVE PipelineInv'
  <2>1. pc # "idle" /\ pc' = "idle" /\ faults' \in Nat
        /\ UNCHANGED <<job, doc, produced, triggers>>
    BY <1>0, <1>10 DEF AgentStops, Fault, Execution
  <2>2. Raw(a) \in Verdicts
    BY <1>0, <1>10, JudgedType
  <2>3. PICK v \in Verdicts \cup {NoVerdict} :
          /\ saved' = [saved EXCEPT !.status = "stopped", !.verdict = v]
          /\ v = saved.verdict \/ (job # "fix" /\ doc.verdict = NoVerdict)
    <3>1. CASE saved' = [saved EXCEPT !.status = "stopped"]
      <4>1. saved.verdict \in Verdicts \cup {NoVerdict}
        BY <1>0 DEF Tasks
      <4>2. saved' = [saved EXCEPT !.status = "stopped", !.verdict = saved.verdict]
        BY <1>0, <3>1 DEF Tasks
      <4> QED
        BY <4>1, <4>2
    <3>2. CASE /\ job # "fix" /\ doc.verdict = NoVerdict
               /\ \E v \in {NoVerdict, Raw(a)} :
                    saved' = [saved EXCEPT !.status = "stopped", !.verdict = v]
      BY <2>2, <3>2
    <3> QED
      BY <1>10, <3>1, <3>2 DEF AgentStops, Execution, ExecutionShouldRun
  <2>5. /\ saved' \in Tasks /\ saved'.type = saved.type
        /\ saved'.assignee = saved.assignee /\ saved'.status = "stopped"
        /\ saved'.verdict = v
    BY <1>0, <2>3 DEF Tasks
  <2>4. saved'.type = "fix" => saved'.verdict = saved.verdict
    BY <2>1, <2>3, <2>5 DEF PipelineInv, CopyAgrees, FixOnlyWhenCertain, JobKnowsTask
  <2> QED
    BY <1>0, <2>1, <2>5, <2>4
    DEF PipelineInv, TypeOK, CopyAgrees, Assigned, JobKnowsTask, AtItsPhase, JobIsNeeded,
        FixOnlyWhenCertain, FiredNeverDismissed
<1>11. CASE Reopen
  <2>1. PICK p \in PhasesOf[saved.type],
             v \in {saved.verdict} \cup (IF saved.type = "fix" THEN {} ELSE {NoVerdict}) :
          saved' = [saved EXCEPT !.status = "in_progress", !.phase = p, !.verdict = v]
    BY <1>11 DEF Reopen
  <2>2. p \in {"planning", "execution"}
    BY <1>0, <2>1 DEF PhasesOf, Tasks
  <2>3. /\ saved' \in Tasks /\ saved'.type = saved.type
        /\ saved'.assignee = saved.assignee /\ saved'.status = "in_progress"
        /\ saved'.type = "fix" => saved'.verdict = saved.verdict
        /\ saved'.phase \in PhasesOf[saved'.type]
    BY <1>0, <2>1, <2>2 DEF Tasks
  <2>4. pc = "idle" /\ pc' = pc /\ triggers' \in Nat
        /\ UNCHANGED <<job, doc, produced, faults>>
    BY <1>0, <1>11 DEF Reopen
  <2> QED
    BY <1>0, <2>3, <2>4
    DEF PipelineInv, TypeOK, CopyAgrees, Assigned, JobKnowsTask, AtItsPhase, JobIsNeeded,
        FixOnlyWhenCertain, FiredNeverDismissed
<1>12. CASE UNCHANGED vars
  BY <1>0, <1>12
  DEF vars, PipelineInv, TypeOK, CopyAgrees, Assigned, JobKnowsTask, AtItsPhase, JobIsNeeded,
      FixOnlyWhenCertain, FiredNeverDismissed
<1> QED
  BY <1>1, <1>2, <1>3, <1>4, <1>5, <1>6, <1>7, <1>8, <1>9, <1>10, <1>11, <1>12
  DEF Next, Job

(* Every reachable state satisfies the inductive invariant.                 *)
THEOREM PipelineCorrect == Spec => []PipelineInv
BY PipelineInit, PipelineStep, PTL DEF Spec

(* Type correctness, for every bound on faults and triggers.               *)
THEOREM PipelineTyped == Spec => []TypeOK
<1>1. PipelineInv => TypeOK
  BY DEF PipelineInv
<1> QED
  BY <1>1, PipelineCorrect, PTL

(* Whatever crashes, is retried or reopened, the fix agent is given only    *)
(* tasks whose finalized verdict is a High/High real bug.                  *)
THEOREM FixGetsCertain == Spec => []FixOnlyWhenCertain
<1>1. PipelineInv => FixOnlyWhenCertain
  BY DEF PipelineInv
<1> QED
  BY <1>1, PipelineCorrect, PTL

(* No path through triage, deep analysis, restarts or a person's trigger    *)
(* completes a task whose fired disqualifier its verdict dismisses.        *)
THEOREM FiredStands == Spec => []FiredNeverDismissed
<1>1. PipelineInv => FiredNeverDismissed
  BY DEF PipelineInv
<1> QED
  BY <1>1, PipelineCorrect, PTL

(* A handed-off task is not planned again, although the deep analyzer's Job *)
(* goes on in process with the phase it was handed off with.               *)
THEOREM HandedOffStays == Spec => NotReplanned
<1> DEFINE Stays == saved.type = "fix" =>
                      saved'.context = saved.context /\ saved'.type = "fix"
<1>1. ASSUME PipelineInv, [Next]_vars PROVE [Stays]_vars
  <2> SUFFICES ASSUME saved.type = "fix", Next
               PROVE  saved'.context = saved.context /\ saved'.type = "fix"
    BY <1>1
  <2>0. saved \in Tasks /\ saved.assignee = "fixer" /\ saved.verdict # NoVerdict
    BY <1>1 DEF PipelineInv, TypeOK, FixOnlyWhenCertain
  <2>1. pc # "idle" =>
          /\ job # "triage" /\ doc.assignee = "fixer" /\ doc.verdict # NoVerdict
          /\ doc \in Tasks /\ doc.type = "fix" /\ doc.context = saved.context
    BY <1>1, <2>0 DEF PipelineInv, TypeOK, JobKnowsTask, CopyAgrees
  <2>2. CASE Dispatch \/ Skip \/ Crash
    BY <2>2 DEF Dispatch, Skip, Crash
  <2>3. CASE DeliverNil
    BY <2>0, <2>3 DEF DeliverNil, Tasks
  <2>4. CASE Plan
    BY <1>1, <2>1, <2>4
    DEF Plan, PlanningShouldRun, PipelineInv, TypeOK, Types
  <2>5. CASE Fix
    BY <2>1, <2>5 DEF Fix, Deliver, Published, Tasks
  <2>6. ASSUME NEW a \in Answers, ExecuteTriage(a) \/ ExecuteDeep(a) PROVE FALSE
    BY <2>1, <2>6 DEF ExecuteTriage, ExecuteDeep, Execution, ExecutionShouldRun
  <2>7. ASSUME NEW a \in Answers, HandoffFails(a) PROVE UNCHANGED saved
    BY <2>7 DEF HandoffFails
  <2>8. ASSUME NEW a \in Answers, AgentStops(a)
        PROVE  saved'.context = saved.context /\ saved'.type = "fix"
    BY <2>0, <2>1, <2>8 DEF AgentStops, Execution, ExecutionShouldRun, Tasks
  <2>9. CASE Reopen
    BY <2>0, <2>9 DEF Reopen, Tasks
  <2> QED
    BY <2>2, <2>3, <2>4, <2>5, <2>6, <2>7, <2>8, <2>9 DEF Next, Job
<1> QED
  BY <1>1, PipelineCorrect, PTL DEF Spec, NotReplanned

-----------------------------------------------------------------------------
(* The measure is a number, and the task counts for more of it than its Job. *)
LEMMA RankBounds ==
  /\ Left \in 0..5 /\ Stage \in 0..3 /\ Rank \in 0..23
  /\ saved.status = "in_progress" => Left > 0
<1>1. Left \in 0..5 /\ Stage \in 0..3
  BY DEF Left, Stage
<1>2. saved.status = "in_progress" => Left > 0
  BY DEF Left
<1> QED BY <1>1, <1>2 DEF Rank

(* The measure falls where the task is brought on, wherever its Job stands   *)
(* after it, and where the Job alone is.                                   *)
LEMMA Falls ==
  ASSUME Left' < Left \/ (Left' = Left /\ Stage' < Stage)
  PROVE  Rank' < Rank
<1>1. Left' \in 0..5 /\ Stage' \in 0..3
  BY DEF Left, Stage
<1>2. Left \in 0..5 /\ Stage \in 0..3
  BY RankBounds
<1>3. \A a, b \in 0..5, c, d \in 0..3 :
        b < a \/ (b = a /\ d < c) => 4 * b + d < 4 * a + c
  OBVIOUS
<1>4. 4 * Left' + Stage' < 4 * Left + Stage
  BY <1>1, <1>2, <1>3
<1> QED BY <1>4 DEF Rank

(* What a delivery leaves in the file, as far as the measure looks at it.    *)
LEMMA DeliverLeaves ==
  ASSUME NEW d \in Tasks, NEW next, NEW declared \in BOOLEAN, Deliver(d, next, declared)
  PROVE  /\ saved'.type = d.type /\ saved'.context = d.context
         /\ saved'.analysis = d.analysis
         /\ saved'.status = IF next = "done" THEN "completed" ELSE "in_progress"
  BY DEF Deliver, Published, Tasks

(* Every step of a Job brings the measure down.                            *)
LEMMA RankFalls ==
  ASSUME PipelineInv, Job
  PROVE  Rank' < Rank
<1>0. /\ saved \in Tasks /\ doc \in Tasks /\ job \in Types /\ produced \in BOOLEAN
      /\ pc \in {"idle", "planning", "execution", "nil"}
  BY DEF PipelineInv, TypeOK
<1>1. pc # "idle" =>
        /\ saved.status = "in_progress" /\ doc.analysis = saved.analysis
        /\ doc.type = saved.type /\ doc.verdict = saved.verdict
        /\ doc.assignee = saved.assignee /\ doc.context = saved.context
        /\ job = "triage" => saved.type = "triage"
        /\ job = "deep" => saved.type # "triage"
  BY DEF PipelineInv, CopyAgrees, JobKnowsTask, JobIsNeeded
<1>2. saved.type = "fix" => saved.assignee = "fixer" /\ saved.verdict # NoVerdict
  BY DEF PipelineInv, FixOnlyWhenCertain
<1>3. CASE Dispatch
  <2>1. pc = "idle" /\ pc' \in {"planning", "execution"} /\ ~produced' /\ saved' = saved
    BY <1>0, <1>3 DEF Dispatch, PhasesOf, Tasks
  <2>2. Left' = Left /\ Stage = 2 /\ Stage' = 1
    BY <2>1 DEF Left, Stage
  <2> QED BY <2>2, Falls
<1>4. CASE Skip
  <2>1. /\ pc \in {"planning", "execution"} /\ saved' = saved
        /\ pc' = IF produced THEN "idle" ELSE "nil"
    BY <1>4 DEF Skip
  <2>2. Left' = Left /\ Stage' < Stage
    BY <2>1 DEF Left, Stage
  <2> QED BY <2>2, Falls
<1>5. CASE DeliverNil
  <2>1. saved'.status = "stopped" /\ saved.status = "in_progress"
    BY <1>0, <1>1, <1>5 DEF DeliverNil, Tasks
  <2>2. Left' = 0
    BY <2>1 DEF Left
  <2> QED BY <2>1, <2>2, RankBounds, Falls
<1>6. CASE Plan
  <2>1. CASE job = "triage"
    <3>1. ~doc.analysis /\ Deliver([doc EXCEPT !.analysis = TRUE], "execution", FALSE) /\ pc # "idle"
      BY <1>6, <2>1 DEF Plan, PlanningShouldRun
    <3> DEFINE d == [doc EXCEPT !.analysis = TRUE]
    <3>2. d \in Tasks /\ d.type = doc.type /\ d.analysis = TRUE
      BY <1>0 DEF Tasks
    <3>3. saved.type = "triage" /\ ~saved.analysis /\ saved.status = "in_progress"
      BY <1>1, <2>1, <3>1
    <3>4. saved'.type = "triage" /\ saved'.analysis = TRUE /\ saved'.status = "in_progress"
      <4>1. Deliver(d, "execution", FALSE) /\ doc.type = "triage"
        BY <1>1, <3>1, <3>3
      <4> HIDE DEF d
      <4>2. /\ saved'.type = d.type /\ saved'.context = d.context /\ saved'.analysis = d.analysis
            /\ saved'.status = "in_progress"
        BY <3>2, <4>1 DEF Deliver, Published, Tasks
      <4> QED BY <3>2, <4>1, <4>2
    <3>5. Left = 5 /\ Left' = 4
      BY <3>3, <3>4 DEF Left
    <3> QED BY <3>5, Falls
  <2>2. CASE job # "triage"
    <3>1. /\ job = "deep" /\ doc.assignee # "fixer" /\ ~doc.context /\ pc # "idle"
          /\ Deliver([doc EXCEPT !.context = TRUE], "execution", FALSE)
      BY <1>0, <1>6, <2>2 DEF Plan, PlanningShouldRun, Types
    <3> DEFINE d == [doc EXCEPT !.context = TRUE]
    <3>2. d \in Tasks /\ d.type = doc.type /\ d.context = TRUE
      BY <1>0 DEF Tasks
    <3>3. saved.type = "deep" /\ ~saved.context /\ saved.status = "in_progress"
      BY <1>0, <1>1, <1>2, <3>1 DEF Tasks, Types
    <3>4. saved'.type = "deep" /\ saved'.context = TRUE /\ saved'.status = "in_progress"
      <4>1. Deliver(d, "execution", FALSE) /\ doc.type = "deep"
        BY <1>1, <3>1, <3>3
      <4> HIDE DEF d
      <4>2. /\ saved'.type = d.type /\ saved'.context = d.context /\ saved'.analysis = d.analysis
            /\ saved'.status = "in_progress"
        BY <3>2, <4>1 DEF Deliver, Published, Tasks
      <4> QED BY <3>2, <4>1, <4>2
    <3>5. Left = 3 /\ Left' = 2
      BY <3>3, <3>4 DEF Left
    <3> QED BY <3>5, Falls
  <2> QED BY <2>1, <2>2
<1>7. CASE Fix
  <2>1. Deliver(doc, "done", FALSE) /\ saved.status = "in_progress"
    BY <1>1, <1>7 DEF Fix
  <2>2. saved'.status = "completed"
    BY <1>0, <2>1, DeliverLeaves
  <2>3. Left' = 0
    BY <2>2 DEF Left
  <2> QED BY <2>1, <2>3, RankBounds, Falls
<1>8. ASSUME NEW a \in Answers, ExecuteTriage(a) PROVE Rank' < Rank
  <2> DEFINE v == Judged(a)
             e == [doc EXCEPT !.verdict = v, !.assignee = "analyzer",
                              !.type = "deep", !.phase = "planning"]
             d == [doc EXCEPT !.verdict = v]
  <2>1. v \in Verdicts
    BY <1>0, <1>8, JudgedType
  <2>2. saved.type = "triage" /\ saved.status = "in_progress"
    BY <1>1, <1>8 DEF ExecuteTriage, Execution
  <2>3. Deliver(e, "none", FALSE) \/ Deliver(d, "done", FALSE)
    BY <1>8 DEF ExecuteTriage
  <2> HIDE DEF v
  <2>4. e \in Tasks /\ e.type = "deep" /\ d \in Tasks
    BY <1>0, <2>1 DEF Tasks, Types
  <2> HIDE DEF e, d
  <2>5. saved'.type = "deep" \/ saved'.status = "completed"
    BY <2>3, <2>4, DeliverLeaves
  <2>6. Left \in {4, 5} /\ Left' \in {0, 2, 3}
    BY <2>2, <2>5 DEF Left
  <2> QED BY <2>6, Falls
<1>9. ASSUME NEW a \in Answers, ExecuteDeep(a) PROVE Rank' < Rank
  <2> DEFINE v == Judged(a)
             e == [doc EXCEPT !.verdict = v, !.assignee = "fixer",
                              !.type = "fix", !.phase = "planning"]
             d == [doc EXCEPT !.verdict = v]
  <2>1. v \in Verdicts
    BY <1>0, <1>9, JudgedType
  <2>2. saved.type = "deep" /\ saved.status = "in_progress"
    BY <1>0, <1>1, <1>2, <1>9 DEF ExecuteDeep, Execution, ExecutionShouldRun, Tasks, Types
  <2>3. Deliver(e, "planning", TRUE) \/ Deliver(d, "done", FALSE)
    BY <1>9 DEF ExecuteDeep, Handoff
  <2> HIDE DEF v
  <2>4. e \in Tasks /\ e.type = "fix" /\ d \in Tasks
    BY <1>0, <2>1 DEF Tasks, Types
  <2> HIDE DEF e, d
  <2>5. saved'.type = "fix" \/ saved'.status = "completed"
    BY <2>3, <2>4, DeliverLeaves
  <2>6. Left \in {2, 3} /\ Left' \in {0, 1}
    BY <2>2, <2>5 DEF Left
  <2> QED BY <2>6, Falls
<1> QED BY <1>3, <1>4, <1>5, <1>6, <1>7, <1>8, <1>9 DEF Job

(* Between two faults or triggers a task costs a bounded number of Jobs:     *)
(* each step of one leaves less to do, a run in which every step skips and *)
(* the deep analyzer's Job that outlives its handoff not excepted.         *)
THEOREM NoChurn == Spec => NeverChurns
<1>1. PipelineInv /\ [Next]_vars => [Job => Rank' < Rank]_vars
  BY RankFalls
<1> QED BY <1>1, PipelineCorrect, PTL DEF Spec, NeverChurns

(* What a step of a Job, or the executor's dispatch, waits for.             *)
GoesOn ==
  \/ pc = "idle" /\ saved.phase \in PhasesOf[saved.type] /\ saved.assignee = AgentOf[saved.type]
  \/ pc \in {"planning", "nil"}
  \/ pc = "execution" /\ (job \in {"triage", "deep"} \/ ~ExecutionShouldRun)

(* A task in progress has a next step: nothing anyone delivered leaves it at  *)
(* a phase, of a type or with an assignee that no agent is triggered for.   *)
(* With NoChurn this is why a task ends once faults do.                    *)
THEOREM NeverStranded == Spec => [](saved.status = "in_progress" => GoesOn)
<1>1. PipelineInv => (saved.status = "in_progress" => GoesOn)
  BY DEF PipelineInv, TypeOK, Assigned, AtItsPhase, JobIsNeeded, GoesOn, Types
<1> QED BY <1>1, PipelineCorrect, PTL

-----------------------------------------------------------------------------
(* Once the task has a ## Verdict, no Job of any agent writes another: the   *)
(* execution steps of triage and deep analyzer alike are skipped where the  *)
(* section exists (pkg/steps/deep-execution.go), so that the verdict a deep *)
(* task ends with is the one triage gave it. Only a person takes it out, of *)
(* a task that has ended.                                                  *)
THEOREM VerdictStands ==
  Spec => [][saved.verdict # NoVerdict =>
               \/ saved'.verdict = saved.verdict
               \/ saved.status # "in_progress" /\ saved'.verdict = NoVerdict]_vars
<1> DEFINE Stands ==
      saved.verdict # NoVerdict =>
        \/ saved'.verdict = saved.verdict
        \/ saved.status # "in_progress" /\ saved'.verdict = NoVerdict
<1>1. PipelineInv /\ [Next]_vars => [Stands]_vars
  <2> SUFFICES ASSUME PipelineInv, Next, saved.verdict # NoVerdict
               PROVE  \/ saved'.verdict = saved.verdict
                      \/ saved.status # "in_progress" /\ saved'.verdict = NoVerdict
    OBVIOUS
  <2>0. saved \in Tasks /\ doc \in Tasks
    BY DEF PipelineInv, TypeOK
  <2>1. pc # "idle" => doc.verdict = saved.verdict
    BY DEF PipelineInv, CopyAgrees
  <2>2. pc = "execution" => ~ExecutionShouldRun
    BY <2>1 DEF ExecutionShouldRun
  <2>3. ASSUME NEW d \in Tasks, NEW next, NEW declared, Deliver(d, next, declared),
               d.verdict = saved.verdict
        PROVE  saved'.verdict = saved.verdict
    BY <2>3 DEF Deliver, Published, Tasks
  <2>4. CASE Dispatch \/ Skip \/ DeliverNil
    BY <2>0, <2>4 DEF Dispatch, Skip, DeliverNil, Tasks
  <2>5. CASE Plan
    <3>1. pc # "idle"
      BY <2>5 DEF Plan
    <3> DEFINE d == IF job = "triage" THEN [doc EXCEPT !.analysis = TRUE]
                                      ELSE [doc EXCEPT !.context = TRUE]
    <3>2. d \in Tasks /\ d.verdict = saved.verdict
      BY <2>0, <2>1, <3>1 DEF Tasks
    <3>3. Deliver(d, "execution", FALSE)
      BY <2>5 DEF Plan
    <3> QED BY <2>3, <3>2, <3>3
  <2>6. CASE Fix
    <3>1. pc # "idle" /\ Deliver(doc, "done", FALSE)
      BY <2>6 DEF Fix
    <3> QED BY <2>0, <2>1, <2>3, <3>1
  <2>7. ASSUME NEW a \in Answers, ExecuteTriage(a) \/ ExecuteDeep(a) \/ HandoffFails(a)
        PROVE  FALSE
    BY <2>2, <2>7 DEF ExecuteTriage, ExecuteDeep, HandoffFails, Execution
  <2>8. ASSUME NEW a \in Answers, AgentStops(a)
        PROVE  saved'.verdict = saved.verdict
    BY <2>0, <2>2, <2>8 DEF AgentStops, Execution, Tasks
  <2>9. CASE Crash
    BY <2>9 DEF Crash
  <2>10. CASE Reopen
    BY <2>0, <2>10 DEF Reopen, Tasks
  <2> QED BY <2>4, <2>5, <2>6, <2>7, <2>8, <2>9, <2>10 DEF Next, Job
<1> QED BY <1>1, PipelineCorrect, PTL DEF Spec

(* A Job that runs for a task of the fix agent is the fix agent's, or the deep *)
(* analyzer's that has handed it off and has delivered that; neither is    *)
(* about to end the task for want of a result.                             *)
FixerOwesNothing ==
  pc # "idle" /\ saved.type = "fix" => pc # "nil" /\ (job = "fix" \/ produced)

LEMMA FixerOwesNothingStep ==
  ASSUME PipelineInv, FixerOwesNothing, Next \/ UNCHANGED vars
  PROVE  FixerOwesNothing'
<1>0. saved \in Tasks /\ doc \in Tasks /\ job \in Types
  BY DEF PipelineInv, TypeOK
<1>1. CASE Dispatch
  BY <1>0, <1>1 DEF Dispatch, FixerOwesNothing, PhasesOf, Types, Tasks
<1>2. CASE Skip
  <2>1. ASSUME saved.type = "fix" PROVE produced
    <3>1. job # "fix"
      BY <1>2 DEF Skip, PlanningShouldRun, PipelineInv, JobIsNeeded
    <3> QED BY <1>2, <2>1, <3>1 DEF Skip, FixerOwesNothing
  <2> QED BY <1>2, <2>1 DEF Skip, FixerOwesNothing
<1>3. CASE DeliverNil
  BY <1>3 DEF DeliverNil, FixerOwesNothing
<1>4. ASSUME NEW d, NEW next, NEW declared, Deliver(d, next, declared)
      PROVE  FixerOwesNothing'
  <2>1. produced' = TRUE /\ (pc' = "idle" \/ pc' \in PhasesOf[job])
    BY <1>4 DEF Deliver
  <2>2. "nil" \notin PhasesOf[job]
    BY <1>0 DEF PhasesOf
  <2> QED BY <2>1, <2>2 DEF FixerOwesNothing
<1>5. CASE Plan \/ Fix
  BY <1>4, <1>5 DEF Plan, Fix
<1>6. ASSUME NEW a \in Answers, ExecuteTriage(a) \/ ExecuteDeep(a) PROVE FixerOwesNothing'
  BY <1>4, <1>6 DEF ExecuteTriage, ExecuteDeep, Handoff
<1>7. ASSUME NEW a \in Answers, HandoffFails(a) \/ AgentStops(a) PROVE FixerOwesNothing'
  BY <1>7 DEF HandoffFails, AgentStops, FixerOwesNothing
<1>8. CASE Crash \/ Reopen \/ UNCHANGED vars
  BY <1>8 DEF Crash, Reopen, FixerOwesNothing, vars
<1> QED BY <1>1, <1>2, <1>3, <1>5, <1>6, <1>7, <1>8 DEF Next, Job

(* A task handed to the fix agent leaves its hands completed: short of a     *)
(* fault, no Job stops it, also not the deep analyzer's Job that finds      *)
(* itself back in its planning phase after the handoff and has no step to   *)
(* run there (pkg/steps/deep-planning.go). With NoChurn and NeverStranded   *)
(* this is what HandedOffIsFixed says, but for the fairness.                *)
THEOREM HandedOffIsOnlyCompleted ==
  Spec => [][saved.type = "fix" /\ saved.status = "in_progress" /\ UNCHANGED faults =>
               saved'.status \in {"in_progress", "completed"}]_vars
<1> DEFINE Completes ==
      saved.type = "fix" /\ saved.status = "in_progress" /\ UNCHANGED faults =>
        saved'.status \in {"in_progress", "completed"}
<1>1. PipelineInv /\ FixerOwesNothing /\ [Next]_vars => [Completes]_vars
  <2> SUFFICES ASSUME PipelineInv, FixerOwesNothing, Next, saved.type = "fix",
                      saved.status = "in_progress", UNCHANGED faults
               PROVE  saved'.status \in {"in_progress", "completed"}
    OBVIOUS
  <2>0. saved \in Tasks /\ doc \in Tasks /\ ~Fault
    BY DEF PipelineInv, TypeOK, Fault
  <2>1. CASE Dispatch \/ Skip \/ Crash
    BY <2>1 DEF Dispatch, Skip, Crash
  <2>2. ~DeliverNil /\ ~Reopen
    BY DEF DeliverNil, Reopen, FixerOwesNothing
  <2>3. ASSUME NEW d \in Tasks, NEW next, NEW declared, Deliver(d, next, declared)
        PROVE  saved'.status \in {"in_progress", "completed"}
    BY <2>3 DEF Deliver, Published, Tasks
  <2>4. CASE Plan
    <3>1. [doc EXCEPT !.analysis = TRUE] \in Tasks /\ [doc EXCEPT !.context = TRUE] \in Tasks
      BY <2>0 DEF Tasks
    <3> QED BY <2>3, <2>4, <3>1 DEF Plan
  <2>5. CASE Fix
    BY <2>0, <2>3, <2>5 DEF Fix
  <2>6. ASSUME NEW a \in Answers, ExecuteTriage(a) \/ ExecuteDeep(a) PROVE FALSE
    <3>1. pc = "execution" /\ doc.verdict = NoVerdict
      BY <2>6 DEF ExecuteTriage, ExecuteDeep, Execution, ExecutionShouldRun
    <3>2. saved.verdict # NoVerdict /\ doc.verdict = saved.verdict
      BY <3>1 DEF PipelineInv, FixOnlyWhenCertain, CopyAgrees
    <3> QED BY <3>1, <3>2
  <2>7. ASSUME NEW a \in Answers, HandoffFails(a) \/ AgentStops(a) PROVE FALSE
    BY <2>0, <2>7 DEF HandoffFails, AgentStops
  <2> QED BY <2>1, <2>2, <2>4, <2>5, <2>6, <2>7 DEF Next, Job
<1>2. Init => FixerOwesNothing
  BY DEF Init, FixerOwesNothing
<1>3. PipelineInv /\ FixerOwesNothing /\ [Next]_vars => FixerOwesNothing'
  BY FixerOwesNothingStep
<1> QED BY <1>1, <1>2, <1>3, PipelineCorrect, PTL DEF Spec
=============================================================================
