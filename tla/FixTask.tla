------------------------------- MODULE FixTask -------------------------------
(***************************************************************************)
(* One task of the fix agent: fixStep (pkg/steps/fix.go) inside the Jira   *)
(* proposal decorator (pkg/steps/jira-proposal.go), as main.go runs it.    *)
(*                                                                         *)
(* A Job works on a copy (doc) of the task file (saved) and delivers it    *)
(* once, at its end; a Job that returns an error, is killed or loses its   *)
(* context delivers nothing, stays "open" and is dispatched again.  What   *)
(* the writer does on GitHub is modelled in SpecWriter; here one call      *)
(* files a spec, and may do so without the Job learning of it.             *)
(***************************************************************************)
EXTENDS Naturals, FiniteSets

CONSTANTS
  Repos,         \* repositories the resolver may name
  Admission,     \* Admission[p]: what the writer says of p before any call;
                 \* "broken" is its error: no client, a malformed allowlist
                 \* entry, or under an empty allowlist no owner/name
  NoRepo,        \* the answer of the resolver that names no repository
  NoBlock,       \* its answer without a readable block
  Drift,         \* may Sentry and the resolver answer differently next time?
  MaxFaults,     \* bound: Job deaths, API errors and cancelled contexts
  MaxTriggers    \* bound: times a person reopens an ended task

(* The ## Verdict section, as far as the two parsers and the rule tell      *)
(* verdicts apart.  fields: of those a spec needs, one is missing that Run  *)
(* asks for, or only the issue id, or none; proposable: the frontmatter has *)
(* a short_id and a project.                                               *)
Verdicts ==
  [label : {"real bug", "regression", "other"},
   fields : {"all", "noId", "missing"},
   disqualified : BOOLEAN, parses : BOOLEAN, deepParses : BOOLEAN,
   proposable : BOOLEAN]

(* rule: the mechanism the resolver claims, if it claims one.              *)
Rules == {"frame", "list"}
Resolutions == [repo : Repos, fresh : BOOLEAN, rule : Rules \cup {"none"}]
Answers == Resolutions \cup {NoRepo, NoBlock}

ASSUME FixTaskAssumption ==
  /\ Admission \in [Repos -> {"admitted", "refused", "broken"}]
  /\ NoRepo \notin Resolutions /\ NoBlock \notin Resolutions
  /\ NoRepo # NoBlock
  /\ Drift \in BOOLEAN
  /\ MaxFaults \in Nat /\ MaxTriggers \in Nat

(* "error": a trace that cannot be read, which is no statement about it.    *)
Traces == {"frame", "none", "notFound", "error"}
Results == {"none", "filed", "declined", "skipped", "stale"}
Docs == [result : Results, blocks : Nat]

VARIABLES
  verdict,    \* what the deep analyzer left in the task, never written here
  world,      \* what Sentry and the resolver answer now
  saved,      \* the task file: ## Fix Result and ### Jira Proposal blocks
  status,     \* the task's state at the controller
  pc,         \* the running Job's next step
  doc,        \* the running Job's copy of the task
  frame,      \* the trace evidence the Job has read
  resolved,   \* the resolution the Job was given, NoRepo before
  outcome,    \* what the Job is about to record
  cancelled,  \* is the Job's context done?
  filed,      \* every spec the writer filed: its resolution and its evidence
  faults, triggers

vars == <<verdict, world, saved, status, pc, doc, frame, resolved, outcome,
          cancelled, filed, faults, triggers>>
outside == <<verdict, world, saved, status, faults, triggers>>

HasPull(d) == d.result = "filed"

(* Tasks as they arrive: fresh, or completed by a release that had no       *)
(* decorator and opened again since.                                       *)
Init ==
  /\ verdict \in Verdicts
  /\ world \in [trace : Traces, resolution : Answers]
  /\ saved \in [result : {"none", "skipped"}, blocks : {0}]
  /\ status = "open"
  /\ pc = "idle"
  /\ doc = saved
  /\ frame = FALSE
  /\ resolved = NoRepo
  /\ outcome = "none"
  /\ cancelled = FALSE
  /\ filed = {}
  /\ faults = 0
  /\ triggers = 0

-----------------------------------------------------------------------------
(***************************************************************************)
(* Plausible bugs, for the runs to notice; nothing else uses them.         *)
(***************************************************************************)

Goto(from, to) == pc = from /\ pc' = to

(* What a Job knew is gone with it.                                        *)
NoJob ==
  /\ pc' = "idle"
  /\ doc' = saved'
  /\ frame' = FALSE /\ resolved' = NoRepo /\ outcome' = "none"
  /\ cancelled' = FALSE

(* md.FindSection instead of the text scan: a three-hash heading is no      *)
(* section of a document that was parsed again.                            *)
HasBlockSection(d) == d.blocks > saved.blocks

(* "no pull request" read off the verdict alone.                           *)
QualifiesByVerdict(d) ==
  /\ verdict.label \in {"real bug", "regression"}
  /\ verdict.disqualified
  /\ verdict.label = "real bug" => d.result # "none"

(* The resolver's rule taken at its word.                                  *)
TakenAtItsWord(res) == TRUE

(* The decorator runs the fix step whether or not it has work left.        *)
DispatchInner ==
  /\ status = "open"
  /\ Goto("idle", IF HasBlockSection(saved) THEN "nil" ELSE "parse")
  /\ doc' = saved
  /\ frame' = FALSE
  /\ outcome' = "none"
  /\ cancelled' = FALSE
  /\ UNCHANGED <<outside, resolved, filed>>

(* An empty repository not taken for an unmappable resolution.             *)
ResolveAnything ==
  LET res == world.resolution IN
  /\ ~cancelled
  /\ Goto("resolve", "write")
  /\ res = NoRepo \/ (res \in Resolutions /\ res.fresh)
  /\ resolved' = res
  /\ UNCHANGED <<outside, doc, frame, outcome, cancelled, filed>>

(* A parser that does not look at the context.                             *)
EvaluateRegardless ==
  /\ Goto("evaluate", "deliver")
  /\ verdict.parses
  /\ UNCHANGED <<outside, doc, frame, resolved, outcome, cancelled, filed>>

(* Done without NextPhase where the fix step had run before.               *)
DeliverWithoutPhase ==
  /\ pc = "deliver" /\ saved' = doc /\ NoJob
  /\ status' = IF saved.result # "none" THEN status ELSE "completed"
  /\ UNCHANGED <<verdict, world, filed, faults, triggers>>

-----------------------------------------------------------------------------
(***************************************************************************)
(* The Job.                                                                *)
(***************************************************************************)

(* hasJiraProposalBlock scans the text, so it sees a block of an earlier    *)
(* Job too.                                                                *)
HasBlock(d) == d.blocks > 0

(* The executor starts a Job.  The decorator's ShouldRun skips a task that  *)
(* has a block; its Run leaves out a fix step that has recorded its result. *)
Dispatch ==
  /\ status = "open"
  /\ Goto("idle", IF HasBlock(saved) THEN "nil"
                  ELSE IF saved.result # "none" THEN "evaluate" ELSE "parse")
  /\ doc' = saved
  /\ frame' = FALSE
  /\ outcome' = "none"
  /\ cancelled' = FALSE
  /\ UNCHANGED <<outside, resolved, filed>>

(* The error is returned, main exits non-zero and nothing is delivered.    *)
JobFails == UNCHANGED <<outside, filed>> /\ NoJob

(* Every call after the context is done fails, and so do the parsers.      *)
Calls == {"parse", "trace", "resolve", "write", "evaluate"}

Abort == pc \in Calls /\ cancelled /\ JobFails

(* A recorded no-op: the Job goes on to write ## Fix Result and to Done.   *)
Decide(from, result) ==
  /\ Goto(from, "record")
  /\ outcome' = result
  /\ UNCHANGED <<outside, doc, frame, resolved, cancelled, filed>>

ParseVerdict ==
  /\ pc = "parse" /\ ~cancelled
  /\ \/ ~verdict.deepParses /\ JobFails
     \/ /\ verdict.deepParses
        /\ verdict.label # "real bug" \/ verdict.fields = "missing"
        /\ Decide("parse", "skipped")
     \/ /\ verdict.deepParses
        /\ verdict.label = "real bug" /\ verdict.fields # "missing"
        /\ Goto("parse", "trace")
        /\ UNCHANGED <<outside, doc, frame, resolved, outcome, cancelled, filed>>

ReadTrace ==
  /\ pc = "trace" /\ ~cancelled
  /\ \/ world.trace = "error" /\ JobFails
     \/ world.trace = "notFound" /\ Decide("trace", "skipped")
     \/ /\ world.trace \in {"frame", "none"}
        /\ Goto("trace", "resolve")
        /\ frame' = (world.trace = "frame")
        /\ UNCHANGED <<outside, doc, resolved, outcome, cancelled, filed>>

(* VerifyResolutionMechanism: a claimed frame path is in the trace.         *)
Verified(res) == res.rule = "frame" => frame

(* BuildSpec wants the issue id and a rule; an error of it fails the Job    *)
(* as often as the verdict or the answer stay what they are.               *)
Buildable(res) == verdict.fields = "all" /\ res.rule \in Rules

Resolve ==
  LET res == world.resolution
      current == res \in Resolutions /\ res.fresh IN
  /\ pc = "resolve" /\ ~cancelled
  /\ \/ res = NoBlock /\ JobFails
     \/ res = NoRepo /\ Decide("resolve", "skipped")
     \/ res \in Resolutions /\ ~res.fresh /\ Decide("resolve", "stale")
     \/ current /\ ~Verified(res) /\ Decide("resolve", "skipped")
     \/ current /\ Verified(res) /\ ~Buildable(res) /\ JobFails
     \/ /\ current /\ Verified(res) /\ Buildable(res)
        /\ Goto("resolve", "write")
        /\ resolved' = res
        /\ UNCHANGED <<outside, doc, frame, outcome, cancelled, filed>>

Filing(res) == [repo |-> res.repo, rule |-> res.rule, fresh |-> res.fresh,
                frame |-> frame]

WriteSpec ==
  /\ pc = "write" /\ ~cancelled
  /\ \/ Admission[resolved.repo] = "broken" /\ JobFails
     \/ Admission[resolved.repo] = "refused" /\ Decide("write", "declined")
     \/ /\ Admission[resolved.repo] = "admitted"
        /\ Goto("write", "record")
        /\ outcome' = "filed"
        /\ filed' = filed \cup {Filing(resolved)}
        /\ UNCHANGED <<outside, doc, frame, resolved, cancelled>>

(* recordResult writes the section, or nothing when the context is done.   *)
Record ==
  /\ Goto("record", "evaluate")
  /\ doc' = IF cancelled THEN doc ELSE [doc EXCEPT !.result = outcome]
  /\ UNCHANGED <<outside, frame, resolved, outcome, cancelled, filed>>

(* proposalQualifies: a real bug needs a Fix Result without a pull request, *)
(* a regression only the absence of one.                                   *)
Qualifies(d) ==
  /\ verdict.label \in {"real bug", "regression"}
  /\ verdict.disqualified
  /\ verdict.label = "real bug" => d.result # "none"
  /\ ~HasPull(d)

Evaluate ==
  /\ pc = "evaluate" /\ ~cancelled
  /\ LET emit == Qualifies(doc) /\ ~HasBlock(doc) IN
     \/ ~verdict.parses /\ JobFails
     \/ verdict.parses /\ emit /\ ~verdict.proposable /\ JobFails
     \/ /\ verdict.parses /\ (emit => verdict.proposable)
        /\ Goto("evaluate", "deliver")
        /\ doc' = IF emit THEN [doc EXCEPT !.blocks = @ + 1] ELSE doc
        /\ UNCHANGED <<outside, frame, resolved, outcome, cancelled, filed>>

(* Done with NextPhase "done": the task file is replaced and the task ends. *)
Deliver ==
  /\ pc = "deliver" /\ saved' = doc /\ NoJob
  /\ status' = "completed"
  /\ UNCHANGED <<verdict, world, filed, faults, triggers>>

(* Every step skipped: deliverNilResult ends the task as failed.           *)
DeliverNil ==
  /\ pc = "nil" /\ UNCHANGED saved /\ NoJob
  /\ status' = "failed"
  /\ UNCHANGED <<verdict, world, filed, faults, triggers>>

-----------------------------------------------------------------------------
(***************************************************************************)
(* Faults and people.                                                      *)
(***************************************************************************)

Fault == faults < MaxFaults /\ faults' = faults + 1

(* The Job is killed, or a call or the delivery fails.  Killed inside the   *)
(* write, the Job may have left the spec and the pull request on GitHub.   *)
Crash ==
  /\ Fault
  /\ pc # "idle" /\ UNCHANGED saved /\ NoJob
  /\ \/ filed' = filed
     \/ /\ pc = "write" /\ ~cancelled /\ Admission[resolved.repo] = "admitted"
        /\ filed' = filed \cup {Filing(resolved)}
  /\ UNCHANGED <<verdict, world, status, triggers>>

(* SIGTERM, or the Job's deadline.                                         *)
Cancel ==
  /\ Fault
  /\ pc # "idle" /\ ~cancelled /\ cancelled' = TRUE
  /\ UNCHANGED <<verdict, world, saved, status, pc, doc, frame, resolved,
                 outcome, filed, triggers>>

(* A person opens an ended task again.                                     *)
Reopen ==
  /\ triggers < MaxTriggers /\ triggers' = triggers + 1
  /\ status # "open" /\ status' = "open"
  /\ UNCHANGED <<verdict, world, saved, pc, doc, frame, resolved, outcome,
                 cancelled, filed, faults>>

(* Sentry, or the resolver, answers differently from now on.               *)
Change ==
  /\ Drift
  /\ Fault
  /\ \/ \E t \in Traces : world' = [world EXCEPT !.trace = t]
     \/ \E a \in Answers : world' = [world EXCEPT !.resolution = a]
  /\ world' # world
  /\ UNCHANGED <<verdict, saved, status, pc, doc, frame, resolved, outcome,
                 cancelled, filed, triggers>>

Job == \/ Dispatch \/ Abort \/ ParseVerdict \/ ReadTrace \/ Resolve \/ WriteSpec
       \/ Record \/ Evaluate \/ Deliver \/ DeliverNil

Next == Job \/ Crash \/ Cancel \/ Reopen \/ Change

Spec == Init /\ [][Next]_vars

(* A pod that is not killed keeps running, and an open task is dispatched.  *)
FairSpec == Spec /\ WF_vars(Job)

-----------------------------------------------------------------------------
(***************************************************************************)
(* Properties.                                                             *)
(***************************************************************************)

(* Types; the writer is only ever called with a repository, and what it     *)
(* files names a rule.                                                     *)
TypeOK ==
  /\ verdict \in Verdicts
  /\ world \in [trace : Traces, resolution : Answers]
  /\ saved \in Docs /\ doc \in Docs
  /\ status \in {"open", "completed", "failed"}
  /\ pc \in Calls \cup {"idle", "record", "deliver", "nil"}
  /\ frame \in BOOLEAN /\ cancelled \in BOOLEAN
  /\ resolved \in Resolutions \cup {NoRepo}
  /\ outcome \in Results
  /\ filed \subseteq [repo : Repos, rule : Rules, fresh : BOOLEAN, frame : BOOLEAN]
  /\ faults \in Nat /\ triggers \in Nat
  /\ pc = "write" => resolved \in Resolutions

(* A completed task says what became of it, also when the context was done  *)
(* in the instant recordResult wrote nothing: the proposal rule's parser    *)
(* then fails the Job that would have reported Done without a record.      *)
CompletedIsRecorded == status = "completed" => saved.result # "none"

(* One alert gets at most one Jira proposal, however often its task is      *)
(* interrupted and opened again.                                           *)
OneProposal == saved.blocks <= 1

(* The task file never holds a pull request and a proposal at once, also     *)
(* when they were written by different Jobs.                               *)
EitherPullOrProposal == saved.blocks > 0 => ~HasPull(saved)

(* A delivered record of a filed spec is true, and every spec was filed     *)
(* on a fresh citation in an admitted repository whose claimed mechanism    *)
(* the trace read by the same Job bears out.                               *)
FiledHonestly ==
  /\ HasPull(saved) => filed # {}
  /\ \A f \in filed :
       f.fresh /\ f.repo \in Repos /\ (f.rule = "frame" => f.frame)
         /\ Admission[f.repo] = "admitted"

(* Once ## Fix Result is in the task file it stays as it is, and no further *)
(* spec is filed for the task.                                             *)
ResultIsFinal ==
  [][saved.result # "none" =>
       saved'.result = saved.result /\ filed' = filed]_vars

(* jira-proposal.go: a proposal is written exactly when the fix agent       *)
(* produced no pull request, never otherwise.                              *)
ProposalOnlyWithoutPull == saved.blocks > 0 => filed = {}

(* Both parsers read the verdict, and a proposal could be written.          *)
Readable == verdict.parses /\ verdict.deepParses /\ verdict.proposable

(* The answers on which Run returns an error, and will as long as they are  *)
(* given: a trace or a block that cannot be read, a citation that passes    *)
(* every gate and that BuildSpec or the writer cannot work with.           *)
FailsEachTime ==
  LET res == world.resolution IN
  /\ verdict.label = "real bug" /\ verdict.fields # "missing"
  /\ world.trace # "notFound"
  /\ \/ world.trace = "error"
     \/ res = NoBlock
     \/ /\ res \in Resolutions /\ res.fresh
        /\ res.rule = "frame" => world.trace = "frame"
        /\ ~Buildable(res) \/ Admission[res.repo] = "broken"

(* No readable task is retried for ever on answers fix.go records: what is  *)
(* not real, incomplete, unknown to Sentry, unmappable, stale, unverifiable *)
(* or refused ends it, as a filed spec does.  What is left is named by      *)
(* FailsEachTime.                                                          *)
Ends == (status = "open" /\ Readable) ~> (status # "open" \/ FailsEachTime)

(* How far a Job is from handing its task back.  One whose context is done  *)
(* still has the way to its next call before it, and then a whole Job.     *)
Places == [nil |-> 1, deliver |-> 1, evaluate |-> 2, record |-> 3, write |-> 4,
           resolve |-> 5, trace |-> 6, parse |-> 7, idle |-> 8]
Rank ==
  IF status # "open" THEN 0
  ELSE IF pc # "idle" /\ cancelled THEN Places.idle + Places[pc] ELSE Places[pc]

(* The errors of a step, the four that Run returns for what it was told.    *)
Errs ==
  LET res == world.resolution IN
  \/ pc = "trace" /\ world.trace = "error"
  \/ pc = "resolve" /\ res = NoBlock
  \/ /\ pc = "resolve" /\ res \in Resolutions
     /\ res.fresh /\ Verified(res) /\ ~Buildable(res)
  \/ pc = "write" /\ Admission[resolved.repo] = "broken"

(* No churn: every step that is no fault, no person's and none of the four  *)
(* errors above brings the Job of a readable task nearer to handing it      *)
(* back, and no recorded outcome sends it round again.                     *)
NeverChurns ==
  [][UNCHANGED <<faults, triggers>> /\ Readable /\ ~Errs => Rank' < Rank]_vars
=============================================================================
