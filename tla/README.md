# Formal models of agent-sentry-issue-analyzer

TLA+ models of the Sentry alert pipeline in this repository, the TLC runs that
check them on small instances and the TLAPS proofs of what matters most for
every instance. Paths below are those of the repository.

## The system

The binary (`main.go`) is started as a Kubernetes Job for one phase of one task
file. `pkg/factory` picks the agent for the task type; the agent runs its steps
on a copy of the task and delivers one result. Everything a later Job knows of
an earlier one is in the task file, or on GitHub.

| component | state | operations | what is hard | what makes it correct |
|---|---|---|---|---|
| triage, deep and fix pipeline: `pkg/steps/{planning,execution,deep-*,reassign,disqualifier-guard,fix-handoff,handed-off-guard}.go`, `pkg/factory` | the task file: type, assignee, phase, status, sections | the steps' `ShouldRun`/`Run`; reassignment, handoff | a phase set on the copy may not be published; a Job goes on in-process into a phase it has published for another agent; steps that skip on a section another agent wrote | a fired disqualifier is never dismissed; the fix agent gets only certain verdicts; a handed-off task is not planned again; every task ends |
| live-state evaluator: `pkg/verdict/{disqualifiers,urgency}.go`, `applyDisqualifiers` | none of its own; the stamped `## Verdict` block | `EvaluateAll` | thresholds; unknown counts; the clock between reading and evaluating; a second pass | band and fired list belong to one instant; time only quiets |
| fix step and Jira decorator: `pkg/steps/{fix,jira-proposal}.go` | `## Fix Result`, `### Jira Proposal` | parse, trace, resolve, gate, file, record, propose | crash after filing; cancelled context; answers that differ between Jobs | recorded once, one proposal, filed only on evidence |
| spec writer: `pkg/fixagent/writer.go`, `spec_builder.go` | branch, file and pull requests on GitHub | ten API calls of `Write` | concurrent Jobs and people between any two calls; crash; 404 and 422 | no pull request without its spec; a spec under review stays; the answer is the run's own open pull request |
| resolver, trace reader, mechanism: `pkg/fixagent` | none | one model run, one Sentry call, one check | unmappable, stale or unsupported answers | inputs of the fix step |
| verdict block text: `pkg/verdict/{verdict,analyzability,normalize}.go`, `pkg/deepverdict` | lines of text | parse, repair, render, strip, restore | two parsers with different tolerance; keys one schema does not model | a section is judged once and as a whole, and both parsers read that judgement |
| identity: `pkg/identity`, `pkg/verdict/identity.go` | none; Sentry knows the issue | look up the canonical short id of a reference | derived keys; references of no such form | a judged section carries a canonical identity or none is delivered |
| collector and task creation: `pkg/steps/collector.go`, `scripts/sentry-create-tasks.sh`, `scripts/vault-list.sh`, `cmd/create-tasks` | a result file; the create-task commands it publishes | clear, fetch, list, publish, poll, write, judge | a stale result file; a controller that lags; sends that fail half way; an unreadable vault, or an empty one | success only on what was observed; every lasting alert gets its task; no false alarm for ever |
| metrics: `pkg/metrics` | a counter per verdict, a gateway shared by all Jobs | `RecordVerdict`, two pushes | pushed by failing Jobs too, with a context that may be done; a PUT replaces its group | a count says what the section says and is not overwritten |
| startup: `main.go`, `pkg/preflight` | configuration, environment of the model's scripts | validate, forward, wire, run, deferred calls | three lists that have to agree with the scripts; two readers of one Sentry target | who reaches the agent can do what its prompt asks, against one Sentry |
| prompts, read-only scripts, `cmd/run-task` | none | | | |

Interaction: the collector creates triage tasks. Triage writes `## Verdict`,
lets the evaluator stamp it and reassigns a real bug to the deep analyzer. The
deep analyzer hands a High/High real bug to the fix agent. The fix agent files
a spec through the writer and, where no pull request came of it, may leave a
Jira proposal. Between two Jobs stand the agent library (delivery, in-process
advance), the task controller (which applies a delivery to the file) and the
executor (which starts a Job for a task type, phase and assignee). These three,
Sentry, GitHub, the model and the clock are not in this repository: they are
modelled as its code and comments rely on them and marked external in the map.
Chief among those assumptions: a result without a next phase publishes no phase
(comment at `pkg/steps/fix-handoff.go:137`); a Job advances in-process into a
next phase its agent declares (`pkg/factory/factory.go`); a step whose output
section exists is skipped (`pkg/steps/execution_test.go`,
`fix-handoff_test.go`).

## Modules

| module | models | reads as |
|---|---|---|
| `SpecFiling` | the promise of the `SpecWriter` interface | `Open`, `Reuse`, `Forget`, `Settle` on pull requests and answers only |
| `SpecWriter` | `GitHubSpecWriter.Write`, call by call | one action per API call, per run; `Fail` is any other API error or the Job's death; `MergePull`, `ClosePull`, `DeleteBranch` are people. Implements `SpecFiling` (`Promise`) |
| `FixTask` | one fix task, `fixStep` in `jiraProposalStep` | a Job from `Dispatch` to `Deliver`; `Crash`, `Cancel`, `Reopen`, `Change` around it. `Resolve` goes through the gates and `BuildSpec`, whose errors fail the Job; filing is one step here |
| `TaskPipeline` | one task through triage, deep analyzer and fix agent | `Published` and `Deliver` are the library and controller; `ExecuteTriage`, `ExecuteDeep` the wrapped execution steps. The fix Job is one step here |
| `LiveState` | disqualifiers and urgency as stamped on successive blocks | `Answer` reads the alert, `Finalize` evaluates, `Tick` and `Happen` come in between |
| `Collector` | the collector's Jobs, one a day | `Dispatch`, `Clear`, `Answer` are the step; `Fetch`, `List`, `Population`, `Publish`, `Poll`, `Write` the script the model runs inside it and the publisher the script calls; `Materialize` is the controller; `Anew` gives the name of a past alert to one of another day |
| `Judgement` | the promise of a judged section to whoever reads it | one step, `Judge`, from what the model answered to what the section says |
| `VerdictBlock` | the text of a `## Verdict` section through one Job | `Read`, `Identify`, `Guard`, `Disqualify`, `Deliver` in the order of `finalizeVerdict` and the deep guard; parsers, repair, rendering, restoring and stripping are operators on lines. Implements `Judgement` (`Implements`) |
| `Jobs` | `application.Run` of overlapping Jobs, and the pushgateway | one action per step of `Run` and per deferred call; `Cancel` and `Kill` at any of them, `Tick` between |
| `SpecWriterProofs`, `FixTaskProofs`, `TaskPipelineProofs`, `LiveStateProofs`, `CollectorProofs`, `JobsProofs`, `VerdictBlockProofs` | theorems | one file per model |
| `Recursion` | nothing of the code | what `VerdictBlockProofs` needs of natural numbers: a least element, induction over a set, and the function a recursion defines |
| `MCSpecWriter`, `MCWriterMerged`, `MCFixTask`, `MCTaskPipeline`, `MCLiveState`, `MCCollector`, `MCVerdictBlock`, `MCJobs` | the constants of the runs | `MCWriterMerged` adds to the writer a history variable, which runs died between filing the spec and opening the pull request |

The models nest by abstraction: `TaskPipeline`'s `Fix` is one Job of `FixTask`,
`FixTask`'s `WriteSpec` is one `Write` of `SpecWriter`, whose caller-visible
effect is `SpecFiling`; `TaskPipeline`'s `live` is what `LiveState` computes,
and its judged verdict is what `Judgement` promises. `Jobs` is the process
around each of them: its `AgentRun` is any one Job of the others. Two of these
links are refinements: `SpecWriter` implements `SpecFiling`, checked and proved,
and `VerdictBlock` implements `Judgement`, checked for every shape of section and
proved for the sound ones. The others are by description.

State and code. In `SpecWriter`, `pc[r]` is the place in `Write`; `ref`, `file`
and `pulls` are GitHub per repository and branch, `main` what the default branch
holds of the spec path, `sha[r]` the default head a run read, reduced to what it
carries. A verdict's issue id and path become a slug. In `FixTask`, `saved` is
the task file, `doc` the Job's copy, `pc` the place in `Run`; what a Job knew is
gone when its process ends (`NoJob`). What Sentry and the resolver may answer
includes the answers the Job cannot use (an unreadable trace or block, a
resolution without a rule), and a verdict may lack what a spec needs, the issue id
apart from the rest, since `missingVerdictFields` does not ask for it and `BuildSpec`
does; `Admission` is what the writer says of a repository before any call. In `TaskPipeline`
the same two copies carry type, assignee, phase, status, the existence of the
planning sections and the verdict, which is reduced to what guards and gates
read: label, High/High or not, whether its dates fire a disqualifier, whether
its fence is closed. In `LiveState` counts and times are numbers (hours), and
the thresholds are the code's. In `Collector` an alert is a short id with the
date of its last event, which names its task, and every count of the result
line is the set it counts; `file` is the result file, `run` the line in the
making, `vault` the alerts that have a task file, `others` what else is in it, `undated`
the alerts whose last event has no date a program can read. New alerts come for
ever: `Alerts` are the names in use at a time, and `Anew` passes the name of one
that is over, with its task among the older ones, to one of another day, at a
moment when no line and no command names it. `Collector` feeds
`TaskPipeline`: what `Materialize` writes is the task a pipeline starts with.

In `VerdictBlock` a section is a sequence of lines. A line is a fence, a key at
column 0 with what is indented below it, a JSON member, other text or blank, and
knows whether its value holds an unquoted `": "`, the one thing for which the code
repairs a block. A line the code deletes, or passes over because it stands in
another block, becomes a gap in its place: no parser looks at more than the order of
the lines that are left, so every operator is stated line by line, and only `Within`
(the fence a line stands below) goes through the section in order. A value is a
sequence of words, so that whatever is folded into it, or dropped from it, shows.
`body` is the section in the Job's copy, `v` the parsed struct, which the code edits
side by side with the text; the four live-state fields are one key (quiet, firing,
or unavailable), and so are the two certainties; what the binary computes is the
word "computed". `reading` and `judged` are history variables for the refinement:
what the section told its reader before, and tells after, the judgement.

In `Jobs` a configured value is known by whether it is there, and the Sentry
target by its path segments, so that trimming, a trailing slash and the API form
of the base can be told apart; a verdict group of the gateway is a task type and
a start second, as `setupMetrics` labels it.

In each module the operators marked as plausible bugs are mutated forms of its
actions: the mutants of `PROJECT.json`, each breaking one property of a run.
No specification uses them.

## Runs

`tlc -config X.cfg M`; every run has CHECK_DEADLOCK FALSE, because tasks end,
Jobs exit, a section is judged once, faults and reopenings are bounded and the
clock stops.

| run | asks | instance |
|---|---|---|
| `MCWriterRaces` | FiledIsOwnSpec, PullFrozen, OvertakenOnly, Promise, RerunEnds | 3 runs of 2 issues with own slugs, 2 repositories (one refused), all people, 2 faults, 3 pull requests, weak fairness |
| `MCWriterLenient` | PullCarriesSpec, WriterInv, RerunCompletes where GitHub accepts empty pull requests | 2 runs of one issue, 2 repositories, merge and close, weak fairness |
| `MCFixDrift` | CompletedIsRecorded, OneProposal, EitherPullOrProposal, FiledHonestly, ResultIsFinal, NeverChurns, Ends | every verdict, every answer of Sentry and the resolver, unreadable ones and those without a rule or an issue id included, changing between calls; one repository the writer cannot judge; 2 faults, 1 reopening, weak fairness |
| `MCPipeline` | FiredNeverDismissed, FixOnlyWhenCertain, NotReplanned, PipelineInv, NeverChurns, HandedOffIsFixed, Ends | every answer of the model, 3 faults, 2 reopenings, weak fairness |
| `MCLiveEdges` | BandAgrees, TimeOnlyQuiets, LiveInv | counts and ages in every region between thresholds, 2 passes |
| `MCCollector` | SuccessIsObserved, AlertsGetTasks, Recovers, CollectorInv | 2 alerts at a time that come, go and are followed by new ones, one of which may have no date; any vault at first; a new container or one with the last run's result file; 2 reads of the vault after the publish, 2 faults, weak fairness |
| `MCVerdictBlock` | CountedIsCarried, OwnedIsComputed, HandoffReads, Implements | both agents; every fence, label, date, identity, fix, and place of `file:line`, owned keys, note (one paragraph or two) and evidence, one odd prose line at a time beside the owned keys |
| `MCJobs` | RunnerIsWired, OneSentry, CountSurvives | every task type with any one value or grant missing, any part of Jira, any Sentry target; 2 overlapping Jobs, 2 seconds, cancelled or killed anywhere |

The type invariant of each module is checked beside these, in `MCWriterLenient`,
`MCPipeline` and `MCLiveEdges` as a conjunct of the inductive invariant.
`FiredNeverDismissed` and the like say what no sequence of Jobs may do;
`NeverChurns`, that every step which is no fault and no person's brings a task
nearer to its end, the executor's dispatch included; `OvertakenOnly`, that an
attempt of the writer which comes to nothing found a spec or a pull request of
another; `RunnerIsWired` says that the required
arguments, preflight and the forwarded environment together are no weaker than
what the scripts demand; `HandoffReads`, that a section the deep parser could
read as written can still be read after it was rendered with the triage schema.

Runs that find a disagreement between a statement in the repository and the
code (each is a finding in `PROJECT.json`, with the quoted line):

| run | statement that does not hold | how |
|---|---|---|
| `MCWriterMerged` | a run that crashed between filing the spec and opening the pull request completes on its next attempt | another Job of the issue (there is a task for every day it is seen) opens the pull request from the shared branch, and it is merged before the crashed run's next attempt: GitHub refuses another and none is open, at every attempt |
| `MCFixProposal` | a proposal only where no pull request came of the fix | crash after filing, then a different answer |
| `MCPipelineDeep` | the deep model re-runs a full verdict | its step is skipped: triage has written the section |
| `MCVerdictSwallow` | `file:line` is never swallowed into the value above it | an unquoted `": "` in `recommended_fix`: the deep guard repairs the block with the triage parser, to which `file:line` is no key |

`MCFixProposal` needs the model or Sentry to answer two Jobs differently;
`MCPipelineDeep` rests on the library's skip rule above; `MCVerdictSwallow`
needs no more than the keys the deep prompt asks for.
`MCWriterMerged` is under the fairness of `MCWriterRaces`; its history variable
`interrupted` holds the runs that died with their spec on the branch and no pull
request there, the case the quoted line is about. `RerunEnds` in `MCWriterRaces`
shows that a merge is the only way to get stuck; `MCWriterLenient`, that it is
GitHub's refusal of an empty pull request that does it.

### Seen without a run of their own

*Writer.* Two issue ids with one slug (`specSlug` lowercases and folds
punctuation) share a branch, and the second is answered with the first one's
pull request, which is why `FiledIsOwnSpec` wants different slugs. A pull request
that a person closed is followed by a second one on the next run, since only
open ones are listed. A re-run that resolves another repository files the issue
twice, although `docs/fix-lane.md:89` calls the issue id the only idempotency
key. A run that crashed after opening its pull request is as stuck as
`MCWriterMerged`'s once that one is merged, and so is the Job of the issue's next
day.

*Fix task.* An error of `Run` is retried, whatever its cause, so a Job goes round
for as long as what causes it stays: a trace or a resolver block that cannot be
read; a resolution without a rule, or a verdict without an issue id, on which only
`BuildSpec` insists (`pkg/fixagent/spec_builder.go:57-69`; the resolver's parser
and `missingVerdictFields` let both through); a writer without a client; a
malformed allowlist entry; under an empty allowlist, a repository that is not
`owner/name`. `FailsEachTime` names them, and `Ends` and `NeverChurns` except them
and no others.

*Pipeline.* The task a triage Job reassigns keeps the phase it has on disk,
since an InProgress result publishes none, although the comment at
`pkg/steps/reassign.go:23` expects `planning` to be preserved; that is how
`MCPipelineDeep` comes about. A deep pass whose block has no dates, or comes after
the burst has lapsed, replaces a real bug that triage forced
(`pkg/factory/factory.go:224-226` says it cannot). A verdict is counted before the
handoff's parser and the delivery, and pushed though these fail
(`pkg/steps/reassign.go:43-45`).

*Verdict text.* Without dates the section is cut, not rendered: `StripKeys` drops
whatever follows an owned key up to the next one, so where an owned key is the last
of its block the closing fence goes with it (`CutsFence`; the comment at
`pkg/verdict/analyzability.go:184` has every other line untouched), and the deep
parser refuses the block. A JSON block without dates keeps the urgency and promotion
the model wrote, as its members do not stand at column 0. A key line above the block
takes the opening fence along when it is restored, which puts what stood between,
`file:line` too, outside the new block (`MovesFence`). The `file:line` of a JSON
block is lost by rendering. A `Note: a: b` below the fence is moved into the block
and can make the deep parse fail; two paragraphs below such a line end up there with
the blank line between them, which no repair folds past, so that neither parser
reads the delivered section, although the counter (`pkg/steps/reassign.go:165-167`)
is said to match what it carries (`Strays`). `RewriteIdentityLine` edits the
section's first identity line, even one outside the parsed block. A
`disqualifiers_fired` list the model wrote itself stays when nothing fires.

*Jobs.* Two Jobs of one type that start in one second share a verdict group and
the later PUT replaces the earlier; `CountSurvives` exempts them. A base that is
already in the API's form, or ends in a slash, is understood by the binary, while
the scripts append `/api/0` once more; `OneSentry` speaks of hosts only there.
Part of the GitHub App's credentials counts as none. A healthcheck Job has to
pass triage's preflight. A cancelled context fails both deferred pushes, so a Job
that ran out of time reports nothing; one without a required argument never
reaches `Run` and reports nothing either; no startup failure delivers a result.

*Collector.* A run of whose expected tasks only some land succeeds, as the status
rule in `sentry-create-tasks.sh` says. A collector without `TASK_ID` may run
without brokers and find that out in the script. An unresolved alert whose
`lastSeen` cannot be parsed fails every run until it is resolved: the script names
the expected tasks with `fromisoformat`, and `cmd/create-tasks/main.go:237`
returns at such an alert, with those listed after it unsent (`Blocked`). A
controller that always takes longer than the script polls fails the task of every
day that has a new alert, though each alert gets its task in the end (`Slow`);
`Recovers` except these two, and without either exception TLC refutes it.

### Bounds

Two runs are enough for every pairwise race on a head, since a call of the writer
looks at one head and changes it in one step; a third Job on it would only do what
the second can. The third run of `MCWriterRaces` is another issue in the same
repository. `MaxFaults = 2` allows a crash and a crash during recovery, or a crash
and a deleted branch. `MaxPulls` stops people from ending pull requests, never the
writer from opening one. The pipeline has one task because its code knows one; three
faults and two reopenings let a task fail in each of its three agents, and again in
one after a person reopened it. `LiveState`'s counts lie at or just past each
threshold (31, 100, 1000, 1001, 10001, and unknown) and its times give ages of 0,
24, 25, 168 and 169 hours and a span of 30 days and one; `Firsts` is the epoch
alone, as only the span depends on it; an event later than the clock stands for
clocks that disagree. Two passes are triage and deep. `Collector`'s two alerts make
partial publishing and partial landing possible, one tracked and one new, and one
dated and one not; as their names are used again, no run ends with every alert there
will ever be in the vault. Two reads of the vault are the least that can wait and
give up; two faults are a failure in a run and another in the run that has to make
up for it. `VerdictBlock`'s sections have one verdict block, the only one a Job
looks at after its first, with at most one evidence block above and one note below:
the two guards rewrite a section at most twice, and every displaced line is
displaced by its nearest neighbour, so more of the same kind would move together.
Prose oddities are combined with the owned keys and the pointer but not with each
other or with a second spelling of the identity, which the code handles apart from
the block. `MCVerdictSwallow` takes only what the deep prompt asks for. `Jobs` needs
two Jobs, for a gateway group is overwritten by one other, and two seconds, one to
share and one to differ; configurations are checked one at a time beside a Job that
never starts, since Jobs do not read each other's.

### Fairness

`FairSpec` asks weak fairness of a run's steps (`SpecWriter`) or of the Job as a
whole (`FixTask`, `TaskPipeline`): a pod that is not killed goes on, and a failed or
unfinished task is dispatched again by controller and executor, which is what the
code counts on where it returns errors "so that the controller retries". No fairness
is asked of people, of faults or of the clock. `Collector` asks it of a running Job
with the script in it, of the controller for each command on Kafka, and of the daily
schedule that creates the next collector task; not of Sentry, so that an alert that
is resolved meanwhile counts as settled. Nothing is said of how fast the controller
is beside the script's poll: `Recovers` names the case in which it is not. Faults
are bounded, so liveness says: once faults cease. Within a step that can answer in
several ways no answer is favoured: in `MCWriterLenient`, for instance, the run must
complete whichever repository the resolver names.

## Proofs

`tlapm <module>.tla`. All theorems hold for any value of the constants under
the modules' named assumptions (`ConstantsAssumption`, `PipelineAssumption`,
`LiveStateAssumption`, `CollectorAssumption`, `FixTaskAssumption`,
`JobsAssumption`, `BodiesAssumption`: types of the constants; the last also that
no reference is empty and that a derived key is no reference Sentry knows, which
`IsDerivedKey` decides by its form).

*Writer.* `WriterInv` is the inductive invariant: types; every run works on a
head of its own issue (`Targeted`); what is found at a head has the head's slug
(`SlugsMatch`); no pull request was opened without a spec (`NoneEmpty`); past
the file check the file is there (`FiledFirst`); answers lie on own heads
(`AnswerOwn`). `PullCarriesSpec` alone is not inductive: a run between its
check and its create must be known to find the file. Two conditions stand in
the theorems where they are needed. `EmptyIsImpossible`: GitHub refuses a pull
request without a change, or nobody deletes branches; without it a branch
deleted and created anew between two calls could carry nothing.
`SlugsDiffer`: the slugs of two issues differ (see above for what happens
otherwise). From the invariant follow `TypeCorrect`, `PullsCarrySpecs`,
`FiledOwn`, `PullsFrozen` and the refinement `WriterKeepsPromise`, one case per
action: creating maps to `Open`, answering from the list to `Reuse`, failing to
`Forget`, people to `Settle`, everything else stutters. `OnlyOvertaken` needs
neither condition: it rests on `Traces`, that a branch or a file a run has seen or
made is there unless there has been a pull request, for only the branch of a
pull request is ever deleted. A refused create then finds one, a missing branch
or an empty difference alike. `AttemptsEnd` adds the measure `CallsLeft`: an
attempt has at most eleven steps and is back at its start only when a call failed
or it was overtaken. `RefusedOnlyByRivals` says what `MCWriterMerged` needs: where
`Reviewers` holds neither "merge" nor "delete", `NothingTaken` is invariant (the
branch and the spec a run has seen stay, the default branch never gets one), and
a run is refused only while another pull request is open.

*Pipeline.* `PipelineInv` adds to the properties that a running Job's copy
agrees with the file in what routes the task (`CopyAgrees`), that the assignee
fits the type, and that a Job knows which task it may still hold
(`JobKnowsTask`). Without the first, a Job could deliver an old copy over a
handed-off task. `FixGetsCertain`, `FiredStands` and `HandedOffStays` follow.
Two more parts, that a task in progress stands at a phase its agent has
(`AtItsPhase`) and that a running Job's step is still to be done (`JobIsNeeded`),
give what there is to say of progress without fairness: `NoChurn`, as the measure
`Rank` of the sections still to be written and the place in the Job falls with
every step of a Job, and `NeverStranded`, that a task in progress always has a
step to go on with. `Rank` counts a Job that goes on in-process after its
delivery above one not started, since it has yet to find that nothing is left.
`HandedOffIsOnlyCompleted` is the safety part of `HandedOffIsFixed`: the deep
analyzer's Job that outlives its handoff has delivered something
(`FixerOwesNothing`), so the phase it skips then cannot end the task for want of
a result. `VerdictStands` is `MCPipelineDeep`'s finding as a theorem: no Job ever
replaces a verdict that is in the task.

*Live state.* `LiveInv` says that the last block's band and fired list are those
of one instant that has passed (`Stamped`). `BandsAgree` follows by comparing
the definitions at that instant; `OnlyQuieter` because both windows only close
as the instant grows.

*Collector.* `CollectorInv` says that a line the script has gathered since its
listing is sound (`LineSound`: what it counts as published is on Kafka or consumed,
what it counts as landed is in the vault, what it does not expect was there) and
that while the step runs the file holds no line or this Job's own sound one
(`FileSound`). `SuccessSeen` needs both: `Healthy` alone judges numbers, whoever
wrote them. `NothingMissed` looks at the other side, what is sent: while nothing has
failed, a run that can date all it fetched has sent it or is still to send it
(`SentOrToDo`). `NoChurn` is lexicographic: the place in the Job and the script,
then the alerts still to be published or the attempts at the poll, where both stay
in place; it needs that the script only runs inside the step (`ScriptInStep`). A
script that dies of an undated alert moves forward, too (`DeathMoves`).

*Fix task.* `FixInv` adds to the properties what a Job holds in each phase of `Run`.
A delivery replaces the file by the Job's copy, so the properties, which speak of
the file, are not inductive: a Job that may still decide works on a task without a
record (`NothingYet`); it files only on the fresh, verified answer it has read
itself, with all that `BuildSpec` wants (`WriteGrounded`); what it is about to
record has happened (`OutcomeTrue`); the copy the proposal rule reads has that
record, or none when the context is done (`CopyRecorded`); and the copy it delivers
is already right (`CopyDeliverable`). `CompletedRecorded`, `ProposedOnce`,
`PullOrProposal` and `FiledOnEvidence` follow, and `ResultStays` from the one step
that writes the file. A running Job's task is open (`JobIsOpen`), so that the place
in `Run` is a measure: `NoChurn` says that a Job of a readable task moves forward
whatever it is answered, and starts over only for one of the four errors of `Errs`:
a trace or a block that cannot be read, and the errors of `BuildSpec` and of the
writer; one that is cancelled has at most one more Job before it. Two theorems bound
the finding of `MCFixProposal`, which needs a lost Job and a changed answer.
`ProposalNeedsFault`: while no Job was lost, every spec is recorded or about to be
(`NothingLost`). `ProposalNeedsDrift`: where the answers stay, a Job that follows a
filed spec can record nothing else (`FilesAgain`), however many are lost.

*Jobs.* `JobsInv` says, for every Job, what having passed a step of `Run` tells of
its configuration (`Checked`: the arguments are there, the Sentry target is
paired, the environment is the forwarded one, preflight held); that only a Job
that is gone has pushed its count (`PushedIsGone`); and `CountSurvives`.
`RunnersWired` and `SentryIsOne` then compare, type by type, what startup
checked with what the scripts demand; `CountsStay` because a push of another Job
goes to another group.

*Verdict text.* `Bodies` is any set of sections, of any length and wording.
`TypesHold` holds of all of them. The other four theorems are about those the
editing was written for, `Sound`:

- a section that will be rendered anew (its dates parse, or it contradicts itself)
  needs only that the lines to be restored are legal keys of different names where
  they end up (`Restorable`); its own block may be illegal, repaired, in JSON or in
  several pieces;
- one that is cut needs a legal YAML block that both parsers take for theirs, no
  fence below a key that is cut, and the first identity line inside that block
  (`Reads`, `IdentityStands`).

`SoundReachesTheFix` asks in addition that every `file:line` of the answer is a
key of the block the deep parser reads (`Points`). None of this is rare: of 3483
sections `MCVerdictBlock` judges for the deep agent 2320 are sound, of the 2596
rendered anew among them 2062, and more than half have both. Outside of `Sound`
lie the deviations listed under *Verdict text* above, for which TLC checks the
same properties with the exceptions these name.

`SoundKeepsTheFix` is about `FixKept`, which `MCVerdictSwallow` refutes: of a sound
section in which both parsers read one `recommended_fix` (`FixReadAlike`), the
handoff reads that. `MCVerdictBlock` has 3222 sections with a verdict that the
handoff could read as written; 2057 of them are sound, and in 1044 of these the
parsers agree. In the others they take different text already in the answer.

The first half of `VerdictBlockProofs` is about the operators, each for any
section: what cutting, rewriting the identity and restoring do to `Parse`,
`DeepParse` and the fences (`StripReads`, `RewriteReads`, `RestoreReads`), and that
a restored section can be restored once more and still points where it did
(`RestoreAgain`), which is why both guards may render. They rest on `Within` being
what its equations say (`WithinFacts`) and on the type of what `Quote` folds
(`FlattenType`), both of which are inductions over a section. The library's
induction principle takes an operator as parameter, which the provers cannot
instantiate; `Recursion` states it for sets instead (`Induct`: a set that holds 0
and with n holds n + 1 holds all numbers up to a bound) and gets it from the
least element of the rest; `Recurse` shows by it that a recursive definition has
a solution, one step longer at a time.

The second half is about a Job. `StageInv` says what `v` is at each `pc`, as a
function of the answer (`Canonised`, `Guarded`, `Finished`), which gives the type
invariant. `CountedIsCarried` is not inductive: it speaks of judged sections only,
and between two guards the text and the struct may disagree. `BlockInv` says what
holds there: a section that will be rendered is restorable and points where the
answer did (`Pending`), any other already says what `v` says (`Carried`). The
refinement `SoundIsJudged` has one case per action; `Disqualify` is the step
`Judge`, and the work is to show that the rubric, which knows six facts of the
answer, comes to the same reading as the code did on the text.

## Only model-checked

Liveness (`RerunCompletes`, `RerunEnds`, `Ends`, `HandedOffIsFixed`,
`AlertsGetTasks`, `Recovers`): fairness is out of the prover's reach. The parts
that do not need it are proved: a measure that falls for each of the four
(`NoChurn` in `TaskPipeline`, `FixTask` and `Collector`, `AttemptsEnd` in
`SpecWriter`), `NeverStranded`, `HandedOffIsOnlyCompleted` and `NothingMissed`. What
is left to TLC is that a step which can be taken is taken, that a fix task, a run
and a collector's Job always have one, and how often a run can be overtaken or a
collector's task can fail before its alerts are tracked. The sections
of `VerdictBlock` that are not `Sound`: their claims hold for the shapes of
`MCVerdictBlock`, which are those the prompts ask for and the deviations the
code's comments and tests know. The findings are counterexamples and need no
proof.

## Not modelled

- Prompts and the read-only scripts have no state; `cmd/run-task` runs the same
  factory on a local file.
- `Validate` of the two verdict packages: no step on these paths calls it.
- Of configuration, what nothing checks: proxy, stage, topic prefix, model
  routing, and variables `CLAUDE_ENV` may set itself. Durations and the counters
  of `agent_job_*` beyond the last status.
- `yaml.v3` is two operators (`Legal`, `Decode`): a mapping of distinct keys whose
  values hold no unquoted `": "`. Anchors, types and block scalars are left out.
- The resolver's fenced block and Sentry's JSON: `FixTask` takes their answers as
  inputs, errors included.
- `Collector` reads all pages of Sentry at once, loses no task file from the vault
  (`Anew` only renames one), lets a Job's script die with it, and matches a task by
  its alert where the script looks for its file name as a substring of the listing
  (a short id that ends in another project's would match too).
- The bounded retries of the controller are outside the repository; a task that
  the code fails every time is therefore left out of `Ends`: one with an unparsable
  verdict or a proposal without `short_id`, which is meant, and one whose answers
  stay as `FailsEachTime` has them.
- An answer without a verdict block completes its task unjudged; the code means
  this, and `FiredNeverDismissed` exempts it.

## Plan

Done, in this order: `SpecFiling` and `SpecWriter` with proofs; `FixTask`;
`TaskPipeline` with proofs; `LiveState` with proofs; `Collector` with proofs;
`FixTaskProofs`; `VerdictBlock` with `Judgement` (identity lookup included);
`Jobs` with proofs (startup, preflight, metrics); `VerdictBlockProofs`. Next:

1. `FixLane`: `FixTask`'s `WriteSpec` replaced by `SpecFiling`, several daily tasks
   of one issue; shown to implement an abstract issue that is filed, declined or
   skipped once, up to the exceptions of `MCWriterMerged` and `MCFixProposal`.
2. `TaskPipeline` over `Judgement`: two passes on one section, to state what a
   deep pass may take back of a triage one.
3. Collector's listing by file name, for short ids of two projects.
4. `VerdictBlockProofs` beyond `Sound`: an illegal block that is cut after its
   repair, and a JSON block that is cut, which need what `Quote` keeps of a line
   for every section.
