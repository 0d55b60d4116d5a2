------------------------------ MODULE Collector ------------------------------
(***************************************************************************)
(* The collector agent: its planning step (pkg/steps/collector.go), the    *)
(* script the model runs inside it (scripts/sentry-create-tasks.sh), the    *)
(* publisher the script calls (cmd/create-tasks) and, outside this          *)
(* repository, Sentry, Kafka and the controller that turns each command     *)
(* into a task file of the vault, at its own pace and once per alert.       *)
(*                                                                         *)
(* An alert is a (short id, date of its last event) pair, which names its   *)
(* task.  There is no end of them: an alert that is over and forgotten      *)
(* gives its name to one of another day.  Counts are kept as the sets they  *)
(* count.                                                                  *)
(***************************************************************************)
EXTENDS Naturals

CONSTANTS
  Alerts,        \* alerts there may be at a time
  Undatable,     \* those of them that may come without a usable lastSeen
  NoLine,        \* "no result line"
  Attempts,      \* VAULT_POLL_ATTEMPTS
  MaxFaults      \* bound: failed calls, deaths, and a model that strays

ASSUME CollectorAssumption ==
  /\ Attempts \in Nat \ {0}
  /\ MaxFaults \in Nat
  /\ Undatable \subseteq Alerts
  /\ NoLine \notin [fetched : SUBSET Alerts, published : SUBSET Alerts,
                    expected : SUBSET Alerts, landed : SUBSET Alerts,
                    observed : BOOLEAN]

(* sentry-create-tasks-result: fetched= published= expected_new= landed=    *)
(* observed=                                                               *)
Lines == [fetched : SUBSET Alerts, published : SUBSET Alerts,
          expected : SUBSET Alerts, landed : SUBSET Alerts, observed : BOOLEAN]

Others == {"nothing", "tasks", "older"}

VARIABLES
  active,     \* Sentry's unresolved alerts
  queue,      \* create-task commands on Kafka
  vault,      \* alerts that have a task file
  others,     \* what else the vault holds: "tasks" of other types, or tasks of
              \* "older" alerts, or "nothing"
  undated,    \* alerts whose lastSeen no program can read
  task,       \* the collector's own task
  section,    \* does it have an ## Analysis section?
  step,       \* where its Job is
  file,       \* the result file in the container
  fresh,      \* was the line in it written by this Job?
  script,     \* the script's next call; "unused": not run by this Job yet
  run,        \* the line the running script is gathering
  todo,       \* alerts create-tasks has yet to send
  attempt,    \* reads of the vault since the publish
  faults

jobs == <<task, section, step>>
gathered == <<run, todo, attempt>>
world == <<active, others, undated>>
vars == <<active, queue, vault, others, undated, task, section, step, file, fresh,
          script, run, todo, attempt, faults>>

NoRun == [fetched |-> {}, published |-> {}, expected |-> {}, landed |-> {},
          observed |-> TRUE]

(* The first container is new; a later one may hold an earlier run's line.  *)
Init ==
  /\ active \in SUBSET Alerts /\ undated \in SUBSET Undatable
  /\ vault \in SUBSET (Alerts \ undated)
  /\ queue = {}
  /\ others \in Others
  /\ task = "open" /\ section = FALSE /\ step = "idle"
  /\ file = NoLine /\ fresh = FALSE
  /\ script = "unused"
  /\ run = NoRun /\ todo = {} /\ attempt = 0
  /\ faults = 0

Fault == faults < MaxFaults /\ faults' = faults + 1

-----------------------------------------------------------------------------
(***************************************************************************)
(* The script, run by the model inside the step.                           *)
(***************************************************************************)

At(here, next) == script = here /\ script' = next
Aside == UNCHANGED <<world, task, section, step, fresh>>

(* What the script has gathered goes with its process.                     *)
NoScript(state) ==
  script' = state /\ run' = NoRun /\ todo' = {} /\ attempt' = 0

(* A model that runs it again strays from its prompt.                      *)
Start ==
  /\ step = "inner"
  /\ \/ At("unused", "fetch") /\ UNCHANGED faults
     \/ At("off", "fetch") /\ Fault
  /\ Aside /\ UNCHANGED <<queue, vault, file, gathered>>

(* Every page of is:unresolved; a failed call ends the script (set -e).    *)
Fetch ==
  /\ At("fetch", "list")
  /\ run' = [run EXCEPT !.fetched = active]
  /\ Aside /\ UNCHANGED <<queue, vault, file, todo, attempt, faults>>

(* vault-list.sh: the tasks of alerts, whatever their date.                 *)
Listed == others = "older" \/ vault # {}

(* The alerts without a task; an empty listing is not believed until the    *)
(* vault is seen to hold anything, a failed one never.                     *)
List ==
  /\ \/ /\ At("list", IF run.fetched # {} /\ ~Listed THEN "population" ELSE "publish")
        /\ run' = [run EXCEPT !.expected = run.fetched \ vault]
        /\ UNCHANGED faults
     \/ /\ At("list", "publish") /\ Fault
        /\ run' = [run EXCEPT !.observed = FALSE]
  /\ todo' = run.fetched
  /\ Aside /\ UNCHANGED <<queue, vault, file, attempt>>

(* vault-list.sh --population: any task at all, of whatever type.           *)
Populated == others = "tasks" \/ Listed

Unobserved == [run EXCEPT !.observed = FALSE, !.expected = {}]

(* A plausible bug, which nothing uses: an unobserved run does not publish. *)
PopulationGivesUp ==
  /\ At("population", IF Populated THEN "publish" ELSE "write")
  /\ run' = IF Populated THEN run ELSE Unobserved
  /\ Aside /\ UNCHANGED <<queue, vault, file, todo, attempt, faults>>

(* An unobserved run publishes all the same.                               *)
Population ==
  /\ At("population", "publish")
  /\ \/ /\ run' = IF Populated THEN run ELSE Unobserved
        /\ UNCHANGED faults
     \/ Fault /\ run' = Unobserved
  /\ Aside /\ UNCHANGED <<queue, vault, file, todo, attempt>>

(* A plausible bug, which nothing uses: the failed sends are counted too.   *)
PublishEchoes(a) ==
  /\ At("publish", "publish")
  /\ a \in todo /\ todo' = todo \ {a}
  /\ run' = [run EXCEPT !.published = @ \cup {a}]
  /\ \/ queue' = queue \cup {a} /\ UNCHANGED faults
     \/ Fault /\ UNCHANGED queue
  /\ Aside /\ UNCHANGED <<vault, file, attempt>>

(* create-tasks sends one command per alert and goes on after a failure; a  *)
(* send that failed may have reached Kafka.                                *)
Publish(a) ==
  /\ At("publish", "publish")
  /\ a \in todo \ undated /\ todo' = todo \ {a}
  /\ \/ /\ queue' = queue \cup {a}
        /\ run' = [run EXCEPT !.published = @ \cup {a}]
        /\ UNCHANGED faults
     \/ Fault /\ queue' \in {queue, queue \cup {a}} /\ UNCHANGED run
  /\ Aside /\ UNCHANGED <<vault, file, attempt>>

Published(line) ==
  /\ At("publish", IF line.observed THEN "poll" ELSE "write")
  /\ run' = line
  /\ todo' = {} /\ attempt' = 1
  /\ Aside /\ UNCHANGED <<queue, vault, file>>

CountPublished == todo = {} /\ Published(run) /\ UNCHANGED faults

(* No producer, or the turn of an alert without a usable lastSeen:          *)
(* create-tasks ends before its result line, which counts as nothing        *)
(* published.  The latter happens again in every run.                      *)
CreateTasksFails ==
  /\ Published([run EXCEPT !.published = {}])
  /\ Fault \/ (todo \cap undated # {} /\ UNCHANGED faults)

(* A plausible bug, which nothing uses: one attempt too many.               *)
PollOnceMore ==
  /\ script = "poll"
  /\ run' = [run EXCEPT !.landed = run.expected \cap vault]
  /\ IF run'.landed = run.expected \/ attempt > Attempts
     THEN script' = "write" /\ UNCHANGED attempt
     ELSE UNCHANGED script /\ attempt' = attempt + 1
  /\ Aside /\ UNCHANGED <<queue, vault, file, todo, faults>>

Poll ==
  /\ script = "poll"
  /\ \/ /\ run' = [run EXCEPT !.landed = run.expected \cap vault]
        /\ IF run'.landed = run.expected \/ attempt >= Attempts
           THEN script' = "write" /\ UNCHANGED attempt
           ELSE UNCHANGED script /\ attempt' = attempt + 1
        /\ UNCHANGED faults
     \/ /\ Fault /\ script' = "write"
        /\ run' = [run EXCEPT !.observed = FALSE]
        /\ UNCHANGED attempt
  /\ Aside /\ UNCHANGED <<queue, vault, file, todo>>

Write ==
  /\ script = "write" /\ NoScript("off")
  /\ file' = run /\ fresh' = TRUE
  /\ UNCHANGED <<world, jobs, queue, vault, faults>>

(* A call fails under set -e, or the model's tool call times out; or the    *)
(* script itself, naming the tasks it expects, cannot read a lastSeen.      *)
ScriptDies ==
  /\ script \notin {"unused", "off"} /\ NoScript("off")
  /\ \/ Fault
     \/ /\ script = "publish" /\ run.observed
        /\ todo = run.fetched /\ todo \cap undated # {}
        /\ UNCHANGED faults
  /\ Aside /\ UNCHANGED <<queue, vault, file>>

Script == \/ Start \/ Fetch \/ List \/ Population \/ CountPublished
          \/ CreateTasksFails \/ Poll \/ Write \/ \E a \in Alerts : Publish(a)

-----------------------------------------------------------------------------
(***************************************************************************)
(* The step.                                                               *)
(***************************************************************************)

(* Plausible bugs, which nothing uses: the earlier line is kept; and        *)
(* landing nothing is a failure also when nothing was to land.             *)
ClearKeeps ==
  /\ step = "clear" /\ step' = "inner"
  /\ fresh' = FALSE /\ NoScript("unused")
  /\ UNCHANGED <<world, queue, vault, task, section, file, faults>>

HealthyIfLanded(line) ==
  /\ line # NoLine /\ line.observed
  /\ line.fetched # {} => line.published # {} /\ line.landed # {}

(* A task that has its section is skipped, and ended by deliverNilResult.   *)
(* The container is new or has run before.                                 *)
Dispatch ==
  /\ task = "open" /\ step = "idle"
  /\ \/ section /\ task' = "stopped" /\ UNCHANGED <<step, file>>
     \/ ~section /\ step' = "clear" /\ file' \in {file, NoLine} /\ UNCHANGED task
  /\ UNCHANGED <<world, queue, vault, section, fresh, script, gathered, faults>>

(* The result of an earlier run is removed, or the Job fails.              *)
Clear ==
  /\ step = "clear"
  /\ \/ /\ step' = "inner" /\ file' = NoLine /\ fresh' = FALSE
        /\ NoScript("unused")
        /\ UNCHANGED <<task, faults>>
     \/ /\ Fault /\ step' = "idle" /\ task' = "stopped"
        /\ UNCHANGED <<file, fresh, script, gathered>>
  /\ UNCHANGED <<world, queue, vault, section>>

(* What collectorStep.Run asks of the line the model's run has left.        *)
Healthy(line) ==
  /\ line # NoLine
  /\ line.observed
  /\ line.fetched # {} => line.published # {}
  /\ line.expected # {} => line.landed # {}

(* The model answers, with its script ended or, straying, not.  A failed    *)
(* result may or may not leave the section it wrote in the task.           *)
Answer ==
  /\ step = "inner" /\ step' = "idle"
  /\ \/ script = "off" /\ UNCHANGED faults
     \/ script # "off" /\ Fault
  /\ NoScript("off")
  /\ \/ Healthy(file) /\ task' = "completed" /\ section' = TRUE
     \/ ~Healthy(file) /\ task' = "stopped" /\ section' \in BOOLEAN
  /\ UNCHANGED <<world, queue, vault, file, fresh>>

(* The inner run fails, or asks for input.                                 *)
AgentStops ==
  /\ Fault
  /\ step = "inner" /\ step' = "idle"
  /\ NoScript("off")
  /\ task' = "stopped" /\ section' \in BOOLEAN
  /\ UNCHANGED <<world, queue, vault, file, fresh>>

(* The Job dies, or its delivery fails.                                    *)
Crash ==
  /\ Fault
  /\ step # "idle" /\ step' = "idle"
  /\ NoScript("off")
  /\ UNCHANGED <<world, queue, vault, task, section, file, fresh>>

Job == Dispatch \/ Clear \/ Answer

-----------------------------------------------------------------------------
(***************************************************************************)
(* The world.                                                              *)
(***************************************************************************)

(* The controller drops a command whose task exists.                       *)
Materialize(a) ==
  /\ a \in queue /\ queue' = queue \ {a}
  /\ vault' = vault \cup {a}
  /\ UNCHANGED <<world, jobs, file, fresh, script, gathered, faults>>

(* Alerts appear and are resolved.                                         *)
Sentry ==
  /\ \E a \in Alerts : active' \in {active \cup {a}, active \ {a}} \ {active}
  /\ UNCHANGED <<queue, vault, others, undated, jobs, file, fresh, script,
                 gathered, faults>>

(* The task of an alert that is over becomes one of the older, and its name  *)
(* that of an alert Sentry has yet to report.  This is done where no line   *)
(* and no command names it, before a day's script has run.                 *)
Anew(a) ==
  /\ script = "unused" /\ file = NoLine
  /\ a \in vault \ (active \cup queue) /\ vault' = vault \ {a}
  /\ others' = "older"
  /\ UNCHANGED <<active, queue, undated, jobs, file, fresh, script, gathered, faults>>

(* The next day's collector task.                                          *)
NextDay ==
  /\ task # "open" /\ task' = "open" /\ section' = FALSE
  /\ UNCHANGED <<world, queue, vault, step, file, fresh, script, gathered, faults>>

(* A person triggers an ended one again.                                   *)
Reopen ==
  /\ Fault
  /\ task # "open" /\ task' = "open"
  /\ UNCHANGED <<world, queue, vault, section, step, file, fresh, script, gathered>>

Next ==
  \/ Script \/ ScriptDies \/ Job \/ AgentStops \/ Crash
  \/ Sentry \/ NextDay \/ Reopen
  \/ \E a \in Alerts : Materialize(a) \/ Anew(a)

Spec == Init /\ [][Next]_vars

(* A running Job goes on, its script included; the controller consumes what *)
(* is on Kafka; a collector task is dispatched every day.                   *)
FairSpec ==
  /\ Spec
  /\ WF_vars(Script \/ Job) /\ WF_vars(NextDay)
  /\ \A a \in Alerts : WF_vars(Materialize(a))

-----------------------------------------------------------------------------
(***************************************************************************)
(* Properties.                                                             *)
(***************************************************************************)

(* Types; the vault is read at most Attempts times after the publish.       *)
TypeOK ==
  /\ active \subseteq Alerts /\ queue \subseteq Alerts /\ vault \subseteq Alerts
  /\ others \in Others /\ undated \subseteq Alerts
  /\ task \in {"open", "completed", "stopped"} /\ section \in BOOLEAN
  /\ step \in {"idle", "clear", "inner"}
  /\ file \in Lines \cup {NoLine} /\ fresh \in BOOLEAN
  /\ script \in {"unused", "fetch", "list", "population", "publish", "poll",
                 "write", "off"}
  /\ run \in Lines /\ todo \subseteq Alerts
  /\ attempt \in 0..Attempts
  /\ faults \in Nat

(* A collector task is only completed on what this Job's own script saw:    *)
(* commands really sent, and at least one fetched alert with a task, unless *)
(* there was nothing to fetch, whatever the model answered.                *)
SuccessIsObserved ==
  [][task = "open" /\ task' = "completed" =>
       /\ fresh
       /\ file.fetched # {} =>
            /\ file.published # {} /\ file.published \subseteq queue \cup vault
            /\ file.fetched \cap vault # {}]_vars

(* An unresolved alert that no program can date: create-tasks ends at it,   *)
(* and the script mostly before.                                           *)
Blocked == active \cap undated # {}

(* Every alert that stays unresolved gets its task, also on a vault that    *)
(* holds nothing yet, and when some runs fail half way, unless an alert is  *)
(* in the way that cannot be dated.                                        *)
AlertsGetTasks ==
  \A a \in Alerts : a \in active ~> (a \in vault \/ a \notin active \/ Blocked)

(* A controller slower than the script polls: at its last look at the vault *)
(* none of the tasks it expects has landed.                                *)
Slow ==
  /\ script = "poll" /\ attempt = Attempts
  /\ run.expected # {} /\ run.expected \cap vault = {}

(* No false alarm for ever: once faults cease, collector tasks go on to     *)
(* succeed, the days on which every alert is tracked already included, and  *)
(* whatever a run that failed half way has left.  What else can fail them,  *)
(* day after day, is a controller that is slower than the poll, or an alert *)
(* without a date.                                                         *)
Recovers == []<>(task = "completed") \/ []<>Slow \/ []<>Blocked

(***************************************************************************)
(* What SuccessIsObserved rests on.                                        *)
(***************************************************************************)

(* Commands counted as published are on Kafka or have been consumed, what   *)
(* landed is there, and an alert not expected to land was in the vault.    *)
Sound(line) ==
  /\ line.published \subseteq queue \cup vault
  /\ line.expected \subseteq line.fetched
  /\ line.landed \subseteq line.fetched \cap vault
  /\ line.observed => line.fetched \subseteq vault \cup line.expected

LineSound == script \in {"population", "publish", "poll", "write"} => Sound(run)
LineEmpty ==
  script \in {"unused", "fetch", "list", "off"} =>
    run.published = {} /\ run.expected = {} /\ run.landed = {}
FileSound == step = "inner" /\ file # NoLine => fresh /\ Sound(file)

(* The inductive invariant: the line in the making is sound from the        *)
(* listing on, and a line in the file is this Job's while its step runs.    *)
CollectorInv == TypeOK /\ LineSound /\ LineEmpty /\ FileSound
=============================================================================
