-------------------------------- MODULE Jobs --------------------------------
(***************************************************************************)
(* The Jobs of main.go: a process that reads its configuration, refuses a  *)
(* bad one, wires the scripts the model will run and the clients the       *)
(* binary itself uses, runs one agent and pushes its metrics.  Jobs share  *)
(* nothing but the clock and the Prometheus pushgateway.                   *)
(*                                                                         *)
(* A configured value is known by whether it is there, except for the      *)
(* Sentry target, which is a sequence of path segments: <<>> for an empty   *)
(* value, Blank for white space, <<host>>, <<host, "">> with a trailing     *)
(* slash, <<host, "api/0">> for the API's own form.                        *)
(***************************************************************************)
EXTENDS Naturals, Sequences

Blank == <<" ">>
Jira == {"JIRA_CLOUD_ID", "JIRA_EMAIL", "JIRA_API_TOKEN"}
App == {"APP_ID", "INSTALLATION_ID", "PEM_KEY"}
Values == {"SENTRY_API_TOKEN", "ASSIGNEE", "TASK_CONTENT", "TASK_ID",
           "KAFKA_BROKERS", "VAULT_API_URL"} \cup Jira \cup App
Scripts == {"sentry-read", "repo-clone", "jira-read", "create-tasks", "vault-list"}

(* The task types provider.Get knows, one name for each agent; any other is *)
(* refused.                                                                *)
Served == {"triage", "deep", "collector", "fix", "healthcheck"}
Types == Served \cup {"unknown"}

Config == [type : Types, url : Seq(STRING), org : Seq(STRING),
           values : SUBSET Values, grants : SUBSET Scripts]

CONSTANTS
  JobIds,        \* Jobs there may be
  Assignments,   \* the configurations they may be given, one for each Job
  NoPush,        \* "nothing was pushed to this group"
  LastSecond     \* bound: the clock stops there

ASSUME JobsAssumption ==
  /\ Assignments \subseteq [JobIds -> Config]
  /\ LastSecond \in Nat
  /\ NoPush \notin 0..1

VARIABLES
  config,     \* each Job's configuration
  pc,         \* where its process is
  started,    \* runLabel: the Unix second it started in
  cancelled,  \* has its context been cancelled?
  producer,   \* does it hold a Kafka producer?
  env,        \* variables of the Claude subprocess, by name
  target,     \* the Sentry target forwarded to the scripts
  github,     \* has it an App-authenticated GitHub client?
  status,     \* what jobMetrics has recorded
  recorded,   \* verdicts verdictMetrics has counted
  pushed,     \* did its counter reach the gateway?
  lastRun,    \* pushgateway: group (task_type) of the agent_job_* series
  verdicts,   \* pushgateway: group (task_type, run) of the verdict counter
  now         \* the second the clock shows

wiring == <<producer, env, target, github>>
metrics == <<status, recorded, pushed>>
gateway == <<lastRun, verdicts>>
vars == <<config, pc, started, cancelled, producer, env, target, github,
          status, recorded, pushed, lastRun, verdicts, now>>

Statuses == {"done", "in_progress", "needs_input", "failed"}
Startup == {"config", "deliverer", "env", "preflight", "client", "provider"}
Alive == Startup \cup {"run", "close", "push", "pushVerdicts"}

Init ==
  /\ config \in Assignments
  /\ pc = [j \in JobIds |-> "new"]
  /\ started = [j \in JobIds |-> 0]
  /\ cancelled = [j \in JobIds |-> FALSE]
  /\ producer = [j \in JobIds |-> FALSE]
  /\ env = [j \in JobIds |-> {}]
  /\ target = [j \in JobIds |-> [url |-> <<>>, org |-> <<>>]]
  /\ github = [j \in JobIds |-> FALSE]
  /\ status = [j \in JobIds |-> "none"]
  /\ recorded = [j \in JobIds |-> 0]
  /\ pushed = [j \in JobIds |-> FALSE]
  /\ lastRun = [t \in Types |-> "none"]
  /\ verdicts = [g \in Types \X (0..LastSecond) |-> NoPush]
  /\ now = 0

-----------------------------------------------------------------------------
(* The Sentry target, as the binary and as the scripts read it.            *)

Trim(v) == IF v = Blank THEN <<>> ELSE v

EndsIn(path, segment) == path # <<>> /\ path[Len(path)] = segment
TrimSuffix(path, segment) ==
  IF EndsIn(path, segment) THEN SubSeq(path, 1, Len(path) - 1) ELSE path

DefaultURL == <<"bborbe.sentry.io">>
DefaultOrg == <<"bborbe">>
DefaultBase == Append(DefaultURL, "api/0")

APIBaseURL(raw) ==
  LET base == TrimSuffix(Trim(raw), "")
  IN IF Trim(raw) = <<>> THEN DefaultBase
     ELSE IF EndsIn(base, "api/0") THEN base
     ELSE Append(base, "api/0")

OrgOrDefault(org) == IF Trim(org) = <<>> THEN DefaultOrg ELSE Trim(org)

(* ${SENTRY_URL:-default}/api/0 and ${SENTRY_ORG:-bborbe}                   *)
OrElse(v, default) == IF v = <<>> THEN default ELSE v
ScriptBase(sentry) == Append(OrElse(sentry.url, DefaultURL), "api/0")
ScriptOrg(sentry) == OrElse(sentry.org, DefaultOrg)

-----------------------------------------------------------------------------
(* The steps of application.Run.                                           *)

At(j, here, next) == pc[j] = here /\ pc' = [pc EXCEPT ![j] = next]

(* Every error return records a failed run; the deferred calls follow.     *)
Fails(j, here) ==
  /\ At(j, here, "close")
  /\ status' = [status EXCEPT ![j] = "failed"]
  /\ UNCHANGED wiring

Passes(j, here, next) == At(j, here, next) /\ UNCHANGED status

(* Nothing outside the Job.                                                *)
Local == UNCHANGED <<config, started, cancelled, recorded, pushed, gateway, now>>

(* service.Main parses the arguments first: without a required one there is *)
(* no Run, and no metric of it.                                            *)
Required == {"SENTRY_API_TOKEN", "ASSIGNEE", "TASK_CONTENT"}
Start(j) ==
  /\ At(j, "new", IF Required \subseteq config[j].values THEN "config" ELSE "gone")
  /\ started' = [started EXCEPT ![j] = now]
  /\ UNCHANGED <<config, cancelled, wiring, metrics, gateway, now>>

(* A plausible bug, which nothing uses: the values are compared untrimmed. *)
PairedRaw(c) == (c.url = <<>>) = (c.org = <<>>)

Paired(c) == (Trim(c.url) = <<>>) = (Trim(c.org) = <<>>)
ValidateSentryConfig(j) ==
  /\ IF Paired(config[j]) THEN Passes(j, "config", "deliverer") ELSE Fails(j, "config")
  /\ Local /\ UNCHANGED wiring

(* Without a task id nothing is delivered and no brokers are needed.       *)
CreateDeliverer(j) ==
  LET has == config[j].values
  IN /\ \/ /\ "TASK_ID" \notin has
           /\ Passes(j, "deliverer", "env") /\ UNCHANGED producer
        \/ /\ {"TASK_ID", "KAFKA_BROKERS"} \subseteq has
           /\ Passes(j, "deliverer", "env")
           /\ producer' = [producer EXCEPT ![j] = TRUE]
        \/ /\ "TASK_ID" \in has   \* no brokers, or none that answers
           /\ Fails(j, "deliverer")
     /\ Local /\ UNCHANGED <<env, target, github>>

(* A plausible bug, which nothing uses: the publisher's own assignee is    *)
(* left to the pod's environment.                                          *)
ForwardedButAssignee == {"SENTRY_API_TOKEN", "KAFKA_BROKERS", "VAULT_API_URL"} \cup Jira

(* The variables that are handed to the subprocess when they have a value; *)
(* the Sentry target is handed over trimmed.                               *)
Forwarded == {"SENTRY_API_TOKEN", "ASSIGNEE", "KAFKA_BROKERS", "VAULT_API_URL"} \cup Jira
ForwardSentryTarget(c) == [url |-> Trim(c.url), org |-> Trim(c.org)]
HasApp(c) == App \subseteq c.values
ClaudeEnv(c) ==
  (Forwarded \cap c.values) \cup (IF HasApp(c) THEN {"GIT_CLONE_TOKEN"} ELSE {})

BuildClaudeEnv(j) ==
  /\ \/ /\ Passes(j, "env", "preflight")
        /\ env' = [env EXCEPT ![j] = ClaudeEnv(config[j])]
        /\ target' = [target EXCEPT ![j] = ForwardSentryTarget(config[j])]
        /\ UNCHANGED <<producer, github>>
     \/ HasApp(config[j]) /\ Fails(j, "env")   \* MintIAT
  /\ Local

ValidateSentryTools(c) == "sentry-read" \in c.grants /\ "SENTRY_API_TOKEN" \in c.values
ValidateRepoCloneTools(c) == "repo-clone" \in c.grants
ValidateCollectorTools(c) ==
  /\ {"create-tasks", "vault-list"} \subseteq c.grants
  /\ {"SENTRY_API_TOKEN", "VAULT_API_URL"} \subseteq c.values

(* Opting in by any part of it demands the whole.                          *)
WantsJira(c) == "jira-read" \in c.grants \/ Jira \cap c.values # {}
ValidateJiraTools(c) == WantsJira(c) => "jira-read" \in c.grants /\ Jira \subseteq c.values

Preflight(c) ==
  CASE c.type = "collector" -> ValidateCollectorTools(c)
    [] c.type = "fix" -> ValidateRepoCloneTools(c)
    [] OTHER -> /\ ValidateSentryTools(c)
                /\ ValidateRepoCloneTools(c)
                /\ ValidateJiraTools(c)

(* The validators give a cancelled context's error.                        *)
ValidatePreflight(j) ==
  /\ IF Preflight(config[j]) /\ ~cancelled[j]
     THEN Passes(j, "preflight", "client")
     ELSE Fails(j, "preflight")
  /\ Local /\ UNCHANGED wiring

(* Part of the App's credentials counts as none.                           *)
BuildGithubClient(j) ==
  /\ \/ /\ Passes(j, "client", "provider")
        /\ github' = [github EXCEPT ![j] = HasApp(config[j])]
        /\ UNCHANGED <<producer, env, target>>
     \/ HasApp(config[j]) /\ Fails(j, "client")
  /\ Local

Get(j) ==
  /\ IF config[j].type \in Served THEN Passes(j, "provider", "run") ELSE Fails(j, "provider")
  /\ Local /\ UNCHANGED wiring

(* A plausible bug, which nothing uses: a verdict is counted whenever it is *)
(* judged.                                                                 *)
RecordVerdictAgain(j) ==
  /\ pc[j] = "run" /\ config[j].type \in {"triage", "deep"}
  /\ recorded' = [recorded EXCEPT ![j] = @ + 1]
  /\ UNCHANGED <<config, pc, started, cancelled, wiring, status, pushed, gateway, now>>

(* The one step of the agent that judges counts its verdict; what follows  *)
(* may still fail.                                                         *)
RecordVerdict(j) ==
  /\ pc[j] = "run" /\ config[j].type \in {"triage", "deep"} /\ recorded[j] = 0
  /\ recorded' = [recorded EXCEPT ![j] = 1]
  /\ UNCHANGED <<config, pc, started, cancelled, wiring, status, pushed, gateway, now>>

(* A result, an error, or no result, which is delivered as a failure.      *)
AgentRun(j) ==
  /\ At(j, "run", "close")
  /\ \E s \in Statuses : status' = [status EXCEPT ![j] = s]
  /\ Local /\ UNCHANGED wiring

-----------------------------------------------------------------------------
(* The deferred calls, the last deferred first.                            *)

Close(j) ==
  /\ At(j, "close", "push")
  /\ producer' = [producer EXCEPT ![j] = FALSE]
  /\ Local /\ UNCHANGED <<env, target, github, status>>

(* A PUT replaces the group; one that fails is only logged, and one under  *)
(* a cancelled context always fails.                                       *)
PushContext(j) ==
  /\ At(j, "push", "pushVerdicts")
  /\ \/ ~cancelled[j] /\ lastRun' = [lastRun EXCEPT ![config[j].type] = status[j]]
     \/ UNCHANGED lastRun
  /\ UNCHANGED <<config, started, cancelled, wiring, metrics, verdicts, now>>

(* A plausible bug, which nothing uses: the run label is the same for all  *)
(* Jobs, so that one group is shared.                                      *)
GroupOfType(j) == <<config[j].type, 0>>

(* One group per run, labelled with the second it started in.              *)
Group(j) == <<config[j].type, started[j]>>

PushVerdicts(j) ==
  /\ At(j, "pushVerdicts", "gone")
  /\ \/ /\ ~cancelled[j]
        /\ verdicts' = [verdicts EXCEPT ![Group(j)] = recorded[j]]
        /\ pushed' = [pushed EXCEPT ![j] = TRUE]
     \/ UNCHANGED <<verdicts, pushed>>
  /\ UNCHANGED <<config, started, cancelled, wiring, status, recorded, lastRun, now>>

(* SIGTERM or the deadline cancels the context; a kill skips the defers.   *)
Cancel(j) ==
  /\ pc[j] \in Alive /\ ~cancelled[j]
  /\ cancelled' = [cancelled EXCEPT ![j] = TRUE]
  /\ UNCHANGED <<config, pc, started, wiring, metrics, gateway, now>>

Kill(j) ==
  /\ pc[j] \in Alive
  /\ pc' = [pc EXCEPT ![j] = "gone"]
  /\ producer' = [producer EXCEPT ![j] = FALSE]
  /\ UNCHANGED <<config, started, cancelled, env, target, github, metrics, gateway, now>>

Tick ==
  /\ now < LastSecond
  /\ now' = now + 1
  /\ UNCHANGED <<config, pc, started, cancelled, wiring, metrics, gateway>>

Step(j) ==
  \/ Start(j) \/ ValidateSentryConfig(j) \/ CreateDeliverer(j) \/ BuildClaudeEnv(j)
  \/ ValidatePreflight(j) \/ BuildGithubClient(j) \/ Get(j) \/ RecordVerdict(j)
  \/ AgentRun(j) \/ Close(j) \/ PushContext(j) \/ PushVerdicts(j)
  \/ Cancel(j) \/ Kill(j)

Next == Tick \/ \E j \in JobIds : Step(j)

Spec == Init /\ [][Next]_vars

-----------------------------------------------------------------------------
(* Types; a Kafka producer is held by a live Job only, and a Job counts at *)
(* most one verdict (RecordVerdict is called by one step of an agent).     *)
TypeOK ==
  /\ config \in Assignments
  /\ pc \in [JobIds -> {"new", "gone"} \cup Alive]
  /\ started \in [JobIds -> 0..LastSecond]
  /\ cancelled \in [JobIds -> BOOLEAN]
  /\ producer \in [JobIds -> BOOLEAN]
  /\ env \in [JobIds -> SUBSET (Values \cup {"GIT_CLONE_TOKEN"})]
  /\ target \in [JobIds -> [url : Seq(STRING), org : Seq(STRING)]]
  /\ github \in [JobIds -> BOOLEAN]
  /\ status \in [JobIds -> {"none"} \cup Statuses]
  /\ recorded \in [JobIds -> 0..1]
  /\ pushed \in [JobIds -> BOOLEAN]
  /\ lastRun \in [Types -> {"none"} \cup Statuses]
  /\ verdicts \in [Types \X (0..LastSecond) -> {NoPush} \cup 0..1]
  /\ now \in 0..LastSecond
  /\ \A j \in JobIds : producer[j] => pc[j] \in Alive \ {"push", "pushVerdicts"}

(* What the prompt of each task type has the model run, and what each      *)
(* script refuses to run without.                                          *)
Uses(c) ==
  CASE c.type = "collector" -> {"create-tasks", "vault-list"}
    [] c.type = "fix" -> {"repo-clone"}
    [] c.type \in {"triage", "deep"} ->
         {"sentry-read", "repo-clone"} \cup (IF WantsJira(c) THEN {"jira-read"} ELSE {})
    [] OTHER -> {}
Demands(script) ==
  CASE script = "sentry-read" -> {"SENTRY_API_TOKEN"}
    [] script = "jira-read" -> Jira
    [] script = "create-tasks" -> {"SENTRY_API_TOKEN", "ASSIGNEE", "KAFKA_BROKERS", "VAULT_API_URL"}
    [] script = "vault-list" -> {"VAULT_API_URL"}
    [] OTHER -> {}

(* No agent runs whose model would find a script it needs ungranted, or    *)
(* without a variable the script demands: the three places that decide     *)
(* this (required arguments, preflight, forwarding) agree with the scripts.*)
(* The brokers of a Job without a task id are nobody's to check.           *)
RunnerIsWired ==
  \A j \in JobIds : pc[j] = "run" =>
    \A s \in Uses(config[j]) :
      /\ s \in config[j].grants
      /\ \A v \in Demands(s) :
           v \in env[j] \/ (v = "KAFKA_BROKERS" /\ "TASK_ID" \notin config[j].values)

(* The scripts and the binary's own clients ask the same organization, at   *)
(* the same base where SENTRY_URL has the form its usage shows (a host),    *)
(* and never one lane's base for another lane's organization.              *)
IsHost(url) == Len(url) = 1 /\ url[1] \notin {"", "api/0"}
OneSentry ==
  \A j \in JobIds : pc[j] = "run" =>
    LET c == config[j]
    IN /\ ScriptOrg(target[j]) = OrgOrDefault(c.org)
       /\ IsHost(Trim(c.url)) \/ Trim(c.url) = <<>> =>
            ScriptBase(target[j]) = APIBaseURL(c.url)
       /\ (target[j].url = <<>>) = (target[j].org = <<>>)

(* A verdict count that reached the gateway stays there as it was counted, *)
(* whatever other Jobs push, and whenever they started; only a Job of the  *)
(* same type that started in the same second shares its group.             *)
Alone(j) ==
  \A k \in JobIds \ {j} :
    pc[k] # "new" => config[k].type # config[j].type \/ started[k] # started[j]
CountSurvives ==
  \A j \in JobIds :
    pushed[j] /\ Alone(j) => verdicts[<<config[j].type, started[j]>>] = recorded[j]
=============================================================================
