----------------------------- MODULE JobsProofs -----------------------------
(***************************************************************************)
(* For any Jobs, configurations and clock: what startup has checked still  *)
(* holds when the agent runs, and what was counted stays counted.          *)
(***************************************************************************)
EXTENDS Jobs, TLAPS

(* What a Job knows of its configuration once it has passed a step of Run. *)
Told(j) ==
  /\ pc[j] \in Startup \cup {"run"} => Required \subseteq config[j].values
  /\ pc[j] \in (Startup \cup {"run"}) \ {"config"} => Paired(config[j])
  /\ pc[j] \in {"env", "preflight", "client", "provider", "run"} =>
       ("TASK_ID" \in config[j].values => "KAFKA_BROKERS" \in config[j].values)
  /\ pc[j] \in {"preflight", "client", "provider", "run"} =>
       /\ Forwarded \cap config[j].values \subseteq env[j]
       /\ target[j] = ForwardSentryTarget(config[j])
  /\ pc[j] \in {"client", "provider", "run"} => Preflight(config[j])

(* A counter is pushed last.                                               *)
PushedIsGone == \A j \in JobIds : pushed[j] => pc[j] = "gone"

Checked == \A j \in JobIds : Told(j)

JobsInv == TypeOK /\ Checked /\ PushedIsGone /\ CountSurvives

-----------------------------------------------------------------------------
(* The configuration of a Job is one of the record type Config.            *)
LEMMA ConfigTyped ==
  ASSUME config \in Assignments, NEW j \in JobIds
  PROVE  /\ config[j] \in Config
         /\ config[j].type \in Types
         /\ config[j].values \subseteq Values
         /\ config[j].url \in Seq(STRING)
         /\ config[j].org \in Seq(STRING)
  BY JobsAssumption DEF Config

(* Trimming gives a path again.                                            *)
LEMMA TrimTyped ==
  ASSUME NEW v \in Seq(STRING)
  PROVE  Trim(v) \in Seq(STRING)
<1>1. <<>> \in Seq(STRING)
  OBVIOUS
<1> QED BY <1>1 DEF Trim

(* A path of one segment is not empty.                                     *)
LEMMA OneSegment ==
  ASSUME NEW u \in Seq(STRING), Len(u) = 1
  PROVE  u # <<>>
  OBVIOUS

(* What is forwarded is a Sentry target again.                             *)
LEMMA TargetTyped ==
  ASSUME config \in Assignments, NEW j \in JobIds
  PROVE  ForwardSentryTarget(config[j]) \in [url : Seq(STRING), org : Seq(STRING)]
  BY ConfigTyped, TrimTyped DEF ForwardSentryTarget

(* A function keeps its type when a value of it is replaced.               *)
LEMMA UpdateTyped ==
  ASSUME NEW S, NEW T, NEW f \in [S -> T], NEW x \in S, NEW y \in T
  PROVE  [f EXCEPT ![x] = y] \in [S -> T]
  OBVIOUS

(* The initial states have the types.                                      *)
LEMMA InitTyped == Init => TypeOK
  BY JobsAssumption DEF Init, TypeOK, Alive, Startup, Statuses

(* An error return leaves the types alone.                                 *)
LEMMA FailsTyped ==
  ASSUME TypeOK, NEW j \in JobIds, NEW here \in Alive \ {"push", "pushVerdicts"},
         Fails(j, here), Local
  PROVE  TypeOK'
<1>1. pc' \in [JobIds -> {"new", "gone"} \cup Alive]
  BY UpdateTyped DEF TypeOK, Fails, At, Alive
<1>2. status' \in [JobIds -> {"none"} \cup Statuses]
  BY DEF TypeOK, Fails, Statuses
<1>3. /\ producer' = producer /\ pc' = [pc EXCEPT ![j] = "close"]
      /\ "close" \in Alive \ {"push", "pushVerdicts"}
  BY DEF Fails, At, wiring, Alive
<1>4. \A k \in JobIds : producer'[k] => pc'[k] \in Alive \ {"push", "pushVerdicts"}
  BY <1>3 DEF TypeOK
<1> QED BY <1>1, <1>2, <1>4 DEF TypeOK, Fails, Local, wiring, gateway

(* No step of a Job leaves the types.                                      *)
LEMMA StepTyped ==
  ASSUME TypeOK, NEW j \in JobIds, Step(j)
  PROVE  TypeOK'
<1> USE DEF TypeOK, Alive, Startup, Statuses, At
<1>1. CASE Start(j)
  BY <1>1 DEF Start, wiring, metrics, gateway
<1>2. CASE ValidateSentryConfig(j)
  <2>1. Local /\ UNCHANGED wiring
    BY <1>2 DEF ValidateSentryConfig
  <2>2. CASE Fails(j, "config")
    BY <2>1, <2>2, FailsTyped
  <2>3. CASE Passes(j, "config", "deliverer")
    BY <2>1, <2>3 DEF Passes, Local, wiring, gateway
  <2> QED BY <1>2, <2>2, <2>3 DEF ValidateSentryConfig
<1>3. CASE CreateDeliverer(j)
  <2>1. Local /\ UNCHANGED <<env, target, github>>
    BY <1>3 DEF CreateDeliverer
  <2>2. CASE Fails(j, "deliverer")
    BY <2>1, <2>2, FailsTyped
  <2>3. CASE ~Fails(j, "deliverer")
    <3>1. /\ At(j, "deliverer", "env") /\ UNCHANGED status
          /\ producer' = [producer EXCEPT ![j] = TRUE] \/ UNCHANGED producer
      BY <1>3, <2>3 DEF CreateDeliverer, Passes
    <3>2. producer' \in [JobIds -> BOOLEAN]
      BY <3>1
    <3> QED BY <2>1, <3>1, <3>2 DEF Local, gateway
  <2> QED BY <2>2, <2>3
<1>4. CASE BuildClaudeEnv(j)
  <2>1. ClaudeEnv(config[j]) \in SUBSET (Values \cup {"GIT_CLONE_TOKEN"})
    BY ConfigTyped DEF ClaudeEnv, Forwarded
  <2>2. CASE Fails(j, "env")
    <3>1. Local
      BY <1>4 DEF BuildClaudeEnv
    <3> QED BY <2>2, <3>1, FailsTyped
  <2>3. CASE ~Fails(j, "env")
    <3>1. /\ env' = [env EXCEPT ![j] = ClaudeEnv(config[j])]
          /\ target' = [target EXCEPT ![j] = ForwardSentryTarget(config[j])]
          /\ At(j, "env", "preflight")
          /\ UNCHANGED <<status, producer, github>> /\ Local
      BY <1>4, <2>3 DEF BuildClaudeEnv, Passes
    <3> QED BY <2>1, <3>1, TargetTyped DEF Local, gateway
  <2> QED BY <2>2, <2>3
<1>5. CASE ValidatePreflight(j)
  <2>1. Local /\ UNCHANGED wiring
    BY <1>5 DEF ValidatePreflight
  <2>2. CASE Fails(j, "preflight")
    BY <2>1, <2>2, FailsTyped
  <2>3. CASE Passes(j, "preflight", "client")
    BY <2>1, <2>3 DEF Passes, Local, wiring, gateway
  <2> QED BY <1>5, <2>2, <2>3 DEF ValidatePreflight
<1>6. CASE BuildGithubClient(j)
  <2>1. HasApp(config[j]) \in BOOLEAN
    BY DEF HasApp
  <2>2. CASE Fails(j, "client")
    <3>1. Local
      BY <1>6 DEF BuildGithubClient
    <3> QED BY <2>2, <3>1, FailsTyped
  <2>3. CASE ~Fails(j, "client")
    <3>1. /\ github' = [github EXCEPT ![j] = HasApp(config[j])]
          /\ At(j, "client", "provider")
          /\ UNCHANGED <<status, producer, env, target>> /\ Local
      BY <1>6, <2>3 DEF BuildGithubClient, Passes
    <3> QED BY <2>1, <3>1 DEF Local, gateway
  <2> QED BY <2>2, <2>3
<1>7. CASE Get(j)
  <2>1. Local /\ UNCHANGED wiring
    BY <1>7 DEF Get
  <2>2. CASE Fails(j, "provider")
    BY <2>1, <2>2, FailsTyped
  <2>3. CASE Passes(j, "provider", "run")
    BY <2>1, <2>3 DEF Passes, Local, wiring, gateway
  <2> QED BY <1>7, <2>2, <2>3 DEF Get
<1>8. CASE RecordVerdict(j)
  BY <1>8 DEF RecordVerdict, wiring, gateway
<1>9. CASE AgentRun(j)
  BY <1>9 DEF AgentRun, Local, wiring, gateway
<1>10. CASE Close(j)
  BY <1>10 DEF Close, Local, gateway
<1>11. CASE PushContext(j)
  BY <1>11, ConfigTyped DEF PushContext, wiring, metrics
<1>12. CASE PushVerdicts(j)
  <2>1. Group(j) \in Types \X (0..LastSecond)
    BY ConfigTyped DEF Group
  <2>2. verdicts' \in [Types \X (0..LastSecond) -> {NoPush} \cup 0..1]
    <3>1. \/ verdicts' = [verdicts EXCEPT ![Group(j)] = recorded[j]]
          \/ UNCHANGED verdicts
      BY <1>12 DEF PushVerdicts
    <3>2. verdicts \in [Types \X (0..LastSecond) -> {NoPush} \cup 0..1]
      OBVIOUS
    <3>3. recorded[j] \in {NoPush} \cup 0..1
      OBVIOUS
    <3> QED BY <2>1, <3>1, <3>2, <3>3, UpdateTyped
  <2>3. /\ At(j, "pushVerdicts", "gone")
        /\ pushed' = [pushed EXCEPT ![j] = TRUE] \/ UNCHANGED pushed
        /\ UNCHANGED <<config, started, cancelled, wiring, status, recorded, lastRun, now>>
    BY <1>12 DEF PushVerdicts
  <2> QED BY <2>2, <2>3 DEF wiring
<1>13. CASE Cancel(j)
  BY <1>13 DEF Cancel, wiring, metrics, gateway
<1>14. CASE Kill(j)
  BY <1>14 DEF Kill, metrics, gateway
<1> HIDE DEF TypeOK, Alive, Startup, Statuses, At
<1> QED
  BY <1>1, <1>2, <1>3, <1>4, <1>5, <1>6, <1>7, <1>8, <1>9, <1>10, <1>11,
     <1>12, <1>13, <1>14 DEF Step

(* Nor does the clock.                                                     *)
LEMMA TickTyped ==
  ASSUME TypeOK, Tick
  PROVE  TypeOK'
  BY JobsAssumption DEF TypeOK, Tick, wiring, metrics, gateway

-----------------------------------------------------------------------------
(* Two Jobs apart: a step of one leaves the other where it is.             *)
LEMMA OthersStay ==
  ASSUME TypeOK, NEW j \in JobIds, Step(j), NEW k \in JobIds \ {j}
  PROVE  /\ pc'[k] = pc[k] /\ started'[k] = started[k]
         /\ env'[k] = env[k] /\ target'[k] = target[k]
         /\ recorded'[k] = recorded[k] /\ pushed'[k] = pushed[k]
<1>1. config \in Assignments /\ pc \in [JobIds -> {"new", "gone"} \cup Alive]
  BY DEF TypeOK
<1> USE DEF TypeOK, At, Passes, Fails, Local, wiring, metrics, gateway
<1>2. CASE Start(j) \/ ValidateSentryConfig(j) \/ CreateDeliverer(j)
  BY <1>2 DEF Start, ValidateSentryConfig, CreateDeliverer
<1>3. CASE BuildClaudeEnv(j)
  BY <1>3 DEF BuildClaudeEnv
<1>4. CASE ValidatePreflight(j) \/ BuildGithubClient(j) \/ Get(j)
  BY <1>4 DEF ValidatePreflight, BuildGithubClient, Get
<1>5. CASE RecordVerdict(j) \/ AgentRun(j)
  BY <1>5 DEF RecordVerdict, AgentRun
<1>6. CASE Close(j) \/ PushContext(j)
  BY <1>6 DEF Close, PushContext
<1>7. CASE PushVerdicts(j)
  BY <1>7 DEF PushVerdicts
<1>8. CASE Cancel(j) \/ Kill(j)
  BY <1>8 DEF Cancel, Kill
<1> HIDE DEF TypeOK, At, Passes, Fails, Local, wiring, metrics, gateway
<1> QED BY <1>2, <1>3, <1>4, <1>5, <1>6, <1>7, <1>8 DEF Step

(* What the stepping Job has been told stays true of it.                   *)
LEMMA StepTold ==
  ASSUME TypeOK, NEW j \in JobIds, Step(j), Told(j)
  PROVE  Told(j)'
<1>1. config' = config
  BY DEF Step, Start, ValidateSentryConfig, CreateDeliverer, BuildClaudeEnv,
    ValidatePreflight, BuildGithubClient, Get, RecordVerdict, AgentRun, Close,
    PushContext, PushVerdicts, Cancel, Kill, Local
<1> USE <1>1 DEF TypeOK, Told, Startup, Alive, At
<1>2. CASE Start(j)
  BY <1>2 DEF Start
<1>3. CASE ValidateSentryConfig(j)
  BY <1>3 DEF ValidateSentryConfig, Passes, Fails
<1>4. CASE CreateDeliverer(j)
  BY <1>4 DEF CreateDeliverer, Passes, Fails
<1>5. CASE BuildClaudeEnv(j)
  <2>1. CASE Fails(j, "env")
    BY <2>1 DEF Fails
  <2>2. CASE ~Fails(j, "env")
    <3>1. /\ env' = [env EXCEPT ![j] = ClaudeEnv(config[j])]
          /\ target' = [target EXCEPT ![j] = ForwardSentryTarget(config[j])]
          /\ At(j, "env", "preflight")
      BY <1>5, <2>2 DEF BuildClaudeEnv, Passes
    <3>2. Forwarded \cap config[j].values \subseteq ClaudeEnv(config[j])
      BY DEF ClaudeEnv
    <3> QED BY <3>1, <3>2
  <2> QED BY <2>1, <2>2
<1>6. CASE ValidatePreflight(j)
  BY <1>6 DEF ValidatePreflight, Passes, Fails, wiring
<1>7. CASE BuildGithubClient(j)
  BY <1>7 DEF BuildGithubClient, Passes, Fails, wiring
<1>8. CASE Get(j)
  BY <1>8 DEF Get, Passes, Fails, wiring
<1>9. CASE RecordVerdict(j)
  BY <1>9 DEF RecordVerdict, wiring
<1>10. CASE AgentRun(j) \/ Close(j)
  BY <1>10 DEF AgentRun, Close
<1>11. CASE PushContext(j) \/ PushVerdicts(j)
  BY <1>11 DEF PushContext, PushVerdicts
<1>12. CASE Cancel(j)
  BY <1>12 DEF Cancel, wiring
<1>13. CASE Kill(j)
  BY <1>13 DEF Kill
<1> HIDE DEF TypeOK, Told, Startup, Alive, At
<1> QED
  BY <1>2, <1>3, <1>4, <1>5, <1>6, <1>7, <1>8, <1>9, <1>10, <1>11, <1>12, <1>13
  DEF Step

(* Nothing a Job knows changes with the clock.                             *)
LEMMA TickTold ==
  ASSUME Tick, NEW j \in JobIds, Told(j)
  PROVE  Told(j)'
  BY DEF Tick, Told, wiring

(* A Job that starts has been told nothing yet.                            *)
LEMMA InitTold == Init => Checked /\ PushedIsGone
  BY DEF Init, Checked, Told, PushedIsGone, Startup

(* Every Job keeps what it was told, whoever steps.                        *)
LEMMA CheckedStep ==
  ASSUME TypeOK, Checked, [Next]_vars
  PROVE  Checked'
<1>1. CASE Tick
  BY <1>1, TickTold DEF Checked
<1>2. ASSUME NEW j \in JobIds, Step(j)
      PROVE  Checked'
  <2>1. config' = config
    BY <1>2 DEF Step, Start, ValidateSentryConfig, CreateDeliverer, BuildClaudeEnv,
      ValidatePreflight, BuildGithubClient, Get, RecordVerdict, AgentRun, Close,
      PushContext, PushVerdicts, Cancel, Kill, Local
  <2>2. ASSUME NEW k \in JobIds \ {j}
        PROVE  Told(k)'
    BY <1>2, <2>1, OthersStay DEF Checked, Told
  <2> QED BY <1>2, <2>2, StepTold DEF Checked
<1>3. CASE UNCHANGED vars
  BY <1>3 DEF vars, Checked, Told
<1> QED BY <1>1, <1>2, <1>3 DEF Next

-----------------------------------------------------------------------------
(* The verdict counter.                                                    *)

(* A step of a Job that is gone is impossible, so a pushed counter is final.*)
LEMMA PushedStep ==
  ASSUME TypeOK, PushedIsGone, NEW j \in JobIds, Step(j)
  PROVE  /\ PushedIsGone'
         /\ pc[j] # "gone"
         /\ pc'[j] # "new"
         /\ pc[j] # "new" => started'[j] = started[j]
<1>1. \A k \in JobIds \ {j} : pc'[k] = pc[k] /\ pushed'[k] = pushed[k]
  BY OthersStay
<1> USE DEF TypeOK, PushedIsGone, At, Passes, Fails, Local, metrics, Alive, Startup
<1>2. pc[j] # "gone" /\ pc'[j] # "new" /\ (pc[j] # "new" => started'[j] = started[j])
  <2>1. CASE Start(j) \/ ValidateSentryConfig(j) \/ CreateDeliverer(j)
    BY <2>1 DEF Start, ValidateSentryConfig, CreateDeliverer
  <2>2. CASE BuildClaudeEnv(j) \/ ValidatePreflight(j) \/ BuildGithubClient(j) \/ Get(j)
    BY <2>2 DEF BuildClaudeEnv, ValidatePreflight, BuildGithubClient, Get
  <2>3. CASE RecordVerdict(j) \/ AgentRun(j) \/ Close(j)
    BY <2>3 DEF RecordVerdict, AgentRun, Close
  <2>4. CASE PushContext(j) \/ PushVerdicts(j) \/ Cancel(j) \/ Kill(j)
    BY <2>4 DEF PushContext, PushVerdicts, Cancel, Kill
  <2> QED BY <2>1, <2>2, <2>3, <2>4 DEF Step
<1>3. pushed'[j] => pc'[j] = "gone"
  <2>1. CASE PushVerdicts(j)
    BY <2>1 DEF PushVerdicts
  <2>2. CASE ~PushVerdicts(j)
    <3>1. pushed' = pushed
      BY <2>2 DEF Step, Start, ValidateSentryConfig, CreateDeliverer, BuildClaudeEnv,
        ValidatePreflight, BuildGithubClient, Get, RecordVerdict, AgentRun, Close,
        PushContext, Cancel, Kill
    <3> QED BY <1>2, <3>1
  <2> QED BY <2>1, <2>2
<1> QED BY <1>1, <1>2, <1>3

(* Only a push changes a counter on the gateway, and only its own group's. *)
LEMMA GatewayStep ==
  ASSUME NEW j \in JobIds, Step(j)
  PROVE  \/ UNCHANGED <<verdicts, pushed>>
         \/ /\ pc[j] = "pushVerdicts" /\ pushed' = [pushed EXCEPT ![j] = TRUE]
            /\ verdicts' = [verdicts EXCEPT ![Group(j)] = recorded[j]]
            /\ UNCHANGED <<config, started, recorded>>
  BY DEF Step, Start, ValidateSentryConfig, CreateDeliverer, BuildClaudeEnv,
    ValidatePreflight, BuildGithubClient, Get, RecordVerdict, AgentRun, Close,
    PushContext, PushVerdicts, Cancel, Kill, Local, gateway, metrics, At

(* A configuration never changes.                                          *)
LEMMA ConfigStays ==
  ASSUME [Next]_vars
  PROVE  config' = config
  BY DEF Next, Tick, Step, Start, ValidateSentryConfig, CreateDeliverer,
    BuildClaudeEnv, ValidatePreflight, BuildGithubClient, Get, RecordVerdict,
    AgentRun, Close, PushContext, PushVerdicts, Cancel, Kill, Local, vars

(* A counter that is on the gateway stays there.                           *)
LEMMA CountStep ==
  ASSUME TypeOK, PushedIsGone, CountSurvives, [Next]_vars
  PROVE  CountSurvives' /\ PushedIsGone'
<1>1. CASE Tick \/ UNCHANGED vars
  BY <1>1 DEF Tick, vars, gateway, metrics, CountSurvives, Alone, PushedIsGone
<1>2. ASSUME NEW j \in JobIds, Step(j)
      PROVE  CountSurvives' /\ PushedIsGone'
  <2>1. config' = config
    BY <1>2, ConfigStays DEF Next
  <2>2. /\ PushedIsGone' /\ pc[j] # "gone" /\ pc'[j] # "new"
        /\ pc[j] # "new" => started'[j] = started[j]
    BY <1>2, PushedStep
  <2>3. ASSUME NEW i \in JobIds \ {j}
        PROVE  /\ pc'[i] = pc[i] /\ started'[i] = started[i]
               /\ recorded'[i] = recorded[i] /\ pushed'[i] = pushed[i]
    BY <1>2, OthersStay
  <2>4. SUFFICES ASSUME NEW k \in JobIds, pushed'[k], Alone(k)'
                 PROVE  verdicts'[<<config'[k].type, started'[k]>>] = recorded'[k]
    BY <2>2 DEF CountSurvives
  <2>5. CASE k = j
    <3>1. ~pushed[j]
      BY <2>2 DEF PushedIsGone
    <3>2. /\ verdicts' = [verdicts EXCEPT ![Group(j)] = recorded[j]]
          /\ UNCHANGED <<config, started, recorded>>
      BY <1>2, <2>4, <2>5, <3>1, GatewayStep
    <3>3. Group(j) \in DOMAIN verdicts
      BY ConfigTyped DEF TypeOK, Group
    <3> QED BY <2>5, <3>2, <3>3 DEF Group
  <2>6. CASE k # j
    <3>1. pushed[k] /\ recorded'[k] = recorded[k] /\ started'[k] = started[k]
      BY <2>3, <2>4, <2>6
    <3>2. Alone(k)
      <4>1. ASSUME NEW i \in JobIds \ {k}, pc[i] # "new"
            PROVE  config[i].type # config[k].type \/ started[i] # started[k]
        <5>1. pc'[i] # "new" /\ started'[i] = started[i]
          BY <2>2, <2>3, <4>1
        <5> QED BY <2>1, <2>4, <3>1, <4>1, <5>1 DEF Alone
      <4> QED BY <4>1 DEF Alone
    <3>3. verdicts[<<config[k].type, started[k]>>] = recorded[k]
      BY <3>1, <3>2 DEF CountSurvives
    <3>4. pc[j] = "pushVerdicts" => Group(j) # <<config[k].type, started[k]>>
      BY <2>6, <3>2 DEF Alone, Group
    <3>5. <<config[k].type, started[k]>> \in DOMAIN verdicts
      BY ConfigTyped DEF TypeOK
    <3> QED BY <1>2, <2>1, <3>1, <3>3, <3>4, <3>5, GatewayStep
  <2> QED BY <2>5, <2>6
<1> QED BY <1>1, <1>2 DEF Next

(* Nothing is on the gateway at first.                                     *)
LEMMA InitCount == Init => CountSurvives
  BY DEF Init, CountSurvives

-----------------------------------------------------------------------------
(* The invariant of the Jobs: types, what startup has checked (main.go,    *)
(* Run), and the counters (setupMetrics).                                  *)
THEOREM JobsCorrect == Spec => []JobsInv
<1>1. Init => JobsInv
  BY InitTyped, InitTold, InitCount DEF JobsInv
<1>2. JobsInv /\ [Next]_vars => JobsInv'
  <2> SUFFICES ASSUME JobsInv, [Next]_vars PROVE JobsInv'
    OBVIOUS
  <2>1. TypeOK'
    <3>1. UNCHANGED vars => TypeOK'
      BY DEF vars, TypeOK, JobsInv
    <3> QED BY <3>1, StepTyped, TickTyped DEF JobsInv, Next
  <2> QED BY <2>1, CheckedStep, CountStep DEF JobsInv
<1> QED BY <1>1, <1>2, PTL DEF Spec

(* Types of the Jobs, for any configurations.                              *)
THEOREM JobsTyped == Spec => []TypeOK
<1>1. JobsInv => TypeOK
  BY DEF JobsInv
<1> QED BY <1>1, JobsCorrect, PTL

(* A verdict count that reached the gateway is not overwritten by a Job of *)
(* another type or second (setupMetrics' group per run), for any Jobs.     *)
THEOREM CountsStay == Spec => []CountSurvives
<1>1. JobsInv => CountSurvives
  BY DEF JobsInv
<1> QED BY <1>1, JobsCorrect, PTL

(* What preflight, the required arguments and the forwarding leave through *)
(* is what the scripts demand (pkg/preflight, buildClaudeEnv), for any     *)
(* configuration.                                                          *)
THEOREM RunnersWired == Spec => []RunnerIsWired
<1>1. JobsInv => RunnerIsWired
  <2> SUFFICES ASSUME JobsInv, NEW j \in JobIds, pc[j] = "run",
                      NEW s \in Uses(config[j])
               PROVE  /\ s \in config[j].grants
                      /\ \A v \in Demands(s) :
                           \/ v \in env[j]
                           \/ v = "KAFKA_BROKERS" /\ "TASK_ID" \notin config[j].values
    BY DEF RunnerIsWired
  <2>1. /\ Required \subseteq config[j].values
        /\ "TASK_ID" \in config[j].values => "KAFKA_BROKERS" \in config[j].values
        /\ Forwarded \cap config[j].values \subseteq env[j]
        /\ Preflight(config[j])
    BY DEF JobsInv, Checked, Told
  <2>2. CASE config[j].type = "collector"
    BY <2>1, <2>2 DEF Uses, Demands, Preflight, ValidateCollectorTools, Required, Forwarded
  <2>3. CASE config[j].type = "fix"
    BY <2>1, <2>3 DEF Uses, Demands, Preflight, ValidateRepoCloneTools
  <2>4. CASE config[j].type \in {"triage", "deep"}
    BY <2>1, <2>4 DEF Uses, Demands, Preflight, ValidateRepoCloneTools,
      ValidateSentryTools, ValidateJiraTools, WantsJira, Required, Forwarded, Jira
  <2> QED BY <2>2, <2>3, <2>4 DEF Uses
<1> QED BY <1>1, JobsCorrect, PTL

(* The scripts and the binary's own clients address one Sentry             *)
(* organization (validateSentryConfig, forwardSentryTarget, APIBaseURL,    *)
(* OrgOrDefault), for any configuration.                                   *)
THEOREM SentryIsOne == Spec => []OneSentry
<1>1. JobsInv => OneSentry
  <2> SUFFICES ASSUME JobsInv, NEW j \in JobIds, pc[j] = "run"
               PROVE  /\ ScriptOrg(target[j]) = OrgOrDefault(config[j].org)
                      /\ IsHost(Trim(config[j].url)) \/ Trim(config[j].url) = <<>> =>
                           ScriptBase(target[j]) = APIBaseURL(config[j].url)
                      /\ (target[j].url = <<>>) = (target[j].org = <<>>)
    BY DEF OneSentry
  <2>1. /\ target[j] = ForwardSentryTarget(config[j])
        /\ Paired(config[j])
    BY DEF JobsInv, Checked, Told
  <2>2. ScriptOrg(target[j]) = OrgOrDefault(config[j].org)
    BY <2>1 DEF ForwardSentryTarget, ScriptOrg, OrElse, OrgOrDefault
  <2>3. (target[j].url = <<>>) = (target[j].org = <<>>)
    BY <2>1 DEF ForwardSentryTarget, Paired
  <2>4. CASE Trim(config[j].url) = <<>>
    BY <2>1, <2>2, <2>3, <2>4
    DEF ForwardSentryTarget, ScriptBase, OrElse, APIBaseURL, DefaultBase, IsHost
  <2>5. CASE IsHost(Trim(config[j].url))
    <3> DEFINE u == Trim(config[j].url)
    <3>1. u \in Seq(STRING)
      BY ConfigTyped, TrimTyped DEF JobsInv, TypeOK
    <3>2. u # <<>> /\ ~EndsIn(u, "") /\ ~EndsIn(u, "api/0")
      <4>1. Len(u) = 1 /\ u[Len(u)] \notin {"", "api/0"}
        BY <2>5 DEF IsHost
      <4>2. u # <<>>
        BY <3>1, <4>1, OneSegment
      <4> QED BY <4>1, <4>2 DEF EndsIn
    <3>3. APIBaseURL(config[j].url) = Append(u, "api/0")
      BY <3>2 DEF APIBaseURL, TrimSuffix
    <3>4. target[j].url = u
      BY <2>1 DEF ForwardSentryTarget
    <3> QED BY <2>2, <2>3, <3>2, <3>3, <3>4 DEF ScriptBase, OrElse
  <2> QED BY <2>2, <2>3, <2>4, <2>5
<1> QED BY <1>1, JobsCorrect, PTL
=============================================================================
