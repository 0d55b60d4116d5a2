--------------------------- MODULE CollectorProofs ---------------------------
(* What is proved of Collector: the line in the result file is this Job's   *)
(* and true of Kafka and the vault, so a completed collector task is        *)
(* completed on what was observed.                                          *)
EXTENDS Collector, TLAPS

(* A line that is sound stays so while commands are sent and consumed:      *)
(* neither Kafka and the vault together nor the vault alone loses any.     *)
LEMMA SoundStays ==
  ASSUME NEW line \in Lines, Sound(line),
         vault \subseteq vault', queue \cup vault \subseteq queue' \cup vault'
  PROVE  /\ line.published \subseteq queue' \cup vault'
         /\ line.expected \subseteq line.fetched
         /\ line.landed \subseteq line.fetched \cap vault'
         /\ line.observed => line.fetched \subseteq vault' \cup line.expected
BY DEF Sound, Lines

(* An empty line says nothing.                                             *)
LEMMA NoRunIsLine == NoRun \in Lines
BY DEF NoRun, Lines

(* With no step running and no line gathered the invariant holds at once.   *)
LEMMA InitInv == Init => CollectorInv
<1> SUFFICES ASSUME Init PROVE CollectorInv
  OBVIOUS
<1>1. TypeOK
  <2>1. file \in Lines \cup {NoLine} /\ run \in Lines
    BY NoRunIsLine DEF Init
  <2>2. attempt \in 0..Attempts /\ faults \in Nat
    BY CollectorAssumption DEF Init, CollectorAssumption
  <2>3. vault \subseteq Alerts /\ undated \subseteq Alerts
    BY CollectorAssumption DEF Init, CollectorAssumption
  <2> QED
    BY <2>1, <2>2, <2>3, Zenon DEF TypeOK, Init
<1>2. LineSound /\ LineEmpty /\ FileSound
  BY DEF LineSound, LineEmpty, FileSound, Init, NoRun
<1> QED
  BY <1>1, <1>2 DEF CollectorInv

(* Types are kept by the script's steps; Poll stops at the bound.           *)
LEMMA ScriptTypes == ASSUME TypeOK, Script PROVE TypeOK'
<1> USE CollectorAssumption DEF CollectorAssumption, TypeOK, Aside, At, Fault, Lines,
       NoScript, gathered, world
<1>1. CASE Start
  BY <1>1 DEF Start
<1>2. CASE Fetch
  BY <1>2 DEF Fetch
<1>3. CASE List
  <2>1. run' \in Lines
    <3>1. CASE run' = [run EXCEPT !.expected = run.fetched \ vault]
      BY <3>1
    <3>2. CASE run' = [run EXCEPT !.observed = FALSE]
      BY <3>2
    <3> QED BY <1>3, <3>1, <3>2 DEF List
  <2>2. script' \in {"population", "publish"} /\ todo' \subseteq Alerts
    BY <1>3 DEF List
  <2>3. faults' \in Nat
    BY <1>3 DEF List
  <2> QED
    BY <1>3, <2>1, <2>2, <2>3 DEF List
<1>4. CASE Population
  <2>1. run' \in Lines
    BY <1>4 DEF Population, Unobserved
  <2>2. faults' \in Nat
    BY <1>4 DEF Population
  <2> QED
    BY <1>4, <2>1, <2>2 DEF Population
<1>5. CASE CountPublished \/ CreateTasksFails
  BY <1>5 DEF CountPublished, CreateTasksFails, Published
<1>6. CASE Poll
  <2>1. run' \in Lines
    <3>1. CASE run' = [run EXCEPT !.landed = run.expected \cap vault]
      BY <3>1
    <3>2. CASE run' = [run EXCEPT !.observed = FALSE]
      BY <3>2
    <3> QED BY <1>6, <3>1, <3>2 DEF Poll
  <2>2. attempt' \in 0..Attempts
    BY <1>6 DEF Poll
  <2>3. faults' \in Nat /\ script' \in {"poll", "write"}
    BY <1>6 DEF Poll
  <2> QED
    BY <1>6, <2>1, <2>2, <2>3 DEF Poll
<1>7. CASE Write
  BY <1>7, NoRunIsLine DEF Write, jobs
<1>8. ASSUME NEW a \in Alerts, Publish(a) PROVE TypeOK'
  BY <1>8 DEF Publish
<1> QED
  BY <1>1, <1>2, <1>3, <1>4, <1>5, <1>6, <1>7, <1>8 DEF Script

(* Types are kept by the step, the world and every failure.                 *)
LEMMA OtherTypes ==
  ASSUME TypeOK,
         \/ ScriptDies \/ Job \/ AgentStops \/ Crash
         \/ Sentry \/ NextDay \/ Reopen
         \/ \E a \in Alerts : Materialize(a) \/ Anew(a)
         \/ UNCHANGED vars
  PROVE  TypeOK'
<1> USE NoRunIsLine, CollectorAssumption
    DEF CollectorAssumption, TypeOK, world, jobs, gathered, Fault, NoScript
<1>1. CASE ScriptDies
  BY <1>1 DEF ScriptDies, Aside
<1>2. CASE Job
  <2>1. CASE Dispatch
    BY <2>1 DEF Dispatch
  <2>2. CASE Clear
    <3>1. fresh' \in BOOLEAN /\ section' \in BOOLEAN
      BY <2>2, Zenon DEF Clear
    <3>2. faults' \in Nat
      BY <2>2 DEF Clear
    <3> QED
      BY <2>2, <3>1, <3>2 DEF Clear
  <2>3. CASE Answer
    <3>1. section' \in BOOLEAN
      BY <2>3, Zenon DEF Answer
    <3>2. faults' \in Nat
      BY <2>3 DEF Answer
    <3> QED
      BY <2>3, <3>1, <3>2 DEF Answer
  <2> QED
    BY <1>2, <2>1, <2>2, <2>3 DEF Job
<1>3. CASE AgentStops \/ Crash
  BY <1>3 DEF AgentStops, Crash
<1>4. CASE Sentry
  <2>1. active' \subseteq Alerts
    BY <1>4 DEF Sentry
  <2> QED
    BY <1>4, <2>1 DEF Sentry
<1>5. CASE NextDay \/ Reopen
  <2>1. section' \in BOOLEAN
    BY <1>5, Zenon DEF NextDay, Reopen
  <2>2. faults' \in Nat
    BY <1>5 DEF NextDay, Reopen
  <2> QED
    BY <1>5, <2>1, <2>2 DEF NextDay, Reopen
<1>6. ASSUME NEW a \in Alerts, Materialize(a) \/ Anew(a) PROVE TypeOK'
  BY <1>6 DEF Materialize, Anew, Others
<1>7. CASE UNCHANGED vars
  BY <1>7 DEF vars
<1> QED
  BY <1>1, <1>2, <1>3, <1>4, <1>5, <1>6, <1>7

(* The script keeps the line it gathers sound, and writes only such a line. *)
LEMMA ScriptSound ==
  ASSUME CollectorInv, Script
  PROVE  LineSound' /\ LineEmpty' /\ FileSound'
<1> USE DEF CollectorInv, LineSound, LineEmpty, FileSound, TypeOK, Aside, At, Lines,
       Sound, NoScript, NoRun, gathered
<1>1. CASE Start
  BY <1>1 DEF Start
<1>2. CASE Fetch
  BY <1>2 DEF Fetch
<1>3. CASE List
  BY <1>3 DEF List
<1>4. CASE Population
  BY <1>4 DEF Population, Unobserved
<1>5. CASE CountPublished \/ CreateTasksFails
  BY <1>5 DEF CountPublished, CreateTasksFails, Published
<1>6. CASE Poll
  BY <1>6 DEF Poll
<1>7. CASE Write
  BY <1>7 DEF Write, world, jobs
<1>8. ASSUME NEW a \in Alerts, Publish(a)
      PROVE  LineSound' /\ LineEmpty' /\ FileSound'
  BY <1>8 DEF Publish
<1> QED
  BY <1>1, <1>2, <1>3, <1>4, <1>5, <1>6, <1>7, <1>8 DEF Script

(* Whatever happens beside the script leaves both lines sound; Clear is     *)
(* what makes FileSound hold when the step begins.                         *)
LEMMA OtherSound ==
  ASSUME CollectorInv,
         \/ ScriptDies \/ Job \/ AgentStops \/ Crash
         \/ Sentry \/ NextDay \/ Reopen
         \/ \E a \in Alerts : Materialize(a) \/ Anew(a)
         \/ UNCHANGED vars
  PROVE  LineSound' /\ LineEmpty' /\ FileSound'
<1> USE DEF CollectorInv, LineSound, LineEmpty, FileSound, world, jobs, gathered, Sound,
       NoScript, NoRun
<1>1. CASE ScriptDies
  BY <1>1 DEF ScriptDies, Aside
<1>2. CASE Job
  BY <1>2 DEF Job, Dispatch, Clear, Answer
<1>3. CASE AgentStops \/ Crash
  BY <1>3 DEF AgentStops, Crash
<1>4. CASE Sentry \/ NextDay \/ Reopen
  BY <1>4 DEF Sentry, NextDay, Reopen
<1>5. ASSUME NEW a \in Alerts, Materialize(a)
      PROVE  LineSound' /\ LineEmpty' /\ FileSound'
  <2>1. vault \subseteq vault' /\ queue \cup vault \subseteq queue' \cup vault'
    BY <1>5 DEF Materialize
  <2>2. UNCHANGED <<step, script, run, file, fresh>>
    BY <1>5 DEF Materialize
  <2>3. file \in Lines \cup {NoLine} /\ run \in Lines
    BY DEF TypeOK
  <2> QED
    BY <2>1, <2>2, <2>3, SoundStays
<1>6. ASSUME NEW a \in Alerts, Anew(a)
      PROVE  LineSound' /\ LineEmpty' /\ FileSound'
  BY <1>6 DEF Anew
<1>7. CASE UNCHANGED vars
  BY <1>7 DEF vars
<1> QED
  BY <1>1, <1>2, <1>3, <1>4, <1>5, <1>6, <1>7

LEMMA NextInv == CollectorInv /\ [Next]_vars => CollectorInv'
<1> SUFFICES ASSUME CollectorInv, [Next]_vars PROVE CollectorInv'
  OBVIOUS
<1>1. TypeOK
  BY DEF CollectorInv
<1>2. CASE Script
  BY <1>1, <1>2, ScriptTypes, ScriptSound DEF CollectorInv
<1>3. CASE \/ ScriptDies \/ Job \/ AgentStops \/ Crash
           \/ Sentry \/ NextDay \/ Reopen
           \/ \E a \in Alerts : Materialize(a) \/ Anew(a)
           \/ UNCHANGED vars
  BY <1>1, <1>3, OtherTypes, OtherSound DEF CollectorInv
<1> QED
  BY <1>2, <1>3 DEF Next

(* The result file of a running step is this Job's and true of Kafka and    *)
(* the vault, for any alerts, poll bound and number of faults.              *)
THEOREM CollectorCorrect == Spec => []CollectorInv
BY InitInv, NextInv, PTL DEF Spec

(* Types of the collector; the vault is never polled past the bound.        *)
THEOREM CollectorTyped == Spec => []TypeOK
<1>1. CollectorInv => TypeOK
  BY DEF CollectorInv
<1> QED
  BY <1>1, CollectorCorrect, PTL

(* A task is completed only by Answer, which Healthy guards: from a sound   *)
(* line that is healthy follows what SuccessIsObserved asks.                *)
LEMMA HealthySeen ==
  ASSUME NEW line \in Lines, Sound(line), Healthy(line), line.fetched # {}
  PROVE  /\ line.published # {}
         /\ line.published \subseteq queue \cup vault
         /\ line.fetched \cap vault # {}
<1>1. CASE line.expected = {}
  <2>1. line.fetched \subseteq vault
    BY <1>1 DEF Sound, Healthy
  <2> QED
    BY <2>1 DEF Sound, Healthy
<1>2. CASE line.expected # {}
  <2>1. line.landed # {} /\ line.landed \subseteq line.fetched \cap vault
    BY <1>2 DEF Sound, Healthy
  <2> QED
    BY <2>1 DEF Sound, Healthy
<1> QED
  BY <1>1, <1>2

(* A collector task is only completed on what this Job's own script saw.    *)
THEOREM SuccessSeen == Spec => SuccessIsObserved
<1> DEFINE Step ==
      task = "open" /\ task' = "completed" =>
        /\ fresh
        /\ file.fetched # {} =>
             /\ file.published # {} /\ file.published \subseteq queue \cup vault
             /\ file.fetched \cap vault # {}
<1>1. CollectorInv /\ [Next]_vars => [Step]_vars
  <2> SUFFICES ASSUME CollectorInv, Next, task = "open", task' = "completed"
               PROVE  Step
    OBVIOUS
  <2>1. Answer /\ Healthy(file)
    BY DEF Next, Script, Job, Start, Fetch, List, Population, CountPublished,
           CreateTasksFails, Published, Poll, Write, Publish, ScriptDies,
           Dispatch, Clear, Answer, AgentStops, Crash, Sentry, NextDay, Reopen,
           Materialize, Anew, Aside, jobs
  <2>2. step = "inner" /\ file # NoLine
    BY <2>1 DEF Answer, Healthy
  <2>3. fresh /\ Sound(file) /\ file \in Lines
    BY <2>2 DEF CollectorInv, FileSound, TypeOK
  <2> QED
    BY <2>1, <2>3, HealthySeen
<1> QED
  BY <1>1, CollectorCorrect, PTL DEF Spec, SuccessIsObserved

-----------------------------------------------------------------------------
(***************************************************************************)
(* A Job in which no call fails sends everything it fetched and can date.  *)
(***************************************************************************)

(* What was fetched has been sent or is still to be; after the publish it   *)
(* has been.                                                               *)
SentOrToDo ==
  faults = 0 /\ run.fetched \cap undated = {} =>
    /\ script \in {"population", "publish"} =>
         todo \subseteq run.fetched /\ run.fetched \subseteq run.published \cup todo
    /\ script \in {"poll", "write"} => run.fetched \subseteq run.published

(* And so for the line it has left in the file.                             *)
FileSent ==
  faults = 0 /\ fresh /\ file # NoLine /\ file.fetched \cap undated = {} =>
    file.fetched \subseteq queue \cup vault

LEMMA SentOrToDoStep ==
  ASSUME TypeOK, SentOrToDo, Next \/ UNCHANGED vars, faults' = 0
  PROVE  faults = 0 /\ SentOrToDo'
<1>0. faults = 0
  BY DEF TypeOK, Next, Script, Start, Fetch, List, Population, CountPublished,
    CreateTasksFails, Poll, Write, Publish, ScriptDies, Job, Dispatch, Clear, Answer,
    AgentStops, Crash, Sentry, NextDay, Reopen, Materialize, Anew, Fault, vars
<1>1. ~(faults' = faults + 1)
  BY <1>0
<1> USE <1>0, <1>1 DEF SentOrToDo, TypeOK, Lines, Fault
<1>2. CASE Start \/ Fetch
  BY <1>2 DEF Start, Fetch, At, Aside, world, gathered
<1>3. CASE List
  BY <1>3 DEF List, At, Aside, world
<1>4. CASE Population
  BY <1>4 DEF Population, Unobserved, At, Aside, world
<1>5. ASSUME NEW a \in Alerts, Publish(a) PROVE SentOrToDo'
  BY <1>5 DEF Publish, At, Aside, world
<1>6. CASE CountPublished \/ CreateTasksFails
  BY <1>6 DEF CountPublished, CreateTasksFails, Published, At, Aside, world
<1>7. CASE Poll
  BY <1>7 DEF Poll, Aside, world
<1>8. CASE Write \/ ScriptDies
  BY <1>8 DEF Write, ScriptDies, NoScript, NoRun, Aside, world, jobs
<1>9. CASE Job \/ AgentStops \/ Crash
  BY <1>9 DEF Job, Dispatch, Clear, Answer, AgentStops, Crash, NoScript, NoRun, world,
    gathered
<1>10. CASE Sentry \/ NextDay \/ Reopen \/ UNCHANGED vars
  BY <1>10 DEF Sentry, NextDay, Reopen, world, gathered, vars
<1>11. ASSUME NEW a \in Alerts, Materialize(a) \/ Anew(a) PROVE SentOrToDo'
  BY <1>11 DEF Materialize, Anew, world, gathered
<1> QED
  BY <1>2, <1>3, <1>4, <1>5, <1>6, <1>7, <1>8, <1>9, <1>10, <1>11 DEF Next, Script

LEMMA FileSentStep ==
  ASSUME CollectorInv, SentOrToDo, FileSent, Next \/ UNCHANGED vars, faults' = 0, faults = 0
  PROVE  FileSent'
<1>1. CASE Write
  <2>1. file' = run /\ script = "write" /\ UNCHANGED <<queue, vault, undated>>
    BY <1>1 DEF Write, world
  <2> QED
    BY <2>1 DEF FileSent, SentOrToDo, CollectorInv, LineSound, Sound
<1>2. CASE ~Write
  <2>1. queue \cup vault \subseteq queue' \cup vault' \/ file' = NoLine
    BY <1>2 DEF Next, Script, Start, Fetch, List, Population, CountPublished,
      CreateTasksFails, Published, Poll, Publish, ScriptDies, Job, Dispatch, Clear,
      Answer, AgentStops, Crash, Sentry, NextDay, Reopen, Materialize, Anew, Aside, world, vars
  <2>2. \/ file' = NoLine
        \/ file' = file /\ fresh' = fresh
    BY <1>2 DEF Next, Script, Start, Fetch, List, Population, CountPublished,
      CreateTasksFails, Published, Poll, Publish, ScriptDies, Job, Dispatch, Clear,
      Answer, AgentStops, Crash, Sentry, NextDay, Reopen, Materialize, Anew, Aside, world, vars
  <2>3. undated' = undated
    BY <1>2 DEF Next, Script, Start, Fetch, List, Population, CountPublished,
      CreateTasksFails, Published, Poll, Publish, ScriptDies, Job, Dispatch, Clear,
      Answer, AgentStops, Crash, Sentry, NextDay, Reopen, Materialize, Anew, Aside, world, vars
  <2> QED
    BY <2>1, <2>2, <2>3 DEF FileSent
<1> QED
  BY <1>1, <1>2

(* As long as no call fails and no Job is lost, a run that can date its      *)
(* alerts leaves none behind: every one it has fetched has a command on     *)
(* Kafka or a task, whatever the listings said and in whatever order the    *)
(* controller answers; an empty vault that made the run unobserved included *)
(* (sentry-create-tasks.sh sends first and judges afterwards).              *)
THEOREM NothingMissed == Spec => []FileSent
<1> DEFINE J == CollectorInv /\ (faults = 0 => SentOrToDo /\ FileSent)
<1>1. Init => J
  BY InitInv DEF Init, SentOrToDo, FileSent
<1>2. J /\ [Next]_vars => J'
  <2> SUFFICES ASSUME J, Next \/ UNCHANGED vars, faults' = 0
               PROVE  SentOrToDo' /\ FileSent'
    BY NextInv
  <2>1. faults = 0 /\ SentOrToDo'
    BY SentOrToDoStep DEF CollectorInv, SentOrToDo
  <2> QED
    BY <2>1, FileSentStep
<1>3. J => FileSent
  BY DEF FileSent
<1> QED
  BY <1>1, <1>2, <1>3, PTL DEF Spec

-----------------------------------------------------------------------------
(***************************************************************************)
(* What there is to say of progress without fairness.                      *)
(***************************************************************************)

(* The script only runs inside the step, and the step for an open task.     *)
ScriptInStep ==
  /\ script \notin {"unused", "off"} => step = "inner"
  /\ step # "idle" => task = "open"

LEMMA ScriptInStepHolds == Spec => []ScriptInStep
<1>1. Init => ScriptInStep
  BY DEF Init, ScriptInStep
<1>2. ASSUME ScriptInStep, Next \/ UNCHANGED vars
      PROVE  ScriptInStep'
  <2> USE DEF ScriptInStep
  <2>1. CASE Start \/ Fetch \/ List \/ Population \/ CountPublished \/ CreateTasksFails \/ Poll
    BY <1>2, <2>1 DEF Start, Fetch, List, Population, CountPublished, CreateTasksFails,
      Published, Poll, At, Aside
  <2>2. ASSUME NEW a \in Alerts, Publish(a) \/ Materialize(a) \/ Anew(a)
        PROVE  ScriptInStep'
    BY <1>2, <2>2 DEF Publish, Materialize, Anew, At, Aside, jobs
  <2>3. CASE Write \/ ScriptDies \/ Job \/ AgentStops \/ Crash
    BY <1>2, <2>3 DEF Write, ScriptDies, Job, Dispatch, Clear, Answer, AgentStops, Crash,
      NoScript, Aside, jobs
  <2>4. CASE Sentry \/ NextDay \/ Reopen \/ UNCHANGED vars
    BY <1>2, <2>4 DEF Sentry, NextDay, Reopen, jobs, vars
  <2> QED
    BY <1>2, <2>1, <2>2, <2>3, <2>4 DEF Next, Script
<1> QED
  BY <1>1, <1>2, PTL DEF Spec

(* How far a Job is from ending its task; publishing and polling stay at     *)
(* their place, but not for ever.                                          *)
Places == [unused |-> 9, fetch |-> 8, list |-> 7, population |-> 6, publish |-> 5,
           poll |-> 4, write |-> 3, off |-> 2]
Place ==
  CASE task # "open" -> 0
    [] task = "open" /\ step = "idle" -> 11
    [] task = "open" /\ step = "clear" -> 10
    [] OTHER -> Places[script]

Moves ==
  \/ Place' < Place
  \/ Place' = Place /\ script = "publish" /\ todo' \subseteq todo /\ todo' # todo
  \/ Place' = Place /\ script = "poll" /\ attempt < attempt' /\ attempt' <= Attempts

LEMMA PlacesFacts ==
  /\ Places["unused"] = 9 /\ Places["fetch"] = 8 /\ Places["list"] = 7
  /\ Places["population"] = 6 /\ Places["publish"] = 5 /\ Places["poll"] = 4
  /\ Places["write"] = 3 /\ Places["off"] = 2
BY DEF Places

LEMMA ScriptMoves ==
  ASSUME TypeOK, ScriptInStep, Script, UNCHANGED faults
  PROVE  Moves
<1>0. ~Fault
  BY DEF Fault, TypeOK
<1> USE <1>0, PlacesFacts DEF ScriptInStep, Place, Moves, Aside, At
<1> HIDE DEF Places
<1>1. CASE Start \/ Fetch
  BY <1>1 DEF Start, Fetch
<1>2. CASE List
  BY <1>2 DEF List
<1>3. CASE Population
  BY <1>3 DEF Population
<1>4. ASSUME NEW a \in Alerts, Publish(a) PROVE Moves
  BY <1>4 DEF Publish
<1>5. CASE CountPublished \/ CreateTasksFails
  BY <1>5 DEF CountPublished, CreateTasksFails, Published
<1>6. CASE Poll
  BY <1>6, CollectorAssumption DEF Poll, CollectorAssumption, TypeOK
<1>7. CASE Write
  BY <1>7 DEF Write, NoScript, jobs
<1> QED
  BY <1>1, <1>2, <1>3, <1>4, <1>5, <1>6, <1>7 DEF Script

(* So does a script that dies of an alert it cannot date.                   *)
LEMMA DeathMoves ==
  ASSUME TypeOK, ScriptInStep, ScriptDies, UNCHANGED faults
  PROVE  Moves
<1>1. ~Fault
  BY DEF Fault, TypeOK
<1>2. script = "publish" /\ script' = "off" /\ UNCHANGED <<task, step>>
  BY <1>1 DEF ScriptDies, NoScript, Aside
<1> QED
  BY <1>2, PlacesFacts DEF ScriptInStep, Place, Moves

LEMMA JobMoves ==
  ASSUME TypeOK, ScriptInStep, Job, UNCHANGED faults
  PROVE  Moves
<1>0. ~Fault /\ script \in DOMAIN Places
  BY DEF Fault, TypeOK, Places
<1> USE <1>0, PlacesFacts DEF ScriptInStep, Place, Moves
<1>1. CASE Dispatch
  BY <1>1 DEF Dispatch
<1>2. CASE Clear
  BY <1>2 DEF Clear, NoScript
<1>3. CASE Answer
  BY <1>3 DEF Answer
<1> QED
  BY <1>1, <1>2, <1>3 DEF Job

(* No churn: while no call fails, every step of a Job and of the script in   *)
(* it brings the collector's task nearer to its end, the vault is read at   *)
(* most Attempts times, and what else goes on does not set it back: alerts  *)
(* come and go and tasks appear beside it.                                 *)
THEOREM NoChurn ==
  Spec => [][UNCHANGED faults =>
               \/ Moves
               \/ UNCHANGED <<jobs, script, todo, attempt>>
               \/ task # "open" /\ NextDay]_vars
<1> DEFINE Goes ==
      UNCHANGED faults =>
        \/ Moves
        \/ UNCHANGED <<jobs, script, todo, attempt>>
        \/ task # "open" /\ NextDay
<1>1. TypeOK /\ ScriptInStep /\ [Next]_vars => [Goes]_vars
  <2> SUFFICES ASSUME TypeOK, ScriptInStep, Next, UNCHANGED faults
               PROVE  Goes
    OBVIOUS
  <2>1. CASE Script \/ Job
    BY <2>1, ScriptMoves, JobMoves
  <2>2. CASE AgentStops \/ Crash \/ Reopen
    BY <2>2 DEF TypeOK, AgentStops, Crash, Reopen, Fault
  <2>3. CASE ScriptDies
    BY <2>3, DeathMoves
  <2>4. CASE Sentry \/ \E a \in Alerts : Materialize(a) \/ Anew(a)
    BY <2>4 DEF Sentry, Materialize, Anew, gathered
  <2>5. CASE NextDay
    BY <2>5 DEF NextDay
  <2> QED
    BY <2>1, <2>2, <2>3, <2>4, <2>5 DEF Next
<1> QED
  BY <1>1, CollectorTyped, ScriptInStepHolds, PTL DEF Spec
=============================================================================
