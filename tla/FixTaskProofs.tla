---------------------------- MODULE FixTaskProofs ----------------------------
(***************************************************************************)
(* What a fix task says of itself is true, for any repositories and any    *)
(* number of faults and reopenings.  The properties alone are not          *)
(* inductive: the task file is replaced by a Job's copy, so the copy, and  *)
(* what the Job is about to write into it, must be known to be right first. *)
(***************************************************************************)
EXTENDS FixTask, TLAPS

Undecided == {"parse", "trace", "resolve", "write", "record"}

(* A Job that may still file or record works on a task without a record.   *)
NothingYet == pc \in Undecided => doc = saved /\ saved.result = "none" /\ saved.blocks = 0

(* The writer is called on fresh evidence the Job has read itself.         *)
WriteGrounded ==
  pc = "write" =>
    /\ resolved \in Resolutions /\ resolved.fresh
    /\ Verified(resolved) /\ Buildable(resolved)

(* What is about to be recorded happened.                                  *)
OutcomeTrue ==
  pc = "record" => outcome # "none" /\ (outcome = "filed" => filed # {})

(* The copy the proposal rule reads has the task's record, or this Job's,  *)
(* or none because the context is done.                                    *)
CopyRecorded ==
  pc = "evaluate" => /\ doc.blocks = 0 /\ saved.blocks = 0
                     /\ doc.result # "none" \/ cancelled
                     /\ saved.result # "none" => doc.result = saved.result
                     /\ HasPull(doc) => filed # {}

(* The copy that is delivered.                                             *)
CopyDeliverable ==
  pc = "deliver" => /\ doc.result # "none" /\ doc.blocks <= 1
                    /\ doc.blocks > 0 => ~HasPull(doc)
                    /\ saved.result # "none" => doc.result = saved.result
                    /\ HasPull(doc) => filed # {}

(* A Job only runs for an open task.                                       *)
JobIsOpen == pc # "idle" => status = "open"

FixInv ==
  /\ TypeOK /\ JobIsOpen
  /\ NothingYet /\ WriteGrounded /\ OutcomeTrue /\ CopyRecorded /\ CopyDeliverable
  /\ CompletedIsRecorded /\ OneProposal /\ EitherPullOrProposal /\ FiledHonestly

-----------------------------------------------------------------------------
(* A Job that has ended leaves nothing behind that an invariant speaks of. *)
LEMMA NoJobFix ==
  ASSUME NoJob, saved' \in Docs
  PROVE  /\ pc' = "idle" /\ doc' \in Docs /\ frame' \in BOOLEAN
         /\ resolved' = NoRepo /\ outcome' \in Results
         /\ cancelled' \in BOOLEAN
         /\ JobIsOpen' /\ NothingYet' /\ WriteGrounded' /\ OutcomeTrue'
         /\ CopyRecorded' /\ CopyDeliverable'
<1>1. /\ pc' = "idle" /\ doc' \in Docs /\ frame' \in BOOLEAN
      /\ resolved' = NoRepo /\ outcome' \in Results /\ cancelled' \in BOOLEAN
  BY DEF NoJob, Results
<1> QED
  BY <1>1 DEF JobIsOpen, NothingYet, Undecided, WriteGrounded, OutcomeTrue,
    CopyRecorded, CopyDeliverable

(* Tasks arrive with the invariant.                                        *)
LEMMA InitFix == Init => FixInv
<1> SUFFICES ASSUME Init PROVE FixInv
  OBVIOUS
<1>1. saved \in Docs /\ saved.blocks = 0 /\ saved.result # "filed"
  BY DEF Init, Docs, Results
<1>2. TypeOK
  BY <1>1 DEF Init, TypeOK, Results, Calls
<1> QED
  BY <1>1, <1>2 DEF Init, FixInv, JobIsOpen, NothingYet, Undecided, WriteGrounded, OutcomeTrue,
    CopyRecorded, CopyDeliverable, CompletedIsRecorded, OneProposal,
    EitherPullOrProposal, FiledHonestly, HasPull

(* A Job that ends without a delivery changes nothing.                     *)
LEMMA IdleFix ==
  ASSUME FixInv, JobFails
  PROVE  FixInv'
<1>1. NoJob /\ UNCHANGED <<verdict, world, saved, status, faults, triggers, filed>>
  BY DEF JobFails, outside
<1>2. saved' \in Docs
  BY <1>1 DEF FixInv, TypeOK
<1>3. TypeOK'
  BY <1>1, <1>2, NoJobFix DEF FixInv, TypeOK
<1> QED
  BY <1>1, <1>2, <1>3, NoJobFix DEF FixInv, CompletedIsRecorded, OneProposal,
    EitherPullOrProposal, FiledHonestly, HasPull

(* A decision to record a no-op keeps the invariant.                       *)
LEMMA DecideFix ==
  ASSUME FixInv, NEW from \in Undecided, NEW result \in Results \ {"none", "filed"},
         Decide(from, result)
  PROVE  FixInv'
  BY DEF Decide, Goto, outside, FixInv, TypeOK, JobIsOpen, Calls, NothingYet, Undecided,
    WriteGrounded, OutcomeTrue, CopyRecorded, CopyDeliverable,
    CompletedIsRecorded, OneProposal, EitherPullOrProposal, FiledHonestly, HasPull

(* Every step of a Job keeps the invariant.                                *)
LEMMA JobFix ==
  ASSUME FixInv, Job
  PROVE  FixInv'
<1> USE DEF FixInv, Goto, outside, HasPull
<1>1. CASE Dispatch
  <2>1. saved \in Docs /\ saved.blocks \in Nat /\ doc' = saved
    BY <1>1 DEF Dispatch, TypeOK, Docs
  <2>2. TypeOK'
    BY <1>1, <2>1 DEF Dispatch, TypeOK, Calls, Results
  <2>3. /\ pc' \in {"nil", "evaluate", "parse"}
        /\ pc' = "evaluate" => saved.blocks = 0 /\ saved.result # "none"
        /\ pc' = "parse" => saved.blocks = 0 /\ saved.result = "none"
    BY <1>1, <2>1 DEF Dispatch, HasBlock
  <2> QED BY <1>1, <2>1, <2>2, <2>3 DEF Dispatch, JobIsOpen, NothingYet, Undecided,
        WriteGrounded, OutcomeTrue, CopyRecorded, CopyDeliverable,
        CompletedIsRecorded, OneProposal, EitherPullOrProposal, FiledHonestly
<1>2. CASE Abort
  BY <1>2, IdleFix DEF Abort
<1>3. CASE ParseVerdict
  <2>1. CASE JobFails
    BY <2>1, IdleFix
  <2>2. CASE Decide("parse", "skipped")
    BY <2>2, DecideFix DEF Undecided, Results
  <2>3. CASE ~JobFails /\ ~Decide("parse", "skipped")
    BY <1>3, <2>3 DEF ParseVerdict, TypeOK, JobIsOpen, Calls, NothingYet, Undecided,
      WriteGrounded, OutcomeTrue, CopyRecorded, CopyDeliverable,
      CompletedIsRecorded, OneProposal, EitherPullOrProposal, FiledHonestly
  <2> QED BY <2>1, <2>2, <2>3
<1>4. CASE ReadTrace
  <2>1. CASE JobFails
    BY <2>1, IdleFix
  <2>2. CASE Decide("trace", "skipped")
    BY <2>2, DecideFix DEF Undecided, Results
  <2>3. CASE ~JobFails /\ ~Decide("trace", "skipped")
    BY <1>4, <2>3 DEF ReadTrace, TypeOK, JobIsOpen, Calls, NothingYet, Undecided,
      WriteGrounded, OutcomeTrue, CopyRecorded, CopyDeliverable,
      CompletedIsRecorded, OneProposal, EitherPullOrProposal, FiledHonestly
  <2> QED BY <2>1, <2>2, <2>3
<1>5. CASE Resolve
  <2>1. CASE JobFails
    BY <2>1, IdleFix
  <2>2. CASE Decide("resolve", "skipped") \/ Decide("resolve", "stale")
    BY <2>2, DecideFix DEF Undecided, Results
  <2>3. CASE ~JobFails /\ ~Decide("resolve", "skipped") /\ ~Decide("resolve", "stale")
    <3>1. /\ pc = "resolve" /\ pc' = "write"
          /\ world.resolution \in Resolutions /\ world.resolution.fresh
          /\ Verified(world.resolution) /\ Buildable(world.resolution)
          /\ resolved' = world.resolution
          /\ UNCHANGED <<outside, doc, frame, outcome, cancelled, filed>>
      BY <1>5, <2>3 DEF Resolve
    <3> QED BY <3>1 DEF Verified, Buildable, TypeOK, JobIsOpen, Calls, NothingYet,
          Undecided, WriteGrounded, OutcomeTrue, CopyRecorded, CopyDeliverable,
          CompletedIsRecorded, OneProposal, EitherPullOrProposal, FiledHonestly
  <2> QED BY <2>1, <2>2, <2>3
<1>6. CASE WriteSpec
  <2>1. CASE JobFails
    BY <2>1, IdleFix
  <2>2. CASE Decide("write", "declined")
    BY <2>2, DecideFix DEF Undecided, Results
  <2>3. CASE ~JobFails /\ ~Decide("write", "declined")
    <3>1. /\ pc = "write" /\ Admission[resolved.repo] = "admitted"
          /\ pc' = "record" /\ outcome' = "filed"
          /\ filed' = filed \cup {Filing(resolved)}
          /\ UNCHANGED <<outside, doc, frame, resolved, cancelled>>
      BY <1>6, <2>3 DEF WriteSpec
    <3>2. /\ Filing(resolved).repo \in Repos /\ Filing(resolved).fresh
          /\ Filing(resolved).rule = "frame" => Filing(resolved).frame
          /\ Admission[Filing(resolved).repo] = "admitted"
          /\ Filing(resolved) \in [repo : Repos, rule : Rules,
                                   fresh : BOOLEAN, frame : BOOLEAN]
      BY <3>1 DEF Filing, WriteGrounded, Verified, Buildable, TypeOK, Resolutions
    <3>3. TypeOK'
      BY <3>1, <3>2 DEF TypeOK, Results, Calls
    <3>4. FiledHonestly'
      BY <3>1, <3>2 DEF FiledHonestly
    <3> QED BY <3>1, <3>3, <3>4 DEF JobIsOpen, NothingYet, Undecided, WriteGrounded,
          OutcomeTrue, CopyRecorded, CopyDeliverable, CompletedIsRecorded,
          OneProposal, EitherPullOrProposal
  <2> QED BY <2>1, <2>2, <2>3
<1>7. CASE Record
  BY <1>7 DEF Record, TypeOK, JobIsOpen, Docs, Results, Calls, NothingYet, Undecided,
    WriteGrounded, OutcomeTrue, CopyRecorded, CopyDeliverable,
    CompletedIsRecorded, OneProposal, EitherPullOrProposal, FiledHonestly
<1>8. CASE Evaluate
  <2>1. CASE JobFails
    BY <2>1, IdleFix
  <2>2. CASE ~JobFails
    <3>1. /\ pc = "evaluate" /\ ~cancelled /\ pc' = "deliver"
          /\ UNCHANGED <<outside, frame, resolved, outcome, cancelled, filed>>
          /\ \/ doc' = doc
             \/ Qualifies(doc) /\ doc' = [doc EXCEPT !.blocks = @ + 1]
      BY <1>8, <2>2 DEF Evaluate
    <3>2. doc.blocks = 0 /\ doc \in Docs
      BY <3>1 DEF CopyRecorded, TypeOK
    <3>3. /\ doc' \in Docs /\ doc'.blocks <= 1 /\ doc'.result = doc.result
          /\ doc'.blocks > 0 => doc.result # "filed"
      <4>1. CASE doc' = doc
        BY <4>1, <3>2
      <4>2. CASE Qualifies(doc) /\ doc' = [doc EXCEPT !.blocks = @ + 1]
        <5>1. doc.result # "filed" /\ doc.result \in Results
          BY <4>2, <3>2 DEF Qualifies, Docs
        <5>2. doc'.result = doc.result /\ doc'.blocks = 1 /\ doc' \in Docs
          BY <4>2, <3>2 DEF Docs
        <5> QED BY <5>1, <5>2
      <4> QED BY <4>1, <4>2, <3>1
    <3>4. TypeOK'
      BY <3>1, <3>3 DEF TypeOK, Calls
    <3> QED BY <3>1, <3>3, <3>4 DEF JobIsOpen, NothingYet, Undecided, WriteGrounded,
          OutcomeTrue, CopyRecorded, CopyDeliverable, CompletedIsRecorded,
          OneProposal, EitherPullOrProposal, FiledHonestly
  <2> QED BY <2>1, <2>2
<1>9. CASE Deliver
  <2>1. NoJob /\ saved' = doc /\ status' = "completed"
        /\ UNCHANGED <<verdict, world, filed, faults, triggers>>
    BY <1>9 DEF Deliver
  <2>2. saved' \in Docs
    BY <2>1 DEF TypeOK
  <2>3. TypeOK'
    BY <2>1, <2>2, NoJobFix DEF TypeOK
  <2>4. /\ doc.result # "none" /\ doc.blocks <= 1
        /\ doc.blocks > 0 => ~HasPull(doc)
        /\ HasPull(doc) => filed # {}
    BY <1>9 DEF Deliver, CopyDeliverable
  <2>5. CompletedIsRecorded' /\ OneProposal' /\ EitherPullOrProposal' /\ FiledHonestly'
    BY <2>1, <2>4 DEF CompletedIsRecorded, OneProposal, EitherPullOrProposal, FiledHonestly
  <2> QED BY <2>1, <2>2, <2>3, <2>5, NoJobFix
<1>10. CASE DeliverNil
  <2>1. NoJob /\ status' = "failed"
        /\ UNCHANGED <<verdict, world, saved, filed, faults, triggers>>
    BY <1>10 DEF DeliverNil
  <2>2. saved' \in Docs
    BY <2>1 DEF TypeOK
  <2>3. TypeOK'
    BY <2>1, <2>2, NoJobFix DEF TypeOK
  <2>4. CompletedIsRecorded' /\ OneProposal' /\ EitherPullOrProposal' /\ FiledHonestly'
    BY <2>1 DEF CompletedIsRecorded, OneProposal, EitherPullOrProposal, FiledHonestly
  <2> QED BY <2>1, <2>2, <2>3, <2>4, NoJobFix
<1> HIDE DEF FixInv, Goto, outside, HasPull
<1> QED
  BY <1>1, <1>2, <1>3, <1>4, <1>5, <1>6, <1>7, <1>8, <1>9, <1>10 DEF Job

(* So do faults and people.                                                *)
LEMMA OutsideFix ==
  ASSUME FixInv, Crash \/ Cancel \/ Reopen \/ Change
  PROVE  FixInv'
<1> USE DEF FixInv, HasPull
<1>1. CASE Crash
  <2>0. /\ NoJob /\ faults' = faults + 1
        /\ UNCHANGED <<verdict, world, saved, status, triggers>>
    BY <1>1 DEF Crash, Fault
  <2>1. saved' \in Docs /\ faults' \in Nat
    BY <2>0 DEF TypeOK
  <2>2. /\ filed' \subseteq [repo : Repos, rule : Rules, fresh : BOOLEAN, frame : BOOLEAN]
        /\ FiledHonestly'
    <3>1. CASE filed' = filed
      BY <2>0, <3>1 DEF FiledHonestly, TypeOK
    <3>2. CASE filed' # filed
      <4>1. /\ pc = "write" /\ Admission[resolved.repo] = "admitted"
            /\ filed' = filed \cup {Filing(resolved)}
        BY <1>1, <3>2 DEF Crash
      <4>2. /\ Filing(resolved).repo \in Repos /\ Filing(resolved).fresh
            /\ Filing(resolved).rule = "frame" => Filing(resolved).frame
            /\ Admission[Filing(resolved).repo] = "admitted"
            /\ Filing(resolved) \in [repo : Repos, rule : Rules,
                                     fresh : BOOLEAN, frame : BOOLEAN]
        BY <4>1 DEF Filing, WriteGrounded, Verified, Buildable, TypeOK, Resolutions
      <4> QED BY <2>0, <4>1, <4>2 DEF FiledHonestly, TypeOK
    <3> QED BY <3>1, <3>2
  <2>3. TypeOK'
    BY <2>0, <2>1, <2>2, NoJobFix DEF TypeOK
  <2>4. CompletedIsRecorded' /\ OneProposal' /\ EitherPullOrProposal'
    BY <2>0 DEF CompletedIsRecorded, OneProposal, EitherPullOrProposal
  <2> QED BY <2>0, <2>1, <2>2, <2>3, <2>4, NoJobFix
<1>2. CASE Cancel
  BY <1>2 DEF Cancel, Fault, TypeOK, JobIsOpen, NothingYet, WriteGrounded, Verified,
    Buildable, OutcomeTrue, CopyRecorded, CopyDeliverable, CompletedIsRecorded, OneProposal,
    EitherPullOrProposal, FiledHonestly
<1>3. CASE Reopen
  BY <1>3 DEF Reopen, TypeOK, JobIsOpen, NothingYet, WriteGrounded, Verified,
    Buildable, OutcomeTrue, CopyRecorded, CopyDeliverable, CompletedIsRecorded, OneProposal,
    EitherPullOrProposal, FiledHonestly
<1>4. CASE Change
  BY <1>4 DEF Change, Fault, TypeOK, JobIsOpen, NothingYet, WriteGrounded, Verified,
    Buildable, OutcomeTrue, CopyRecorded, CopyDeliverable, CompletedIsRecorded, OneProposal,
    EitherPullOrProposal, FiledHonestly
<1> HIDE DEF FixInv, HasPull
<1> QED BY <1>1, <1>2, <1>3, <1>4

(* A stutter changes nothing.                                              *)
LEMMA StutterFix ==
  ASSUME FixInv, UNCHANGED vars
  PROVE  FixInv'
  BY DEF vars, FixInv, TypeOK, JobIsOpen, NothingYet, WriteGrounded, Verified,
    Buildable, OutcomeTrue, CopyRecorded, CopyDeliverable, CompletedIsRecorded, OneProposal,
    EitherPullOrProposal, FiledHonestly, HasPull

-----------------------------------------------------------------------------
(* The invariant of a fix task (pkg/steps/fix.go, jira-proposal.go).       *)
THEOREM FixCorrect == Spec => []FixInv
<1>1. FixInv /\ [Next]_vars => FixInv'
  BY JobFix, OutsideFix, StutterFix DEF Next
<1> QED BY <1>1, InitFix, PTL DEF Spec

(* Types; the writer is only ever called with a repository.                *)
THEOREM FixTyped == Spec => []TypeOK
<1>1. FixInv => TypeOK
  BY DEF FixInv
<1> QED BY <1>1, FixCorrect, PTL

(* A completed fix task says what became of it (recordResult and the       *)
(* proposal rule's parser), however its Jobs were interrupted.             *)
THEOREM CompletedRecorded == Spec => []CompletedIsRecorded
<1>1. FixInv => CompletedIsRecorded
  BY DEF FixInv
<1> QED BY <1>1, FixCorrect, PTL

(* One alert gets at most one Jira proposal (hasJiraProposalBlock).        *)
THEOREM ProposedOnce == Spec => []OneProposal
<1>1. FixInv => OneProposal
  BY DEF FixInv
<1> QED BY <1>1, FixCorrect, PTL

(* A task file never holds a pull request and a proposal (fixResultPRURL). *)
THEOREM PullOrProposal == Spec => []EitherPullOrProposal
<1>1. FixInv => EitherPullOrProposal
  BY DEF FixInv
<1> QED BY <1>1, FixCorrect, PTL

(* Every spec was filed on fresh evidence read by the Job that filed it    *)
(* (verifyMechanism), and a record of a filed spec is true.                *)
THEOREM FiledOnEvidence == Spec => []FiledHonestly
<1>1. FixInv => FiledHonestly
  BY DEF FixInv
<1> QED BY <1>1, FixCorrect, PTL

(* A recorded result is final: no later Job changes it or files again      *)
(* (jiraProposalStep.Run leaves out a fix step that has its section).      *)
THEOREM ResultStays == Spec => ResultIsFinal
<1>1. FixInv /\ [Next]_vars =>
        [saved.result # "none" =>
           saved'.result = saved.result /\ filed' = filed]_vars
  <2> SUFFICES ASSUME FixInv, [Next]_vars, saved.result # "none"
               PROVE  saved'.result = saved.result /\ filed' = filed
    OBVIOUS
  <2>1. pc \notin Undecided
    BY DEF FixInv, NothingYet
  <2>2. pc = "deliver" => doc.result = saved.result
    BY DEF FixInv, CopyDeliverable
  <2>3. CASE Job
    BY <2>1, <2>2, <2>3 DEF Job, Dispatch, Abort, ParseVerdict, ReadTrace, Resolve,
      WriteSpec, Record, Evaluate, Deliver, DeliverNil, JobFails, Decide, Goto,
      outside, Undecided
  <2>4. CASE Crash \/ Cancel \/ Reopen \/ Change \/ UNCHANGED vars
    BY <2>1, <2>4 DEF Crash, Cancel, Reopen, Change, vars, Undecided
  <2> QED BY <2>3, <2>4 DEF Next
<1> QED BY <1>1, FixCorrect, PTL DEF Spec, ResultIsFinal

-----------------------------------------------------------------------------
(* A Job that ends without a delivery, on a task it can read, had its context *)
(* done or met one of the errors of Errs.                                  *)
LEMMA FailuresAreExcused ==
  ASSUME FixInv, Readable, Job, JobFails, pc \in Calls,
         ~Errs
  PROVE  cancelled
  BY DEF NoJob, FixInv, Readable, Errs, Job, JobFails, Dispatch, Abort, ParseVerdict, ReadTrace,
    Resolve, WriteSpec, Record, Evaluate, Deliver, DeliverNil, Decide, Goto, Calls

(* The way back is never longer than two Jobs.                             *)
LEMMA PlacesFacts ==
  ASSUME TypeOK
  PROVE  /\ Places[pc] \in 1..8
         /\ pc = "idle" => Places[pc] = 8
         /\ pc # "idle" => Places[pc] \in 1..7
         /\ Places.idle = 8
  BY DEF TypeOK, Places, Calls

(* Every step of a Job that does not fail on purpose shortens it.           *)
LEMMA FixRankFalls ==
  ASSUME FixInv, FixInv', Job, Readable,
         ~Errs
  PROVE  Rank' < Rank
<1>1. /\ TypeOK /\ TypeOK' /\ cancelled \in BOOLEAN /\ cancelled' \in BOOLEAN
      /\ pc # "idle" => status = "open"
  BY DEF FixInv, TypeOK, JobIsOpen
<1>2. /\ Places[pc] \in 1..8 /\ (pc # "idle" => Places[pc] \in 1..7)
      /\ Places[pc'] \in 1..8 /\ (pc' # "idle" => Places[pc'] \in 1..7)
      /\ Places.idle = 8 /\ (pc = "idle" => Places[pc] = 8) /\ (pc' = "idle" => Places[pc'] = 8)
  BY <1>1, PlacesFacts DEF TypeOK, Calls, Places
<1>3. CASE Dispatch
  <2>1. status = "open" /\ status' = status /\ pc = "idle" /\ ~cancelled' /\ pc' # "idle"
    BY <1>3 DEF Dispatch, Goto, outside
  <2> QED BY <1>2, <2>1 DEF Rank
<1>4. CASE Deliver \/ DeliverNil
  <2>1. status = "open" /\ status' # "open"
    BY <1>1, <1>4 DEF Deliver, DeliverNil, Goto
  <2> QED BY <1>1, <1>2, <2>1 DEF Rank
<1>5. CASE ~Dispatch /\ ~Deliver /\ ~DeliverNil /\ JobFails
  <2>1. pc \in Calls
    BY <1>5 DEF NoJob, Job, JobFails, Abort, ParseVerdict, ReadTrace, Resolve, WriteSpec,
      Record, Evaluate, Decide, Goto, Calls
  <2>2. cancelled /\ pc # "idle" /\ pc' = "idle" /\ status' = status /\ status = "open"
    BY <1>1, <1>5, <2>1, FailuresAreExcused DEF NoJob, JobFails, outside, Calls
  <2> QED BY <1>2, <2>2 DEF Rank
<1>6. CASE ~Dispatch /\ ~Deliver /\ ~DeliverNil /\ ~JobFails
  <2>1. /\ status' = status /\ cancelled' = cancelled
        /\ \/ pc = "parse" /\ pc' \in {"trace", "record"}
           \/ pc = "trace" /\ pc' \in {"resolve", "record"}
           \/ pc = "resolve" /\ pc' \in {"write", "record"}
           \/ pc = "write" /\ pc' = "record"
           \/ pc = "record" /\ pc' = "evaluate"
           \/ pc = "evaluate" /\ pc' = "deliver"
    <3>1. CASE Abort
      BY <1>6, <3>1 DEF Abort
    <3>2. CASE ParseVerdict \/ ReadTrace
      BY <1>6, <3>2 DEF ParseVerdict, ReadTrace, Decide, Goto, outside
    <3>3. CASE Resolve
      BY <1>6, <3>3 DEF Resolve, Decide, Goto, outside
    <3>4. CASE WriteSpec
      BY <1>6, <3>4 DEF WriteSpec, Decide, Goto, outside
    <3>5. CASE Record
      BY <3>5 DEF Record, Goto, outside
    <3>6. CASE Evaluate
      BY <1>6, <3>6 DEF Evaluate, Goto, outside
    <3> QED BY <1>6, <3>1, <3>2, <3>3, <3>4, <3>5, <3>6 DEF Job
  <2>2. Places[pc'] < Places[pc] /\ pc # "idle" /\ pc' # "idle"
    BY <2>1 DEF Places
  <2> QED BY <1>1, <1>2, <2>1, <2>2 DEF Rank
<1> QED BY <1>3, <1>4, <1>5, <1>6

(* No outcome of a fix Job sends a readable task round again but the four   *)
(* errors of Errs: a trace or a resolver's block that cannot be read,       *)
(* what BuildSpec finds missing, and what the writer cannot judge.  Every   *)
(* other outcome is reported Done (pkg/steps/fix.go), and jira-proposal.go  *)
(* adds the next phase to it.                                              *)
THEOREM NoChurn == Spec => NeverChurns
<1>1. ASSUME FixInv, Crash \/ Cancel \/ Reopen \/ Change,
             UNCHANGED <<faults, triggers>>
      PROVE  FALSE
  BY <1>1 DEF FixInv, TypeOK, Crash, Cancel, Reopen, Change, Fault
<1>2. FixInv /\ FixInv' /\ [Next]_vars =>
        [UNCHANGED <<faults, triggers>> /\ Readable /\ ~Errs => Rank' < Rank]_vars
  BY <1>1, FixRankFalls DEF Next
<1> QED BY <1>2, FixCorrect, PTL DEF Spec, NeverChurns

-----------------------------------------------------------------------------
(***************************************************************************)
(* What it takes for a proposal to be written beside a filed spec, which    *)
(* ProposalOnlyWithoutPull excludes and the code does not: a Job that was   *)
(* lost, and an answer that has changed since.                             *)
(***************************************************************************)

(* The record of a filed spec is in the task file or on its way there.      *)
OnItsWay ==
  \/ HasPull(saved)
  \/ pc = "record" /\ outcome = "filed"
  \/ pc \in {"evaluate", "deliver"} /\ HasPull(doc)

(* Only a verdict the rule can read is ever proposed on, and a Job that will *)
(* deliver works on a task without a proposal.                             *)
BlocksAreRead ==
  /\ saved.blocks > 0 => verdict.parses
  /\ pc = "deliver" /\ doc.blocks > 0 => verdict.parses
  /\ pc = "deliver" => saved.blocks = 0

(* While no Job was lost, every spec is recorded; a verdict the rule cannot  *)
(* read fails the Job after the spec was filed, each time.                  *)
NothingLost ==
  faults = 0 => ~cancelled /\ (filed # {} /\ verdict.parses => OnItsWay)

LEMMA BlocksAreReadStep ==
  ASSUME FixInv, BlocksAreRead, Next \/ UNCHANGED vars
  PROVE  BlocksAreRead'
<1>1. CASE Evaluate
  BY <1>1 DEF NoJob, FixInv, CopyRecorded, BlocksAreRead, Evaluate, Goto, JobFails, outside
<1>2. CASE \/ Dispatch \/ Abort \/ ParseVerdict \/ ReadTrace \/ Resolve \/ WriteSpec
           \/ Record \/ Deliver \/ DeliverNil
  BY <1>2 DEF NoJob, BlocksAreRead, Dispatch, Abort, ParseVerdict, ReadTrace, Resolve, WriteSpec,
    Record, Deliver, DeliverNil, JobFails, Decide, Goto, outside
<1>3. CASE Crash \/ Cancel \/ Reopen \/ Change \/ UNCHANGED vars
  BY <1>3 DEF NoJob, BlocksAreRead, Crash, Cancel, Reopen, Change, vars
<1> QED BY <1>1, <1>2, <1>3 DEF Next, Job

LEMMA NothingLostStep ==
  ASSUME FixInv, NothingLost, Next \/ UNCHANGED vars
  PROVE  NothingLost'
<1> SUFFICES ASSUME faults' = 0
             PROVE  ~cancelled' /\ (filed' # {} /\ verdict'.parses => OnItsWay')
  BY DEF NothingLost
<1>1. faults \in Nat
  BY DEF FixInv, TypeOK
<1>2. CASE Crash \/ Cancel \/ Change
  BY <1>1, <1>2 DEF Crash, Cancel, Change, Fault
<1>3. CASE Reopen \/ UNCHANGED vars
  BY <1>3 DEF NothingLost, OnItsWay, Reopen, vars, HasPull
<1>4. CASE Job
  <2>1. UNCHANGED <<verdict, faults>>
    BY <1>4 DEF Job, Dispatch, Abort, ParseVerdict, ReadTrace, Resolve, WriteSpec,
      Record, Evaluate, Deliver, DeliverNil, JobFails, Decide, Goto, outside
  <2>2. ~cancelled /\ (filed # {} /\ verdict.parses => OnItsWay)
    BY <2>1 DEF NothingLost
  <2>3. ~cancelled'
    BY <1>4, <2>2 DEF NoJob, Job, Dispatch, Abort, ParseVerdict, ReadTrace, Resolve, WriteSpec,
      Record, Evaluate, Deliver, DeliverNil, JobFails, Decide, Goto, outside
  <2> SUFFICES ASSUME filed' # {}, verdict.parses PROVE OnItsWay'
    BY <2>1, <2>3
  <2>4. CASE Dispatch \/ DeliverNil
    BY <2>2, <2>4 DEF OnItsWay, HasPull, Dispatch, DeliverNil, Goto, outside
  <2>5. CASE Abort
    BY <2>2, <2>5 DEF Abort
  <2>6. CASE ParseVerdict \/ ReadTrace \/ Resolve
    <3>1. filed = {}
      BY <2>2, <2>6 DEF FixInv, NothingYet, Undecided, OnItsWay, HasPull,
        ParseVerdict, ReadTrace, Resolve
    <3> QED BY <2>6, <3>1 DEF ParseVerdict, ReadTrace, Resolve, JobFails, Decide, Goto, outside
  <2>7. CASE WriteSpec
    <3>1. filed = {}
      BY <2>2, <2>7 DEF FixInv, NothingYet, Undecided, OnItsWay, HasPull, WriteSpec
    <3> QED BY <2>7, <3>1 DEF WriteSpec, JobFails, Decide, Goto, outside, OnItsWay
  <2>8. CASE Record
    <3>1. filed # {} /\ saved.result = "none" /\ pc = "record"
      BY <2>8 DEF FixInv, NothingYet, Undecided, Record, Goto
    <3>2. outcome = "filed"
      BY <2>2, <3>1 DEF OnItsWay, HasPull
    <3>3. doc \in Docs
      BY DEF FixInv, TypeOK
    <3> QED BY <2>2, <2>8, <3>2, <3>3 DEF Record, Goto, OnItsWay, HasPull, Docs
  <2>9. CASE Evaluate
    <3>1. filed # {} /\ pc = "evaluate"
      BY <2>9 DEF Evaluate, Goto, JobFails, outside
    <3>2. HasPull(doc)
      BY <2>2, <3>1 DEF OnItsWay, HasPull, FixInv, CopyRecorded
    <3>3. pc' = "deliver" /\ doc' = doc
      BY <2>9, <3>2 DEF Evaluate, Qualifies, Goto, JobFails
    <3> QED BY <3>2, <3>3 DEF OnItsWay, HasPull
  <2>10. CASE Deliver
    <3>1. filed # {} /\ pc = "deliver" /\ saved' = doc
      BY <2>10 DEF Deliver, Goto
    <3>2. HasPull(doc)
      BY <2>2, <3>1 DEF OnItsWay, HasPull, FixInv, CopyDeliverable
    <3> QED BY <3>1, <3>2 DEF OnItsWay, HasPull
  <2> QED BY <1>4, <2>4, <2>5, <2>6, <2>7, <2>8, <2>9, <2>10 DEF Job
<1> QED BY <1>2, <1>3, <1>4 DEF Next

(* Without a lost Job or a cancelled context the rule of                   *)
(* pkg/steps/jira-proposal.go holds as its comment has it: a proposal is    *)
(* written only where the fix agent has filed nothing, whatever the verdict *)
(* and however often the task is opened again.                             *)
THEOREM ProposalNeedsFault == Spec => [](faults = 0 => ProposalOnlyWithoutPull)
<1> DEFINE J == FixInv /\ BlocksAreRead /\ NothingLost
<1>1. Init => J
  BY InitFix DEF Init, BlocksAreRead, NothingLost
<1>2. J /\ [Next]_vars => J'
  BY JobFix, OutsideFix, StutterFix, BlocksAreReadStep, NothingLostStep DEF Next
<1>3. J => (faults = 0 => ProposalOnlyWithoutPull)
  BY DEF FixInv, NothingYet, Undecided, CopyRecorded, EitherPullOrProposal,
    BlocksAreRead, NothingLost, OnItsWay, ProposalOnlyWithoutPull
<1> QED BY <1>1, <1>2, <1>3, PTL DEF Spec

(* The answers on which Run files a spec.                                   *)
Files ==
  LET res == world.resolution IN
  /\ verdict.deepParses /\ verdict.label = "real bug"
  /\ world.trace \in {"frame", "none"}
  /\ res \in Resolutions /\ res.fresh /\ Buildable(res)
  /\ res.rule = "frame" => world.trace = "frame"
  /\ Admission[res.repo] = "admitted"

(* What a Job has read is what the world still answers.                     *)
AnswersStand ==
  /\ pc \in {"trace", "resolve", "write"} =>
       verdict.deepParses /\ verdict.label = "real bug" /\ verdict.fields # "missing"
  /\ pc \in {"resolve", "write"} =>
       world.trace \in {"frame", "none"} /\ frame = (world.trace = "frame")
  /\ pc = "write" => resolved = world.resolution

(* Where a spec was filed, every later Job comes to file it again, and has   *)
(* nothing else to record.                                                 *)
FilesAgain ==
  filed # {} =>
    /\ Files
    /\ saved.result \in {"none", "filed"} /\ saved.blocks = 0
    /\ pc = "record" => outcome = "filed"
    /\ pc \in {"evaluate", "deliver"} => doc.result \in {"none", "filed"}
    /\ pc = "deliver" => doc.blocks = 0

LEMMA AnswersStandStep ==
  ASSUME FixInv, AnswersStand, ~Drift, Next \/ UNCHANGED vars
  PROVE  AnswersStand'
<1>1. CASE Dispatch \/ Abort \/ Record \/ Evaluate \/ Deliver \/ DeliverNil
  BY <1>1 DEF NoJob, AnswersStand, Dispatch, Abort, Record, Evaluate, Deliver, DeliverNil,
    JobFails, Goto, outside
<1>2. CASE ParseVerdict \/ ReadTrace
  BY <1>2 DEF NoJob, AnswersStand, ParseVerdict, ReadTrace, JobFails, Decide, Goto, outside
<1>3. CASE Resolve \/ WriteSpec
  BY <1>3 DEF NoJob, AnswersStand, Resolve, WriteSpec, JobFails, Decide, Goto, outside
<1>4. CASE Crash \/ Cancel \/ Reopen \/ Change \/ UNCHANGED vars
  BY <1>4 DEF NoJob, AnswersStand, Crash, Cancel, Reopen, Change, vars
<1> QED BY <1>1, <1>2, <1>3, <1>4 DEF Next, Job

(* A Job that is in its write, and may file, is one that Files speaks of.    *)
LEMMA WriteFiles ==
  ASSUME FixInv, AnswersStand, pc = "write", Admission[resolved.repo] = "admitted"
  PROVE  Files
  BY DEF FixInv, WriteGrounded, Verified, AnswersStand, Files

LEMMA FilesAgainStep ==
  ASSUME FixInv, AnswersStand, FilesAgain, ~Drift, Next \/ UNCHANGED vars
  PROVE  FilesAgain'
<1>0. doc \in Docs /\ saved \in Docs
  BY DEF FixInv, TypeOK
<1>1. UNCHANGED <<verdict, world>>
  BY DEF Next, Job, Dispatch, Abort, ParseVerdict, ReadTrace, Resolve, WriteSpec,
    Record, Evaluate, Deliver, DeliverNil, JobFails, Decide, outside,
    Crash, Cancel, Reopen, Change, vars
<1>2. Files' = Files
  BY <1>1 DEF Files, Buildable
<1>3. CASE Dispatch \/ Abort \/ Deliver \/ DeliverNil
  BY <1>2, <1>3 DEF NoJob, FilesAgain, Dispatch, Abort, Deliver, DeliverNil, JobFails, Goto,
    outside, FixInv, CopyDeliverable
<1>4. CASE ParseVerdict \/ ReadTrace \/ Resolve
  <2>1. CASE filed = {}
    BY <1>4, <2>1 DEF FilesAgain, ParseVerdict, ReadTrace, Resolve, JobFails, Decide, outside
  <2>2. CASE filed # {}
    <3>1. Files
      BY <2>2 DEF FilesAgain
    <3>2. pc' \notin {"record", "evaluate", "deliver"}
      <4>1. CASE ParseVerdict \/ ReadTrace
        BY <3>1, <4>1 DEF Files, Buildable, AnswersStand, ParseVerdict, ReadTrace,
          JobFails, NoJob, Decide, Goto
      <4>2. CASE Resolve
        <5>1. frame = (world.trace = "frame")
          BY <4>2 DEF AnswersStand, Resolve
        <5>2. world.resolution # NoRepo /\ Verified(world.resolution)
          BY <3>1, <5>1, FixTaskAssumption DEF FixTaskAssumption, Files, Verified
        <5> QED BY <3>1, <4>2, <5>2 DEF Files, Resolve, JobFails, NoJob, Decide, Goto
      <4> QED BY <1>4, <4>1, <4>2
    <3>3. UNCHANGED saved
      BY <1>4 DEF ParseVerdict, ReadTrace, Resolve, JobFails, Decide, outside
    <3> QED BY <1>2, <2>2, <3>2, <3>3 DEF FilesAgain
  <2> QED BY <2>1, <2>2
<1>5. CASE WriteSpec
  <2>1. saved.result = "none" /\ saved.blocks = 0 /\ UNCHANGED saved
    BY <1>5 DEF FixInv, NothingYet, Undecided, WriteSpec, JobFails, Decide, outside
  <2>2. CASE Admission[resolved.repo] = "admitted"
    <3>1. Files
      BY <1>5, <2>2, WriteFiles DEF WriteSpec
    <3>2. pc' = "record" /\ outcome' = "filed"
      BY <1>5, <2>2 DEF WriteSpec, Goto
    <3> QED BY <1>2, <2>1, <3>1, <3>2 DEF FilesAgain
  <2>3. CASE Admission[resolved.repo] # "admitted"
    <3>1. filed' = filed /\ pc = "write"
      BY <1>5, <2>3 DEF WriteSpec, JobFails, Decide, outside
    <3>2. filed = {}
      BY <2>3, <3>1 DEF FilesAgain, Files, AnswersStand
    <3> QED BY <3>1, <3>2 DEF FilesAgain
  <2> QED BY <2>2, <2>3
<1>6. CASE Record
  BY <1>0, <1>2, <1>6 DEF FilesAgain, Record, Goto, outside, Docs, FixInv, NothingYet, Undecided
<1>7. CASE Evaluate
  <2>1. CASE filed = {}
    BY <1>7, <2>1 DEF FilesAgain, Evaluate, JobFails, outside
  <2>2. CASE filed # {}
    <3>1. HasPull(doc) /\ doc.blocks = 0
      BY <1>7, <2>2 DEF FilesAgain, Evaluate, FixInv, CopyRecorded, HasPull
    <3>2. /\ UNCHANGED <<saved, filed>> /\ pc' \in {"idle", "deliver"}
          /\ pc' = "deliver" => doc' = doc
      BY <1>7, <3>1 DEF NoJob, Evaluate, Qualifies, Goto, JobFails, outside
    <3> QED BY <1>2, <2>2, <3>1, <3>2 DEF FilesAgain, HasPull
  <2> QED BY <2>1, <2>2
<1>8. CASE Crash
  <2>1. CASE filed' = filed
    BY <1>2, <1>8, <2>1 DEF NoJob, FilesAgain, Crash
  <2>2. CASE filed' # filed
    <3>1. pc = "write" /\ Admission[resolved.repo] = "admitted"
      BY <1>8, <2>2 DEF Crash
    <3>2. Files
      BY <3>1, WriteFiles
    <3>3. saved.result = "none" /\ saved.blocks = 0
      BY <3>1 DEF FixInv, NothingYet, Undecided
    <3> QED BY <1>2, <1>8, <3>2, <3>3 DEF NoJob, FilesAgain, Crash
  <2> QED BY <2>1, <2>2
<1>9. CASE Cancel \/ Reopen \/ Change \/ UNCHANGED vars
  BY <1>2, <1>9 DEF FilesAgain, Cancel, Reopen, Change, vars
<1> QED BY <1>3, <1>4, <1>5, <1>6, <1>7, <1>8, <1>9 DEF Next, Job

(* Where Sentry and the resolver answer a task's Jobs alike, the rule of     *)
(* pkg/steps/jira-proposal.go holds however many Jobs are lost: each files  *)
(* the spec again (which the writer answers with the open pull request)    *)
(* until one of them has recorded it.                                      *)
THEOREM ProposalNeedsDrift == ~Drift => (Spec => []ProposalOnlyWithoutPull)
<1> SUFFICES ASSUME ~Drift PROVE Spec => []ProposalOnlyWithoutPull
  OBVIOUS
<1> DEFINE J == FixInv /\ AnswersStand /\ FilesAgain
<1>1. Init => J
  BY InitFix DEF Init, AnswersStand, FilesAgain
<1>2. J /\ [Next]_vars => J'
  BY JobFix, OutsideFix, StutterFix, AnswersStandStep, FilesAgainStep DEF Next
<1>3. J => ProposalOnlyWithoutPull
  BY DEF FixInv, TypeOK, Docs, FilesAgain, ProposalOnlyWithoutPull
<1> QED BY <1>1, <1>2, <1>3, PTL DEF Spec
=============================================================================
