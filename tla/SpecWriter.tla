----------------------------- MODULE SpecWriter -----------------------------
(***************************************************************************)
(* GitHubSpecWriter.Write (pkg/fixagent/writer.go): fix Jobs that file the *)
(* kind: bug spec of a Sentry issue as a file on a branch derived from the *)
(* issue id and open a draft pull request from it.  Every GitHub call is   *)
(* an action of its own, because another Job, a person or the death of the *)
(* Job can come between any two of them.                                   *)
(*                                                                         *)
(* A run is one task's fix Job together with its re-dispatches: a Job that *)
(* fails or is killed is back at "idle" and is dispatched again with the   *)
(* same verdict, but the repository is resolved anew by the model.         *)
(***************************************************************************)
EXTENDS Naturals, Sequences, FiniteSets

CONSTANTS
  Runs,          \* fix Jobs, one per task
  Issues,        \* Sentry issue ids
  Repos,         \* repositories the resolver may name
  Slugs,         \* values of specSlug
  IssueOf,       \* IssueOf[r]: the issue of the verdict run r carries
  SlugOf,        \* SlugOf[i]: specSlug of issue id i
  Admission,     \* Admission[p]: what the local checks of Write say of repo p
  NoIssue,       \* "no spec file"
  NoHead,        \* "no target yet"
  NoPull,        \* "no pull request URL"
  RefusesEmpty,  \* does GitHub refuse a pull request that changes nothing?
  Reviewers,     \* what people do on GitHub: a subset of the three verbs
  MaxFaults,     \* bound: API errors, Job deaths and deleted branches
  MaxPulls       \* bound: pull requests per head, applied when people end one

ASSUME ConstantsAssumption ==
  /\ IssueOf \in [Runs -> Issues]
  /\ SlugOf \in [Issues -> Slugs]
  /\ Admission \in [Repos -> {"admitted", "refused", "broken"}]
  /\ NoIssue \notin Issues
  /\ NoHead \notin Repos \X Slugs
  /\ NoPull \notin (Repos \X Slugs) \X Nat
  /\ RefusesEmpty \in BOOLEAN
  /\ Reviewers \subseteq {"merge", "close", "delete"}
  /\ MaxFaults \in Nat
  /\ MaxPulls \in Nat

VARIABLES
  ref,      \* ref[h]: does the branch sentry-fix/<slug> exist in the repo?
  file,     \* file[h]: the issue whose spec the branch holds
  main,     \* main[h]: the issue whose spec the default branch holds
  pulls,    \* pulls[h]: pull requests opened from the branch, in order
  pc,       \* pc[r]: the call run r makes next
  target,   \* target[r]: the repository and slug of the spec being filed
  sha,      \* sha[r]: what the default head that run r read carries at h
  answer,   \* answer[r]: the URL Write returned
  faults    \* API errors, Job deaths and deleted branches so far

vars == <<ref, file, main, pulls, pc, target, sha, answer, faults>>
github == <<ref, file, main, pulls>>

Heads == Repos \X Slugs
Pull == [state : {"open", "closed", "merged"}, issue : Issues \cup {NoIssue}]
HeadsOf == [i \in Issues |-> {<<p, SlugOf[i]>> : p \in Repos}]

Calling == {"readRef", "readHead", "createRef", "readFile", "createFile",
            "readBase", "listPulls", "createPull", "relist"}

IsOpen(h, n) == pulls[h][n].state = "open"
HasOpen(h) == \E n \in 1..Len(pulls[h]) : IsOpen(h, n)

(* A pull request from h would add the spec file to the default branch.    *)
Ahead(h) == file[h] # NoIssue /\ main[h] = NoIssue

(* Whether GitHub accepts POST /pulls for h; every refusal answers 422.    *)
Creatable(h) == ref[h] /\ ~HasOpen(h) /\ (Ahead(h) \/ ~RefusesEmpty)

Init ==
  /\ ref = [h \in Heads |-> FALSE]
  /\ file = [h \in Heads |-> NoIssue]
  /\ main = [h \in Heads |-> NoIssue]
  /\ pulls = [h \in Heads |-> <<>>]
  /\ pc = [r \in Runs |-> "idle"]
  /\ target = [r \in Runs |-> NoHead]
  /\ sha = [r \in Runs |-> NoIssue]
  /\ answer = [r \in Runs |-> NoPull]
  /\ faults = 0

Goto(r, from, to) == pc[r] = from /\ pc' = [pc EXCEPT ![r] = to]

-----------------------------------------------------------------------------
(***************************************************************************)
(* Plausible bugs: mutated forms of the calls below, which the runs' own    *)
(* properties have to notice.  Spec uses none of them.                     *)
(***************************************************************************)

(* The 422 of a lost race taken for success and the ref moved to the head.  *)
CreateRefMoves(r) ==
  LET h == target[r] IN
  /\ Goto(r, "createRef", "readFile")
  /\ ref' = [ref EXCEPT ![h] = TRUE]
  /\ file' = [file EXCEPT ![h] = sha[r]]
  /\ UNCHANGED <<main, pulls, target, sha, answer, faults>>

(* An existing spec short-circuits the pull request.                       *)
ReadFileShortCircuits(r) ==
  /\ Goto(r, "readFile",
          IF file[target[r]] # NoIssue THEN "idle" ELSE "createFile")
  /\ UNCHANGED <<github, target, sha, answer, faults>>

(* A 404 taken for "filed".                                                *)
ReadFileAssumes(r) ==
  /\ Goto(r, "readFile", "readBase")
  /\ UNCHANGED <<github, target, sha, answer, faults>>

(* List without its Head option: any open pull request of the repository.  *)
AnswerWithOpenOfRepo(r, from) ==
  /\ Goto(r, from, "answered")
  /\ \E h \in Heads : \E n \in 1..Len(pulls[h]) :
       /\ h[1] = target[r][1] /\ IsOpen(h, n)
       /\ answer' = [answer EXCEPT ![r] = <<h, n>>]
  /\ UNCHANGED <<github, target, sha, faults>>

(* List with State "all".                                                  *)
AnswerWithAny(r, from) ==
  LET h == target[r] IN
  /\ Goto(r, from, "answered")
  /\ \E n \in 1..Len(pulls[h]) : answer' = [answer EXCEPT ![r] = <<h, n>>]
  /\ UNCHANGED <<github, target, sha, faults>>

(* The 422 of a create taken for success, as CreateRef takes its own.      *)
CreatePullAssumes(r) ==
  LET h == target[r] IN
  /\ Goto(r, "createPull", "answered")
  /\ pulls' = IF Creatable(h)
              THEN [pulls EXCEPT ![h] =
                      Append(@, [state |-> "open", issue |-> file[h]])]
              ELSE pulls
  /\ answer' = [answer EXCEPT ![r] = <<h, Len(pulls[h]) + 1>>]
  /\ UNCHANGED <<ref, file, main, target, sha, faults>>

-----------------------------------------------------------------------------
(***************************************************************************)
(* The calls of one run, in the order Write makes them.                    *)
(***************************************************************************)

(* A dispatched Job has resolved repository p and built the spec; Write    *)
(* checks the allowlist, the path and the repo name before its first call. *)
Begin(r, p) ==
  /\ Goto(r, "idle", CASE Admission[p] = "admitted" -> "readRef"
                       [] Admission[p] = "refused" -> "declined"
                       [] OTHER -> "idle")
  /\ target' = [target EXCEPT ![r] = <<p, SlugOf[IssueOf[r]]>>]
  /\ UNCHANGED <<github, sha, answer, faults>>

ReadRef(r) ==
  /\ Goto(r, "readRef", IF ref[target[r]] THEN "readFile" ELSE "readHead")
  /\ UNCHANGED <<github, target, sha, answer, faults>>

(* Repositories.Get and Git.GetRef of the default branch.                  *)
ReadHead(r) ==
  /\ Goto(r, "readHead", "createRef")
  /\ sha' = [sha EXCEPT ![r] = main[target[r]]]
  /\ UNCHANGED <<github, target, answer, faults>>

(* A 422, the ref exists by now, is success: nothing is moved.             *)
CreateRef(r) ==
  LET h == target[r] IN
  /\ Goto(r, "createRef", "readFile")
  /\ ref' = [ref EXCEPT ![h] = TRUE]
  /\ file' = [file EXCEPT ![h] = IF ref[h] THEN @ ELSE sha[r]]
  /\ UNCHANGED <<main, pulls, target, sha, answer, faults>>

(* GetContents answers 404 for a missing file and for a missing branch.    *)
ReadFile(r) ==
  /\ Goto(r, "readFile",
          IF file[target[r]] # NoIssue THEN "readBase" ELSE "createFile")
  /\ UNCHANGED <<github, target, sha, answer, faults>>

(* CreateFile sends no blob SHA: GitHub refuses it on a missing branch and *)
(* on a file that exists by now, and both abort the run.                   *)
CreateFile(r) ==
  LET h == target[r] IN
  \/ /\ Goto(r, "createFile", "readBase")
     /\ ref[h] /\ file[h] = NoIssue
     /\ file' = [file EXCEPT ![h] = IssueOf[r]]
     /\ UNCHANGED <<ref, main, pulls, target, sha, answer, faults>>
  \/ /\ Goto(r, "createFile", "idle")
     /\ ~ref[h] \/ file[h] # NoIssue
     /\ UNCHANGED <<github, target, sha, answer, faults>>

ReadBase(r) ==
  /\ Goto(r, "readBase", "listPulls")
  /\ UNCHANGED <<github, target, sha, answer, faults>>

(* Write returns the URL of an open pull request from the branch.          *)
AnswerWithOpen(r, from) ==
  LET h == target[r] IN
  /\ Goto(r, from, "answered")
  /\ \E n \in 1..Len(pulls[h]) :
       /\ IsOpen(h, n)
       /\ answer' = [answer EXCEPT ![r] = <<h, n>>]
  /\ UNCHANGED <<github, target, sha, faults>>

ListPulls(r) ==
  \/ AnswerWithOpen(r, "listPulls")
  \/ /\ Goto(r, "listPulls", "createPull")
     /\ ~HasOpen(target[r])
     /\ UNCHANGED <<github, target, sha, answer, faults>>

CreatePull(r) ==
  LET h == target[r] IN
  \/ /\ Goto(r, "createPull", "answered")
     /\ Creatable(h)
     /\ pulls' = [pulls EXCEPT
                    ![h] = Append(@, [state |-> "open", issue |-> file[h]])]
     /\ answer' = [answer EXCEPT ![r] = <<h, Len(pulls[h]) + 1>>]
     /\ UNCHANGED <<ref, file, main, target, sha, faults>>
  \/ /\ Goto(r, "createPull", "relist")
     /\ ~Creatable(h)
     /\ UNCHANGED <<github, target, sha, answer, faults>>

(* After a 422 the list is read once more; the create is never retried.    *)
Relist(r) ==
  \/ AnswerWithOpen(r, "relist")
  \/ /\ Goto(r, "relist", "idle")
     /\ ~HasOpen(target[r])
     /\ UNCHANGED <<github, target, sha, answer, faults>>

(* The fix step wrote status: filed and pr_url and the task was delivered. *)
Record(r) ==
  /\ Goto(r, "answered", "recorded")
  /\ UNCHANGED <<github, target, sha, answer, faults>>

Step(r) ==
  \/ \E p \in Repos : Begin(r, p)
  \/ ReadRef(r) \/ ReadHead(r) \/ CreateRef(r) \/ ReadFile(r) \/ CreateFile(r)
  \/ ReadBase(r) \/ ListPulls(r) \/ CreatePull(r) \/ Relist(r) \/ Record(r)

-----------------------------------------------------------------------------
(***************************************************************************)
(* Faults and people.                                                      *)
(***************************************************************************)

(* Any other API error is returned and fails the Job; a Job can also die   *)
(* at any point, after Write returned and before the task was delivered    *)
(* included.  Either way nothing of the run is left but what GitHub holds. *)
Fail(r) ==
  /\ faults < MaxFaults
  /\ pc[r] \in Calling \cup {"answered"}
  /\ pc' = [pc EXCEPT ![r] = "idle"]
  /\ answer' = [answer EXCEPT ![r] = NoPull]
  /\ faults' = faults + 1
  /\ UNCHANGED <<github, target, sha>>

MergePull(h) ==
  /\ "merge" \in Reviewers
  /\ Len(pulls[h]) < MaxPulls
  /\ \E n \in 1..Len(pulls[h]) :
       /\ IsOpen(h, n)
       /\ pulls' = [pulls EXCEPT ![h][n].state = "merged"]
  /\ main' = [main EXCEPT ![h] = file[h]]
  /\ UNCHANGED <<ref, file, pc, target, sha, answer, faults>>

ClosePull(h) ==
  /\ "close" \in Reviewers
  /\ Len(pulls[h]) < MaxPulls
  /\ \E n \in 1..Len(pulls[h]) :
       /\ IsOpen(h, n)
       /\ pulls' = [pulls EXCEPT ![h][n].state = "closed"]
  /\ UNCHANGED <<ref, file, main, pc, target, sha, answer, faults>>

(* People delete the branch of a pull request that has ended.              *)
DeleteBranch(h) ==
  /\ "delete" \in Reviewers
  /\ faults < MaxFaults
  /\ ref[h] /\ Len(pulls[h]) > 0 /\ ~HasOpen(h)
  /\ ref' = [ref EXCEPT ![h] = FALSE]
  /\ file' = [file EXCEPT ![h] = NoIssue]
  /\ faults' = faults + 1
  /\ UNCHANGED <<main, pulls, pc, target, sha, answer>>

Next ==
  \/ \E r \in Runs : Step(r) \/ Fail(r)
  \/ \E h \in Heads : MergePull(h) \/ ClosePull(h) \/ DeleteBranch(h)

Spec == Init /\ [][Next]_vars

(* A pod that is not killed keeps executing, and a failed Job is dispatched *)
(* again: pkg/steps/fix.go returns every write failure so that the          *)
(* controller retries it.                                                   *)
FairSpec == Spec /\ \A r \in Runs : WF_vars(Step(r))
-----------------------------------------------------------------------------
(***************************************************************************)
(* Properties.                                                             *)
(***************************************************************************)

(* Types; an answer always names a pull request that exists (the URL comes  *)
(* from a list that was checked to be non-empty or from the create).        *)
TypeOK ==
  /\ ref \in [Heads -> BOOLEAN]
  /\ file \in [Heads -> Issues \cup {NoIssue}]
  /\ main \in [Heads -> Issues \cup {NoIssue}]
  /\ pulls \in [Heads -> Seq(Pull)]
  /\ pc \in [Runs -> Calling \cup {"idle", "answered", "recorded", "declined"}]
  /\ target \in [Runs -> Heads \cup {NoHead}]
  /\ sha \in [Runs -> Issues \cup {NoIssue}]
  /\ answer \in [Runs -> (Heads \X Nat) \cup {NoPull}]
  /\ \A r \in Runs :
       answer[r] # NoPull => answer[r][2] \in 1..Len(pulls[answer[r][1]])
  /\ faults \in Nat

(* An open pull request never points at a branch without a spec file,       *)
(* whatever calls fail and whatever other runs do in between (the writer's  *)
(* "a PR pointing at an empty branch reads as done and is worse than no     *)
(* PR").                                                                    *)
PullCarriesSpec ==
  \A h \in Heads : HasOpen(h) => ref[h] /\ file[h] # NoIssue

(* The pull request a run is answered with carries the spec of the issue    *)
(* the run was dispatched for, also when it was found and not created.      *)
FiledIsOwnSpec ==
  \A r \in Runs :
    answer[r] # NoPull => pulls[answer[r][1]][answer[r][2]].issue = IssueOf[r]

(* While a pull request is open for review, no run changes or removes the   *)
(* spec under it: a re-run finds the file and leaves it.                    *)
PullFrozen == [][\A h \in Heads : HasOpen(h) => file'[h] = file[h]]_vars

(* The promise of the SpecWriter interface.                                 *)
Filing == INSTANCE SpecFiling WITH
  Heads <- Heads, HeadsOf <- HeadsOf, pulls <- pulls, answer <- answer
Promise == Filing!Spec

(* A run that failed or was killed anywhere between two calls ends, on some *)
(* later attempt, with a filed spec or a recorded decline.                  *)
RerunCompletes ==
  \A r \in Runs : pc[r] = "idle" ~> pc[r] \in {"recorded", "declined"}

(* The same where GitHub refuses a pull request that changes nothing, unless *)
(* the spec has reached the default branch: then every attempt to open one  *)
(* is refused and none is open to be found.                                *)
Merged(r) == \E h \in HeadsOf[IssueOf[r]] : main[h] # NoIssue
RerunEnds ==
  \A r \in Runs :
    pc[r] = "idle" ~> (pc[r] \in {"recorded", "declined"} \/ Merged(r))

(* An attempt that comes to nothing without a fault was overtaken: another   *)
(* Job has put the spec on the branch, or the branch has had a pull request *)
(* already.  The 422 that Write cannot turn into an answer is never met by  *)
(* the first attempt on a head, and a lost race leaves the next attempt     *)
(* less to do.                                                             *)
OvertakenOnly ==
  [][\A r \in Runs :
       Step(r) /\ pc[r] # "idle" /\ pc'[r] = "idle" =>
         file[target[r]] # NoIssue \/ pulls[target[r]] # <<>>]_vars

(***************************************************************************)
(* What PullCarriesSpec, FiledIsOwnSpec and Promise rest on.               *)
(***************************************************************************)

(* The bound under which an empty pull request cannot come about: GitHub    *)
(* refuses it, or nobody deletes a branch between a run's two calls.        *)
EmptyIsImpossible == RefusesEmpty \/ "delete" \notin Reviewers

(* A run that has left "idle" works on a head of its own issue.             *)
Targeted ==
  \A r \in Runs :
    /\ target[r] \in HeadsOf[IssueOf[r]] \cup {NoHead}
    /\ pc[r] \in Calling \cup {"answered", "recorded"} => target[r] # NoHead

(* Whatever spec is found at a head is of an issue with that slug.          *)
SlugsMatch ==
  /\ \A h \in Heads :
       /\ file[h] # NoIssue => ref[h] /\ SlugOf[file[h]] = h[2]
       /\ main[h] # NoIssue => SlugOf[main[h]] = h[2]
       /\ \A n \in 1..Len(pulls[h]) :
            pulls[h][n].issue # NoIssue => SlugOf[pulls[h][n].issue] = h[2]
  /\ \A r \in Runs :
       sha[r] # NoIssue => SlugOf[sha[r]] = SlugOf[IssueOf[r]]

(* No pull request was opened without a spec, and an open one still has it. *)
NoneEmpty ==
  /\ PullCarriesSpec
  /\ \A h \in Heads : \A n \in 1..Len(pulls[h]) : pulls[h][n].issue # NoIssue

(* Where GitHub would take an empty pull request, only the order of the     *)
(* calls keeps a run from opening one: the file is there before the list.   *)
FiledFirst ==
  ~RefusesEmpty =>
    \A r \in Runs :
      pc[r] \in {"readBase", "listPulls", "createPull", "relist"} =>
        file[target[r]] # NoIssue

(* An answer is a pull request on a head of the run's own issue.            *)
AnswerOwn ==
  \A r \in Runs : answer[r] # NoPull => answer[r][1] \in HeadsOf[IssueOf[r]]

(* The inductive invariant: PullCarriesSpec alone is not kept by CreatePull *)
(* (FiledFirst), nor FiledIsOwnSpec by ListPulls (SlugsMatch, Targeted).    *)
WriterInv ==
  TypeOK /\ Targeted /\ SlugsMatch /\ NoneEmpty /\ FiledFirst /\ AnswerOwn
=============================================================================
