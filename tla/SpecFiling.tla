----------------------------- MODULE SpecFiling -----------------------------
(***************************************************************************)
(* What the fix agent's spec writer promises its caller, apart from how it *)
(* talks to GitHub (pkg/fixagent/writer.go, the SpecWriter interface): the *)
(* URL a run is answered with names a pull request that is open when it is *)
(* answered, that lives on a head of the run's own issue, and that carries *)
(* the spec of that issue; a pull request is only opened where none is     *)
(* open.  Branches, files and API calls are not visible here.              *)
(***************************************************************************)
EXTENDS Naturals, Sequences

CONSTANTS
  Runs,       \* fix Jobs
  Issues,     \* Sentry issues
  Heads,      \* (repository, branch) pairs a pull request can come from
  HeadsOf,    \* HeadsOf[i]: the heads a spec of issue i may be filed on
  IssueOf,    \* IssueOf[r]: the issue whose verdict run r carries
  NoPull      \* the answer of a run that has none

VARIABLES
  pulls,      \* pulls[h]: every pull request ever opened from head h, in order
  answer      \* answer[r]: the pull request run r was answered with

vars == <<pulls, answer>>

HasOpen(h) == \E n \in 1..Len(pulls[h]) : pulls[h][n].state = "open"

Init ==
  /\ pulls = [h \in Heads |-> <<>>]
  /\ answer = [r \in Runs |-> NoPull]

Open(r, h) ==
  /\ h \in HeadsOf[IssueOf[r]]
  /\ ~HasOpen(h)
  /\ pulls' = [pulls EXCEPT ![h] = Append(@, [state |-> "open", issue |-> IssueOf[r]])]
  /\ answer' = [answer EXCEPT ![r] = <<h, Len(pulls[h]) + 1>>]

Reuse(r, h) ==
  /\ h \in HeadsOf[IssueOf[r]]
  /\ \E n \in 1..Len(pulls[h]) :
       /\ pulls[h][n] = [state |-> "open", issue |-> IssueOf[r]]
       /\ answer' = [answer EXCEPT ![r] = <<h, n>>]
  /\ UNCHANGED pulls

(* The Job died before its result was delivered: the answer is lost.       *)
Forget(r) ==
  /\ answer' = [answer EXCEPT ![r] = NoPull]
  /\ UNCHANGED pulls

(* A person merged or closed an open pull request.                         *)
Settle(h) ==
  /\ \E n \in 1..Len(pulls[h]), end \in {"closed", "merged"} :
       /\ pulls[h][n].state = "open"
       /\ pulls' = [pulls EXCEPT ![h][n].state = end]
  /\ UNCHANGED answer

Next ==
  \/ \E r \in Runs, h \in Heads : Open(r, h) \/ Reuse(r, h)
  \/ \E r \in Runs : Forget(r)
  \/ \E h \in Heads : Settle(h)

Spec == Init /\ [][Next]_vars
=============================================================================
