-------------------------- MODULE SpecWriterProofs --------------------------
(***************************************************************************)
(* Theorems about SpecWriter for any number of runs, issues, repositories, *)
(* faults and pull requests, proved from the inductive invariant WriterInv.*)
(***************************************************************************)
EXTENDS SpecWriter, SequenceTheorems, TLAPS

(* A head of an issue is a head.                                            *)
LEMMA HeadType ==
  ASSUME NEW i \in Issues, NEW p \in Repos
  PROVE  /\ <<p, SlugOf[i]>> \in Heads
         /\ <<p, SlugOf[i]>> \in HeadsOf[i]
         /\ HeadsOf[i] \subseteq Heads
BY ConstantsAssumption DEF Heads, HeadsOf

(* Ending an open pull request of h changes its state and nothing else.    *)
LEMMA SettledPulls ==
  ASSUME pulls \in [Heads -> Seq(Pull)], NEW h \in Heads,
         NEW n \in 1..Len(pulls[h]), NEW end \in {"closed", "merged"},
         pulls' = [pulls EXCEPT ![h][n].state = end]
  PROVE  /\ pulls' \in [Heads -> Seq(Pull)]
         /\ \A g \in Heads : Len(pulls'[g]) = Len(pulls[g])
         /\ \A g \in Heads : \A m \in 1..Len(pulls[g]) :
              /\ pulls'[g][m].issue = pulls[g][m].issue
              /\ pulls'[g][m].state = "open" => pulls[g][m].state = "open"
<1> DEFINE x == [pulls[h][n] EXCEPT !.state = end]
<1> DEFINE t == [pulls[h] EXCEPT ![n] = x]
<1>1. pulls[h] \in Seq(Pull) /\ pulls[h][n] \in Pull
  OBVIOUS
<1>2. x \in Pull /\ x.issue = pulls[h][n].issue /\ x.state # "open"
  BY <1>1 DEF Pull
<1>3. t \in Seq(Pull) /\ Len(t) = Len(pulls[h])
  <2> HIDE DEF x
  <2> QED
    BY <1>1, <1>2
<1>4. \A m \in 1..Len(pulls[h]) : t[m] = IF m = n THEN x ELSE pulls[h][m]
  <2> HIDE DEF x
  <2> QED
    BY <1>1
<1>5. pulls' = [pulls EXCEPT ![h] = t]
  OBVIOUS
<1> HIDE DEF x, t
<1>6. pulls'[h] = t /\ \A g \in Heads \ {h} : pulls'[g] = pulls[g]
  BY <1>5
<1> QED
  BY <1>2, <1>3, <1>4, <1>5, <1>6

(* Opening a pull request from h appends one and leaves the others.        *)
LEMMA AppendedPulls ==
  ASSUME pulls \in [Heads -> Seq(Pull)], NEW h \in Heads,
         NEW x \in Pull, pulls' = [pulls EXCEPT ![h] = Append(@, x)]
  PROVE  /\ pulls' \in [Heads -> Seq(Pull)]
         /\ pulls'[h] = Append(pulls[h], x)
         /\ Len(pulls'[h]) = Len(pulls[h]) + 1
         /\ pulls'[h][Len(pulls[h]) + 1] = x
         /\ \A m \in 1..Len(pulls[h]) : pulls'[h][m] = pulls[h][m]
         /\ \A g \in Heads \ {h} : pulls'[g] = pulls[g]
<1>1. pulls[h] \in Seq(Pull)
  OBVIOUS
<1>2. /\ Append(pulls[h], x) \in Seq(Pull)
      /\ Len(Append(pulls[h], x)) = Len(pulls[h]) + 1
      /\ Append(pulls[h], x)[Len(pulls[h]) + 1] = x
      /\ \A m \in 1..Len(pulls[h]) : Append(pulls[h], x)[m] = pulls[h][m]
  BY <1>1
<1> QED
  BY <1>2

-----------------------------------------------------------------------------
(* Two parts of WriterInv stand by themselves: TypeOK, with Targeted, which *)
(* keeps every array the run's calls index within its domain.              *)
Typed == TypeOK /\ Targeted

(* The empty GitHub and the idle runs are well typed.                       *)
LEMMA InitTyped == Init => Typed
<1> SUFFICES ASSUME Init PROVE Typed
  OBVIOUS
<1>1. \A h \in Heads : pulls[h] \in Seq(Pull)
  BY DEF Init
<1> QED
  BY <1>1, ConstantsAssumption
  DEF Init, Typed, TypeOK, Targeted, Calling

(* A run past "idle" has a target, and it is a head.                       *)
LEMMA TargetIsHead ==
  ASSUME Typed, NEW r \in Runs, pc[r] \in Calling \cup {"answered", "recorded"}
  PROVE  /\ target[r] \in Heads
         /\ target[r] \in HeadsOf[IssueOf[r]]
         /\ target[r][2] = SlugOf[IssueOf[r]]
<1>1. target[r] \in HeadsOf[IssueOf[r]] /\ IssueOf[r] \in Issues
  BY ConstantsAssumption DEF Typed, Targeted
<1>2. PICK p \in Repos : target[r] = <<p, SlugOf[IssueOf[r]]>>
  BY <1>1 DEF HeadsOf
<1> QED
  BY <1>1, <1>2, HeadType

(* Every call, fault and review keeps the types and the targets.            *)
LEMMA TypedStep == Typed /\ [Next]_vars => Typed'
<1> SUFFICES ASSUME Typed, [Next]_vars PROVE Typed'
  OBVIOUS
<1> USE ConstantsAssumption
<1>1. ASSUME NEW r \in Runs, NEW p \in Repos, Begin(r, p) PROVE Typed'
  BY <1>1, HeadType DEF Typed, TypeOK, Targeted, Begin, Goto, github, Calling
<1>2. ASSUME NEW r \in Runs, ReadRef(r) PROVE Typed'
  BY <1>2 DEF Typed, TypeOK, Targeted, ReadRef, Goto, github, Calling
<1>3. ASSUME NEW r \in Runs, ReadHead(r) PROVE Typed'
  <2>1. target[r] \in Heads
    BY <1>3, TargetIsHead DEF ReadHead, Goto, Calling
  <2> QED
    BY <1>3, <2>1 DEF Typed, TypeOK, Targeted, ReadHead, Goto, github, Calling
<1>4. ASSUME NEW r \in Runs, CreateRef(r) PROVE Typed'
  <2>1. target[r] \in Heads
    BY <1>4, TargetIsHead DEF CreateRef, Goto, Calling
  <2> QED
    BY <1>4, <2>1 DEF Typed, TypeOK, Targeted, CreateRef, Goto, Calling
<1>5. ASSUME NEW r \in Runs, ReadFile(r) PROVE Typed'
  BY <1>5 DEF Typed, TypeOK, Targeted, ReadFile, Goto, github, Calling
<1>6. ASSUME NEW r \in Runs, CreateFile(r) PROVE Typed'
  <2>1. target[r] \in Heads
    BY <1>6, TargetIsHead DEF CreateFile, Goto, Calling
  <2>2. /\ pc' = [pc EXCEPT ![r] = "readBase"] \/ pc' = [pc EXCEPT ![r] = "idle"]
        /\ pc[r] = "createFile"
        /\ UNCHANGED <<ref, main, pulls, target, sha, answer, faults>>
    BY <1>6 DEF CreateFile, Goto, github
  <2>3. file' \in [Heads -> Issues \cup {NoIssue}]
    <3>1. CASE file' = [file EXCEPT ![target[r]] = IssueOf[r]]
      BY <2>1, <3>1 DEF Typed, TypeOK
    <3>2. CASE file' = file
      BY <3>2 DEF Typed, TypeOK
    <3> QED
      BY <1>6, <3>1, <3>2 DEF CreateFile, github
  <2>4. CASE pc' = [pc EXCEPT ![r] = "readBase"]
    BY <2>2, <2>3, <2>4 DEF Typed, TypeOK, Targeted, Calling
  <2>5. CASE pc' = [pc EXCEPT ![r] = "idle"]
    BY <2>2, <2>3, <2>5 DEF Typed, TypeOK, Targeted, Calling
  <2> QED
    BY <2>2, <2>4, <2>5
<1>7. ASSUME NEW r \in Runs, ReadBase(r) PROVE Typed'
  BY <1>7 DEF Typed, TypeOK, Targeted, ReadBase, Goto, github, Calling
<1>8. ASSUME NEW r \in Runs, NEW from \in {"listPulls", "relist"},
             AnswerWithOpen(r, from)
      PROVE  Typed'
  <2>1. target[r] \in Heads
    BY <1>8, TargetIsHead DEF AnswerWithOpen, Goto, Calling
  <2>2. PICK n \in 1..Len(pulls[target[r]]) :
          answer' = [answer EXCEPT ![r] = <<target[r], n>>]
    BY <1>8 DEF AnswerWithOpen
  <2>3. n \in Nat
    BY <2>1 DEF Typed, TypeOK
  <2> QED
    BY <1>8, <2>1, <2>2, <2>3
    DEF Typed, TypeOK, Targeted, AnswerWithOpen, Goto, github, Calling
<1>9. ASSUME NEW r \in Runs, ListPulls(r) PROVE Typed'
  <2>1. CASE AnswerWithOpen(r, "listPulls")
    BY <1>8, <2>1
  <2>2. CASE Goto(r, "listPulls", "createPull")
             /\ UNCHANGED <<github, target, sha, answer, faults>>
    BY <2>2 DEF Typed, TypeOK, Targeted, Goto, github, Calling
  <2> QED
    BY <1>9, <2>1, <2>2 DEF ListPulls
<1>10. ASSUME NEW r \in Runs, CreatePull(r) PROVE Typed'
  <2> DEFINE h == target[r]
  <2>1. h \in Heads
    BY <1>10, TargetIsHead DEF CreatePull, Goto, Calling
  <2>2. CASE Creatable(h)
    <3> DEFINE x == [state |-> "open", issue |-> file[h]]
    <3>1. /\ Goto(r, "createPull", "answered")
          /\ pulls' = [pulls EXCEPT ![h] = Append(@, x)]
          /\ answer' = [answer EXCEPT ![r] = <<h, Len(pulls[h]) + 1>>]
          /\ UNCHANGED <<ref, file, main, target, sha, faults>>
      BY <1>10, <2>2 DEF CreatePull
    <3>2. x \in Pull
      BY <2>1 DEF Typed, TypeOK, Pull
    <3>3. pulls \in [Heads -> Seq(Pull)]
      BY DEF Typed, TypeOK
    <3>4. /\ pulls' \in [Heads -> Seq(Pull)]
          /\ Len(pulls'[h]) = Len(pulls[h]) + 1
          /\ \A g \in Heads \ {h} : pulls'[g] = pulls[g]
      <4> HIDE DEF x, h
      <4> QED
        BY <2>1, <3>1, <3>2, <3>3, AppendedPulls
    <3>5. Len(pulls[h]) \in Nat
      BY <2>1, <3>3
    <3> HIDE DEF x, h
    <3>6. answer' \in [Runs -> (Heads \X Nat) \cup {NoPull}]
      BY <2>1, <3>1, <3>5 DEF Typed, TypeOK
    <3>7. ASSUME NEW q \in Runs, answer'[q] # NoPull
          PROVE  answer'[q][2] \in 1..Len(pulls'[answer'[q][1]])
      <4>1. CASE q = r
        BY <2>1, <3>1, <3>4, <3>5, <4>1 DEF Typed, TypeOK
      <4>2. CASE q # r
        <5>1. answer'[q] = answer[q] /\ answer[q] \in Heads \X Nat
          BY <3>1, <3>7, <4>2 DEF Typed, TypeOK
        <5>2. answer[q][2] \in 1..Len(pulls[answer[q][1]])
          BY <3>7, <5>1 DEF Typed, TypeOK
        <5> QED
          <6>1. answer[q][1] \in Heads
            BY <5>1
          <6>2. CASE answer[q][1] = h
            BY <3>4, <3>5, <5>1, <5>2, <6>2
          <6>3. CASE answer[q][1] # h
            BY <3>4, <5>1, <5>2, <6>1, <6>3
          <6> QED
            BY <6>2, <6>3
      <4> QED
        BY <4>1, <4>2
    <3> QED
      BY <3>1, <3>4, <3>6, <3>7
      DEF Typed, TypeOK, Targeted, Goto, Calling
  <2>3. CASE ~Creatable(h)
    <3>1. Goto(r, "createPull", "relist") /\ UNCHANGED <<github, target, sha, answer, faults>>
      BY <1>10, <2>3 DEF CreatePull
    <3> QED
      BY <3>1 DEF Typed, TypeOK, Targeted, Goto, github, Calling
  <2> QED
    BY <2>2, <2>3
<1>11. ASSUME NEW r \in Runs, Relist(r) PROVE Typed'
  <2>1. CASE AnswerWithOpen(r, "relist")
    BY <1>8, <2>1
  <2>2. CASE Goto(r, "relist", "idle")
             /\ UNCHANGED <<github, target, sha, answer, faults>>
    BY <2>2 DEF Typed, TypeOK, Targeted, Goto, github, Calling
  <2> QED
    BY <1>11, <2>1, <2>2 DEF Relist
<1>12. ASSUME NEW r \in Runs, Record(r) PROVE Typed'
  BY <1>12 DEF Typed, TypeOK, Targeted, Record, Goto, github, Calling
<1>13. ASSUME NEW r \in Runs, Fail(r) PROVE Typed'
  BY <1>13 DEF Typed, TypeOK, Targeted, Fail, github, Calling
<1>14. ASSUME NEW h \in Heads, MergePull(h) \/ ClosePull(h) PROVE Typed'
  <2>1. PICK n \in 1..Len(pulls[h]), end \in {"closed", "merged"} :
          pulls' = [pulls EXCEPT ![h][n].state = end]
    BY <1>14 DEF MergePull, ClosePull
  <2>2. /\ pulls' \in [Heads -> Seq(Pull)]
        /\ \A g \in Heads : Len(pulls'[g]) = Len(pulls[g])
    BY <2>1, SettledPulls DEF Typed, TypeOK
  <2>3. main' \in [Heads -> Issues \cup {NoIssue}]
    <3>1. CASE main' = [main EXCEPT ![h] = file[h]]
      BY <3>1 DEF Typed, TypeOK
    <3>2. CASE main' = main
      BY <3>2 DEF Typed, TypeOK
    <3> QED
      BY <1>14, <3>1, <3>2 DEF MergePull, ClosePull
  <2>4. UNCHANGED <<ref, file, pc, target, sha, answer, faults>>
    BY <1>14 DEF MergePull, ClosePull
  <2>5. ASSUME NEW r \in Runs, answer[r] # NoPull
        PROVE  answer[r][2] \in 1..Len(pulls'[answer[r][1]])
    <3>1. answer[r][1] \in Heads /\ answer[r][2] \in 1..Len(pulls[answer[r][1]])
      BY <2>5 DEF Typed, TypeOK
    <3> QED
      BY <2>2, <3>1
  <2>6. TypeOK'
    <3>1. \A r \in Runs :
            answer'[r] # NoPull => answer'[r][2] \in 1..Len(pulls'[answer'[r][1]])
      BY <2>4, <2>5
    <3> QED
      BY <2>2, <2>3, <2>4, <3>1 DEF Typed, TypeOK
  <2>7. Targeted'
    BY <2>4 DEF Typed, Targeted
  <2> QED
    BY <2>6, <2>7 DEF Typed
<1>15. ASSUME NEW h \in Heads, DeleteBranch(h) PROVE Typed'
  BY <1>15 DEF Typed, TypeOK, Targeted, DeleteBranch
<1>16. CASE UNCHANGED vars
  BY <1>16 DEF Typed, TypeOK, Targeted, vars
<1> QED
  BY <1>1, <1>2, <1>3, <1>4, <1>5, <1>6, <1>7, <1>9, <1>10, <1>11, <1>12,
     <1>13, <1>14, <1>15, <1>16 DEF Next, Step

(* Every state of every behaviour is well typed, and every URL a run was   *)
(* answered with names a pull request that exists.                         *)
THEOREM TypeCorrect == Spec => []TypeOK
<1>1. Typed => TypeOK
  BY DEF Typed
<1> QED
  BY InitTyped, TypedStep, <1>1, PTL DEF Spec

-----------------------------------------------------------------------------
(* The remaining parts of WriterInv, one lemma each.  Calls that touch      *)
(* nothing on GitHub are collected in one case.                            *)
Silent(r) ==
  \/ \E p \in Repos : Begin(r, p)
  \/ ReadRef(r) \/ ReadFile(r) \/ ReadBase(r) \/ ListPulls(r) \/ Relist(r)
  \/ Record(r) \/ Fail(r)

(* A silent call or fault leaves GitHub as it was.                          *)
LEMMA SilentStep ==
  ASSUME NEW r \in Runs, Silent(r) PROVE UNCHANGED <<github, sha>>
BY DEF Silent, Begin, ReadRef, ReadFile, ReadBase, ListPulls, Relist, Record,
       Fail, AnswerWithOpen, github

(* The steps that are not silent, one by one.                              *)
LEMMA StepCases ==
  ASSUME [Next]_vars
  PROVE  \/ \E r \in Runs : \/ Silent(r) \/ ReadHead(r) \/ CreateRef(r)
                            \/ CreateFile(r) \/ CreatePull(r)
         \/ \E h \in Heads : MergePull(h) \/ ClosePull(h) \/ DeleteBranch(h)
         \/ UNCHANGED vars
BY DEF Next, Step, Silent

(* What CreateRef and CreateFile do to a branch that holds a spec: nothing. *)
LEMMA SpecStays ==
  ASSUME Typed, SlugsMatch, NEW r \in Runs, CreateRef(r) \/ CreateFile(r),
         NEW h \in Heads
  PROVE  /\ ref[h] => ref'[h]
         /\ file[h] # NoIssue => file'[h] = file[h]
<1>1. target[r] \in Heads
  BY TargetIsHead DEF CreateRef, CreateFile, Goto, Calling
<1>2. CASE CreateRef(r)
  BY <1>1, <1>2 DEF CreateRef, SlugsMatch, Typed, TypeOK
<1>3. CASE CreateFile(r)
  <2>1. ref' = ref
    BY <1>3 DEF CreateFile, github
  <2>2. CASE file' = file
    BY <2>1, <2>2
  <2>3. CASE file[target[r]] = NoIssue
             /\ file' = [file EXCEPT ![target[r]] = IssueOf[r]]
    BY <1>1, <2>1, <2>3 DEF Typed, TypeOK
  <2> QED
    BY <1>3, <2>2, <2>3 DEF CreateFile, github
<1> QED
  BY <1>2, <1>3

(* What CreatePull does when it is not refused.                            *)
LEMMA CreatedPull ==
  ASSUME Typed, NEW r \in Runs, CreatePull(r)
  PROVE  \/ UNCHANGED <<github, sha, answer>>
         \/ /\ Creatable(target[r])
            /\ target[r] \in Heads
            /\ UNCHANGED <<ref, file, main, sha>>
            /\ answer' = [answer EXCEPT ![r] = <<target[r], Len(pulls[target[r]]) + 1>>]
            /\ Len(pulls[target[r]]) \in Nat
            /\ Len(pulls'[target[r]]) = Len(pulls[target[r]]) + 1
            /\ pulls'[target[r]][Len(pulls[target[r]]) + 1]
                 = [state |-> "open", issue |-> file[target[r]]]
            /\ \A m \in 1..Len(pulls[target[r]]) :
                 pulls'[target[r]][m] = pulls[target[r]][m]
            /\ \A g \in Heads \ {target[r]} : pulls'[g] = pulls[g]
<1> DEFINE h == target[r]
<1> DEFINE x == [state |-> "open", issue |-> file[h]]
<1>1. h \in Heads
  BY TargetIsHead DEF CreatePull, Goto, Calling
<1>2. CASE Creatable(h)
  <2>1. x \in Pull /\ pulls \in [Heads -> Seq(Pull)]
    BY <1>1 DEF Typed, TypeOK, Pull
  <2>2. pulls' = [pulls EXCEPT ![h] = Append(@, x)]
    BY <1>2 DEF CreatePull
  <2>3. /\ Len(pulls'[h]) = Len(pulls[h]) + 1
        /\ pulls'[h][Len(pulls[h]) + 1] = x
        /\ \A m \in 1..Len(pulls[h]) : pulls'[h][m] = pulls[h][m]
        /\ \A g \in Heads \ {h} : pulls'[g] = pulls[g]
    <3> HIDE DEF x, h
    <3> QED
      BY <1>1, <2>1, <2>2, AppendedPulls
  <2>4. /\ UNCHANGED <<ref, file, main, sha>>
        /\ answer' = [answer EXCEPT ![r] = <<h, Len(pulls[h]) + 1>>]
    BY <1>2 DEF CreatePull
  <2>5. Len(pulls[h]) \in Nat
    BY <1>1, <2>1
  <2> QED
    BY <1>1, <1>2, <2>3, <2>4, <2>5
<1>3. CASE ~Creatable(h)
  BY <1>3 DEF CreatePull, github
<1> QED
  BY <1>2, <1>3

(* What people do to the pull requests of h.                               *)
LEMMA EndedPull ==
  ASSUME Typed, NEW h \in Heads, MergePull(h) \/ ClosePull(h)
  PROVE  /\ UNCHANGED <<ref, file, sha, pc, target, answer>>
         /\ main' = main \/ main' = [main EXCEPT ![h] = file[h]]
         /\ \A g \in Heads : Len(pulls'[g]) = Len(pulls[g])
         /\ \A g \in Heads : \A m \in 1..Len(pulls[g]) :
              /\ pulls'[g][m].issue = pulls[g][m].issue
              /\ pulls'[g][m].state = "open" => pulls[g][m].state = "open"
<1>1. PICK n \in 1..Len(pulls[h]), end \in {"closed", "merged"} :
        pulls' = [pulls EXCEPT ![h][n].state = end]
  BY DEF MergePull, ClosePull
<1>2. /\ \A g \in Heads : Len(pulls'[g]) = Len(pulls[g])
      /\ \A g \in Heads : \A m \in 1..Len(pulls[g]) :
           /\ pulls'[g][m].issue = pulls[g][m].issue
           /\ pulls'[g][m].state = "open" => pulls[g][m].state = "open"
  BY <1>1, SettledPulls DEF Typed, TypeOK
<1> QED
  BY <1>2 DEF MergePull, ClosePull

(* Whatever spec a step leaves at a head is of an issue with its slug.      *)
LEMMA SlugsStep ==
  ASSUME Typed, SlugsMatch, [Next]_vars PROVE SlugsMatch'
<1> USE ConstantsAssumption
<1>1. ASSUME NEW r \in Runs, Silent(r) PROVE SlugsMatch'
  BY <1>1, SilentStep DEF SlugsMatch, github
<1>2. ASSUME NEW r \in Runs, ReadHead(r) PROVE SlugsMatch'
  <2>1. target[r] \in Heads /\ target[r][2] = SlugOf[IssueOf[r]]
    BY <1>2, TargetIsHead DEF ReadHead, Goto, Calling
  <2>2. main[target[r]] # NoIssue => SlugOf[main[target[r]]] = SlugOf[IssueOf[r]]
    BY <2>1 DEF SlugsMatch
  <2> QED
    BY <1>2, <2>1, <2>2 DEF SlugsMatch, Typed, TypeOK, ReadHead, github
<1>3. ASSUME NEW r \in Runs, CreateRef(r) \/ CreateFile(r) PROVE SlugsMatch'
  <2>1. target[r] \in Heads /\ target[r][2] = SlugOf[IssueOf[r]]
    BY <1>3, TargetIsHead DEF CreateRef, CreateFile, Goto, Calling
  <2>2. UNCHANGED <<main, pulls, sha>>
    BY <1>3 DEF CreateRef, CreateFile, github
  <2>3. ASSUME NEW h \in Heads, file'[h] # NoIssue
        PROVE  ref'[h] /\ SlugOf[file'[h]] = h[2]
    <3>1. CASE file'[h] = file[h]
      BY <1>3, <2>3, <3>1, SpecStays DEF SlugsMatch
    <3>2. CASE file'[h] # file[h] /\ CreateRef(r)
      <4>1. h = target[r] /\ file'[h] = sha[r] /\ ref'[h]
        BY <2>1, <3>2 DEF CreateRef, Typed, TypeOK
      <4> QED
        BY <2>1, <2>3, <4>1 DEF SlugsMatch
    <3>3. CASE file'[h] # file[h] /\ CreateFile(r)
      <4>1. h = target[r] /\ file'[h] = IssueOf[r] /\ ref[h] /\ ref' = ref
        BY <2>1, <3>3 DEF CreateFile, Typed, TypeOK, github
      <4> QED
        BY <2>1, <4>1
    <3> QED
      BY <1>3, <3>1, <3>2, <3>3
  <2> QED
    BY <2>2, <2>3 DEF SlugsMatch
<1>4. ASSUME NEW r \in Runs, CreatePull(r) PROVE SlugsMatch'
  <2>1. CASE UNCHANGED <<github, sha, answer>>
    BY <2>1 DEF SlugsMatch, github
  <2>2. CASE ~UNCHANGED <<github, sha, answer>>
    <3> DEFINE g == target[r]
    <3>1. /\ g \in Heads
          /\ UNCHANGED <<ref, file, main, sha>>
          /\ Len(pulls[g]) \in Nat /\ Len(pulls'[g]) = Len(pulls[g]) + 1
          /\ pulls'[g][Len(pulls[g]) + 1] = [state |-> "open", issue |-> file[g]]
          /\ \A m \in 1..Len(pulls[g]) : pulls'[g][m] = pulls[g][m]
          /\ \A h \in Heads \ {g} : pulls'[h] = pulls[h]
      BY <1>4, <2>2, CreatedPull
    <3> HIDE DEF g
    <3>2. ASSUME NEW h \in Heads, NEW n \in 1..Len(pulls'[h]),
                 pulls'[h][n].issue # NoIssue
          PROVE  SlugOf[pulls'[h][n].issue] = h[2]
      <4>1. CASE h # g
        BY <3>1, <3>2, <4>1 DEF SlugsMatch
      <4>2. CASE h = g /\ n = Len(pulls[g]) + 1
        BY <3>1, <3>2, <4>2 DEF SlugsMatch
      <4>3. CASE h = g /\ n \in 1..Len(pulls[g])
        BY <3>1, <3>2, <4>3 DEF SlugsMatch
      <4> QED
        BY <3>1, <4>1, <4>2, <4>3
    <3> QED
      BY <3>1, <3>2 DEF SlugsMatch
  <2> QED
    BY <2>1, <2>2
<1>5. ASSUME NEW h \in Heads, MergePull(h) \/ ClosePull(h) PROVE SlugsMatch'
  <2>1. /\ UNCHANGED <<ref, file, sha>>
        /\ \A g \in Heads : Len(pulls'[g]) = Len(pulls[g])
        /\ \A g \in Heads : \A m \in 1..Len(pulls[g]) :
             pulls'[g][m].issue = pulls[g][m].issue
    BY <1>5, EndedPull
  <2>2. \A g \in Heads : main'[g] = main[g] \/ (g = h /\ main'[g] = file[h])
    <3>1. CASE main' = main
      BY <3>1
    <3>2. CASE main' = [main EXCEPT ![h] = file[h]]
      BY <3>2 DEF Typed, TypeOK
    <3> QED
      BY <1>5, <3>1, <3>2, EndedPull
  <2>3. \A g \in Heads : main'[g] # NoIssue => SlugOf[main'[g]] = g[2]
    BY <2>2 DEF SlugsMatch
  <2>4. \A g \in Heads : \A n \in 1..Len(pulls'[g]) :
          pulls'[g][n].issue # NoIssue => SlugOf[pulls'[g][n].issue] = g[2]
    BY <2>1 DEF SlugsMatch
  <2> QED
    BY <2>1, <2>3, <2>4 DEF SlugsMatch
<1>6. ASSUME NEW h \in Heads, DeleteBranch(h) PROVE SlugsMatch'
  BY <1>6 DEF DeleteBranch, SlugsMatch, Typed, TypeOK
<1>7. CASE UNCHANGED vars
  BY <1>7 DEF SlugsMatch, vars
<1> QED
  BY <1>1, <1>2, <1>3, <1>4, <1>5, <1>6, <1>7, StepCases

(* The file is on the branch from the read or create of the file onwards.  *)
LEMMA FiledFirstStep ==
  ASSUME EmptyIsImpossible, Typed, SlugsMatch, FiledFirst, [Next]_vars
  PROVE  FiledFirst'
<1> SUFFICES ASSUME ~RefusesEmpty, NEW q \in Runs,
                    pc'[q] \in {"readBase", "listPulls", "createPull", "relist"}
             PROVE  file'[target'[q]] # NoIssue
  BY DEF FiledFirst
<1> DEFINE Past == {"readBase", "listPulls", "createPull", "relist"}
<1>1. "delete" \notin Reviewers
  BY DEF EmptyIsImpossible
<1>2. ASSUME pc[q] \in Past, target'[q] = target[q],
             \A h \in Heads : file[h] # NoIssue => file'[h] # NoIssue
      PROVE  file'[target'[q]] # NoIssue
  BY <1>2, TargetIsHead DEF FiledFirst, Calling
<1>3. ASSUME NEW r \in Runs, Silent(r) PROVE file'[target'[q]] # NoIssue
  <2>1. file' = file
    BY <1>3, SilentStep DEF github
  <2>2. CASE pc[q] \in Past /\ target'[q] = target[q]
    BY <1>2, <2>1, <2>2
  <2>3. CASE \E p \in Repos : Begin(r, p)
    <3>1. PICK p \in Repos : Begin(r, p)
      BY <2>3
    <3>2. q # r
      BY <3>1 DEF Begin, Goto, Typed, TypeOK
    <3>3. pc'[q] = pc[q] /\ target'[q] = target[q]
      BY <3>1, <3>2 DEF Begin, Goto, Typed, TypeOK
    <3> QED
      BY <2>2, <3>3
  <2>4. CASE ReadRef(r) \/ ReadBase(r) \/ ListPulls(r) \/ Relist(r) \/ Record(r)
             \/ Fail(r)
    BY <2>2, <2>4
    DEF ReadRef, ReadBase, ListPulls, Relist, Record, Fail, AnswerWithOpen, Goto,
        Typed, TypeOK
  <2>5. CASE ReadFile(r)
    <3>1. target' = target
      BY <2>5 DEF ReadFile
    <3>2. CASE q = r
      BY <2>1, <2>5, <3>1, <3>2 DEF ReadFile, Goto, Typed, TypeOK
    <3>3. CASE q # r
      BY <2>2, <2>5, <3>1, <3>3 DEF ReadFile, Goto, Typed, TypeOK
    <3> QED
      BY <3>2, <3>3
  <2> QED
    BY <1>3, <2>3, <2>4, <2>5 DEF Silent
<1>4. ASSUME NEW r \in Runs, ReadHead(r) PROVE file'[target'[q]] # NoIssue
  BY <1>2, <1>4 DEF ReadHead, Goto, github, Typed, TypeOK
<1>5. ASSUME NEW r \in Runs, CreateRef(r) PROVE file'[target'[q]] # NoIssue
  <2>1. \A h \in Heads : file[h] # NoIssue => file'[h] # NoIssue
    BY <1>5, SpecStays
  <2>2. pc[q] \in Past /\ target'[q] = target[q]
    BY <1>5 DEF CreateRef, Goto, Typed, TypeOK
  <2> QED
    BY <1>2, <2>1, <2>2
<1>6. ASSUME NEW r \in Runs, CreateFile(r) PROVE file'[target'[q]] # NoIssue
  <2>1. \A h \in Heads : file[h] # NoIssue => file'[h] # NoIssue
    BY <1>6, SpecStays
  <2>2. target' = target
    BY <1>6 DEF CreateFile
  <2>3. CASE q = r
    <3>1. target[r] \in Heads /\ IssueOf[r] \in Issues
      BY <1>6, TargetIsHead, ConstantsAssumption DEF CreateFile, Goto, Calling
    <3>2. Goto(r, "createFile", "readBase")
          /\ file' = [file EXCEPT ![target[r]] = IssueOf[r]]
      BY <1>6, <2>3 DEF CreateFile, Goto, Typed, TypeOK
    <3> QED
      BY <2>2, <2>3, <3>1, <3>2, ConstantsAssumption DEF Typed, TypeOK
  <2>4. CASE q # r
    <3>1. pc'[q] = pc[q]
      BY <1>6, <2>4 DEF CreateFile, Goto, Typed, TypeOK
    <3> QED
      BY <1>2, <2>1, <2>2, <3>1
  <2> QED
    BY <2>3, <2>4
<1>7. ASSUME NEW r \in Runs, CreatePull(r) PROVE file'[target'[q]] # NoIssue
  <2>1. file' = file /\ target' = target
    BY <1>7 DEF CreatePull, github
  <2>2. pc[q] \in Past
    BY <1>7 DEF CreatePull, Goto, Typed, TypeOK
  <2> QED
    BY <1>2, <2>1, <2>2
<1>8. ASSUME NEW h \in Heads, MergePull(h) \/ ClosePull(h)
      PROVE  file'[target'[q]] # NoIssue
  BY <1>2, <1>8, EndedPull
<1>9. ASSUME NEW h \in Heads, DeleteBranch(h) PROVE file'[target'[q]] # NoIssue
  BY <1>1, <1>9 DEF DeleteBranch
<1>10. CASE UNCHANGED vars
  BY <1>2, <1>10 DEF vars
<1> QED
  BY <1>3, <1>4, <1>5, <1>6, <1>7, <1>8, <1>9, <1>10, StepCases

(* A pull request is opened with a spec behind it, and keeps it while open. *)
LEMMA NoneEmptyStep ==
  ASSUME Typed, SlugsMatch, FiledFirst, NoneEmpty, [Next]_vars
  PROVE  NoneEmpty'
<1>1. ASSUME NEW r \in Runs, Silent(r) \/ ReadHead(r) PROVE NoneEmpty'
  BY <1>1, SilentStep
  DEF ReadHead, NoneEmpty, PullCarriesSpec, HasOpen, IsOpen, github
<1>2. ASSUME NEW r \in Runs, CreateRef(r) \/ CreateFile(r) PROVE NoneEmpty'
  <2>1. pulls' = pulls
    BY <1>2 DEF CreateRef, CreateFile, github
  <2>2. ASSUME NEW h \in Heads, HasOpen(h)' PROVE ref'[h] /\ file'[h] # NoIssue
    <3>1. HasOpen(h)
      BY <2>1, <2>2 DEF HasOpen, IsOpen
    <3>2. ref[h] /\ file[h] # NoIssue
      BY <3>1 DEF NoneEmpty, PullCarriesSpec
    <3> QED
      BY <1>2, <3>2, SpecStays
  <2> QED
    BY <2>1, <2>2 DEF NoneEmpty, PullCarriesSpec
<1>3. ASSUME NEW r \in Runs, CreatePull(r) PROVE NoneEmpty'
  <2>1. CASE UNCHANGED <<github, sha, answer>>
    BY <2>1 DEF NoneEmpty, PullCarriesSpec, HasOpen, IsOpen, github
  <2>2. CASE ~UNCHANGED <<github, sha, answer>>
    <3> DEFINE g == target[r]
    <3>1. /\ g \in Heads /\ Creatable(g)
          /\ UNCHANGED <<ref, file>>
          /\ Len(pulls[g]) \in Nat /\ Len(pulls'[g]) = Len(pulls[g]) + 1
          /\ pulls'[g][Len(pulls[g]) + 1] = [state |-> "open", issue |-> file[g]]
          /\ \A m \in 1..Len(pulls[g]) : pulls'[g][m] = pulls[g][m]
          /\ \A h \in Heads \ {g} : pulls'[h] = pulls[h]
      BY <1>3, <2>2, CreatedPull
    <3>2. ref[g] /\ file[g] # NoIssue
      <4>1. CASE RefusesEmpty
        BY <3>1, <4>1 DEF Creatable, Ahead
      <4>2. CASE ~RefusesEmpty
        BY <1>3, <3>1, <4>2 DEF FiledFirst, CreatePull, Goto, Creatable
      <4> QED
        BY <4>1, <4>2
    <3> HIDE DEF g
    <3>3. ASSUME NEW h \in Heads, HasOpen(h)' PROVE ref'[h] /\ file'[h] # NoIssue
      <4>1. CASE h = g
        BY <3>1, <3>2, <4>1
      <4>2. CASE h # g
        BY <3>1, <3>3, <4>2 DEF NoneEmpty, PullCarriesSpec, HasOpen, IsOpen
      <4> QED
        BY <4>1, <4>2
    <3>4. ASSUME NEW h \in Heads, NEW n \in 1..Len(pulls'[h])
          PROVE  pulls'[h][n].issue # NoIssue
      <4>1. CASE h # g
        BY <3>1, <3>4, <4>1 DEF NoneEmpty
      <4>2. CASE h = g /\ n = Len(pulls[g]) + 1
        BY <3>1, <3>2, <4>2
      <4>3. CASE h = g /\ n \in 1..Len(pulls[g])
        BY <3>1, <4>3 DEF NoneEmpty
      <4> QED
        BY <3>1, <4>1, <4>2, <4>3
    <3> QED
      BY <3>3, <3>4 DEF NoneEmpty, PullCarriesSpec
  <2> QED
    BY <2>1, <2>2
<1>4. ASSUME NEW h \in Heads, MergePull(h) \/ ClosePull(h) PROVE NoneEmpty'
  <2>1. /\ UNCHANGED <<ref, file>>
        /\ \A g \in Heads : Len(pulls'[g]) = Len(pulls[g])
        /\ \A g \in Heads : \A m \in 1..Len(pulls[g]) :
             /\ pulls'[g][m].issue = pulls[g][m].issue
             /\ pulls'[g][m].state = "open" => pulls[g][m].state = "open"
    BY <1>4, EndedPull
  <2>2. \A g \in Heads : HasOpen(g)' => HasOpen(g)
    BY <2>1 DEF HasOpen, IsOpen
  <2> QED
    BY <2>1, <2>2 DEF NoneEmpty, PullCarriesSpec
<1>5. ASSUME NEW h \in Heads, DeleteBranch(h) PROVE NoneEmpty'
  BY <1>5
  DEF DeleteBranch, NoneEmpty, PullCarriesSpec, HasOpen, IsOpen, Typed, TypeOK
<1>6. CASE UNCHANGED vars
  BY <1>6 DEF NoneEmpty, PullCarriesSpec, HasOpen, IsOpen, vars
<1> QED
  BY <1>1, <1>2, <1>3, <1>4, <1>5, <1>6, StepCases

(* Answers name a head of the run's own issue.                             *)
LEMMA AnswerOwnStep ==
  ASSUME Typed, AnswerOwn, [Next]_vars PROVE AnswerOwn'
<1> SUFFICES ASSUME NEW q \in Runs, answer'[q] # NoPull
             PROVE  answer'[q][1] \in HeadsOf[IssueOf[q]]
  BY DEF AnswerOwn
<1>1. CASE answer'[q] = answer[q]
  BY <1>1 DEF AnswerOwn
<1>2. ASSUME NEW r \in Runs, NEW from \in {"listPulls", "relist"},
             AnswerWithOpen(r, from), answer'[q] # answer[q]
      PROVE  answer'[q][1] \in HeadsOf[IssueOf[q]]
  <2>1. target[r] \in HeadsOf[IssueOf[r]]
    BY <1>2, TargetIsHead DEF AnswerWithOpen, Goto, Calling
  <2>2. q = r /\ answer'[q][1] = target[r]
    BY <1>2 DEF AnswerWithOpen, Typed, TypeOK
  <2> QED
    BY <2>1, <2>2
<1>3. ASSUME NEW r \in Runs, CreatePull(r), answer'[q] # answer[q]
      PROVE  answer'[q][1] \in HeadsOf[IssueOf[q]]
  <2>1. target[r] \in HeadsOf[IssueOf[r]]
    BY <1>3, TargetIsHead DEF CreatePull, Goto, Calling
  <2>2. answer' = [answer EXCEPT ![r] = <<target[r], Len(pulls[target[r]]) + 1>>]
    BY <1>3, CreatedPull
  <2>3. q = r /\ answer'[q][1] = target[r]
    BY <1>3, <2>2 DEF Typed, TypeOK
  <2> QED
    BY <2>1, <2>3
<1>4. ASSUME NEW r \in Runs, Fail(r), answer'[q] # answer[q] PROVE FALSE
  BY <1>4 DEF Fail, Typed, TypeOK
<1>5. ASSUME NEW r \in Runs, ListPulls(r) \/ Relist(r), answer'[q] # answer[q]
      PROVE  answer'[q][1] \in HeadsOf[IssueOf[q]]
  <2>1. \E from \in {"listPulls", "relist"} : AnswerWithOpen(r, from)
    BY <1>5 DEF ListPulls, Relist
  <2> QED
    BY <1>2, <1>5, <2>1
<1>6. ASSUME NEW r \in Runs,
             \/ \E p \in Repos : Begin(r, p)
             \/ ReadRef(r) \/ ReadHead(r) \/ CreateRef(r) \/ ReadFile(r)
             \/ CreateFile(r) \/ ReadBase(r) \/ Record(r)
      PROVE  answer' = answer
  BY <1>6 DEF Begin, ReadRef, ReadHead, CreateRef, ReadFile, CreateFile,
              ReadBase, Record
<1>7. ASSUME NEW h \in Heads, MergePull(h) \/ ClosePull(h) \/ DeleteBranch(h)
      PROVE  answer' = answer
  BY <1>7 DEF MergePull, ClosePull, DeleteBranch
<1>8. CASE UNCHANGED vars
  BY <1>1, <1>8 DEF vars
<1> QED
  BY <1>1, <1>3, <1>4, <1>5, <1>6, <1>7, <1>8 DEF Next, Step

(* The inductive invariant holds before the first Job.                      *)
LEMMA InitInv == Init => WriterInv
<1> SUFFICES ASSUME Init PROVE WriterInv
  OBVIOUS
<1>1. Typed
  BY InitTyped
<1>2. \A h \in Heads : pulls[h] = <<>> /\ Len(pulls[h]) = 0
  BY DEF Init
<1>3. SlugsMatch /\ NoneEmpty
  BY <1>2 DEF Init, SlugsMatch, NoneEmpty, PullCarriesSpec, HasOpen, IsOpen
<1>4. FiledFirst /\ AnswerOwn
  BY DEF Init, FiledFirst, AnswerOwn
<1> QED
  BY <1>1, <1>3, <1>4 DEF WriterInv, Typed

(* Every step keeps the inductive invariant.                               *)
LEMMA StepInv == EmptyIsImpossible /\ WriterInv /\ [Next]_vars => WriterInv'
<1> SUFFICES ASSUME EmptyIsImpossible, WriterInv, [Next]_vars PROVE WriterInv'
  OBVIOUS
<1>1. Typed
  BY DEF WriterInv, Typed
<1>2. Typed'
  BY <1>1, TypedStep
<1>3. SlugsMatch' /\ FiledFirst' /\ NoneEmpty' /\ AnswerOwn'
  BY <1>1, SlugsStep, FiledFirstStep, NoneEmptyStep, AnswerOwnStep DEF WriterInv
<1> QED
  BY <1>2, <1>3 DEF WriterInv, Typed

(* The inductive invariant holds of every behaviour, when GitHub refuses an *)
(* empty pull request or nobody deletes branches.                          *)
THEOREM WriterCorrect == EmptyIsImpossible => (Spec => []WriterInv)
<1> SUFFICES ASSUME EmptyIsImpossible PROVE Spec => []WriterInv
  OBVIOUS
<1>1. WriterInv /\ [Next]_vars => WriterInv'
  BY StepInv
<1> QED
  BY InitInv, <1>1, PTL DEF Spec

(* No open pull request ever points at a branch without a spec, for any     *)
(* number of concurrent runs, crashes and API errors.                      *)
THEOREM PullsCarrySpecs == EmptyIsImpossible => (Spec => []PullCarriesSpec)
<1> SUFFICES ASSUME EmptyIsImpossible PROVE Spec => []PullCarriesSpec
  OBVIOUS
<1>1. WriterInv => PullCarriesSpec
  BY DEF WriterInv, NoneEmpty
<1> QED
  BY WriterCorrect, <1>1, PTL

(* Distinct issue ids have distinct slugs: what FiledIsOwnSpec and Promise  *)
(* need of specSlug, and what it does not give for every pair of ids.      *)
SlugsDiffer == \A i, j \in Issues : SlugOf[i] = SlugOf[j] => i = j

(* A spec found at a head of an issue is the spec of that issue.           *)
LEMMA OwnPull ==
  ASSUME SlugsDiffer, WriterInv, NEW r \in Runs, NEW h \in HeadsOf[IssueOf[r]],
         NEW n \in 1..Len(pulls[h])
  PROVE  h \in Heads /\ pulls[h][n].issue = IssueOf[r]
<1>1. IssueOf[r] \in Issues
  BY ConstantsAssumption
<1>2. PICK p \in Repos : h = <<p, SlugOf[IssueOf[r]]>>
  BY <1>1 DEF HeadsOf
<1>3. h \in Heads
  BY <1>1, <1>2, HeadType
<1>4. pulls[h][n] \in Pull
  BY <1>3 DEF WriterInv, TypeOK
<1>5. pulls[h][n].issue # NoIssue /\ pulls[h][n].issue \in Issues
  BY <1>3, <1>4 DEF WriterInv, NoneEmpty, Pull
<1>6. SlugOf[pulls[h][n].issue] = SlugOf[IssueOf[r]]
  BY <1>2, <1>3, <1>5 DEF WriterInv, SlugsMatch
<1> QED
  BY <1>1, <1>3, <1>5, <1>6 DEF SlugsDiffer

(* A run is only ever answered with a pull request that carries the spec of *)
(* its own issue, found or created, as long as no two issue ids share a     *)
(* slug.                                                                   *)
THEOREM FiledOwn ==
  EmptyIsImpossible /\ SlugsDiffer => (Spec => []FiledIsOwnSpec)
<1> SUFFICES ASSUME EmptyIsImpossible, SlugsDiffer PROVE Spec => []FiledIsOwnSpec
  OBVIOUS
<1>1. WriterInv => FiledIsOwnSpec
  <2> SUFFICES ASSUME WriterInv, NEW r \in Runs, answer[r] # NoPull
               PROVE  pulls[answer[r][1]][answer[r][2]].issue = IssueOf[r]
    BY DEF FiledIsOwnSpec
  <2>1. /\ answer[r][1] \in HeadsOf[IssueOf[r]]
        /\ answer[r][2] \in 1..Len(pulls[answer[r][1]])
    BY DEF WriterInv, AnswerOwn, TypeOK
  <2> QED
    BY <2>1, OwnPull
<1> QED
  BY WriterCorrect, <1>1, PTL

(* No step changes the spec under a pull request that is open for review.  *)
THEOREM PullsFrozen == EmptyIsImpossible => (Spec => PullFrozen)
<1> SUFFICES ASSUME EmptyIsImpossible PROVE Spec => PullFrozen
  OBVIOUS
<1>1. ASSUME WriterInv, [Next]_vars, NEW h \in Heads, HasOpen(h)
      PROVE  file'[h] = file[h]
  <2>1. Typed /\ SlugsMatch /\ file[h] # NoIssue
    BY <1>1 DEF WriterInv, Typed, NoneEmpty, PullCarriesSpec
  <2>2. ASSUME NEW r \in Runs, CreateRef(r) \/ CreateFile(r)
        PROVE  file'[h] = file[h]
    BY <2>1, <2>2, SpecStays
  <2>3. ASSUME NEW r \in Runs, CreatePull(r) PROVE file'[h] = file[h]
    BY <2>3 DEF CreatePull, github
  <2>4. ASSUME NEW r \in Runs, Silent(r) \/ ReadHead(r) PROVE file'[h] = file[h]
    BY <2>4, SilentStep DEF ReadHead, github
  <2>5. ASSUME NEW g \in Heads, MergePull(g) \/ ClosePull(g)
        PROVE  file'[h] = file[h]
    BY <2>5 DEF MergePull, ClosePull
  <2>6. ASSUME NEW g \in Heads, DeleteBranch(g) PROVE file'[h] = file[h]
    BY <1>1, <2>1, <2>6 DEF DeleteBranch, Typed, TypeOK
  <2>7. CASE UNCHANGED vars
    BY <2>7 DEF vars
  <2> QED
    BY <1>1, <2>2, <2>3, <2>4, <2>5, <2>6, <2>7, StepCases
<1>2. WriterInv /\ [Next]_vars
        => [\A h \in Heads : HasOpen(h) => file'[h] = file[h]]_vars
  BY <1>1
<1> QED
  BY WriterCorrect, <1>2, PTL DEF Spec, PullFrozen

(* The writer, call by call, does what the SpecWriter interface promises:   *)
(* every step is one of SpecFiling or leaves its variables alone.          *)
THEOREM WriterKeepsPromise ==
  EmptyIsImpossible /\ SlugsDiffer => (Spec => Promise)
<1> SUFFICES ASSUME EmptyIsImpossible, SlugsDiffer PROVE Spec => Filing!Spec
  BY DEF Promise
<1> USE ConstantsAssumption
<1>1. Init => Filing!Init
  BY DEF Init, Filing!Init
<1>2. ASSUME WriterInv, [Next]_vars PROVE [Filing!Next]_(Filing!vars)
  <2> DEFINE Same == UNCHANGED <<pulls, answer>>
  <2>0. Typed
    BY <1>2 DEF WriterInv, Typed
  <2>1. ASSUME NEW r \in Runs, NEW from \in {"listPulls", "relist"},
               AnswerWithOpen(r, from)
        PROVE  Filing!Next
    <3> DEFINE h == target[r]
    <3>1. h \in Heads /\ h \in HeadsOf[IssueOf[r]]
      BY <2>0, <2>1, TargetIsHead DEF AnswerWithOpen, Goto, Calling
    <3>2. PICK n \in 1..Len(pulls[h]) :
            IsOpen(h, n) /\ answer' = [answer EXCEPT ![r] = <<h, n>>]
      BY <2>1 DEF AnswerWithOpen
    <3>3. pulls[h][n].issue = IssueOf[r]
      BY <1>2, <3>1, OwnPull
    <3>4. pulls[h][n] \in Pull
      BY <2>0, <3>1 DEF Typed, TypeOK
    <3>5. pulls[h][n] = [state |-> "open", issue |-> IssueOf[r]]
      BY <3>2, <3>3, <3>4 DEF IsOpen, Pull
    <3>6. pulls' = pulls
      BY <2>1 DEF AnswerWithOpen, github
    <3>7. Filing!Reuse(r, h)
      BY <3>1, <3>2, <3>5, <3>6 DEF Filing!Reuse
    <3> QED
      BY <3>1, <3>7 DEF Filing!Next
  <2>2. ASSUME NEW r \in Runs, CreatePull(r) PROVE Filing!Next \/ Same
    <3> DEFINE h == target[r]
    <3>1. CASE ~Creatable(h)
      BY <2>2, <3>1 DEF CreatePull, github
    <3>2. CASE Creatable(h)
      <4>1. /\ h \in Heads /\ h \in HeadsOf[IssueOf[r]]
            /\ h[2] = SlugOf[IssueOf[r]]
        BY <2>0, <2>2, TargetIsHead DEF CreatePull, Goto, Calling
      <4>2. file[h] # NoIssue
        <5>1. CASE RefusesEmpty
          BY <3>2, <5>1 DEF Creatable, Ahead
        <5>2. CASE ~RefusesEmpty
          BY <1>2, <2>2, <5>2 DEF WriterInv, FiledFirst, CreatePull, Goto
        <5> QED
          BY <5>1, <5>2
      <4>3. file[h] \in Issues /\ SlugOf[file[h]] = h[2]
        BY <1>2, <4>1, <4>2 DEF WriterInv, TypeOK, SlugsMatch
      <4>4. file[h] = IssueOf[r]
        BY <4>1, <4>3 DEF SlugsDiffer
      <4>5. ~Filing!HasOpen(h)
        BY <3>2 DEF Creatable, HasOpen, IsOpen, Filing!HasOpen
      <4>6. /\ pulls' = [pulls EXCEPT
                          ![h] = Append(@, [state |-> "open", issue |-> file[h]])]
            /\ answer' = [answer EXCEPT ![r] = <<h, Len(pulls[h]) + 1>>]
        BY <2>2, <3>2 DEF CreatePull
      <4>7. Filing!Open(r, h)
        BY <4>1, <4>4, <4>5, <4>6 DEF Filing!Open
      <4> QED
        BY <4>1, <4>7 DEF Filing!Next
    <3> QED
      BY <3>1, <3>2
  <2>3. ASSUME NEW r \in Runs, ListPulls(r) \/ Relist(r)
        PROVE  Filing!Next \/ Same
    BY <2>1, <2>3 DEF ListPulls, Relist, github
  <2>4. ASSUME NEW r \in Runs, Fail(r) PROVE Filing!Next
    <3>1. Filing!Forget(r)
      BY <2>4 DEF Fail, Filing!Forget, github
    <3> QED
      BY <3>1 DEF Filing!Next
  <2>5. ASSUME NEW r \in Runs,
               \/ \E p \in Repos : Begin(r, p)
               \/ ReadRef(r) \/ ReadHead(r) \/ CreateRef(r) \/ ReadFile(r)
               \/ CreateFile(r) \/ ReadBase(r) \/ Record(r)
        PROVE  Same
    BY <2>5 DEF Begin, ReadRef, ReadHead, CreateRef, ReadFile, CreateFile,
                ReadBase, Record, github
  <2>6. ASSUME NEW h \in Heads, MergePull(h) PROVE Filing!Next
    <3>1. Filing!Settle(h)
      BY <2>6 DEF MergePull, IsOpen, Filing!Settle
    <3> QED
      BY <3>1 DEF Filing!Next
  <2>7. ASSUME NEW h \in Heads, ClosePull(h) PROVE Filing!Next
    <3>1. Filing!Settle(h)
      BY <2>7 DEF ClosePull, IsOpen, Filing!Settle
    <3> QED
      BY <3>1 DEF Filing!Next
  <2>8. ASSUME NEW h \in Heads, DeleteBranch(h) PROVE Same
    BY <2>8 DEF DeleteBranch
  <2>9. CASE UNCHANGED vars
    BY <2>9 DEF vars, Filing!vars
  <2>10. Same => [Filing!Next]_(Filing!vars)
    BY DEF Filing!vars
  <2> HIDE DEF Same
  <2> QED
    BY <1>2, <2>2, <2>3, <2>4, <2>5, <2>6, <2>7, <2>8, <2>9, <2>10 DEF Next, Step
<1>3. WriterInv /\ [Next]_vars => [Filing!Next]_(Filing!vars)
  BY <1>2
<1> QED
  BY <1>1, <1>3, WriterCorrect, PTL DEF Spec, Filing!Spec

-----------------------------------------------------------------------------
(* What GitHub still shows of the calls a run has made.  A branch or a file *)
(* that a run has seen or written is there, unless the branch was deleted, *)
(* and only the branch of a pull request is ever deleted.  Nothing is said *)
(* of empty pull requests: this needs no EmptyIsImpossible.                *)
Opened == {h \in Heads : Len(pulls[h]) > 0}

Traces ==
  /\ \A h \in Heads :
       /\ file[h] # NoIssue => ref[h]
       /\ main[h] # NoIssue => h \in Opened
  /\ \A r \in Runs :
       /\ pc[r] \in {"readFile", "createFile"} =>
            ref[target[r]] \/ target[r] \in Opened
       /\ pc[r] \in {"readBase", "listPulls", "createPull"} =>
            file[target[r]] # NoIssue \/ target[r] \in Opened
       /\ pc[r] = "relist" => target[r] \in Opened

(* A pull request is closed or merged, never taken back.                    *)
LEMMA OpenedStays ==
  ASSUME Typed, [Next]_vars, NEW h \in Heads, h \in Opened PROVE h \in Opened'
<1>1. ASSUME NEW r \in Runs,
             Silent(r) \/ ReadHead(r) \/ CreateRef(r) \/ CreateFile(r)
      PROVE  h \in Opened'
  BY <1>1, SilentStep DEF ReadHead, CreateRef, CreateFile, Opened, github
<1>2. ASSUME NEW r \in Runs, CreatePull(r) PROVE h \in Opened'
  <2>1. CASE UNCHANGED <<github, sha, answer>>
    BY <2>1 DEF Opened, github
  <2>2. CASE ~UNCHANGED <<github, sha, answer>>
    <3> DEFINE g == target[r]
    <3>1. /\ g \in Heads /\ Len(pulls[g]) \in Nat
          /\ Len(pulls'[g]) = Len(pulls[g]) + 1
          /\ \A f \in Heads \ {g} : pulls'[f] = pulls[f]
      BY <1>2, <2>2, CreatedPull
    <3> HIDE DEF g
    <3>2. CASE h = g
      BY <3>1, <3>2 DEF Opened
    <3>3. CASE h # g
      BY <3>1, <3>3 DEF Opened
    <3> QED
      BY <3>2, <3>3
  <2> QED
    BY <2>1, <2>2
<1>3. ASSUME NEW g \in Heads, MergePull(g) \/ ClosePull(g) PROVE h \in Opened'
  BY <1>3, EndedPull DEF Opened
<1>4. ASSUME NEW g \in Heads, DeleteBranch(g) PROVE h \in Opened'
  BY <1>4 DEF DeleteBranch, Opened
<1>5. CASE UNCHANGED vars
  BY <1>5 DEF vars, Opened
<1> QED
  BY <1>1, <1>2, <1>3, <1>4, <1>5, StepCases

(* A branch goes only after a pull request from it, and so does its spec.   *)
LEMMA BranchStays ==
  ASSUME Typed, Traces, [Next]_vars, NEW h \in Heads
  PROVE  /\ ref[h] => ref'[h] \/ h \in Opened'
         /\ file[h] # NoIssue => file'[h] # NoIssue \/ h \in Opened'
<1>1. ASSUME NEW r \in Runs, Silent(r) \/ ReadHead(r) \/ CreatePull(r)
      PROVE  ref' = ref /\ file' = file
  BY <1>1, SilentStep DEF ReadHead, CreatePull, github
<1>2. ASSUME NEW r \in Runs, CreateRef(r)
      PROVE  /\ ref[h] => ref'[h]
             /\ file[h] # NoIssue => file'[h] # NoIssue
  <2>1. target[r] \in Heads
    BY <1>2, TargetIsHead DEF CreateRef, Goto, Calling
  <2> QED
    BY <1>2, <2>1 DEF CreateRef, Traces, Typed, TypeOK
<1>3. ASSUME NEW r \in Runs, CreateFile(r)
      PROVE  /\ ref[h] => ref'[h]
             /\ file[h] # NoIssue => file'[h] # NoIssue
  <2>1. target[r] \in Heads /\ IssueOf[r] # NoIssue
    BY <1>3, TargetIsHead, ConstantsAssumption DEF CreateFile, Goto, Calling
  <2>2. ref' = ref
    BY <1>3 DEF CreateFile, github
  <2>3. CASE file' = file
    BY <2>2, <2>3
  <2>4. CASE file' = [file EXCEPT ![target[r]] = IssueOf[r]]
    BY <2>1, <2>2, <2>4 DEF Typed, TypeOK
  <2> QED
    BY <1>3, <2>3, <2>4 DEF CreateFile, github
<1>4. ASSUME NEW g \in Heads, MergePull(g) \/ ClosePull(g)
      PROVE  ref' = ref /\ file' = file
  BY <1>4 DEF MergePull, ClosePull
<1>5. ASSUME NEW g \in Heads, DeleteBranch(g)
      PROVE  g = h => h \in Opened'
  BY <1>5 DEF DeleteBranch, Opened
<1>6. ASSUME NEW g \in Heads, DeleteBranch(g), g # h
      PROVE  ref'[h] = ref[h] /\ file'[h] = file[h]
  BY <1>6 DEF DeleteBranch, Typed, TypeOK
<1>7. CASE UNCHANGED vars
  BY <1>7 DEF vars
<1> QED
  BY <1>1, <1>2, <1>3, <1>4, <1>5, <1>6, <1>7, StepCases

(* What a head holds keeps its trace.                                       *)
LEMMA HeadTraces ==
  ASSUME Typed, Traces, [Next]_vars, NEW h \in Heads
  PROVE  /\ file'[h] # NoIssue => ref'[h]
         /\ main'[h] # NoIssue => h \in Opened'
<1>0. h \in Opened => h \in Opened'
  BY OpenedStays
<1>1. ASSUME NEW r \in Runs, Silent(r) \/ ReadHead(r) \/ CreatePull(r)
      PROVE  UNCHANGED <<ref, file, main>>
  BY <1>1, SilentStep DEF ReadHead, CreatePull, github
<1>2. ASSUME NEW r \in Runs, CreateRef(r)
      PROVE  (file'[h] # NoIssue => ref'[h]) /\ main' = main
  <2>1. target[r] \in Heads
    BY <1>2, TargetIsHead DEF CreateRef, Goto, Calling
  <2> QED
    BY <1>2, <2>1 DEF CreateRef, Traces, Typed, TypeOK
<1>3. ASSUME NEW r \in Runs, CreateFile(r)
      PROVE  (file'[h] # NoIssue => ref'[h]) /\ main' = main
  <2>1. target[r] \in Heads
    BY <1>3, TargetIsHead DEF CreateFile, Goto, Calling
  <2>2. ref' = ref /\ main' = main
    BY <1>3 DEF CreateFile, github
  <2>3. CASE file' = file
    BY <2>2, <2>3 DEF Traces
  <2>4. CASE ref[target[r]] /\ file' = [file EXCEPT ![target[r]] = IssueOf[r]]
    BY <2>1, <2>2, <2>4 DEF Traces, Typed, TypeOK
  <2> QED
    BY <1>3, <2>2, <2>3, <2>4 DEF CreateFile, github
<1>4. ASSUME NEW g \in Heads, MergePull(g) \/ ClosePull(g)
      PROVE  /\ UNCHANGED <<ref, file>>
             /\ main'[h] # main[h] => h \in Opened
  <2>1. UNCHANGED <<ref, file>>
    BY <1>4 DEF MergePull, ClosePull
  <2>2. g # h \/ ClosePull(g) => main'[h] = main[h]
    BY <1>4 DEF MergePull, ClosePull, Typed, TypeOK
  <2>3. CASE g = h
    <3>1. PICK n \in 1..Len(pulls[h]) : TRUE
      BY <1>4, <2>3 DEF MergePull, ClosePull
    <3>2. Len(pulls[h]) \in Nat
      BY DEF Typed, TypeOK
    <3> QED
      BY <2>1, <3>1, <3>2 DEF Opened
  <2> QED
    BY <2>1, <2>2, <2>3
<1>5. ASSUME NEW g \in Heads, DeleteBranch(g)
      PROVE  (file'[h] # NoIssue => ref'[h]) /\ main' = main
  BY <1>5 DEF DeleteBranch, Traces, Typed, TypeOK
<1>6. CASE UNCHANGED vars
  BY <1>0, <1>6 DEF vars, Traces
<1> QED
  BY <1>0, <1>1, <1>2, <1>3, <1>4, <1>5, <1>6, StepCases DEF Traces

(* What a run is about to do rests on what it has seen or done.             *)
LEMMA RunTraces ==
  ASSUME Typed, Traces, [Next]_vars, NEW q \in Runs
  PROVE  /\ pc'[q] \in {"readFile", "createFile"} =>
              ref'[target'[q]] \/ target'[q] \in Opened'
         /\ pc'[q] \in {"readBase", "listPulls", "createPull"} =>
              file'[target'[q]] # NoIssue \/ target'[q] \in Opened'
         /\ pc'[q] = "relist" => target'[q] \in Opened'
<1> DEFINE Seen == {"readFile", "createFile"}
           Filed == {"readBase", "listPulls", "createPull"}
           h == target[q]
<1>1. ASSUME pc[q] \in Seen \cup Filed \cup {"relist"}
      PROVE  /\ h \in Heads
             /\ h \in Opened => h \in Opened'
             /\ ref[h] => ref'[h] \/ h \in Opened'
             /\ file[h] # NoIssue => file'[h] # NoIssue \/ h \in Opened'
  <2>1. h \in Heads
    BY <1>1, TargetIsHead DEF Calling
  <2> QED
    BY <2>1, OpenedStays, BranchStays
(* A step that leaves the run where it is.                                  *)
<1>2. CASE pc'[q] = pc[q] /\ target'[q] = target[q]
  <2>1. CASE pc[q] \in Seen
    BY <1>1, <1>2, <2>1 DEF Traces
  <2>2. CASE pc[q] \in Filed
    BY <1>1, <1>2, <2>2 DEF Traces
  <2>3. CASE pc[q] = "relist"
    BY <1>1, <1>2, <2>3 DEF Traces
  <2> QED
    BY <1>2, <2>1, <2>2, <2>3
(* The calls of the run itself.                                             *)
<1>3. ASSUME ReadRef(q) \/ ReadFile(q) \/ ReadBase(q) \/ ListPulls(q)
      PROVE  /\ target' = target /\ UNCHANGED github
             /\ h \in Heads
             /\ \/ pc'[q] \in Seen /\ (pc[q] \in Seen \/ ref[h])
                \/ pc'[q] \in Filed /\ (pc[q] \in Filed \/ file[h] # NoIssue)
                \/ pc'[q] \notin Seen \cup Filed \cup {"relist"}
  <2>1. target' = target /\ UNCHANGED github
    BY <1>3 DEF ReadRef, ReadFile, ReadBase, ListPulls, AnswerWithOpen, github
  <2>2. h \in Heads
    BY <1>3, TargetIsHead
    DEF ReadRef, ReadFile, ReadBase, ListPulls, AnswerWithOpen, Goto, Calling
  <2> QED
    BY <1>3, <2>1, <2>2
    DEF ReadRef, ReadFile, ReadBase, ListPulls, AnswerWithOpen, Goto, Typed,
        TypeOK
<1>4. CASE ReadRef(q) \/ ReadFile(q) \/ ReadBase(q) \/ ListPulls(q)
  BY <1>3, <1>4 DEF Traces, Opened, github
<1>5. CASE CreateRef(q)
  <2>1. h \in Heads
    BY <1>5, TargetIsHead DEF CreateRef, Goto, Calling
  <2>2. pc'[q] = "readFile" /\ target' = target /\ ref'[h]
    BY <1>5, <2>1 DEF CreateRef, Goto, Typed, TypeOK
  <2> QED
    BY <2>2
<1>6. CASE CreateFile(q)
  <2>1. h \in Heads /\ IssueOf[q] # NoIssue
    BY <1>6, TargetIsHead, ConstantsAssumption DEF CreateFile, Goto, Calling
  <2>2. target' = target
    BY <1>6 DEF CreateFile
  <2>3. \/ pc'[q] = "readBase" /\ file'[h] = IssueOf[q]
        \/ pc'[q] = "idle"
    BY <1>6, <2>1 DEF CreateFile, Goto, Typed, TypeOK
  <2> QED
    BY <2>1, <2>2, <2>3
<1>7. CASE CreatePull(q)
  <2>1. h \in Heads /\ pc[q] = "createPull"
    BY <1>7, TargetIsHead DEF CreatePull, Goto, Calling
  <2>2. target' = target
    BY <1>7 DEF CreatePull
  <2>3. CASE Creatable(h)
    <3>1. pc'[q] = "answered"
      BY <1>7, <2>3 DEF CreatePull, Goto, Typed, TypeOK
    <3> QED
      BY <3>1
  <2>4. CASE ~Creatable(h)
    <3>1. pc'[q] = "relist"
      BY <1>7, <2>4 DEF CreatePull, Goto, Typed, TypeOK
    (* Refused: no branch, an open pull request, or nothing to merge.       *)
    <3>2. h \in Opened
      <4>1. file[h] # NoIssue \/ h \in Opened
        BY <2>1 DEF Traces
      <4>2. file[h] # NoIssue => ref[h]
        BY <2>1 DEF Traces
      <4>3. main[h] # NoIssue => h \in Opened
        BY <2>1 DEF Traces
      <4>4. HasOpen(h) => h \in Opened
        <5>1. Len(pulls[h]) \in Nat
          BY <2>1 DEF Typed, TypeOK
        <5> QED
          BY <2>1, <5>1 DEF HasOpen, Opened
      <4> QED
        BY <2>4, <4>1, <4>2, <4>3, <4>4 DEF Creatable, Ahead
    <3> QED
      BY <1>1, <2>1, <2>2, <3>1, <3>2
  <2> QED
    BY <2>3, <2>4
<1>8. ASSUME \/ \E p \in Repos : Begin(q, p)
             \/ ReadHead(q) \/ Relist(q) \/ Record(q) \/ Fail(q)
      PROVE  pc'[q] \notin Seen \cup Filed \cup {"relist"}
  BY <1>8
  DEF Begin, ReadHead, Relist, AnswerWithOpen, Record, Fail, Goto, Typed, TypeOK
(* The calls of another run, faults and people.                             *)
<1>9. ASSUME NEW r \in Runs \ {q}, Step(r) \/ Fail(r)
      PROVE  pc'[q] = pc[q] /\ target'[q] = target[q]
  BY <1>9
  DEF Step, Begin, ReadRef, ReadHead, CreateRef, ReadFile, CreateFile, ReadBase,
      ListPulls, CreatePull, Relist, AnswerWithOpen, Record, Fail, Goto, Typed,
      TypeOK
<1>10. ASSUME NEW g \in Heads, MergePull(g) \/ ClosePull(g) \/ DeleteBranch(g)
       PROVE  pc' = pc /\ target' = target
  BY <1>10 DEF MergePull, ClosePull, DeleteBranch
<1>11. CASE UNCHANGED vars
  BY <1>2, <1>11 DEF vars
<1> HIDE DEF Seen, Filed, h
<1>12. CASE Step(q) \/ Fail(q)
  <2>1. CASE \/ \E p \in Repos : Begin(q, p)
             \/ ReadHead(q) \/ Relist(q) \/ Record(q) \/ Fail(q)
    BY <1>8, <2>1 DEF Seen, Filed
  <2> QED
    BY <1>4, <1>5, <1>6, <1>7, <1>12, <2>1 DEF Step
<1> QED
  BY <1>2, <1>9, <1>10, <1>11, <1>12 DEF Next

(* The traces hold of every behaviour, with no condition on GitHub.         *)
LEMMA TracesHold == Spec => [](Typed /\ Traces)
<1>1. Init => Traces
  <2> SUFFICES ASSUME Init PROVE Traces
    OBVIOUS
  <2> QED
    BY DEF Init, Traces
<1>2. Typed /\ Traces /\ [Next]_vars => Traces'
  <2> SUFFICES ASSUME Typed, Traces, [Next]_vars PROVE Traces'
    OBVIOUS
  <2> QED
    BY HeadTraces, RunTraces DEF Traces
<1> QED
  BY InitTyped, TypedStep, <1>1, <1>2, PTL DEF Spec

(* The first attempt on a head never ends in a 422 that Write cannot turn   *)
(* into an answer, whatever other runs and people do: an attempt that comes *)
(* to nothing with no call failing met a spec or a pull request of another. *)
THEOREM OnlyOvertaken == Spec => OvertakenOnly
<1>1. ASSUME Typed, Traces, NEW r \in Runs, Step(r), pc[r] # "idle",
             pc'[r] = "idle"
      PROVE  file[target[r]] # NoIssue \/ pulls[target[r]] # <<>>
  <2> DEFINE h == target[r]
  <2>1. \/ CreateFile(r) /\ (~ref[h] \/ file[h] # NoIssue)
        \/ Relist(r)
    <3>1. ~\E p \in Repos : Begin(r, p)
      BY <1>1 DEF Begin, Goto
    <3>2. ~(ReadRef(r) \/ ReadHead(r) \/ CreateRef(r) \/ ReadFile(r)
            \/ ReadBase(r) \/ ListPulls(r) \/ CreatePull(r) \/ Record(r))
      BY <1>1
      DEF ReadRef, ReadHead, CreateRef, ReadFile, ReadBase, ListPulls,
          AnswerWithOpen, CreatePull, Record, Goto, Typed, TypeOK
    <3>3. CASE CreateFile(r)
      BY <1>1, <3>3 DEF CreateFile, Goto, Typed, TypeOK
    <3> QED
      BY <1>1, <3>1, <3>2, <3>3 DEF Step
  <2>2. file[h] # NoIssue \/ h \in Opened
    <3>1. CASE CreateFile(r) /\ (~ref[h] \/ file[h] # NoIssue)
      BY <1>1, <3>1 DEF CreateFile, Goto, Traces
    <3>2. CASE Relist(r)
      BY <1>1, <3>2 DEF Relist, AnswerWithOpen, Goto, Traces
    <3> QED
      BY <2>1, <3>1, <3>2
  <2>3. h \in Opened => pulls[h] # <<>>
    BY DEF Opened
  <2> QED
    BY <2>2, <2>3
<1>2. Typed /\ Traces /\ [Next]_vars
        => [\A r \in Runs :
              Step(r) /\ pc[r] # "idle" /\ pc'[r] = "idle" =>
                file[target[r]] # NoIssue \/ pulls[target[r]] # <<>>]_vars
  BY <1>1
<1> QED
  BY TracesHold, <1>2, PTL DEF Spec, OvertakenOnly

-----------------------------------------------------------------------------
(***************************************************************************)
(* What there is to say of progress without fairness.                      *)
(***************************************************************************)

(* The steps an attempt may still have before it.                           *)
CallsLeft == [idle |-> 11, readRef |-> 10, readHead |-> 9, createRef |-> 8,
              readFile |-> 7, createFile |-> 6, readBase |-> 5, listPulls |-> 4,
              createPull |-> 3, relist |-> 2, answered |-> 1, recorded |-> 0,
              declined |-> 0]

LEMMA CallsLeftFacts ==
  /\ CallsLeft["idle"] = 11 /\ CallsLeft["readRef"] = 10 /\ CallsLeft["readHead"] = 9
  /\ CallsLeft["createRef"] = 8 /\ CallsLeft["readFile"] = 7 /\ CallsLeft["createFile"] = 6
  /\ CallsLeft["readBase"] = 5 /\ CallsLeft["listPulls"] = 4 /\ CallsLeft["createPull"] = 3
  /\ CallsLeft["relist"] = 2 /\ CallsLeft["answered"] = 1 /\ CallsLeft["recorded"] = 0
  /\ CallsLeft["declined"] = 0
BY DEF CallsLeft

(* A step of a run brings it forward, or back to where it is dispatched.     *)
LEMMA StepAdvances ==
  ASSUME Typed, NEW r \in Runs, Step(r), pc'[r] # pc[r]
  PROVE  pc'[r] = "idle" \/ CallsLeft[pc'[r]] < CallsLeft[pc[r]]
<1>1. pc \in [Runs -> Calling \cup {"idle", "answered", "recorded", "declined"}]
  BY DEF Typed, TypeOK
<1>2. ASSUME NEW from, NEW to, Goto(r, from, to)
      PROVE  pc[r] = from /\ pc'[r] = to
  BY <1>1, <1>2 DEF Goto
<1> USE CallsLeftFacts, <1>2
<1>3. ASSUME NEW p \in Repos, Begin(r, p)
      PROVE  pc'[r] = "idle" \/ CallsLeft[pc'[r]] < CallsLeft[pc[r]]
  <2>1. \/ Goto(r, "idle", "readRef") \/ Goto(r, "idle", "declined")
        \/ Goto(r, "idle", "idle")
    BY <1>3 DEF Begin
  <2> QED
    BY <2>1
<1>4. CASE ReadRef(r) \/ ReadHead(r) \/ CreateRef(r) \/ ReadFile(r) \/ ReadBase(r)
  <2>1. \/ Goto(r, "readRef", "readFile") \/ Goto(r, "readRef", "readHead")
        \/ Goto(r, "readHead", "createRef") \/ Goto(r, "createRef", "readFile")
        \/ Goto(r, "readFile", "readBase") \/ Goto(r, "readFile", "createFile")
        \/ Goto(r, "readBase", "listPulls")
    BY <1>4 DEF ReadRef, ReadHead, CreateRef, ReadFile, ReadBase
  <2> QED
    BY <2>1
<1>5. CASE CreateFile(r) \/ ListPulls(r) \/ CreatePull(r) \/ Relist(r) \/ Record(r)
  <2>1. \/ Goto(r, "createFile", "readBase") \/ Goto(r, "createFile", "idle")
        \/ Goto(r, "listPulls", "answered") \/ Goto(r, "listPulls", "createPull")
        \/ Goto(r, "createPull", "answered") \/ Goto(r, "createPull", "relist")
        \/ Goto(r, "relist", "answered") \/ Goto(r, "relist", "idle")
        \/ Goto(r, "answered", "recorded")
    BY <1>5 DEF CreateFile, ListPulls, CreatePull, Relist, AnswerWithOpen, Record
  <2> QED
    BY <2>1
<1> QED
  BY <1>3, <1>4, <1>5 DEF Step

(* Only a run's own calls and failures move it.                             *)
LEMMA OwnSteps ==
  ASSUME Typed, Next, NEW r \in Runs, pc'[r] # pc[r]
  PROVE  Step(r) \/ Fail(r)
<1>1. pc \in [Runs -> Calling \cup {"idle", "answered", "recorded", "declined"}]
  BY DEF Typed, TypeOK
<1>2. ASSUME NEW q \in Runs, q # r, Step(q) \/ Fail(q) PROVE FALSE
  <2>1. \E to : pc' = [pc EXCEPT ![q] = to]
    BY <1>2 DEF Step, Fail, Begin, ReadRef, ReadHead, CreateRef, ReadFile, CreateFile,
      ReadBase, ListPulls, CreatePull, Relist, AnswerWithOpen, Record, Goto
  <2> QED
    BY <1>1, <1>2, <2>1
<1>3. ASSUME NEW h \in Heads, MergePull(h) \/ ClosePull(h) \/ DeleteBranch(h) PROVE FALSE
  BY <1>3 DEF MergePull, ClosePull, DeleteBranch
<1> QED
  BY <1>2, <1>3 DEF Next

(* An attempt is over after eleven steps: whatever GitHub answers, and what  *)
(* other runs and people do in between, each call that does not fail brings *)
(* the run nearer to its record or its refusal; only one that was overtaken *)
(* is to be dispatched again, and no step goes back to an earlier call.     *)
THEOREM AttemptsEnd ==
  Spec => [][\A r \in Runs :
               pc'[r] # pc[r] /\ UNCHANGED faults =>
                 \/ CallsLeft[pc'[r]] < CallsLeft[pc[r]]
                 \/ /\ pc'[r] = "idle"
                    /\ file[target[r]] # NoIssue \/ pulls[target[r]] # <<>>]_vars
<1> DEFINE Advances ==
      \A r \in Runs :
        pc'[r] # pc[r] /\ UNCHANGED faults =>
          \/ CallsLeft[pc'[r]] < CallsLeft[pc[r]]
          \/ /\ pc'[r] = "idle"
             /\ file[target[r]] # NoIssue \/ pulls[target[r]] # <<>>
<1> DEFINE Overtaken ==
      \A r \in Runs :
        Step(r) /\ pc[r] # "idle" /\ pc'[r] = "idle" =>
          file[target[r]] # NoIssue \/ pulls[target[r]] # <<>>
<1>1. ASSUME Typed, Next, Overtaken, NEW r \in Runs, pc'[r] # pc[r], UNCHANGED faults
      PROVE  \/ CallsLeft[pc'[r]] < CallsLeft[pc[r]]
             \/ /\ pc'[r] = "idle"
                /\ file[target[r]] # NoIssue \/ pulls[target[r]] # <<>>
  <2>1. Step(r)
    BY <1>1, OwnSteps DEF Fail, Typed, TypeOK
  <2> QED
    BY <1>1, <2>1, StepAdvances
<1>2. Typed /\ [Next]_vars /\ [Overtaken]_vars => [Advances]_vars
  BY <1>1 DEF vars
<1> QED
  BY <1>2, OnlyOvertaken, TracesHold, PTL DEF Spec, OvertakenOnly

-----------------------------------------------------------------------------
(***************************************************************************)
(* What it takes for GitHub to refuse a run for good.                      *)
(***************************************************************************)

(* Where people only close pull requests, the default branch never gets a    *)
(* spec, a branch a run has made or found stays, and so does its spec.      *)
NothingTaken ==
  /\ \A h \in Heads : main[h] = NoIssue /\ (file[h] # NoIssue => ref[h])
  /\ \A r \in Runs :
       /\ sha[r] = NoIssue
       /\ pc[r] \in {"readFile", "createFile"} => ref[target[r]]
       /\ pc[r] \in {"readBase", "listPulls", "createPull", "relist"} =>
            file[target[r]] # NoIssue

LEMMA NothingTakenStep ==
  ASSUME Reviewers \subseteq {"close"}, Typed, NothingTaken, [Next]_vars
  PROVE  NothingTaken'
<1> USE DEF NothingTaken
<1>0. /\ pc \in [Runs -> Calling \cup {"idle", "answered", "recorded", "declined"}]
      /\ sha \in [Runs -> Issues \cup {NoIssue}]
      /\ target \in [Runs -> Heads \cup {NoHead}]
  BY DEF Typed, TypeOK
<1>1. ASSUME NEW r \in Runs, Silent(r) PROVE NothingTaken'
  <2>1. UNCHANGED <<github, sha>>
    BY <1>1, SilentStep
  <2>2. \A q \in Runs : q # r => pc'[q] = pc[q] /\ target'[q] = target[q]
    BY <1>0, <1>1 DEF Silent, Begin, ReadRef, ReadFile, ReadBase, ListPulls, Relist,
      Record, Fail, AnswerWithOpen, Goto
  <2>3. ASSUME NEW p \in Repos, Begin(r, p) PROVE NothingTaken'
    <3>1. pc'[r] \in {"readRef", "declined", "idle"}
      BY <1>0, <2>3 DEF Begin, Goto
    <3> QED
      BY <2>1, <2>2, <3>1 DEF github
  <2>4. CASE ReadRef(r) \/ ReadFile(r) \/ ReadBase(r)
    <3>1. target' = target
      BY <2>4 DEF ReadRef, ReadFile, ReadBase
    <3>2. /\ pc'[r] \in {"readFile", "createFile"} => ref[target[r]]
          /\ pc'[r] \in {"readBase", "listPulls", "createPull", "relist"} =>
               file[target[r]] # NoIssue
      BY <1>0, <2>4 DEF ReadRef, ReadFile, ReadBase, Goto
    <3> QED
      BY <2>1, <2>2, <3>1, <3>2 DEF github
  <2>5. CASE ListPulls(r) \/ Relist(r) \/ Record(r) \/ Fail(r)
    <3>1. target' = target
      BY <2>5 DEF ListPulls, Relist, Record, Fail, AnswerWithOpen
    <3>2. \/ pc'[r] \in {"answered", "idle", "recorded"}
          \/ pc'[r] = "createPull" /\ pc[r] = "listPulls"
      BY <1>0, <2>5 DEF ListPulls, Relist, Record, Fail, AnswerWithOpen, Goto
    <3> QED
      BY <2>1, <2>2, <3>1, <3>2 DEF github
  <2> QED
    BY <1>1, <2>3, <2>4, <2>5 DEF Silent
<1>2. ASSUME NEW r \in Runs, ReadHead(r) PROVE NothingTaken'
  <2>1. target[r] \in Heads
    BY <1>2, TargetIsHead DEF ReadHead, Goto, Calling
  <2>2. sha'[r] = NoIssue /\ \A q \in Runs : sha'[q] = NoIssue
    BY <1>0, <1>2, <2>1 DEF ReadHead
  <2>3. pc'[r] = "createRef" /\ \A q \in Runs : q # r => pc'[q] = pc[q]
    BY <1>0, <1>2 DEF ReadHead, Goto
  <2> QED
    BY <1>2, <2>2, <2>3 DEF ReadHead, github
<1>3. ASSUME NEW r \in Runs, CreateRef(r) \/ CreateFile(r) PROVE NothingTaken'
  <2> DEFINE h == target[r]
  <2>1. h \in Heads
    BY <1>3, TargetIsHead DEF CreateRef, CreateFile, Goto, Calling
  <2>2. ref \in [Heads -> BOOLEAN] /\ file \in [Heads -> Issues \cup {NoIssue}]
    BY DEF Typed, TypeOK
  <2>3. /\ UNCHANGED <<main, sha, target>>
        /\ \A q \in Runs : q # r => pc'[q] = pc[q]
    BY <1>0, <1>3 DEF CreateRef, CreateFile, Goto, github
  <2>4. CASE CreateRef(r)
    <3>1. /\ ref' = [ref EXCEPT ![h] = TRUE] /\ pc'[r] = "readFile"
          /\ file' = [file EXCEPT ![h] = IF ref[h] THEN @ ELSE NoIssue]
      BY <1>0, <2>4 DEF CreateRef, Goto
    <3> HIDE DEF h
    <3>2. file' = file
      BY <2>1, <2>2, <3>1
    <3>3. \A g \in Heads : ref[g] => ref'[g]
      BY <2>1, <2>2, <3>1
    <3>4. ref'[h]
      BY <2>1, <2>2, <3>1
    <3>5. \A q \in Runs : target[q] \in Heads \/ target[q] = NoHead
      BY <1>0
    <3>6. ASSUME NEW q \in Runs, pc'[q] \in {"readFile", "createFile"}
          PROVE  ref'[target'[q]]
      <4>1. CASE q = r
        BY <2>3, <3>4, <4>1 DEF h
      <4>2. CASE q # r
        <5>1. ref[target[q]] /\ target[q] \in Heads
          BY <2>3, <3>6, <4>2, TargetIsHead DEF Calling
        <5> QED
          BY <2>3, <3>3, <5>1
      <4> QED
        BY <4>1, <4>2
    <3> QED
      BY <2>3, <3>1, <3>2, <3>3, <3>6
  <2>5. CASE CreateFile(r)
    <3>1. ref' = ref
      BY <2>5 DEF CreateFile, github
    <3>2. \/ pc'[r] = "idle" /\ file' = file
          \/ pc'[r] = "readBase" /\ file' = [file EXCEPT ![h] = IssueOf[r]] /\ ref[h]
      BY <1>0, <2>5 DEF CreateFile, Goto, github
    <3>3. IssueOf[r] # NoIssue
      BY ConstantsAssumption DEF ConstantsAssumption
    <3> HIDE DEF h
    <3>4. \A g \in Heads : file[g] # NoIssue => file'[g] # NoIssue
      BY <2>1, <2>2, <3>2, <3>3
    <3>5. \A g \in Heads : file'[g] # NoIssue => ref'[g]
      BY <2>1, <2>2, <3>1, <3>2
    <3>6. ASSUME NEW q \in Runs,
                 pc'[q] \in {"readBase", "listPulls", "createPull", "relist"}
          PROVE  file'[target'[q]] # NoIssue
      <4>1. CASE q = r
        BY <2>1, <2>2, <2>3, <3>2, <3>3, <3>6, <4>1 DEF h
      <4>2. CASE q # r
        <5>1. file[target[q]] # NoIssue /\ target[q] \in Heads
          BY <2>3, <3>6, <4>2, TargetIsHead DEF Calling
        <5> QED
          BY <2>3, <3>4, <5>1
      <4> QED
        BY <4>1, <4>2
    <3> QED
      BY <2>3, <3>1, <3>2, <3>5, <3>6
  <2> QED
    BY <1>3, <2>4, <2>5
<1>4. ASSUME NEW r \in Runs, CreatePull(r) PROVE NothingTaken'
  <2>1. UNCHANGED <<ref, file, main, sha, target>>
    BY <1>4 DEF CreatePull, github
  <2>2. pc[r] = "createPull" /\ pc'[r] \in {"answered", "relist"}
    BY <1>0, <1>4 DEF CreatePull, Goto
  <2>3. \A q \in Runs : q # r => pc'[q] = pc[q]
    BY <1>0, <1>4 DEF CreatePull, Goto
  <2> QED
    BY <2>1, <2>2, <2>3
<1>5. ASSUME NEW h \in Heads, MergePull(h) \/ ClosePull(h) \/ DeleteBranch(h)
      PROVE  NothingTaken'
  BY <1>5 DEF MergePull, ClosePull, DeleteBranch
<1>6. CASE UNCHANGED vars
  BY <1>6 DEF vars
<1> QED
  BY <1>1, <1>2, <1>3, <1>4, <1>5, <1>6, StepCases

(* Unless people merge pull requests or delete branches, a run that asks     *)
(* GitHub for one is refused only because another is open (the one the list *)
(* it reads next answers with, if it stays open that long), and one that    *)
(* writes the spec only because the spec is there. RerunCompletes, which    *)
(* docs/fix-lane.md:91-93 states of a crash between the two calls, cannot   *)
(* fail as it does in MCWriterMerged, by a refusal that repeats itself.     *)
THEOREM RefusedOnlyByRivals ==
  Reviewers \subseteq {"close"} =>
    (Spec => [](\A r \in Runs :
                  /\ pc[r] = "createFile" => ref[target[r]]
                  /\ pc[r] = "createPull" => Creatable(target[r]) \/ HasOpen(target[r])))
<1> SUFFICES ASSUME Reviewers \subseteq {"close"}
             PROVE  Spec => [](\A r \in Runs :
                       /\ pc[r] = "createFile" => ref[target[r]]
                       /\ pc[r] = "createPull" => Creatable(target[r]) \/ HasOpen(target[r]))
  OBVIOUS
<1> DEFINE Rivals ==
      \A r \in Runs :
        /\ pc[r] = "createFile" => ref[target[r]]
        /\ pc[r] = "createPull" => Creatable(target[r]) \/ HasOpen(target[r])
<1>1. Init => NothingTaken
  BY DEF Init, NothingTaken
<1>2. Typed /\ NothingTaken /\ [Next]_vars => NothingTaken'
  BY NothingTakenStep
<1>3. Typed /\ NothingTaken => Rivals
  <2> SUFFICES ASSUME Typed, NothingTaken, NEW r \in Runs
               PROVE  /\ pc[r] = "createFile" => ref[target[r]]
                      /\ pc[r] = "createPull" => Creatable(target[r]) \/ HasOpen(target[r])
    OBVIOUS
  <2>1. CASE pc[r] = "createPull"
    <3>1. target[r] \in Heads
      BY <2>1, TargetIsHead DEF Calling
    <3>2. ref[target[r]] /\ Ahead(target[r])
      BY <2>1, <3>1 DEF NothingTaken, Ahead
    <3> QED
      BY <2>1, <3>2 DEF Creatable
  <2> QED
    BY <2>1 DEF NothingTaken
<1> QED
  BY InitTyped, TypedStep, <1>1, <1>2, <1>3, PTL DEF Spec
=============================================================================
