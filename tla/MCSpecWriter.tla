---------------------------- MODULE MCSpecWriter ----------------------------
(* Small instances of SpecWriter: two or three fix Jobs, in which the       *)
(* slugs, issues and repositories they share are chosen per configuration.  *)
EXTENDS SpecWriter, TLC

CONSTANTS r1, r2, r3, i1, i2, p1, p2, s1, s2

SameIssue == [r \in Runs |-> i1]
TwoAndOne == [r \in Runs |-> IF r = r3 THEN i2 ELSE i1]
OwnSlugs == i1 :> s1 @@ i2 :> s2
OneSlug == [i \in Issues |-> s1]

AllAdmitted == [p \in Repos |-> "admitted"]
SecondRefused == p1 :> "admitted" @@ p2 :> "refused"
=============================================================================
