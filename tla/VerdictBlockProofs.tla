------------------------- MODULE VerdictBlockProofs -------------------------
(***************************************************************************)
(* What VerdictBlock promises, proved for sections of any length, any words *)
(* and any table of identities.  First the operators: what cutting,         *)
(* rewriting and rendering do to the block the parsers read, line by line   *)
(* (StripReads, RewriteReads, RestoreReads).  Then the steps of a Job:      *)
(* StageInv says what the verdict is at each stage, BlockInv that the       *)
(* section says it, or will once it is rendered.                            *)
(*                                                                         *)
(* TypesHold needs no assumption.  The other theorems are about Sound       *)
(* answers, the ones the editing was written for; TLC checks the same       *)
(* properties on sections that are not.                                     *)
(***************************************************************************)
EXTENDS VerdictBlock, Recursion, SequenceTheorems, TLAPS

(* The recursive function Within is what its equations say, and the fence of a*)
(* block is never below the line: Within[i] is 0 or at most i.                *)
LEMMA WithinFacts ==
  ASSUME NEW s \in Seq(Lines), NEW langs
  PROVE  /\ Within(s, langs) \in [0..Len(s) -> Nat]
         /\ \A i \in 0..Len(s) : Within(s, langs)[i] <= i
         /\ Within(s, langs)[0] = 0
         /\ \A i \in 1..Len(s) :
              Within(s, langs)[i] =
                IF ~Fence(s[i]) THEN Within(s, langs)[i-1]
                ELSE IF Within(s, langs)[i-1] = 0 /\ s[i].kind = "open" /\ s[i].key \in langs
                     THEN i ELSE 0
<1> DEFINE N == Len(s)
           Next1(p, i) == IF ~Fence(s[i]) THEN p
                          ELSE IF p = 0 /\ s[i].kind = "open" /\ s[i].key \in langs THEN i ELSE 0
           step == [q \in Nat \X (1..N) |-> Next1(q[1], q[2])]
           rhs(g) == [i \in 0..Len(s) |->
                  IF i = 0 THEN 0
                  ELSE IF ~Fence(s[i]) THEN g[i - 1]
                  ELSE IF g[i - 1] = 0 /\ s[i].kind = "open" /\ s[i].key \in langs
                       THEN i ELSE 0]
<1>1. N \in Nat
  OBVIOUS
<1>2. step \in [Nat \X (1..N) -> Nat]
  OBVIOUS
<1>3. PICK f : Unfolds(f, Nat, 0, N, step)
  <2> HIDE DEF step, N
  <2> QED BY <1>1, <1>2, Recurse
<1>4. \A i \in 1..N : f[i] = Next1(f[i-1], i)
  <2> SUFFICES ASSUME NEW i \in 1..N PROVE f[i] = Next1(f[i-1], i)
    OBVIOUS
  <2>1. f[i-1] \in Nat
    BY <1>1, <1>3 DEF Unfolds
  <2>2. <<f[i-1], i>> \in Nat \X (1..N)
    BY <2>1
  <2>3. step[<<f[i-1], i>>] = Next1(f[i-1], i)
    <3> HIDE DEF Next1, N
    <3> QED BY <2>2
  <2> HIDE DEF step, Next1, N
  <2> QED BY <2>3, <1>3 DEF Unfolds
<1>5. f = rhs(f)
  <2>1. \A i \in 0..N : f[i] = rhs(f)[i]
    BY <1>3, <1>4, <1>1 DEF Unfolds
  <2> QED BY <2>1, <1>3 DEF Unfolds
<1> DEFINE w == Within(s, langs)
<1>6. w = rhs(w)
  BY <1>5 DEF Within
<1>7. DOMAIN w = 0..N /\ w[0] = 0 /\ \A i \in 1..N : w[i] = Next1(w[i-1], i)
  <2> HIDE DEF w
  <2>1. DOMAIN w = 0..N
    BY <1>6
  <2>2. ASSUME NEW i \in 0..N
        PROVE  w[i] = IF i = 0 THEN 0 ELSE Next1(w[i-1], i)
    BY <1>6
  <2> HIDE DEF N, Next1, rhs
  <2>3. 0 \in 0..N /\ \A i \in 1..N : i \in 0..N /\ i # 0
    BY <1>1
  <2> QED BY <2>1, <2>2, <2>3
<1>8. \A i \in Nat : i \in 0..N => w[i] \in 0..i
  <2> DEFINE T == {i \in Nat : i \in 0..N => w[i] \in 0..i}
  <2>1. 0 \in T
    BY <1>7
  <2>2. ASSUME NEW n \in Nat, n \in T PROVE n + 1 \in T
    <3> HIDE DEF w
    <3> QED BY <1>7, <2>2, <1>1
  <2>3. Nat \subseteq T
    <3> HIDE DEF T
    <3> QED BY <2>1, <2>2, Induct
  <2> QED BY <2>3
<1>9. w \in [0..N -> Nat]
  <2>1. \A i \in 0..N : w[i] \in Nat /\ w[i] <= i
    BY <1>8
  <2>2. w = [i \in 0..N |-> w[i]]
    <3> HIDE DEF w
    <3> QED BY <1>6
  <2> HIDE DEF w, N
  <2> QED BY <2>1, <2>2
<1> QED BY <1>7, <1>8, <1>9

(* A block opens at a line that is an opening fence of one of the languages and*)
(* stands in no other block.                                                   *)
LEMMA OpeningFacts ==
  ASSUME NEW s \in Seq(Lines), NEW langs, NEW o \in DOMAIN s
  PROVE  o \in Openings(s, langs) <=>
           s[o].kind = "open" /\ s[o].key \in langs /\ Within(s, langs)[o - 1] = 0
<1>1. /\ Within(s, langs)[o - 1] <= o - 1 /\ Within(s, langs)[o - 1] \in Nat
      /\ Within(s, langs)[o] =
                IF ~Fence(s[o]) THEN Within(s, langs)[o-1]
                ELSE IF Within(s, langs)[o-1] = 0 /\ s[o].kind = "open" /\ s[o].key \in langs
                     THEN o ELSE 0
  BY WithinFacts
<1> QED BY <1>1 DEF Openings, Fence

(* Two sections whose first n lines agree on where fences stand, and on which of*)
(* them open a block, agree on the blocks of those lines.                       *)
LEMMA WithinSame ==
  ASSUME NEW s \in Seq(Lines), NEW t \in Seq(Lines), NEW L, NEW M, NEW n \in Nat,
         n <= Len(s), n <= Len(t),
         \A i \in 1..n : Fence(s[i]) <=> Fence(t[i]),
         \A i \in 1..n : Fence(s[i]) =>
            (s[i].kind = "open" /\ s[i].key \in L <=> t[i].kind = "open" /\ t[i].key \in M)
  PROVE  \A i \in 0..n : Within(s, L)[i] = Within(t, M)[i]
<1> DEFINE v1 == Within(s, L)
           v2 == Within(t, M)
           T == {i \in Nat : i <= n => v1[i] = v2[i]}
<1>1. v1[0] = 0 /\ v2[0] = 0
  BY WithinFacts
<1>2. ASSUME NEW i \in 1..n PROVE
        /\ v1[i] = IF ~Fence(s[i]) THEN v1[i-1]
                   ELSE IF v1[i-1] = 0 /\ s[i].kind = "open" /\ s[i].key \in L THEN i ELSE 0
        /\ v2[i] = IF ~Fence(t[i]) THEN v2[i-1]
                   ELSE IF v2[i-1] = 0 /\ t[i].kind = "open" /\ t[i].key \in M THEN i ELSE 0
  <2>1. i \in 1..Len(s) /\ i \in 1..Len(t)
    OBVIOUS
  <2> QED BY <2>1, WithinFacts
<1> HIDE DEF v1, v2
<1>3. 0 \in T
  BY <1>1
<1>4. ASSUME NEW i \in Nat, i \in T PROVE i + 1 \in T
  <2> SUFFICES ASSUME i + 1 <= n PROVE v1[i + 1] = v2[i + 1]
    OBVIOUS
  <2>1. i + 1 \in 1..n /\ (i + 1) - 1 = i /\ v1[i] = v2[i]
    BY <1>4
  <2> QED BY <2>1, <1>2
<1>5. Nat \subseteq T
  <2> HIDE DEF T
  <2> QED BY <1>3, <1>4, Induct
<1> QED BY <1>5 DEF v1, v2

-----------------------------------------------------------------------------
(* A function on 1..n is a sequence of length n.                             *)
LEMMA SeqIntro ==
  ASSUME NEW S, NEW n \in Nat, NEW f \in [1..n -> S]
  PROVE  f \in Seq(S) /\ Len(f) = n
<1>1. f \in Seq(S)
  BY SeqDef
<1>2. DOMAIN f = 1..Len(f) /\ Len(f) \in Nat
  BY <1>1, LenProperties
<1>3. 1..Len(f) = 1..n
  BY <1>2
<1> QED BY <1>1, <1>2, <1>3

(* A line is one of Lines when its parts have their types.                   *)
LEMMA LineType ==
  ASSUME NEW kind \in Kinds, NEW key \in Words, NEW val \in Seq(Words), NEW form \in Forms
  PROVE  Line(kind, key, val, form) \in Lines
  BY DEF Line, Lines

(* The empty value is a value.                                               *)
LEMMA NoWords == <<>> \in Seq(Words)
  BY EmptySeq

(* The three lines the binary writes of its own accord are lines.            *)
LEMMA FixedTypes == Gap \in Lines /\ Closing \in Lines /\ Opening("yaml") \in Lines
<1>1. "gap" \in Kinds /\ "close" \in Kinds /\ "open" \in Kinds /\ "plain" \in Forms
  BY DEF Kinds, Forms
<1>2. "" \in Words /\ "yaml" \in Words
  BY BodiesAssumption
<1> QED BY <1>1, <1>2, NoWords, LineType DEF Gap, Closing, Opening

(* The parts of a line are those it was made of.                             *)
LEMMA LineFields ==
  ASSUME NEW kind, NEW key, NEW val, NEW form
  PROVE  LET l == Line(kind, key, val, form) IN
         l.kind = kind /\ l.key = key /\ l.val = val /\ l.form = form
  BY DEF Line

(* The kind, key, value and form of those lines and of a rendered entry.     *)
LEMMA KindFacts ==
  /\ Gap.kind = "gap" /\ Gap.form = "plain" /\ Closing.kind = "close"
  /\ Opening("yaml").kind = "open" /\ Opening("yaml").key = "yaml"
  /\ \A k, w : /\ Entry(k, w).kind = "key" /\ Entry(k, w).key = k
              /\ Entry(k, w).val = w /\ Entry(k, w).form = "quoted"
  BY DEF Gap, Closing, Opening, Entry, Line

(* A sequence of one element.                                                *)
LEMMA Single ==
  ASSUME NEW S, NEW x \in S
  PROVE  <<x>> \in Seq(S) /\ Len(<<x>>) = 1 /\ <<x>>[1] = x
  OBVIOUS

(* What a definition by lines makes of a section is a section of the same length.*)
LEMMA PointwiseType ==
  ASSUME NEW s \in Seq(Lines), NEW t,
         t = [i \in DOMAIN s |-> t[i]], \A i \in DOMAIN s : t[i] \in Lines
  PROVE  t \in Seq(Lines) /\ Len(t) = Len(s) /\ DOMAIN t = DOMAIN s
<1>1. DOMAIN s = 1..Len(s) /\ Len(s) \in Nat
  OBVIOUS
<1>2. t \in [1..Len(s) -> Lines]
  BY <1>1
<1> QED BY <1>1, <1>2, SeqIntro

(* A block has the lines of its section, the others left out as gaps.        *)
LEMMA BlockAtType ==
  ASSUME NEW s \in Seq(Lines), NEW o
  PROVE  BlockAt(s, o) \in Seq(Lines) /\ Len(BlockAt(s, o)) = Len(s) /\ DOMAIN BlockAt(s, o) = DOMAIN s
<1>1. \A i \in DOMAIN s : BlockAt(s, o)[i] \in Lines
  BY FixedTypes DEF BlockAt
<1>2. BlockAt(s, o) = [i \in DOMAIN s |-> BlockAt(s, o)[i]]
  BY DEF BlockAt
<1> QED BY <1>1, <1>2, PointwiseType

(* Joining a sequence of values gives a value: SequencesExt defines FlattenSeq by*)
(* a recursive function, so the proof is by induction on the number of values.   *)
LEMMA FlattenType ==
  ASSUME NEW S, NEW ss \in Seq(Seq(S))
  PROVE  FlattenSeq(ss) \in Seq(S)
<1> DEFINE N == Len(ss)
           A == Seq(S)
           step == [q \in A \X (1..N) |-> q[1] \o ss[q[2]]]
           rhs(g) == [i \in 1..Len(ss) |-> IF i = 1 THEN ss[i] ELSE g[i-1] \o ss[i]]
<1>1. CASE N = 0
  <2>1. ss = <<>>
    BY <1>1
  <2> QED BY <1>1, <2>1 DEF FlattenSeq
<1>2. CASE N # 0
  <2>1. N \in Nat /\ <<>> \in A /\ \A i \in 1..N : ss[i] \in A
    OBVIOUS
  <2>2. step \in [A \X (1..N) -> A]
    <3>1. ASSUME NEW q \in A \X (1..N) PROVE q[1] \o ss[q[2]] \in A
      <4>1. q[1] \in A /\ ss[q[2]] \in A
        BY <2>1
      <4> QED BY <4>1, ConcatProperties
    <3> HIDE DEF A
    <3> QED BY <3>1
  <2>3. PICK f : Unfolds(f, A, <<>>, N, step)
    <3> HIDE DEF step, N, A
    <3> QED BY <2>1, <2>2, Recurse
  <2>4. \A i \in 1..N : f[i-1] \in A /\ f[i] = f[i-1] \o ss[i]
    <3> SUFFICES ASSUME NEW i \in 1..N PROVE f[i-1] \in A /\ f[i] = f[i-1] \o ss[i]
      OBVIOUS
    <3> HIDE DEF A
    <3>0. i - 1 \in 0..N
      BY <2>1
    <3>1. f[i-1] \in A
      <4> HIDE DEF N, step
      <4> QED BY <3>0, <2>3 DEF Unfolds
    <3>2. <<f[i-1], i>> \in A \X (1..N)
      BY <3>1
    <3>3. step[<<f[i-1], i>>] = f[i-1] \o ss[i]
      <4> HIDE DEF N
      <4> QED BY <3>2
    <3> HIDE DEF step, N
    <3> QED BY <3>1, <3>3, <2>3 DEF Unfolds
  <2> DEFINE g == [i \in 1..N |-> f[i]]
  <2>5. g = rhs(g)
    <3>1. \A i \in 1..N : f[i] = rhs(g)[i]
      <4> SUFFICES ASSUME NEW i \in 1..N PROVE f[i] = rhs(g)[i]
        OBVIOUS
      <4>1. f[i] = f[i-1] \o ss[i] /\ ss[i] \in Seq(S)
        BY <2>4, <2>1
      <4>2. CASE i = 1
        <5>1. f[0] = <<>>
          BY <2>3 DEF Unfolds
        <5>2. <<>> \o ss[i] = ss[i]
          BY <4>1, ConcatEmptySeq
        <5>3. i - 1 = 0 /\ rhs(g)[i] = ss[i]
          BY <4>2
        <5>4. f[i] = f[0] \o ss[i]
          <6> HIDE DEF g, rhs, step, N, A
          <6> QED BY <4>1, <5>3
        <5> HIDE DEF g, rhs, step, N, A
        <5> QED BY <5>1, <5>2, <5>3, <5>4
      <4>3. CASE i # 1
        <5>1. i - 1 \in 1..N
          BY <4>3
        <5> QED BY <4>1, <4>3, <5>1
      <4> QED BY <4>2, <4>3
    <3> QED BY <3>1
  <2> DEFINE flat == CHOOSE h : h = rhs(h)
  <2>6. flat = rhs(flat)
    BY <2>5
  <2>7. FlattenSeq(ss) = flat[N]
    BY <1>2 DEF FlattenSeq
  <2> HIDE DEF flat
  <2>8. \A i \in Nat : i + 1 \in 1..N => flat[i + 1] \in A
    <3> DEFINE T == {i \in Nat : i + 1 \in 1..N => flat[i + 1] \in A}
    <3>1. 0 \in T
      BY <2>1, <2>6
    <3>2. ASSUME NEW n \in Nat, n \in T PROVE n + 1 \in T
      <4> SUFFICES ASSUME n + 1 + 1 \in 1..N PROVE flat[n + 1 + 1] \in A
        OBVIOUS
      <4>1. flat[n + 1] \in A /\ ss[n + 1 + 1] \in A
        BY <3>2, <2>1
      <4>2. flat[n + 1 + 1] = flat[n + 1] \o ss[n + 1 + 1]
        <5> DEFINE m == n + 1 + 1
        <5>1. m \in 1..N /\ m # 1 /\ m - 1 = n + 1
          OBVIOUS
        <5>2. rhs(flat)[m] = flat[m - 1] \o ss[m]
          <6> HIDE DEF m
          <6> QED BY <5>1
        <5> HIDE DEF rhs
        <5> QED BY <2>6, <5>1, <5>2
      <4> QED BY <4>1, <4>2, ConcatProperties
    <3>3. Nat \subseteq T
      <4> HIDE DEF T
      <4> QED BY <3>1, <3>2, Induct
    <3> QED BY <3>3
  <2>9. flat[N] \in A
    <3>1. N - 1 \in Nat /\ (N - 1) + 1 = N /\ N \in 1..N
      BY <1>2, <2>1
    <3> HIDE DEF N, A
    <3> QED BY <3>1, <2>8
  <2> QED BY <2>7, <2>9
<1> QED BY <1>1, <1>2

(* Decoding a block gives a value for every key.                             *)
LEMMA DecodeType ==
  ASSUME NEW b \in Seq(Lines), NEW keys
  PROVE  Decode(b, keys) \in [keys -> Seq(Words)]
<1>1. ASSUME NEW k \in keys, Members(b, k) # {}
      PROVE  b[CHOOSE i \in Members(b, k) : TRUE].val \in Seq(Words)
  <2> DEFINE c == CHOOSE i \in Members(b, k) : TRUE
  <2>1. c \in Members(b, k)
    BY <1>1
  <2> HIDE DEF c
  <2>2. c \in 1..Len(b)
    BY <2>1 DEF Members
  <2>3. b[c] \in Lines
    BY <2>2
  <2>4. b[c].val \in Seq(Words)
    BY <2>3 DEF Lines
  <2> QED BY <2>4 DEF c
<1> QED BY <1>1, NoWords DEF Decode

(* Quoting and folding a block gives a block.                                *)
LEMMA QuoteType ==
  ASSUME NEW b \in Seq(Lines), NEW prose, NEW boundary
  PROVE  Quote(b, prose, boundary) \in Seq(Lines)
<1> DEFINE Key(i, keys) == b[i].kind = "key" /\ b[i].key \in keys
           Folds(h, i) == /\ h < i /\ Key(h, prose)
                     /\ \A j \in h + 1 .. i : b[j].kind # "blank" /\ ~Key(j, boundary)
           Text(i) == (IF b[i].kind = "key" THEN <<b[i].key>> ELSE <<>>) \o b[i].val
           texts(h) == [i \in DOMAIN b |-> IF Folds(h, i) THEN Text(i) ELSE <<>>]
           Value(h) == b[h].val \o FlattenSeq(texts(h))
           q == Quote(b, prose, boundary)
<1>0. \A i \in DOMAIN b : b[i] \in Lines
  OBVIOUS
<1>1. \A i \in DOMAIN b : Text(i) \in Seq(Words)
  <2> SUFFICES ASSUME NEW i \in DOMAIN b PROVE Text(i) \in Seq(Words)
    OBVIOUS
  <2>1. b[i].key \in Words /\ b[i].val \in Seq(Words)
    BY <1>0 DEF Lines
  <2>2. <<b[i].key>> \in Seq(Words)
    BY <2>1
  <2>3. (IF b[i].kind = "key" THEN <<b[i].key>> ELSE <<>>) \in Seq(Words)
    BY <2>2, NoWords
  <2> QED BY <2>1, <2>3, ConcatProperties
<1>2. \A h : texts(h) \in Seq(Seq(Words))
  <2> TAKE h
  <2>1. texts(h) \in [1..Len(b) -> Seq(Words)]
    <3>1. DOMAIN b = 1..Len(b)
      OBVIOUS
    <3> HIDE DEF Text, Folds
    <3> QED BY <1>1, <3>1, NoWords
  <2> QED BY <2>1, SeqDef
<1>3. \A h \in DOMAIN b : Value(h) \in Seq(Words)
  <2> TAKE h \in DOMAIN b
  <2>1. b[h].val \in Seq(Words)
    BY <1>0 DEF Lines
  <2>2. FlattenSeq(texts(h)) \in Seq(Words)
    <3> HIDE DEF texts
    <3> QED BY <1>2, FlattenType
  <2> HIDE DEF texts
  <2> QED BY <2>1, <2>2, ConcatProperties
<1>4. q = [i \in DOMAIN b |-> IF Key(i, prose) THEN Entry(b[i].key, Value(i))
       ELSE IF \E h \in DOMAIN b : Folds(h, i) THEN Gap ELSE b[i]]
  BY DEF Quote
<1> HIDE DEF Value, Folds, q
<1>5. \A i \in DOMAIN b : Entry(b[i].key, Value(i)) \in Lines
  BY <1>0, <1>3 DEF Entry, Line, Lines, Kinds, Forms
<1>6. \A i \in DOMAIN b : q[i] \in Lines
  BY <1>0, <1>4, <1>5, FixedTypes
<1>7. q = [i \in DOMAIN b |-> q[i]]
  BY <1>4
<1>8. q \in Seq(Lines)
  BY <1>6, <1>7, PointwiseType
<1> QED BY <1>8 DEF q

(* Parse always returns a verdict, if an empty one.                          *)
LEMMA ParseType ==
  ASSUME NEW s \in Seq(Lines)
  PROVE  Parse(s) \in Verdicts
<1>1. \A o : Best(BlockAt(s, o)) \in Seq(Lines)
  BY BlockAtType, QuoteType DEF Best
<1>2. Unfenced(s) \in Seq(Lines)
  <2>1. \A i \in DOMAIN s : Unfenced(s)[i] \in Lines
    BY FixedTypes DEF Unfenced, Restricted
  <2>2. Unfenced(s) = [i \in DOMAIN s |-> Unfenced(s)[i]]
    BY DEF Unfenced, Restricted
  <2> QED BY <2>1, <2>2, PointwiseType
<1>3. <<>> \in Seq(Lines)
  OBVIOUS
<1>4. ParsedBlock(s) \in Seq(Lines)
  BY <1>1, <1>2, <1>3 DEF ParsedBlock
<1> QED BY <1>4, DecodeType DEF Parse, Verdicts

-----------------------------------------------------------------------------
(* The ten keys that are rendered, each of them once.                        *)
LEMMA RenderedFacts ==
  /\ DOMAIN Rendered = 1..10
  /\ Schema = {"sentry_issue_id", "verdict", "reason", "last_seen", "urgency",
              "disqualifiers_fired", "promoted", "fix_certainty",
              "root_cause", "recommended_fix"}
  /\ \A n \in 1..10 : Rendered[n] \in Schema
  /\ \A k \in Schema : \E n \in 1..10 : Rendered[n] = k
  /\ \A m, n \in 1..10 : Rendered[m] = Rendered[n] => m = n
<1>1. DOMAIN Rendered = 1..10
  BY DEF Rendered
<1>2. /\ Rendered[1] = "sentry_issue_id" /\ Rendered[2] = "verdict" /\ Rendered[3] = "reason"
      /\ Rendered[4] = "last_seen" /\ Rendered[5] = "urgency"
      /\ Rendered[6] = "disqualifiers_fired" /\ Rendered[7] = "promoted"
      /\ Rendered[8] = "fix_certainty" /\ Rendered[9] = "root_cause"
      /\ Rendered[10] = "recommended_fix"
  BY DEF Rendered
<1>3. Schema = {Rendered[n] : n \in 1..10}
  BY <1>1 DEF Schema, ToSet
<1>4. 1..10 = {1, 2, 3, 4, 5, 6, 7, 8, 9, 10}
  OBVIOUS
<1> HIDE DEF Rendered
<1>5. Schema = {"sentry_issue_id", "verdict", "reason", "last_seen", "urgency",
              "disqualifiers_fired", "promoted", "fix_certainty",
              "root_cause", "recommended_fix"}
  BY <1>2, <1>3, <1>4
<1>6. \A m, n \in 1..10 : Rendered[m] = Rendered[n] => m = n
  BY <1>2, <1>4
<1> QED BY <1>1, <1>3, <1>5, <1>6

(* Where the elements of a concatenation come from.                          *)
LEMMA Concat ==
  ASSUME NEW S, NEW a \in Seq(S), NEW b \in Seq(S)
  PROVE  /\ a \o b \in Seq(S) /\ Len(a \o b) = Len(a) + Len(b)
         /\ Len(a) \in Nat /\ Len(b) \in Nat
         /\ \A i \in 1..Len(a) : (a \o b)[i] = a[i]
         /\ \A i \in 1..Len(b) : (a \o b)[Len(a) + i] = b[i]
<1>1. a \o b \in Seq(S) /\ Len(a \o b) = Len(a) + Len(b) /\ Len(a) \in Nat /\ Len(b) \in Nat
  BY ConcatProperties
<1>2. \A i \in 1..Len(a) + Len(b) : (a \o b)[i] = IF i <= Len(a) THEN a[i] ELSE b[i - Len(a)]
  BY ConcatProperties
<1>3. ASSUME NEW i \in 1..Len(b) PROVE (a \o b)[Len(a) + i] = b[i]
  <2>1. Len(a) + i \in 1..Len(a) + Len(b) /\ ~(Len(a) + i <= Len(a)) /\ (Len(a) + i) - Len(a) = i
    BY <1>1
  <2> QED BY <1>2, <2>1
<1> QED BY <1>1, <1>2, <1>3

(* All but the last element of a sequence.                                   *)
LEMMA FrontFacts ==
  ASSUME NEW S, NEW q \in Seq(S), Len(q) > 0
  PROVE  /\ Front(q) \in Seq(S) /\ Len(Front(q)) = Len(q) - 1
         /\ \A i \in 1..Len(q) - 1 : Front(q)[i] = q[i]
<1> DEFINE m == 1
           n == Len(q) - 1
<1>1. m \in Int /\ n \in Int /\ n >= 0 /\ \A i \in m..n : q[i] \in S
  OBVIOUS
<1>2. Front(q) = SubSeq(q, m, n)
  BY DEF Front
<1>3. m = 1
  OBVIOUS
<1> HIDE DEF m, n
<1>4. /\ SubSeq(q, m, n) \in Seq(S)
      /\ Len(SubSeq(q, m, n)) = IF m <= n THEN n - m + 1 ELSE 0
      /\ \A i \in 1..n - m + 1 : SubSeq(q, m, n)[i] = q[m + i - 1]
  BY <1>1, SubSeqProperties
<1>5. Len(SubSeq(q, m, n)) = n /\ \A i \in 1..n : SubSeq(q, m, n)[i] = q[i]
  BY <1>1, <1>3, <1>4
<1> QED BY <1>2, <1>4, <1>5 DEF n

(* A rendered line: an entry, or nothing for an empty field of the binary's own.*)
LEMMA FieldAt ==
  ASSUME NEW u, NEW n \in 1..10
  PROVE  Fields(u)[n] = IF Rendered[n] \in Owned /\ u[Rendered[n]] = <<>>
                        THEN Gap ELSE Entry(Rendered[n], u[Rendered[n]])
  BY RenderedFacts DEF Fields

(* Render writes twelve lines: a fence, ten fields and the closing fence.    *)
LEMMA RenderShape ==
  ASSUME NEW u \in Verdicts
  PROVE  /\ Render(u) \in Seq(Lines) /\ Len(Render(u)) = 12
         /\ Render(u)[1] = Opening("yaml") /\ Render(u)[12] = Closing
         /\ \A n \in 1..10 : Render(u)[n + 1] = Fields(u)[n]
         /\ \A n \in 1..10 : Fields(u)[n] \in Lines
<1>1. \A n \in 1..10 : Fields(u)[n] \in Lines
  <2> TAKE n \in 1..10
  <2>1. Rendered[n] \in Schema /\ Rendered[n] \in Words /\ u[Rendered[n]] \in Seq(Words)
    BY RenderedFacts, BodiesAssumption DEF Verdicts
  <2>2. "key" \in Kinds /\ "quoted" \in Forms
    BY DEF Kinds, Forms
  <2>3. Entry(Rendered[n], u[Rendered[n]]) \in Lines
    BY <2>1, <2>2, LineType DEF Entry
  <2> QED BY <2>3, FixedTypes, FieldAt
<1>2. Fields(u) \in Seq(Lines) /\ Len(Fields(u)) = 10
  <2>1. Fields(u) \in [1..10 -> Lines]
    BY <1>1, RenderedFacts DEF Fields
  <2> DEFINE n == 10
  <2>2. n \in Nat /\ Fields(u) \in [1..n -> Lines]
    BY <2>1
  <2> HIDE DEF n
  <2>3. Fields(u) \in Seq(Lines) /\ Len(Fields(u)) = n
    BY <2>2, SeqIntro
  <2> QED BY <2>3 DEF n
<1> DEFINE a == <<Opening("yaml")>>
           c == <<Closing>>
           f == Fields(u)
           r == (a \o f) \o c
<1>3. a \in Seq(Lines) /\ c \in Seq(Lines) /\ f \in Seq(Lines)
  BY FixedTypes, Single, <1>2
<1>4. Len(a) = 1 /\ a[1] = Opening("yaml") /\ Len(c) = 1 /\ c[1] = Closing
  BY FixedTypes, Single
<1>5. Render(u) = r
  BY DEF Render
<1> HIDE DEF a, c, f
<1>6. /\ a \o f \in Seq(Lines) /\ Len(a \o f) = Len(a) + Len(f)
      /\ \A i \in 1..Len(a) : (a \o f)[i] = a[i]
      /\ \A i \in 1..Len(f) : (a \o f)[Len(a) + i] = f[i]
  BY <1>3, Concat
<1>7. /\ r \in Seq(Lines) /\ Len(r) = Len(a \o f) + Len(c)
      /\ \A i \in 1..Len(a \o f) : r[i] = (a \o f)[i]
      /\ \A i \in 1..Len(c) : r[Len(a \o f) + i] = c[i]
  BY <1>3, <1>6, Concat
<1> HIDE DEF r
<1>8. Len(f) = 10
  BY <1>2 DEF f
<1>9. Len(a \o f) = 11 /\ Len(r) = 12
  BY <1>4, <1>6, <1>7, <1>8
<1>10. \A n \in 1..10 : r[n + 1] = f[n]
  <2> TAKE n \in 1..10
  <2>1. (a \o f)[1 + n] = f[n]
    BY <1>4, <1>6, <1>8
  <2>2. 1 + n \in 1..11 /\ 1 + n = n + 1
    OBVIOUS
  <2>3. r[1 + n] = (a \o f)[1 + n]
    BY <1>7, <1>9, <2>2
  <2> QED BY <2>1, <2>2, <2>3
<1>11. r[1] = Opening("yaml")
  BY <1>4, <1>6, <1>7, <1>9
<1>12. r[12] = Closing
  <2>1. r[11 + 1] = c[1]
    BY <1>4, <1>7, <1>9
  <2> QED BY <2>1, <1>4
<1> QED BY <1>1, <1>5, <1>7, <1>9, <1>10, <1>11, <1>12 DEF f

(* RestoreUnmodeledLines keeps the rendering but its last fence, lets every line of*)
(* the original follow that belongs to a key outside the schema, and closes the    *)
(* block.  The keys the rendering has and the binary's own are the schema.         *)
LEMMA RestoreShape ==
  ASSUME NEW s \in Seq(Lines), NEW u \in Verdicts
  PROVE  LET R == RestoreUnmodeledLines(s, Render(u)) IN
         /\ R \in Seq(Lines) /\ Len(R) = Len(s) + 12
         /\ R[1] = Opening("yaml") /\ R[Len(s) + 12] = Closing
         /\ \A n \in 1..10 : R[n + 1] = Fields(u)[n]
         /\ \A i \in DOMAIN s : R[i + 11] = IF Extra(s, i, Schema) THEN s[i] ELSE Gap
<1> DEFINE present == {TopKey(l) : l \in {m \in ToSet(Render(u)) : TopLevel(m)}}
           f == Front(Render(u))
           e == [i \in DOMAIN s |-> IF Extra(s, i, Schema) THEN s[i] ELSE Gap]
           c == <<Closing>>
<1> DEFINE r == Render(u)
<1>0. /\ r \in Seq(Lines) /\ DOMAIN r = 1..12 /\ Len(r) = 12
      /\ r[1] = Opening("yaml") /\ r[12] = Closing
      /\ \A n \in 1..10 : r[n + 1] = Fields(u)[n]
  <2>1. r \in Seq(Lines) /\ Len(r) = 12
    BY RenderShape
  <2>2. DOMAIN r = 1..12
    <3> HIDE DEF r
    <3> QED BY <2>1
  <2> QED BY <2>1, <2>2, RenderShape
<1> HIDE DEF r
<1>1. present \cup Owned = Schema
  <2>1. ASSUME NEW l \in ToSet(Render(u)), TopLevel(l) PROVE TopKey(l) \in Schema
    <3>1. PICK i \in 1..12 : l = r[i]
      BY <1>0, <2>1 DEF ToSet, r
    <3>2. CASE i = 1 \/ i = 12
      BY <2>1, <3>1, <3>2, <1>0, KindFacts DEF TopLevel
    <3>3. CASE i \in 2..11
      <4>1. i - 1 \in 1..10 /\ i = (i - 1) + 1
        BY <3>3
      <4>2. l = Fields(u)[i - 1]
        BY <3>1, <4>1, <1>0
      <4>3. l = Entry(Rendered[i - 1], u[Rendered[i - 1]])
        BY <2>1, <4>1, <4>2, FieldAt, KindFacts DEF TopLevel
      <4>4. TopKey(l) = Rendered[i - 1] \/ Rendered[i - 1] = "file:line"
        BY <4>3 DEF TopKey, Entry, Line
      <4> QED BY <4>1, <4>4, RenderedFacts
    <3> QED BY <3>2, <3>3
  <2>2. ASSUME NEW k \in Schema \ Owned PROVE k \in present
    <3>1. PICK n \in 1..10 : Rendered[n] = k
      BY RenderedFacts
    <3>2. Fields(u)[n] = Entry(k, u[k])
      BY <3>1, FieldAt
    <3>3. r[n + 1] = Entry(k, u[k]) /\ n + 1 \in DOMAIN r
      BY <3>2, <1>0
    <3>4. Entry(k, u[k]) \in ToSet(Render(u)) /\ TopLevel(Entry(k, u[k]))
      BY <3>3 DEF ToSet, Entry, Line, TopLevel, r
    <3>5. TopKey(Entry(k, u[k])) = k
      BY RenderedFacts DEF TopKey, Entry, Line
    <3> QED BY <3>4, <3>5
  <2>3. Owned \subseteq Schema
    BY RenderedFacts DEF Owned
  <2> QED BY <2>1, <2>2, <2>3
<1>2. RestoreUnmodeledLines(s, Render(u)) = (f \o e) \o c
  <2> HIDE DEF f
  <2> QED BY <1>1 DEF RestoreUnmodeledLines, f, r
<1>3. f \in Seq(Lines) /\ Len(f) = 11 /\ \A i \in 1..11 : f[i] = r[i]
  <2>1. f = Front(r)
    BY DEF r
  <2> HIDE DEF f
  <2>2. f \in Seq(Lines) /\ Len(f) = Len(r) - 1 /\ \A i \in 1..Len(r) - 1 : f[i] = r[i]
    <3>1. r \in Seq(Lines) /\ Len(r) > 0
      BY <1>0
    <3> QED BY <2>1, <3>1, FrontFacts
  <2> QED BY <1>0, <2>2
<1>4. e \in Seq(Lines) /\ Len(e) = Len(s)
  <2>1. \A i \in DOMAIN s : e[i] \in Lines
    BY FixedTypes
  <2>2. e = [i \in DOMAIN s |-> e[i]]
    OBVIOUS
  <2> HIDE DEF e
  <2> QED BY <2>1, <2>2, PointwiseType
<1>5. c \in Seq(Lines) /\ Len(c) = 1 /\ c[1] = Closing
  BY FixedTypes, Single
<1>6. \A i \in DOMAIN s : e[i] = IF Extra(s, i, Schema) THEN s[i] ELSE Gap
  OBVIOUS
<1> DEFINE R == (f \o e) \o c
<1> HIDE DEF f, e, c
<1>7. f \in Seq(Lines) /\ e \in Seq(Lines) /\ c \in Seq(Lines)
  BY <1>3, <1>4, <1>5
<1>8. /\ f \o e \in Seq(Lines) /\ Len(f \o e) = Len(f) + Len(e) /\ Len(e) \in Nat
      /\ \A i \in 1..Len(f) : (f \o e)[i] = f[i]
      /\ \A i \in 1..Len(e) : (f \o e)[Len(f) + i] = e[i]
  BY <1>7, Concat
<1>9. /\ R \in Seq(Lines) /\ Len(R) = Len(f \o e) + Len(c)
      /\ \A i \in 1..Len(f \o e) : R[i] = (f \o e)[i]
      /\ \A i \in 1..Len(c) : R[Len(f \o e) + i] = c[i]
  BY <1>7, <1>8, Concat
<1> HIDE DEF R
<1> DEFINE L == Len(s)
<1>10. L \in Nat /\ DOMAIN s = 1..L
  OBVIOUS
<1>11. Len(f) = 11 /\ Len(e) = L /\ Len(f \o e) = L + 11 /\ Len(R) = L + 12
  BY <1>3, <1>4, <1>5, <1>8, <1>9
<1> HIDE DEF L
<1>12. \A i \in 1..11 : R[i] = r[i]
  <2> SUFFICES ASSUME NEW i \in 1..11 PROVE R[i] = r[i]
    OBVIOUS
  <2>1. i \in 1..Len(f) /\ i \in 1..Len(f \o e)
    BY <1>10, <1>11
  <2>2. R[i] = (f \o e)[i] /\ (f \o e)[i] = f[i]
    BY <2>1, <1>8, <1>9
  <2> QED BY <2>1, <2>2, <1>3
<1>13. R[1] = Opening("yaml")
  BY <1>12, <1>0
<1>14. R[L + 12] = Closing
  <2>1. R[(L + 11) + 1] = c[1]
    BY <1>5, <1>9, <1>11
  <2>2. (L + 11) + 1 = L + 12
    BY <1>10
  <2> QED BY <2>1, <2>2, <1>5
<1>15. \A n \in 1..10 : R[n + 1] = Fields(u)[n]
  BY <1>12, <1>0
<1>16. \A i \in DOMAIN s : R[i + 11] = IF Extra(s, i, Schema) THEN s[i] ELSE Gap
  <2> TAKE i \in DOMAIN s
  <2>1. i \in 1..L /\ 11 + i = i + 11 /\ 11 + i \in 1..L + 11
    BY <1>10
  <2>2. (f \o e)[11 + i] = e[i]
    BY <1>8, <1>11, <2>1
  <2>3. R[11 + i] = (f \o e)[11 + i]
    BY <1>9, <1>11, <2>1
  <2> QED BY <1>6, <2>1, <2>2, <2>3
<1> QED BY <1>2, <1>9, <1>11, <1>13, <1>14, <1>15, <1>16 DEF R, L

-----------------------------------------------------------------------------
(* A legal block has a key at most once, so Decode reads the line that has it.*)
LEMMA DecodeAt ==
  ASSUME NEW b, NEW keys, NEW k \in keys
  PROVE  /\ Members(b, k) = {} => Decode(b, keys)[k] = <<>>
         /\ \A i \in Members(b, k) : Legal(b) => Decode(b, keys)[k] = b[i].val
<1>1. ASSUME NEW i \in Members(b, k), Legal(b) PROVE Decode(b, keys)[k] = b[i].val
  <2> DEFINE c == CHOOSE n \in Members(b, k) : TRUE
  <2>1. c \in Members(b, k)
    BY <1>1
  <2>2. Decode(b, keys)[k] = b[c].val
    BY <1>1 DEF Decode
  <2> HIDE DEF c
  <2>3. c = i
    BY <1>1, <2>1 DEF Legal, Members
  <2> QED BY <2>2, <2>3
<1> QED BY <1>1 DEF Decode

(* Fences are lines of the section.                                          *)
LEMMA FencedAreLines ==
  ASSUME NEW s \in Seq(Lines), NEW langs
  PROVE  Openings(s, langs) \subseteq 1..Len(s) /\ Openings(s, langs) \subseteq Nat
  BY DEF Openings

(* Parse reads the block at o when it is the first with a verdict and every block*)
(* up to it is legal.                                                            *)
LEMMA FirstBlock ==
  ASSUME NEW s \in Seq(Lines), NEW o \in Fenced(s),
         \A i \in Fenced(s) : i <= o =>
           Legal(BlockAt(s, i)) /\ (HasVerdict(BlockAt(s, i)) <=> i = o)
  PROVE  ParsedBlock(s) = BlockAt(s, o)
<1> DEFINE m == Min(Yielding(s))
<1>1. Yielding(s) \subseteq Fenced(s) /\ Fenced(s) \in SUBSET Nat
  BY FencedAreLines DEF Yielding, Fenced
<1>2. \A i \in Fenced(s) : i <= o => Best(BlockAt(s, i)) = BlockAt(s, i)
  BY DEF Best
<1>3. o \in Yielding(s)
  BY <1>1, <1>2 DEF Yielding, Yields
<1>4. m \in Yielding(s) /\ m <= o
  <2>1. Yielding(s) \in SUBSET Nat /\ Yielding(s) # {}
    BY <1>1, <1>3
  <2> QED BY <1>3, <2>1, MinIsLeast
<1>5. m = o
  <2> HIDE DEF m
  <2>1. HasVerdict(BlockAt(s, m))
    BY <1>1, <1>2, <1>4 DEF Yielding, Yields
  <2> QED BY <1>1, <1>4, <2>1
<1>6. ParsedBlock(s) = Best(BlockAt(s, m))
  BY <1>3 DEF ParsedBlock
<1> HIDE DEF m
<1> QED BY <1>1, <1>2, <1>5, <1>6

(* The same of deepverdict.Parse.                                            *)
LEMMA FirstDeepBlock ==
  ASSUME NEW s \in Seq(Lines), NEW o \in Openings(s, {"yaml"}),
         \A i \in Openings(s, {"yaml"}) : i <= o =>
           Legal(BlockAt(s, i)) /\ (HasVerdict(BlockAt(s, i)) <=> i = o)
  PROVE  DeepBlock(s) = BlockAt(s, o)
<1> DEFINE m == Min(Stopping(s))
           F == Openings(s, {"yaml"})
<1>1. Stopping(s) \subseteq F /\ F \in SUBSET Nat
  BY FencedAreLines DEF Stopping
<1>2. \A i \in F : i <= o => DeepBest(BlockAt(s, i)) = BlockAt(s, i)
  BY DEF DeepBest
<1>3. o \in Stopping(s)
  BY <1>1, <1>2 DEF Stopping, DeepStops
<1>4. m \in Stopping(s) /\ m <= o
  <2>1. Stopping(s) \in SUBSET Nat /\ Stopping(s) # {}
    BY <1>1, <1>3
  <2> QED BY <1>3, <2>1, MinIsLeast
<1>5. m = o
  <2> HIDE DEF m
  <2>1. Legal(BlockAt(s, m)) => HasVerdict(BlockAt(s, m))
    BY <1>1, <1>2, <1>4 DEF Stopping, DeepStops
  <2> QED BY <1>1, <1>4, <2>1
<1>6. DeepBlock(s) = DeepBest(BlockAt(s, m))
  BY <1>3 DEF DeepBlock
<1> HIDE DEF m
<1> QED BY <1>1, <1>2, <1>5, <1>6

(* Where no JSON fence stands up to o, both parsers see the same blocks up to o.*)
LEMMA SameOpenings ==
  ASSUME NEW s \in Seq(Lines), NEW o \in DOMAIN s,
         \A i \in 1..o : s[i].kind = "open" => s[i].key # "json"
  PROVE  \A i \in 1..o : i \in Openings(s, {"yaml"}) <=> i \in Fenced(s)
<1>1. o \in Nat /\ o <= Len(s)
  OBVIOUS
<1>2. \A i \in 0..o : Within(s, {"yaml"})[i] = Within(s, {"yaml", "json"})[i]
  BY <1>1, WithinSame
<1>3. \A i \in 1..o : i \in DOMAIN s
  BY <1>1
<1> QED BY <1>2, <1>3 DEF Openings, Fenced

(* The two parsers read the same block of a section that Reads accepts, and so*)
(* the same value of every key both know.                                     *)
LEMMA ReadsDeep ==
  ASSUME NEW s \in Seq(Lines), NEW o, Reads(s, o)
  PROVE  /\ ParsedBlock(s) = BlockAt(s, o) /\ DeepBlock(s) = BlockAt(s, o)
         /\ Legal(BlockAt(s, o)) /\ Parse(s)["verdict"] # <<>>
         /\ \A k \in Schema \cap DeepSchema : DeepParse(s)[k] = Parse(s)[k]
<1>1. o \in Fenced(s) /\ o \in DOMAIN s
  BY DEF Reads, Fenced, Openings
<1>2. ParsedBlock(s) = BlockAt(s, o)
  BY <1>1, FirstBlock DEF Reads
<1>3. \A i \in 1..o : i \in Openings(s, {"yaml"}) <=> i \in Fenced(s)
  BY <1>1, SameOpenings DEF Reads
<1>4. o \in Openings(s, {"yaml"}) /\ \A i \in Openings(s, {"yaml"}) : i <= o =>
           Legal(BlockAt(s, i)) /\ (HasVerdict(BlockAt(s, i)) <=> i = o)
  BY <1>1, <1>3, FencedAreLines DEF Reads
<1>5. DeepBlock(s) = BlockAt(s, o)
  BY <1>4, FirstDeepBlock
<1>6. Legal(BlockAt(s, o)) /\ HasVerdict(BlockAt(s, o))
  BY <1>1, <1>4
<1>7. \A k \in Schema \cap DeepSchema : DeepParse(s)[k] = Parse(s)[k]
  BY <1>2, <1>5 DEF DeepParse, Parse, Decode
<1> QED BY <1>2, <1>5, <1>6, <1>7 DEF HasVerdict, Parse

(* A line of a block is the section's or a gap; it is the section's where no fence*)
(* stands between.                                                                *)
LEMMA BlockLine ==
  ASSUME NEW s \in Seq(Lines), NEW o \in Nat, NEW i \in DOMAIN s
  PROVE  /\ BlockAt(s, o)[i] = s[i] \/ BlockAt(s, o)[i] = Gap
         /\ BlockAt(s, o)[i] # Gap => o < i /\ (\A j \in o + 1 .. i : ~Fence(s[j])) /\ BlockAt(s, o)[i] = s[i]
         /\ o < i /\ (\A j \in o + 1 .. i : ~Fence(s[j])) => BlockAt(s, o)[i] = s[i]
  BY DEF BlockAt

(* Taking lines out of a legal block leaves it legal; a key whose lines all stay*)
(* keeps its value, one whose lines all go loses it.                            *)
LEMMA Thinned ==
  ASSUME NEW b \in Seq(Lines), NEW c \in Seq(Lines), DOMAIN c = DOMAIN b, Legal(b),
         \A i \in DOMAIN b : c[i] = b[i] \/ c[i] = Gap
  PROVE  /\ Legal(c)
         /\ \A k : Members(c, k) \subseteq Members(b, k)
         /\ \A keys : \A k \in keys : Decode(c, keys)[k] \in {Decode(b, keys)[k], <<>>}
         /\ \A keys : \A k \in keys :
              (\A i \in Members(b, k) : c[i] = b[i]) => Decode(c, keys)[k] = Decode(b, keys)[k]
         /\ \A keys : \A k \in keys :
              (\A i \in Members(b, k) : c[i] = Gap) => Decode(c, keys)[k] = <<>>
<1>1. \A i \in DOMAIN c : IsMember(c[i]) => c[i] = b[i]
  BY KindFacts DEF IsMember
<1>2. Legal(c)
  BY <1>1, KindFacts DEF Legal, IsMember
<1>3. \A k : Members(c, k) \subseteq Members(b, k)
  BY <1>1 DEF Members
<1>4. ASSUME NEW keys, NEW k \in keys, NEW i \in Members(c, k)
      PROVE  Decode(c, keys)[k] = Decode(b, keys)[k]
  <2>1. i \in Members(b, k) /\ c[i] = b[i]
    BY <1>1, <1>3 DEF Members
  <2> QED BY <1>2, <2>1, DecodeAt
<1>5. ASSUME NEW keys, NEW k \in keys, Members(c, k) = {} PROVE Decode(c, keys)[k] = <<>>
  BY <1>5, DecodeAt
<1>6. ASSUME NEW keys, NEW k \in keys, \A i \in Members(b, k) : c[i] = b[i]
      PROVE  Decode(c, keys)[k] = Decode(b, keys)[k]
  <2>1. CASE Members(b, k) = {}
    BY <2>1, <1>3, DecodeAt
  <2>2. CASE Members(b, k) # {}
    <3>1. PICK i \in Members(b, k) : TRUE
      BY <2>2
    <3>2. i \in Members(c, k)
      BY <1>6 DEF Members
    <3> QED BY <3>2, <1>4
  <2> QED BY <2>1, <2>2
<1>7. ASSUME NEW keys, NEW k \in keys, \A i \in Members(b, k) : c[i] = Gap
      PROVE  Decode(c, keys)[k] = <<>>
  <2>1. Members(c, k) = {}
    BY <1>3, <1>7, KindFacts DEF Members, IsMember
  <2> QED BY <2>1, DecodeAt
<1> QED BY <1>2, <1>3, <1>4, <1>5, <1>6, <1>7

(* A line with a top-level key is in its own entry and in no other.          *)
LEMMA KeyEntry ==
  ASSUME NEW s \in Seq(Lines), NEW i \in DOMAIN s, s[i].kind = "key"
  PROVE  /\ \A h \in DOMAIN s : Begins(s, h, i) <=> h = i
         /\ \A keys : InEntry(s, i, keys) <=> TopKey(s[i]) \in keys
         /\ \A keys : Extra(s, i, keys) <=> TopKey(s[i]) \notin keys
<1>1. TopLevel(s[i]) /\ i \in Int
  BY DEF TopLevel
<1>2. ASSUME NEW h \in DOMAIN s, Begins(s, h, i) PROVE h = i
  <2>1. h <= i /\ h \in Int
    BY <1>2 DEF Begins
  <2>2. CASE h < i
    <3>1. i \in h + 1 .. i
      BY <1>1, <2>1, <2>2
    <3> QED BY <1>1, <1>2, <3>1 DEF Begins
  <2> QED BY <1>1, <2>1, <2>2
<1>3. Begins(s, i, i)
  BY <1>1 DEF Begins
<1> QED BY <1>2, <1>3 DEF InEntry, Extra

(* Entries are told by kinds and keys alone.                                 *)
LEMMA SameKinds ==
  ASSUME NEW s \in Seq(Lines), NEW t \in Seq(Lines), DOMAIN t = DOMAIN s,
         \A i \in DOMAIN s : t[i].kind = s[i].kind /\ t[i].key = s[i].key
  PROVE  /\ \A h, i \in DOMAIN s : Begins(t, h, i) <=> Begins(s, h, i)
         /\ \A i \in DOMAIN s : TopKey(t[i]) = TopKey(s[i])
         /\ \A keys : \A i \in DOMAIN s : InEntry(t, i, keys) <=> InEntry(s, i, keys)
         /\ \A keys : \A i \in DOMAIN s : Extra(t, i, keys) <=> Extra(s, i, keys)
<1>1. ASSUME NEW h \in DOMAIN s, NEW i \in DOMAIN s PROVE Begins(t, h, i) <=> Begins(s, h, i)
  <2>1. \A j \in h + 1 .. i : j \in DOMAIN s
    OBVIOUS
  <2> QED BY <2>1 DEF Begins, TopLevel
<1>2. \A i \in DOMAIN s : TopKey(t[i]) = TopKey(s[i])
  BY DEF TopKey
<1> QED BY <1>1, <1>2 DEF InEntry, Extra

(* Two sections with the same fences have the same blocks, line for line.    *)
LEMMA SameFences ==
  ASSUME NEW s \in Seq(Lines), NEW t \in Seq(Lines), DOMAIN t = DOMAIN s,
         \A i \in DOMAIN s : Fence(s[i]) \/ Fence(t[i]) => t[i].kind = s[i].kind /\ t[i].key = s[i].key
  PROVE  /\ Len(t) = Len(s)
         /\ \A i \in DOMAIN s : Fence(t[i]) <=> Fence(s[i])
         /\ \A langs : \A i \in 0..Len(s) : Within(t, langs)[i] = Within(s, langs)[i]
         /\ \A langs : Openings(t, langs) = Openings(s, langs)
         /\ \A o \in Nat, i \in DOMAIN s : t[i] = s[i] => BlockAt(t, o)[i] = BlockAt(s, o)[i]
         /\ \A o \in Nat, i \in DOMAIN s : t[i] = Gap => BlockAt(t, o)[i] = Gap
<1>1. Len(t) = Len(s) /\ Len(s) \in Nat /\ DOMAIN s = 1..Len(s)
  OBVIOUS
<1>2. \A i \in DOMAIN s : Fence(t[i]) <=> Fence(s[i])
  BY DEF Fence
<1>3. ASSUME NEW langs PROVE \A i \in 0..Len(s) : Within(t, langs)[i] = Within(s, langs)[i]
  <2>1. \A i \in 1..Len(s) : Fence(s[i]) <=> Fence(t[i])
    BY <1>1, <1>2
  <2>2. \A i \in 1..Len(s) : Fence(s[i]) => t[i].kind = s[i].kind /\ t[i].key = s[i].key
    BY <1>1
  <2>3. \A i \in 1..Len(s) : Fence(s[i]) =>
          (s[i].kind = "open" /\ s[i].key \in langs <=> t[i].kind = "open" /\ t[i].key \in langs)
    BY <2>2
  <2>4. Len(s) <= Len(s) /\ Len(s) <= Len(t)
    BY <1>1
  <2> DEFINE n == Len(s)
  <2>5. n \in Nat /\ n <= Len(s) /\ n <= Len(t)
    BY <1>1, <2>4
  <2>6. \A i \in 1..n : Fence(s[i]) <=> Fence(t[i])
    BY <2>1
  <2>7. \A i \in 1..n : Fence(s[i]) =>
          (s[i].kind = "open" /\ s[i].key \in langs <=> t[i].kind = "open" /\ t[i].key \in langs)
    BY <2>3
  <2> HIDE DEF n
  <2>8. \A i \in 0..n : Within(s, langs)[i] = Within(t, langs)[i]
    BY <2>5, <2>6, <2>7, WithinSame
  <2> QED BY <2>8 DEF n
<1>4. \A langs : Openings(t, langs) = Openings(s, langs)
  <2> TAKE langs
  <2>1. \A i \in DOMAIN s : i \in 0..Len(s)
    BY <1>1
  <2> QED BY <1>3, <2>1 DEF Openings
<1>5. ASSUME NEW o \in Nat, NEW i \in DOMAIN s
      PROVE  /\ t[i] = s[i] => BlockAt(t, o)[i] = BlockAt(s, o)[i]
             /\ t[i] = Gap => BlockAt(t, o)[i] = Gap
  <2>1. \A j \in o + 1 .. i : j \in DOMAIN s
    BY <1>1
  <2> QED BY <1>2, <2>1 DEF BlockAt
<1> QED BY <1>1, <1>2, <1>3, <1>4, <1>5

(* StripKeys takes the fields of the binary out of a section that is read at o and *)
(* nothing else: the section is still read at o, it says what it said without these*)
(* fields, and file:line and the last fence are where they were.                   *)
LEMMA StripReads ==
  ASSUME NEW s \in Seq(Lines), NEW o, Reads(s, o)
  PROVE  LET t == StripKeys(s, Owned) IN
         /\ t \in Seq(Lines) /\ Len(t) = Len(s) /\ Reads(t, o) /\ Parse(t) = Unowned(Parse(s))
         /\ DeepParse(t)["file:line"] = DeepParse(s)["file:line"]
         /\ Within(t, {"yaml"})[Len(t)] = Within(s, {"yaml"})[Len(s)]
<1> DEFINE t == StripKeys(s, Owned)
<1>1. /\ o \in Fenced(s) /\ o \in DOMAIN s /\ o \in Nat
      /\ \A i \in Fenced(s) : i <= o =>
           Legal(BlockAt(s, i)) /\ (HasVerdict(BlockAt(s, i)) <=> i = o)
      /\ \A i \in 1..o : s[i].kind = "open" => s[i].key # "json"
      /\ \A i \in DOMAIN s : BlockAt(s, o)[i].kind # "json"
      /\ \A i \in DOMAIN s : InEntry(s, i, Owned) => ~Fence(s[i])
  BY FencedAreLines DEF Reads, Fenced
<1>2. \A i \in DOMAIN s : t[i] = IF InEntry(s, i, Owned) THEN Gap ELSE s[i]
  BY DEF StripKeys
<1>3. t \in Seq(Lines) /\ DOMAIN t = DOMAIN s
  <2>1. \A i \in DOMAIN s : t[i] \in Lines
    BY <1>2, FixedTypes
  <2>2. t = [i \in DOMAIN s |-> t[i]]
    BY DEF StripKeys
  <2> HIDE DEF t
  <2> QED BY <2>1, <2>2, PointwiseType
<1> HIDE DEF t
<1>4. /\ Len(t) = Len(s)
      /\ \A langs : \A i \in 0..Len(s) : Within(t, langs)[i] = Within(s, langs)[i]
      /\ \A langs : Openings(t, langs) = Openings(s, langs)
      /\ \A n \in Nat, i \in DOMAIN s : t[i] = s[i] => BlockAt(t, n)[i] = BlockAt(s, n)[i]
      /\ \A n \in Nat, i \in DOMAIN s : t[i] = Gap => BlockAt(t, n)[i] = Gap
  <2>1. \A i \in DOMAIN s : Fence(s[i]) \/ Fence(t[i]) => t[i].kind = s[i].kind /\ t[i].key = s[i].key
    BY <1>1, <1>2, KindFacts DEF Fence
  <2> QED BY <1>3, <2>1, SameFences
<1>5. Fenced(t) = Fenced(s)
  BY <1>4 DEF Fenced
<1>6. ASSUME NEW n \in Nat
      PROVE  /\ BlockAt(s, n) \in Seq(Lines) /\ BlockAt(t, n) \in Seq(Lines)
             /\ DOMAIN BlockAt(s, n) = DOMAIN s /\ DOMAIN BlockAt(t, n) = DOMAIN s
             /\ \A i \in DOMAIN s : BlockAt(t, n)[i] = BlockAt(s, n)[i] \/ BlockAt(t, n)[i] = Gap
  BY <1>2, <1>3, <1>4, BlockAtType
<1>7. \A n \in Fenced(s) : n \in Nat
  BY FencedAreLines DEF Fenced
<1>8. ASSUME NEW n \in Fenced(s), n <= o
      PROVE  Legal(BlockAt(t, n)) /\ (HasVerdict(BlockAt(t, n)) => HasVerdict(BlockAt(s, n)))
  <2>1. Legal(BlockAt(s, n)) /\ n \in Nat
    BY <1>1, <1>7, <1>8
  <2>2. "verdict" \in Schema
    BY RenderedFacts
  <2>3. /\ Legal(BlockAt(t, n))
        /\ Decode(BlockAt(t, n), Schema)["verdict"] \in {Decode(BlockAt(s, n), Schema)["verdict"], <<>>}
    BY <1>6, <2>1, <2>2, Thinned
  <2> QED BY <2>3 DEF HasVerdict
<1> DEFINE b == BlockAt(s, o)
           c == BlockAt(t, o)
<1>9. ASSUME NEW i \in DOMAIN s, IsMember(b[i])
      PROVE  /\ b[i] = s[i] /\ s[i].kind = "key"
             /\ TopKey(s[i]) \in Owned => c[i] = Gap
             /\ TopKey(s[i]) \notin Owned => c[i] = b[i]
  <2>1. b[i] = s[i] /\ s[i].kind = "key"
    BY <1>1, <1>9, BlockLine, KindFacts DEF IsMember
  <2>2. InEntry(s, i, Owned) <=> TopKey(s[i]) \in Owned
    BY <2>1, KeyEntry
  <2> QED BY <1>1, <1>2, <1>4, <2>1, <2>2
<1>10. ASSUME NEW k, NEW i \in Members(b, k), NEW keys
      PROVE  /\ k \in Owned => c[i] = Gap
             /\ k \notin Owned => c[i] = b[i]
  <2>1. i \in DOMAIN s /\ IsMember(b[i]) /\ b[i].key = k
    BY <1>1, <1>6, <1>10 DEF Members
  <2>2. k \in Owned <=> TopKey(s[i]) \in Owned
    BY <1>9, <2>1 DEF TopKey, Owned
  <2> QED BY <1>9, <2>1, <2>2
<1>11. /\ \A keys : \A k \in keys : k \in Owned => Decode(c, keys)[k] = <<>>
       /\ \A keys : \A k \in keys : k \notin Owned => Decode(c, keys)[k] = Decode(b, keys)[k]
  <2>1. Legal(b)
    BY <1>1
  <2> HIDE DEF b, c
  <2>2. b \in Seq(Lines) /\ c \in Seq(Lines) /\ DOMAIN c = DOMAIN b /\ \A i \in DOMAIN b : c[i] = b[i] \/ c[i] = Gap
    BY <1>1, <1>6 DEF b, c
  <2> QED BY <1>10, <2>1, <2>2, Thinned
<1>12. HasVerdict(c)
  <2>1. HasVerdict(b)
    BY <1>1
  <2>2. "verdict" \in Schema /\ "verdict" \notin Owned
    BY RenderedFacts DEF Owned
  <2> QED BY <1>11, <2>1, <2>2 DEF HasVerdict
<1>13. Reads(t, o)
  <2>1. \A i \in Fenced(t) : i <= o => Legal(BlockAt(t, i)) /\ (HasVerdict(BlockAt(t, i)) <=> i = o)
    BY <1>1, <1>5, <1>8, <1>12
  <2>2. \A i \in 1..o : t[i].kind = "open" => t[i].key # "json"
    <3>1. \A i \in 1..o : i \in DOMAIN s
      BY <1>1
    <3> QED BY <1>1, <1>2, <3>1, KindFacts
  <2>3. \A i \in DOMAIN t : BlockAt(t, o)[i].kind # "json"
    BY <1>1, <1>3, <1>6, KindFacts
  <2>4. ASSUME NEW i \in DOMAIN t, InEntry(t, i, Owned) PROVE FALSE
    <3>1. PICK h \in DOMAIN t : TopLevel(t[h]) /\ TopKey(t[h]) \in Owned
      BY <2>4 DEF InEntry, Begins
    <3>2. t[h] = s[h] /\ s[h].kind = "key" /\ ~InEntry(s, h, Owned)
      BY <1>2, <1>3, <3>1, KindFacts DEF TopLevel
    <3> QED BY <1>3, <3>1, <3>2, KeyEntry
  <2> QED BY <1>1, <1>5, <2>1, <2>2, <2>3, <2>4 DEF Reads
<1>14. /\ ParsedBlock(s) = b /\ ParsedBlock(t) = c /\ DeepBlock(s) = b /\ DeepBlock(t) = c
  BY <1>3, <1>13, ReadsDeep
<1> HIDE DEF b, c
<1>15. Parse(t) = Unowned(Parse(s))
  <2>1. \A k \in Schema : Parse(t)[k] = IF k \in Owned THEN <<>> ELSE Parse(s)[k]
    BY <1>11, <1>14 DEF Parse
  <2>2. Parse(t) = [k \in Schema |-> Parse(t)[k]] /\ Parse(s) = [k \in Schema |-> Parse(s)[k]]
    BY DEF Parse, Decode
  <2> HIDE DEF Parse
  <2>3. Parse(t) = [k \in Schema |-> IF k \in Owned THEN <<>> ELSE Parse(s)[k]]
    BY <2>1, <2>2
  <2>4. Unowned(Parse(s)) = [k \in Schema |-> IF k \in Owned THEN <<>> ELSE Parse(s)[k]]
    BY <2>2 DEF Unowned, Owned
  <2> QED BY <2>3, <2>4
<1>16. DeepParse(t)["file:line"] = DeepParse(s)["file:line"]
  <2>1. "file:line" \in DeepSchema /\ "file:line" \notin Owned
    BY DEF DeepSchema, Owned
  <2> QED BY <1>11, <1>14, <2>1 DEF DeepParse
<1>17. Within(t, {"yaml"})[Len(t)] = Within(s, {"yaml"})[Len(s)]
  <2>1. Len(s) \in 0..Len(s)
    OBVIOUS
  <2> QED BY <1>4, <2>1
<1> QED BY <1>3, <1>4, <1>13, <1>15, <1>16, <1>17 DEF t

(* RewriteIdentityLine sets the value of the first identity line and changes no*)
(* other line, and no kind or key.                                             *)
LEMMA RewriteShape ==
  ASSUME NEW s \in Seq(Lines), NEW id \in Seq(Words)
  PROVE  LET t == RewriteIdentityLine(s, id) IN
         /\ t \in Seq(Lines) /\ DOMAIN t = DOMAIN s
         /\ \A i \in DOMAIN s : t[i].kind = s[i].kind /\ t[i].key = s[i].key
         /\ \A i \in DOMAIN s : t[i] = s[i] \/ t[i].form = "plain"
         /\ \A i \in DOMAIN s : i \notin IdentityLines(s) => t[i] = s[i]
         /\ \A i \in IdentityLines(s) :
              (\A j \in IdentityLines(s) : i <= j) => t[i].val = id
         /\ \A i \in IdentityLines(s), j \in DOMAIN s :
              (\A k \in IdentityLines(s) : i <= k) /\ j # i => t[j] = s[j]
<1> DEFINE t == RewriteIdentityLine(s, id)
           First(i) == i \in IdentityLines(s) /\ \A j \in IdentityLines(s) : i <= j
<1>0. IdentityLines(s) \subseteq DOMAIN s /\ DOMAIN s \subseteq Nat
  BY DEF IdentityLines, Members
<1>1. \A i \in DOMAIN s : t[i] = IF First(i) THEN Line(s[i].kind, s[i].key, id, "plain") ELSE s[i]
  BY DEF RewriteIdentityLine
<1>2. t = [i \in DOMAIN s |-> t[i]]
  BY DEF RewriteIdentityLine
<1> HIDE DEF t
<1>3. \A i \in DOMAIN s : t[i] \in Lines
  <2> TAKE i \in DOMAIN s
  <2>1. s[i] \in Lines
    OBVIOUS
  <2>2. s[i].kind \in Kinds /\ s[i].key \in Words /\ "plain" \in Forms
    BY <2>1 DEF Lines, Forms
  <2> QED BY <1>1, <2>1, <2>2, LineType
<1>4. t \in Seq(Lines) /\ DOMAIN t = DOMAIN s
  BY <1>2, <1>3, PointwiseType
<1>5. \A i \in DOMAIN s : t[i].kind = s[i].kind /\ t[i].key = s[i].key /\ (t[i] = s[i] \/ t[i].form = "plain")
  BY <1>1, LineFields
<1>6. \A i \in DOMAIN s : i \notin IdentityLines(s) => t[i] = s[i]
  BY <1>1
<1>7. \A i \in IdentityLines(s) : First(i) => t[i].val = id
  BY <1>0, <1>1, LineFields
<1>8. \A i \in IdentityLines(s), j \in DOMAIN s : First(i) /\ j # i => t[j] = s[j]
  BY <1>0, <1>1
<1> QED BY <1>4, <1>5, <1>6, <1>7, <1>8 DEF t

(* Where the first identity line stands in the block that is read, the rewritten*)
(* section says what it said but for the identity.                              *)
LEMMA RewriteReads ==
  ASSUME NEW s \in Seq(Lines), NEW id \in Seq(Words), NEW o, Reads(s, o), IdentityStands(s, o),
         Parse(s)["sentry_issue_id"] # <<>>
  PROVE  LET t == RewriteIdentityLine(s, id) IN
         /\ Len(t) = Len(s) /\ Reads(t, o)
         /\ Parse(t) = [Parse(s) EXCEPT !["sentry_issue_id"] = id]
         /\ DeepParse(t)["file:line"] = DeepParse(s)["file:line"]
         /\ Within(t, {"yaml"})[Len(t)] = Within(s, {"yaml"})[Len(s)]
<1> DEFINE t == RewriteIdentityLine(s, id)
           b == BlockAt(s, o)
           c == BlockAt(t, o)
<1>1. /\ o \in Fenced(s) /\ o \in DOMAIN s /\ o \in Nat
      /\ \A i \in Fenced(s) : i <= o =>
           Legal(BlockAt(s, i)) /\ (HasVerdict(BlockAt(s, i)) <=> i = o)
      /\ \A i \in 1..o : s[i].kind = "open" => s[i].key # "json"
      /\ \A i \in DOMAIN s : BlockAt(s, o)[i].kind # "json"
      /\ \A i \in DOMAIN s : InEntry(s, i, Owned) => ~Fence(s[i])
  BY FencedAreLines DEF Reads, Fenced
<1>2. /\ t \in Seq(Lines) /\ DOMAIN t = DOMAIN s
      /\ \A i \in DOMAIN s : t[i].kind = s[i].kind /\ t[i].key = s[i].key
      /\ \A i \in DOMAIN s : t[i] = s[i] \/ t[i].form = "plain"
      /\ \A i \in DOMAIN s : i \notin IdentityLines(s) => t[i] = s[i]
  BY RewriteShape
<1>3. PICK m \in IdentityLines(s) : \A j \in IdentityLines(s) : m <= j
  <2>1. IdentityLines(s) \in SUBSET Nat
    BY DEF IdentityLines, Members
  <2>2. "sentry_issue_id" \in Schema
    BY RenderedFacts
  <2>3. Members(b, "sentry_issue_id") # {}
    <3>1. Parse(s)["sentry_issue_id"] = Decode(b, Schema)["sentry_issue_id"]
      BY ReadsDeep DEF Parse
    <3> QED BY <2>2, <3>1, DecodeAt
  <2>4. PICK i \in Members(b, "sentry_issue_id") : TRUE
    BY <2>3
  <2>5. i \in DOMAIN s /\ b[i] = s[i]
    <3>1. i \in DOMAIN s /\ b[i] # Gap
      BY BlockAtType, KindFacts DEF Members, IsMember
    <3> QED BY <1>1, <3>1, BlockLine
  <2>6. i \in IdentityLines(s)
    BY <2>4, <2>5 DEF IdentityLines, Members
  <2> QED BY <2>1, <2>6, Least
<1>4. /\ t[m].val = id
      /\ \A j \in DOMAIN s : j # m => t[j] = s[j]
  BY <1>3, RewriteShape
<1>5. /\ m \in DOMAIN s /\ m \in Nat /\ s[m].key = "sentry_issue_id" /\ IsMember(s[m])
      /\ o < m /\ \A j \in o + 1 .. m : ~Fence(s[j])
  BY <1>3 DEF IdentityStands, IdentityLines, Members
<1> HIDE DEF t
<1>6. /\ Len(t) = Len(s)
      /\ \A langs : \A i \in 0..Len(s) : Within(t, langs)[i] = Within(s, langs)[i]
      /\ \A langs : Openings(t, langs) = Openings(s, langs)
      /\ \A n \in Nat, i \in DOMAIN s : t[i] = s[i] => BlockAt(t, n)[i] = BlockAt(s, n)[i]
      /\ \A i \in DOMAIN s : Fence(t[i]) <=> Fence(s[i])
  BY <1>2, SameFences
<1>7. Fenced(t) = Fenced(s)
  BY <1>6 DEF Fenced
<1>8. Fence(s[o])
  BY <1>1, OpeningFacts DEF Fenced, Fence
<1>9. ASSUME NEW n \in Fenced(s), n < o PROVE BlockAt(t, n) = BlockAt(s, n)
  <2>1. n \in Nat
    BY FencedAreLines DEF Fenced
  <2>2. BlockAt(t, n)[m] = Gap /\ BlockAt(s, n)[m] = Gap
    <3>1. o \in n + 1 .. m
      BY <1>1, <1>5, <1>9, <2>1
    <3> QED BY <1>2, <1>5, <1>6, <1>8, <3>1, <1>1 DEF BlockAt
  <2>3. \A i \in DOMAIN s : BlockAt(t, n)[i] = BlockAt(s, n)[i]
    BY <1>4, <1>6, <2>1, <2>2
  <2>4. /\ BlockAt(t, n) = [i \in DOMAIN s |-> BlockAt(t, n)[i]]
        /\ BlockAt(s, n) = [i \in DOMAIN s |-> BlockAt(s, n)[i]]
    BY <1>2 DEF BlockAt
  <2> QED BY <2>3, <2>4
<1>10. /\ b \in Seq(Lines) /\ c \in Seq(Lines) /\ DOMAIN b = DOMAIN s /\ DOMAIN c = DOMAIN s
       /\ b[m] = s[m] /\ c[m] = t[m]
       /\ \A i \in DOMAIN s : i # m => c[i] = b[i]
  <2>1. c[m] = t[m]
    <3>1. \A j \in o + 1 .. m : j \in DOMAIN s
      BY <1>1, <1>5
    <3> QED BY <1>2, <1>5, <1>6, <3>1 DEF BlockAt
  <2>2. b \in Seq(Lines) /\ c \in Seq(Lines) /\ DOMAIN b = DOMAIN s /\ DOMAIN c = DOMAIN s
    BY <1>2, BlockAtType
  <2>3. b[m] = s[m]
    BY <1>1, <1>5, BlockLine
  <2>4. \A i \in DOMAIN s : i # m => c[i] = b[i]
    BY <1>1, <1>4, <1>6
  <2> HIDE DEF b, c
  <2> QED BY <2>1, <2>2, <2>3, <2>4
<1>11. Legal(b) /\ HasVerdict(b)
  BY <1>1
<1> HIDE DEF b, c
<1>12. /\ \A i \in DOMAIN s : c[i].kind = b[i].kind /\ c[i].key = b[i].key
       /\ \A i \in DOMAIN s : b[i].form # "risky" => c[i].form # "risky"
  <2>1. ASSUME NEW i \in DOMAIN s
        PROVE  c[i].kind = b[i].kind /\ c[i].key = b[i].key /\ (b[i].form # "risky" => c[i].form # "risky")
    <3>1. CASE i = m
      BY <1>2, <1>5, <1>10, <3>1
    <3>2. CASE i # m
      BY <1>10, <3>2
    <3> QED BY <3>1, <3>2
  <2> QED BY <2>1
<1>13. Legal(c)
  <2>1. \A i \in DOMAIN s : IsMember(c[i]) <=> IsMember(b[i])
    BY <1>12 DEF IsMember
  <2>2. \A i \in DOMAIN s : c[i].kind \in {"key", "json", "blank", "gap"} /\ c[i].form # "risky"
    BY <1>10, <1>11, <1>12 DEF Legal
  <2>3. ASSUME NEW i \in DOMAIN s, NEW j \in DOMAIN s, IsMember(c[i]), IsMember(c[j])
        PROVE  c[i].kind = c[j].kind /\ (c[i].key = c[j].key => i = j)
    <3>1. b[i].kind = b[j].kind /\ (b[i].key = b[j].key => i = j)
      BY <1>10, <1>11, <2>1, <2>3 DEF Legal
    <3> QED BY <3>1, <1>12
  <2> QED BY <1>10, <2>2, <2>3 DEF Legal
<1>14. \A k : Members(c, k) = Members(b, k)
  BY <1>10, <1>12 DEF Members, IsMember
<1>15. m \in Members(b, "sentry_issue_id")
  BY <1>5, <1>10 DEF Members
<1>16. ASSUME NEW keys, NEW k \in keys
       PROVE  Decode(c, keys)[k] = IF k = "sentry_issue_id" THEN id ELSE Decode(b, keys)[k]
  <2>1. CASE k = "sentry_issue_id"
    BY <1>4, <1>10, <1>13, <1>14, <1>15, <2>1, DecodeAt
  <2>2. CASE k # "sentry_issue_id"
    <3>1. \A i \in Members(b, k) : c[i] = b[i]
      BY <1>5, <1>10, <2>2 DEF Members
    <3>2. CASE Members(b, k) = {}
      BY <1>14, <2>2, <3>2, DecodeAt
    <3>3. CASE Members(b, k) # {}
      <4>1. PICK i \in Members(b, k) : TRUE
        BY <3>3
      <4>2. c[i] = b[i] /\ i \in Members(c, k)
        BY <1>14, <3>1, <4>1
      <4>3. Decode(c, keys)[k] = c[i].val /\ Decode(b, keys)[k] = b[i].val
        BY <1>11, <1>13, <4>1, <4>2, DecodeAt
      <4> QED BY <2>2, <4>2, <4>3
    <3> QED BY <3>2, <3>3
  <2> QED BY <2>1, <2>2
<1>17. HasVerdict(c)
  <2>1. "verdict" \in Schema /\ "verdict" # "sentry_issue_id"
    BY RenderedFacts
  <2> QED BY <1>11, <1>16, <2>1 DEF HasVerdict
<1>18. Reads(t, o)
  <2>1. ASSUME NEW i \in Fenced(t), i <= o
        PROVE  Legal(BlockAt(t, i)) /\ (HasVerdict(BlockAt(t, i)) <=> i = o)
    <3>1. i \in Fenced(s) /\ i \in Nat
      BY <1>7, FencedAreLines DEF Fenced
    <3>2. CASE i = o
      BY <1>13, <1>17, <3>2 DEF c
    <3>3. CASE i # o
      <4>1. i < o
        BY <1>1, <2>1, <3>1, <3>3
      <4>2. BlockAt(t, i) = BlockAt(s, i)
        BY <1>9, <3>1, <4>1
      <4> QED BY <1>1, <2>1, <3>1, <4>2
    <3> QED BY <3>2, <3>3
  <2>2. \A i \in 1..o : t[i].kind = "open" => t[i].key # "json"
    <3>1. \A i \in 1..o : i \in DOMAIN s
      BY <1>1
    <3> QED BY <1>1, <1>2, <3>1
  <2>3. \A i \in DOMAIN t : BlockAt(t, o)[i].kind # "json"
    BY <1>1, <1>2, <1>12 DEF b, c
  <2>4. \A i \in DOMAIN t : InEntry(t, i, Owned) => ~Fence(t[i])
    BY <1>1, <1>2, <1>6, SameKinds
  <2> QED BY <1>1, <1>7, <2>1, <2>2, <2>3, <2>4 DEF Reads
<1>19. /\ ParsedBlock(s) = b /\ ParsedBlock(t) = c /\ DeepBlock(s) = b /\ DeepBlock(t) = c
  BY <1>2, <1>18, ReadsDeep DEF b, c
<1>20. Parse(t) = [Parse(s) EXCEPT !["sentry_issue_id"] = id]
  <2>1. \A k \in Schema : Parse(t)[k] = IF k = "sentry_issue_id" THEN id ELSE Parse(s)[k]
    BY <1>16, <1>19 DEF Parse
  <2>2. Parse(t) = [k \in Schema |-> Parse(t)[k]] /\ Parse(s) = [k \in Schema |-> Parse(s)[k]]
    BY DEF Parse, Decode
  <2> HIDE DEF Parse
  <2> QED BY <2>1, <2>2
<1>21. DeepParse(t)["file:line"] = DeepParse(s)["file:line"]
  <2>1. "file:line" \in DeepSchema
    BY DEF DeepSchema
  <2> QED BY <1>16, <1>19, <2>1 DEF DeepParse
<1>22. Within(t, {"yaml"})[Len(t)] = Within(s, {"yaml"})[Len(s)]
  <2>1. Len(s) \in 0..Len(s)
    OBVIOUS
  <2> QED BY <1>6, <2>1
<1> QED BY <1>6, <1>18, <1>20, <1>21, <1>22 DEF t

(* A loose line that names the source the fix is about, and the value of the one*)
(* there is.                                                                    *)
Pointer(section, i) ==
  Loose(section, i) /\ section[i].kind = "key" /\ section[i].key = "file:line"
PointsTo(section, w) ==
  \/ \E i \in DOMAIN section : Pointer(section, i) /\ section[i].val = w
  \/ w = <<>> /\ \A i \in DOMAIN section : ~Pointer(section, i)

(* Rewriting the identity line neither makes a restorable section unrestorable*)
(* nor moves its file:line.                                                   *)
LEMMA RewriteRestorable ==
  ASSUME NEW s \in Seq(Lines), NEW id \in Seq(Words)
  PROVE  LET t == RewriteIdentityLine(s, id) IN
         /\ Restorable(s) => Restorable(t)
         /\ \A w : PointsTo(s, w) => PointsTo(t, w)
<1> DEFINE t == RewriteIdentityLine(s, id)
<1>1. /\ t \in Seq(Lines) /\ DOMAIN t = DOMAIN s /\ DOMAIN s \subseteq Nat
      /\ \A i \in DOMAIN s : t[i].kind = s[i].kind /\ t[i].key = s[i].key
      /\ \A i \in DOMAIN s : t[i] = s[i] \/ t[i].form = "plain"
      /\ \A i \in DOMAIN s : i \notin IdentityLines(s) => t[i] = s[i]
  BY RewriteShape
<1> HIDE DEF t
<1>2. \A i \in DOMAIN s : Extra(t, i, Schema) <=> Extra(s, i, Schema)
  BY <1>1, SameKinds
<1>3. \A i \in DOMAIN s : Loose(t, i) <=> Loose(s, i)
  <2> TAKE i \in DOMAIN s
  <2>1. \A j \in 1..i : j \in DOMAIN s
    OBVIOUS
  <2>2. \A j \in 1..i : /\ Extra(t, j, Schema) <=> Extra(s, j, Schema)
                        /\ Fence(t[j]) <=> Fence(s[j])
    BY <1>1, <1>2, <2>1 DEF Fence
  <2> QED BY <1>2, <2>2 DEF Loose
<1>4. Restorable(s) => Restorable(t)
  BY <1>1, <1>3 DEF Restorable
<1>5. \A i \in DOMAIN s : Pointer(t, i) <=> Pointer(s, i)
  BY <1>1, <1>3 DEF Pointer
<1>6. \A i \in DOMAIN s : Pointer(s, i) => t[i] = s[i]
  BY <1>1 DEF Pointer, IdentityLines, Members
<1>7. \A w : PointsTo(s, w) => PointsTo(t, w)
  BY <1>1, <1>5, <1>6 DEF PointsTo
<1> QED BY <1>4, <1>7 DEF t

(* A rendered field is an entry of its key or a gap.                         *)
LEMMA FieldKind ==
  ASSUME NEW u, NEW n \in 1..10
  PROVE  /\ Fields(u)[n].kind \in {"gap", "key"}
         /\ Fields(u)[n].kind = "key" => Fields(u)[n].key = Rendered[n]
         /\ Rendered[n] \notin Owned => Fields(u)[n].kind = "key"
<1> DEFINE e == Entry(Rendered[n], u[Rendered[n]])
<1>1. e.kind = "key" /\ e.key = Rendered[n] /\ Gap.kind = "gap"
  BY KindFacts
<1>2. Fields(u)[n] = IF Rendered[n] \in Owned /\ u[Rendered[n]] = <<>> THEN Gap ELSE e
  BY FieldAt
<1> HIDE DEF e
<1> QED BY <1>1, <1>2

(* A section that ends in a closing fence has no open block.                 *)
LEMMA ClosedAtEnd ==
  ASSUME NEW s \in Seq(Lines), NEW langs, Len(s) # 0, s[Len(s)].kind = "close"
  PROVE  Within(s, langs)[Len(s)] = 0
<1>1. Len(s) \in 1..Len(s)
  OBVIOUS
<1>2. Fence(s[Len(s)]) /\ s[Len(s)].kind # "open"
  BY DEF Fence
<1> QED BY <1>1, <1>2, WithinFacts

(* The first block of a restored section: the ten fields, then the loose lines of*)
(* the original.                                                                 *)
LEMMA RestoreLines ==
  ASSUME NEW s \in Seq(Lines), NEW u \in Verdicts
  PROVE  LET R == RestoreUnmodeledLines(s, Render(u)) IN
         /\ R \in Seq(Lines) /\ DOMAIN R = 1..Len(s) + 12
         /\ 1 \in Openings(R, {"yaml"}) /\ 1 \in Fenced(R)
         /\ Within(R, {"yaml"})[Len(R)] = 0
         /\ \A n \in 1..10 : BlockAt(R, 1)[n + 1] = Fields(u)[n]
         /\ \A i \in DOMAIN s : BlockAt(R, 1)[i + 11] = IF Loose(s, i) THEN s[i] ELSE Gap
         /\ BlockAt(R, 1)[1] = Gap /\ BlockAt(R, 1)[Len(s) + 12] = Gap
<1> DEFINE R == RestoreUnmodeledLines(s, Render(u))
           L == Len(s)
<1>1. /\ R \in Seq(Lines) /\ Len(R) = L + 12
      /\ R[1] = Opening("yaml") /\ R[L + 12] = Closing
      /\ \A n \in 1..10 : R[n + 1] = Fields(u)[n]
      /\ \A i \in DOMAIN s : R[i + 11] = IF Extra(s, i, Schema) THEN s[i] ELSE Gap
  BY RestoreShape
<1>2. L \in Nat /\ DOMAIN s = 1..L
  OBVIOUS
<1> HIDE DEF R, L
<1>3. DOMAIN R = 1..L + 12
  BY <1>1
<1>4. ASSUME NEW langs, "yaml" \in langs PROVE 1 \in Openings(R, langs)
  <2>1. 1 \in DOMAIN R /\ 1 - 1 = 0
    BY <1>2, <1>3
  <2>2. Within(R, langs)[0] = 0
    BY <1>1, WithinFacts
  <2>3. 1 \in Openings(R, langs) <=> R[1].kind = "open" /\ R[1].key \in langs /\ Within(R, langs)[1 - 1] = 0
    BY <1>1, <2>1, OpeningFacts
  <2> QED BY <1>1, <1>4, <2>1, <2>2, <2>3, KindFacts
<1>5. Within(R, {"yaml"})[Len(R)] = 0
  <2>1. R[Len(R)].kind = "close" /\ Len(R) # 0
    BY <1>1, <1>2, KindFacts
  <2>2. R \in Seq(Lines)
    BY <1>1
  <2> QED BY <2>1, <2>2, ClosedAtEnd
<1>6. \A n \in 1..10 : ~Fence(R[n + 1])
  <2> TAKE n \in 1..10
  <2>1. Fields(u)[n].kind \in {"gap", "key"}
    BY FieldKind
  <2> QED BY <1>1, <2>1 DEF Fence
<1>7. \A n \in 1..10 : BlockAt(R, 1)[n + 1] = Fields(u)[n]
  <2> TAKE n \in 1..10
  <2>1. n + 1 \in DOMAIN R /\ 1 < n + 1
    BY <1>2, <1>3
  <2>2. ASSUME NEW j \in 1 + 1 .. n + 1 PROVE ~Fence(R[j])
    <3>1. j - 1 \in 1..10 /\ (j - 1) + 1 = j
      OBVIOUS
    <3> QED BY <1>6, <3>1
  <2> QED BY <1>1, <2>1, <2>2 DEF BlockAt
<1>8. ASSUME NEW i \in DOMAIN s
      PROVE  BlockAt(R, 1)[i + 11] = IF Loose(s, i) THEN s[i] ELSE Gap
  <2>1. i + 11 \in DOMAIN R /\ 1 < i + 11 /\ i \in 1..L
    BY <1>2, <1>3
  <2>2. ASSUME NEW j \in 1..i PROVE Fence(R[j + 11]) <=> Extra(s, j, Schema) /\ Fence(s[j])
    <3>1. j \in DOMAIN s
      BY <1>2, <2>1
    <3> QED BY <1>1, <3>1, KindFacts DEF Fence
  <2>3. (\A j \in 1 + 1 .. i + 11 : ~Fence(R[j])) <=> \A j \in 1..i : ~Fence(R[j + 11])
    <3>1. ASSUME \A j \in 1..i : ~Fence(R[j + 11]), NEW j \in 1 + 1 .. i + 11 PROVE ~Fence(R[j])
      <4>1. CASE j <= 11
        <5>1. j - 1 \in 1..10 /\ (j - 1) + 1 = j
          BY <4>1
        <5> QED BY <1>6, <5>1
      <4>2. CASE j > 11
        <5>1. j - 11 \in 1..i /\ (j - 11) + 11 = j
          BY <4>2, <2>1
        <5> QED BY <3>1, <5>1
      <4> QED BY <2>1, <4>1, <4>2
    <3>2. ASSUME \A j \in 1 + 1 .. i + 11 : ~Fence(R[j]), NEW j \in 1..i PROVE ~Fence(R[j + 11])
      <4>1. j + 11 \in 1 + 1 .. i + 11
        BY <2>1
      <4> QED BY <3>2, <4>1
    <3> QED BY <3>1, <3>2
  <2>4. BlockAt(R, 1)[i + 11] = IF \A j \in 1 + 1 .. i + 11 : ~Fence(R[j]) THEN R[i + 11] ELSE Gap
    BY <2>1 DEF BlockAt
  <2>5. Loose(s, i) <=> Extra(s, i, Schema) /\ \A j \in 1..i : ~Fence(R[j + 11])
    BY <2>2 DEF Loose
  <2> QED BY <1>1, <2>3, <2>4, <2>5
<1>9. BlockAt(R, 1)[1] = Gap
  <2>1. 1 \in DOMAIN R
    BY <1>2, <1>3
  <2> QED BY <2>1 DEF BlockAt
<1>10. BlockAt(R, 1)[L + 12] = Gap
  <2>1. L + 12 \in DOMAIN R /\ L + 12 \in 1 + 1 .. L + 12
    BY <1>2, <1>3
  <2>2. Fence(R[L + 12])
    BY <1>1, KindFacts DEF Fence
  <2> QED BY <2>1, <2>2 DEF BlockAt
<1> QED BY <1>1, <1>3, <1>4, <1>5, <1>7, <1>8, <1>9, <1>10 DEF R, L, Fenced

(* A loose line has no key of the schema.                                    *)
LEMMA LooseKey ==
  ASSUME NEW s \in Seq(Lines), NEW i \in DOMAIN s, Loose(s, i), s[i].kind = "key"
  PROVE  s[i].key \notin Schema
<1>1. TopKey(s[i]) \notin Schema
  BY KeyEntry DEF Loose
<1> QED BY <1>1, RenderedFacts DEF TopKey

(* From a restorable section, rendering u and restoring what it lacks gives a    *)
(* section that both parsers read at its first line, that says u, that is closed,*)
(* and whose file:line is the one of the loose lines.                            *)
LEMMA RestoreReads ==
  ASSUME NEW s \in Seq(Lines), NEW u \in Verdicts, Restorable(s), u["verdict"] # <<>>
  PROVE  LET R == RestoreUnmodeledLines(s, Render(u)) IN
         /\ R \in Seq(Lines) /\ Reads(R, 1) /\ Parse(R) = u
         /\ Within(R, {"yaml"})[Len(R)] = 0
         /\ \A w : PointsTo(s, w) => DeepParse(R)["file:line"] = w
<1> DEFINE R == RestoreUnmodeledLines(s, Render(u))
           L == Len(s)
           b == BlockAt(R, 1)
<1>1. /\ R \in Seq(Lines) /\ DOMAIN R = 1..L + 12
      /\ 1 \in Openings(R, {"yaml"}) /\ 1 \in Fenced(R)
      /\ Within(R, {"yaml"})[Len(R)] = 0
      /\ \A n \in 1..10 : b[n + 1] = Fields(u)[n]
      /\ \A i \in DOMAIN s : b[i + 11] = IF Loose(s, i) THEN s[i] ELSE Gap
      /\ b[1] = Gap /\ b[L + 12] = Gap
  BY RestoreLines
<1>2. L \in Nat /\ DOMAIN s = 1..L
  OBVIOUS
<1>3. /\ R[1] = Opening("yaml")
      /\ \A n \in 1..10 : R[n + 1] = Fields(u)[n]
      /\ \A i \in DOMAIN s : R[i + 11] = IF Extra(s, i, Schema) THEN s[i] ELSE Gap
      /\ R[L + 12] = Closing
  BY RestoreShape
<1> HIDE DEF R, L
<1>4. b \in Seq(Lines) /\ DOMAIN b = 1..L + 12
  BY <1>1, BlockAtType
<1> HIDE DEF b
<1> DEFINE From(i) == i \in 2..11 /\ b[i] = Entry(Rendered[i - 1], u[Rendered[i - 1]])
           Over(i) == i - 11 \in DOMAIN s /\ Loose(s, i - 11) /\ b[i] = s[i - 11]
<1>5. ASSUME NEW i \in DOMAIN b PROVE b[i] = Gap \/ From(i) \/ Over(i)
  <2>1. CASE i = 1 \/ i = L + 12
    BY <1>1, <2>1
  <2>2. CASE i \in 2..11
    <3>1. i - 1 \in 1..10 /\ (i - 1) + 1 = i
      BY <2>2
    <3> QED BY <1>1, <2>2, <3>1, FieldAt
  <2>3. CASE i \in 12..L + 11
    <3>1. i - 11 \in DOMAIN s /\ (i - 11) + 11 = i
      BY <1>2, <2>3
    <3> QED BY <1>1, <3>1
  <2>4. i \in 1..L + 12
    BY <1>4
  <2>5. i = 1 \/ i = L + 12 \/ i \in 2..11 \/ i \in 12..L + 11
    BY <1>2, <2>4
  <2> HIDE DEF From, Over
  <2> QED BY <2>1, <2>2, <2>3, <2>5
<1>6. ASSUME NEW i, From(i)
      PROVE  /\ b[i].kind = "key" /\ b[i].form = "quoted"
             /\ b[i].key = Rendered[i - 1] /\ b[i].key \in Schema
             /\ b[i].val = u[b[i].key]
  <2>1. i - 1 \in 1..10
    BY <1>6
  <2> DEFINE n == i - 1
  <2>2. n \in 1..10 /\ b[i] = Entry(Rendered[n], u[Rendered[n]])
    BY <1>6, <2>1
  <2> HIDE DEF n
  <2>3. b[i].kind = "key" /\ b[i].form = "quoted" /\ b[i].key = Rendered[n]
        /\ b[i].val = u[Rendered[n]]
    BY <2>2, KindFacts
  <2>4. Rendered[n] \in Schema
    BY <2>2, RenderedFacts
  <2> QED BY <2>3, <2>4 DEF n
<1>7. ASSUME NEW i, Over(i)
      PROVE  /\ b[i].kind \in {"key", "blank", "gap"} /\ b[i].form # "risky"
             /\ IsMember(b[i]) => b[i].kind = "key" /\ b[i].key \notin Schema
  <2>1. i - 11 \in DOMAIN s /\ b[i] = s[i - 11] /\ Loose(s, i - 11)
    BY <1>7
  <2>2. b[i].kind \in {"key", "blank", "gap"} /\ b[i].form # "risky"
    BY <2>1 DEF Restorable
  <2>3. b[i].kind = "key" => b[i].key \notin Schema
    BY <2>1, LooseKey
  <2> QED BY <2>2, <2>3 DEF IsMember
<1>8. \A i \in DOMAIN b : b[i].kind \in {"key", "blank", "gap"} /\ b[i].form # "risky"
  BY <1>5, <1>6, <1>7, KindFacts
<1>9. ASSUME NEW i \in DOMAIN b, NEW j \in DOMAIN b, IsMember(b[i]), IsMember(b[j]), b[i].key = b[j].key
      PROVE  i = j
  <2>1. i \in Int /\ j \in Int
    BY <1>2, <1>4
  <2>2. (From(i) \/ Over(i)) /\ (From(j) \/ Over(j))
    BY <1>5, <1>9, KindFacts DEF IsMember
  <2>3. CASE From(i) /\ From(j)
    <3>1. i - 1 \in 1..10 /\ j - 1 \in 1..10 /\ Rendered[i - 1] = Rendered[j - 1]
      BY <1>6, <1>9, <2>3
    <3>2. i - 1 = j - 1
      BY <3>1, RenderedFacts
    <3> QED BY <2>1, <3>2
  <2>4. CASE Over(i) /\ Over(j)
    <3>1. /\ i - 11 \in DOMAIN s /\ Loose(s, i - 11) /\ s[i - 11].kind = "key"
          /\ j - 11 \in DOMAIN s /\ Loose(s, j - 11) /\ s[j - 11].kind = "key"
          /\ s[i - 11].key = s[j - 11].key
      BY <1>7, <1>9, <2>4
    <3>2. i - 11 = j - 11
      BY <3>1 DEF Restorable
    <3> QED BY <2>1, <3>2
  <2> QED BY <1>6, <1>7, <1>9, <2>2, <2>3, <2>4
<1>10. Legal(b)
  BY <1>8, <1>9 DEF Legal, IsMember
<1>11. ASSUME NEW k \in Schema, NEW keys, k \in keys PROVE Decode(b, keys)[k] = u[k]
  <2>1. PICK n \in 1..10 : Rendered[n] = k
    BY RenderedFacts
  <2>2. b[n + 1] = Fields(u)[n] /\ n + 1 \in DOMAIN b
    BY <1>1, <1>2, <1>4
  <2>3. CASE Fields(u)[n] = Entry(k, u[k])
    <3>1. n + 1 \in Members(b, k) /\ b[n + 1].val = u[k]
      BY <2>2, <2>3, KindFacts DEF Members, IsMember
    <3> QED BY <1>10, <1>11, <3>1, DecodeAt
  <2>4. CASE Fields(u)[n] # Entry(k, u[k])
    <3>1. Fields(u)[n] = Gap /\ u[k] = <<>>
      BY <2>1, <2>4, FieldAt
    <3>2. ASSUME NEW i \in Members(b, k) PROVE FALSE
      <4>1. i \in DOMAIN b /\ IsMember(b[i]) /\ b[i].key = k
        BY DEF Members
      <4>2. From(i)
        BY <1>5, <1>7, <1>11, <4>1, KindFacts DEF IsMember
      <4>3. i - 1 \in 1..10 /\ Rendered[i - 1] = Rendered[n] /\ (i - 1) + 1 = i
        BY <1>6, <2>1, <4>1, <4>2
      <4>4. b[i] = Fields(u)[n]
        BY <2>2, <4>3, RenderedFacts
      <4> QED BY <3>1, <4>1, <4>4, KindFacts DEF IsMember
    <3> QED BY <1>11, <3>1, <3>2, DecodeAt
  <2> QED BY <2>3, <2>4
<1>12. HasVerdict(b)
  BY <1>11, RenderedFacts DEF HasVerdict
<1>13. \A i \in DOMAIN R : InEntry(R, i, Owned) => ~Fence(R[i])
  <2> SUFFICES ASSUME NEW i \in DOMAIN R, InEntry(R, i, Owned) PROVE ~Fence(R[i])
    OBVIOUS
  <2>1. PICK h \in DOMAIN R : Begins(R, h, i) /\ TopKey(R[h]) \in Owned
    BY DEF InEntry
  <2>2. R[h].kind = "key" /\ h <= i /\ h \in Int /\ i \in Int
    BY <1>1, <1>2, <2>1 DEF Begins, TopLevel
  <2>3. R[h].key \in Owned
    BY <2>1 DEF TopKey, Owned
  <2>4. h \in 2..11
    <3>1. h # 1 /\ h # L + 12
      BY <1>3, <2>2, KindFacts
    <3>2. ASSUME h \in 12..L + 11 PROVE FALSE
      <4>1. h - 11 \in DOMAIN s /\ (h - 11) + 11 = h
        BY <1>2, <3>2
      <4>2. R[h] = s[h - 11] /\ Extra(s, h - 11, Schema)
        BY <1>3, <2>2, <4>1, KindFacts
      <4>3. TopKey(R[h]) \notin Schema
        BY <2>2, <4>1, <4>2, KeyEntry
      <4> QED BY <2>1, <4>3, RenderedFacts DEF Owned
    <3>3. h \in 1..L + 12
      BY <1>1
    <3>4. h \in 2..11 \/ h \in 12..L + 11
      BY <1>2, <3>1, <3>3
    <3> QED BY <3>2, <3>4
  <2>5. ASSUME h < i PROVE FALSE
    <3>1. h - 1 \in 1..10 /\ R[h] = Fields(u)[h - 1]
      <4>1. h - 1 \in 1..10 /\ (h - 1) + 1 = h
        BY <2>4
      <4> QED BY <1>3, <4>1
    <3>2. Rendered[h - 1] \in Owned
      <4>1. h - 1 \in 1..10 /\ Fields(u)[h - 1].kind = "key"
        BY <2>2, <3>1
      <4>2. R[h].key = Rendered[h - 1]
        BY <3>1, <4>1, FieldKind
      <4> QED BY <2>3, <4>2
    <3>3. h - 1 = 5 \/ h - 1 = 7
      BY <3>1, <3>2 DEF Rendered, Owned
    <3>4. h \in 1..10 /\ Rendered[h] \notin Owned
      BY <3>3 DEF Rendered, Owned
    <3>5. R[h + 1].kind = "key"
      BY <1>3, <3>4, FieldKind
    <3>6. h + 1 \in h + 1 .. i
      BY <2>2, <2>5
    <3> QED BY <2>1, <3>5, <3>6 DEF Begins, TopLevel
  <2> QED BY <2>2, <2>5 DEF Fence
<1>14. Reads(R, 1)
  <2>1. ASSUME NEW i \in Fenced(R), i <= 1 PROVE i = 1
    <3>1. i \in 1..Len(R)
      BY <1>1, FencedAreLines DEF Fenced
    <3> QED BY <2>1, <3>1
  <2>2. \A i \in 1..1 : R[i].kind = "open" => R[i].key # "json"
    BY <1>3, KindFacts
  <2>3. \A i \in DOMAIN R : b[i].kind # "json"
    BY <1>1, <1>4, <1>8
  <2> QED BY <1>1, <1>10, <1>12, <1>13, <2>1, <2>2, <2>3 DEF Reads, b
<1>15. ParsedBlock(R) = b /\ DeepBlock(R) = b
  BY <1>1, <1>14, ReadsDeep DEF b
<1>16. Parse(R) = u
  <2>1. Parse(R) = [k \in Schema |-> Parse(R)[k]]
    BY DEF Parse, Decode
  <2>2. \A k \in Schema : Parse(R)[k] = u[k]
    BY <1>11, <1>15 DEF Parse
  <2>3. u = [k \in Schema |-> u[k]]
    BY DEF Verdicts
  <2> HIDE DEF Parse
  <2> QED BY <2>1, <2>2, <2>3
<1>17. ASSUME NEW w, PointsTo(s, w) PROVE DeepParse(R)["file:line"] = w
  <2>1. "file:line" \in DeepSchema /\ "file:line" \notin Schema
    BY RenderedFacts DEF DeepSchema
  <2>2. CASE \E i \in DOMAIN s : Pointer(s, i) /\ s[i].val = w
    <3>1. PICK i \in DOMAIN s : Pointer(s, i) /\ s[i].val = w
      BY <2>2
    <3>2. b[i + 11] = s[i] /\ i + 11 \in DOMAIN b
      BY <1>1, <1>2, <1>4, <3>1 DEF Pointer
    <3>3. i + 11 \in Members(b, "file:line")
      BY <3>1, <3>2 DEF Pointer, Members, IsMember
    <3> QED BY <1>10, <1>15, <2>1, <3>1, <3>2, <3>3, DecodeAt DEF DeepParse
  <2>3. CASE w = <<>> /\ \A i \in DOMAIN s : ~Pointer(s, i)
    <3>1. ASSUME NEW i \in Members(b, "file:line") PROVE FALSE
      <4>1. i \in DOMAIN b /\ IsMember(b[i]) /\ b[i].key = "file:line"
        BY DEF Members
      <4>2. Over(i) /\ b[i].kind = "key"
        BY <1>5, <1>6, <1>7, <2>1, <4>1, KindFacts DEF IsMember
      <4> QED BY <2>3, <4>1, <4>2 DEF Pointer
    <3> QED BY <1>15, <2>1, <2>3, <3>1, DecodeAt DEF DeepParse
  <2> QED BY <1>17, <2>2, <2>3 DEF PointsTo
<1> QED BY <1>1, <1>14, <1>16, <1>17 DEF R

(* A restored section can be restored once more, with the same file:line: the*)
(* analyzability guard and the disqualifiers may both render.                *)
LEMMA RestoreAgain ==
  ASSUME NEW s \in Seq(Lines), NEW u \in Verdicts, Restorable(s)
  PROVE  LET R == RestoreUnmodeledLines(s, Render(u)) IN
         /\ Restorable(R)
         /\ \A w : PointsTo(s, w) => PointsTo(R, w)
<1> DEFINE R == RestoreUnmodeledLines(s, Render(u))
           L == Len(s)
<1>1. /\ R \in Seq(Lines) /\ DOMAIN R = 1..L + 12
      /\ R[1] = Opening("yaml") /\ R[L + 12] = Closing
      /\ \A n \in 1..10 : R[n + 1] = Fields(u)[n]
      /\ \A i \in DOMAIN s : R[i + 11] = IF Extra(s, i, Schema) THEN s[i] ELSE Gap
  BY RestoreShape, RestoreLines
<1>2. L \in Nat /\ DOMAIN s = 1..L
  OBVIOUS
<1> HIDE DEF R, L
<1>3. ASSUME NEW h \in DOMAIN R, TopLevel(R[h]), TopKey(R[h]) \notin Schema
      PROVE  h \in 12..L + 11 /\ h - 11 \in DOMAIN s /\ Extra(s, h - 11, Schema) /\ R[h] = s[h - 11]
  <2>1. h # 1 /\ h # L + 12
    BY <1>1, <1>3, KindFacts DEF TopLevel
  <2>2. h \notin 2..11
    <3> SUFFICES ASSUME h \in 2..11 PROVE FALSE
      OBVIOUS
    <3>1. h - 1 \in 1..10 /\ (h - 1) + 1 = h
      OBVIOUS
    <3>2. R[h].key = Rendered[h - 1]
      <4>1. R[h] = Fields(u)[h - 1]
        BY <1>1, <3>1
      <4>2. Fields(u)[h - 1].kind = "key"
        BY <1>3, <4>1 DEF TopLevel
      <4> QED BY <3>1, <4>1, <4>2, FieldKind
    <3> QED BY <1>3, <3>1, <3>2, RenderedFacts DEF TopKey
  <2>3. h \in 12..L + 11
    <3>1. h \in 1..L + 12
      BY <1>1
    <3> QED BY <1>2, <2>1, <2>2, <3>1
  <2>4. h - 11 \in DOMAIN s /\ (h - 11) + 11 = h
    BY <1>2, <2>3
  <2>5. R[h] = IF Extra(s, h - 11, Schema) THEN s[h - 11] ELSE Gap
    BY <1>1, <2>4
  <2> QED BY <1>3, <2>3, <2>4, <2>5, KindFacts DEF TopLevel
<1>4. ASSUME NEW i \in DOMAIN R, Extra(R, i, Schema), i # L + 12
      PROVE  i \in 12..L + 11 /\ i - 11 \in DOMAIN s
  <2>1. PICK h \in DOMAIN R : h <= i /\ TopLevel(R[h]) /\ TopKey(R[h]) \notin Schema
    BY <1>4 DEF Extra, Begins
  <2>2. h \in 12..L + 11
    BY <1>3, <2>1
  <2>3. i \in 1..L + 12
    BY <1>1
  <2>4. i \in 12..L + 11
    BY <1>2, <1>4, <2>1, <2>2, <2>3
  <2>5. i - 11 \in 1..L
    BY <1>2, <2>4
  <2> QED BY <1>2, <2>4, <2>5
<1>5. ASSUME NEW i \in DOMAIN s, Extra(s, i, Schema)
      PROVE  i + 11 \in DOMAIN R /\ R[i + 11] = s[i] /\ Extra(R, i + 11, Schema)
  <2>1. PICK h \in DOMAIN s : Begins(s, h, i) /\ TopKey(s[h]) \notin Schema
    BY <1>5 DEF Extra
  <2>2. /\ h <= i /\ h \in 1..L /\ i \in 1..L /\ s[h].kind = "key"
        /\ \A j \in h + 1 .. i : ~TopLevel(s[j])
    BY <1>2, <2>1 DEF Begins, TopLevel
  <2>3. R[h + 11] = s[h] /\ h + 11 \in DOMAIN R /\ i + 11 \in DOMAIN R /\ R[i + 11] = s[i]
    <3>1. Extra(s, h, Schema)
      BY <2>1, <2>2, KeyEntry
    <3>2. h + 11 \in 1..L + 12 /\ i + 11 \in 1..L + 12 /\ h \in DOMAIN s
      BY <1>2, <2>2
    <3>3. R[h + 11] = s[h]
      BY <1>1, <3>1, <3>2
    <3>4. R[i + 11] = s[i]
      BY <1>1, <1>5
    <3> QED BY <1>1, <3>2, <3>3, <3>4
  <2>4. ASSUME NEW j \in h + 11 + 1 .. i + 11 PROVE ~TopLevel(R[j])
    <3>1. j - 11 \in h + 1 .. i /\ j - 11 \in DOMAIN s /\ (j - 11) + 11 = j
      BY <1>2, <2>2
    <3>2. R[j] = s[j - 11] \/ R[j] = Gap
      BY <1>1, <3>1
    <3> QED BY <2>2, <3>1, <3>2, KindFacts DEF TopLevel
  <2>5. Begins(R, h + 11, i + 11)
    BY <2>2, <2>3, <2>4 DEF Begins, TopLevel
  <2> QED BY <2>1, <2>3, <2>5 DEF Extra
<1>6. ASSUME NEW i \in DOMAIN R, Loose(R, i)
      PROVE  /\ i - 11 \in DOMAIN s /\ i \in 12..L + 11
             /\ R[i] # Gap => Loose(s, i - 11) /\ R[i] = s[i - 11]
  <2>1. Extra(R, i, Schema) /\ \A j \in 1..i : Extra(R, j, Schema) => ~Fence(R[j])
    BY <1>6 DEF Loose
  <2>2. i # L + 12
    <3>1. i \in 1..i
      BY <1>1, <1>2
    <3> QED BY <1>1, <2>1, <3>1, KindFacts DEF Fence
  <2>3. i \in 12..L + 11 /\ i - 11 \in DOMAIN s /\ (i - 11) + 11 = i
    BY <1>4, <2>1, <2>2
  <2>4. R[i] = IF Extra(s, i - 11, Schema) THEN s[i - 11] ELSE Gap
    BY <1>1, <2>3
  <2>5. ASSUME NEW j \in 1..(i - 11), Extra(s, j, Schema) PROVE ~Fence(s[j])
    <3>1. j \in DOMAIN s /\ j + 11 \in 1..i
      BY <1>2, <2>3
    <3>2. R[j + 11] = s[j] /\ Extra(R, j + 11, Schema)
      BY <1>5, <2>5, <3>1
    <3> QED BY <2>1, <3>1, <3>2
  <2> QED BY <2>3, <2>4, <2>5 DEF Loose
<1>7. ASSUME NEW i \in DOMAIN s, Loose(s, i)
      PROVE  i + 11 \in DOMAIN R /\ Loose(R, i + 11) /\ R[i + 11] = s[i]
  <2>1. Extra(s, i, Schema) /\ \A j \in 1..i : Extra(s, j, Schema) => ~Fence(s[j])
    BY <1>7 DEF Loose
  <2>2. i + 11 \in DOMAIN R /\ Extra(R, i + 11, Schema) /\ R[i + 11] = s[i]
    BY <1>5, <2>1
  <2>3. ASSUME NEW j \in 1..i + 11, Extra(R, j, Schema) PROVE ~Fence(R[j])
    <3>1. j \in DOMAIN R /\ j # L + 12
      BY <1>1, <1>2
    <3>2. j \in 12..L + 11 /\ j - 11 \in DOMAIN s
      BY <1>4, <2>3, <3>1
    <3>3. j - 11 \in 1..i /\ (j - 11) + 11 = j
      BY <1>2, <3>2
    <3>4. R[j] = IF Extra(s, j - 11, Schema) THEN s[j - 11] ELSE Gap
      BY <1>1, <3>2, <3>3
    <3> QED BY <2>1, <3>3, <3>4, KindFacts DEF Fence
  <2> QED BY <2>2, <2>3 DEF Loose
<1>8. Restorable(R)
  <2>1. ASSUME NEW i \in DOMAIN R, Loose(R, i)
        PROVE  R[i].kind \in {"key", "blank", "gap"} /\ R[i].form # "risky"
    <3>1. CASE R[i] = Gap
      BY <3>1, KindFacts
    <3>2. CASE R[i] # Gap
      BY <1>6, <2>1, <3>2 DEF Restorable
    <3> QED BY <3>1, <3>2
  <2>2. ASSUME NEW i \in DOMAIN R, NEW j \in DOMAIN R, Loose(R, i), Loose(R, j),
               R[i].kind = "key", R[j].kind = "key", R[i].key = R[j].key
        PROVE  i = j
    <3>1. R[i] # Gap /\ R[j] # Gap
      BY <2>2, KindFacts
    <3>2. /\ i - 11 \in DOMAIN s /\ Loose(s, i - 11) /\ R[i] = s[i - 11]
          /\ j - 11 \in DOMAIN s /\ Loose(s, j - 11) /\ R[j] = s[j - 11]
          /\ i \in Int /\ j \in Int
      BY <1>6, <2>2, <3>1
    <3>3. i - 11 = j - 11
      BY <2>2, <3>2 DEF Restorable
    <3> QED BY <3>2, <3>3
  <2> QED BY <2>1, <2>2 DEF Restorable
<1>9. ASSUME NEW i \in DOMAIN s, Pointer(s, i)
      PROVE  i + 11 \in DOMAIN R /\ Pointer(R, i + 11) /\ R[i + 11].val = s[i].val
  BY <1>7, <1>9 DEF Pointer
<1>10. ASSUME NEW i \in DOMAIN R, Pointer(R, i)
       PROVE  i - 11 \in DOMAIN s /\ Pointer(s, i - 11)
  BY <1>6, <1>10, KindFacts DEF Pointer
<1>11. \A w : PointsTo(s, w) => PointsTo(R, w)
  BY <1>9, <1>10 DEF PointsTo
<1> QED BY <1>8, <1>11 DEF R

(* Quoting makes no member of a line that was none.                          *)
LEMMA QuoteKeeps ==
  ASSUME NEW b \in Seq(Lines), NEW prose, NEW boundary
  PROVE  /\ DOMAIN Quote(b, prose, boundary) = DOMAIN b
         /\ \A i \in DOMAIN b : IsMember(Quote(b, prose, boundary)[i]) =>
              Quote(b, prose, boundary)[i].kind = b[i].kind /\ Quote(b, prose, boundary)[i].key = b[i].key
<1> DEFINE Key(i, keys) == b[i].kind = "key" /\ b[i].key \in keys
           Folds(h, i) == /\ h < i /\ Key(h, prose)
                     /\ \A j \in h + 1 .. i : b[j].kind # "blank" /\ ~Key(j, boundary)
           Text(i) == (IF b[i].kind = "key" THEN <<b[i].key>> ELSE <<>>) \o b[i].val
           Value(h) == b[h].val \o
             FlattenSeq([i \in DOMAIN b |-> IF Folds(h, i) THEN Text(i) ELSE <<>>])
           q == Quote(b, prose, boundary)
<1>1. q = [i \in DOMAIN b |-> IF Key(i, prose) THEN Entry(b[i].key, Value(i))
       ELSE IF \E h \in DOMAIN b : Folds(h, i) THEN Gap ELSE b[i]]
  BY DEF Quote
<1> HIDE DEF Value, Folds, q
<1>2. ASSUME NEW i \in DOMAIN b, IsMember(q[i])
      PROVE  q[i].kind = b[i].kind /\ q[i].key = b[i].key
  <2>1. CASE Key(i, prose)
    <3>1. q[i] = Entry(b[i].key, Value(i))
      BY <1>1, <2>1
    <3> QED BY <2>1, <3>1, KindFacts
  <2>2. CASE ~Key(i, prose)
    <3>1. q[i] = Gap \/ q[i] = b[i]
      BY <1>1, <2>2
    <3> QED BY <1>2, <3>1, KindFacts DEF IsMember
  <2> QED BY <2>1, <2>2
<1> QED BY <1>1, <1>2 DEF q

(* A member the deep parser reads is a line of the section below the fence of its*)
(* block, with no other fence between.                                           *)
LEMMA DeepBlockLines ==
  ASSUME NEW s \in Seq(Lines), NEW i \in DOMAIN DeepBlock(s), IsMember(DeepBlock(s)[i])
  PROVE  \E o \in Openings(s, {"yaml"}) :
           /\ o < i /\ i \in DOMAIN s /\ \A j \in o + 1 .. i : ~Fence(s[j])
           /\ DeepBlock(s)[i].kind = s[i].kind /\ DeepBlock(s)[i].key = s[i].key
<1> DEFINE o == Min(Stopping(s))
           b == BlockAt(s, o)
<1>1. Stopping(s) # {}
  BY DEF DeepBlock
<1>2. o \in Stopping(s) /\ Stopping(s) \subseteq Openings(s, {"yaml"}) /\ Stopping(s) \in SUBSET Nat
  <2>1. Stopping(s) \in SUBSET Nat /\ Stopping(s) \subseteq Openings(s, {"yaml"})
    BY FencedAreLines DEF Stopping
  <2> QED BY <1>1, <2>1, MinIsLeast
<1>3. DeepBlock(s) = DeepBest(b)
  BY <1>1 DEF DeepBlock
<1> HIDE DEF o
<1>4. o \in Nat /\ o \in Openings(s, {"yaml"})
  BY <1>2
<1>5. b \in Seq(Lines) /\ DOMAIN b = DOMAIN s
  BY BlockAtType
<1> HIDE DEF b
<1>6. i \in DOMAIN s /\ IsMember(b[i]) /\ DeepBlock(s)[i].kind = b[i].kind /\ DeepBlock(s)[i].key = b[i].key
  <2>1. CASE Legal(b)
    BY <1>3, <1>5, <2>1 DEF DeepBest
  <2>2. CASE ~Legal(b)
    <3>1. DeepBlock(s) = Quote(b, DeepProse, DeepBoundary)
      BY <1>3, <2>2 DEF DeepBest
    <3>2. i \in DOMAIN b
      BY <1>5, <3>1, QuoteKeeps
    <3>3. DeepBlock(s)[i].kind = b[i].kind /\ DeepBlock(s)[i].key = b[i].key
      BY <1>5, <3>1, <3>2, QuoteKeeps
    <3> QED BY <1>5, <3>2, <3>3 DEF IsMember
  <2> QED BY <2>1, <2>2
<1>7. b[i] # Gap
  BY <1>6, KindFacts DEF IsMember
<1>8. o < i /\ (\A j \in o + 1 .. i : ~Fence(s[j])) /\ b[i] = s[i]
  BY <1>4, <1>6, <1>7, BlockLine DEF b
<1> QED BY <1>4, <1>6, <1>8

(* Where every file:line is a key in the block the deep parser reads, and no key*)
(* stands above a fence, that line is loose: rendering the block will carry it. *)
LEMMA AnswerPoints ==
  ASSUME NEW s \in Seq(Lines), Legal(DeepBlock(s)),
         \A i \in Members(s, "file:line") :
           s[i].kind = "key" /\ i \in DOMAIN DeepBlock(s) /\ DeepBlock(s)[i] = s[i],
         \A h, i \in DOMAIN s : h < i /\ TopLevel(s[h]) => s[i].kind # "open"
  PROVE  PointsTo(s, DeepParse(s)["file:line"])
<1>0. "file:line" \in DeepSchema /\ "file:line" \notin Schema
  BY RenderedFacts DEF DeepSchema
<1>1. CASE Members(s, "file:line") = {}
  <2>1. \A i \in DOMAIN s : ~Pointer(s, i)
    BY <1>1 DEF Pointer, Members, IsMember
  <2>2. Members(DeepBlock(s), "file:line") = {}
    <3> SUFFICES ASSUME NEW i \in Members(DeepBlock(s), "file:line") PROVE FALSE
      OBVIOUS
    <3>1. i \in DOMAIN DeepBlock(s) /\ IsMember(DeepBlock(s)[i]) /\ DeepBlock(s)[i].key = "file:line"
      BY DEF Members
    <3>2. i \in DOMAIN s /\ DeepBlock(s)[i].kind = s[i].kind /\ DeepBlock(s)[i].key = s[i].key
      BY <3>1, DeepBlockLines
    <3> QED BY <1>1, <3>1, <3>2 DEF Members, IsMember
  <2> QED BY <1>0, <2>1, <2>2, DecodeAt DEF PointsTo, DeepParse
<1>2. CASE Members(s, "file:line") # {}
  <2>1. PICK i \in Members(s, "file:line") : TRUE
    BY <1>2
  <2>2. /\ i \in DOMAIN s /\ s[i].kind = "key" /\ s[i].key = "file:line" /\ IsMember(s[i])
        /\ i \in DOMAIN DeepBlock(s) /\ DeepBlock(s)[i] = s[i]
    BY <2>1 DEF Members
  <2>3. DeepParse(s)["file:line"] = s[i].val
    <3>1. i \in Members(DeepBlock(s), "file:line")
      BY <2>2 DEF Members
    <3> QED BY <1>0, <2>2, <3>1, DecodeAt DEF DeepParse
  <2>4. PICK o \in Openings(s, {"yaml"}) : o < i /\ \A j \in o + 1 .. i : ~Fence(s[j])
    BY <2>2, DeepBlockLines
  <2>5. o \in DOMAIN s /\ o \in Nat /\ s[o].kind = "open"
    <3>1. o \in DOMAIN s /\ o \in Nat
      BY FencedAreLines DEF Openings
    <3> QED BY <3>1, OpeningFacts
  <2>6. Extra(s, i, Schema)
    <3>1. TopKey(s[i]) \notin Schema
      BY <2>2, RenderedFacts DEF TopKey
    <3> QED BY <2>2, <3>1, KeyEntry
  <2>7. ASSUME NEW j \in 1..i, Extra(s, j, Schema), Fence(s[j]) PROVE FALSE
    <3>1. PICK h \in DOMAIN s : h <= j /\ TopLevel(s[h])
      BY <2>7 DEF Extra, Begins
    <3>2. j <= o
      BY <2>4, <2>5, <2>7, <2>2
    <3>3. h # j
      BY <2>7, <3>1 DEF Fence, TopLevel
    <3>4. h < o
      BY <2>5, <3>1, <3>2, <3>3
    <3> QED BY <2>5, <3>1, <3>4
  <2>8. Pointer(s, i)
    BY <2>2, <2>6, <2>7 DEF Pointer, Loose
  <2> QED BY <2>2, <2>3, <2>8 DEF PointsTo
<1> QED BY <1>1, <1>2

-----------------------------------------------------------------------------
(* A value of one word is not empty.                                         *)
LEMMA OneWord == \A w : <<w>> # <<>>
  OBVIOUS

(* The keys the steps of a Job name, and the words they write.               *)
LEMMA SchemaKeys ==
  /\ {"sentry_issue_id", "verdict", "reason", "last_seen", "urgency",
      "disqualifiers_fired", "promoted", "root_cause", "recommended_fix"} \subseteq Schema
  /\ {"sentry_issue_id", "verdict"} \subseteq DeepSchema
  /\ {"real bug", "guard", "fired", "computed"} \subseteq Words
  BY RenderedFacts, BodiesAssumption DEF DeepSchema

(* Every step keeps a verdict a verdict.                                     *)
LEMMA VerdictTypes ==
  ASSUME NEW u \in Verdicts
  PROVE  /\ \A w \in Seq(Words) : [u EXCEPT !["sentry_issue_id"] = w] \in Verdicts
         /\ Reclassified(u) \in Verdicts /\ Unowned(u) \in Verdicts
         /\ Forced(u) \in Verdicts /\ Evaluated(u) \in Verdicts
<1>1. /\ \A w \in {"real bug", "guard", "fired", "computed"} : <<w>> \in Seq(Words)
      /\ \A w \in {"guard", "fired"} : <<w>> \o u["reason"] \in Seq(Words)
  <2>0. \A w \in Words : <<w>> \in Seq(Words)
    BY Single
  <2>1. \A w \in {"real bug", "guard", "fired", "computed"} : <<w>> \in Seq(Words)
    BY <2>0, SchemaKeys
  <2>2. u["reason"] \in Seq(Words)
    BY SchemaKeys DEF Verdicts
  <2>3. \A w \in {"guard", "fired"} : <<w>> \in Seq(Words)
    BY <2>1
  <2> QED BY <2>1, <2>2, <2>3, ConcatProperties
<1>2. ASSUME NEW t \in Verdicts, NEW k \in Schema, NEW w \in Seq(Words)
      PROVE  [t EXCEPT ![k] = w] \in Verdicts
  BY DEF Verdicts
<1>3. \A w \in Seq(Words) : [u EXCEPT !["sentry_issue_id"] = w] \in Verdicts
  BY <1>2, SchemaKeys
<1>4. ASSUME NEW c \in {"guard", "fired"}
      PROVE  \A t \in Verdicts : t["reason"] = u["reason"] =>
               [t EXCEPT !["verdict"] = <<"real bug">>, !["reason"] = <<c>> \o @] \in Verdicts
  <2> TAKE t \in Verdicts
  <2> HAVE t["reason"] = u["reason"]
  <2>1. [t EXCEPT !["verdict"] = <<"real bug">>] \in Verdicts
    BY <1>1, <1>2, SchemaKeys
  <2>2. <<c>> \o t["reason"] \in Seq(Words)
    BY <1>1
  <2>3. [[t EXCEPT !["verdict"] = <<"real bug">>] EXCEPT !["reason"] = <<c>> \o t["reason"]] \in Verdicts
    BY <1>2, <2>1, <2>2, SchemaKeys
  <2>4. [t EXCEPT !["verdict"] = <<"real bug">>, !["reason"] = <<c>> \o @]
         = [[t EXCEPT !["verdict"] = <<"real bug">>] EXCEPT !["reason"] = <<c>> \o t["reason"]]
    BY DEF Verdicts
  <2> QED BY <2>3, <2>4
<1>5. Reclassified(u) \in Verdicts
  BY <1>4 DEF Reclassified
<1>6. Unowned(u) \in Verdicts /\ Unowned(u)["reason"] = u["reason"]
  <2>1. [u EXCEPT !["urgency"] = <<>>] \in Verdicts
    BY <1>2, SchemaKeys, NoWords
  <2>2. [[u EXCEPT !["urgency"] = <<>>] EXCEPT !["promoted"] = <<>>] \in Verdicts
    BY <1>2, <2>1, SchemaKeys, NoWords
  <2>3. Unowned(u) = [[u EXCEPT !["urgency"] = <<>>] EXCEPT !["promoted"] = <<>>]
    BY DEF Unowned
  <2>4. Unowned(u)["reason"] = u["reason"]
    BY SchemaKeys DEF Unowned, Verdicts
  <2> QED BY <2>2, <2>3, <2>4
<1>7. Forced(u) \in Verdicts
  BY <1>4 DEF Forced
<1>8. Forced(Unowned(u)) \in Verdicts
  BY <1>4, <1>6 DEF Forced
<1>9. Evaluated(u) \in Verdicts
  <2> DEFINE f == Forced(Unowned(u))
             g == [f EXCEPT !["urgency"] = <<"computed">>]
             h == [g EXCEPT !["disqualifiers_fired"] = <<"computed">>]
  <2>1. g \in Verdicts
    BY <1>1, <1>2, <1>8, SchemaKeys
  <2>2. h \in Verdicts
    <3> HIDE DEF g
    <3> QED BY <1>1, <1>2, <2>1, SchemaKeys
  <2>3. [h EXCEPT !["promoted"] = <<"computed">>] \in Verdicts
    <3> HIDE DEF h
    <3> QED BY <1>1, <1>2, <2>2, SchemaKeys
  <2>4. Evaluated(u) = g \/ Evaluated(u) = [h EXCEPT !["promoted"] = <<"computed">>]
    BY DEF Evaluated
  <2> QED BY <2>1, <2>3, <2>4
<1> QED BY <1>3, <1>5, <1>6, <1>7, <1>9

(* What the steps do to the fields the properties are about.                 *)
LEMMA VerdictFields ==
  ASSUME NEW u \in Verdicts
  PROVE  /\ Reclassified(u)["verdict"] = <<"real bug">>
         /\ \A k \in Schema : k \notin {"verdict", "reason"} => Reclassified(u)[k] = u[k]
         /\ Unowned(u)["urgency"] = <<>> /\ Unowned(u)["promoted"] = <<>>
         /\ \A k \in Schema : k \notin Owned => Unowned(u)[k] = u[k]
         /\ Evaluated(u)["urgency"] = <<"computed">>
         /\ Evaluated(u)["promoted"] = IF Fires(u) THEN <<"computed">> ELSE <<>>
         /\ Fires(u) => Evaluated(u)["disqualifiers_fired"] = <<"computed">>
         /\ Evaluated(u)["verdict"] = IF Fires(u) /\ Promotable(u) THEN <<"real bug">> ELSE u["verdict"]
         /\ \A k \in {"sentry_issue_id", "last_seen", "root_cause", "recommended_fix"} :
              Evaluated(u)[k] = u[k]
<1>1. DOMAIN u = Schema
  BY DEF Verdicts
<1>3. /\ Reclassified(u)["verdict"] = <<"real bug">>
      /\ \A k \in Schema : k \notin {"verdict", "reason"} => Reclassified(u)[k] = u[k]
  BY <1>1, SchemaKeys DEF Reclassified
<1> DEFINE n == Unowned(u)
<1>4. /\ n["urgency"] = <<>> /\ n["promoted"] = <<>> /\ DOMAIN n = Schema
      /\ \A k \in Schema : k \notin Owned => n[k] = u[k]
  BY <1>1, SchemaKeys DEF Unowned, Owned
<1> HIDE DEF n
<1>5. (Fires(n) <=> Fires(u)) /\ (Promotable(n) <=> Promotable(u))
  BY <1>4, SchemaKeys DEF Fires, Promotable, Owned
<1> DEFINE f == Forced(n)
<1>6. /\ DOMAIN f = Schema
      /\ f["verdict"] = IF Fires(u) /\ Promotable(u) THEN <<"real bug">> ELSE u["verdict"]
      /\ \A k \in Schema : k \notin {"verdict", "reason"} => f[k] = n[k]
  <2>1. CASE Fires(u) /\ Promotable(u)
    <3>1. f = [n EXCEPT !["verdict"] = <<"real bug">>, !["reason"] = <<"fired">> \o @]
      BY <1>5, <2>1 DEF Forced
    <3> HIDE DEF f
    <3> QED BY <1>4, <2>1, <3>1, SchemaKeys
  <2>2. CASE ~(Fires(u) /\ Promotable(u))
    <3>1. f = n
      BY <1>5, <2>2 DEF Forced
    <3>2. n["verdict"] = u["verdict"]
      BY <1>4, SchemaKeys DEF Owned
    <3> HIDE DEF f
    <3> QED BY <1>4, <2>2, <3>1, <3>2
  <2> QED BY <2>1, <2>2
<1>7. Evaluated(u) = IF Fires(u)
         THEN [f EXCEPT !["urgency"] = <<"computed">>, !["disqualifiers_fired"] = <<"computed">>,
                        !["promoted"] = <<"computed">>]
         ELSE [f EXCEPT !["urgency"] = <<"computed">>]
  <2>1. Forced(Unowned(u)) = f
    BY DEF n
  <2>2. LET g == [f EXCEPT !["urgency"] = <<"computed">>] IN
         [g EXCEPT !["disqualifiers_fired"] = <<"computed">>, !["promoted"] = <<"computed">>]
          = [f EXCEPT !["urgency"] = <<"computed">>, !["disqualifiers_fired"] = <<"computed">>,
                        !["promoted"] = <<"computed">>]
    OBVIOUS
  <2> QED BY <2>1, <2>2 DEF Evaluated
<1> HIDE DEF f
<1>8. /\ Evaluated(u)["urgency"] = <<"computed">>
      /\ Evaluated(u)["promoted"] = IF Fires(u) THEN <<"computed">> ELSE <<>>
      /\ Fires(u) => Evaluated(u)["disqualifiers_fired"] = <<"computed">>
  BY <1>4, <1>6, <1>7, SchemaKeys
<1>9. /\ Evaluated(u)["verdict"] = f["verdict"]
      /\ \A k \in {"sentry_issue_id", "last_seen", "root_cause", "recommended_fix"} :
           Evaluated(u)[k] = f[k]
  BY <1>6, <1>7, SchemaKeys
<1>10. \A k \in {"sentry_issue_id", "last_seen", "root_cause", "recommended_fix"} : f[k] = u[k]
  BY <1>4, <1>6, SchemaKeys DEF Owned
<1> QED BY <1>3, <1>4, <1>6, <1>8, <1>9, <1>10 DEF n

-----------------------------------------------------------------------------
(* The Job before it is judged.                                              *)
Early == {"answered", "parsed", "identified", "guarded"}

(* The verdict at each stage, as a function of the answer: after the lookup, after*)
(* the analyzability guard, after the disqualifiers.                              *)
Canonised ==
  [Parse(answer) EXCEPT !["sentry_issue_id"] = CanonicalOf(Parse(answer)["sentry_issue_id"])]
Guarded == IF Contradicts(Canonised) THEN Reclassified(Canonised) ELSE Canonised
Finished == IF Dated(Guarded) THEN Evaluated(Guarded) ELSE Unowned(Guarded)
(* The answer names an alert the lookup knows.                               *)
Named == Parse(answer)["sentry_issue_id"] \in Derived \cup DOMAIN Canonical

(* The inductive invariant of every Job: v is that function, and until the lookup*)
(* the section is the answer.                                                    *)
StageInv ==
  /\ type \in {"triage", "deep"} /\ answer \in Bodies
  /\ pc \in Early \cup {"judged", "delivered", "failed", "refused"}
  /\ body \in Seq(Lines) /\ v \in Verdicts
  /\ pc \in Early => counted = <<>> /\ reading = Says(answer) /\ judged = FALSE
  /\ pc \in {"answered", "parsed"} => body = answer
  /\ pc \in Early \ {"answered"} \/ Judged => Parse(answer)["verdict"] # <<>>
  /\ pc \in {"identified", "guarded"} \/ Judged => Named
  /\ pc = "parsed" => v = Parse(answer)
  /\ pc = "identified" => v = Canonised
  /\ pc = "guarded" => v = Guarded
  /\ Judged => v = Finished /\ counted = v["verdict"]

(* The canonical form of a reference is an identity and a value.             *)
LEMMA CanonicalType ==
  ASSUME NEW r \in Derived \cup DOMAIN Canonical
  PROVE  CanonicalOf(r) \in Identities /\ CanonicalOf(r) \in Seq(Words)
  BY BodiesAssumption DEF CanonicalOf, Identities

(* The verdict at every stage of the Job is a verdict.                       *)
LEMMA AnswerTypes ==
  ASSUME answer \in Bodies
  PROVE  /\ answer \in Seq(Lines) /\ Parse(answer) \in Verdicts
         /\ Named => Canonised \in Verdicts /\ Guarded \in Verdicts /\ Finished \in Verdicts
<1>1. answer \in Seq(Lines) /\ Parse(answer) \in Verdicts
  BY BodiesAssumption, ParseType
<1>2. ASSUME Named PROVE Canonised \in Verdicts
  BY <1>1, <1>2, CanonicalType, VerdictTypes DEF Named, Canonised
<1>3. ASSUME Canonised \in Verdicts PROVE Guarded \in Verdicts
  BY <1>3, VerdictTypes DEF Guarded
<1>4. ASSUME Guarded \in Verdicts PROVE Finished \in Verdicts
  BY <1>4, VerdictTypes DEF Finished
<1> QED BY <1>1, <1>2, <1>3, <1>4

(* How the stages agree: only the guard and a fired disqualifier touch the label,*)
(* and nothing but the lookup touches the identity.                              *)
LEMMA StageFields ==
  ASSUME answer \in Bodies, Named
  PROVE  /\ Canonised["sentry_issue_id"] = CanonicalOf(Parse(answer)["sentry_issue_id"])
         /\ \A k \in Schema : k # "sentry_issue_id" => Canonised[k] = Parse(answer)[k]
         /\ \A k \in Schema : k \notin {"verdict", "reason"} => Guarded[k] = Canonised[k]
         /\ Guarded["verdict"] =
              IF Contradicts(Parse(answer)) THEN <<"real bug">> ELSE Parse(answer)["verdict"]
         /\ Contradicts(Canonised) <=> Contradicts(Parse(answer))
         /\ Dated(Canonised) <=> Dated(Parse(answer))
         /\ Dated(Guarded) <=> Dated(Parse(answer))
         /\ Fires(Guarded) <=> Fires(Parse(answer))
         /\ Finished["sentry_issue_id"] \in Identities /\ Guarded["sentry_issue_id"] \in Identities
         /\ Canonised["sentry_issue_id"] \in Identities
         /\ \A k \in {"sentry_issue_id", "last_seen", "root_cause", "recommended_fix"} :
              Finished[k] = Canonised[k]
<1>1. Parse(answer) \in Verdicts /\ Canonised \in Verdicts /\ Guarded \in Verdicts
  BY AnswerTypes
<1>2. /\ Canonised["sentry_issue_id"] = CanonicalOf(Parse(answer)["sentry_issue_id"])
      /\ \A k \in Schema : k # "sentry_issue_id" => Canonised[k] = Parse(answer)[k]
  <2> DEFINE p == Parse(answer)
             c == CanonicalOf(p["sentry_issue_id"])
  <2>1. p \in Verdicts /\ Canonised = [p EXCEPT !["sentry_issue_id"] = c]
    BY <1>1 DEF Canonised
  <2> HIDE DEF c, p
  <2>2. /\ Canonised["sentry_issue_id"] = c
        /\ \A k \in Schema : k # "sentry_issue_id" => Canonised[k] = p[k]
    BY <2>1, SchemaKeys DEF Verdicts
  <2> QED BY <2>2 DEF c, p
<1>3. (Contradicts(Canonised) <=> Contradicts(Parse(answer))) /\ (Dated(Canonised) <=> Dated(Parse(answer)))
  BY <1>2, SchemaKeys DEF Contradicts, Dated
<1>4. /\ \A k \in Schema : k \notin {"verdict", "reason"} => Guarded[k] = Canonised[k]
      /\ Guarded["verdict"] =
              IF Contradicts(Parse(answer)) THEN <<"real bug">> ELSE Parse(answer)["verdict"]
  <2>1. CASE Contradicts(Canonised)
    <3>1. Guarded = Reclassified(Canonised)
      BY <2>1 DEF Guarded
    <3> QED BY <1>1, <1>3, <2>1, <3>1, VerdictFields
  <2>2. CASE ~Contradicts(Canonised)
    <3>1. Guarded = Canonised
      BY <2>2 DEF Guarded
    <3> QED BY <1>2, <1>3, <2>2, <3>1, SchemaKeys
  <2> QED BY <2>1, <2>2
<1>5. Guarded["last_seen"] = Parse(answer)["last_seen"]
  BY <1>2, <1>4, SchemaKeys
<1>6. (Dated(Guarded) <=> Dated(Parse(answer))) /\ (Fires(Guarded) <=> Fires(Parse(answer)))
  BY <1>5 DEF Dated, Fires
<1>7. Canonised["sentry_issue_id"] \in Identities
  BY <1>2, CanonicalType DEF Named
<1>8. ASSUME NEW k \in {"sentry_issue_id", "last_seen", "root_cause", "recommended_fix"}
      PROVE  Finished[k] = Canonised[k]
  <2>1. Guarded[k] = Canonised[k]
    BY <1>4, SchemaKeys
  <2>2. CASE Dated(Guarded)
    <3>1. Finished = Evaluated(Guarded)
      BY <2>2 DEF Finished
    <3> QED BY <1>1, <2>1, <3>1, VerdictFields
  <2>3. CASE ~Dated(Guarded)
    <3>1. Finished = Unowned(Guarded)
      BY <2>3 DEF Finished
    <3>2. k \in Schema /\ k \notin Owned
      BY SchemaKeys DEF Owned
    <3> QED BY <1>1, <2>1, <3>1, <3>2, VerdictFields
  <2> QED BY <2>2, <2>3
<1>9. Guarded["sentry_issue_id"] = Canonised["sentry_issue_id"]
  BY <1>4, SchemaKeys
<1> QED BY <1>2, <1>3, <1>4, <1>6, <1>7, <1>8, <1>9

(* The final label is the guarded one or the one a disqualifier forces.      *)
LEMMA FinishedLabel ==
  ASSUME Guarded \in Verdicts
  PROVE  Finished["verdict"] \in {<<"real bug">>, Guarded["verdict"]}
<1>1. CASE Dated(Guarded)
  <2>1. Finished = Evaluated(Guarded)
    BY <1>1 DEF Finished
  <2> QED BY <2>1, VerdictFields
<1>2. CASE ~Dated(Guarded)
  <2>1. Finished = Unowned(Guarded)
    BY <1>2 DEF Finished
  <2>2. "verdict" \in Schema /\ "verdict" \notin Owned
    BY SchemaKeys DEF Owned
  <2> QED BY <2>1, <2>2, VerdictFields
<1> QED BY <1>1, <1>2

(* StripKeys gives a section.                                                *)
LEMMA StripType ==
  ASSUME NEW s \in Seq(Lines), NEW keys
  PROVE  StripKeys(s, keys) \in Seq(Lines)
<1> DEFINE t == StripKeys(s, keys)
<1>1. \A i \in DOMAIN s : t[i] \in Lines
  BY FixedTypes DEF StripKeys
<1>2. t = [i \in DOMAIN s |-> t[i]]
  BY DEF StripKeys
<1> HIDE DEF t
<1>3. t \in Seq(Lines)
  BY <1>1, <1>2, PointwiseType
<1> QED BY <1>3 DEF t

(* The verdict a Job starts with is a verdict.                               *)
LEMMA NothingParsed == Parse(<<>>) \in Verdicts
<1>1. <<>> \in Seq(Lines)
  BY EmptySeq
<1> QED BY <1>1, ParseType

(* The lookup gives the reference its canonical form, in v and in the section.*)
LEMMA Identifies ==
  ASSUME StageInv, Identify
  PROVE  /\ pc = "parsed" /\ pc' = "identified" /\ Named /\ v = Parse(answer)
         /\ v' = Canonised /\ body = answer
         /\ body' = RewriteIdentityLine(answer, CanonicalOf(Parse(answer)["sentry_issue_id"]))
         /\ UNCHANGED <<type, answer, counted, history>>
<1>1. /\ pc = "parsed" /\ pc' = "identified" /\ v = Parse(answer) /\ body = answer
      /\ UNCHANGED <<type, answer, counted, history>>
  BY DEF StageInv, Identify
<1> DEFINE r == Parse(answer)["sentry_issue_id"]
<1>2. PICK id \in (Derived \cap {r}) \cup {Canonical[n] : n \in DOMAIN Canonical \cap {r}} :
        v' = [Parse(answer) EXCEPT !["sentry_issue_id"] = id] /\ body' = RewriteIdentityLine(answer, id)
  BY <1>1 DEF Identify
<1>3. r \in Derived \cup DOMAIN Canonical /\ id = CanonicalOf(r)
  BY <1>2, BodiesAssumption DEF CanonicalOf
<1> QED BY <1>1, <1>2, <1>3 DEF Named, Canonised

(* The first state satisfies StageInv.                                       *)
LEMMA StageInit == Init => StageInv
<1> SUFFICES ASSUME Init PROVE StageInv
  OBVIOUS
<1>1. answer \in Bodies /\ answer \in Seq(Lines)
  BY BodiesAssumption DEF Init
<1> QED BY <1>1, NothingParsed DEF Init, StageInv, Early, Judged

(* Every step keeps StageInv.                                                *)
LEMMA StageStep == StageInv /\ [Next]_vars => StageInv'
<1> SUFFICES ASSUME StageInv, [Next]_vars PROVE StageInv'
  OBVIOUS
<1> USE DEF Early
<1>1. answer \in Bodies /\ answer \in Seq(Lines) /\ Parse(answer) \in Verdicts /\ body \in Seq(Lines)
  BY AnswerTypes DEF StageInv
<1>2. CASE Read
  <2>1. v' = Parse(answer) /\ body' = answer /\ answer' = answer
    BY <1>2 DEF Read, StageInv
  <2> QED BY <1>1, <1>2, <2>1 DEF Read, StageInv, Judged, Canonised, Named, Says, Finished, Guarded, history
<1>3. CASE Identify
  <2>1. /\ pc = "parsed" /\ pc' = "identified" /\ Named /\ v' = Canonised /\ v = Parse(answer)
        /\ body' = RewriteIdentityLine(answer, CanonicalOf(Parse(answer)["sentry_issue_id"]))
        /\ UNCHANGED <<type, answer, counted, history>>
    BY <1>3, Identifies
  <2>2. body' \in Seq(Lines) /\ v' \in Verdicts
    BY <1>1, <2>1, CanonicalType, RewriteShape, AnswerTypes DEF Named
  <2>3. Canonised' = Canonised /\ Named' = Named /\ Parse(answer)' = Parse(answer) /\ Says(answer)' = Says(answer)
    BY <2>1 DEF Canonised, Named
  <2> QED BY <1>1, <2>1, <2>2, <2>3 DEF StageInv, Judged, history
<1>4. CASE IdentifyFails
  BY <1>4 DEF IdentifyFails, StageInv, Judged, history
<1>5. CASE Guard
  <2>1. pc = "identified" /\ v = Canonised /\ Named
    BY <1>5 DEF Guard, StageInv
  <2>2. v' = Guarded /\ v' \in Verdicts /\ pc' = "guarded" /\ UNCHANGED <<type, answer, counted, history>>
    BY <1>1, <1>5, <2>1, AnswerTypes DEF Guard, Guarded
  <2>3. body' \in Seq(Lines)
    BY <1>1, <1>5, <2>2, RestoreShape DEF Guard
  <2>4. Guarded' = Guarded /\ Named' = Named /\ Parse(answer)' = Parse(answer) /\ Says(answer)' = Says(answer)
    BY <2>2 DEF Canonised, Named, Guarded
  <2> QED BY <1>1, <2>1, <2>2, <2>3, <2>4 DEF StageInv, Judged, history
<1>6. CASE Disqualify
  <2>1. pc = "guarded" /\ v = Guarded /\ Named /\ v \in Verdicts
    BY <1>6 DEF Disqualify, StageInv
  <2>2. v' = Finished /\ v' \in Verdicts /\ pc' = "judged" /\ counted' = v'["verdict"]
        /\ UNCHANGED <<type, answer>>
    BY <1>1, <1>6, <2>1, AnswerTypes DEF Disqualify, Finished
  <2>3. body' \in Seq(Lines)
    BY <1>1, <1>6, <2>2, RestoreShape, StripType DEF Disqualify
  <2>4. Finished' = Finished /\ Named' = Named /\ Parse(answer)' = Parse(answer)
    BY <2>2 DEF Finished, Canonised, Named, Guarded
  <2> QED BY <1>1, <2>1, <2>2, <2>3, <2>4 DEF StageInv, Judged
<1>7. CASE Deliver
  <2>1. Finished' = Finished /\ Named' = Named /\ Parse(answer)' = Parse(answer)
    BY <1>7 DEF Deliver, Finished, Canonised, Named, Guarded
  <2> QED BY <1>7, <2>1 DEF Deliver, StageInv, Judged, history
<1>8. CASE UNCHANGED vars
  <2>1. /\ Finished' = Finished /\ Named' = Named /\ Parse(answer)' = Parse(answer)
        /\ Guarded' = Guarded /\ Canonised' = Canonised /\ Says(answer)' = Says(answer)
    BY <1>8 DEF vars, Finished, Canonised, Named, Guarded
  <2> QED BY <1>8, <2>1 DEF vars, StageInv, Judged, history
<1> QED BY <1>2, <1>3, <1>4, <1>5, <1>6, <1>7, <1>8 DEF Next

(* Type correctness, with no assumption about the answer, the identity included:*)
(* from the lookup on it is one that Sentry or the pipeline gave the alert      *)
(* (pkg/identity/resolver.go).                                                  *)
THEOREM TypesHold == Spec => []TypeOK
<1>1. StageInv => TypeOK
  BY StageFields DEF StageInv, TypeOK, Early, Judged
<1> QED BY <1>1, StageInit, StageStep, PTL DEF Spec

-----------------------------------------------------------------------------
(* Every file:line of the answer is a key the deep parser reads.             *)
Points ==
  \A i \in Members(answer, "file:line") :
    answer[i].kind = "key" /\ i \in DOMAIN DeepBlock(answer) /\ DeepBlock(answer)[i] = answer[i]

(* What the answer points to, and whether it is to be kept; whether the answer*)
(* closes its last block.                                                     *)
Target == DeepParse(answer)["file:line"]
Pointed == Points /\ ~MovesFence /\ Legal(DeepBlock(answer))
Closes == Within(answer, {"yaml"})[Len(answer)] = 0

(* Will the section be rendered anew before it is delivered?  Then it must be*)
(* restorable; otherwise it already says the verdict.                        *)
Renders == Dated(v) \/ (pc = "identified" /\ Contradicts(v))
Pending == Restorable(body) /\ (Pointed => PointsTo(body, Target))
Carried ==
  \E o \in DOMAIN body :
    /\ Reads(body, o) /\ Parse(body) = v
    /\ Closes => Within(body, {"yaml"})[Len(body)] = 0
    /\ Pointed => DeepParse(body)["file:line"] = Target

(* The inductive invariant of a Job with a sound answer.  CountedIsCarried speaks of*)
(* judged sections only; what makes it true is known earlier: a section that will be*)
(* rendered need not be readable now, one that will be cut must be.                 *)
BlockInv ==
  /\ StageInv /\ Sound
  /\ pc \in {"identified", "guarded"} => IF Renders THEN Pending ELSE Carried
  /\ Judged => Carried

(* After a rendering the section says the verdict, and may be rendered again.*)
LEMMA CarriedAfterRestore ==
  ASSUME StageInv, Pending, NEW u \in Verdicts, u["verdict"] # <<>>,
         body' = RestoreUnmodeledLines(body, Render(u)), v' = u, answer' = answer
  PROVE  Carried' /\ Pending'
<1>1. body \in Seq(Lines) /\ Restorable(body)
  BY DEF StageInv, Pending
<1>2. /\ body' \in Seq(Lines) /\ Reads(body', 1) /\ Parse(body') = u
      /\ Within(body', {"yaml"})[Len(body')] = 0
      /\ \A w : PointsTo(body, w) => DeepParse(body')["file:line"] = w
  BY <1>1, RestoreReads
<1>3. Restorable(body') /\ \A w : PointsTo(body, w) => PointsTo(body', w)
  BY <1>1, RestoreAgain
<1>4. 1 \in DOMAIN body'
  BY <1>2 DEF Reads, Fenced, Openings
<1>5. Target' = Target /\ Pointed' = Pointed
  BY DEF Target, Pointed, Points, MovesFence
<1>6. Carried'
  BY <1>2, <1>4, <1>5 DEF Carried, Pending
<1>7. Pending'
  BY <1>3, <1>5 DEF Pending
<1> QED BY <1>6, <1>7

(* After a cut it says the verdict without the fields that were cut.         *)
LEMMA CarriedAfterStrip ==
  ASSUME StageInv, Carried, body' = StripKeys(body, Owned), v' = Unowned(v), answer' = answer
  PROVE  Carried'
<1>1. PICK o \in DOMAIN body :
        /\ Reads(body, o) /\ Parse(body) = v
        /\ Closes => Within(body, {"yaml"})[Len(body)] = 0
        /\ Pointed => DeepParse(body)["file:line"] = Target
  BY DEF Carried
<1>2. body \in Seq(Lines)
  BY DEF StageInv
<1>3. /\ Reads(body', o) /\ Parse(body') = v'
      /\ DeepParse(body')["file:line"] = DeepParse(body)["file:line"]
      /\ Within(body', {"yaml"})[Len(body')] = Within(body, {"yaml"})[Len(body)]
  BY <1>1, <1>2, StripReads
<1>4. o \in DOMAIN body'
  BY <1>3 DEF Reads, Fenced, Openings
<1>5. Target' = Target /\ Pointed' = Pointed /\ Closes' = Closes
  BY DEF Target, Pointed, Points, MovesFence, Closes
<1> QED BY <1>1, <1>3, <1>4, <1>5 DEF Carried

(* The lookup leaves a section that can be rendered where it will be, and one*)
(* that says the verdict where it will be cut.                               *)
LEMMA CarriedAfterRewrite ==
  ASSUME StageInv, Sound, Identify
  PROVE  IF Renders' THEN Pending' ELSE Carried'
<1> DEFINE id == CanonicalOf(Parse(answer)["sentry_issue_id"])
<1>1. /\ pc' = "identified" /\ Named /\ v' = Canonised /\ answer' = answer
      /\ body' = RewriteIdentityLine(answer, id)
  BY Identifies
<1>2. answer \in Seq(Lines) /\ answer \in Bodies /\ id \in Seq(Words)
  <2>1. answer \in Bodies /\ answer \in Seq(Lines)
    BY AnswerTypes DEF StageInv
  <2>2. Parse(answer)["sentry_issue_id"] \in Derived \cup DOMAIN Canonical
    BY <1>1 DEF Named
  <2> QED BY <2>1, <2>2, CanonicalType
<1>3. Renders' <=> Rerendered
  <2>1. (Dated(v') <=> Dated(Parse(answer))) /\ (Contradicts(v') <=> Contradicts(Parse(answer)))
    BY <1>1, <1>2, StageFields
  <2> QED BY <1>1, <2>1 DEF Renders, Rerendered
<1>4. Target' = Target /\ Pointed' = Pointed /\ Closes' = Closes
  BY <1>1 DEF Target, Pointed, Points, MovesFence, Closes
<1>5. CASE Rerendered
  <2>1. Restorable(answer)
    BY <1>5 DEF Sound
  <2>2. Pointed => PointsTo(answer, Target)
    BY <1>2, AnswerPoints DEF Pointed, Points, MovesFence, Target
  <2>3. /\ Restorable(answer) => Restorable(body')
        /\ \A w : PointsTo(answer, w) => PointsTo(body', w)
    <3> HIDE DEF id
    <3> QED BY <1>1, <1>2, RewriteRestorable
  <2>4. Pending'
    BY <1>4, <2>1, <2>2, <2>3 DEF Pending
  <2> QED BY <1>3, <1>5, <2>4
<1>6. CASE ~Rerendered
  <2>1. PICK o \in DOMAIN answer : Reads(answer, o) /\ IdentityStands(answer, o)
    BY <1>6 DEF Sound
  <2>2. Parse(answer)["sentry_issue_id"] # <<>>
    BY <1>1, BodiesAssumption DEF Named
  <2>3. /\ Reads(body', o)
        /\ Parse(body') = [Parse(answer) EXCEPT !["sentry_issue_id"] = id]
        /\ DeepParse(body')["file:line"] = DeepParse(answer)["file:line"]
        /\ Within(body', {"yaml"})[Len(body')] = Within(answer, {"yaml"})[Len(answer)]
    <3> HIDE DEF id
    <3> QED BY <1>1, <1>2, <2>1, <2>2, RewriteReads
  <2>4. Parse(body') = v'
    BY <1>1, <2>3 DEF Canonised
  <2>5. o \in DOMAIN body'
    BY <2>3 DEF Reads, Fenced, Openings
  <2>6. Carried'
    BY <1>4, <2>3, <2>4, <2>5 DEF Carried, Closes, Target
  <2> QED BY <1>3, <1>6, <2>6
<1> QED BY <1>5, <1>6

(* All this is about the answer, the section and the verdict only.           *)
LEMMA StaysCarried ==
  ASSUME UNCHANGED <<answer, body, v>>
  PROVE  (Carried => Carried') /\ (Pending => Pending')
<1>1. Target' = Target /\ Pointed' = Pointed /\ Closes' = Closes
  BY DEF Target, Pointed, Points, MovesFence, Closes
<1> QED BY <1>1 DEF Carried, Pending

(* No step changes the answer, so none makes it unsound.                     *)
LEMMA SoundStays == [Next]_vars => answer' = answer /\ (Sound => Sound')
<1> SUFFICES ASSUME [Next]_vars PROVE answer' = answer /\ (Sound => Sound')
  OBVIOUS
<1>1. answer' = answer
  BY DEF Next, Read, Identify, IdentifyFails, Guard, Disqualify, Deliver, vars
<1> QED BY <1>1 DEF Sound, Rerendered

(* Every step keeps BlockInv.                                                *)
LEMMA BlockStep == BlockInv /\ [Next]_vars => BlockInv'
<1> SUFFICES ASSUME BlockInv, [Next]_vars PROVE BlockInv'
  OBVIOUS
<1>1. StageInv /\ StageInv' /\ Sound' /\ Sound /\ answer' = answer
  BY StageStep, SoundStays DEF BlockInv
<1>2. CASE Read
  <2>1. pc' \in {"failed", "judged", "parsed"} /\ ~Judged'
    BY <1>1, <1>2 DEF Read, StageInv, Judged, Early
  <2> QED BY <1>1, <2>1 DEF BlockInv
<1>3. CASE Identify
  <2>1. pc' = "identified" /\ (IF Renders' THEN Pending' ELSE Carried')
    BY <1>1, <1>3, CarriedAfterRewrite, Identifies
  <2> QED BY <1>1, <2>1 DEF BlockInv, Judged
<1>4. CASE IdentifyFails
  <2>1. pc' = "failed"
    BY <1>4 DEF IdentifyFails
  <2> QED BY <1>1, <2>1 DEF BlockInv, Judged
<1>5. CASE Guard
  <2>1. pc = "identified" /\ pc' = "guarded" /\ v = Canonised /\ Named /\ answer \in Bodies
    BY <1>1, <1>5 DEF Guard, StageInv
  <2>2. v' = Guarded /\ Guarded \in Verdicts
    BY <1>5, <2>1, AnswerTypes DEF Guard, Guarded
  <2>3. (Dated(v') <=> Dated(v)) /\ (Renders' <=> Dated(v))
    BY <2>1, <2>2, StageFields DEF Renders
  <2>4. CASE Contradicts(v)
    <3>1. Pending
      BY <2>1, <2>4 DEF BlockInv, Renders
    <3>2. body' = RestoreUnmodeledLines(body, Render(v')) /\ v' = Guarded
      BY <1>5, <2>2, <2>4 DEF Guard
    <3>3. Guarded["verdict"] # <<>>
      BY <2>1, <2>4, StageFields, OneWord
    <3>4. Carried' /\ Pending'
      <4> DEFINE u == Guarded
      <4> HIDE DEF u
      <4>1. u \in Verdicts /\ u["verdict"] # <<>> /\ v' = u /\ body' = RestoreUnmodeledLines(body, Render(u))
        BY <2>2, <3>2, <3>3 DEF u
      <4> QED BY <1>1, <3>1, <4>1, CarriedAfterRestore
    <3> QED BY <1>1, <2>1, <3>4 DEF BlockInv, Judged
  <2>5. CASE ~Contradicts(v)
    <3>1. UNCHANGED <<answer, body, v>>
      BY <1>5, <2>5 DEF Guard
    <3>2. IF Dated(v) THEN Pending ELSE Carried
      BY <2>1, <2>5 DEF BlockInv, Renders
    <3>3. IF Renders' THEN Pending' ELSE Carried'
      BY <2>3, <3>1, <3>2, StaysCarried
    <3> QED BY <1>1, <2>1, <3>3 DEF BlockInv, Judged
  <2> QED BY <2>4, <2>5
<1>6. CASE Disqualify
  <2>1. pc = "guarded" /\ pc' = "judged" /\ v \in Verdicts /\ v = Guarded /\ Named /\ answer \in Bodies
        /\ Parse(answer)["verdict"] # <<>>
    BY <1>1, <1>6 DEF Disqualify, StageInv, Early
  <2>2. CASE Dated(v)
    <3>1. Pending
      BY <2>1, <2>2 DEF BlockInv, Renders
    <3>2. v' = Evaluated(v) /\ body' = RestoreUnmodeledLines(body, Render(Evaluated(v)))
      BY <1>6, <2>2 DEF Disqualify
    <3>3. v["verdict"] # <<>>
      BY <2>1, StageFields, OneWord
    <3>4. Evaluated(v)["verdict"] # <<>> /\ Evaluated(v) \in Verdicts
      <4>1. Evaluated(v)["verdict"] \in {<<"real bug">>, v["verdict"]}
        BY <2>1, VerdictFields
      <4> QED BY <2>1, <3>3, <4>1, OneWord, VerdictTypes
    <3>5. Carried'
      <4> DEFINE u == Evaluated(v)
      <4> HIDE DEF u
      <4>1. u \in Verdicts /\ u["verdict"] # <<>> /\ v' = u /\ body' = RestoreUnmodeledLines(body, Render(u))
        BY <3>2, <3>4 DEF u
      <4> QED BY <1>1, <3>1, <4>1, CarriedAfterRestore
    <3> QED BY <1>1, <2>1, <3>5 DEF BlockInv
  <2>3. CASE ~Dated(v)
    <3>1. Carried
      BY <2>1, <2>3 DEF BlockInv, Renders
    <3>2. v' = Unowned(v) /\ body' = StripKeys(body, Owned)
      BY <1>6, <2>3 DEF Disqualify
    <3>3. Carried'
      BY <1>1, <3>1, <3>2, CarriedAfterStrip
    <3> QED BY <1>1, <2>1, <3>3 DEF BlockInv
  <2> QED BY <2>2, <2>3
<1>7. CASE Deliver
  <2>1. pc = "judged" /\ pc' \in {"delivered", "refused"} /\ UNCHANGED <<answer, body, v, counted>>
    BY <1>7 DEF Deliver
  <2>2. Judged' <=> Judged
    BY <2>1 DEF Judged
  <2> QED BY <1>1, <2>1, <2>2, StaysCarried DEF BlockInv
<1>8. CASE UNCHANGED vars
  <2>1. UNCHANGED <<answer, body, v>> /\ (Judged' <=> Judged) /\ pc' = pc /\ (Renders' <=> Renders)
    BY <1>8 DEF vars, Judged, Renders
  <2> QED BY <1>1, <2>1, StaysCarried DEF BlockInv
<1> QED BY <1>2, <1>3, <1>4, <1>5, <1>6, <1>7, <1>8 DEF Next

(* BlockInv holds from every sound answer.                                   *)
LEMMA BlockHolds == Spec /\ Sound => []BlockInv
<1>1. Init /\ Sound => BlockInv
  BY StageInit DEF Init, BlockInv, Judged
<1> QED BY <1>1, BlockStep, PTL DEF Spec

(* What both parsers are told by a section that carries the verdict.         *)
LEMMA CarriedReads ==
  ASSUME StageInv, Carried
  PROVE  /\ Parse(body) = v
         /\ Legal(DeepBlock(body))
         /\ \A k \in Schema \cap DeepSchema : DeepParse(body)[k] = v[k]
         /\ Closes => ~DeepFails(body)
         /\ Pointed => DeepParse(body)["file:line"] = Target
<1>1. PICK o \in DOMAIN body :
        /\ Reads(body, o) /\ Parse(body) = v
        /\ Closes => Within(body, {"yaml"})[Len(body)] = 0
        /\ Pointed => DeepParse(body)["file:line"] = Target
  BY DEF Carried
<1>2. body \in Seq(Lines)
  BY DEF StageInv
<1>3. /\ DeepBlock(body) = BlockAt(body, o) /\ Legal(BlockAt(body, o))
      /\ \A k \in Schema \cap DeepSchema : DeepParse(body)[k] = Parse(body)[k]
  BY <1>1, <1>2, ReadsDeep
<1> QED BY <1>1, <1>3 DEF DeepFails

(* From a sound answer, the section a Job delivers says exactly the verdict the  *)
(* binary holds: the counted label, under the canonical identity, to both parsers*)
(* (finalizeVerdict, pkg/steps/reassign.go:165-167).                             *)
THEOREM SoundIsCarried == Spec /\ Sound => []CountedIsCarried
<1>1. BlockInv => CountedIsCarried
  <2> SUFFICES ASSUME BlockInv, Judged PROVE CountedIsCarried
    BY DEF CountedIsCarried
  <2>1. StageInv /\ Carried /\ counted = v["verdict"] /\ Named /\ answer \in Bodies /\ v = Finished
    BY DEF BlockInv, StageInv
  <2>2. v["sentry_issue_id"] \in Identities
    BY <2>1, StageFields
  <2>3. Parse(body) = v /\ \A k \in {"sentry_issue_id", "verdict"} : DeepParse(body)[k] = v[k]
    BY <2>1, CarriedReads, SchemaKeys
  <2> QED BY <2>1, <2>2, <2>3 DEF CountedIsCarried
<1> QED BY <1>1, BlockHolds, PTL

(* From a sound answer, the urgency and the promotion of the delivered section are*)
(* the binary's, and a promotion names computed evidence (pkg/verdict/verdict.go, *)
(* RestoreUnmodeledLines and StripKeys).                                          *)
THEOREM SoundIsComputed == Spec /\ Sound => []OwnedIsComputed
<1>1. BlockInv => OwnedIsComputed
  <2> SUFFICES ASSUME BlockInv, Judged PROVE OwnedIsComputed
    BY DEF OwnedIsComputed
  <2>1. StageInv /\ Carried /\ Named /\ answer \in Bodies /\ v = Finished
    BY DEF BlockInv, StageInv
  <2>2. Parse(body) = v
    BY <2>1, CarriedReads
  <2>3. Guarded \in Verdicts
    BY <2>1, AnswerTypes
  <2>4. CASE Dated(Guarded)
    <3>1. v = Evaluated(Guarded)
      BY <2>1, <2>4 DEF Finished
    <3>2. Fires(v) <=> Fires(Guarded)
      BY <2>3, <3>1, VerdictFields DEF Fires
    <3>3. /\ v["urgency"] = <<"computed">>
          /\ v["promoted"] = IF Fires(v) THEN <<"computed">> ELSE <<>>
          /\ Fires(v) => v["disqualifiers_fired"] = <<"computed">>
      BY <2>3, <3>1, <3>2, VerdictFields
    <3>4. v["promoted"] # <<>> => Fires(v)
      BY <3>3
    <3>5. \A k \in Owned : v[k] \in {<<>>, <<"computed">>}
      BY <3>3 DEF Owned
    <3> QED BY <2>2, <3>3, <3>4, <3>5 DEF OwnedIsComputed
  <2>5. CASE ~Dated(Guarded)
    <3>1. v = Unowned(Guarded)
      BY <2>1, <2>5 DEF Finished
    <3> QED BY <2>2, <2>3, <3>1, VerdictFields DEF OwnedIsComputed, Owned
  <2> QED BY <2>4, <2>5
<1> QED BY <1>1, BlockHolds, PTL

(* From a sound answer whose file:line lines are the ones the deep parser reads,   *)
(* the delivered section can be read for the fix handoff whenever the answer could,*)
(* and points to the same source (pkg/deepverdict/deepverdict.go).                 *)
THEOREM SoundReachesTheFix == Spec /\ Sound /\ Points => []HandoffReads
<1>1. BlockInv /\ Points => HandoffReads
  <2> SUFFICES ASSUME BlockInv, Points, Judged, ~DeepFails(answer)
               PROVE  /\ ~DeepFails(body)
                      /\ ~MovesFence => DeepParse(body)["file:line"] = DeepParse(answer)["file:line"]
    BY DEF HandoffReads
  <2>1. StageInv /\ Carried
    BY DEF BlockInv
  <2>2. Closes /\ Legal(DeepBlock(answer))
    BY DEF DeepFails, Closes
  <2> QED BY <2>1, <2>2, CarriedReads DEF Pointed, Target
<1>2. Points /\ [Next]_vars => Points'
  BY SoundStays DEF Points
<1> QED BY <1>1, <1>2, BlockHolds, PTL DEF Spec

(* Do the triage parser, which the guards use, and the deep parser, which the fix *)
(* handoff uses, take the same text of the answer for the fix?  They part where   *)
(* a repair folds a file:line into it, which only the deep one knows as a key.    *)
FixReadAlike == Parse(answer)["recommended_fix"] = DeepParse(answer)["recommended_fix"]

(* A section that is delivered without having been judged is the answer.          *)
UnjudgedIsAnswer == pc \in {"judged", "delivered"} /\ counted = <<>> => body = answer

LEMMA UnjudgedStep == StageInv /\ UnjudgedIsAnswer /\ [Next]_vars => UnjudgedIsAnswer'
<1> SUFFICES ASSUME StageInv, UnjudgedIsAnswer, [Next]_vars PROVE UnjudgedIsAnswer'
  OBVIOUS
<1>1. CASE Read
  BY <1>1 DEF Read, StageInv, UnjudgedIsAnswer
<1>2. CASE Identify \/ IdentifyFails \/ Guard
  BY <1>2 DEF Identify, IdentifyFails, Guard, UnjudgedIsAnswer
<1>3. CASE Disqualify
  <2>1. v \in Verdicts /\ v = Guarded /\ Named /\ answer \in Bodies /\ Parse(answer)["verdict"] # <<>>
    BY <1>3 DEF Disqualify, StageInv, Early
  <2>2. v["verdict"] # <<>>
    BY <2>1, StageFields, OneWord
  <2>3. /\ Evaluated(v)["verdict"] \in {<<"real bug">>, v["verdict"]}
        /\ Unowned(v)["verdict"] = v["verdict"]
    BY <2>1, VerdictFields, SchemaKeys DEF Owned
  <2>4. counted' \in {Evaluated(v)["verdict"], Unowned(v)["verdict"]}
    BY <1>3 DEF Disqualify
  <2> QED BY <2>2, <2>3, <2>4, OneWord DEF UnjudgedIsAnswer
<1>4. CASE Deliver \/ UNCHANGED vars
  BY <1>4 DEF Deliver, UnjudgedIsAnswer, vars
<1> QED BY <1>1, <1>2, <1>3, <1>4 DEF Next

(* From a sound answer in which both parsers read one fix, the handoff reads that *)
(* fix: nothing is swallowed into it, as pkg/deepverdict/deepverdict.go:95-97     *)
(* asks, however often the section was rendered in between.                       *)
THEOREM SoundKeepsTheFix == Spec /\ Sound /\ FixReadAlike => []FixKept
<1>1. BlockInv /\ UnjudgedIsAnswer /\ FixReadAlike => FixKept
  <2> SUFFICES ASSUME BlockInv, UnjudgedIsAnswer, FixReadAlike, pc = "delivered"
               PROVE  DeepParse(body)["recommended_fix"] = DeepParse(answer)["recommended_fix"]
    BY DEF FixKept
  <2>1. CASE counted = <<>>
    BY <2>1 DEF UnjudgedIsAnswer
  <2>2. CASE counted # <<>>
    <3>1. Judged
      BY <2>2 DEF Judged
    <3>2. StageInv /\ Carried /\ Named /\ answer \in Bodies /\ v = Finished
      BY <3>1 DEF BlockInv, StageInv
    <3>3. "recommended_fix" \in Schema \cap DeepSchema
      BY SchemaKeys DEF DeepSchema
    <3>4. DeepParse(body)["recommended_fix"] = Finished["recommended_fix"]
      BY <3>2, <3>3, CarriedReads
    <3>5. Finished["recommended_fix"] = Parse(answer)["recommended_fix"]
      BY <3>2, <3>3, StageFields
    <3> QED BY <3>4, <3>5 DEF FixReadAlike
  <2> QED BY <2>1, <2>2
<1>2. Init => UnjudgedIsAnswer
  BY DEF Init, UnjudgedIsAnswer
<1>3. FixReadAlike /\ [Next]_vars => FixReadAlike'
  BY SoundStays DEF FixReadAlike
<1>4. BlockInv => StageInv
  BY DEF BlockInv
<1> QED BY <1>1, <1>2, <1>3, <1>4, UnjudgedStep, BlockHolds, PTL DEF Spec

(* A label is a word of the schema only when it is that word alone.          *)
LEMMA OneLabel ==
  ASSUME NEW w \in Seq(Words), NEW x, x # "none"
  PROVE  (IF Len(w) = 1 THEN Head(w) ELSE "none") = x <=> w = <<x>>
<1>1. CASE Len(w) = 1
  <2>1. w = <<w[1]>> /\ Head(w) = w[1]
    BY <1>1
  <2> QED BY <1>1, <2>1
<1>2. CASE Len(w) # 1
  <2>1. Len(<<x>>) = 1
    OBVIOUS
  <2> QED BY <1>2, <2>1
<1> QED BY <1>1, <1>2

(* A section that says the final verdict says what Judgement promises of the *)
(* answer.                                                                   *)
LEMMA JudgedAsPromised ==
  ASSUME answer \in Bodies, Named, Parse(answer)["verdict"] # <<>>,
         NEW s, Parse(s) = Finished
  PROVE  Says(s) = Judgement!Final(Says(answer))
<1> DEFINE p == Parse(answer)
           g == Guarded
           f == Finished
           r == Says(answer)
           Word(w) == IF Len(w) = 1 THEN Head(w) ELSE "none"
           Owner(w) == CASE w = <<>> -> "absent" [] w = <<"computed">> -> "computed"
                         [] OTHER -> "model"
           label == Word(f["verdict"])
           live == IF Dated(f) THEN Head(f["last_seen"]) ELSE "undated"
<1>1. p \in Verdicts /\ g \in Verdicts /\ f \in Verdicts
  BY AnswerTypes
<1>2. /\ f["sentry_issue_id"] = CanonicalOf(p["sentry_issue_id"])
      /\ f["root_cause"] = p["root_cause"] /\ f["recommended_fix"] = p["recommended_fix"]
      /\ f["last_seen"] = p["last_seen"] /\ g["last_seen"] = p["last_seen"]
      /\ g["verdict"] = IF Contradicts(p) THEN <<"real bug">> ELSE p["verdict"]
  <2>1. \A k \in {"last_seen", "root_cause", "recommended_fix"} :
          Canonised[k] = p[k] /\ Guarded[k] = Canonised[k]
    BY StageFields, SchemaKeys
  <2> QED BY <2>1, StageFields
<1>3. /\ f["verdict"] = IF Fires(p) /\ Promotable(g) THEN <<"real bug">> ELSE g["verdict"]
      /\ f["urgency"] = IF Dated(p) THEN <<"computed">> ELSE <<>>
      /\ f["promoted"] = IF Fires(p) THEN <<"computed">> ELSE <<>>
  <2>1. (Dated(g) <=> Dated(p)) /\ (Fires(g) <=> Fires(p)) /\ (Fires(p) => Dated(p))
    BY <1>2 DEF Dated, Fires
  <2>2. CASE Dated(g)
    <3>1. f = Evaluated(g)
      BY <2>2 DEF Finished
    <3> QED BY <1>1, <2>1, <2>2, <3>1, VerdictFields
  <2>3. CASE ~Dated(g)
    <3>1. f = Unowned(g)
      BY <2>3 DEF Finished
    <3>2. "verdict" \in Schema /\ "verdict" \notin Owned
      BY SchemaKeys DEF Owned
    <3>3. /\ Unowned(g)["urgency"] = <<>> /\ Unowned(g)["promoted"] = <<>>
          /\ Unowned(g)["verdict"] = g["verdict"]
      BY <1>1, <3>2, VerdictFields
    <3> QED BY <2>1, <2>3, <3>1, <3>3
  <2> QED BY <2>2, <2>3
<1>4. Says(s) = [label |-> label, id |-> f["sentry_issue_id"],
                 named |-> Names(f["root_cause"]) \/ Names(f["recommended_fix"]),
                 live |-> live, urgency |-> Owner(f["urgency"]), promoted |-> Owner(f["promoted"])]
  BY DEF Says
<1>5. r = [label |-> Word(p["verdict"]), id |-> p["sentry_issue_id"],
           named |-> Names(p["root_cause"]) \/ Names(p["recommended_fix"]),
           live |-> IF Dated(p) THEN Head(p["last_seen"]) ELSE "undated",
           urgency |-> Owner(p["urgency"]), promoted |-> Owner(p["promoted"])]
  BY DEF Says
<1>6. p["verdict"] \in Seq(Words) /\ g["verdict"] \in Seq(Words) /\ f["verdict"] \in Seq(Words)
  BY <1>1, SchemaKeys DEF Verdicts
<1> HIDE DEF p, g, f, r, Word, Owner, label, live
<1>7. live = r.live /\ (r.live = "firing" <=> Fires(p)) /\ (r.live = "undated" <=> ~Dated(p))
  <2>1. Head(<<"quiet">>) = "quiet" /\ Head(<<"firing">>) = "firing" /\ <<"quiet">> # <<"firing">>
    OBVIOUS
  <2>2. r.live = IF Dated(p) THEN Head(p["last_seen"]) ELSE "undated"
    BY <1>5
  <2>3. live = r.live
    BY <1>2, <2>2 DEF live, Dated
  <2> QED BY <2>1, <2>2, <2>3 DEF Dated, Fires
<1>8. Owner(f["urgency"]) = (IF r.live = "undated" THEN "absent" ELSE "computed")
  <2>1. Owner(<<>>) = "absent" /\ Owner(<<"computed">>) = "computed"
    BY OneWord DEF Owner
  <2> QED BY <1>3, <1>7, <2>1
<1>9. Owner(f["promoted"]) = (IF r.live = "firing" THEN "computed" ELSE "absent")
  <2>1. Owner(<<>>) = "absent" /\ Owner(<<"computed">>) = "computed"
    BY OneWord DEF Owner
  <2> QED BY <1>3, <1>7, <2>1
<1>10. \A w \in Seq(Words) : /\ Word(w) = "unanalyzable" <=> w = <<"unanalyzable">>
                             /\ Word(w) = "real bug" <=> w = <<"real bug">>
  BY OneLabel DEF Word
<1>11. Word(<<"real bug">>) = "real bug"
  BY DEF Word
<1>12. (r.label = "unanalyzable" /\ r.named) <=> Contradicts(p)
  BY <1>5, <1>6, <1>10 DEF Contradicts
<1>13. Judgement!Guarded(r) = Word(g["verdict"])
  <2>1. r.label = Word(p["verdict"])
    BY <1>5
  <2> QED BY <1>2, <1>11, <1>12, <2>1 DEF Judgement!Guarded
<1>14. Judgement!Forced(r) = label
  <2>1. label = Word(f["verdict"])
    BY DEF label
  <2>2. Promotable(g) <=> Word(g["verdict"]) \notin {"unanalyzable", "real bug"}
    BY <1>6, <1>10 DEF Promotable
  <2> QED BY <1>3, <1>7, <1>11, <1>13, <2>1, <2>2 DEF Judgement!Forced
<1>15. Says(s) = [label |-> Judgement!Forced(r), id |-> CanonicalOf(r.id), named |-> r.named,
                  live |-> r.live, urgency |-> IF r.live = "undated" THEN "absent" ELSE "computed",
                  promoted |-> IF r.live = "firing" THEN "computed" ELSE "absent"]
  <2>1. r.id = p["sentry_issue_id"]
    BY <1>5
  <2>2. r.named = (Names(f["root_cause"]) \/ Names(f["recommended_fix"]))
    BY <1>2, <1>5
  <2> QED BY <1>2, <1>4, <1>7, <1>8, <1>9, <1>14, <2>1, <2>2
<1>16. Judgement!Final(r) = [label |-> Judgement!Forced(r), id |-> CanonicalOf(r.id), named |-> r.named,
                  live |-> r.live, urgency |-> IF r.live = "undated" THEN "absent" ELSE "computed",
                  promoted |-> IF r.live = "firing" THEN "computed" ELSE "absent"]
  <2> DEFINE l == Judgement!Forced(r)
             u == IF r.live = "undated" THEN "absent" ELSE "computed"
             m == IF r.live = "firing" THEN "computed" ELSE "absent"
  <2>1. Judgement!Final(r) = [r EXCEPT !.label = l, !.id = CanonicalOf(r.id), !.urgency = u, !.promoted = m]
    BY <1>5 DEF Judgement!Final
  <2> HIDE DEF l, u, m
  <2>2. [r EXCEPT !.label = l, !.id = CanonicalOf(r.id), !.urgency = u, !.promoted = m]
          = [label |-> l, id |-> CanonicalOf(r.id), named |-> r.named, live |-> r.live,
             urgency |-> u, promoted |-> m]
    <3> DEFINE F == {"label", "id", "named", "live", "urgency", "promoted"}
               At(k) == CASE k = "label" -> l [] k = "id" -> CanonicalOf(r.id) [] k = "urgency" -> u
                          [] k = "promoted" -> m [] OTHER -> r[k]
    <3>1. DOMAIN r = F
      BY <1>5
    <3>2. [r EXCEPT !.label = l, !.id = CanonicalOf(r.id), !.urgency = u, !.promoted = m]
            = [k \in F |-> At(k)]
      BY <3>1
    <3>3. [label |-> l, id |-> CanonicalOf(r.id), named |-> r.named, live |-> r.live,
           urgency |-> u, promoted |-> m] = [k \in F |-> At(k)]
      OBVIOUS
    <3> QED BY <3>2, <3>3
  <2> QED BY <2>1, <2>2 DEF l, u, m
<1> QED BY <1>15, <1>16 DEF r

(* From a sound answer, the line-by-line editing implements Judgement: every step   *)
(* of a Job is a stutter there or its one step, which judges the section as a whole.*)
THEOREM SoundIsJudged == Spec /\ Sound => Implements
<1>1. Init => Judgement!Init
  BY DEF Init, Judgement!Init
<1>2. BlockInv /\ [Next]_vars => [Judgement!Judge]_<<reading, judged>>
  <2> SUFFICES ASSUME BlockInv, [Next]_vars PROVE [Judgement!Judge]_<<reading, judged>>
    OBVIOUS
  <2>1. CASE Disqualify
    <3>1. CASE Exempt
      BY <2>1, <3>1 DEF Disqualify, BlockInv, StageInv, Early
    <3>2. CASE ~Exempt
      <4>1. /\ judged = FALSE /\ judged' = TRUE /\ reading = Says(answer) /\ reading' = Says(body')
            /\ Named /\ answer \in Bodies /\ Parse(answer)["verdict"] # <<>> /\ answer' = answer
            /\ pc' = "judged" /\ counted' = v'["verdict"] /\ v' = Finished
        <5>1. /\ pc = "guarded" /\ pc' = "judged" /\ v = Guarded
              /\ judged = FALSE /\ reading = Says(answer)
              /\ Named /\ answer \in Bodies /\ Parse(answer)["verdict"] # <<>>
          BY <2>1 DEF Disqualify, BlockInv, StageInv, Early
        <5> QED BY <2>1, <3>2, <5>1 DEF Disqualify, Finished
      <4>2. BlockInv'
        BY BlockStep
      <4>3. counted' # <<>>
        <5>1. Guarded["verdict"] # <<>> /\ Guarded \in Verdicts
          BY <4>1, StageFields, OneWord, AnswerTypes
        <5>2. Finished["verdict"] # <<>>
          BY <5>1, FinishedLabel, OneWord
        <5> QED BY <4>1, <5>2
      <4>4. StageInv' /\ Carried'
        BY <4>1, <4>2, <4>3 DEF BlockInv, Judged
      <4>5. Parse(body') = Finished
        <5>1. Parse(body') = v'
          BY <4>4 DEF Carried
        <5> QED BY <4>1, <5>1
      <4>6. Says(body') = Judgement!Final(Says(answer))
        BY <4>1, <4>5, JudgedAsPromised
      <4> QED BY <4>1, <4>6 DEF Judgement!Judge
    <3> QED BY <3>1, <3>2
  <2>2. CASE ~Disqualify
    BY <2>2 DEF Next, Read, Identify, IdentifyFails, Guard, Deliver, vars, history
  <2> QED BY <2>1, <2>2
<1> QED BY <1>1, <1>2, BlockHolds, PTL DEF Spec, Implements, Judgement!Spec
=============================================================================
