-------------------------- MODULE LiveStateProofs --------------------------
(***************************************************************************)
(* Proofs about LiveState, for every set of counts and of instants: the     *)
(* band never contradicts the fired disqualifiers, and time alone quiets.   *)
(***************************************************************************)
EXTENDS LiveState, TLAPS

(* One evaluation against an instant t agrees with itself.                  *)
LEMMA AgreesAt ==
  ASSUME NEW e \in Evidence, NEW t \in Times
  PROVE  /\ UrgencyAt(e, t) \in Bands
         /\ DisqualifiersAt(e, t) \subseteq Disqualifiers
         /\ DisqualifiersAt(e, t) \cap {"Volume", "Active burst", "Regressed"} # {}
              => UrgencyAt(e, t) = "now"
<1>1. UrgencyAt(e, t) \in Bands
  BY DEF UrgencyAt, Bands
<1>2. DisqualifiersAt(e, t) \subseteq Disqualifiers
  BY DEF DisqualifiersAt
<1>3. ASSUME NEW d \in DisqualifiersAt(e, t), d \in {"Volume", "Active burst", "Regressed"}
      PROVE  Pressing(e, t)
  BY <1>3 DEF DisqualifiersAt, Pressing
<1>4. Pressing(e, t) => UrgencyAt(e, t) = "now"
  BY DEF UrgencyAt
<1> QED
  BY <1>1, <1>2, <1>3, <1>4

(* Against a later instant the same evidence fires no more disqualifiers    *)
(* and gets no more urgent a band.                                         *)
LEMMA QuieterLater ==
  ASSUME NEW e \in Evidence, NEW t \in Times, NEW u \in Times, t <= u
  PROVE  /\ DisqualifiersAt(e, u) \subseteq DisqualifiersAt(e, t)
         /\ Rank[UrgencyAt(e, u)] <= Rank[UrgencyAt(e, t)]
<1>1. t \in Nat /\ u \in Nat /\ e.last \in Nat
  BY LiveStateAssumption DEF Evidence
<1>2. \A w \in Nat : Within(e, u, w) => Within(e, t, w)
  BY <1>1 DEF Within
<1>3. Within(e, u, BurstWindow) => Within(e, t, BurstWindow)
  BY <1>2 DEF BurstWindow
<1>4. Within(e, u, SoonWindow) => Within(e, t, SoonWindow)
  BY <1>2 DEF SoonWindow
<1>5. DisqualifiersAt(e, u) \subseteq DisqualifiersAt(e, t)
  BY <1>3 DEF DisqualifiersAt
<1>6. Pressing(e, u) => Pressing(e, t)
  BY <1>3 DEF Pressing
<1>7. Scheduled(e, u) => Scheduled(e, t)
  BY <1>4 DEF Scheduled
<1>8. Rank["now"] = 2 /\ Rank["soon"] = 1 /\ Rank["someday"] = 0
  BY DEF Rank, Bands
<1>9. Rank[UrgencyAt(e, u)] <= Rank[UrgencyAt(e, t)]
  BY <1>6, <1>7, <1>8 DEF UrgencyAt
<1> QED
  BY <1>5, <1>9

(* The invariant holds before the first verdict.                           *)
LEMMA LiveInit == Init => LiveInv
<1> SUFFICES ASSUME Init PROVE LiveInv
  OBVIOUS
<1>1. alert \in Alerts /\ seen = Reported(FALSE, FALSE, FALSE)
  BY DEF Init
<1>2. seen \in Evidence /\ seen.dated = FALSE
  BY <1>1 DEF Reported, Evidence, Alerts
<1> QED
  BY <1>1, <1>2 DEF Init, LiveInv, TypeOK, Stamped, Blocks, Labels

(* Every answer, evaluation, tick and event keeps the invariant.            *)
LEMMA LiveStep == LiveInv /\ [Next]_vars => LiveInv'
<1> SUFFICES ASSUME LiveInv, [Next]_vars PROVE LiveInv'
  OBVIOUS
<1> USE LiveStateAssumption
<1>0. TypeOK /\ Stamped
  BY DEF LiveInv
<1>1. ASSUME NEW label \in Labels, NEW dated \in BOOLEAN, NEW known \in BOOLEAN,
             NEW claimed \in BOOLEAN, Answer(label, dated, known, claimed)
      PROVE  LiveInv'
  <2>1. seen' \in Evidence
    BY <1>0, <1>1 DEF Answer, TypeOK, Reported, Evidence, Alerts
  <2>2. passes' \in Nat /\ answer' \in Labels /\ asked' = TRUE
        /\ UNCHANGED <<now, alert, block>>
    BY <1>0, <1>1 DEF Answer, TypeOK
  <2> QED
    BY <1>0, <2>1, <2>2 DEF LiveInv, TypeOK, Stamped
<1>2. CASE Finalize
  <2> DEFINE fired == DisqualifiersAt(seen, now)
             urgency == UrgencyAt(seen, now)
  <2>1. seen \in Evidence /\ now \in Times /\ answer \in Labels /\ now \in Nat
    BY <1>0 DEF TypeOK
  <2>2. urgency \in Bands /\ fired \subseteq Disqualifiers
    BY <2>1, AgreesAt
  <2>3. "claimed" \notin Disqualifiers
    BY DEF Disqualifiers
  <2>4. /\ asked' = FALSE
        /\ block' = IF seen.dated THEN Evaluated(seen, answer, urgency, fired)
                    ELSE Unevaluated(seen, answer)
        /\ UNCHANGED <<now, alert, passes, answer, seen>>
    BY <1>2 DEF Finalize
  <2> HIDE DEF fired, urgency
  <2>5. CASE seen.dated
    <3>1. block' = Evaluated(seen, answer, urgency, fired)
      BY <2>4, <2>5
    <3>2. block' \in Blocks /\ block'.urgency = urgency /\ block'.on = seen
          /\ block'.fired \ {"claimed"} = fired
      BY <2>1, <2>2, <2>3, <3>1 DEF Evaluated, Blocks, Labels
    <3>3. TypeOK'
      BY <1>0, <2>2, <2>4, <2>5, <3>2 DEF TypeOK, Bands
    <3>4. Stamped'
      BY <2>1, <2>4, <2>5, <3>2 DEF Stamped, fired, urgency
    <3> QED
      BY <3>3, <3>4 DEF LiveInv
  <2>6. CASE ~seen.dated
    <3>1. block' = Unevaluated(seen, answer)
      BY <2>4, <2>6
    <3>2. block' \in Blocks /\ block'.urgency = "none" /\ block'.on = seen
          /\ block'.fired \subseteq {"claimed"}
      BY <2>1, <3>1 DEF Unevaluated, Blocks
    <3>3. TypeOK'
      BY <1>0, <2>4, <2>6, <3>2 DEF TypeOK
    <3> QED
      BY <2>6, <3>2, <3>3 DEF LiveInv, Stamped
  <2> QED
    BY <2>5, <2>6
<1>3. CASE Tick
  <2>1. now' \in Times /\ now \in Nat /\ now' \in Nat /\ now <= now'
        /\ UNCHANGED <<alert, passes, asked, answer, seen, block>>
    BY <1>0, <1>3 DEF Tick, TypeOK
  <2>2. TypeOK'
    BY <1>0, <2>1 DEF TypeOK
  <2>3. ASSUME block.on.dated PROVE Stamped'
    <3>1. PICK t \in Times :
            /\ t <= now
            /\ block.urgency = UrgencyAt(block.on, t)
            /\ block.fired \ {"claimed"} = DisqualifiersAt(block.on, t)
      BY <1>0, <2>3 DEF Stamped
    <3>2. t <= now'
      BY <2>1, <3>1
    <3> QED
      BY <2>1, <2>3, <3>1, <3>2 DEF Stamped
  <2>4. ASSUME ~block.on.dated PROVE Stamped'
    BY <1>0, <2>1, <2>4 DEF Stamped
  <2> QED
    BY <2>2, <2>3, <2>4 DEF LiveInv
<1>4. CASE Happen
  <2>1. alert' \in Alerts
    BY <1>0, <1>4 DEF Happen, TypeOK, Alerts
  <2> QED
    BY <1>0, <1>4, <2>1 DEF Happen, LiveInv, TypeOK, Stamped
<1>5. CASE UNCHANGED vars
  BY <1>0, <1>5 DEF vars, LiveInv, TypeOK, Stamped
<1> QED
  BY <1>1, <1>2, <1>3, <1>4, <1>5 DEF Next

(* In every reachable state band and disqualifiers are of one instant.      *)
THEOREM LiveCorrect == Spec => []LiveInv
BY LiveInit, LiveStep, PTL DEF Spec

(* A block is of the schema, and has a band exactly where its dates parse.  *)
THEOREM LiveTyped == Spec => []TypeOK
<1>1. LiveInv => TypeOK
  BY DEF LiveInv
<1> QED
  BY <1>1, LiveCorrect, PTL

(* An alert promoted for its live pressure is never labelled with a quieter *)
(* band, for every count, clock and order of events.                       *)
THEOREM BandsAgree == Spec => []BandAgrees
<1>1. LiveInv => BandAgrees
  <2> SUFFICES ASSUME LiveInv, block.fired \cap {"Volume", "Active burst", "Regressed"} # {}
               PROVE  block.urgency = "now"
    BY DEF BandAgrees
  <2>1. block.on.dated
    BY DEF LiveInv, Stamped
  <2>2. PICK t \in Times :
          /\ block.urgency = UrgencyAt(block.on, t)
          /\ block.fired \ {"claimed"} = DisqualifiersAt(block.on, t)
    BY <2>1 DEF LiveInv, Stamped
  <2>3. DisqualifiersAt(block.on, t) \cap {"Volume", "Active burst", "Regressed"} # {}
    BY <2>2
  <2>4. block.on \in Evidence
    BY DEF LiveInv, TypeOK, Blocks
  <2> QED
    BY <2>2, <2>3, <2>4, AgreesAt
<1> QED
  BY <1>1, LiveCorrect, PTL

(* Time alone only quiets an alert.                                        *)
THEOREM OnlyQuieter == Spec => TimeOnlyQuiets
<1> DEFINE Quiets == block.on.dated /\ block'.on = block.on =>
                       /\ block'.fired \ {"claimed"} \subseteq block.fired
                       /\ Rank[block'.urgency] <= Rank[block.urgency]
<1>1. ASSUME LiveInv, [Next]_vars PROVE [Quiets]_vars
  <2> SUFFICES ASSUME block.on.dated, block'.on = block.on, Next
               PROVE  /\ block'.fired \ {"claimed"} \subseteq block.fired
                      /\ Rank[block'.urgency] <= Rank[block.urgency]
    BY <1>1
  <2>0. /\ block.on \in Evidence /\ now \in Times /\ block.urgency \in Bands
        /\ LiveStateAssumption
    BY <1>1, LiveStateAssumption DEF LiveInv, TypeOK, Blocks
  <2>1. PICK t \in Times :
          /\ t <= now
          /\ block.urgency = UrgencyAt(block.on, t)
          /\ block.fired \ {"claimed"} = DisqualifiersAt(block.on, t)
    BY <1>1 DEF LiveInv, Stamped
  <2>2. CASE UNCHANGED block
    <3>1. Rank[block.urgency] \in {0, 1, 2}
      BY <2>1 DEF Rank, UrgencyAt, Bands
    <3> QED
      BY <2>2, <3>1
  <2>3. CASE Finalize
    <3>1. /\ block' = IF seen.dated
                      THEN Evaluated(seen, answer, UrgencyAt(seen, now), DisqualifiersAt(seen, now))
                      ELSE Unevaluated(seen, answer)
      BY <2>3 DEF Finalize
    <3>2. block'.on = seen
      BY <3>1 DEF Evaluated, Unevaluated
    <3>3. seen = block.on
      BY <3>2
    <3>4. block' = Evaluated(seen, answer, UrgencyAt(seen, now), DisqualifiersAt(seen, now))
      BY <3>1, <3>3
    <3>5. block'.urgency = UrgencyAt(seen, now)
          /\ block'.fired \ {"claimed"} \subseteq DisqualifiersAt(seen, now)
      BY <3>4 DEF Evaluated
    <3>6. /\ DisqualifiersAt(seen, now) \subseteq DisqualifiersAt(seen, t)
          /\ Rank[UrgencyAt(seen, now)] <= Rank[UrgencyAt(seen, t)]
      BY <2>0, <2>1, <3>3, QuieterLater
    <3> QED
      BY <2>1, <3>3, <3>5, <3>6
  <2> QED
    BY <2>2, <2>3 DEF Next, Answer, Tick, Happen
<1> QED
  BY <1>1, LiveCorrect, PTL DEF Spec, TimeOnlyQuiets

=============================================================================
