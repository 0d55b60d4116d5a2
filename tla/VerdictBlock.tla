---------------------------- MODULE VerdictBlock ----------------------------
(***************************************************************************)
(* The text of a ## Verdict section and what one Job does to it            *)
(* (pkg/verdict, pkg/deepverdict, pkg/identity, and finalizeVerdict,       *)
(* applyAnalyzabilityGuard and applyDisqualifiers of pkg/steps).  The      *)
(* model writes the section; the binary parses it, edits single lines of   *)
(* it or renders it anew, and other parsers read what is left.             *)
(*                                                                         *)
(* A section is a sequence of lines.  A line keeps what the code looks at: *)
(* whether it is a fence, a key at column 0 (with the indented lines below *)
(* it), a member of a JSON object, other text at column 0, or blank; and   *)
(* whether its value holds an unquoted ": ", which no YAML parser accepts. *)
(* A value is a sequence of words, so that what is folded into it shows.   *)
(* A line the code takes out or passes over leaves a gap: where the lines  *)
(* that remain stand is all the parsers look at, and a gap is no line to   *)
(* any of them.  yaml.v3 is outside this repository and modelled by Legal  *)
(* and Decode.                                                             *)
(***************************************************************************)
EXTENDS Naturals, SequencesExt

CONSTANTS
  Bodies,     \* sections the model may write
  Words,      \* what keys and values are made of
  Derived,    \* references with no Sentry issue behind them
  Canonical   \* Sentry: the short id of every other reference it knows

Kinds == {"open", "close", "key", "json", "text", "blank", "gap"}
Forms == {"plain", "risky", "quoted"}
Lines == [kind : Kinds, key : Words, val : Seq(Words), form : Forms]

Line(kind, key, val, form) ==
  [kind |-> kind, key |-> key, val |-> val, form |-> form]
Entry(key, val) == Line("key", key, val, "quoted")
Opening(lang) == Line("open", lang, <<>>, "plain")
Closing == Line("close", "", <<>>, "plain")
Gap == Line("gap", "", <<>>, "plain")

(* The schema in the order it is rendered.  "last_seen" stands for the four *)
(* fields of the live state, "fix_certainty" for both certainties; the     *)
(* confidence is left out.                                                 *)
Rendered == <<"sentry_issue_id", "verdict", "reason", "last_seen", "urgency",
              "disqualifiers_fired", "promoted", "fix_certainty",
              "root_cause", "recommended_fix">>
Schema == ToSet(Rendered)
Verdicts == [Schema -> Seq(Words)]
Owned == {"urgency", "promoted"}          \* omitted where empty
DeepSchema == {"sentry_issue_id", "verdict", "fix_certainty", "root_cause",
               "recommended_fix", "file:line"}

(* What quoting knows: the keys whose value is prose, and those that end a  *)
(* value.                                                                  *)
Prose == {"reason", "root_cause", "recommended_fix"}
Boundary == Schema \ Owned
DeepProse == {"root_cause", "recommended_fix"}
DeepBoundary == DeepSchema \cup {"disqualifiers_fired", "last_seen"}

(* A reference is never empty: validateReference asks for a bare identity.  *)
ASSUME BodiesAssumption ==
  /\ Schema \cup {"", "yaml", "real bug", "guard", "fired", "computed"} \subseteq Words
  /\ Bodies \subseteq Seq(Lines)
  /\ Derived \subseteq Seq(Words) \ {<<>>} /\ Derived \cap DOMAIN Canonical = {}
  /\ <<>> \notin DOMAIN Canonical
  /\ \A r \in DOMAIN Canonical : Canonical[r] \in Seq(Words)

VARIABLES
  type,       \* the agent: triage or deep
  answer,     \* the section as the model wrote it
  body,       \* the section in the Job's copy of the task
  v,          \* the parsed verdict
  pc,
  counted,    \* the label RecordVerdict was given
  reading,    \* history: what the section tells a reader,
  judged      \* and whether it is judged; the code keeps neither

history == <<reading, judged>>
vars == <<type, answer, body, v, pc, counted, history>>

-----------------------------------------------------------------------------
(***************************************************************************)
(* Reading a section.                                                      *)
(***************************************************************************)

(* yaml.v3 takes a mapping of distinct keys, in block or in JSON form.      *)
IsMember(l) == l.kind \in {"key", "json"}
Legal(block) ==
  /\ \A i \in DOMAIN block :
       block[i].kind \in {"key", "json", "blank", "gap"} /\ block[i].form # "risky"
  /\ \A i, j \in {n \in DOMAIN block : IsMember(block[n])} :
       block[i].kind = block[j].kind /\ (block[i].key = block[j].key => i = j)

Members(block, key) == {i \in DOMAIN block : IsMember(block[i]) /\ block[i].key = key}
Decode(block, keys) ==
  [k \in keys |-> IF Members(block, k) = {} THEN <<>>
                  ELSE block[CHOOSE i \in Members(block, k) : TRUE].val]

(* The fence of the block a line stands in, where blocks of some languages *)
(* are read; 0 outside of them.  A fence ends the block it stands in,      *)
(* whatever its language.                                                  *)
Fence(l) == l.kind \in {"open", "close"}
Within(section, langs) ==
  LET within[i \in 0..Len(section)] ==
        IF i = 0 THEN 0
        ELSE IF ~Fence(section[i]) THEN within[i - 1]
        ELSE IF within[i - 1] = 0 /\ section[i].kind = "open" /\ section[i].key \in langs
             THEN i ELSE 0
  IN within
Openings(section, langs) == {i \in DOMAIN section : Within(section, langs)[i] = i}

(* The block below a fence; it need not be closed.                         *)
BlockAt(section, fence) ==
  [i \in DOMAIN section |->
    IF fence < i /\ \A j \in fence + 1 .. i : ~Fence(section[j]) THEN section[i] ELSE Gap]

(* Quotes prose and folds into it every line up to the next boundary or     *)
(* blank line.  Prose is a boundary itself.                                *)
Quote(block, prose, boundary) ==
  LET Key(i, keys) == block[i].kind = "key" /\ block[i].key \in keys
      Folds(h, i) == /\ h < i /\ Key(h, prose)
                     /\ \A j \in h + 1 .. i : block[j].kind # "blank" /\ ~Key(j, boundary)
      Text(i) == (IF block[i].kind = "key" THEN <<block[i].key>> ELSE <<>>) \o block[i].val
      Value(h) == block[h].val \o
        FlattenSeq([i \in DOMAIN block |-> IF Folds(h, i) THEN Text(i) ELSE <<>>])
  IN [i \in DOMAIN block |->
       IF Key(i, prose) THEN Entry(block[i].key, Value(i))
       ELSE IF \E h \in DOMAIN block : Folds(h, i) THEN Gap ELSE block[i]]

(* parseBlock: an illegal block is tried once more, quoted.                 *)
Best(block) == IF Legal(block) THEN block ELSE Quote(block, Prose, Boundary)
DeepBest(block) ==
  IF Legal(block) THEN block ELSE Quote(block, DeepProse, DeepBoundary)
HasVerdict(block) == Decode(block, Schema)["verdict"] # <<>>
Yields(block) == Legal(Best(block)) /\ HasVerdict(Best(block))

(* parseUnfencedVerdict: the section's last JSON object.                    *)
Restricted(section, kinds) ==
  [i \in DOMAIN section |-> IF section[i].kind \in kinds THEN section[i] ELSE Gap]
Unfenced(section) == Restricted(section, {"json"})

(* Parse takes the first block that yields, and fails where some block is   *)
(* illegal and none yields.                                                *)
Fenced(section) == Openings(section, {"yaml", "json"})
Yielding(section) == {i \in Fenced(section) : Yields(BlockAt(section, i))}
ParsedBlock(section) ==
  IF Yielding(section) # {} THEN Best(BlockAt(section, Min(Yielding(section))))
  ELSE IF Legal(Unfenced(section)) THEN Unfenced(section) ELSE <<>>
Parse(section) == Decode(ParsedBlock(section), Schema)
ParseFails(section) ==
  /\ Parse(section)["verdict"] = <<>>
  /\ ~Legal(Unfenced(section)) \/ \E i \in Fenced(section) : ~Legal(BlockAt(section, i))

(* deepverdict.Parse stops at the first block with a verdict, and fails on  *)
(* an illegal one before it and on a fence that is never closed.           *)
DeepStops(block) == ~Legal(DeepBest(block)) \/ HasVerdict(DeepBest(block))
Stopping(section) ==
  {i \in Openings(section, {"yaml"}) : DeepStops(BlockAt(section, i))}
DeepBlock(section) ==
  IF Stopping(section) = {} THEN <<>> ELSE DeepBest(BlockAt(section, Min(Stopping(section))))
DeepFails(section) ==
  Within(section, {"yaml"})[Len(section)] # 0 \/ ~Legal(DeepBlock(section))
DeepParse(section) == Decode(DeepBlock(section), DeepSchema)

-----------------------------------------------------------------------------
(***************************************************************************)
(* Plausible bugs, for the runs to notice; nothing else uses them.         *)
(***************************************************************************)

(* The identity line in its YAML spelling only.                            *)
RewriteYamlLine(section, id) ==
  [i \in DOMAIN section |->
    IF section[i].kind = "key" /\ section[i].key = "sentry_issue_id"
    THEN Line("key", "sentry_issue_id", id, "plain") ELSE section[i]]

(* The rendering alone, and one that lets fields of the binary return.      *)
RenderedOnly(original, rendered) == rendered
RestoredAll(original, rendered) ==
  Front(rendered)
  \o [i \in DOMAIN original |->
       IF original[i].kind = "key" /\ \A m \in ToSet(rendered) : m.key # original[i].key
       THEN original[i] ELSE Line("gap", "", <<>>, "plain")]
  \o <<Line("close", "", <<>>, "plain")>>

(* A fired disqualifier relabels what nobody could analyse.                *)
PromotableAny(u) == u["verdict"] # <<"real bug">>

-----------------------------------------------------------------------------
(***************************************************************************)
(* Writing one.                                                            *)
(***************************************************************************)

(* Marshal quotes where it has to, so what it writes is legal.             *)
Fields(u) ==
  [i \in DOMAIN Rendered |->
    LET k == Rendered[i] IN IF k \in Owned /\ u[k] = <<>> THEN Gap ELSE Entry(k, u[k])]
Render(u) == <<Opening("yaml")>> \o Fields(u) \o <<Closing>>

(* topLevelKey: an identifier at column 0; file:line is taken for "file".   *)
TopLevel(l) == l.kind = "key"
TopKey(l) == IF l.key = "file:line" THEN "file" ELSE l.key

(* What follows a top-level key up to the next one belongs to its entry,    *)
(* fences and text included.                                               *)
Begins(section, h, i) ==
  /\ h <= i /\ TopLevel(section[h])
  /\ \A j \in h + 1 .. i : ~TopLevel(section[j])
InEntry(section, i, keys) ==
  \E h \in DOMAIN section : Begins(section, h, i) /\ TopKey(section[h]) \in keys

StripKeys(section, keys) ==
  [i \in DOMAIN section |-> IF InEntry(section, i, keys) THEN Gap ELSE section[i]]

(* The entries of the original that the rendering lacks go before its       *)
(* closing fence, unless they are the binary's own.                        *)
Extra(section, i, known) ==
  \E h \in DOMAIN section : Begins(section, h, i) /\ TopKey(section[h]) \notin known
RestoreUnmodeledLines(original, rendered) ==
  LET present == {TopKey(l) : l \in {m \in ToSet(rendered) : TopLevel(m)}}
  IN Front(rendered)
     \o [i \in DOMAIN original |->
          IF Extra(original, i, present \cup Owned) THEN original[i] ELSE Gap]
     \o <<Closing>>

(* The first identity line of the section, wherever it stands.             *)
IdentityLines(section) == Members(section, "sentry_issue_id")
RewriteIdentityLine(section, id) ==
  [i \in DOMAIN section |->
    IF i \in IdentityLines(section) /\ \A j \in IdentityLines(section) : i <= j
    THEN Line(section[i].kind, section[i].key, id, "plain") ELSE section[i]]

(* ApplyAnalyzabilityGuard.                                                *)
Names(prose) == prose # <<>> /\ Head(prose) # "unknown"
Contradicts(u) ==
  u["verdict"] = <<"unanalyzable">> /\ (Names(u["root_cause"]) \/ Names(u["recommended_fix"]))
Reclassified(u) ==
  [u EXCEPT !["verdict"] = <<"real bug">>, !["reason"] = <<"guard">> \o @]

(* applyDisqualifiers on a block whose dates parse.  What the binary        *)
(* computes is the word "computed"; LiveState says which band it is.       *)
Dated(u) == u["last_seen"] \in {<<"quiet">>, <<"firing">>}
Fires(u) == u["last_seen"] = <<"firing">>
Promotable(u) == u["verdict"] \notin {<<"real bug">>, <<"unanalyzable">>}
Unowned(u) == [u EXCEPT !["urgency"] = <<>>, !["promoted"] = <<>>]
Forced(u) ==
  IF Fires(u) /\ Promotable(u)
  THEN [u EXCEPT !["verdict"] = <<"real bug">>, !["reason"] = <<"fired">> \o @] ELSE u
Evaluated(u) ==
  LET stamped == [Forced(Unowned(u)) EXCEPT !["urgency"] = <<"computed">>] IN
  IF Fires(u) THEN [stamped EXCEPT !["disqualifiers_fired"] = <<"computed">>,
                                   !["promoted"] = <<"computed">>]
  ELSE stamped

-----------------------------------------------------------------------------
(***************************************************************************)
(* What a reader of the section is told, for the properties.               *)
(***************************************************************************)

(* The section as a reader sees it, and as the model gave it.              *)
Says(section) ==
  LET u == Parse(section)
      Owner(k) == CASE u[k] = <<>> -> "absent" [] u[k] = <<"computed">> -> "computed"
                    [] OTHER -> "model"
  IN [label |-> IF Len(u["verdict"]) = 1 THEN Head(u["verdict"]) ELSE "none",
      id |-> u["sentry_issue_id"],
      named |-> Names(u["root_cause"]) \/ Names(u["recommended_fix"]),
      live |-> IF Dated(u) THEN Head(u["last_seen"]) ELSE "undated",
      urgency |-> Owner("urgency"), promoted |-> Owner("promoted")]

(* Without dates the section is cut, not rendered, and a fence below a cut  *)
(* key goes with it.                                                       *)
CutsFence ==
  /\ ~Dated(Parse(answer))
  /\ \E i \in DOMAIN answer : Fence(answer[i]) /\ InEntry(answer, i, Owned)

HasJson == \E i \in DOMAIN answer : answer[i].kind = "json"

(* A verdict with dates is rendered anew, and one that contradicts itself.  *)
Rerendered == Dated(Parse(answer)) \/ Contradicts(Parse(answer))

(* The block takes in what stands under an unknown key; two paragraphs of   *)
(* it are illegal there, as no repair folds past a blank line.             *)
Strays ==
  /\ Rerendered
  /\ \E h, i \in DOMAIN answer :
       /\ h < i /\ answer[h].kind = "blank" /\ answer[i].kind = "text"
       /\ Extra(answer, h, Schema)
       /\ \A j \in h .. i : ~TopLevel(answer[j])

(* Three sections the judgement does not get into: these, and a JSON block  *)
(* without dates, whose members StripKeys does not see.                    *)
Exempt == CutsFence \/ Strays \/ (~Dated(Parse(answer)) /\ HasJson)

(* Of the lines that are restored, those above the first fence among them   *)
(* end up in the block.  They must be legal there.                         *)
Loose(section, i) ==
  /\ Extra(section, i, Schema)
  /\ \A j \in 1..i : Extra(section, j, Schema) => ~Fence(section[j])
Restorable(section) ==
  /\ \A i \in DOMAIN section : Loose(section, i) =>
       section[i].kind \in {"key", "blank", "gap"} /\ section[i].form # "risky"
  /\ \A i, j \in {n \in DOMAIN section : Loose(section, n) /\ section[n].kind = "key"} :
       section[i].key = section[j].key => i = j

(* A section both parsers read at one fence: a YAML block with a verdict,   *)
(* none but legal ones without a verdict above it, and no fence below a    *)
(* key that is cut.                                                        *)
Reads(section, o) ==
  /\ o \in Fenced(section)
  /\ \A i \in Fenced(section) : i <= o =>
       Legal(BlockAt(section, i)) /\ (HasVerdict(BlockAt(section, i)) <=> i = o)
  /\ \A i \in 1..o : section[i].kind = "open" => section[i].key # "json"
  /\ \A i \in DOMAIN section : BlockAt(section, o)[i].kind # "json"
  /\ \A i \in DOMAIN section : InEntry(section, i, Owned) => ~Fence(section[i])
IdentityStands(section, o) ==
  \A i \in IdentityLines(section) :
    (\A j \in IdentityLines(section) : i <= j) =>
      o < i /\ \A j \in o + 1 .. i : ~Fence(section[j])

(* What the two paths ask of the section the model wrote.                  *)
Sound ==
  IF Rerendered THEN Restorable(answer)
  ELSE \E o \in DOMAIN answer : Reads(answer, o) /\ IdentityStands(answer, o)

-----------------------------------------------------------------------------
(***************************************************************************)
(* One Job, from the model's answer to the delivery.                       *)
(***************************************************************************)

Init ==
  /\ type \in {"triage", "deep"}
  /\ answer \in Bodies
  /\ body = answer
  /\ v = Parse(<<>>)
  /\ pc = "answered"
  /\ counted = <<>>
  /\ reading = Says(answer) /\ judged = FALSE

(* An answer without a verdict is passed on as it is.                      *)
Read ==
  /\ pc = "answered"
  /\ v' = Parse(body)
  /\ pc' = IF ParseFails(body) THEN "failed"
           ELSE IF v'["verdict"] = <<>> THEN "judged" ELSE "parsed"
  /\ UNCHANGED <<type, answer, body, counted, history>>

(* A plausible bug: where the lookup fails, the model's own form stands.    *)
IdentifyOrKeep ==
  /\ pc = "parsed" /\ pc' = "identified"
  /\ UNCHANGED <<type, answer, body, v, counted, history>>

(* Resolve: a derived key is its own identity, any other is looked up, and  *)
(* a reference that is not a bare id reaches neither Sentry nor the file.  *)
Identify ==
  /\ pc = "parsed" /\ pc' = "identified"
  /\ \E id \in (Derived \cap {v["sentry_issue_id"]})
              \cup {Canonical[r] : r \in DOMAIN Canonical \cap {v["sentry_issue_id"]}} :
       /\ v' = [v EXCEPT !["sentry_issue_id"] = id]
       /\ body' = RewriteIdentityLine(body, id)
  /\ UNCHANGED <<type, answer, counted, history>>

(* The lookup fails, or there is nothing to look up.                       *)
IdentifyFails ==
  /\ pc = "parsed" /\ v["sentry_issue_id"] \notin Derived
  /\ pc' = "failed"
  /\ UNCHANGED <<type, answer, body, v, counted, history>>

(* applyAnalyzabilityGuard.                                                *)
Guard ==
  /\ pc = "identified" /\ pc' = "guarded"
  /\ v' = IF Contradicts(v) THEN Reclassified(v) ELSE v
  /\ body' = IF Contradicts(v) THEN RestoreUnmodeledLines(body, Render(v')) ELSE body
  /\ UNCHANGED <<type, answer, counted, history>>

(* applyDisqualifiers, then RecordVerdict.                                 *)
Disqualify ==
  /\ pc = "guarded" /\ pc' = "judged"
  /\ LET u == IF Dated(v) THEN Evaluated(v) ELSE Unowned(v)
         new == IF Dated(v) THEN RestoreUnmodeledLines(body, Render(u))
                ELSE StripKeys(body, Owned)
     IN /\ v' = u /\ body' = new
        /\ counted' = u["verdict"]
        /\ reading' = IF Exempt THEN reading ELSE Says(new)
        /\ judged' = ~Exempt
  /\ UNCHANGED <<type, answer>>

(* The triage Job delivers its section; a deep one first reads it once more *)
(* for the fix handoff.                                                    *)
Deliver ==
  /\ pc = "judged"
  /\ pc' = IF type = "deep" /\ DeepFails(body) THEN "refused" ELSE "delivered"
  /\ UNCHANGED <<type, answer, body, v, counted, history>>

Next == Read \/ Identify \/ IdentifyFails \/ Guard \/ Disqualify \/ Deliver

Spec == Init /\ [][Next]_vars
-----------------------------------------------------------------------------
(***************************************************************************)
(* Properties.                                                             *)
(***************************************************************************)

Judged == pc \in {"judged", "delivered", "refused"} /\ counted # <<>>
Identities == Derived \cup {Canonical[r] : r \in DOMAIN Canonical}

(* Types; from the lookup on, the identity is one Sentry or the pipeline    *)
(* gave the alert, never a spelling of the model's.                        *)
TypeOK ==
  /\ type \in {"triage", "deep"}
  /\ pc \in {"answered", "parsed", "identified", "guarded", "judged", "delivered",
            "failed", "refused"}
  /\ body \in Seq(Lines)
  /\ v \in Verdicts
  /\ pc \in {"identified", "guarded"} \/ Judged => v["sentry_issue_id"] \in Identities

(* The counted label is the one the section carries, and whoever reads the  *)
(* section next, by either parser, finds that label under the canonical    *)
(* identity, whichever way the text was edited.  From a sound answer, the  *)
(* section says every field as the binary holds it.                        *)
CountedIsCarried ==
  /\ Judged /\ ~CutsFence /\ ~Strays =>
       /\ Parse(body)["verdict"] = counted
       /\ Parse(body)["sentry_issue_id"] \in Identities
       /\ ~DeepFails(body) /\ DeepParse(body)["verdict"] # <<>> =>
            /\ DeepParse(body)["verdict"] = counted
            /\ DeepParse(body)["sentry_issue_id"] \in Identities
  /\ Judged /\ Sound => Parse(body) = v

(* What the section says of urgency and promotion is the binary's, and a    *)
(* promotion names computed evidence.  A JSON block without dates keeps the *)
(* model's: StripKeys knows keys at column 0 only.                         *)
OwnedIsComputed ==
  Judged /\ (Dated(v) \/ ~HasJson) =>
    /\ \A k \in Owned : Parse(body)[k] \in {<<>>, <<"computed">>}
    /\ Parse(body)["promoted"] # <<>> =>
         Fires(v) /\ Parse(body)["disqualifiers_fired"] = <<"computed">>

(* A key above the block takes the opening fence for its own.              *)
MovesFence ==
  \E h, i \in DOMAIN answer : h < i /\ TopLevel(answer[h]) /\ answer[i].kind = "open"

(* A block the fix handoff could have read as the model wrote it can still  *)
(* be read once the triage schema, which does not know file:line, was      *)
(* rendered over it, once or twice, and points to the same source; unless  *)
(* a fence was cut or moved, or a line the model wrote outside the block   *)
(* is illegal where it is moved to.                                        *)
HandoffReads ==
  Judged /\ ~DeepFails(answer) /\ ~CutsFence /\ ~Strays
         /\ Legal(DeepBest(Restricted(answer, {"key", "json"}))) =>
    /\ ~DeepFails(body)
    /\ ~MovesFence => DeepParse(body)["file:line"] = DeepParse(answer)["file:line"]

CanonicalOf(id) == IF id \in Derived THEN id ELSE Canonical[id]
Judgement == INSTANCE Judgement WITH
  CanonicalId <- CanonicalOf, reading <- reading, judged <- judged

(* However the text is edited, a section is judged once, as a whole and as  *)
(* the rubric says, with the three exceptions above.                         *)
Implements == Judgement!Spec

(* The fix a deep block recommends is the text the model wrote for it:      *)
(* "file:line ... must never be swallowed into the value above it"         *)
(* (pkg/deepverdict/deepverdict.go).                                       *)
FixKept ==
  type = "deep" /\ pc = "delivered" /\ ~DeepFails(answer) =>
    DeepParse(body)["recommended_fix"] = DeepParse(answer)["recommended_fix"]
=============================================================================
