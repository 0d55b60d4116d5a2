--------------------------- MODULE MCVerdictBlock ---------------------------
EXTENDS VerdictBlock

MCWords == STRING
MCDerived == {<<"event">>}
MCCanonical == (<<"short">> :> <<"short">>) @@ (<<"numeric">> :> <<"short">>)

(* What may differ between two answers: how the block is fenced and whether *)
(* it is closed, the label ("none": no verdict key), the dates, the         *)
(* spelling of the identity, the recommended fix (with an unquoted ": ",    *)
(* wrapped into column 0, a placeholder), where file:line and the binary's  *)
(* own keys stand, a "Note:" below the block, of one paragraph or two, and a  *)
(* block of evidence above it.                                              *)
Shapes ==
  [fence : {"yaml", "json", "bare"}, closed : BOOLEAN,
   label : {"real bug", "noise", "unanalyzable", "none"},
   live : {"unavailable", "quiet", "firing"},
   id : {"short", "numeric", "event", "hostile"},
   fix : {"plain", "risky", "wrapped", "unknown"},
   pointer : {"none", "next", "last"},
   owned : {"none", "middle", "last"},
   note : {"none", "plain", "risky", "long"}, evidence : BOOLEAN]

Body(s) ==
  LET kind == IF s.fence = "yaml" THEN "key" ELSE "json"
      Member(k, w, form) == <<Line(kind, k, <<w>>, form)>>
      M(k, w) == Member(k, w, "plain")
      If(c, lines) == IF c THEN lines ELSE <<>>
      OwnedLines == M("urgency", "model") \o M("promoted", "model")
      Pointer == M("file:line", "pointer")
      Blank == Line("blank", "", <<>>, "plain")
  IN If(s.evidence, <<Opening("yaml"), Line("key", "events", <<"frames">>, "plain"), Closing>>)
     \o If(s.fence # "bare", <<Opening(s.fence)>>)
     \o M("sentry_issue_id", s.id)
     \o If(s.label # "none", M("verdict", s.label)) \o M("reason", "why")
     \o If(s.owned = "middle", OwnedLines)
     \o M("root_cause", IF s.fix = "unknown" THEN "unknown" ELSE "cause")
     \o Member("recommended_fix", IF s.fix = "unknown" THEN "unknown" ELSE "fix",
               IF s.fix = "risky" THEN "risky" ELSE "plain")
     \o If(s.fix = "wrapped", <<Line("text", "", <<"rest">>, "plain")>>)
     \o If(s.pointer = "next", Pointer)
     \o M("disqualifiers_fired", "model") \o M("last_seen", s.live)
     \o M("fix_certainty", "high")
     \o If(s.pointer = "last", Pointer) \o If(s.owned = "last", OwnedLines)
     \o If(s.closed /\ s.fence # "bare", <<Closing>>)
     \o If(s.note # "none",
           <<Blank, Line("key", "Note", <<"note">>, IF s.note = "risky" THEN "risky" ELSE "plain")>>)
     \o If(s.note = "long", <<Blank, Line("text", "", <<"more">>, "plain")>>)

(* One odd thing beside the owned keys at a time.                          *)
Plain(t) == t.fix = "plain" /\ t.note = "none" /\ ~t.evidence
MCBodies ==
  {Body(s) : s \in
    {t \in Shapes :
       /\ t.fence = "json" \/ t.fence = "bare" =>
            t.fix \in {"plain", "unknown"} /\ t.pointer # "next" /\ t.note # "risky"
       /\ t.fence = "bare" => t.closed
       /\ t.label = "none" \/ t.id # "numeric" => Plain(t)
       /\ t.evidence => t.note = "none" /\ t.fix # "wrapped"
       /\ ~t.closed => t.owned # "middle" /\ t.note = "none"}}

(* What the deep prompt asks for: one closed block, nothing but its keys,   *)
(* file:line below the recommended fix.                                    *)
MCAsked ==
  {Body(s) : s \in
    {t \in Shapes : /\ t.fence = "yaml" /\ t.closed /\ t.label \in {"real bug", "noise"}
                    /\ t.fix # "unknown" /\ t.pointer = "next" /\ t.owned = "none"
                    /\ t.note = "none" /\ ~t.evidence}}
=============================================================================
