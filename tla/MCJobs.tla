------------------------------- MODULE MCJobs -------------------------------
EXTENDS Jobs, TLC

CONSTANTS j1, j2

Lane == <<"seibert-group.sentry.io">>
Full(t) == [type |-> t, url |-> Lane, org |-> <<"seibert-group">>,
            values |-> Values, grants |-> Scripts]
Without(c, v, g) == [c EXCEPT !.values = @ \ v, !.grants = @ \ g]

(* A lane that lacks one value or one grant; one that lacks any part of the *)
(* Jira access; one with any Sentry target; one that runs without a task.  *)
Odd ==
  UNION {
    {Without(Full(t), {v}, {}) : v \in Values}
      \cup {Without(Full(t), {}, {s}) : s \in Scripts}
      \cup {Without(Full(t), v, g) : v \in SUBSET Jira, g \in SUBSET {"jira-read"}}
      \cup {Without(Full(t), {"TASK_ID", "KAFKA_BROKERS"}, {})}
      \cup {[Full(t) EXCEPT !.url = u, !.org = o] :
              u \in {<<>>, Blank, Lane, Append(Lane, ""), Append(Lane, "api/0")},
              o \in {<<>>, Blank, <<"seibert-group">>}}
    : t \in Types}

(* One odd Job beside one that never gets to Run; two full ones.           *)
MCAssignments ==
  {(j1 :> c) @@ (j2 :> Without(Full("triage"), {"ASSIGNEE"}, {})) : c \in Odd}
    \cup {(j1 :> Full("triage")) @@ (j2 :> Full(t)) : t \in {"triage", "deep"}}
=============================================================================
