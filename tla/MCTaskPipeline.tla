--------------------------- MODULE MCTaskPipeline ---------------------------
(* Small instances of TaskPipeline: one task, with a few faults and at most *)
(* one person who triggers it again.                                       *)
EXTENDS TaskPipeline
=============================================================================
