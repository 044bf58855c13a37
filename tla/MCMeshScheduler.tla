--------------------------- MODULE MCMeshScheduler ---------------------------
(***************************************************************************)
(* Values of the constants of MeshScheduler for TLC: row 1 is in the pool  *)
(* of both resources, row 2 is fixed to the first.                         *)
(***************************************************************************)
EXTENDS MeshSchedulerProps, TLC
CONSTANTS qllm

Pools == (1 :> {1, 2}) @@ (2 :> {1})
Tenants == (1 :> "georefine") @@ (2 :> "qllm")
Priorities == (1 :> 1) @@ (2 :> 1)
Parallel == (1 :> 1) @@ (2 :> 1)
Owners == (1 :> 1) @@ (2 :> 2) @@ (qllm :> 3)
Adopting == {<<qllm, 2>>}

(* How often the events of the environment may happen: each scenario pairs *)
(* the ones that meet in a hazard.                                         *)
Scenario(file, events) ==
  [queue |-> file,
   budget |-> [e \in Event |-> IF e \in DOMAIN events THEN events[e] ELSE 0]]
Running(S) == [j \in Job |-> IF j \in S THEN "running" ELSE "absent"]
Both == Running({1, 2})

Scenarios ==
  {Scenario(Both, [edits |-> 1, bootstraps |-> 1, deaths |-> 1]),
   Scenario(Running({1}), [edits |-> 2]),
   Scenario(Both, [outages |-> 2]),
   Scenario(Both, [drains |-> 1, outages |-> 1]),
   Scenario(Both, [drains |-> 1, strays |-> 1]),
   Scenario(Both, [claims |-> 1, strays |-> 1]),
   Scenario(Both, [failures |-> 1, restarts |-> 1, outages |-> 1]),
   Scenario(Both, [confirmations |-> 1, restarts |-> 1, strays |-> 1])}

(* The row of the pool alone, with a launch whose identity is not known.   *)
Unidentified == {Scenario(Running({1}), [confirmations |-> 1])}
===============================================================================
