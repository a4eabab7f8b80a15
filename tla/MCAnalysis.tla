----------------------------- MODULE MCAnalysis -----------------------------
(* A small instance of the analyzer for TLC: short streams on two cores, and *)
(* longer ones on a single core.                                             *)
EXTENDS Analysis

Mix(kinds, cores, contexts, length, anomalies) ==
  [kinds |-> kinds, cores |-> cores, contexts |-> contexts, length |-> length,
   anomalies |-> anomalies]

OneTask == {CHOOSE t \in Tasks : TRUE}
Everyone == Tasks \union Irqs

StreamMixes ==
  {Mix({"function", "switch"}, 1..2, OneTask, 5, 0),
   Mix({"function", "switch"}, 1..2, Everyone, 3, 1),
   Mix({"function", "switch"}, {1}, Everyone, 4, 1),
   Mix({"function", "interrupt"}, {1}, Everyone, 4, 1),
   Mix({"function", "gap", "tick"}, {1}, Everyone, 4, 1),
   Mix({"switch", "tick"}, 1..2, Everyone, 4, 1), Mix({"span", "gap"}, {1}, Everyone, 4, 1)}
=============================================================================
