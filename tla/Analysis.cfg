SPECIFICATION AnalysisSpec
CONSTANTS
  NCores = 2
  Tasks = {"t1", "t2"}
  Irqs = {"i1"}
  Activations = {"a1"}
  Functions = {"f"}
  TraceSources = {"s1"}
  SwitchesTraced = TRUE
  MaxFacts = 2
  MaxOpenSpans = 1
  SpanIds = {"x"}
  Mixes <- StreamMixes
  MaxStep = 1
INVARIANTS RankedSpansAreTrue SelfTimeConserved
  TruncationNeverFlatters
CHECK_DEADLOCK FALSE
