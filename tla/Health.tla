------------------------------- MODULE Health -------------------------------
(* The health policy of t32perf-analysis: which verdict and which loss of    *)
(* metric support every health fact costs.  A fact is its code; the wording, *)
(* the severity label and the evidence of an issue are left out.             *)
EXTENDS Integers, FiniteSets

Metrics == {"function_timeline", "call_count", "elapsed", "active", "self_time",
            "task_timeline", "isr_timeline", "resource_counters"}

FunctionMetrics == {"function_timeline", "call_count", "elapsed", "active", "self_time"}

Families == {"function_events", "context_switches", "interrupt_events", "samples",
             "resource_counters"}

-----------------------------------------------------------------------------
\* Support levels by rank: 0 Exact, 1 Inferred, 2 Statistical, 3 Unavailable.
Exact == 0
Inferred == 1
Statistical == 2
Unavailable == 3

Lower(rank, next) == IF next > rank THEN next ELSE rank

\* Verdicts by rank, as combine_verdict orders them.
Valid == 0
Degraded == 1
Invalid == 2

FunctionCodes == {"unmatched_function_exit", "mismatched_function_exit", "unclosed_function"}
InterruptCodes == {"unmatched_interrupt_exit", "mismatched_interrupt_exit",
                   "unclosed_interrupt", "duplicate_interrupt_activation"}
ContextCodes == {"context_mismatch", "context_switch_mismatch", "concurrent_context"}
SpanCodes == {"duplicate_span_begin", "unmatched_span_end", "unclosed_span",
              "duplicate_async_begin", "unmatched_async_end", "unclosed_async",
              "open_custom_span_limit_exceeded"}
ResourceWarnings == {"invalid_resource_counter", "resource_counter_out_of_range",
                     "resource_counter_not_monotonic",
                     "resource_counter_invariant_violation",
                     "resource_counter_window_incomplete"}
ResourceErrors == {"invalid_resource_counter_definition",
                   "resource_counter_unit_mismatch", "resource_counter_subject_conflict"}

\* issue_rule: the verdict of a fact.  Every other code, the unknown ones
\* included (unknown_health_fact), is Invalid.
RuleVerdict(code) ==
  IF code \in ResourceWarnings \union {"trace_gap", "missing_scheduled_context"}
    THEN Degraded ELSE Invalid

\* apply_metric_impact: the level a fact lowers metric m to.
Impact(code, m) ==
  CASE code = "elf_mismatch" \/ code \in FunctionCodes ->
         IF m \in FunctionMetrics THEN Unavailable ELSE Exact
    [] code \in InterruptCodes ->
         IF m \in {"isr_timeline", "active", "self_time"} THEN Unavailable ELSE Exact
    [] code \in ContextCodes ->
         IF m \in {"task_timeline", "active", "self_time"} THEN Unavailable ELSE Exact
    [] code = "trace_gap" ->
         IF m \in {"call_count", "resource_counters"} THEN Unavailable ELSE Inferred
    [] code = "missing_scheduled_context" ->
         IF m \in {"task_timeline", "active", "self_time"} THEN Inferred ELSE Exact
    [] code \in ResourceWarnings \union ResourceErrors ->
         IF m = "resource_counters" THEN Unavailable ELSE Exact
    [] code \in SpanCodes -> Exact
    [] OTHER -> Unavailable

Worst(S) == CHOOSE x \in S \union {0} : \A y \in S : y <= x

\* support_from_capabilities: what the declared capabilities leave of metric m
\* before any fact is seen; cap gives the declared level of each family.
Declared(cap, m) ==
  LET fn == cap["function_events"]
      switches == IF cap["context_switches"] = Unavailable THEN Inferred
                                                           ELSE cap["context_switches"]
      interrupts == IF cap["interrupt_events"] = Unavailable THEN Inferred
                                                             ELSE cap["interrupt_events"]
      active == IF fn = Unavailable
                  THEN IF cap["samples"] = Unavailable THEN Unavailable ELSE Statistical
                  ELSE fn
  IN CASE m \in {"function_timeline", "call_count", "elapsed"} -> fn
       [] m = "active" -> Worst({active, switches, interrupts})
       [] m = "self_time" -> Worst({fn, switches, interrupts})
       [] m = "task_timeline" -> cap["context_switches"]
       [] m = "isr_timeline" -> cap["interrupt_events"]
       [] m = "resource_counters" -> cap["resource_counters"]

\* HealthPolicy::evaluate over the codes of the retained observations.
Verdict(codes) == Worst({RuleVerdict(c) : c \in codes})

Support(cap, codes, m) == Lower(Declared(cap, m), Worst({Impact(c, m) : c \in codes}))
=============================================================================
