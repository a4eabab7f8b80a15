------------------------------ MODULE Analysis ------------------------------
(* The streaming analyzer of t32perf-analysis: it follows an ordered stream  *)
(* of observations and rebuilds, per core, which task or interrupt handler   *)
(* ran, per execution context the stack of open functions and the CPU time   *)
(* credited to it, and emits one function span for every activation.  Facts  *)
(* about damaged input go to a bounded list that the health policy judges.   *)
(*                                                                           *)
(* Abstracted: names, qualities and evidence; a function stands for the pair *)
(* (function id, frame id); times are small naturals.                        *)
EXTENDS Health, Sequences, FiniteSetsExt, SequencesExt, TLC

CONSTANTS
  NCores,            \* cores are 1..NCores, ordered as the BTreeMap orders them
  Tasks, Irqs,       \* public ids of scheduled contexts and of interrupts
  Activations,       \* activation ids the trace uses for interrupts
  Functions, TraceSources,
  SwitchesTraced,    \* capabilities.context_switches is not Unavailable
  MaxFacts,          \* config.max_health_observations
  MaxOpenSpans,      \* config.max_open_custom_spans
  SpanIds,           \* ids of custom and asynchronous spans
  Mixes,             \* bounds of the explored streams: the observation kinds a
                     \* stream consists of, the cores and the contexts of functions
                     \* it is about, its length and its damaged observations
  MaxStep            \* largest step of time

Cores == 1..NCores

ASSUME AnalysisAssumption ==
  /\ NCores \in Nat \ {0} /\ MaxFacts \in Nat \ {0} /\ MaxOpenSpans \in Nat \ {0}
  /\ SwitchesTraced \in BOOLEAN
  /\ \A mix \in Mixes : mix.cores \subseteq Cores

NoTs == -1
NoContext == <<"none">>

VARIABLES
  an,        \* the Analyzer: see AnalyzerInit for its fields
  stream,    \* the environment's position: events delivered, time, anomalies
  result     \* "running", "finished" or "failed" (ingest or finish returned Err)

analysisVars == <<an, stream, result>>

-----------------------------------------------------------------------------
Task(id) == <<"task", id>>
Activation(serial, irq) == <<"isr", serial, irq>>
IsTask(key) == key[1] = "task"
PublicId(key) == IF IsTask(key) THEN key[2] ELSE key[3]

\* `ran`, `lost`, `all` and `entered` are history: the ticks every context held
\* every core, the intervals of time a source reported or left as gaps, the codes
\* of every fact, kept or dropped, and the number of functions entered.
AnalyzerInit ==
  [cores |-> [c \in Cores |-> [sched |-> NoContext, since |-> NoTs, ints |-> <<>>,
                               last |-> NoTs]],
   ctx |-> [k \in {} |-> [virt |-> 0, frames |-> <<>>, tainted |-> FALSE]],
   prog |-> [s \in TraceSources |-> [seq |-> NoTs, ts |-> NoTs]],
   retired |-> [i \in Irqs |-> 0], serial |-> 0, spans |-> <<>>, facts |-> <<>>, dropped |-> 0, max |-> NoTs,
   reported |-> {}, custom |-> {}, async |-> {},
   ran |-> {}, lost |-> {}, all |-> {}, entered |-> 0]

AnalysisInit == an = AnalyzerInit
        /\ \E mix \in Mixes : stream = [events |-> 0, now |-> 0, anomalies |-> 0, mix |-> mix]
        /\ result = "running"

-----------------------------------------------------------------------------
(* Facts *)

\* Mutant of PushFact: a full list drops the fact without a trace.
PushFactDrops(a, code) ==
  IF Len(a.facts) < MaxFacts
    THEN [a EXCEPT !.all = @ \union {code}, !.facts = Append(@, code)]
    ELSE [a EXCEPT !.all = @ \union {code}]

\* push_fact, store_health_observation: when the list is full its last entry
\* makes room for the truncation sentinel, and later facts are only counted.
PushFact(a, code) ==
  LET b == [a EXCEPT !.all = @ \union {code}] IN
  CASE a.dropped > 0 -> [b EXCEPT !.dropped = @ + 1]
    [] a.dropped = 0 /\ Len(a.facts) < MaxFacts -> [b EXCEPT !.facts = Append(@, code)]
    [] OTHER -> [b EXCEPT !.dropped = 2,
                          !.facts = Append(Front(@), "diagnostics_truncated")]

PushIf(cond, a, code) == IF cond THEN PushFact(a, code) ELSE a

\* The loops that push one fact for every entry that is still open.
PushFacts(a, code, n) ==
  LET push[i \in 0..n] == IF i = 0 THEN a ELSE PushFact(push[i-1], code) IN push[n]

Kept(a) == ToSet(a.facts)

-----------------------------------------------------------------------------
(* Contexts and frames *)

EnsureContext(a, k) ==
  IF k \in DOMAIN a.ctx THEN a
  ELSE [a EXCEPT !.ctx = [x \in {k} \union DOMAIN a.ctx |->
          IF x = k THEN [virt |-> 0, frames |-> <<>>, tainted |-> FALSE] ELSE a.ctx[x]]]

Spoil(frames) == [i \in DOMAIN frames |-> [frames[i] EXCEPT !.inc = TRUE]]

\* The open frames of the contexts in `keys` are incomplete; TaintContexts says so of
\* the frames to come as well.
MarkContexts(a, keys) ==
  [a EXCEPT !.ctx = [k \in DOMAIN a.ctx |->
     IF k \in keys THEN [a.ctx[k] EXCEPT !.frames = Spoil(@)] ELSE a.ctx[k]]]

TaintContexts(a, keys) ==
  [a EXCEPT !.ctx = [k \in DOMAIN a.ctx |->
     IF k \in keys THEN [a.ctx[k] EXCEPT !.frames = Spoil(@), !.tainted = TRUE]
                   ELSE a.ctx[k]]]

MarkContext(a, k) == MarkContexts(a, {k})

MarkAll(a) == MarkContexts(a, DOMAIN a.ctx)

\* FunctionSpan::validate.  What finalize_top computes satisfies the time rules
\* by arithmetic; the one that can fail is the order of the sequence numbers.
SpanValid(span) ==
  /\ span.seqEnd # NoTs => span.seqEnd >= span.seq
  /\ span.active + span.preempted <= span.elapsed
  /\ span.self <= span.active

MinOf(x, y) == IF x < y THEN x ELSE y
MaxOf(x, y) == IF x < y THEN y ELSE x

\* Mutant of FinalizeTop: the parent does not learn of its child's time.
FinalizeTopAlone(a, k, end, seqEnd, force, by) ==
  LET frames == a.ctx[k].frames
      frame == Last(frames)
      elapsed == MaxOf(end - frame.wall, 0)
      active == MinOf(a.ctx[k].virt - frame.virt, elapsed)
      span == [src |-> frame.src, seq |-> frame.seq, seqEnd |-> seqEnd, key |-> k,
               fn |-> frame.fn, start |-> frame.wall, end |-> MaxOf(end, frame.wall),
               depth |-> Len(frames), elapsed |-> elapsed, active |-> active,
               self |-> active, preempted |-> elapsed - active,
               inc |-> force \/ frame.inc, by |-> by, owed |-> frame.owed]
  IN [a EXCEPT !.spans = Append(@, span), !.ctx[k].frames = Front(@)]

\* finalize_top: pop the top frame of k and make it a span.  A span that does
\* not validate stays in the list, where Ingest finds it and fails the run; `by`
\* and `owed` are history: the core whose event ended the activation (0 for none),
\* and what EnterFunction says of its start.
FinalizeTop(a, k, end, seqEnd, force, by) ==
  LET frames == a.ctx[k].frames
      frame == Last(frames)
      raw == a.ctx[k].virt - frame.virt
      elapsed == MaxOf(end - frame.wall, 0)
      active == MinOf(raw, elapsed)
      inc == force \/ frame.inc \/ raw > elapsed \/ frame.child > active
      span == [src |-> frame.src, seq |-> frame.seq, seqEnd |-> seqEnd, key |-> k,
               fn |-> frame.fn, start |-> frame.wall, end |-> MaxOf(end, frame.wall),
               depth |-> Len(frames), elapsed |-> elapsed, active |-> active,
               self |-> active - MinOf(frame.child, active),
               preempted |-> elapsed - active, inc |-> inc, by |-> by,
               owed |-> frame.owed]
      rest == Front(frames)
      parent == [Last(rest) EXCEPT !.child = @ + active, !.inc = @ \/ inc]
  IN [a EXCEPT !.spans = Append(@, span),
               !.ctx[k].frames = IF rest = <<>> THEN rest ELSE Append(Front(rest), parent)]

\* The loops that pop frames until only `keep` are left on the stack of k;
\* `fact` is pushed for every frame when it is not "".
FinalizeDownTo(a, k, keep, end, seqEnd, fact) ==
  LET n == Len(a.ctx[k].frames) - keep
      pop[i \in 0..n] == IF i = 0 THEN a
                         ELSE FinalizeTop(PushIf(fact # "", pop[i-1], fact),
                                          k, end, seqEnd, TRUE, 0)
  IN pop[n]

CloseUnclosed(a, k, end, seqEnd) ==
  IF k \in DOMAIN a.ctx THEN FinalizeDownTo(a, k, 0, end, seqEnd, "unclosed_function")
  ELSE a

CloseAll(a, keys, end, seqEnd) ==
  LET close[i \in 0..Len(keys)] == IF i = 0 THEN a
                                   ELSE CloseUnclosed(close[i-1], keys[i], end, seqEnd)
  IN close[Len(keys)]

-----------------------------------------------------------------------------
(* Time *)

\* What held a core according to the trace; the history `ran` is made of it.
Holder(core) == IF core.ints = <<>> THEN core.sched ELSE Last(core.ints).key

\* Mutant of Running: an interrupt does not suspend the task.
RunningTask(core) == core.sched

\* CoreState::running_context: the innermost interrupt, else the scheduled task.
Running(core) == IF core.ints # <<>> THEN Last(core.ints).key ELSE core.sched

\* concurrent_scheduled_cores: the cores that claim task k during (from, to),
\* with the start of the overlap.
Concurrent(a, k, c, from, to) ==
  LET overlap(d) == MaxOf(from, MaxOf(a.cores[c].since, a.cores[d].since))
  IN {<<d, overlap(d)>> : d \in {x \in Cores \ {c} :
                                   a.cores[x].sched = k /\ overlap(x) < to}}

\* detect_concurrent_scheduling: looks at the scheduled task even while an
\* interrupt runs; one fact per task and pair of cores.
DetectConcurrent(a, c, from, to) ==
  LET k == a.cores[c].sched
      conflicts == IF k = NoContext THEN {} ELSE Concurrent(a, k, c, from, to)
      pairs == {<<k, {c, x[1]}>> : x \in conflicts}
  IN IF conflicts = {} THEN a
     ELSE PushIf(~ pairs \subseteq a.reported,
                 [TaintContexts(a, {k}) EXCEPT !.reported = @ \union pairs],
                 "concurrent_context")

\* credited_scheduled_duration: time shared with a lower core belongs to it.
CreditedEnd(a, k, c, from, to) ==
  LET lower == {x[2] : x \in {y \in Concurrent(a, k, c, from, to) : y[1] < c}}
  IN IF IsTask(k) /\ lower # {} THEN Min(lower) ELSE to

\* credit_execution_interval.  The saturation of the 64-bit total is left out:
\* it needs centuries of nanoseconds.
Credit(a, k, c, from, to) ==
  LET end == CreditedEnd(a, k, c, from, to)
      b == EnsureContext(a, k)
  IN [b EXCEPT !.ctx[k].virt = @ + (end - from)]

\* advance_core: charge the time since the core's last event; EffectiveTs is
\* the time the event is taken to happen at.
EffectiveTs(a, c, ts) == MaxOf(a.cores[c].last, ts)

AdvanceCore(a, c, ts) ==
  LET core == a.cores[c]
      run == Running(core)
      held == IF core.last = NoTs THEN {} ELSE {<<c, Holder(core), t>> : t \in core.last..(ts - 1)}
      stamped(b) == [b EXCEPT !.cores[c].last = MaxOf(core.last, ts),
                              !.max = MaxOf(@, MaxOf(core.last, ts)),
                              !.ran = @ \union held]
      seen == DetectConcurrent(a, c, core.last, ts)
  IN CASE core.last = NoTs \/ core.last = ts -> stamped(a)
       [] ts < core.last -> stamped(MarkContext(PushFact(a, "out_of_order_timestamp"), run))
       [] OTHER -> stamped(IF run # NoContext THEN Credit(seen, run, c, core.last, ts)
                           ELSE PushFact(seen, "missing_scheduled_context"))

\* The loops over all known cores, in core order.
AdvanceAll(a, ts) ==
  LET step[c \in 0..NCores] ==
        IF c = 0 THEN a
        ELSE IF a.cores[c].last = NoTs THEN step[c-1] ELSE AdvanceCore(step[c-1], c, ts)
  IN step[NCores]

Schedule(a, c, k, since) ==
  IF a.cores[c].sched = k THEN a
  ELSE [a EXCEPT !.cores[c].sched = k, !.cores[c].since = since]

-----------------------------------------------------------------------------
(* Attribution of a function event to an execution context *)

\* event_execution_context: the innermost activation of that interrupt, if any.
EventContext(a, c, x) ==
  LET ints == a.cores[c].ints
      hits == {i \in DOMAIN ints : ints[i].irq = x}
  IN IF hits # {} THEN ints[Max(hits)].key ELSE Task(x)

\* ensure_function_context, as the pair of the context and whether it matches.
Attributed(a, c, x) ==
  LET core == a.cores[c]
      run == Running(core)
  IN CASE run = NoContext -> <<Task(x), TRUE>>
       [] run # NoContext /\ PublicId(run) = x -> <<run, TRUE>>
       [] run # NoContext /\ PublicId(run) # x /\ core.ints = <<>> /\ ~SwitchesTraced ->
            <<Task(x), TRUE>>
       [] OTHER -> <<EventContext(a, c, x), FALSE>>

EnsureFunctionContext(a, c, x) ==
  LET core == a.cores[c]
      at == Attributed(a, c, x)
      b == EnsureContext(a, at[1])
  IN IF at[2]
       THEN IF at[1] = Running(core) THEN b ELSE Schedule(b, c, at[1], core.last)
       ELSE MarkContext(MarkContext(PushFact(b, "context_mismatch"), Running(core)), at[1])

-----------------------------------------------------------------------------
(* One operator per observation kind.  o is the observation's source,        *)
(* sequence number and time; a is the analyzer after check_source_order.     *)

CheckSourceOrder(a, o) ==
  LET p == a.prog[o.src]
      known == p.seq # NoTs
      stale == known /\ o.seq <= p.seq
      gap == known /\ o.seq > p.seq + 1
      back == known /\ o.ts < p.ts
      a1 == PushIf(stale, a, "out_of_order_sequence")
      a2 == PushIf(gap, a1, "trace_gap")
      a3 == PushIf(back, a2, "out_of_order_timestamp")
      a4 == IF stale \/ gap \/ back THEN MarkAll(a3) ELSE a3
  IN [a4 EXCEPT !.prog[o.src] = [seq |-> MaxOf(p.seq, o.seq), ts |-> MaxOf(p.ts, o.ts)],
                !.lost = IF gap THEN @ \union {<<o.src, MinOf(p.ts, o.ts), MaxOf(p.ts, o.ts)>>}
                         ELSE @]

\* `owed`: another core still runs the context and has yet to be charged for time
\* before the entry, which the frame will then count as its own.
EnterFunction(a0, o, c, x, f) ==
  LET a == AdvanceCore(a0, c, o.ts)
      at == Attributed(a, c, x)
      k == at[1]
      b == EnsureFunctionContext(a, c, x)
      frame == [src |-> o.src, seq |-> o.seq, fn |-> f, wall |-> EffectiveTs(a0, c, o.ts),
                virt |-> b.ctx[k].virt, child |-> 0, inc |-> ~at[2] \/ b.ctx[k].tainted,
                owed |-> \E d \in Cores \ {c} : /\ Running(a.cores[d]) = k
                                                /\ a.cores[d].last < EffectiveTs(a0, c, o.ts)]
  IN [b EXCEPT !.ctx[k].frames = Append(@, frame), !.entered = @ + 1]

ExitFunction(a0, o, c, x, f) ==
  LET a == AdvanceCore(a0, c, o.ts)
      ts == EffectiveTs(a0, c, o.ts)
      k == Attributed(a, c, x)[1]
      b == EnsureFunctionContext(a, c, x)
      frames == b.ctx[k].frames
      hits == {i \in DOMAIN frames : frames[i].fn = f}
      pos == Max(hits)
      mismatched == pos # Len(frames) \/ frames[pos].src # o.src
      noted == IF mismatched THEN MarkContext(PushFact(b, "mismatched_function_exit"), k)
                             ELSE b
  IN IF hits = {} THEN MarkContext(PushFact(b, "unmatched_function_exit"), k)
     ELSE FinalizeTop(FinalizeDownTo(noted, k, pos, ts, o.seq, ""), k, ts, o.seq, mismatched, c)

SwitchContext(a0, o, c, prev, next) ==
  LET a == AdvanceCore(a0, c, o.ts)
      actual == a.cores[c].sched
      wrong == prev # NoContext /\ actual # NoContext /\ actual # prev
      noted == IF wrong
                 THEN MarkContext(MarkContext(PushFact(a, "context_switch_mismatch"),
                                              actual), prev)
                 ELSE a
  IN Schedule(EnsureContext(noted, next), c, next, EffectiveTs(a0, c, o.ts))

EnterInterrupt(a0, o, c, irq, act) ==
  LET a == AdvanceCore(a0, c, o.ts)
      k == Activation(a.serial, irq)
      dups == {a.cores[c].ints[i].key : i \in {j \in DOMAIN a.cores[c].ints :
                                                 a.cores[c].ints[j].act = act}}
      noted == TaintContexts(PushIf(dups # {}, a, "duplicate_interrupt_activation"), dups)
      made == EnsureContext(noted, k)
      fresh == IF dups # {} THEN TaintContexts(made, {k}) ELSE made
  IN [fresh EXCEPT !.serial = @ + 1,
                   !.cores[c].ints = Append(@, [irq |-> irq, act |-> act, key |-> k])]

ExitInterrupt(a0, o, c, irq, act) ==
  LET a == AdvanceCore(a0, c, o.ts)
      ts == EffectiveTs(a0, c, o.ts)
      ints == a.cores[c].ints
      hits == {i \in DOMAIN ints : ints[i].act = act /\ ints[i].irq = irq}
      pos == Max(hits)
      removed == SubSeq(ints, pos, Len(ints))
      keys == {removed[i].key : i \in DOMAIN removed}
      noted == IF pos # Len(ints)
                 THEN MarkContexts(PushFact(a, "mismatched_interrupt_exit"), keys)
                 ELSE a
      closed == CloseAll(noted, [i \in DOMAIN removed |-> removed[i].key], ts, o.seq)
      cpu(i) == MapThenSumSet(LAMBDA k : closed.ctx[k].virt, {k \in keys : PublicId(k) = i})
  IN IF hits = {} THEN PushFact(a, "unmatched_interrupt_exit")
     ELSE [closed EXCEPT !.cores[c].ints = SubSeq(@, 1, pos - 1),
                         !.retired = [i \in Irqs |-> @[i] + cpu(i)],
                         !.ctx = [k \in DOMAIN @ \ keys |-> @[k]]]

TraceGap(a0, o, duration, severe) ==
  LET a == MarkAll(AdvanceAll(a0, o.ts))
      end == o.ts + duration
      moved == [a EXCEPT !.cores = [c \in Cores |->
                           IF a.cores[c].last = NoTs THEN a.cores[c]
                           ELSE [a.cores[c] EXCEPT !.last = MaxOf(@, end)]],
                         !.max = MaxOf(@, end),
                         !.prog[o.src].ts = MaxOf(@, end),
                         !.lost = @ \union {<<o.src, o.ts, end>>}]
  IN PushIf(severe, PushFact(moved, "trace_gap"), "trace_overflow")

\* Custom and asynchronous spans share one limit of open entries.
BeginSpan(a, open, duplicate, id) ==
  CASE id \in a[open] -> PushFact(a, duplicate)
    [] id \notin a[open] /\ Cardinality(a.custom) + Cardinality(a.async) >= MaxOpenSpans ->
         PushFact(a, "open_custom_span_limit_exceeded")
    [] OTHER -> [a EXCEPT ![open] = @ \union {id}]

EndSpan(a, open, unmatched, id) ==
  IF id \in a[open] THEN [a EXCEPT ![open] = @ \ {id}] ELSE PushFact(a, unmatched)

\* finish: charge every core to the end, then close what is still open.
FinishAnalysis(a0, ts) ==
  LET a == AdvanceAll(a0, ts)
      close == MaxOf(a.max, ts)
      pending == UNION {{a.cores[c].ints[i].key : i \in DOMAIN a.cores[c].ints} : c \in Cores}
      noted == MarkContexts(PushFacts(a, "unclosed_interrupt", Cardinality(pending)), pending)
      closed == CloseAll(noted, SetToSeq(DOMAIN noted.ctx), close, NoTs)
      spans == PushFacts(closed, "unclosed_span", Cardinality(closed.custom))
      asyncs == PushFacts(spans, "unclosed_async", Cardinality(spans.async))
  IN [asyncs EXCEPT !.custom = {}, !.async = {}]
-----------------------------------------------------------------------------
(* The stream.  A clean stream is ordered in time and numbered without holes *)
(* per source; an anomaly is a repeated or skipped number or a step back of  *)
(* a source (the merge keeps time in order between sources).                 *)

NextSeq(s) == an.prog[s].seq + 1

Clean == {[src |-> s, seq |-> NextSeq(s), ts |-> stream.now + d] :
            s \in TraceSources, d \in 0..MaxStep}

Damaged ==
  IF stream.anomalies >= stream.mix.anomalies THEN {}
  ELSE {[src |-> s, seq |-> NextSeq(s) - 1, ts |-> stream.now] :
          s \in {x \in TraceSources : an.prog[x].seq # NoTs}}
       \union {[src |-> s, seq |-> NextSeq(s) + 1, ts |-> stream.now + MaxStep] :
          s \in {x \in TraceSources : an.prog[x].seq # NoTs}}
       \union {[src |-> s, seq |-> NextSeq(s), ts |-> stream.now - 1] :
                 s \in {x \in TraceSources : stream.now > 0 /\ an.prog[x].ts >= stream.now}}

\* ingest: count, check the order, dispatch; an invalid span is an error.  `odd`
\* marks an observation that contradicts what the analyzer has followed so far.
Ingest(kind, o, odd, after) ==
  /\ result = "running" /\ stream.events < stream.mix.length /\ kind \in stream.mix.kinds
  /\ odd \/ o \notin Clean => stream.anomalies < stream.mix.anomalies
  /\ an' = after
  /\ result' = IF \A i \in DOMAIN after.spans : SpanValid(after.spans[i])
                 THEN "running" ELSE "failed"
  /\ stream' = [stream EXCEPT !.events = @ + 1, !.now = MaxOf(@, o.ts),
                              !.anomalies = @ + IF odd \/ o \notin Clean THEN 1 ELSE 0]

Ordered(o) == CheckSourceOrder(an, o)

OddContext(c, x) ==
  LET run == Running(an.cores[c]) IN run # NoContext /\ PublicId(run) # x

FunctionEnter(o) == \E c \in stream.mix.cores, x \in stream.mix.contexts, f \in Functions :
  Ingest("function", o, OddContext(c, x), EnterFunction(Ordered(o), o, c, x, f))

FunctionExit(o) == \E c \in stream.mix.cores, x \in stream.mix.contexts, f \in Functions :
  Ingest("function", o, OddContext(c, x), ExitFunction(Ordered(o), o, c, x, f))

ContextSwitch(o) ==
  \E c \in stream.mix.cores, next \in Tasks, prev \in {Task(t) : t \in Tasks} \union {NoContext} :
    Ingest("switch", o, prev # an.cores[c].sched,
           SwitchContext(Ordered(o), o, c, prev, Task(next)))

InterruptEnter(o) == \E c \in stream.mix.cores, i \in Irqs, act \in Activations :
  Ingest("interrupt", o, FALSE, EnterInterrupt(Ordered(o), o, c, i, act))

InterruptExit(o) == \E c \in stream.mix.cores, i \in Irqs, act \in Activations :
  Ingest("interrupt", o, FALSE, ExitInterrupt(Ordered(o), o, c, i, act))

\* Sample, Counter and Instant events move the clock of their core.
Tick(o) == \E c \in stream.mix.cores : Ingest("tick", o, FALSE, AdvanceCore(Ordered(o), c, o.ts))

Gap(o) == \E d \in 1..MaxStep, severe \in BOOLEAN :
  Ingest("gap", o, TRUE, TraceGap(Ordered(o), o, d, severe))

SpanBegin(o) == \E id \in SpanIds :
  \/ Ingest("span", o, FALSE, BeginSpan(Ordered(o), "custom", "duplicate_span_begin", id))
  \/ Ingest("span", o, FALSE, BeginSpan(Ordered(o), "async", "duplicate_async_begin", id))

SpanEnd(o) == \E id \in SpanIds :
  \/ Ingest("span", o, FALSE, EndSpan(Ordered(o), "custom", "unmatched_span_end", id))
  \/ Ingest("span", o, FALSE, EndSpan(Ordered(o), "async", "unmatched_async_end", id))

Finish ==
  /\ result = "running"
  /\ an' = FinishAnalysis(an, MaxOf(an.max, 0))
  /\ result' = "finished"
  /\ UNCHANGED stream

AnalysisNext ==
  \/ \E o \in Clean \union Damaged :
       \/ FunctionEnter(o) \/ FunctionExit(o) \/ ContextSwitch(o) \/ InterruptEnter(o)
       \/ InterruptExit(o) \/ Tick(o) \/ Gap(o) \/ SpanBegin(o) \/ SpanEnd(o)
  \/ Finish

AnalysisSpec == AnalysisInit /\ [][AnalysisNext]_analysisVars

-----------------------------------------------------------------------------
(* Properties *)

Spans == {an.spans[i] : i \in DOMAIN an.spans}
Complete == {s \in Spans : ~s.inc}

\* build_hotspots: only complete spans are ranked, and nothing is when the
\* verdict is Invalid.
Ranked == IF Verdict(Kept(an)) = Invalid THEN {} ELSE Complete

\* Ticks between the start and the end of span s in which its context was charged.
TicksOf(s) == {r \in an.ran : r[2] = s.key /\ r[3] >= s.start /\ r[3] < s.end}

\* The active time of a ranked span never exceeds the time its context held a
\* core between the span's start and its end, however tasks, interrupts and
\* cores interleave, and equals it when the context ran on the core that
\* reported the exit: no interval is charged twice, to the wrong context, or
\* lost (finalize_top, credit_execution_interval).  Nor does it overlap an
\* interval its own source reported or left as a gap: the frames open across one
\* are spoiled (check_source_order, trace_gap).  The one exception is a function
\* entered right after a task came to its core and before the core it left, which
\* is charged for the task later, has reported the same moment (`owed`).
RankedSpansAreTrue ==
  result # "failed" =>
    \A s \in Ranked :
      LET held == Cardinality({r[3] : r \in TicksOf(s)}) IN
      /\ s.owed \/ s.active <= held
      /\ ~s.owed /\ {r[1] : r \in TicksOf(s)} \subseteq {s.by} => s.active = held
      /\ \A g \in an.lost : s.src = g[1] => s.end <= g[2] \/ s.start >= g[3]

\* Distinct moments at which context k held some core.
Moments(k) == {r[3] : r \in {x \in an.ran : x[2] = k}}

\* The self times of all spans of a context, incomplete ones included, are
\* disjoint shares of the moments it held a core: together they never exceed
\* them in a report that is not Invalid (child_active_ns in finalize_top).
SelfTimeConserved ==
  Verdict(Kept(an)) # Invalid =>
    \A k \in {s.key : s \in Spans} :
      MapThenSumSet(LAMBDA i : an.spans[i].self,
                    {i \in DOMAIN an.spans : an.spans[i].key = k})
        <= Cardinality(Moments(k))

\* The bounded list of facts never makes a report look better than the full
\* list would: verdict and support of every metric are at most as good, for any
\* declared capabilities (store_health_observation and its sentinel).
TruncationNeverFlatters ==
  /\ Verdict(Kept(an)) >= Verdict(an.all)
  /\ \A m \in Metrics, level \in {Exact, Unavailable} :
       LET cap == [f \in Families |-> level]
       IN Support(cap, Kept(an), m) >= Support(cap, an.all, m)
  /\ Len(an.facts) <= MaxFacts
=============================================================================
