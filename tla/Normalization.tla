--------------------------- MODULE Normalization ----------------------------
(***************************************************************************)
(* Normalization of several sources into one observation stream: the k-way *)
(* merge of merge.rs over streams that are each already sorted, and the    *)
(* canonical writer behind it (normalize.rs normalize_captured, ndjson.rs, *)
(* order.rs).  Records are pulled one at a time; the artifact is committed *)
(* when every source is exhausted and dropped at the first error.          *)
(***************************************************************************)
EXTENDS Integers, Sequences, SequencesExt, FiniteSets, FiniteSetsExt, Functions

CONSTANTS
    Sources,    \* the inputs, each with its position in the configuration: 1..n
    Streams,    \* the streams an input may hold
    Domains,    \* the clock domains the inputs may declare
    Absent,     \* no record, no key, no identifier: Option::None
    Bad         \* a place in a stream where the source itself fails

ASSUME SourcesAssumption ==
    Sources # {} /\ IsFiniteSet(Sources) /\ Sources = 1..Cardinality(Sources)

SourceRecords(names) == [name : names, seq : Nat, ts : Nat, key : Nat \cup {Absent}]

\* Observations carry the identifier of their input, or (canonical inputs only) one that
\* several inputs share, here 0.
Names == Sources \cup {0}

ASSUME StreamsAssumption ==
    /\ Streams \subseteq Seq(SourceRecords({Absent, 0}) \cup {Bad})
    /\ Absent \notin Nat /\ Absent # Bad
    /\ Absent \notin SourceRecords(Names) /\ Bad \notin SourceRecords(Names)

VARIABLES
    input,       \* per source, what it has not delivered yet
    whole,       \* per source, all it holds (history)
    domain,      \* per source, SourceDescriptor::clock_domain
    heads,       \* KWayMerge::heads
    states,      \* KWayMerge::states
    deferred,    \* KWayMerge::deferred_error
    writerOrder, \* NdjsonObservationWriter::order
    written,     \* the observations written, each with the source it came from
    status       \* "opening", "reading", "complete" or "failed"

mergeVars ==
    <<input, whole, domain, heads, states, deferred, writerOrder, written, status>>

-----------------------------------------------------------------------------
(* ObservationOrderValidator *)

\* A record gets the identifier of its input, unless it carries the shared one.
Identified(s, stream) ==
    [i \in DOMAIN stream |->
        IF stream[i] = Bad \/ stream[i].name = 0
        THEN stream[i] ELSE [stream[i] EXCEPT !.name = s]]

NoOrder == [sequences |-> [n \in Names |-> Absent], timestamps |-> [n \in Names |-> Absent],
            global |-> Absent]

\* observe accepts r: its sequence is above, and its time not below, what went before.
InOrder(order, r) ==
    /\ order.sequences[r.name] # Absent => r.seq > order.sequences[r.name]
    /\ order.timestamps[r.name] # Absent => r.ts >= order.timestamps[r.name]
    /\ order.global # Absent => r.ts >= order.global

Observe(order, r) ==
    [sequences |-> [order.sequences EXCEPT ![r.name] = r.seq],
     timestamps |-> [order.timestamps EXCEPT ![r.name] = r.ts],
     global |-> r.ts]

-----------------------------------------------------------------------------
(* KWayMerge *)

NoState == [order |-> NoOrder, last_timestamp |-> Absent, last_order_key |-> Absent]

\* validate_source_record.
ValidRecord(state, r) ==
    /\ state.last_timestamp # Absent => r.ts >= state.last_timestamp
    /\ (state.last_timestamp = r.ts /\ state.last_order_key # Absent /\ r.key # Absent)
          => r.key > state.last_order_key
    /\ InOrder(state.order, r)

Validated(state, r) ==
    [order |-> Observe(state.order, r), last_timestamp |-> r.ts, last_order_key |-> r.key]

\* next_observation of one source: Absent at its end.
Pulled(s) == IF input[s] = <<>> THEN Absent ELSE Head(input[s])
Rest(s) == IF input[s] = <<>> THEN <<>> ELSE Tail(input[s])

Refused(s) == Pulled(s) # Absent /\ (Pulled(s) = Bad \/ ~ValidRecord(states[s], Pulled(s)))

\* KWayMerge::new: one clock domain, and one valid record (or none) from each source.
Open ==
    /\ status = "opening"
    /\ IF (\E s \in Sources : domain[s] # domain[1]) \/ (\E s \in Sources : Refused(s))
       THEN status' = "failed" /\ UNCHANGED <<input, heads, states>>
       ELSE /\ status' = "reading"
            /\ heads' = [s \in Sources |-> Pulled(s)]
            /\ input' = [s \in Sources |-> Rest(s)]
            /\ states' = [s \in Sources |-> IF Pulled(s) = Absent THEN states[s]
                                            ELSE Validated(states[s], Pulled(s))]
    /\ UNCHANGED <<whole, domain, deferred, writerOrder, written>>

Live == {s \in Sources : heads[s] # Absent}

\* select_head: the sources that share the earliest time.
Tied ==
    LET minimum == Min({heads[s].ts : s \in Live})
    IN  {s \in Live : heads[s].ts = minimum}

\* Mutant: equal keys are no conflict.
KeyAbsent == Cardinality(Tied) > 1 /\ \E s \in Tied : heads[s].key = Absent

Ambiguous ==
    /\ Cardinality(Tied) > 1
    /\ \/ \E s \in Tied : heads[s].key = Absent
       \/ ~IsInjective([s \in Tied |-> heads[s].key])

Selected ==
    IF Cardinality(Tied) = 1 THEN CHOOSE s \in Tied : TRUE
    ELSE CHOOSE s \in Tied : \A t \in Tied : heads[s].key <= heads[t].key

Fail ==
    /\ status' = "failed"
    /\ UNCHANGED <<input, heads, states, deferred, writerOrder, written>>

\* Mutant: the refused record ends its source instead of failing the next pull.
AdvanceSilently(s) ==
    /\ input' = [input EXCEPT ![s] = Rest(s)]
    /\ heads' = [heads EXCEPT ![s] = IF Refused(s) THEN Absent ELSE Pulled(s)]
    /\ states' = IF Pulled(s) = Absent \/ Refused(s) THEN states
                 ELSE [states EXCEPT ![s] = Validated(@, Pulled(s))]
    /\ UNCHANGED deferred

\* The selected head is written and its source asked for the next record; a record the
\* source refuses fails the next pull.
Advance(s) ==
    /\ input' = [input EXCEPT ![s] = Rest(s)]
    /\ heads' = [heads EXCEPT ![s] = IF Pulled(s) = Bad THEN Absent ELSE Pulled(s)]
    /\ deferred' = Refused(s)
    /\ states' = IF Pulled(s) = Absent \/ Refused(s) THEN states
                 ELSE [states EXCEPT ![s] = Validated(@, Pulled(s))]

Write(s) ==
    IF InOrder(writerOrder, heads[s])
    THEN /\ writerOrder' = Observe(writerOrder, heads[s])
         /\ written' = Append(written, [from |-> s, record |-> heads[s]])
         /\ UNCHANGED status
    ELSE status' = "failed" /\ UNCHANGED <<writerOrder, written>>

\* One turn of the loop in normalize_captured.
Pull ==
    /\ status = "reading"
    /\ \/ deferred /\ Fail
       \/ /\ ~deferred /\ Live = {}
          /\ status' = "complete"
          /\ UNCHANGED <<input, heads, states, deferred, writerOrder, written>>
       \/ ~deferred /\ Live # {} /\ Ambiguous /\ Fail
       \/ /\ ~deferred /\ Live # {} /\ ~Ambiguous
          /\ Advance(Selected)
          /\ Write(Selected)
    /\ UNCHANGED <<whole, domain>>

-----------------------------------------------------------------------------

MergeInit ==
    /\ \E f \in [Sources -> Streams] : input = [s \in Sources |-> Identified(s, f[s])]
    /\ whole = input
    /\ domain \in [Sources -> Domains]
    /\ heads = [s \in Sources |-> Absent]
    /\ states = [s \in Sources |-> NoState]
    /\ deferred = FALSE
    /\ writerOrder = NoOrder
    /\ written = <<>>
    /\ status = "opening"

MergeNext == Open \/ Pull

MergeSpec == MergeInit /\ [][MergeNext]_mergeVars

-----------------------------------------------------------------------------
(* Properties *)

\* Records of one input at one time have keys, or none of them has: every source does so
\* but explicit CSV, where the order key is an optional column.
Uniform(stream) ==
    \A i, j \in DOMAIN stream :
        (stream[i] # Bad /\ stream[j] # Bad /\ stream[i].ts = stream[j].ts) =>
            (stream[i].key = Absent <=> stream[j].key = Absent)

\* Observations of different sources at one time are committed only in the order of
\* explicit keys, all present and all different; otherwise normalization fails.
TiesFollowKeys ==
    status = "complete" =>
        \A i, j \in DOMAIN written :
            (/\ i < j /\ written[i].from # written[j].from
             /\ written[i].record.ts = written[j].record.ts) =>
                /\ written[i].record.key # Absent /\ written[j].record.key # Absent
                /\ written[i].record.key < written[j].record.key

\* How many of the first n observations written are from source s.
Contributed(s, n) == Cardinality({i \in 1..n : written[i].from = s})

\* The stream holds the records of each source one after the other, from the first one on,
\* and all in order of time; a committed stream holds all of them, so a source that fails at
\* any place, the last one included, never leads to a commit.
NothingMissing ==
    /\ \A i \in DOMAIN written :
            written[i].record = whole[written[i].from][Contributed(written[i].from, i)]
    /\ \A i \in 2..Len(written) : written[i - 1].record.ts <= written[i].record.ts
    /\ status = "complete" =>
            \A s \in Sources : Contributed(s, Len(written)) = Len(whole[s])
=============================================================================
