----------------------------- MODULE EventPath ------------------------------
(***************************************************************************)
(* The path of a custom event: the firmware's event API (sdk/c/src/event.c)*)
(* writes wire records into the RAM ring of sdk/c/src/transports.c, the    *)
(* consumer drains the ring into a byte stream, and the host decodes that  *)
(* stream (c_wire.rs) with a wrapping sequence number and a wrapping clock *)
(* (clock.rs).                                                             *)
(*                                                                         *)
(* One producer and one consumer interleave at every shared access.  The   *)
(* host reads the stream after the capture; its state depends on nothing   *)
(* but the records, so a record is decoded in the step that delivers it.   *)
(***************************************************************************)
EXTENDS Integers, Sequences, SequencesExt

CONSTANTS
    Word,         \* 2^32 in the code: the span of sequence numbers and ring positions
    SlotCount,    \* the slots given to t32perf_ram_transport_init
    TickModulus,  \* ClockDomainSpec::timestamp_modulus, what the caller's counter wraps at
    MaxForward,   \* ClockDomainSpec::max_forward_ticks
    Scale,        \* RationalTickScale: nanoseconds [num] for ticks [den]
    InitialSequences,   \* what the firmware passes to t32perf_context_init
    Steps,        \* the ticks that may pass between two events
    MaxEvents,    \* bound: the events the firmware emits
    MaxErrors,    \* bound: the writes the transport fails
    None

ASSUME SizesAssumption ==
    /\ Word \in Nat /\ SlotCount \in 1..((Word \div 2) - 1)
    /\ InitialSequences \subseteq 0..(Word - 1)
    /\ TickModulus \in Nat /\ TickModulus >= 2 /\ MaxForward \in 0..(TickModulus - 1)
    /\ Scale.num \in Nat \ {0} /\ Scale.den \in Nat \ {0}
    /\ Steps \subseteq Nat /\ MaxErrors \in Nat

ASSUME NoneAssumption == None \notin Nat /\ None \notin {"torn", "clock", "order"}

VARIABLES
    next_sequence, pending_dropped,          \* t32perf_context_t
    slots, write_position, read_position,    \* t32perf_ram_transport_t
    writer,                                  \* the producer inside t32perf_emit
    reader,                                  \* the consumer inside t32perf_ram_transport_read
    host,                                    \* CWireObservationSource
    out,                                     \* the observations after the last event but one
    clock,                                   \* the firmware's time and event count
    history                                  \* what the counters cannot show; no code reads it

contextVars == <<next_sequence, pending_dropped>>
ringVars == <<slots, write_position, read_position>>
hostVars == <<host, out>>
vars == <<contextVars, ringVars, writer, reader, hostVars, clock, history>>

Torn == [kind |-> "torn", count |-> 0]    \* a slot while memcpy runs over it

\* A wire record of the call that runs.  id, attempt and tick are history and not on the
\* wire: the event it was written for, and its sequence number and time before they wrap.
Record(kind, count, call) ==
    [kind |-> kind, sequence |-> next_sequence, ticks |-> call.tick % TickModulus,
     count |-> count, id |-> call.event, attempt |-> history.attempts, tick |-> call.tick]

Records ==
    [kind : {"event", "dropped"}, sequence : 0..(Word - 1), ticks : 0..(TickModulus - 1),
     count : 0..(Word - 1), id : Nat, attempt : Nat, tick : Nat]

ASSUME RecordAssumption == None \notin Records

-----------------------------------------------------------------------------
(* The producer: one call of the event API at a time.                      *)

Increment(dropped) == IF dropped = Word - 1 THEN dropped ELSE dropped + 1

\* t32perf_write_record up to the transport callback: the attempt takes a sequence number.
StartWrite(kind, count, call) ==
    /\ writer' = [pc |-> "load", record |-> Record(kind, count, call)]
    /\ next_sequence' = (next_sequence + 1) % Word
    /\ history' = [history EXCEPT !.attempts = @ + 1]

\* t32perf_emit, step ticks after the previous call: a drop report goes first when there
\* is something to report (t32perf_report_dropped).
Emit(step) ==
    /\ writer.pc = "idle"
    /\ clock.event < MaxEvents
    /\ clock' = [event |-> clock.event + 1, tick |-> clock.tick + step]
    /\ IF pending_dropped = 0 THEN StartWrite("event", 0, clock')
                              ELSE StartWrite("dropped", pending_dropped, clock')
    /\ UNCHANGED <<pending_dropped, ringVars, reader, hostVars>>

\* Mutants: a ring one record too full, and a failed drop report that is not counted.
FullTooLate == (write_position - read_position) % Word > SlotCount

CountOwnRecordOnly ==
    /\ writer.pc = "load"
    /\ (write_position - read_position) % Word >= SlotCount
    /\ LET own == writer.record.kind = "event"
       IN  pending_dropped' = IF own THEN Increment(pending_dropped) ELSE pending_dropped
    /\ history' = [history EXCEPT !.dropped = @ + 1]
    /\ writer' = [pc |-> "idle", record |-> None]
    /\ UNCHANGED <<next_sequence, ringVars, reader, hostVars, clock>>

\* The loads at the head of t32perf_ram_transport_write.
IsFull == (write_position - read_position) % Word >= SlotCount

\* FULL: the event is counted as dropped, whether its own record or the drop report
\* before it found no room.
WriteFull ==
    /\ writer.pc = "load"
    /\ IsFull
    /\ pending_dropped' = Increment(pending_dropped)
    /\ history' = [history EXCEPT !.dropped = @ + 1]
    /\ writer' = [pc |-> "idle", record |-> None]
    /\ UNCHANGED <<next_sequence, ringVars, reader, hostVars, clock>>

\* ERROR: a transport other than the ring may fail; nothing is counted.
WriteError ==
    /\ writer.pc = "load"
    /\ history.errors < MaxErrors
    /\ history' = [history EXCEPT !.errors = @ + 1]
    /\ writer' = [pc |-> "idle", record |-> None]
    /\ UNCHANGED <<contextVars, ringVars, reader, hostVars, clock>>

WriteBegin ==
    /\ writer.pc = "load"
    /\ ~IsFull
    /\ slots' = [slots EXCEPT ![write_position % SlotCount] = Torn]
    /\ writer' = [writer EXCEPT !.pc = "copy"]
    /\ UNCHANGED <<contextVars, write_position, read_position, reader, hostVars, clock, history>>

WriteCopy ==
    /\ writer.pc = "copy"
    /\ slots' = [slots EXCEPT ![write_position % SlotCount] = writer.record]
    /\ writer' = [writer EXCEPT !.pc = "publish"]
    /\ UNCHANGED <<contextVars, write_position, read_position, reader, hostVars, clock, history>>

\* The store of write_position.  After an accepted report the event itself is written.
WritePublish ==
    /\ writer.pc = "publish"
    /\ write_position' = (write_position + 1) % Word
    /\ \/ /\ writer.record.kind = "dropped"
          /\ pending_dropped' = 0
          /\ StartWrite("event", 0, clock)
       \/ /\ writer.record.kind = "event"
          /\ writer' = [pc |-> "idle", record |-> None]
          /\ UNCHANGED <<contextVars, history>>
    /\ UNCHANGED <<slots, read_position, reader, hostVars, clock>>

-----------------------------------------------------------------------------
(* The host: CWireObservationSource::read_next on one record.              *)

\* TimestampUnwrapper::expand.
Expanded(raw) ==
    IF host.last_expanded = None THEN raw
    ELSE LET candidate == (host.last_expanded \div TickModulus) * TickModulus + raw
         IN  IF candidate < host.last_expanded THEN candidate + TickModulus ELSE candidate

StepTooLarge(raw) ==
    host.last_expanded # None /\ Expanded(raw) - host.last_expanded > MaxForward

\* TimestampNormalizer::normalize, RationalTickScale::ticks_to_ns; the first record is
\* the origin, so no later one lies before it.
Nanoseconds(ticks) ==
    (ticks \div Scale.den) * Scale.num + ((ticks % Scale.den) * Scale.num) \div Scale.den

Timestamp(raw) ==
    Nanoseconds(Expanded(raw) - IF host.origin = None THEN Expanded(raw) ELSE host.origin)

\* expand_sequence.
Missing(raw) ==
    IF host.last_raw_sequence = None THEN 0 ELSE (raw - host.last_raw_sequence - 1) % Word

\* Mutant: the epoch forgets that the sequence wraps.
SameEpoch(raw) == host.sequence_epoch

OutOfOrder(raw) == Missing(raw) >= Word \div 2

Epoch(raw) ==
    IF host.last_raw_sequence # None /\ raw < host.last_raw_sequence
    THEN host.sequence_epoch + Word ELSE host.sequence_epoch

\* Mutant: one missing record is not worth a gap.
GapAfterTwo(r) ==
    LET actual == [kind |-> IF r.kind = "dropped" THEN "gap" ELSE "event",
                   source_seq |-> 2 * (Epoch(r.sequence) + r.sequence) + 1,
                   ts_ns |-> Timestamp(r.ticks), record |-> r]
        gap == [actual EXCEPT !.kind = "gap", !.source_seq = @ - 1]
    IN  IF r.kind # "dropped" /\ Missing(r.sequence) > 1 THEN <<gap, actual>> ELSE <<actual>>

\* The observations one record becomes: a record after a loss is preceded by a gap.
Observations(r) ==
    LET actual == [kind |-> IF r.kind = "dropped" THEN "gap" ELSE "event",
                   source_seq |-> 2 * (Epoch(r.sequence) + r.sequence) + 1,
                   ts_ns |-> Timestamp(r.ticks), record |-> r]
        gap == [actual EXCEPT !.kind = "gap", !.source_seq = @ - 1]
    IN  IF r.kind # "dropped" /\ Missing(r.sequence) # 0 THEN <<gap, actual>> ELSE <<actual>>

\* out starts again at the last event.
SinceEvent == IF out # <<>> /\ Last(out).kind = "event" THEN <<Last(out)>> ELSE out

Stop(reason) ==
    /\ host' = [host EXCEPT !.stopped = reason]
    /\ UNCHANGED out

\* A record the host reads; after an error it reads no more.
Decode(r) ==
    \/ host.stopped # None /\ UNCHANGED hostVars
    \/ host.stopped = None /\ StepTooLarge(r.ticks) /\ Stop("clock")
    \/ host.stopped = None /\ ~StepTooLarge(r.ticks) /\ OutOfOrder(r.sequence) /\ Stop("order")
    \/ /\ host.stopped = None /\ ~StepTooLarge(r.ticks) /\ ~OutOfOrder(r.sequence)
       /\ host' = [last_expanded |-> Expanded(r.ticks),
                   origin |-> IF host.origin = None THEN Expanded(r.ticks) ELSE host.origin,
                   last_raw_sequence |-> r.sequence,
                   sequence_epoch |-> Epoch(r.sequence),
                   stopped |-> None]
       /\ out' = SinceEvent \o Observations(r)

-----------------------------------------------------------------------------
(* The consumer: t32perf_ram_transport_read.                               *)

\* t32perf_ram_transport_peek finds a record.
ReadPeek ==
    /\ reader.pc = "idle"
    /\ read_position # write_position
    /\ reader' = [pc |-> "copy", record |-> None]
    /\ UNCHANGED <<contextVars, ringVars, writer, hostVars, clock, history>>

ReadCopy ==
    /\ reader.pc = "copy"
    /\ reader' = [pc |-> "pop", record |-> slots[read_position % SlotCount]]
    /\ UNCHANGED <<contextVars, ringVars, writer, hostVars, clock, history>>

\* The distance from the last record delivered that a wrapping counter cannot show.
Aliases(r) ==
    /\ history.last # None
    /\ \/ r.attempt - history.last.attempt > Word
       \/ r.tick - history.last.tick >= TickModulus

\* t32perf_ram_transport_pop; the record goes to the stream and so to the host.  A torn
\* record is not a record the host can decode.
ReadPop ==
    /\ reader.pc = "pop"
    /\ read_position' = (read_position + 1) % Word
    /\ reader' = [pc |-> "idle", record |-> None]
    /\ \/ /\ reader.record.kind = "torn"
          /\ host' = [host EXCEPT !.stopped = "torn"]
          /\ UNCHANGED <<out, history>>
       \/ /\ reader.record.kind # "torn"
          /\ Decode(reader.record)
          /\ history' = [history EXCEPT !.last = reader.record,
                                  !.first = IF @ = None THEN reader.record ELSE @,
                                  !.reported = @ + reader.record.count,
                                  !.aliased = @ \/ Aliases(reader.record)]
    /\ UNCHANGED <<contextVars, slots, write_position, writer, clock>>

-----------------------------------------------------------------------------

Init ==
    /\ next_sequence \in InitialSequences
    /\ pending_dropped = 0
    /\ slots = [i \in 0..(SlotCount - 1) |-> Torn]
    /\ write_position = 0 /\ read_position = 0
    /\ writer = [pc |-> "idle", record |-> None]
    /\ reader = [pc |-> "idle", record |-> None]
    /\ host = [last_expanded |-> None, origin |-> None, last_raw_sequence |-> None,
               sequence_epoch |-> 0, stopped |-> None]
    /\ out = <<>>
    /\ clock = [event |-> 0, tick |-> 0]
    /\ history = [attempts |-> next_sequence, dropped |-> 0, errors |-> 0, reported |-> 0,
               aliased |-> FALSE, first |-> None, last |-> None]

Next ==
    \/ \E step \in Steps : Emit(step)
    \/ WriteFull \/ WriteError \/ WriteBegin \/ WriteCopy \/ WritePublish
    \/ ReadPeek \/ ReadCopy \/ ReadPop

Spec == Init /\ [][Next]_vars

-----------------------------------------------------------------------------
(* Properties *)

\* The records between the two positions, oldest first.
Held ==
    [i \in 1..((write_position - read_position) % Word) |->
        slots[((read_position + i - 1) % Word) % SlotCount]]

Queue == INSTANCE EventQueue WITH queue <- Held, Capacity <- SlotCount

\* The ring (t32perf_ram_transport_write and _read, with every interleaving of the two)
\* is a bounded first-in first-out queue, across the wrap of its positions.
RingIsQueue == Queue!Spec

\* Whenever the host has two events in its stream and an event between them is missing,
\* there is a TraceGap between the two: full ring, failed report and transport error alike.
\* And nothing else looks like a loss: a record never arrives torn, twice or out of order,
\* and the host stops for its sequence only after half of the numbers were really lost.
LossIsAnnounced ==
    /\ (out # <<>> /\ Head(out).kind = "event" /\ Last(out).kind = "event") =>
         \/ Last(out).record.id <= Head(out).record.id + 1
         \/ \E i \in DOMAIN out : out[i].kind = "gap"
    /\ host.stopped # "torn"
    /\ host.stopped = "order" => history.dropped + history.errors >= Word \div 2

\* Counts reported to the host, on the way and still to be reported add up to the events
\* dropped for want of room, up to the saturation of the counter.
Reports(s) ==
    LET sum[n \in 0..Len(s)] == IF n = 0 THEN 0 ELSE sum[n - 1] + s[n].count
    IN  sum[Len(s)]

DropCountExact ==
    history.dropped < Word =>
        history.reported + Reports(Held) + pending_dropped = history.dropped

\* Times and sequence numbers of the host's observations never decrease, never run ahead of
\* the firmware, and are the firmware's own as long as no counter ran a full turn between
\* two delivered records.
TimelineIsTrue ==
    \A i \in DOMAIN out :
        LET r == out[i].record
            elapsed == Nanoseconds(r.tick - history.first.tick)
            count == history.first.sequence + r.attempt - history.first.attempt
            number == 2 * count + IF out[i].kind = "gap" /\ r.kind = "event" THEN 0 ELSE 1
        IN  /\ out[i].ts_ns <= elapsed
            /\ out[i].source_seq <= number
            /\ ~history.aliased => out[i].ts_ns = elapsed /\ out[i].source_seq = number
            /\ i > 1 => /\ out[i - 1].ts_ns <= out[i].ts_ns
                        /\ out[i - 1].source_seq < out[i].source_seq
=============================================================================
