---------------------------- MODULE CaptureProofs ----------------------------
(***************************************************************************)
(* What two ways of observing the target promise, and the merge of what    *)
(* was observed, for every value of the constants.  The three parts share  *)
(* no state.                                                               *)
(*                                                                         *)
(* Part one, the event path.  The ring is a bounded queue although its two *)
(* sides interleave at every access: the producer writes only the slot no  *)
(* held record is in, which needs the slots to divide the span of the      *)
(* positions (SlotsDivideWord), and the consumer's copy stays the oldest   *)
(* record.  The records delivered, held and being written form one stream, *)
(* in which what lies between two neighbours was lost and counted, or was  *)
(* lost to a transport error; so the host's wrapped distances are lower    *)
(* bounds of the true ones, exact until a counter goes round, and a loss   *)
(* it does not see as a jump of the sequence comes with a drop report.     *)
(* What a report carries is all that was pending when it was written, so   *)
(* the counts add up.                                                      *)
(*                                                                         *)
(* Part two, stack sampling.  The target is halted only after the intent   *)
(* is on disk, and an event that takes the intent back is written only     *)
(* when the target is known not to be halted.  Neither the order of events *)
(* nor the marker matters: what is inductive ties the step of the call to  *)
(* the last halt in the journal and to the target.                         *)
(*                                                                         *)
(* Part three, the merge.  The stream of every source is what was written  *)
(* of it, then its head, then what the source still holds; and every head  *)
(* comes after all that was written, in time and, against the records of   *)
(* other sources at its time, by key.  The last needs the records of one   *)
(* time in one stream to have keys all or none (KeysUniform): a record     *)
(* without a key behind one with a key would be accepted after a tie that  *)
(* the key decided.                                                        *)
(***************************************************************************)
EXTENDS EventPath, StackSampling, Normalization, SequenceTheorems, FiniteSetTheorems,
        WellFoundedInduction, TLAPS

-----------------------------------------------------------------------------
(* PART ONE: THE EVENT PATH                                                *)
(* The ring                                                                *)

Count == (write_position - read_position) % Word

\* The slot k places behind the oldest record.
SlotAt(k) == ((read_position + k) % Word) % SlotCount

\* The record delivered last, and behind it the records in the ring.
Stream(k) == IF k = 0 THEN history.last ELSE slots[SlotAt(k - 1)]

\* The slots are used evenly across the wrap of the positions.
SlotsDivideWord == Word % SlotCount = 0

Observed == [kind : {"event", "gap"}, source_seq : Nat, ts_ns : Nat, record : Records]

Idle == [pc |-> "idle", record |-> None]

Histories ==
    [attempts : Nat, dropped : Nat, errors : Nat, reported : Nat, aliased : BOOLEAN,
     first : Records \cup {None}, last : Records \cup {None}]

TypeOK ==
    /\ next_sequence \in 0..(Word - 1)
    /\ pending_dropped \in 0..(Word - 1)
    /\ slots \in [0..(SlotCount - 1) -> Records \cup {Torn}]
    /\ write_position \in 0..(Word - 1)
    /\ read_position \in 0..(Word - 1)
    /\ writer \in {Idle} \cup [pc : {"load", "copy", "publish"}, record : Records]
    /\ reader \in {Idle, [pc |-> "copy", record |-> None]}
                  \cup [pc : {"pop"}, record : Records]
    /\ clock \in [event : Nat, tick : Nat]
    /\ history \in Histories

RingInv ==
    /\ Count <= SlotCount
    /\ writer.pc \in {"copy", "publish"} => Count < SlotCount
    /\ writer.pc = "publish" => slots[write_position % SlotCount] = writer.record
    /\ \A k \in 1..Count : Stream(k) \in Records
    /\ reader.pc # "idle" => Count > 0
    /\ reader.pc = "pop" => reader.record = Stream(1)

-----------------------------------------------------------------------------
(* The stream *)

Lost == history.dropped + history.errors

\* b may come behind a: what is missing between the two was lost, and between two events
\* it was lost to transport errors alone, for anything else is reported first.
Follows(a, b, lost, errors) ==
    a # None =>
        /\ a.attempt < b.attempt
        /\ b.attempt - a.attempt - 1 <= lost
        /\ a.kind = "event" /\ b.kind = "event" => b.attempt - a.attempt - 1 <= errors
        /\ b.attempt = a.attempt + 1 => b.id <= a.id + 1
        /\ a.tick <= b.tick

Stamped(r) == r.sequence = r.attempt % Word /\ r.ticks = r.tick % TickModulus

InSequence(k) ==
    /\ Stamped(Stream(k))
    /\ Follows(Stream(k - 1), Stream(k), Lost, history.errors)

Newest == Stream(Count)

WriterInv ==
    /\ next_sequence = history.attempts % Word
    /\ writer.pc # "idle" =>
        /\ Stamped(writer.record)
        /\ Follows(Newest, writer.record, Lost, history.errors)
        /\ writer.record.attempt = history.attempts - 1
        /\ writer.record.id = clock.event
        /\ writer.record.tick = clock.tick
        /\ writer.record.kind = "dropped" => pending_dropped > 0

NewestInv ==
    writer.pc = "idle" /\ Newest # None =>
        /\ Newest.attempt < history.attempts
        /\ history.attempts - Newest.attempt - 1 <= Lost
        /\ Newest.kind = "event" /\ pending_dropped = 0 =>
                history.attempts - Newest.attempt - 1 <= history.errors
        /\ history.attempts = Newest.attempt + 1 => clock.event <= Newest.id
        /\ Newest.tick <= clock.tick

StreamInv ==
    /\ \A k \in 1..Count : InSequence(k)
    /\ WriterInv
    /\ NewestInv

-----------------------------------------------------------------------------
(* The host *)

HostType ==
    /\ out \in Seq(Observed)
    /\ host \in [last_expanded : Nat \cup {None}, origin : Nat \cup {None},
                 last_raw_sequence : (0..(Word - 1)) \cup {None}, sequence_epoch : Nat,
                 stopped : {None, "clock", "order"}]

\* Nothing was delivered and nothing decoded, or something of both.
HostStarts ==
    /\ history.last = None <=> history.first = None
    /\ history.last = None =>
        /\ host = [last_expanded |-> None, origin |-> None, last_raw_sequence |-> None,
                   sequence_epoch |-> 0, stopped |-> None]
        /\ out = <<>>
    /\ history.last # None =>
        /\ host.last_expanded # None /\ host.origin # None /\ host.last_raw_sequence # None
        /\ Stamped(history.last)

\* The host's time since the first record, and its number of the last one.
Elapsed == host.last_expanded - host.origin
Number == host.sequence_epoch + host.last_raw_sequence

\* A host that reads knows the record delivered last, and its time and number are at most
\* the firmware's.
HostFollows ==
    history.last # None /\ host.stopped = None =>
        /\ host.last_raw_sequence = history.last.sequence
        /\ host.last_expanded % TickModulus = history.last.ticks
        /\ Elapsed >= 0
        /\ Elapsed <= history.last.tick - history.first.tick
        /\ Number <= history.first.sequence + history.last.attempt - history.first.attempt
        /\ ~history.aliased =>
            /\ Elapsed = history.last.tick - history.first.tick
            /\ Number = history.first.sequence + history.last.attempt - history.first.attempt

\* Its last observation is that record.
OutFollows ==
    history.last # None /\ host.stopped = None =>
        /\ out # <<>>
        /\ out[Len(out)].record = history.last
        /\ out[Len(out)].kind = "event" <=> history.last.kind = "event"
        /\ out[Len(out)].ts_ns = Nanoseconds(Elapsed)
        /\ out[Len(out)].source_seq = 2 * Number + 1

OrderLost == host.stopped = "order" => Lost >= Word \div 2

HostInv ==
    /\ HostType
    /\ HostStarts
    /\ HostFollows
    /\ OutFollows
    /\ OrderLost
    /\ TimelineIsTrue

\* The first conjunct of LossIsAnnounced.
GapBetween ==
    (out # <<>> /\ Head(out).kind = "event" /\ Last(out).kind = "event") =>
         \/ Last(out).record.id <= Head(out).record.id + 1
         \/ \E i \in DOMAIN out : out[i].kind = "gap"

\* Nothing but a report tells of Word lost numbers in a row, and a transport error is not
\* reported.
FewErrors == MaxErrors < Word

LossInv == history.errors <= MaxErrors /\ GapBetween

IInv == TypeOK /\ RingInv /\ StreamInv /\ HostInv

-----------------------------------------------------------------------------
(* Least numbers, which stand in for induction *)

\* A set of numbers that is not empty has a least one.
LEMMA LeastNumber ==
    ASSUME NEW S \in SUBSET Nat, S # {}
    PROVE  \E m \in S : \A k \in S : m <= k
<1>. DEFINE Less == {p \in Nat \X Nat : p[1] < p[2]}
<1>1. IsWellFoundedOn(Less, Nat)
  BY NatLessThanWellFounded DEF OpToRel
<1>. HIDE DEF Less
<1>2. PICK m \in S : \A k \in S : <<k, m>> \notin Less
  BY <1>1, WFMin
<1>3. ASSUME NEW k \in S
      PROVE  m <= k
  <2>1. k \in Nat /\ m \in Nat
    OBVIOUS
  <2>2. k < m => <<k, m>> \in Less
    BY <2>1 DEF Less
  <2>. QED
    BY <1>2, <2>1, <2>2
<1>. QED
  BY <1>3

-----------------------------------------------------------------------------
(* Arithmetic of wrapping positions *)

LEMMA Sizes ==
    /\ Word \in Nat \ {0} /\ SlotCount \in Nat \ {0} /\ SlotCount + 1 < Word
    /\ Word \div 2 \in Nat /\ 0 < Word \div 2 /\ Word \div 2 < Word
    /\ TickModulus \in Nat \ {0} /\ TickModulus > 1
BY SizesAssumption DEF SizesAssumption

LEMMA Division ==
    ASSUME NEW n \in Nat \ {0}, NEW x \in Int
    PROVE  x % n \in 0..(n - 1) /\ x = (x \div n) * n + (x % n) /\ x \div n \in Int
OBVIOUS

LEMMA Remainder ==
    ASSUME NEW n \in Nat \ {0}, NEW q \in Int, NEW m \in 0..(n - 1)
    PROVE  (q * n + m) % n = m /\ (q * n + m) \div n = q
OBVIOUS

LEMMA Difference ==
    ASSUME NEW w \in 0..(Word - 1), NEW r \in 0..(Word - 1)
    PROVE  (w - r) % Word = IF w >= r THEN w - r ELSE w - r + Word
BY Sizes

LEMMA Advanced ==
    ASSUME NEW r \in 0..(Word - 1), NEW k \in 0..Word
    PROVE  (r + k) % Word = IF r + k < Word THEN r + k ELSE r + k - Word
BY Sizes

LEMMA Wrapped ==
    ASSUME SlotsDivideWord, NEW x \in Nat
    PROVE  (x + Word) % SlotCount = x % SlotCount
<1>1. PICK n \in Int : Word = n * SlotCount
  <2>1. Word \in Int /\ SlotCount \in Nat \ {0}
    BY Sizes
  <2>2. Word \div SlotCount \in Int
        /\ Word = (Word \div SlotCount) * SlotCount + (Word % SlotCount)
    BY <2>1, Division
  <2>3. QED
    BY <2>1, <2>2 DEF SlotsDivideWord
<1>2. PICK q \in Int, m \in 0..(SlotCount - 1) : x = q * SlotCount + m
  <2>1. x \in Int /\ SlotCount \in Nat \ {0}
    BY Sizes
  <2>2. x % SlotCount \in 0..(SlotCount - 1) /\ x \div SlotCount \in Int
        /\ x = (x \div SlotCount) * SlotCount + (x % SlotCount)
    BY <2>1, Division
  <2>3. QED
    BY <2>2
<1>3. x + Word = (q + n) * SlotCount + m /\ q + n \in Int
  BY <1>1, <1>2, Sizes
<1>4. QED
  BY <1>2, <1>3, Sizes, Remainder

\* The slots of two positions less than SlotCount apart are different.
LEMMA SlotsDiffer ==
    ASSUME SlotsDivideWord, NEW r \in 0..(Word - 1),
           NEW a \in 0..(SlotCount - 1), NEW b \in 0..(SlotCount - 1), a < b
    PROVE  ((r + a) % Word) % SlotCount # ((r + b) % Word) % SlotCount
<1> DEFINE Slot(k) == ((r + k) % Word) % SlotCount
<1>1. \A k \in 0..(SlotCount - 1) : Slot(k) = (r + k) % SlotCount
  <2> SUFFICES ASSUME NEW k \in 0..(SlotCount - 1) PROVE Slot(k) = (r + k) % SlotCount
    OBVIOUS
  <2>1. k \in 0..Word
    BY Sizes
  <2>2. CASE r + k < Word
    BY <2>1, <2>2, Advanced
  <2>3. CASE r + k >= Word
    <3>1. (r + k) % Word = r + k - Word
      <4>1. r + k >= Word
        BY <2>3
      <4>2. (r + k) % Word = IF r + k < Word THEN r + k ELSE r + k - Word
        BY <2>1, Advanced
      <4>3. ~(r + k < Word)
        BY <4>1, <2>1, Sizes
      <4>4. QED
        BY <4>2, <4>3
    <3>2. r + k - Word \in Nat
      BY <2>1, <2>3, Sizes
    <3>3. ((r + k - Word) + Word) % SlotCount = (r + k - Word) % SlotCount
      BY <3>2, Wrapped
    <3>4. (r + k - Word) + Word = r + k
      BY <2>1, Sizes
    <3>5. QED
      BY <3>1, <3>3, <3>4
  <2>4. QED
    BY <2>1, <2>2, <2>3, Sizes
<1>2. PICK q \in Int, m \in 0..(SlotCount - 1) : r = q * SlotCount + m
  <2>1. r \in Int /\ SlotCount \in Nat \ {0}
    BY Sizes
  <2>2. r % SlotCount \in 0..(SlotCount - 1) /\ r \div SlotCount \in Int
        /\ r = (r \div SlotCount) * SlotCount + (r % SlotCount)
    BY <2>1, Division
  <2>3. QED
    BY <2>2
<1>3. \A k \in 0..(SlotCount - 1) :
        (r + k) % SlotCount = IF m + k < SlotCount THEN m + k ELSE m + k - SlotCount
  <2> SUFFICES ASSUME NEW k \in 0..(SlotCount - 1)
               PROVE  (r + k) % SlotCount = IF m + k < SlotCount THEN m + k ELSE m + k - SlotCount
    OBVIOUS
  <2>1. CASE m + k < SlotCount
    <3>1. r + k = q * SlotCount + (m + k) /\ m + k \in 0..(SlotCount - 1)
      BY <1>2, <2>1, Sizes
    <3>2. (q * SlotCount + (m + k)) % SlotCount = m + k
      BY <3>1, Remainder, Sizes
    <3>3. QED
      BY <3>1, <3>2, <2>1
  <2>2. CASE m + k >= SlotCount
    <3>1. r + k = (q + 1) * SlotCount + (m + k - SlotCount)
          /\ m + k - SlotCount \in 0..(SlotCount - 1)
      BY <1>2, <2>2, Sizes
    <3>2. ((q + 1) * SlotCount + (m + k - SlotCount)) % SlotCount = m + k - SlotCount
      <4>1. q + 1 \in Int /\ SlotCount \in Nat \ {0}
        BY Sizes
      <4>2. QED
        BY <4>1, <3>1, Remainder
    <3>3. QED
      BY <3>1, <3>2, <2>2, Sizes
  <2>3. QED
    BY <2>1, <2>2, Sizes
<1>4. Slot(a) = (r + a) % SlotCount /\ Slot(b) = (r + b) % SlotCount
  BY <1>1
<1>5. /\ (r + a) % SlotCount = IF m + a < SlotCount THEN m + a ELSE m + a - SlotCount
      /\ (r + b) % SlotCount = IF m + b < SlotCount THEN m + b ELSE m + b - SlotCount
  BY <1>3
<1>6. (r + a) % SlotCount # (r + b) % SlotCount
  BY <1>5, Sizes
<1>7. QED
  BY <1>4, <1>6

-----------------------------------------------------------------------------
(* The ring as the stream sees it *)

LEMMA RingBounds ==
    ASSUME TypeOK
    PROVE  /\ Count \in 0..(Word - 1)
           /\ \A k \in Nat : SlotAt(k) \in 0..(SlotCount - 1)
           /\ SlotAt(0) = read_position % SlotCount
<1>1. write_position \in 0..(Word - 1) /\ read_position \in 0..(Word - 1)
  BY DEF TypeOK
<1>2. Count \in 0..(Word - 1)
  BY <1>1, Sizes, Difference DEF Count
<1>3. ASSUME NEW k \in Nat PROVE SlotAt(k) \in 0..(SlotCount - 1)
  <2>1. read_position + k \in Int /\ Word \in Nat \ {0} /\ SlotCount \in Nat \ {0}
    BY <1>1, Sizes
  <2>2. (read_position + k) % Word \in 0..(Word - 1)
    BY <2>1, Division
  <2>3. (read_position + k) % Word \in Int
    BY <2>1, <2>2
  <2>4. QED
    BY <2>1, <2>3, Division DEF SlotAt
<1>4. SlotAt(0) = read_position % SlotCount
  <2>1. (read_position + 0) % Word = read_position
    BY <1>1, Sizes
  <2>2. QED
    BY <2>1 DEF SlotAt
<1>5. QED
  BY <1>2, <1>3, <1>4

\* The producer writes the slot behind the newest record.
LEMMA WriteSlot ==
    ASSUME TypeOK
    PROVE  SlotAt(Count) = write_position % SlotCount
<1>1. write_position \in 0..(Word - 1) /\ read_position \in 0..(Word - 1)
  BY DEF TypeOK
<1>2. Count = IF write_position >= read_position THEN write_position - read_position
              ELSE write_position - read_position + Word
  BY <1>1, Difference DEF Count
<1>3. Count \in 0..Word
  BY <1>1, <1>2, Sizes
<1>4. (read_position + Count) % Word = IF read_position + Count < Word
                                        THEN read_position + Count
                                        ELSE read_position + Count - Word
  BY <1>1, <1>3, Advanced
<1>5. (read_position + Count) % Word = write_position
  BY <1>1, <1>2, <1>3, <1>4, Sizes
<1>6. QED
  BY <1>5 DEF SlotAt

\* Which is none of those that hold a record.
LEMMA WriteSlotFree ==
    ASSUME SlotsDivideWord, TypeOK, Count < SlotCount, NEW k \in 0..(Count - 1)
    PROVE  SlotAt(k) # write_position % SlotCount
<1>1. k \in 0..(SlotCount - 1) /\ Count \in 0..(SlotCount - 1) /\ k < Count
  BY RingBounds, Sizes
<1>2. QED
  BY <1>1, WriteSlot, SlotsDiffer DEF SlotAt, TypeOK

\* What a step does to the stream: nothing, a record behind it, or one record delivered.
Unmoved == Count' = Count /\ \A k \in 0..Count : Stream(k)' = Stream(k)

Published ==
    /\ Count' = Count + 1
    /\ \A k \in 0..Count : Stream(k)' = Stream(k)
    /\ Stream(Count)' = writer.record

Popped ==
    /\ Count > 0
    /\ Count' = Count - 1
    /\ \A k \in 0..(Count - 1) : Stream(k)' = Stream(k + 1)

LEMMA QuietStep ==
    ASSUME UNCHANGED <<slots, write_position, read_position, history.last>>
    PROVE  Unmoved
BY DEF Unmoved, Count, Stream, SlotAt

\* A store to the slot behind the newest record.
LEMMA StoreStep ==
    ASSUME SlotsDivideWord, TypeOK, Count < SlotCount, NEW v,
           UNCHANGED <<write_position, read_position, history.last>>,
           slots' = [slots EXCEPT ![write_position % SlotCount] = v]
    PROVE  /\ Unmoved
           /\ slots'[write_position' % SlotCount] = v
<1>1. Count' = Count /\ \A k \in Nat : SlotAt(k)' = SlotAt(k)
  BY DEF Count, SlotAt
<1>2. ASSUME NEW k \in 1..Count PROVE Stream(k)' = Stream(k)
  <2>1. k - 1 \in 0..(Count - 1) /\ k # 0 /\ k - 1 \in Nat
    BY RingBounds
  <2>2. SlotAt(k - 1) # write_position % SlotCount
    BY <2>1, WriteSlotFree
  <2>3. SlotAt(k - 1) \in 0..(SlotCount - 1)
    BY <2>1, RingBounds
  <2>4. slots'[SlotAt(k - 1)] = slots[SlotAt(k - 1)]
    BY <2>2, <2>3 DEF TypeOK
  <2>5. SlotAt(k - 1)' = SlotAt(k - 1)
    BY <1>1, <2>1
  <2>6. QED
    BY <2>1, <2>4, <2>5 DEF Stream
<1>3. Stream(0)' = Stream(0)
  BY DEF Stream
<1>4. slots'[write_position' % SlotCount] = v
  <2>1. write_position % SlotCount \in 0..(SlotCount - 1)
    BY RingBounds, WriteSlot
  <2>2. QED
    BY <2>1 DEF TypeOK
<1>5. QED
  BY <1>1, <1>2, <1>3, <1>4, RingBounds DEF Unmoved

LEMMA PublishStep ==
    ASSUME TypeOK, Count < SlotCount,
           slots[write_position % SlotCount] = writer.record,
           write_position' = (write_position + 1) % Word,
           UNCHANGED <<slots, read_position, history.last>>
    PROVE  Published
<1>1. write_position \in 0..(Word - 1) /\ read_position \in 0..(Word - 1)
  BY DEF TypeOK
<1>2. write_position' = IF write_position + 1 < Word THEN write_position + 1 ELSE 0
  <2>1. 1 \in 0..Word
    BY Sizes
  <2>2. (write_position + 1) % Word = IF write_position + 1 < Word THEN write_position + 1
                                   ELSE write_position + 1 - Word
    BY <1>1, <2>1, Advanced
  <2>3. QED
    BY <1>1, <2>2, Sizes
<1>3. write_position' \in 0..(Word - 1)
  BY <1>1, <1>2, Sizes
<1>4. Count = IF write_position >= read_position THEN write_position - read_position
              ELSE write_position - read_position + Word
  BY <1>1, Difference DEF Count
<1>5. Count' = IF write_position' >= read_position THEN write_position' - read_position
              ELSE write_position' - read_position + Word
  BY <1>1, <1>3, Difference DEF Count
<1>6. Count' = Count + 1
  BY <1>1, <1>2, <1>4, <1>5, Sizes
<1>7. \A k \in 0..Count : Stream(k)' = Stream(k)
  BY DEF Stream, SlotAt
<1>8. Stream(Count)' = writer.record
  <2>1. Count \in Nat /\ Count' # 0 /\ Count' - 1 = Count
    BY <1>6, RingBounds
  <2>2. Stream(Count)' = slots[((read_position + (Count' - 1)) % Word) % SlotCount]
    BY <2>1 DEF Stream, SlotAt
  <2>3. Stream(Count)' = slots[SlotAt(Count)]
    BY <2>1, <2>2 DEF SlotAt
  <2>4. QED
    BY <2>3, WriteSlot
<1>9. QED
  BY <1>6, <1>7, <1>8 DEF Published

LEMMA PopStep ==
    ASSUME TypeOK, Count > 0,
           read_position' = (read_position + 1) % Word,
           UNCHANGED <<slots, write_position>>,
           history'.last = Stream(1)
    PROVE  Popped
<1>1. write_position \in 0..(Word - 1) /\ read_position \in 0..(Word - 1)
  BY DEF TypeOK
<1>2. read_position' = IF read_position + 1 < Word THEN read_position + 1 ELSE 0
  <2>1. 1 \in 0..Word
    BY Sizes
  <2>2. (read_position + 1) % Word = IF read_position + 1 < Word THEN read_position + 1
                                   ELSE read_position + 1 - Word
    BY <1>1, <2>1, Advanced
  <2>3. QED
    BY <1>1, <2>2, Sizes
<1>3. read_position' \in 0..(Word - 1)
  BY <1>1, <1>2, Sizes
<1>4. Count = IF write_position >= read_position THEN write_position - read_position
              ELSE write_position - read_position + Word
  BY <1>1, Difference DEF Count
<1>5. Count' = IF write_position >= read_position' THEN write_position - read_position'
              ELSE write_position - read_position' + Word
  BY <1>1, <1>3, Difference DEF Count
<1>6. Count' = Count - 1
  BY <1>1, <1>2, <1>4, <1>5, Sizes
<1>7. ASSUME NEW k \in 1..(Count - 1) PROVE Stream(k)' = Stream(k + 1)
  <2>1. Count \in 0..(Word - 1) /\ k - 1 \in 0..Word /\ k \in 0..Word /\ k # 0 /\ k + 1 # 0
    BY RingBounds, Sizes
  <2>2. (read_position' + (k - 1)) % Word = IF read_position' + (k - 1) < Word
                                            THEN read_position' + (k - 1)
                                            ELSE read_position' + (k - 1) - Word
    BY <2>1, <1>3, Advanced
  <2>3. (read_position + k) % Word = IF read_position + k < Word
                                     THEN read_position + k ELSE read_position + k - Word
    BY <2>1, <1>1, Advanced
  <2>4. (read_position' + (k - 1)) % Word = (read_position + k) % Word
    BY <2>1, <2>2, <2>3, <1>1, <1>2, Sizes
  <2>5. SlotAt(k - 1)' = SlotAt(k)
    BY <2>4 DEF SlotAt
  <2>6. (k + 1) - 1 = k
    OBVIOUS
  <2>7. QED
    BY <2>1, <2>5, <2>6 DEF Stream
<1>8. Stream(0)' = Stream(0 + 1)
  BY DEF Stream
<1>9. QED
  BY <1>6, <1>7, <1>8, RingBounds DEF Popped

-----------------------------------------------------------------------------
(* Types *)

LEMMA RecordType ==
    ASSUME TypeOK, NEW kind \in {"event", "dropped"}, NEW count \in 0..(Word - 1),
           NEW now \in [event : Nat, tick : Nat]
    PROVE  Record(kind, count, now) \in Records
<1>1. now.tick % TickModulus \in 0..(TickModulus - 1)
  <2>1. now.tick \in Int /\ TickModulus \in Nat \ {0}
    BY Sizes
  <2>2. QED
    BY <2>1, Division
<1>2. next_sequence \in 0..(Word - 1)
  BY DEF TypeOK
<1>3. history.attempts \in Nat
  BY DEF TypeOK, Histories
<1>4. now.event \in Nat /\ now.tick \in Nat
  OBVIOUS
<1>5. QED
  BY <1>1, <1>2, <1>3, <1>4 DEF Record, Records

LEMMA RecordsAreProper ==
    /\ None \notin Records
    /\ \A r \in Records : r.kind # "torn"
BY RecordAssumption DEF RecordAssumption, Records

\* Taking a sequence number keeps the types.
LEMMA StartWriteType ==
    ASSUME TypeOK, NEW kind \in {"event", "dropped"}, NEW count \in 0..(Word - 1),
           NEW now \in [event : Nat, tick : Nat], StartWrite(kind, count, now)
    PROVE  /\ next_sequence' \in 0..(Word - 1)
           /\ writer' \in [pc : {"load", "copy", "publish"}, record : Records]
           /\ history' \in Histories
           /\ UNCHANGED history.last
<1>1. (next_sequence + 1) % Word \in 0..(Word - 1)
  BY Sizes, Division DEF TypeOK
<1>2. Record(kind, count, now) \in Records
  BY RecordType
<1>3. next_sequence' \in 0..(Word - 1)
  BY <1>1 DEF StartWrite
<1>4. writer' \in [pc : {"load", "copy", "publish"}, record : Records]
  BY <1>2 DEF StartWrite
<1>5. history' = [history EXCEPT !.attempts = history.attempts + 1]
  BY DEF StartWrite
<1>6. history \in Histories
  BY DEF TypeOK
<1>7. history' \in Histories /\ history'.last = history.last
  BY <1>5, <1>6 DEF Histories
<1>8. QED
  BY <1>3, <1>4, <1>7

\* What the history keeps of a delivered record.
LEMMA Delivered ==
    ASSUME NEW h \in Histories, NEW r \in Records, NEW b \in BOOLEAN
    PROVE  [h EXCEPT !.last = r, !.first = IF @ = None THEN r ELSE @,
                     !.reported = @ + r.count, !.aliased = b] \in Histories
<1>1. r.count \in Nat
  BY DEF Records
<1> DEFINE first == IF h.first = None THEN r ELSE h.first
           reported == h.reported + r.count
<1>2. first \in Records \cup {None} /\ reported \in Nat
  BY <1>1 DEF Histories
<1> HIDE DEF first, reported
<1>3. [h EXCEPT !.last = r, !.first = first, !.reported = reported, !.aliased = b] \in Histories
  BY <1>2 DEF Histories
<1>4. QED
  BY <1>3 DEF first, reported

LEMMA InitType == Init => TypeOK
<1> SUFFICES ASSUME Init PROVE TypeOK
  OBVIOUS
<1>1. next_sequence \in 0..(Word - 1) /\ 0 \in 0..(Word - 1) /\ next_sequence \in Nat
  BY Sizes, SizesAssumption DEF Init, SizesAssumption
<1>2. history \in Histories
  BY <1>1 DEF Init, Histories
<1>3. QED
  BY <1>1, <1>2 DEF Init, TypeOK, Idle

LEMMA StepType == TypeOK /\ RingInv /\ [Next]_vars => TypeOK'
<1> SUFFICES ASSUME TypeOK, RingInv, [Next]_vars PROVE TypeOK'
  OBVIOUS
<1> USE DEF contextVars, ringVars, hostVars
<1>1. ASSUME NEW step \in Steps, Emit(step) PROVE TypeOK'
  <2>1. clock' \in [event : Nat, tick : Nat]
    BY <1>1, SizesAssumption DEF Emit, TypeOK, SizesAssumption
  <2>2. 0 \in 0..(Word - 1) /\ pending_dropped \in 0..(Word - 1)
    BY Sizes DEF TypeOK
  <2>3. \/ StartWrite("event", 0, clock')
        \/ StartWrite("dropped", pending_dropped, clock')
    BY <1>1 DEF Emit
  <2>4. /\ next_sequence' \in 0..(Word - 1)
        /\ writer' \in [pc : {"load", "copy", "publish"}, record : Records]
        /\ history' \in Histories
    BY <2>1, <2>2, <2>3, StartWriteType
  <2>5. QED
    BY <1>1, <2>1, <2>4 DEF Emit, TypeOK
<1>2. CASE WriteFull
  <2>1. pending_dropped' \in 0..(Word - 1)
    BY <1>2, Sizes DEF WriteFull, Increment, TypeOK
  <2>2. history' \in Histories
    BY <1>2 DEF WriteFull, TypeOK, Histories
  <2>3. QED
    BY <1>2, <2>1, <2>2 DEF WriteFull, TypeOK, Idle
<1>3. CASE WriteError
  <2>1. history' \in Histories
    BY <1>3 DEF WriteError, TypeOK, Histories
  <2>2. QED
    BY <1>3, <2>1 DEF WriteError, TypeOK, Idle
<1>4. CASE WriteBegin
  <2>1. write_position % SlotCount \in 0..(SlotCount - 1)
    BY RingBounds, WriteSlot
  <2>2. writer' \in [pc : {"load", "copy", "publish"}, record : Records]
    BY <1>4 DEF WriteBegin, TypeOK, Idle
  <2>3. QED
    BY <1>4, <2>1, <2>2 DEF WriteBegin, TypeOK
<1>5. CASE WriteCopy
  <2>1. write_position % SlotCount \in 0..(SlotCount - 1)
    BY RingBounds, WriteSlot
  <2>2. /\ writer' \in [pc : {"load", "copy", "publish"}, record : Records]
        /\ writer.record \in Records
    BY <1>5 DEF WriteCopy, TypeOK, Idle
  <2>3. QED
    BY <1>5, <2>1, <2>2 DEF WriteCopy, TypeOK
<1>6. CASE WritePublish
  <2>1. write_position' \in 0..(Word - 1) /\ 0 \in 0..(Word - 1)
    BY <1>6, Sizes, Division DEF WritePublish, TypeOK
  <2>2. CASE StartWrite("event", 0, clock) /\ pending_dropped' = 0
    <3>1. /\ next_sequence' \in 0..(Word - 1)
          /\ writer' \in [pc : {"load", "copy", "publish"}, record : Records]
          /\ history' \in Histories
      BY <2>1, <2>2, StartWriteType DEF TypeOK
    <3>2. QED
      BY <1>6, <2>1, <2>2, <3>1 DEF WritePublish, TypeOK
  <2>3. CASE writer' = Idle /\ UNCHANGED <<next_sequence, pending_dropped, history>>
    BY <1>6, <2>1, <2>3 DEF WritePublish, TypeOK
  <2>4. QED
    BY <1>6, <2>2, <2>3 DEF WritePublish, Idle
<1>7. CASE ReadPeek
  BY <1>7 DEF ReadPeek, TypeOK
<1>8. CASE ReadCopy
  <2>1. slots[read_position % SlotCount] \in Records
    <3>1. Count > 0 /\ 1 \in 1..Count
      BY <1>8, RingBounds DEF ReadCopy, RingInv
    <3>2. QED
      BY <3>1, RingBounds DEF RingInv, Stream
  <2>2. QED
    BY <1>8, <2>1 DEF ReadCopy, TypeOK
<1>9. CASE ReadPop
  <2>1. read_position' \in 0..(Word - 1)
    <3>1. read_position + 1 \in Int
      BY DEF TypeOK
    <3>2. QED
      BY <1>9, <3>1, Sizes, Division DEF ReadPop
  <2>2. reader.record \in Records
    BY <1>9 DEF ReadPop, TypeOK, Idle
  <2>3. history' = [history EXCEPT !.last = reader.record,
                                   !.first = IF @ = None THEN reader.record ELSE @,
                                   !.reported = @ + reader.record.count,
                                   !.aliased = @ \/ Aliases(reader.record)]
    BY <1>9, <2>2, RecordsAreProper DEF ReadPop
  <2>4. history' \in Histories
    <3> DEFINE aliased == history.aliased \/ Aliases(reader.record)
    <3>1. aliased \in BOOLEAN
      OBVIOUS
    <3>2. history' = [history EXCEPT !.last = reader.record,
                                   !.first = IF @ = None THEN reader.record ELSE @,
                                   !.reported = @ + reader.record.count, !.aliased = aliased]
      BY <2>3
    <3>3. history \in Histories
      BY DEF TypeOK
    <3> HIDE DEF aliased
    <3>4. QED
      BY <2>2, <3>1, <3>2, <3>3, Delivered
  <2>5. QED
    BY <1>9, <2>1, <2>4 DEF ReadPop, TypeOK, Idle
<1>10. CASE UNCHANGED vars
  BY <1>10 DEF vars, TypeOK
<1>11. QED
  BY <1>1, <1>2, <1>3, <1>4, <1>5, <1>6, <1>7, <1>8, <1>9, <1>10 DEF Next

-----------------------------------------------------------------------------
(* The invariant of the ring *)

LEMMA InitRing == Init => RingInv
<1> SUFFICES ASSUME Init PROVE RingInv
  OBVIOUS
<1>1. Count = 0
  BY Sizes DEF Init, Count
<1>2. QED
  BY <1>1, Sizes DEF Init, RingInv

LEMMA CountBounds ==
    ASSUME TypeOK, TypeOK', RingInv
    PROVE  /\ Count \in Nat /\ Count <= SlotCount /\ Count + 1 < Word
           /\ Count' \in Nat
<1>1. write_position' \in 0..(Word - 1) /\ read_position' \in 0..(Word - 1)
  BY DEF TypeOK
<1>2. (write_position - read_position)' \in Int /\ Word \in Nat \ {0}
  BY <1>1, Sizes
<1>3. Count' \in 0..(Word - 1)
  BY <1>2, Division DEF Count
<1>4. Count \in 0..(Word - 1) /\ Count <= SlotCount
  BY RingBounds DEF RingInv
<1>5. QED
  BY <1>3, <1>4, Sizes

\* What each move of the stream leaves of the invariant of the ring.
LEMMA UnmovedRing ==
    ASSUME TypeOK, TypeOK', RingInv, Unmoved
    PROVE  /\ Count' = Count /\ Count' <= SlotCount
           /\ \A k \in 1..Count' : Stream(k)' \in Records
           /\ Count > 0 => Stream(1)' = Stream(1)
<1>1. \A k \in 1..Count : Stream(k)' = Stream(k)
  BY CountBounds DEF Unmoved
<1>2. QED
  BY <1>1, CountBounds DEF Unmoved, RingInv

LEMMA PublishedRing ==
    ASSUME TypeOK, TypeOK', RingInv, Published, writer.record \in Records, Count < SlotCount
    PROVE  /\ Count' = Count + 1 /\ Count' <= SlotCount
           /\ \A k \in 1..Count' : Stream(k)' \in Records
           /\ Count > 0 => Stream(1)' = Stream(1)
<1>1. Count' = Count + 1 /\ Count' <= SlotCount
  BY CountBounds, Sizes DEF Published
<1>2. ASSUME NEW k \in 1..Count' PROVE Stream(k)' \in Records
  <2>1. CASE k \in 1..Count
    BY CountBounds, <2>1 DEF Published, RingInv
  <2>2. CASE k = Count'
    <3>1. Stream(k)' = Stream(Count)'
      BY <2>2 DEF Stream, SlotAt
    <3>2. QED
      BY <3>1 DEF Published
  <2>3. QED
    BY CountBounds, <1>1, <2>1, <2>2
<1>3. Count > 0 => Stream(1)' = Stream(1)
  BY CountBounds DEF Published
<1>4. QED
  BY <1>1, <1>2, <1>3

LEMMA PoppedRing ==
    ASSUME TypeOK, TypeOK', RingInv, Popped
    PROVE  /\ Count' = Count - 1 /\ Count' < SlotCount /\ Count' <= SlotCount
           /\ \A k \in 1..Count' : Stream(k)' \in Records
<1>1. Count' = Count - 1 /\ Count' < SlotCount /\ Count' <= SlotCount
  BY CountBounds, Sizes DEF Popped
<1>2. ASSUME NEW k \in 1..Count' PROVE Stream(k)' \in Records
  <2>1. k \in 0..(Count - 1) /\ k + 1 \in 1..Count
    BY CountBounds, <1>1
  <2>2. QED
    BY <2>1 DEF Popped, RingInv
<1>3. QED
  BY <1>1, <1>2

\* Every step moves the stream in one of the three ways.
LEMMA StepMoves ==
    ASSUME SlotsDivideWord, TypeOK, RingInv, Next
    PROVE  \/ Unmoved /\ ~WritePublish /\ ~ReadPop
           \/ Published /\ WritePublish /\ Count < SlotCount
           \/ Popped /\ ReadPop /\ reader.record \in Records /\ reader.record = Stream(1)
<1> USE DEF contextVars, ringVars, hostVars
<1>1. ASSUME NEW step \in Steps, Emit(step) PROVE Unmoved /\ ~WritePublish /\ ~ReadPop
  <2>1. UNCHANGED <<slots, write_position, read_position, history.last>>
    <3>1. history'.last = history.last
      BY <1>1 DEF Emit, StartWrite, TypeOK, Histories
    <3>2. QED
      BY <1>1, <3>1 DEF Emit
  <2>2. writer.pc = "idle" /\ reader' = reader
    BY <1>1 DEF Emit
  <2>3. reader.pc # "pop" \/ reader'.pc # "idle"
    BY <2>2
  <2>4. QED
    BY <2>1, <2>2, <2>3, QuietStep DEF WritePublish, ReadPop
<1>2. CASE WriteFull \/ WriteError
  <2>1. UNCHANGED <<slots, write_position, read_position, reader>> /\ writer.pc = "load"
    BY <1>2 DEF WriteFull, WriteError
  <2>2. history'.last = history.last
    BY <1>2 DEF WriteFull, WriteError, TypeOK, Histories
  <2>3. reader.pc # "pop" \/ reader'.pc # "idle"
    BY <2>1
  <2>4. QED
    BY <2>1, <2>2, <2>3, QuietStep DEF WritePublish, ReadPop
<1>3. CASE WriteBegin
  <2>1. Count < SlotCount
    BY <1>3, RingBounds, Sizes DEF WriteBegin, IsFull, Count
  <2>2. Unmoved
    BY <1>3, <2>1, StoreStep DEF WriteBegin
  <2>3. writer.pc = "load" /\ (reader.pc # "pop" \/ reader'.pc # "idle")
    BY <1>3 DEF WriteBegin
  <2>4. QED
    BY <2>2, <2>3 DEF WritePublish, ReadPop
<1>4. CASE WriteCopy
  <2>1. Count < SlotCount
    BY <1>4 DEF WriteCopy, RingInv
  <2>2. Unmoved
    BY <1>4, <2>1, StoreStep DEF WriteCopy
  <2>3. writer.pc = "copy" /\ (reader.pc # "pop" \/ reader'.pc # "idle")
    BY <1>4 DEF WriteCopy
  <2>4. QED
    BY <2>2, <2>3 DEF WritePublish, ReadPop
<1>5. CASE WritePublish
  <2>1. Count < SlotCount /\ slots[write_position % SlotCount] = writer.record
    BY <1>5 DEF WritePublish, RingInv
  <2>2. history'.last = history.last
    BY <1>5 DEF WritePublish, StartWrite, TypeOK, Histories
  <2>3. QED
    BY <1>5, <2>1, <2>2, PublishStep DEF WritePublish
<1>6. CASE ReadPeek \/ ReadCopy
  BY <1>6, QuietStep DEF ReadPeek, ReadCopy, WritePublish, ReadPop
<1>7. CASE ReadPop
  <2>1. reader.record \in Records /\ reader.record = Stream(1) /\ Count > 0
    BY <1>7 DEF ReadPop, RingInv, TypeOK, Idle
  <2>2. history'.last = Stream(1)
    BY <1>7, <2>1, RecordsAreProper DEF ReadPop, TypeOK, Histories
  <2>3. QED
    BY <1>7, <2>1, <2>2, PopStep DEF ReadPop
<1>8. QED
  BY <1>1, <1>2, <1>3, <1>4, <1>5, <1>6, <1>7 DEF Next

LEMMA StepRing == SlotsDivideWord /\ TypeOK /\ RingInv /\ [Next]_vars => RingInv'
<1> SUFFICES ASSUME SlotsDivideWord, TypeOK, RingInv, [Next]_vars PROVE RingInv'
  OBVIOUS
<1> USE DEF contextVars, ringVars, hostVars
<1>1. TypeOK'
  BY StepType
<1>2. Count \in Nat /\ Count' \in Nat /\ Count <= SlotCount
  BY <1>1, CountBounds
<1>3. CASE UNCHANGED vars
  BY <1>3 DEF vars, RingInv, Count, Stream, SlotAt
<1>4. ASSUME NEW step \in Steps, Emit(step) PROVE RingInv'
  <2>1. Unmoved
    BY <1>4, StepMoves DEF Next, Emit, WritePublish, ReadPop
  <2>2. writer'.pc = "load" /\ reader' = reader
    BY <1>4 DEF Emit, StartWrite
  <2>3. QED
    BY <1>1, <1>2, <2>1, <2>2, UnmovedRing DEF RingInv
<1>5. CASE WriteFull \/ WriteError
  <2>1. Unmoved
    BY <1>5, StepMoves DEF Next, WriteFull, WriteError, WritePublish, ReadPop
  <2>2. writer'.pc = "idle" /\ reader' = reader
    BY <1>5 DEF WriteFull, WriteError
  <2>3. QED
    BY <1>1, <1>2, <2>1, <2>2, UnmovedRing DEF RingInv
<1>6. CASE WriteBegin
  <2>1. Count < SlotCount
    BY <1>6, RingBounds, Sizes DEF WriteBegin, IsFull, Count
  <2>2. Unmoved
    BY <1>6, <2>1, StoreStep DEF WriteBegin
  <2>3. writer'.pc = "copy" /\ reader' = reader
    BY <1>6 DEF WriteBegin, TypeOK, Idle
  <2>4. QED
    BY <1>1, <1>2, <2>1, <2>2, <2>3, UnmovedRing DEF RingInv
<1>7. CASE WriteCopy
  <2>1. Count < SlotCount
    BY <1>7 DEF WriteCopy, RingInv
  <2>2. Unmoved /\ slots'[write_position' % SlotCount] = writer.record
    BY <1>7, <2>1, StoreStep DEF WriteCopy
  <2>3. writer'.pc = "publish" /\ writer'.record = writer.record /\ reader' = reader
    BY <1>7 DEF WriteCopy, TypeOK, Idle
  <2>4. QED
    BY <1>1, <1>2, <2>1, <2>2, <2>3, UnmovedRing DEF RingInv
<1>8. CASE WritePublish
  <2>1. Published /\ Count < SlotCount /\ writer.record \in Records
    <3>1. writer.pc = "publish"
      BY <1>8 DEF WritePublish
    <3>2. writer.record \in Records /\ Count < SlotCount
      BY <3>1 DEF TypeOK, Idle, RingInv
    <3>3. slots[write_position % SlotCount] = writer.record
      BY <3>1 DEF RingInv
    <3>4. history'.last = history.last
      BY <1>8 DEF WritePublish, StartWrite, TypeOK, Histories
    <3>5. QED
      BY <1>8, <3>2, <3>3, <3>4, PublishStep DEF WritePublish
  <2>2. writer'.pc \in {"load", "idle"} /\ reader' = reader
    BY <1>8 DEF WritePublish, StartWrite
  <2>3. QED
    BY <1>1, <1>2, <2>1, <2>2, PublishedRing, Sizes DEF RingInv
<1>9. CASE ReadPeek
  <2>1. Unmoved
    BY <1>9, QuietStep DEF ReadPeek
  <2>2. Count > 0
    <3>1. /\ write_position \in 0..(Word - 1) /\ read_position \in 0..(Word - 1)
          /\ read_position # write_position
      BY <1>9 DEF ReadPeek, TypeOK
    <3>2. Count = IF write_position >= read_position THEN write_position - read_position
                  ELSE write_position - read_position + Word
      BY <3>1, Difference DEF Count
    <3>3. QED
      BY <3>1, <3>2, Sizes
  <2>3. reader'.pc = "copy" /\ writer' = writer /\ UNCHANGED <<slots, write_position>>
    BY <1>9 DEF ReadPeek
  <2>4. QED
    BY <1>1, <1>2, <2>1, <2>2, <2>3, UnmovedRing DEF RingInv
<1>10. CASE ReadCopy
  <2>1. Unmoved
    BY <1>10, QuietStep DEF ReadCopy
  <2>2. Count > 0
    BY <1>10 DEF ReadCopy, RingInv
  <2>3. /\ reader'.pc = "pop" /\ writer' = writer /\ UNCHANGED <<slots, write_position>>
        /\ reader'.record = Stream(1)
    <3>1. 1 # 0 /\ 1 - 1 = 0
      OBVIOUS
    <3>2. QED
      BY <1>10, <3>1, RingBounds DEF ReadCopy, Stream
  <2>4. QED
    BY <1>1, <1>2, <2>1, <2>2, <2>3, UnmovedRing DEF RingInv
<1>11. CASE ReadPop
  <2>1. Popped
    <3>1. reader.record \in Records /\ reader.record = Stream(1) /\ Count > 0
      BY <1>11 DEF ReadPop, RingInv, TypeOK, Idle
    <3>2. history'.last = Stream(1)
      BY <1>11, <3>1, RecordsAreProper DEF ReadPop, TypeOK, Histories
    <3>3. QED
      BY <1>11, <3>1, <3>2, PopStep DEF ReadPop
  <2>2. reader'.pc = "idle" /\ writer' = writer /\ UNCHANGED <<slots, write_position>>
    BY <1>11 DEF ReadPop
  <2>3. Count' <= SlotCount /\ Count' < SlotCount
    BY <1>1, <2>1, PoppedRing
  <2>4. QED
    BY <1>1, <2>1, <2>2, <2>3, PoppedRing DEF RingInv
<1>12. QED
  BY <1>3, <1>4, <1>5, <1>6, <1>7, <1>8, <1>9, <1>10, <1>11 DEF Next

-----------------------------------------------------------------------------
(* The ring implements the queue *)

LEMMA HeldNow ==
    ASSUME TypeOK, RingInv
    PROVE  /\ Held \in Seq(Records) /\ Len(Held) = Count
           /\ \A i \in 1..Count : Held[i] = Stream(i)
<1>1. Count \in Nat /\ read_position \in Int
  <2>1. Count \in 0..(Word - 1)
    BY RingBounds
  <2>2. QED
    BY <2>1, Sizes DEF TypeOK
<1>2. ASSUME NEW i \in 1..Count
      PROVE  slots[((read_position + i - 1) % Word) % SlotCount] = Stream(i)
  <2>1. read_position + i - 1 = read_position + (i - 1) /\ i # 0
    BY <1>1
  <2>2. QED
    BY <2>1 DEF Stream, SlotAt
<1>3. Held = [i \in 1..Count |-> slots[((read_position + i - 1) % Word) % SlotCount]]
  BY DEF Held, Count
<1>4. Held \in [1..Count -> Records] /\ \A i \in 1..Count : Held[i] = Stream(i)
  BY <1>2, <1>3 DEF RingInv
<1>5. Held \in Seq(Records)
  BY <1>1, <1>4, SeqDef
<1>6. Len(Held) = Count
  BY <1>1, <1>4, <1>5, LenProperties
<1>7. QED
  BY <1>4, <1>5, <1>6

LEMMA HeldNext ==
    ASSUME TypeOK, RingInv, TypeOK', RingInv'
    PROVE  /\ Held' \in Seq(Records) /\ Len(Held') = Count'
           /\ \A i \in 1..Count' : Held'[i] = Stream(i)'
<1>1. Count' \in Nat /\ read_position' \in Int
  BY CountBounds DEF TypeOK
<1>2. ASSUME NEW i \in 1..Count'
      PROVE  slots'[((read_position' + i - 1) % Word) % SlotCount] = Stream(i)'
  <2>1. read_position' + i - 1 = read_position' + (i - 1) /\ i # 0
    BY <1>1
  <2>2. QED
    BY <2>1 DEF Stream, SlotAt
<1>3. Held' = [i \in 1..Count' |-> slots'[((read_position' + i - 1) % Word) % SlotCount]]
  BY DEF Held, Count
<1>4. Held' \in [1..Count' -> Records] /\ \A i \in 1..Count' : Held'[i] = Stream(i)'
  BY <1>2, <1>3 DEF RingInv
<1>5. Held' \in Seq(Records)
  BY <1>1, <1>4, SeqDef
<1>6. Len(Held') = Count'
  BY <1>1, <1>4, <1>5, LenProperties
<1>7. QED
  BY <1>4, <1>5, <1>6

LEMMA InitRefines == Init => Queue!Init
<1> SUFFICES ASSUME Init PROVE Held = <<>>
  BY DEF Queue!Init
<1>1. TypeOK /\ RingInv
  BY InitType, InitRing
<1>2. Count = 0
  BY Sizes DEF Init, Count
<1>3. QED
  BY <1>1, <1>2, HeldNow, EmptySeq

LEMMA StepRefines ==
    ASSUME SlotsDivideWord, TypeOK, RingInv, [Next]_vars
    PROVE  [Queue!Next]_Held
<1>1. TypeOK' /\ RingInv'
  BY StepType, StepRing
<1>2. /\ Held \in Seq(Records) /\ Len(Held) = Count
      /\ \A i \in 1..Count : Held[i] = Stream(i)
  BY HeldNow
<1>3. /\ Held' \in Seq(Records) /\ Len(Held') = Count'
      /\ \A i \in 1..Count' : Held'[i] = Stream(i)'
  BY <1>1, HeldNext
<1>4. Count \in Nat /\ Count <= SlotCount /\ Count' \in Nat
  BY <1>1, CountBounds
<1>5. CASE UNCHANGED vars
  BY <1>5 DEF vars, ringVars, Held
<1>6. CASE Unmoved
  <2>1. Len(Held') = Len(Held) /\ \A i \in 1..Len(Held) : Held'[i] = Held[i]
    BY <1>2, <1>3, <1>4, <1>6 DEF Unmoved
  <2>2. Held' = Held
    BY <1>2, <1>3, <2>1, SeqEqual
  <2>3. QED
    BY <2>2
<1>7. CASE Published /\ WritePublish /\ Count < SlotCount
  <2>1. Len(Held') = Len(Held) + 1 /\ \A i \in 1..Len(Held) : Held'[i] = Held[i]
    BY <1>2, <1>3, <1>4, <1>7 DEF Published
  <2>2. SubSeq(Held', 1, Len(Held') - 1) = Held
    <3>1. Len(Held') - 1 = Len(Held) /\ Len(Held) \in Nat
      BY <1>2, <1>4, <2>1
    <3>2. \A i \in 1..Len(Held) : Held'[i] \in Records
      BY <1>2, <2>1, ElementOfSeq
    <3>3. /\ SubSeq(Held', 1, Len(Held)) \in Seq(Records)
          /\ Len(SubSeq(Held', 1, Len(Held))) = Len(Held)
          /\ \A i \in 1..Len(Held) : SubSeq(Held', 1, Len(Held))[i] = Held'[i]
      BY <3>1, <3>2, SubSeqProperties
    <3>4. QED
      BY <1>2, <2>1, <3>1, <3>3, SeqEqual
  <2>3. Held'[Len(Held')] \in Records
    BY <1>2, <1>3, <1>4, <2>1, ElementOfSeq
  <2>4. Queue!Put
    BY <1>2, <1>7, <2>1, <2>2, <2>3 DEF Queue!Put, Queue!Front, Queue!Last
  <2>5. QED
    BY <2>4 DEF Queue!Next
<1>8. CASE Popped
  <2>1. Len(Held) > 0 /\ Held # <<>>
    BY <1>2, <1>4, <1>8, EmptySeq DEF Popped
  <2>2. /\ Tail(Held) \in Seq(Records) /\ Len(Tail(Held)) = Len(Held) - 1
        /\ \A i \in 1..Len(Tail(Held)) : Tail(Held)[i] = Held[i + 1]
    BY <1>2, <2>1, HeadTailProperties
  <2>3. Len(Held') = Len(Tail(Held))
    BY <1>2, <1>3, <1>8, <2>2 DEF Popped
  <2>4. ASSUME NEW i \in 1..Len(Held') PROVE Held'[i] = Tail(Held)[i]
    <3>1. i \in 1..Count' /\ i \in 0..(Count - 1) /\ i + 1 \in 1..Count /\ i \in 1..Len(Tail(Held))
      BY <1>2, <1>3, <1>4, <1>8, <2>2, <2>3 DEF Popped
    <3>2. Held'[i] = Stream(i + 1)
      BY <1>3, <1>8, <3>1 DEF Popped
    <3>3. QED
      BY <1>2, <2>2, <3>1, <3>2
  <2>5. Held' = Tail(Held)
    BY <1>3, <2>2, <2>3, <2>4, SeqEqual
  <2>6. Queue!Take
    BY <2>1, <2>5 DEF Queue!Take
  <2>7. QED
    BY <2>6 DEF Queue!Next
<1>9. QED
  BY <1>5, <1>6, <1>7, <1>8, StepMoves

\* No interleaving of t32perf_ram_transport_write with _read, and no wrap of the positions,
\* overfills the ring, shows the consumer a record that is still being copied, or changes the
\* record it is copying out.
THEOREM RingInvariant == SlotsDivideWord => (Spec => [](TypeOK /\ RingInv))
<1> SUFFICES ASSUME SlotsDivideWord PROVE Spec => [](TypeOK /\ RingInv)
  OBVIOUS
<1>1. Init => TypeOK /\ RingInv
  BY InitType, InitRing
<1>2. (TypeOK /\ RingInv) /\ [Next]_vars => (TypeOK /\ RingInv)'
  BY StepType, StepRing
<1>3. QED
  BY <1>1, <1>2, PTL DEF Spec

\* The ring of transports.c implements a bounded first-in first-out queue: the store of
\* write_position is the put, the store of read_position the get, and all other steps of the
\* two sides are invisible.
THEOREM RingImplementsQueue == SlotsDivideWord => (Spec => RingIsQueue)
<1> SUFFICES ASSUME SlotsDivideWord PROVE Spec => RingIsQueue
  OBVIOUS
<1>1. Init => Queue!Init
  BY InitRefines
<1>2. (TypeOK /\ RingInv) /\ [Next]_vars => [Queue!Next]_Held
  BY StepRefines
<1>3. Spec => [](TypeOK /\ RingInv)
  BY RingInvariant
<1>4. QED
  BY <1>1, <1>2, <1>3, PTL DEF Spec, RingIsQueue, Queue!Spec

-----------------------------------------------------------------------------
(* The counts                                                              *)

\* f holds the sums of the counts of the first records of s.
Sums(f, s) == f = [n \in 0..Len(s) |-> IF n = 0 THEN 0 ELSE f[n - 1] + s[n].count]

LEMMA SumsExist ==
    ASSUME NEW s \in Seq(Records)
    PROVE  \E f \in [0..Len(s) -> Nat] : Sums(f, s)
<1>. DEFINE Upto(m, f) == \A n \in 0..m : f[n] = IF n = 0 THEN 0 ELSE f[n - 1] + s[n].count
            Partial(m) == \E f \in [0..m -> Nat] : Upto(m, f)
            Undone == {m \in 0..Len(s) : ~Partial(m)}
<1>1. Len(s) \in Nat /\ \A n \in 1..Len(s) : s[n].count \in Nat
  <2>1. \A r \in Records : r.count \in Nat
    BY Sizes DEF Records
  <2>. QED
    BY <2>1
<1>2. Undone = {}
  <2>. SUFFICES ASSUME Undone # {} PROVE FALSE
    OBVIOUS
  <2>1. PICK m \in Undone : \A k \in Undone : m <= k
    <3>1. Undone \in SUBSET Nat
      BY <1>1
    <3>. HIDE DEF Undone
    <3>. QED
      BY <3>1, LeastNumber
  <2>2. m \in 0..Len(s) /\ ~Partial(m)
    OBVIOUS
  <2>3. CASE m = 0
    <3>1. [n \in 0..0 |-> 0] \in [0..0 -> Nat] /\ Upto(0, [n \in 0..0 |-> 0])
      OBVIOUS
    <3>. QED
      BY <2>2, <2>3, <3>1
  <2>4. CASE m # 0
    <3>1. m - 1 \in 0..Len(s) /\ m - 1 < m /\ m \in 1..Len(s)
      BY <1>1, <2>2, <2>4
    <3>2. Partial(m - 1)
      <4>. HIDE DEF Partial
      <4>. QED
        BY <2>1, <3>1
    <3>3. PICK f \in [0..(m - 1) -> Nat] : Upto(m - 1, f)
      BY <3>2
    <3>. DEFINE g == [n \in 0..m |-> IF n = m THEN f[m - 1] + s[m].count ELSE f[n]]
    <3>4. g \in [0..m -> Nat]
      BY <1>1, <3>1
    <3>5. Upto(m, g)
      <4>. SUFFICES ASSUME NEW n \in 0..m
                    PROVE  g[n] = IF n = 0 THEN 0 ELSE g[n - 1] + s[n].count
        OBVIOUS
      <4>1. CASE n = m
        BY <2>4, <3>1, <4>1
      <4>2. CASE n # m
        <5>1. n \in 0..(m - 1) /\ (n # 0 => n - 1 \in 0..(m - 1))
          BY <3>1, <4>2
        <5>2. g[n] = f[n] /\ (n # 0 => g[n - 1] = f[n - 1])
          BY <3>1, <4>2, <5>1
        <5>3. f[n] = IF n = 0 THEN 0 ELSE f[n - 1] + s[n].count
          BY <3>3, <5>1
        <5>. QED
          BY <5>2, <5>3
      <4>. QED
        BY <4>1, <4>2
    <3>. QED
      BY <2>2, <3>4, <3>5
  <2>. QED
    BY <2>3, <2>4
<1>3. Partial(Len(s))
  <2>. HIDE DEF Partial
  <2>. QED
    BY <1>1, <1>2
<1>4. PICK f \in [0..Len(s) -> Nat] : Upto(Len(s), f)
  BY <1>3
<1>5. Sums(f, s)
  BY <1>4 DEF Sums
<1>. QED
  BY <1>5

LEMMA SumsUnique ==
    ASSUME NEW s \in Seq(Records), NEW f, NEW g, Sums(f, s), Sums(g, s)
    PROVE  f[Len(s)] = g[Len(s)]
<1>. DEFINE Apart == {n \in 0..Len(s) : f[n] # g[n]}
<1>1. /\ Len(s) \in Nat
      /\ \A n \in 0..Len(s) : f[n] = IF n = 0 THEN 0 ELSE f[n - 1] + s[n].count
      /\ \A n \in 0..Len(s) : g[n] = IF n = 0 THEN 0 ELSE g[n - 1] + s[n].count
  <2>1. \A n \in 0..Len(s) : f[n] = IF n = 0 THEN 0 ELSE f[n - 1] + s[n].count
    BY DEF Sums
  <2>2. \A n \in 0..Len(s) : g[n] = IF n = 0 THEN 0 ELSE g[n - 1] + s[n].count
    BY DEF Sums
  <2>. QED
    BY <2>1, <2>2
<1>2. Apart = {}
  <2>. SUFFICES ASSUME Apart # {} PROVE FALSE
    OBVIOUS
  <2>1. PICK m \in Apart : \A k \in Apart : m <= k
    <3>1. Apart \in SUBSET Nat
      BY <1>1
    <3>. HIDE DEF Apart
    <3>. QED
      BY <3>1, LeastNumber
  <2>2. m \in 0..Len(s) /\ f[m] # g[m]
    OBVIOUS
  <2>3. m # 0
    BY <1>1, <2>2
  <2>4. m - 1 \in 0..Len(s) /\ m - 1 < m
    BY <1>1, <2>2, <2>3
  <2>5. f[m - 1] = g[m - 1]
    BY <2>1, <2>4
  <2>. QED
    BY <1>1, <2>2, <2>3, <2>5
<1>. QED
  BY <1>1, <1>2

\* What Reports computes: the sum of the counts, whichever way it is put together.
LEMMA ReportsIsSum ==
    ASSUME NEW s \in Seq(Records), NEW f, Sums(f, s)
    PROVE  Reports(s) = f[Len(s)]
<1>. DEFINE g == CHOOSE sum : Sums(sum, s)
<1>1. Reports(s) = g[Len(s)]
  BY DEF Reports, Sums
<1>2. Sums(g, s)
  OBVIOUS
<1>. HIDE DEF g
<1>. QED
  BY <1>1, <1>2, SumsUnique

LEMMA ReportsEmpty == Reports(<<>>) = 0 /\ \A s \in Seq(Records) : Reports(s) \in Nat
<1>1. ASSUME NEW s \in Seq(Records)
      PROVE  Reports(s) \in Nat /\ (s = <<>> => Reports(s) = 0)
  <2>1. PICK f \in [0..Len(s) -> Nat] : Sums(f, s)
    BY SumsExist
  <2>2. Reports(s) = f[Len(s)] /\ Len(s) \in Nat
    BY <2>1, ReportsIsSum
  <2>3. s = <<>> => f[Len(s)] = 0
    BY <2>1 DEF Sums
  <2>. QED
    BY <2>1, <2>2, <2>3
<1>2. <<>> \in Seq(Records)
  BY EmptySeq
<1>. QED
  BY <1>1, <1>2

LEMMA ReportsAppend ==
    ASSUME NEW s \in Seq(Records), NEW s2 \in Seq(Records), Len(s2) = Len(s) + 1,
           \A i \in 1..Len(s) : s2[i] = s[i]
    PROVE  Reports(s2) = Reports(s) + s2[Len(s2)].count
<1>1. PICK f \in [0..Len(s2) -> Nat] : Sums(f, s2)
  BY SumsExist
<1>2. Len(s) \in Nat /\ Len(s2) = Len(s) + 1
  OBVIOUS
<1>. DEFINE g == [n \in 0..Len(s) |-> f[n]]
<1>3. \A n \in 0..Len(s2) : f[n] = IF n = 0 THEN 0 ELSE f[n - 1] + s2[n].count
  BY <1>1 DEF Sums
<1>4. Sums(g, s)
  <2>1. ASSUME NEW n \in 0..Len(s)
        PROVE  g[n] = IF n = 0 THEN 0 ELSE g[n - 1] + s[n].count
    <3>1. n \in 0..Len(s2) /\ (n # 0 => n \in 1..Len(s) /\ n - 1 \in 0..Len(s))
      BY <1>2
    <3>2. f[n] = IF n = 0 THEN 0 ELSE f[n - 1] + s2[n].count
      BY <1>3, <3>1
    <3>. QED
      BY <3>1, <3>2
  <2>. QED
    BY <2>1 DEF Sums
<1>5. Reports(s) = g[Len(s)] /\ Reports(s2) = f[Len(s2)]
  <2>. HIDE DEF g
  <2>. QED
    BY <1>1, <1>4, ReportsIsSum
<1>6. f[Len(s2)] = f[Len(s)] + s2[Len(s2)].count
  <2>1. Len(s2) \in 0..Len(s2) /\ Len(s2) # 0 /\ Len(s2) - 1 = Len(s)
    BY <1>2
  <2>. QED
    BY <1>3, <2>1
<1>. QED
  BY <1>2, <1>5, <1>6

LEMMA ReportsTail ==
    ASSUME NEW s \in Seq(Records), NEW s2 \in Seq(Records), Len(s) = Len(s2) + 1,
           \A i \in 1..Len(s2) : s2[i] = s[i + 1]
    PROVE  Reports(s) = s[1].count + Reports(s2)
<1>1. PICK f \in [0..Len(s) -> Nat] : Sums(f, s)
  BY SumsExist
<1>2. Len(s2) \in Nat /\ Len(s) = Len(s2) + 1 /\ 1 \in 1..Len(s)
  OBVIOUS
<1>3. /\ s[1].count \in Nat /\ \A n \in 0..Len(s) : f[n] \in Nat
      /\ \A r \in Records : r.count \in Nat
  <2>1. \A r \in Records : r.count \in Nat
    BY Sizes DEF Records
  <2>2. s[1] \in Records
    BY <1>2
  <2>. QED
    BY <1>1, <2>1, <2>2
<1>4. \A n \in 0..Len(s) : f[n] = IF n = 0 THEN 0 ELSE f[n - 1] + s[n].count
  BY <1>1 DEF Sums
<1>. DEFINE g == [n \in 0..Len(s2) |-> f[n + 1] - s[1].count]
<1>5. Sums(g, s2)
  <2>1. ASSUME NEW n \in 0..Len(s2)
        PROVE  g[n] = IF n = 0 THEN 0 ELSE g[n - 1] + s2[n].count
    <3>1. CASE n = 0
      <4>1. f[1] = f[0] + s[1].count /\ f[0] = 0
        <5>1. 1 \in 0..Len(s) /\ 0 \in 0..Len(s) /\ 1 - 1 = 0 /\ 1 # 0
          BY <1>2
        <5>. QED
          BY <1>4, <5>1
      <4>. QED
        BY <1>2, <1>3, <3>1, <4>1
    <3>2. CASE n # 0
      <4>1. /\ n \in 1..Len(s2) /\ n - 1 \in 0..Len(s2) /\ n + 1 \in 0..Len(s) /\ n \in 0..Len(s)
            /\ n + 1 # 0 /\ (n + 1) - 1 = n /\ (n - 1) + 1 = n
        BY <1>2, <3>2
      <4>2. f[n + 1] = f[n] + s[n + 1].count /\ s2[n] = s[n + 1]
        BY <1>4, <4>1
      <4>3. f[n] \in Nat /\ f[n + 1] \in Nat /\ s[n + 1].count \in Nat
        <5>1. s[n + 1] \in Records
          BY <1>2, <4>1
        <5>. QED
          BY <1>3, <4>1, <5>1
      <4>4. g[n] = f[n + 1] - s[1].count /\ g[n - 1] = f[n] - s[1].count
        BY <4>1
      <4>. QED
        BY <1>3, <3>2, <4>2, <4>3, <4>4
    <3>. QED
      BY <3>1, <3>2
  <2>. QED
    BY <2>1 DEF Sums
<1>6. Reports(s2) = g[Len(s2)] /\ Reports(s) = f[Len(s)]
  <2>. HIDE DEF g
  <2>. QED
    BY <1>1, <1>5, ReportsIsSum
<1>7. g[Len(s2)] = f[Len(s)] - s[1].count
  BY <1>2
<1>8. f[Len(s)] \in Nat
  BY <1>2, <1>3
<1>. QED
  BY <1>3, <1>6, <1>7, <1>8

\* What was dropped is on its way to the host: the record being written, if it is a report,
\* carries all that is pending.
CountInv ==
    /\ writer.pc # "idle" =>
            writer.record.count = IF writer.record.kind = "dropped" THEN pending_dropped ELSE 0
    /\ DropCountExact

LEMMA HeldMoves ==
    ASSUME TypeOK, RingInv, TypeOK', RingInv'
    PROVE  /\ Reports(Held) \in Nat /\ Reports(Held)' \in Nat
           /\ Unmoved => Reports(Held)' = Reports(Held)
           /\ Published => Reports(Held)' = Reports(Held) + writer.record.count
           /\ Popped => Reports(Held) = Stream(1).count + Reports(Held)'
<1>1. /\ Held \in Seq(Records) /\ Len(Held) = Count
      /\ \A i \in 1..Count : Held[i] = Stream(i)
  BY HeldNow
<1>2. /\ Held' \in Seq(Records) /\ Len(Held') = Count'
      /\ \A i \in 1..Count' : Held'[i] = Stream(i)'
  BY HeldNext
<1>3. Count \in Nat /\ Count' \in Nat
  BY CountBounds
<1>4. Reports(Held) \in Nat /\ Reports(Held)' \in Nat
  BY <1>1, <1>2, ReportsEmpty
<1>5. ASSUME Unmoved
      PROVE  Reports(Held)' = Reports(Held)
  <2>1. Len(Held') = Len(Held) /\ \A i \in 1..Len(Held) : Held'[i] = Held[i]
    BY <1>1, <1>2, <1>3, <1>5 DEF Unmoved
  <2>2. Held' = Held
    BY <1>1, <1>2, <2>1, SeqEqual
  <2>. QED
    BY <2>2
<1>6. ASSUME Published
      PROVE  Reports(Held)' = Reports(Held) + writer.record.count
  <2>1. Len(Held') = Len(Held) + 1 /\ \A i \in 1..Len(Held) : Held'[i] = Held[i]
    BY <1>1, <1>2, <1>3, <1>6 DEF Published
  <2>2. Reports(Held') = Reports(Held) + Held'[Len(Held')].count
    BY <1>1, <1>2, <2>1, ReportsAppend
  <2>3. Held'[Len(Held')] = Stream(Count)'
    <3>1. Count' \in 1..Count'
      BY <1>3, <1>6 DEF Published
    <3>2. Held'[Count'] = Stream(Count)'
      BY <1>2, <3>1
    <3>. QED
      BY <1>2, <3>2
  <2>4. Stream(Count)' = writer.record
    BY <1>6 DEF Published
  <2>. QED
    BY <2>2, <2>3, <2>4
<1>7. ASSUME Popped
      PROVE  Reports(Held) = Stream(1).count + Reports(Held)'
  <2>1. Len(Held) = Len(Held') + 1
    BY <1>1, <1>2, <1>3, <1>7 DEF Popped
  <2>2. ASSUME NEW i \in 1..Len(Held')
        PROVE  Held'[i] = Held[i + 1]
    <3>a. Count' = Count - 1 /\ Len(Held') = Count'
      BY <1>2, <1>7 DEF Popped
    <3>1. i \in 1..Count' /\ i \in 0..(Count - 1) /\ i + 1 \in 1..Count
      BY <1>3, <3>a
    <3>2. Held'[i] = Stream(i + 1)
      BY <1>2, <1>7, <3>1 DEF Popped
    <3>. QED
      BY <1>1, <3>1, <3>2
  <2>3. Reports(Held) = Held[1].count + Reports(Held')
    BY <1>1, <1>2, <2>1, <2>2, ReportsTail
  <2>4. Held[1] = Stream(1)
    BY <1>1, <1>3, <1>7 DEF Popped
  <2>. QED
    BY <2>3, <2>4
<1>. QED
  BY <1>4, <1>5, <1>6, <1>7

LEMMA InitCounts == SlotsDivideWord /\ Init => CountInv
<1>. SUFFICES ASSUME Init PROVE CountInv
  OBVIOUS
<1>1. Held = <<>>
  BY InitRefines DEF Queue!Init
<1>2. writer.pc = "idle" /\ pending_dropped = 0 /\ history.dropped = 0 /\ history.reported = 0
  BY DEF Init
<1>. QED
  BY <1>1, <1>2, ReportsEmpty DEF CountInv, DropCountExact

LEMMA StepCounts ==
    ASSUME SlotsDivideWord, TypeOK, RingInv, CountInv, [Next]_vars
    PROVE  CountInv'
<1>. USE DEF contextVars, ringVars, hostVars
<1>1. TypeOK' /\ RingInv'
  BY StepType, StepRing
<1>2. /\ Reports(Held) \in Nat /\ Reports(Held)' \in Nat
      /\ Unmoved => Reports(Held)' = Reports(Held)
      /\ Published => Reports(Held)' = Reports(Held) + writer.record.count
      /\ Popped => Reports(Held) = Stream(1).count + Reports(Held)'
  BY <1>1, HeldMoves
<1>3. /\ pending_dropped \in Nat /\ history.dropped \in Nat /\ history.reported \in Nat
      /\ history \in Histories /\ Word \in Nat
  BY Sizes DEF TypeOK, Histories
<1>4. CASE \E step \in Steps : Emit(step)
  <2>1. Unmoved
    BY <1>4, StepMoves DEF Next, Emit, WritePublish, ReadPop
  <2>2. UNCHANGED <<pending_dropped, history.dropped, history.reported>>
    BY <1>3, <1>4 DEF Emit, StartWrite, Histories
  <2>3. writer'.record.count = IF writer'.record.kind = "dropped" THEN pending_dropped' ELSE 0
    BY <1>4 DEF Emit, StartWrite, Record
  <2>. QED
    BY <1>2, <2>1, <2>2, <2>3 DEF CountInv, DropCountExact
<1>5. CASE WriteFull
  <2>1. Unmoved
    BY <1>5, StepMoves DEF Next, WriteFull, WritePublish, ReadPop
  <2>2. /\ history'.dropped = history.dropped + 1 /\ history'.reported = history.reported
        /\ pending_dropped' = Increment(pending_dropped) /\ writer'.pc = "idle"
    BY <1>3, <1>5 DEF WriteFull, Histories
  <2>3. ASSUME history'.dropped < Word
        PROVE  history'.reported + Reports(Held)' + pending_dropped' = history'.dropped
    <3>1. history.reported + Reports(Held) + pending_dropped = history.dropped
      BY <1>3, <2>2, <2>3 DEF CountInv, DropCountExact
    <3>2. pending_dropped # Word - 1
      BY <1>2, <1>3, <2>2, <2>3, <3>1
    <3>3. pending_dropped' = pending_dropped + 1
      BY <2>2, <3>2 DEF Increment
    <3>. QED
      BY <1>2, <1>3, <2>1, <2>2, <3>1, <3>3
  <2>. QED
    BY <2>2, <2>3 DEF CountInv, DropCountExact
<1>6. CASE WriteError
  <2>1. Unmoved
    BY <1>6, StepMoves DEF Next, WriteError, WritePublish, ReadPop
  <2>2. /\ UNCHANGED <<pending_dropped, history.dropped, history.reported>>
        /\ writer'.pc = "idle"
    BY <1>3, <1>6 DEF WriteError, Histories
  <2>. QED
    BY <1>2, <2>1, <2>2 DEF CountInv, DropCountExact
<1>7. CASE WriteBegin \/ WriteCopy
  <2>1. Unmoved
    BY <1>7, StepMoves DEF Next, WriteBegin, WriteCopy, WritePublish, ReadPop
  <2>2. /\ UNCHANGED <<pending_dropped, history>>
        /\ writer.pc # "idle" /\ writer'.record = writer.record
    BY <1>7 DEF WriteBegin, WriteCopy, TypeOK, Idle
  <2>. QED
    BY <1>2, <2>1, <2>2 DEF CountInv, DropCountExact
<1>8. CASE WritePublish
  <2>1. Published
    <3>1. ~ReadPop
      BY <1>8 DEF WritePublish, ReadPop
    <3>2. Next
      BY <1>8 DEF Next
    <3>. QED
      BY <1>8, <3>1, <3>2, StepMoves
  <2>2. UNCHANGED <<history.dropped, history.reported>>
    BY <1>3, <1>8 DEF WritePublish, StartWrite, Histories
  <2>3. writer.record.count = IF writer.record.kind = "dropped" THEN pending_dropped ELSE 0
    BY <1>8 DEF WritePublish, CountInv
  <2>4. CASE writer.record.kind = "dropped"
    <3>1. pending_dropped' = 0 /\ StartWrite("event", 0, clock)
      BY <1>8, <2>4 DEF WritePublish
    <3>2. writer'.record.kind = "event" /\ writer'.record.count = 0
      BY <3>1 DEF StartWrite, Record
    <3>3. DropCountExact'
      BY <1>2, <1>3, <2>1, <2>2, <2>3, <2>4, <3>1 DEF CountInv, DropCountExact
    <3>. QED
      BY <3>2, <3>3 DEF CountInv
  <2>5. CASE writer.record.kind # "dropped"
    <3>1. writer'.pc = "idle" /\ pending_dropped' = pending_dropped
      BY <1>8, <2>5 DEF WritePublish
    <3>2. DropCountExact'
      BY <1>2, <1>3, <2>1, <2>2, <2>3, <2>5, <3>1 DEF CountInv, DropCountExact
    <3>. QED
      BY <3>1, <3>2 DEF CountInv
  <2>. QED
    BY <2>4, <2>5
<1>9. CASE ReadPeek \/ ReadCopy
  <2>1. Unmoved
    BY <1>9, StepMoves DEF Next, ReadPeek, ReadCopy, WritePublish, ReadPop
  <2>2. UNCHANGED <<pending_dropped, history, writer>>
    BY <1>9 DEF ReadPeek, ReadCopy
  <2>. QED
    BY <1>2, <2>1, <2>2 DEF CountInv, DropCountExact
<1>10. CASE ReadPop
  <2>1. Popped /\ reader.record \in Records /\ reader.record = Stream(1)
    <3>1. ~WritePublish
      BY <1>10 DEF WritePublish, ReadPop
    <3>2. Next
      BY <1>10 DEF Next
    <3>. QED
      BY <1>10, <3>1, <3>2, StepMoves
  <2>2. UNCHANGED <<pending_dropped, writer>>
    BY <1>10 DEF ReadPop
  <2>3. reader.record.kind # "torn" /\ reader.record.count \in Nat
    BY <2>1, Sizes DEF Records
  <2>4. /\ history'.dropped = history.dropped
        /\ history'.reported = history.reported + reader.record.count
    BY <1>3, <1>10, <2>3 DEF ReadPop, Histories
  <2>5. DropCountExact'
    BY <1>2, <1>3, <2>1, <2>2, <2>3, <2>4 DEF CountInv, DropCountExact
  <2>. QED
    BY <2>2, <2>5 DEF CountInv
<1>11. CASE UNCHANGED vars
  <2>1. Held' = Held
    BY <1>11 DEF vars, Held
  <2>2. UNCHANGED <<pending_dropped, history, writer>>
    BY <1>11 DEF vars
  <2>. QED
    BY <2>1, <2>2 DEF CountInv, DropCountExact
<1>. QED
  BY <1>4, <1>5, <1>6, <1>7, <1>8, <1>9, <1>10, <1>11 DEF Next

\* Counts reported, in the ring and still to be reported add up to the events dropped, as
\* long as the counter of the firmware does not saturate, whatever fails on the way.
THEOREM DropCountAlwaysExact == SlotsDivideWord => (Spec => []DropCountExact)
<1>. SUFFICES ASSUME SlotsDivideWord PROVE Spec => []DropCountExact
  OBVIOUS
<1>1. Init => CountInv
  BY InitCounts
<1>2. (TypeOK /\ RingInv) /\ CountInv /\ [Next]_vars => CountInv'
  BY StepCounts
<1>3. CountInv => DropCountExact
  BY DEF CountInv
<1>. QED
  BY <1>1, <1>2, <1>3, RingInvariant, PTL DEF Spec

-----------------------------------------------------------------------------
(* The invariant of the stream *)

LEMMA FollowsGrows ==
    ASSUME NEW a \in Records \cup {None}, NEW b \in Records,
           NEW lost \in Nat, NEW errors \in Nat, Follows(a, b, lost, errors),
           NEW lost2 \in Nat, NEW errors2 \in Nat, lost <= lost2, errors <= errors2
    PROVE  Follows(a, b, lost2, errors2)
BY DEF Follows, Records

LEMMA NextNumber ==
    ASSUME NEW a \in Nat
    PROVE  ((a % Word) + 1) % Word = (a + 1) % Word
<1>1. a % Word \in 0..(Word - 1) /\ a = (a \div Word) * Word + (a % Word) /\ a \div Word \in Int
  BY Sizes, Division
<1>2. CASE (a % Word) + 1 < Word
  <2>1. a + 1 = (a \div Word) * Word + ((a % Word) + 1) /\ (a % Word) + 1 \in 0..(Word - 1)
    BY <1>1, <1>2, Sizes
  <2>2. ((a \div Word) * Word + ((a % Word) + 1)) % Word = (a % Word) + 1
    BY <1>1, <2>1, Sizes, Remainder
  <2>3. ((a % Word) + 1) % Word = (a % Word) + 1
    BY <2>1, Sizes
  <2>4. QED
    BY <2>1, <2>2, <2>3
<1>3. CASE (a % Word) + 1 = Word
  <2>1. a + 1 = ((a \div Word) + 1) * Word + 0 /\ (a \div Word) + 1 \in Int /\ 0 \in 0..(Word - 1)
    BY <1>1, <1>3, Sizes
  <2>2. (((a \div Word) + 1) * Word + 0) % Word = 0
    BY <2>1, Sizes, Remainder
  <2>3. Word % Word = 0
    BY Sizes
  <2>4. QED
    BY <1>3, <2>1, <2>2, <2>3
<1>4. QED
  BY <1>1, <1>2, <1>3, Sizes

LEMMA StreamTypes ==
    ASSUME TypeOK, RingInv
    PROVE  /\ \A k \in 1..Count : Stream(k) \in Records
           /\ \A k \in 0..Count : Stream(k) \in Records \cup {None}
           /\ Newest \in Records \cup {None}
           /\ Lost \in Nat /\ history.errors \in Nat /\ history.attempts \in Nat
           /\ clock.event \in Nat /\ clock.tick \in Nat
<1>1. Count \in 0..(Word - 1)
  BY RingBounds
<1>2. Stream(0) \in Records \cup {None}
  BY DEF TypeOK, Histories, Stream
<1>3. \A k \in 1..Count : Stream(k) \in Records
  BY DEF RingInv
<1>4. \A k \in 0..Count : k = 0 \/ k \in 1..Count
  BY <1>1
<1>5. \A k \in 0..Count : Stream(k) \in Records \cup {None}
  BY <1>2, <1>3, <1>4
<1>6. Count \in 0..Count
  BY <1>1
<1>7. /\ Lost \in Nat /\ history.errors \in Nat /\ history.attempts \in Nat
      /\ clock.event \in Nat /\ clock.tick \in Nat
  BY DEF TypeOK, Histories, Lost
<1>8. QED
  BY <1>3, <1>5, <1>6, <1>7 DEF Newest

LEMMA NewestMoves ==
    ASSUME TypeOK
    PROVE  /\ Unmoved => Newest' = Newest
           /\ Published => Newest' = writer.record
           /\ Popped => Newest' = Newest
<1>1. Count \in 0..(Word - 1)
  BY RingBounds
<1>2. ASSUME Unmoved PROVE Newest' = Newest
  <2>1. Count \in 0..Count /\ Count' = Count
    BY <1>1, <1>2 DEF Unmoved
  <2>2. Newest' = Stream(Count)'
    BY DEF Newest
  <2>3. QED
    BY <1>2, <2>1, <2>2 DEF Unmoved, Newest, Stream, SlotAt
<1>3. ASSUME Published PROVE Newest' = writer.record
  BY <1>3 DEF Published, Newest
<1>4. ASSUME Popped PROVE Newest' = Newest
  <2>1. PICK k \in Nat : k = Count - 1
    BY <1>1, <1>4 DEF Popped
  <2>2. k \in 0..(Count - 1) /\ Count' = k /\ k + 1 = Count
    BY <1>1, <1>4, <2>1 DEF Popped
  <2>3. Newest' = Stream(k)'
    BY <2>2 DEF Newest, Stream, SlotAt
  <2>4. QED
    BY <1>4, <2>2, <2>3 DEF Popped, Newest
<1>5. QED
  BY <1>2, <1>3, <1>4

LEMMA SequenceUnmoved ==
    ASSUME TypeOK, TypeOK', RingInv, RingInv', Unmoved,
           \A k \in 1..Count : InSequence(k),
           Lost <= Lost', history.errors <= history'.errors
    PROVE  \A k \in 1..Count' : InSequence(k)'
<1> SUFFICES ASSUME NEW k \in 1..Count' PROVE InSequence(k)'
  OBVIOUS
<1>1. k \in 1..Count /\ k - 1 \in 0..Count /\ k \in 0..Count
  BY CountBounds DEF Unmoved
<1>2. Stream(k)' = Stream(k) /\ Stream(k - 1)' = Stream(k - 1)
  BY <1>1 DEF Unmoved
<1>3. /\ Lost \in Nat /\ history.errors \in Nat /\ Lost' \in Nat /\ history'.errors \in Nat
      /\ Stream(k) \in Records /\ Stream(k - 1) \in Records \cup {None}
  <2>1. history \in Histories /\ history' \in Histories
    BY DEF TypeOK
  <2>2. Lost \in Nat /\ history.errors \in Nat /\ Lost' \in Nat /\ history'.errors \in Nat
    BY <2>1 DEF Histories, Lost
  <2>3. QED
    BY <1>1, <2>2, StreamTypes
<1>4. Follows(Stream(k - 1), Stream(k), Lost', history'.errors)
  BY <1>1, <1>3, FollowsGrows DEF InSequence
<1>5. QED
  BY <1>1, <1>2, <1>4 DEF InSequence, Stamped

LEMMA SequencePublished ==
    ASSUME TypeOK, TypeOK', RingInv, Published,
           \A k \in 1..Count : InSequence(k),
           Lost' = Lost, history'.errors = history.errors,
           Stamped(writer.record), Follows(Newest, writer.record, Lost, history.errors)
    PROVE  \A k \in 1..Count' : InSequence(k)'
<1> SUFFICES ASSUME NEW k \in 1..Count' PROVE InSequence(k)'
  OBVIOUS
<1>1. Count \in Nat /\ Count' = Count + 1
  BY CountBounds DEF Published
<1>2. CASE k \in 1..Count
  <2>1. k - 1 \in 0..Count /\ k \in 0..Count
    BY <1>1, <1>2
  <2>2. Stream(k)' = Stream(k) /\ Stream(k - 1)' = Stream(k - 1)
    BY <2>1 DEF Published
  <2>3. QED
    BY <1>2, <2>2 DEF InSequence, Stamped
<1>3. CASE k = Count'
  <2>1. k - 1 = Count /\ k - 1 \in 0..Count
    BY <1>1, <1>3
  <2>2. Stream(k - 1)' = Newest
    BY <2>1 DEF Published, Newest
  <2>3. Stream(k)' = writer.record
    BY <1>3, NewestMoves DEF Newest, Stream, SlotAt
  <2>4. QED
    BY <2>2, <2>3 DEF InSequence, Stamped
<1>4. QED
  BY <1>1, <1>2, <1>3

LEMMA SequencePopped ==
    ASSUME TypeOK, TypeOK', RingInv, Popped,
           \A k \in 1..Count : InSequence(k),
           Lost' = Lost, history'.errors = history.errors
    PROVE  \A k \in 1..Count' : InSequence(k)'
<1> SUFFICES ASSUME NEW k \in 1..Count' PROVE InSequence(k)'
  OBVIOUS
<1>1. /\ k \in 0..(Count - 1) /\ k - 1 \in 0..(Count - 1) /\ k + 1 \in 1..Count
      /\ (k - 1) + 1 = k /\ (k + 1) - 1 = k
  BY CountBounds DEF Popped
<1>2. Stream(k)' = Stream(k + 1) /\ Stream(k - 1)' = Stream((k - 1) + 1)
  BY <1>1 DEF Popped
<1>3. InSequence(k + 1)
  BY <1>1
<1>4. QED
  BY <1>1, <1>2, <1>3 DEF InSequence, Stamped

LEMMA InitStream == Init => StreamInv
<1> SUFFICES ASSUME Init PROVE StreamInv
  OBVIOUS
<1>1. Count = 0
  BY Sizes DEF Init, Count
<1>2. next_sequence \in 0..(Word - 1)
  BY SizesAssumption DEF Init, SizesAssumption
<1>3. WriterInv
  BY <1>2, Sizes DEF Init, WriterInv
<1>4. Newest = None
  BY <1>1 DEF Newest, Stream, Init
<1>5. QED
  BY <1>1, <1>3, <1>4 DEF StreamInv, NewestInv

\* A write starts behind the newest record: with nothing to report, or with a report.
LEMMA StartFollows ==
    ASSUME TypeOK, TypeOK', RingInv, WriterInv, NEW kind \in {"event", "dropped"},
           NEW count \in 0..(Word - 1), clock' \in [event : Nat, tick : Nat],
           StartWrite(kind, count, clock'), Newest' \in Records \cup {None},
           Newest' # None =>
                /\ Newest'.attempt < history.attempts
                /\ history.attempts - Newest'.attempt - 1 <= Lost
                /\ Newest'.kind = "event" /\ kind = "event" =>
                        history.attempts - Newest'.attempt - 1 <= history.errors
                /\ history.attempts = Newest'.attempt + 1 => clock'.event <= Newest'.id + 1
                /\ Newest'.tick <= clock'.tick,
           kind = "dropped" => pending_dropped' > 0
    PROVE  /\ WriterInv' /\ NewestInv'
           /\ Lost' = Lost /\ history'.errors = history.errors
<1>1. history \in Histories /\ history' \in Histories
  BY DEF TypeOK
<1>2. history' = [history EXCEPT !.attempts = history.attempts + 1]
  BY DEF StartWrite
<1>3. /\ history.attempts \in Nat /\ history'.attempts = history.attempts + 1
      /\ Lost' = Lost /\ history'.errors = history.errors
      /\ Lost \in Nat /\ history.errors \in Nat
  BY <1>1, <1>2 DEF Histories, Lost
<1>4. next_sequence' = history'.attempts % Word
  BY <1>3, NextNumber DEF StartWrite, WriterInv
<1>5. DEFINE r == Record(kind, count, clock')
<1>6. /\ writer'.pc = "load" /\ writer'.record = r
  BY DEF StartWrite
<1>7. /\ r.sequence = history.attempts % Word /\ r.ticks = clock'.tick % TickModulus
      /\ r.attempt = history.attempts /\ r.id = clock'.event /\ r.tick = clock'.tick
      /\ r.kind = kind
  BY DEF Record, WriterInv
<1>8. Stamped(r)
  BY <1>7 DEF Stamped
<1> HIDE DEF r
<1>9. Follows(Newest', r, Lost', history'.errors)
  BY <1>3, <1>7 DEF Follows
<1>10. WriterInv'
  BY <1>3, <1>4, <1>6, <1>7, <1>8, <1>9 DEF WriterInv, Stamped
<1>11. NewestInv'
  BY <1>6 DEF NewestInv
<1>12. QED
  BY <1>3, <1>10, <1>11

LEMMA StepStream ==
    ASSUME SlotsDivideWord, TypeOK, RingInv, StreamInv, [Next]_vars
    PROVE  StreamInv'
<1> USE DEF contextVars, ringVars, hostVars
<1>1. TypeOK' /\ RingInv'
  BY StepType, StepRing
<1>2. \A k \in 1..Count : InSequence(k)
  BY DEF StreamInv
<1>3. history \in Histories /\ history' \in Histories
  BY <1>1 DEF TypeOK
<1>4. /\ Newest \in Records \cup {None} /\ Lost \in Nat /\ history.errors \in Nat
      /\ history.attempts \in Nat /\ clock.event \in Nat /\ clock.tick \in Nat
  BY StreamTypes
<1>5. CASE UNCHANGED vars
  BY <1>5 DEF vars, StreamInv, Newest, Stream, SlotAt, Count, InSequence, Lost, WriterInv,
              NewestInv, Stamped
<1>6. ASSUME NEW step \in Steps, Emit(step) PROVE StreamInv'
  <2>1. Unmoved /\ Newest' = Newest
    BY <1>6, StepMoves, NewestMoves DEF Next, Emit, WritePublish, ReadPop
  <2>2. /\ clock' \in [event : Nat, tick : Nat] /\ clock'.event = clock.event + 1
        /\ clock.tick <= clock'.tick
    BY <1>1, <1>4, <1>6, SizesAssumption DEF Emit, TypeOK, SizesAssumption
  <2>3. \/ pending_dropped = 0 /\ StartWrite("event", 0, clock')
        \/ pending_dropped > 0 /\ pending_dropped' = pending_dropped
           /\ StartWrite("dropped", pending_dropped, clock')
    BY <1>6 DEF Emit, TypeOK
  <2>4. Newest # None =>
            /\ Newest.attempt < history.attempts
            /\ history.attempts - Newest.attempt - 1 <= Lost
            /\ Newest.kind = "event" /\ pending_dropped = 0 =>
                    history.attempts - Newest.attempt - 1 <= history.errors
            /\ history.attempts = Newest.attempt + 1 => clock'.event <= Newest.id + 1
            /\ Newest.tick <= clock'.tick
    <3>1. writer.pc = "idle"
      BY <1>6 DEF Emit
    <3>2. CASE Newest # None
      BY <1>4, <2>2, <3>1, <3>2 DEF StreamInv, NewestInv, Records
    <3>3. QED
      BY <3>2
  <2>5. WriterInv
    BY DEF StreamInv
  <2>6. /\ WriterInv' /\ NewestInv' /\ Lost' = Lost /\ history'.errors = history.errors
    <3>1. pending_dropped \in 0..(Word - 1) /\ 0 \in 0..(Word - 1)
      BY Sizes DEF TypeOK
    <3>2. CASE pending_dropped = 0 /\ StartWrite("event", 0, clock')
      BY <1>1, <1>4, <2>1, <2>2, <2>4, <2>5, <3>1, <3>2, StartFollows
    <3>3. CASE pending_dropped > 0 /\ pending_dropped' = pending_dropped
               /\ StartWrite("dropped", pending_dropped, clock')
      BY <1>1, <1>4, <2>1, <2>2, <2>4, <2>5, <3>1, <3>3, StartFollows
    <3>4. QED
      BY <2>3, <3>2, <3>3
  <2>7. \A k \in 1..Count' : InSequence(k)'
    BY <1>1, <1>2, <1>4, <2>1, <2>6, SequenceUnmoved
  <2>8. QED
    BY <2>6, <2>7 DEF StreamInv
<1>7. CASE WriteFull
  <2>1. Unmoved /\ Newest' = Newest
    BY <1>7, StepMoves, NewestMoves DEF Next, WriteFull, WritePublish, ReadPop
  <2>2. /\ Lost' = Lost + 1 /\ history'.errors = history.errors
        /\ history'.attempts = history.attempts
    BY <1>3, <1>7 DEF WriteFull, Lost, Histories
  <2>3. pending_dropped' > 0
    BY <1>7, Sizes DEF WriteFull, Increment, TypeOK
  <2>4. writer.pc = "load" /\ writer'.pc = "idle" /\ UNCHANGED <<clock, next_sequence>>
    BY <1>7 DEF WriteFull
  <2>5. WriterInv'
    BY <2>2, <2>4 DEF StreamInv, WriterInv
  <2>6. NewestInv'
    BY <1>4, <2>1, <2>2, <2>3, <2>4 DEF StreamInv, WriterInv, NewestInv, Follows, Records
  <2>7. \A k \in 1..Count' : InSequence(k)'
    BY <1>1, <1>2, <1>4, <2>1, <2>2, SequenceUnmoved
  <2>8. QED
    BY <2>5, <2>6, <2>7 DEF StreamInv
<1>8. CASE WriteError
  <2>1. Unmoved /\ Newest' = Newest
    BY <1>8, StepMoves, NewestMoves DEF Next, WriteError, WritePublish, ReadPop
  <2>2. /\ Lost' = Lost + 1 /\ history'.errors = history.errors + 1
        /\ history'.attempts = history.attempts
    BY <1>3, <1>8 DEF WriteError, Lost, Histories
  <2>3. /\ writer.pc = "load" /\ writer'.pc = "idle"
        /\ UNCHANGED <<clock, next_sequence, pending_dropped>>
    BY <1>8 DEF WriteError
  <2>4. WriterInv'
    BY <2>2, <2>3 DEF StreamInv, WriterInv
  <2>5. writer.record \in Records /\ (writer.record.kind = "event" \/ pending_dropped' > 0)
    <3>1. writer.record \in Records
      BY <2>3 DEF TypeOK, Idle
    <3>2. QED
      BY <2>3, <3>1 DEF StreamInv, WriterInv, Records
  <2>6. NewestInv'
    BY <1>4, <2>1, <2>2, <2>3, <2>5 DEF StreamInv, WriterInv, NewestInv, Follows, Records
  <2>7. \A k \in 1..Count' : InSequence(k)'
    BY <1>1, <1>2, <1>4, <2>1, <2>2, SequenceUnmoved
  <2>8. QED
    BY <2>4, <2>6, <2>7 DEF StreamInv
<1>9. CASE WriteBegin \/ WriteCopy
  <2>1. Unmoved /\ Newest' = Newest
    <3>1. ~WritePublish /\ ~ReadPop
      BY <1>9 DEF WriteBegin, WriteCopy, WritePublish, ReadPop
    <3>2. QED
      BY <1>9, <3>1, StepMoves, NewestMoves DEF Next
  <2>2. /\ writer.pc # "idle" /\ writer'.pc # "idle" /\ writer'.record = writer.record
        /\ UNCHANGED <<next_sequence, pending_dropped, clock, history>>
    BY <1>9 DEF WriteBegin, WriteCopy, TypeOK, Idle
  <2>3. WriterInv' /\ NewestInv' /\ Lost' = Lost
    BY <2>1, <2>2 DEF StreamInv, WriterInv, NewestInv, Stamped, Lost
  <2>4. \A k \in 1..Count' : InSequence(k)'
    BY <1>1, <1>2, <1>4, <2>1, <2>2, <2>3, SequenceUnmoved
  <2>5. QED
    BY <2>3, <2>4 DEF StreamInv
<1>10. CASE WritePublish
  <2>1. Published /\ Newest' = writer.record
    BY <1>10, StepMoves, NewestMoves DEF Next, Unmoved, WritePublish, ReadPop
  <2>2. writer.pc # "idle" /\ writer.record \in Records
    BY <1>10 DEF WritePublish, TypeOK, Idle
  <2>3. /\ Stamped(writer.record) /\ Follows(Newest, writer.record, Lost, history.errors)
        /\ writer.record.attempt = history.attempts - 1
        /\ writer.record.id = clock.event /\ writer.record.tick = clock.tick
        /\ WriterInv
    BY <2>2 DEF StreamInv, WriterInv
  <2>4. /\ clock' = clock /\ clock' \in [event : Nat, tick : Nat] /\ 0 \in 0..(Word - 1)
    BY <1>10, Sizes DEF WritePublish, TypeOK
  <2>5. WriterInv' /\ NewestInv' /\ Lost' = Lost /\ history'.errors = history.errors
    <3>1. CASE writer.record.kind = "dropped" /\ StartWrite("event", 0, clock)
      <4>1. StartWrite("event", 0, clock')
        BY <2>4, <3>1
      <4>2. /\ Newest' \in Records /\ Newest'.attempt < history.attempts
            /\ history.attempts - Newest'.attempt - 1 <= Lost
            /\ Newest'.kind # "event"
            /\ clock'.event <= Newest'.id + 1
            /\ Newest'.tick <= clock'.tick
        BY <1>4, <2>1, <2>2, <2>3, <2>4, <3>1 DEF Records
      <4>3. QED
        BY <1>1, <2>3, <2>4, <4>1, <4>2, StartFollows
    <3>2. CASE writer'.pc = "idle" /\ UNCHANGED <<next_sequence, pending_dropped, history>>
      <4>1. WriterInv' /\ Lost' = Lost
        BY <2>3, <3>2 DEF WriterInv, Lost
      <4>2. NewestInv'
        BY <1>4, <2>1, <2>2, <2>3, <2>4, <3>2, <4>1 DEF NewestInv, Records
      <4>3. QED
        BY <3>2, <4>1, <4>2
    <3>3. QED
      BY <1>10, <3>1, <3>2 DEF WritePublish
  <2>6. \A k \in 1..Count' : InSequence(k)'
    BY <1>1, <1>2, <2>1, <2>3, <2>5, SequencePublished
  <2>7. QED
    BY <2>5, <2>6 DEF StreamInv
<1>11. CASE ReadPeek \/ ReadCopy
  <2>1. UNCHANGED <<next_sequence, pending_dropped, slots, write_position, read_position,
                    writer, clock, history>>
    BY <1>11 DEF ReadPeek, ReadCopy
  <2>2. QED
    BY <2>1 DEF StreamInv, Newest, Stream, SlotAt, Count, InSequence, Lost, WriterInv,
                NewestInv, Stamped
<1>12. CASE ReadPop
  <2>1. Popped /\ Newest' = Newest /\ reader.record \in Records
    <3>1. reader.pc = "pop"
      BY <1>12 DEF ReadPop
    <3>2. Popped /\ reader.record \in Records
      BY <1>12, <3>1, StepMoves DEF Next, WritePublish, ReadPop
    <3>3. QED
      BY <3>2, NewestMoves
  <2>2. history' = [history EXCEPT !.last = reader.record,
                                   !.first = IF @ = None THEN reader.record ELSE @,
                                   !.reported = @ + reader.record.count,
                                   !.aliased = @ \/ Aliases(reader.record)]
    BY <1>12, <2>1, RecordsAreProper DEF ReadPop
  <2>3. /\ history'.attempts = history.attempts /\ history'.errors = history.errors
        /\ Lost' = Lost
    BY <1>3, <2>2 DEF Histories, Lost
  <2>4. UNCHANGED <<next_sequence, pending_dropped, writer, clock>>
    BY <1>12 DEF ReadPop
  <2>5. WriterInv' /\ NewestInv'
    BY <2>1, <2>3, <2>4 DEF StreamInv, WriterInv, NewestInv, Stamped
  <2>6. \A k \in 1..Count' : InSequence(k)'
    BY <1>1, <1>2, <2>1, <2>3, SequencePopped
  <2>7. QED
    BY <2>5, <2>6 DEF StreamInv
<1>13. QED
  BY <1>5, <1>6, <1>7, <1>8, <1>9, <1>10, <1>11, <1>12 DEF Next

-----------------------------------------------------------------------------
(* Wrapping counters, and the time scale *)

LEMMA AddMultiple ==
    ASSUME NEW n \in Nat \ {0}, NEW x \in Int, NEW q \in Int
    PROVE  (x + q * n) % n = x % n
<1>1. x % n \in 0..(n - 1) /\ x = (x \div n) * n + (x % n) /\ x \div n \in Int
  BY Division
<1>2. x + q * n = ((x \div n) + q) * n + (x % n) /\ (x \div n) + q \in Int
  BY <1>1
<1>3. (((x \div n) + q) * n + (x % n)) % n = x % n
  BY <1>1, <1>2, Remainder
<1>4. QED
  BY <1>2, <1>3

\* The distance of two counters can be read from their wrapped values.
LEMMA WrappedDistance ==
    ASSUME NEW n \in Nat \ {0}, NEW a \in Nat, NEW b \in Nat
    PROVE  /\ ((b % n) - (a % n)) % n = (b - a) % n
           /\ ((b % n) - (a % n) - 1) % n = (b - a - 1) % n
<1>1. /\ a % n \in 0..(n - 1) /\ a = (a \div n) * n + (a % n) /\ a \div n \in Int
      /\ b % n \in 0..(n - 1) /\ b = (b \div n) * n + (b % n) /\ b \div n \in Int
  BY Division
<1> DEFINE x == (b % n) - (a % n)
           y == (b % n) - (a % n) - 1
           q == (b \div n) - (a \div n)
<1>2. x \in Int /\ y \in Int /\ q \in Int
  BY <1>1
<1>3. b - a = x + q * n /\ b - a - 1 = y + q * n
  BY <1>1
<1> HIDE DEF x, y, q
<1>4. (x + q * n) % n = x % n /\ (y + q * n) % n = y % n
  BY <1>2, AddMultiple
<1>5. QED
  BY <1>3, <1>4 DEF x, y

\* The number of the next record, from its wrapped number.
LEMMA NumberStep ==
    ASSUME NEW epoch \in Nat, NEW last \in 0..(Word - 1), NEW raw \in 0..(Word - 1),
           (raw - last - 1) % Word < Word \div 2
    PROVE  (IF raw < last THEN epoch + Word ELSE epoch) + raw
                = epoch + last + 1 + ((raw - last - 1) % Word)
<1>1. CASE raw < last
  <2>1. (raw - last - 1) + 1 * Word \in 0..(Word - 1) /\ raw - last - 1 \in Int
    BY <1>1, Sizes
  <2>2. ((raw - last - 1) + 1 * Word) % Word = (raw - last - 1) % Word
    <3>1. Word \in Nat \ {0} /\ 1 \in Int
      BY Sizes
    <3> DEFINE x == raw - last - 1
    <3>2. x \in Int
      OBVIOUS
    <3> HIDE DEF x
    <3>3. (x + 1 * Word) % Word = x % Word
      BY <3>1, <3>2, AddMultiple
    <3>4. QED
      BY <3>3 DEF x
  <2>3. ((raw - last - 1) + 1 * Word) % Word = (raw - last - 1) + 1 * Word
    BY <2>1, Sizes
  <2>4. QED
    BY <1>1, <2>2, <2>3, Sizes
<1>2. CASE raw > last
  <2>1. raw - last - 1 \in 0..(Word - 1)
    BY <1>2, Sizes
  <2>2. (raw - last - 1) % Word = raw - last - 1
    BY <2>1, Sizes
  <2>3. QED
    BY <1>2, <2>2, Sizes
<1>3. CASE raw = last
  <2>1. raw - last - 1 = -1 /\ -1 + 1 * Word \in 0..(Word - 1)
    BY <1>3, Sizes
  <2>2. (-1) % Word = Word - 1
    BY Sizes
  <2>3. QED
    BY <2>1, <2>2, Sizes
<1>4. QED
  BY <1>1, <1>2, <1>3, Sizes

Unwrapped(x, raw, n) ==
    LET candidate == (x \div n) * n + raw
    IN  IF candidate < x THEN candidate + n ELSE candidate

Turned(a, b, n) == (b - a) % n

\* TimestampUnwrapper::expand advances by the wrapped distance of the two times.
LEMMA ExpandStep ==
    ASSUME NEW n \in Nat \ {0}, NEW x \in Nat, NEW a \in Nat, NEW b \in Nat,
           x % n = a % n, a <= b
    PROVE  /\ Unwrapped(x, b % n, n) = x + Turned(a, b, n)
           /\ Unwrapped(x, b % n, n) % n = b % n
<1>1. /\ x % n \in 0..(n - 1) /\ x = (x \div n) * n + (x % n) /\ x \div n \in Int
      /\ b % n \in 0..(n - 1)
  <2>1. x % n \in 0..(n - 1) /\ x = (x \div n) * n + (x % n) /\ x \div n \in Int
    BY Division
  <2>2. b % n \in 0..(n - 1)
    BY Division
  <2>3. QED
    BY <2>1, <2>2
<1> DEFINE q == x \div n
           s == x % n
           t == b % n
<1>2. (t - s) % n = (b - a) % n
  <2>1. ((b % n) - (a % n)) % n = (b - a) % n
    BY WrappedDistance
  <2>2. (b % n) - (a % n) = t - s
    OBVIOUS
  <2>3. QED
    BY <2>1, <2>2
<1>3. q \in Int /\ s \in 0..(n - 1) /\ t \in 0..(n - 1) /\ x = q * n + s /\ q * n \in Int
  BY <1>1
<1>4. q + 1 \in Int /\ (q + 1) * n + t = q * n + t + n
  BY <1>3
<1>5. (q * n + t) % n = t /\ ((q + 1) * n + t) % n = t
  BY <1>3, <1>4, Remainder
<1>6. (t - s) % n = IF t < s THEN t - s + n ELSE t - s
  BY <1>3
<1> DEFINE m == q * n
<1>7. m \in Int /\ x = m + s /\ (m + t) % n = t /\ (m + t + n) % n = t
  BY <1>3, <1>4, <1>5
<1>8. (x \div n) * n + (b % n) = m + t /\ b % n = t
  OBVIOUS
<1> HIDE DEF q, s, t, m
<1>9. (IF m + t < x THEN m + t + n ELSE m + t) = x + (IF t < s THEN t - s + n ELSE t - s)
  BY <1>3, <1>7
<1>10. Unwrapped(x, b % n, n) = IF m + t < x THEN m + t + n ELSE m + t
  BY <1>8 DEF Unwrapped
<1>11. Unwrapped(x, b % n, n) = x + ((b - a) % n)
  BY <1>2, <1>6, <1>9, <1>10
<1>12. Unwrapped(x, b % n, n) % n = b % n
  BY <1>7, <1>8, <1>10
<1>13. QED
  BY <1>11, <1>12 DEF Turned

\* RationalTickScale::ticks_to_ns is monotone: rounding never swaps two times.
LEMMA NanosecondsMonotone ==
    ASSUME NEW a \in Nat, NEW b \in Nat, a <= b
    PROVE  Nanoseconds(a) \in Nat /\ Nanoseconds(b) \in Nat /\ Nanoseconds(a) <= Nanoseconds(b)
<1> DEFINE N == Scale.num
           D == Scale.den
           qa == a \div D
           ra == a % D
           qb == b \div D
           rb == b % D
<1>1. N \in Nat \ {0} /\ D \in Nat \ {0}
  BY SizesAssumption DEF SizesAssumption
<1>2. /\ ra \in 0..(D - 1) /\ a = qa * D + ra /\ qa \in Int
      /\ rb \in 0..(D - 1) /\ b = qb * D + rb /\ qb \in Int
  <2>1. a \in Int /\ b \in Int
    OBVIOUS
  <2>2. ra \in 0..(D - 1) /\ a = qa * D + ra /\ qa \in Int
    BY <1>1, <2>1, Division
  <2>3. rb \in 0..(D - 1) /\ b = qb * D + rb /\ qb \in Int
    BY <1>1, <2>1, Division
  <2>4. QED
    BY <2>2, <2>3
<1>3. Nanoseconds(a) = qa * N + (ra * N) \div D /\ Nanoseconds(b) = qb * N + (rb * N) \div D
  BY DEF Nanoseconds
<1> HIDE DEF N, D, qa, ra, qb, rb
<1>4. qa >= 0 /\ qb >= 0
  <2>1. ASSUME NEW q \in Int, NEW r \in 0..(D - 1), q * D + r >= 0 PROVE q >= 0
    <3>1. CASE q <= -1
      <4>1. q * D <= -1 * D
        BY <1>1, <3>1
      <4>2. QED
        BY <1>1, <2>1, <4>1
    <3>2. QED
      BY <3>1
  <2>2. QED
    BY <1>2, <2>1
<1>5. qa <= qb
  <2>1. CASE qb + 1 <= qa
    <3>1. (qb + 1) * D <= qa * D
      BY <1>1, <1>2, <2>1
    <3>2. (qb + 1) * D = qb * D + D
      BY <1>1, <1>2
    <3>3. QED
      BY <1>1, <1>2, <3>1, <3>2
  <2>2. QED
    BY <1>2, <2>1
<1>6. ASSUME NEW r \in 0..(D - 1)
      PROVE  /\ r * N \in Nat /\ (r * N) \div D \in Nat /\ (r * N) \div D <= N
             /\ ((r * N) \div D) * D <= r * N /\ r * N < ((r * N) \div D) * D + D
  <2>1. r * N \in Nat /\ r * N <= D * N
    BY <1>1
  <2> DEFINE x == r * N
             d == x \div D
  <2>2. x \in Nat /\ x <= D * N
    BY <2>1
  <2> HIDE DEF x
  <2>3. x % D \in 0..(D - 1) /\ x = d * D + (x % D) /\ d \in Int
    BY <1>1, <2>2, Division
  <2> HIDE DEF d
  <2>4. d >= 0
    <3>1. CASE d <= -1
      <4>1. d * D <= -1 * D
        BY <1>1, <2>3, <3>1
      <4>2. QED
        BY <1>1, <2>2, <2>3, <4>1
    <3>2. QED
      BY <2>3, <3>1
  <2>5. d <= N
    <3>1. CASE N + 1 <= d
      <4>1. (N + 1) * D <= d * D
        BY <1>1, <2>3, <3>1
      <4>2. (N + 1) * D = D * N + D
        BY <1>1
      <4>3. QED
        BY <1>1, <2>2, <2>3, <4>1, <4>2
    <3>2. QED
      BY <1>1, <2>3, <3>1
  <2>6. d * D <= x /\ x < d * D + D
    BY <1>1, <2>2, <2>3
  <2>7. QED
    BY <2>2, <2>3, <2>4, <2>5, <2>6 DEF x, d
<1> DEFINE da == (ra * N) \div D
           db == (rb * N) \div D
<1>7. /\ da \in Nat /\ da <= N /\ da * D <= ra * N /\ ra * N \in Nat
      /\ db \in Nat /\ rb * N < db * D + D /\ rb * N \in Nat
  BY <1>2, <1>6
<1> HIDE DEF da, db
<1>8. qa * N \in Nat /\ qb * N \in Nat
  BY <1>1, <1>2, <1>4
<1>9. qa * N + da <= qb * N + db
  <2>1. CASE qa = qb
    <3>1. ra <= rb
      BY <1>2, <2>1, <1>1
    <3>2. ra * N <= rb * N
      BY <1>1, <1>2, <3>1
    <3>3. da * D < db * D + D /\ db * D + D = (db + 1) * D
      BY <1>1, <1>7, <3>2
    <3>4. da <= db
      <4>1. CASE db + 1 <= da
        <5>1. (db + 1) * D <= da * D
          BY <1>1, <1>7, <4>1
        <5>2. QED
          BY <1>1, <1>7, <3>3, <5>1
      <4>2. QED
        BY <1>7, <4>1
    <3>5. QED
      BY <1>7, <1>8, <2>1, <3>4
  <2>2. CASE qa + 1 <= qb
    <3>1. (qa + 1) * N <= qb * N /\ (qa + 1) * N = qa * N + N
      BY <1>1, <1>2, <2>2
    <3>2. QED
      BY <1>1, <1>7, <1>8, <3>1
  <2>3. QED
    BY <1>2, <1>5, <2>1, <2>2
<1>10. QED
  BY <1>3, <1>7, <1>8, <1>9 DEF da, db

-----------------------------------------------------------------------------
(* The invariant of the host *)

\* A record the host has not refused: what becomes of its time and its number.
First(r) == IF history.first = None THEN r ELSE history.first
Origin(r) == IF host.origin = None THEN Expanded(r.ticks) ELSE host.origin
Late(r) == Expanded(r.ticks) - Origin(r)
Numbered(r) == Epoch(r.sequence) + r.sequence

Readable(r) == ~StepTooLarge(r.ticks) /\ ~OutOfOrder(r.sequence)

LEMMA LastTypes ==
    ASSUME TypeOK, HostType, HostStarts, history.last # None
    PROVE  /\ history.last \in Records /\ history.first \in Records
           /\ host.last_expanded \in Nat /\ host.origin \in Nat
           /\ host.last_raw_sequence \in 0..(Word - 1) /\ host.sequence_epoch \in Nat
BY DEF TypeOK, Histories, HostType, HostStarts

LEMMA GapIsLoss ==
    ASSUME TypeOK, HostType, HostStarts, HostFollows,
           history.last # None, host.stopped = None, Stamped(history.last),
           NEW r \in Records, Stamped(r), Follows(history.last, r, Lost, history.errors)
    PROVE  /\ Missing(r.sequence) = (r.attempt - history.last.attempt - 1) % Word
           /\ Missing(r.sequence) \in 0..(Word - 1)
           /\ Missing(r.sequence) <= r.attempt - history.last.attempt - 1
           /\ Missing(r.sequence) <= Lost
           /\ r.attempt - history.last.attempt <= Word =>
                Missing(r.sequence) = r.attempt - history.last.attempt - 1
<1> DEFINE a == history.last.attempt
           b == r.attempt
<1>1. a \in Nat /\ b \in Nat /\ a < b /\ b - a - 1 <= Lost /\ Word \in Nat \ {0} /\ Lost \in Nat
  <2>1. history.last \in Records
    BY LastTypes
  <2>2. a \in Nat /\ b \in Nat /\ a < b /\ b - a - 1 <= Lost
    BY <2>1 DEF Follows, Records
  <2>3. history \in Histories
    BY DEF TypeOK
  <2>4. Lost \in Nat
    BY <2>3 DEF Histories, Lost
  <2>5. QED
    BY <2>2, <2>4, Sizes
<1>2. Missing(r.sequence) = ((b % Word) - (a % Word) - 1) % Word
  BY DEF Missing, Stamped, HostFollows, HostStarts
<1> HIDE DEF a, b
<1>3. ((b % Word) - (a % Word) - 1) % Word = (b - a - 1) % Word
  BY <1>1, WrappedDistance
<1> DEFINE g == b - a - 1
<1>4. g \in Nat /\ g <= Lost
  BY <1>1
<1> HIDE DEF g
<1>5. g % Word \in 0..(Word - 1) /\ g % Word <= g /\ (g < Word => g % Word = g)
  BY <1>1, <1>4
<1>6. QED
  BY <1>1, <1>2, <1>3, <1>4, <1>5 DEF a, b, g

\* The first record of all.
LEMMA ReadFirst ==
    ASSUME TypeOK, HostType, HostStarts, history.last = None, NEW r \in Records, Stamped(r)
    PROVE  /\ Readable(r) /\ Missing(r.sequence) = 0
           /\ First(r) = r /\ Origin(r) = r.ticks /\ Expanded(r.ticks) = r.ticks
           /\ r.ticks \in Nat /\ r.ticks % TickModulus = r.ticks
           /\ Late(r) = 0 /\ Epoch(r.sequence) = 0 /\ Numbered(r) = r.sequence
<1>1. /\ host.last_expanded = None /\ host.origin = None /\ host.last_raw_sequence = None
      /\ host.sequence_epoch = 0 /\ history.first = None
  BY DEF HostStarts
<1>2. r.ticks \in 0..(TickModulus - 1) /\ r.sequence \in 0..(Word - 1)
  BY DEF Records
<1>3. Missing(r.sequence) = 0 /\ Expanded(r.ticks) = r.ticks /\ Epoch(r.sequence) = 0
  BY <1>1 DEF Missing, Expanded, Epoch
<1>4. Readable(r)
  BY <1>1, <1>3, Sizes DEF Readable, StepTooLarge, OutOfOrder
<1>5. r.ticks % TickModulus = r.ticks /\ r.ticks \in Nat
  BY <1>2, Sizes
<1>6. QED
  BY <1>1, <1>2, <1>3, <1>4, <1>5 DEF First, Origin, Late, Numbered

\* Any later one: it is behind the last, not ahead of the firmware, and where the firmware is
\* unless a counter went round unseen.
LEMMA ReadNext ==
    ASSUME TypeOK, HostType, HostStarts, HostFollows, history.last # None, host.stopped = None,
           Stamped(history.last), NEW r \in Records, Stamped(r),
           Follows(history.last, r, Lost, history.errors), Readable(r)
    PROVE  /\ First(r) = history.first /\ Origin(r) = host.origin
           /\ Expanded(r.ticks) \in Nat /\ Expanded(r.ticks) % TickModulus = r.ticks
           /\ Epoch(r.sequence) \in Nat /\ Late(r) \in Nat /\ Late(r) >= Elapsed
           /\ Late(r) <= r.tick - history.first.tick
           /\ Numbered(r) \in Nat /\ Numbered(r) >= Number + 1
           /\ Numbered(r) <= history.first.sequence + r.attempt - history.first.attempt
           /\ ~history.aliased /\ ~Aliases(r) =>
                /\ Late(r) = r.tick - history.first.tick
                /\ Numbered(r) = history.first.sequence + r.attempt - history.first.attempt
<1> DEFINE last == history.last
           first == history.first
           x == host.last_expanded
<1>1. /\ last \in Records /\ first \in Records /\ x \in Nat /\ host.origin \in Nat
      /\ host.last_raw_sequence \in 0..(Word - 1) /\ host.sequence_epoch \in Nat
  BY LastTypes
<1>2. /\ last.tick \in Nat /\ r.tick \in Nat /\ first.tick \in Nat /\ last.tick <= r.tick
      /\ last.attempt \in Nat /\ r.attempt \in Nat /\ first.attempt \in Nat
      /\ first.sequence \in Nat /\ r.sequence \in 0..(Word - 1)
      /\ last.attempt < r.attempt
  BY <1>1, Sizes DEF Records, Follows
<1>3. /\ r.ticks = r.tick % TickModulus /\ x % TickModulus = last.tick % TickModulus
  BY <1>1 DEF Stamped, HostFollows
<1>4. /\ Expanded(r.ticks) \in Nat /\ Expanded(r.ticks) % TickModulus = r.ticks
      /\ Expanded(r.ticks) = x + ((r.tick - last.tick) % TickModulus)
  <2> DEFINE a == last.tick
             b == r.tick
  <2>1. Expanded(r.ticks) = Unwrapped(x, b % TickModulus, TickModulus)
    BY <1>3 DEF Expanded, Unwrapped, HostStarts
  <2>2. x \in Nat /\ a \in Nat /\ b \in Nat /\ x % TickModulus = a % TickModulus /\ a <= b
    BY <1>1, <1>2, <1>3
  <2>3. TickModulus \in Nat \ {0} /\ r.ticks = b % TickModulus
    BY <1>3, Sizes
  <2> HIDE DEF x, last, a, b
  <2>4. /\ Unwrapped(x, b % TickModulus, TickModulus) = x + Turned(a, b, TickModulus)
        /\ Unwrapped(x, b % TickModulus, TickModulus) % TickModulus = b % TickModulus
    BY <2>2, <2>3, ExpandStep
  <2>5. Turned(a, b, TickModulus) \in Nat /\ Turned(a, b, TickModulus) = (b - a) % TickModulus
    <3>1. b - a \in Int
      BY <2>2
    <3>2. QED
      BY <2>3, <3>1, Division DEF Turned
  <2>6. QED
    BY <2>1, <2>2, <2>3, <2>4, <2>5 DEF a, b
<1> DEFINE delta == r.tick - last.tick
           turn == delta % TickModulus
<1>5. /\ delta \in Nat /\ turn \in Nat /\ turn <= delta
      /\ delta < TickModulus => turn = delta
  BY <1>2, Sizes
<1>6. First(r) = first /\ Origin(r) = host.origin /\ Late(r) = Elapsed + turn
  <2>1. first # None /\ host.origin # None
    BY DEF HostStarts
  <2>2. First(r) = first /\ Origin(r) = host.origin
    BY <2>1 DEF First, Origin
  <2>3. QED
    BY <1>1, <1>4, <1>5, <2>2 DEF Late, Elapsed
<1>7. /\ Elapsed \in Nat /\ Elapsed <= last.tick - first.tick
      /\ Number \in Nat /\ Number <= first.sequence + last.attempt - first.attempt
      /\ ~history.aliased =>
            /\ Elapsed = last.tick - first.tick
            /\ Number = first.sequence + last.attempt - first.attempt
  BY <1>1 DEF HostFollows, Elapsed, Number
<1> DEFINE missing == Missing(r.sequence)
           gap == r.attempt - last.attempt - 1
<1>8. /\ missing \in Nat /\ missing <= gap /\ missing < Word \div 2
      /\ r.attempt - last.attempt <= Word => missing = gap
  <2>1. /\ missing \in 0..(Word - 1) /\ missing <= gap
        /\ r.attempt - last.attempt <= Word => missing = gap
    BY GapIsLoss
  <2>2. missing < Word \div 2
    BY <2>1, Sizes DEF Readable, OutOfOrder
  <2>3. QED
    BY <2>1, <2>2
<1>9. Epoch(r.sequence) \in Nat /\ Numbered(r) = Number + 1 + missing
  <2> DEFINE raw == r.sequence
             p == host.last_raw_sequence
             epoch == host.sequence_epoch
  <2>1. missing = (raw - p - 1) % Word
        /\ Epoch(raw) = IF raw < p THEN epoch + Word ELSE epoch
    BY DEF Missing, Epoch, HostStarts
  <2>2. raw \in 0..(Word - 1) /\ p \in 0..(Word - 1) /\ epoch \in Nat
    BY <1>1, <1>2
  <2> HIDE DEF raw, p, epoch, missing
  <2>3. Epoch(raw) + raw = epoch + p + 1 + missing
    BY <1>8, <2>1, <2>2, NumberStep
  <2>4. Epoch(raw) \in Nat
    BY <2>1, <2>2, Sizes
  <2>5. Number = epoch + p /\ Numbered(r) = Epoch(raw) + raw
    BY DEF Number, Numbered, raw, p, epoch
  <2>6. QED
    BY <1>8, <2>2, <2>3, <2>4, <2>5 DEF raw
<1>10. ASSUME ~Aliases(r) PROVE turn = delta /\ missing = gap
  BY <1>2, <1>5, <1>8, <1>10, Sizes DEF Aliases
<1> HIDE DEF last, first, x, delta, turn, missing, gap
<1>11. /\ Late(r) \in Nat /\ Late(r) >= Elapsed /\ Late(r) <= r.tick - first.tick
       /\ Numbered(r) \in Nat /\ Numbered(r) >= Number + 1
       /\ Numbered(r) <= first.sequence + r.attempt - first.attempt
  BY <1>2, <1>5, <1>6, <1>7, <1>8, <1>9 DEF delta, gap
<1>12. ~history.aliased /\ ~Aliases(r) =>
            /\ Late(r) = r.tick - first.tick
            /\ Numbered(r) = first.sequence + r.attempt - first.attempt
  BY <1>2, <1>5, <1>6, <1>7, <1>8, <1>9, <1>10 DEF delta, gap
<1>13. QED
  BY <1>4, <1>6, <1>9, <1>11, <1>12 DEF first

-----------------------------------------------------------------------------
(* The observations *)

\* What TimelineIsTrue says of one observation and of a sequence of them.
Honest(o, first, aliased) ==
    LET r == o.record
        elapsed == Nanoseconds(r.tick - first.tick)
        count == first.sequence + r.attempt - first.attempt
        number == 2 * count + IF o.kind = "gap" /\ r.kind = "event" THEN 0 ELSE 1
    IN  /\ o.ts_ns <= elapsed
        /\ o.source_seq <= number
        /\ ~aliased => o.ts_ns = elapsed /\ o.source_seq = number

Behind(a, b) == a.ts_ns <= b.ts_ns /\ a.source_seq < b.source_seq

Timeline(s, first, aliased) ==
    /\ \A i \in 1..Len(s) : Honest(s[i], first, aliased)
    /\ \A i \in 2..Len(s) : Behind(s[i - 1], s[i])

LEMMA TimelineMeans ==
    ASSUME out \in Seq(Observed)
    PROVE  TimelineIsTrue <=> Timeline(out, history.first, history.aliased)
<1>1. DOMAIN out = 1..Len(out) /\ Len(out) \in Nat
  BY LenProperties
<1>2. \A i \in 1..Len(out) : i > 1 <=> i \in 2..Len(out)
  BY <1>1
<1>3. 2..Len(out) \subseteq 1..Len(out)
  BY <1>1
<1>4. QED
  BY <1>1, <1>2, <1>3 DEF TimelineIsTrue, Timeline, Honest, Behind

LEMMA TimelineMeansNext ==
    ASSUME out' \in Seq(Observed)
    PROVE  TimelineIsTrue' <=> Timeline(out', history'.first, history'.aliased)
<1>1. DOMAIN out' = 1..Len(out') /\ Len(out') \in Nat
  BY LenProperties
<1>2. \A i \in 1..Len(out') : i > 1 <=> i \in 2..Len(out')
  BY <1>1
<1>3. 2..Len(out') \subseteq 1..Len(out')
  BY <1>1
<1>4. QED
  BY <1>1, <1>2, <1>3 DEF TimelineIsTrue, Timeline, Honest, Behind, Nanoseconds

LEMMA TimelineAppend ==
    ASSUME NEW s \in Seq(Observed), NEW first, NEW aliased, NEW o \in Observed,
           Timeline(s, first, aliased), Honest(o, first, aliased),
           s # <<>> => Behind(s[Len(s)], o)
    PROVE  Append(s, o) \in Seq(Observed) /\ Timeline(Append(s, o), first, aliased)
<1>1. /\ Append(s, o) \in Seq(Observed) /\ Len(Append(s, o)) = Len(s) + 1
      /\ \A i \in 1..Len(s) : Append(s, o)[i] = s[i]
      /\ Append(s, o)[Len(s) + 1] = o
  BY AppendProperties
<1>2. Len(s) \in Nat /\ (Len(s) > 0 => s # <<>>)
  BY LenProperties, EmptySeq
<1> DEFINE t == Append(s, o)
<1>3. ASSUME NEW i \in 1..Len(t) PROVE Honest(t[i], first, aliased)
  <2>1. i \in 1..Len(s) \/ i = Len(s) + 1
    BY <1>1, <1>2
  <2>2. QED
    BY <1>1, <2>1 DEF Timeline
<1>4. ASSUME NEW i \in 2..Len(t) PROVE Behind(t[i - 1], t[i])
  <2>1. CASE i \in 2..Len(s)
    <3>1. i \in 1..Len(s) /\ i - 1 \in 1..Len(s)
      BY <1>2, <2>1
    <3>2. QED
      BY <1>1, <2>1, <3>1 DEF Timeline
  <2>2. CASE i = Len(s) + 1
    <3>1. i - 1 = Len(s) /\ i - 1 \in 1..Len(s) /\ s # <<>>
      BY <1>1, <1>2, <2>2
    <3>2. QED
      BY <1>1, <2>2, <3>1
  <2>3. QED
    BY <1>1, <1>2, <2>1, <2>2
<1>5. QED
  BY <1>1, <1>3, <1>4 DEF Timeline

\* A counter that goes round takes back what was said exactly, never the bounds.
LEMMA TimelineWeakens ==
    ASSUME NEW s, NEW first, NEW aliased \in BOOLEAN, NEW aliased2 \in BOOLEAN,
           Timeline(s, first, aliased), aliased => aliased2
    PROVE  Timeline(s, first, aliased2)
BY DEF Timeline, Honest

LEMMA TimelineSince ==
    ASSUME out \in Seq(Observed), NEW first, NEW aliased, Timeline(out, first, aliased)
    PROVE  /\ SinceEvent \in Seq(Observed) /\ Timeline(SinceEvent, first, aliased)
           /\ SinceEvent = <<>> <=> out = <<>>
           /\ out # <<>> => SinceEvent[Len(SinceEvent)] = out[Len(out)]
<1>1. CASE out # <<>> /\ out[Len(out)].kind = "event"
  <2>1. Len(out) \in 1..Len(out)
    BY <1>1, EmptySeq
  <2>2. out[Len(out)] \in Observed /\ Honest(out[Len(out)], first, aliased)
    BY <2>1, ElementOfSeq DEF Timeline
  <2>3. SinceEvent = <<out[Len(out)]>>
    BY <1>1 DEF SinceEvent, Last
  <2>4. Len(SinceEvent) = 1 /\ SinceEvent[1] = out[Len(out)] /\ SinceEvent \in Seq(Observed)
    BY <2>2, <2>3
  <2>5. SinceEvent # <<>>
    BY <2>3
  <2>6. Timeline(SinceEvent, first, aliased)
    BY <2>2, <2>4 DEF Timeline
  <2>7. QED
    BY <1>1, <2>4, <2>5, <2>6
<1>2. CASE ~(out # <<>> /\ out[Len(out)].kind = "event")
  BY <1>2 DEF SinceEvent, Last
<1>3. QED
  BY <1>1, <1>2

Actual(r) ==
    [kind |-> IF r.kind = "dropped" THEN "gap" ELSE "event",
     source_seq |-> 2 * Numbered(r) + 1, ts_ns |-> Nanoseconds(Late(r)), record |-> r]

GapBefore(r) == [Actual(r) EXCEPT !.kind = "gap", !.source_seq = @ - 1]

LEMMA GapFields ==
    ASSUME NEW r, Numbered(r) \in Nat
    PROVE  /\ GapBefore(r).kind = "gap" /\ GapBefore(r).source_seq = 2 * Numbered(r)
           /\ GapBefore(r).ts_ns = Nanoseconds(Late(r)) /\ GapBefore(r).record = r
<1> DEFINE n == 2 * Numbered(r) + 1
           t == Nanoseconds(Late(r))
           k == IF r.kind = "dropped" THEN "gap" ELSE "event"
<1>1. n \in Int /\ n - 1 = 2 * Numbered(r)
  OBVIOUS
<1>2. GapBefore(r) = [[kind |-> k, source_seq |-> n, ts_ns |-> t, record |-> r]
                        EXCEPT !.kind = "gap", !.source_seq = @ - 1]
  BY DEF GapBefore, Actual
<1> HIDE DEF n, t, k
<1>3. /\ GapBefore(r).kind = "gap" /\ GapBefore(r).source_seq = n - 1
      /\ GapBefore(r).ts_ns = t /\ GapBefore(r).record = r
  BY <1>2
<1>4. QED
  BY <1>1, <1>3 DEF t

LEMMA ObservationsAre ==
    ASSUME NEW r
    PROVE  Observations(r) = IF r.kind # "dropped" /\ Missing(r.sequence) # 0
                             THEN <<GapBefore(r), Actual(r)>> ELSE <<Actual(r)>>
<1>1. Timestamp(r.ticks) = Nanoseconds(Late(r))
  BY DEF Timestamp, Late, Origin
<1> DEFINE actual == [kind |-> IF r.kind = "dropped" THEN "gap" ELSE "event",
                      source_seq |-> 2 * (Epoch(r.sequence) + r.sequence) + 1,
                      ts_ns |-> Timestamp(r.ticks), record |-> r]
           gap == [actual EXCEPT !.kind = "gap", !.source_seq = @ - 1]
<1>2. actual = Actual(r)
  BY <1>1 DEF Actual, Numbered
<1>3. Observations(r) = IF r.kind # "dropped" /\ Missing(r.sequence) # 0
                        THEN <<gap, actual>> ELSE <<actual>>
  BY DEF Observations
<1>4. gap = GapBefore(r)
  <2> HIDE DEF actual
  <2>1. QED
    BY <1>2 DEF GapBefore
<1> HIDE DEF actual, gap
<1>5. QED
  BY <1>2, <1>3, <1>4

\* What both lemmas about the next record give.
Truthful(r, first, aliased) ==
    /\ Late(r) \in Nat /\ Late(r) <= r.tick - first.tick
    /\ Numbered(r) \in Nat /\ Numbered(r) <= first.sequence + r.attempt - first.attempt
    /\ ~aliased => /\ Late(r) = r.tick - first.tick
                   /\ Numbered(r) = first.sequence + r.attempt - first.attempt

LEMMA ObservationsHonest ==
    ASSUME NEW r \in Records, NEW first \in Records, NEW aliased \in BOOLEAN,
           Truthful(r, first, aliased)
    PROVE  /\ Actual(r) \in Observed /\ Honest(Actual(r), first, aliased)
           /\ r.kind = "event" =>
                /\ GapBefore(r) \in Observed /\ Honest(GapBefore(r), first, aliased)
                /\ Behind(GapBefore(r), Actual(r))
<1>1. /\ r.tick \in Nat /\ first.tick \in Nat /\ r.attempt \in Nat /\ first.attempt \in Nat
      /\ first.sequence \in Nat /\ r.kind \in {"event", "dropped"}
  BY Sizes DEF Records
<1> DEFINE elapsed == r.tick - first.tick
           count == first.sequence + r.attempt - first.attempt
<1>2. /\ Late(r) \in Nat /\ Late(r) <= elapsed /\ elapsed \in Nat
      /\ Numbered(r) \in Nat /\ Numbered(r) <= count /\ count \in Int
      /\ ~aliased => Late(r) = elapsed /\ Numbered(r) = count
  BY <1>1 DEF Truthful
<1> HIDE DEF elapsed, count
<1>3. /\ Nanoseconds(Late(r)) \in Nat /\ Nanoseconds(elapsed) \in Nat
      /\ Nanoseconds(Late(r)) <= Nanoseconds(elapsed)
  BY <1>2, NanosecondsMonotone
<1>4. Actual(r) \in Observed /\ GapBefore(r) \in Observed
  <2>1. Actual(r) \in Observed /\ Actual(r).source_seq - 1 \in Nat
    BY <1>1, <1>2, <1>3 DEF Actual, Observed
  <2>2. QED
    BY <2>1 DEF GapBefore, Observed
<1>5. Honest(Actual(r), first, aliased)
  <2>1. /\ Actual(r).record = r /\ Actual(r).ts_ns = Nanoseconds(Late(r))
        /\ Actual(r).source_seq = 2 * Numbered(r) + 1
        /\ ~(Actual(r).kind = "gap" /\ r.kind = "event")
    BY DEF Actual
  <2>2. /\ Nanoseconds(Late(r)) <= Nanoseconds(elapsed)
        /\ 2 * Numbered(r) + 1 <= 2 * count + 1
        /\ ~aliased => /\ Nanoseconds(Late(r)) = Nanoseconds(elapsed)
                       /\ 2 * Numbered(r) + 1 = 2 * count + 1
    BY <1>2, <1>3
  <2>3. QED
    BY <2>1, <2>2 DEF Honest, elapsed, count
<1>6. ASSUME r.kind = "event"
      PROVE  Honest(GapBefore(r), first, aliased) /\ Behind(GapBefore(r), Actual(r))
  <2>1. /\ GapBefore(r).record = r /\ GapBefore(r).ts_ns = Nanoseconds(Late(r))
        /\ GapBefore(r).source_seq = 2 * Numbered(r) /\ GapBefore(r).kind = "gap"
    BY <1>2, GapFields
  <2>2. /\ Nanoseconds(Late(r)) <= Nanoseconds(elapsed)
        /\ 2 * Numbered(r) <= 2 * count + 0
        /\ ~aliased => /\ Nanoseconds(Late(r)) = Nanoseconds(elapsed)
                       /\ 2 * Numbered(r) = 2 * count + 0
    BY <1>2, <1>3
  <2>3. Honest(GapBefore(r), first, aliased)
    BY <1>6, <2>1, <2>2 DEF Honest, elapsed, count
  <2>4. Behind(GapBefore(r), Actual(r))
    <3>1. /\ Actual(r).ts_ns = Nanoseconds(Late(r))
          /\ Actual(r).source_seq = 2 * Numbered(r) + 1
      BY DEF Actual
    <3>2. QED
      BY <1>2, <1>3, <2>1, <3>1 DEF Behind
  <2>5. QED
    BY <2>3, <2>4
<1>7. QED
  BY <1>4, <1>5, <1>6

-----------------------------------------------------------------------------
(* The host keeps its invariant *)

LEMMA InitHost == Init => HostInv
<1> SUFFICES ASSUME Init PROVE HostInv
  OBVIOUS
<1>1. history.last = None /\ history.first = None /\ out = <<>> /\ host.stopped = None
  BY DEF Init
<1>2. host = [last_expanded |-> None, origin |-> None, last_raw_sequence |-> None,
              sequence_epoch |-> 0, stopped |-> None]
  BY DEF Init
<1>3. out \in Seq(Observed) /\ DOMAIN out = {}
  BY <1>1
<1>4. HostType
  BY <1>2, <1>3 DEF HostType
<1>5. HostStarts
  BY <1>1, <1>2 DEF HostStarts
<1>6. OrderLost
  BY <1>1, NoneAssumption DEF OrderLost, NoneAssumption
<1>7. TimelineIsTrue
  BY <1>3 DEF TimelineIsTrue
<1>8. QED
  BY <1>1, <1>4, <1>5, <1>6, <1>7 DEF HostInv, HostFollows, OutFollows

\* Every step but the consumer's last leaves the host alone.
Untouched ==
    /\ UNCHANGED <<host, out, history.first, history.last, history.aliased>>
    /\ history'.dropped \in {history.dropped, history.dropped + 1}
    /\ history'.errors \in {history.errors, history.errors + 1}
    /\ history'.errors # history.errors => history.errors < MaxErrors

LEMMA HostStays ==
    ASSUME TypeOK, HostInv, [Next]_vars, ~ReadPop
    PROVE  HostInv' /\ Untouched
<1> USE DEF contextVars, ringVars, hostVars
<1>1. history \in Histories
  BY DEF TypeOK
<1>2. Untouched
  <2>1. ASSUME NEW step \in Steps, Emit(step) PROVE Untouched
    BY <1>1, <2>1 DEF Emit, StartWrite, Histories, Untouched
  <2>2. CASE WriteFull
    BY <1>1, <2>2 DEF WriteFull, Histories, Untouched
  <2>3. CASE WriteError
    BY <1>1, <2>3 DEF WriteError, Histories, Untouched
  <2>4. CASE WriteBegin \/ WriteCopy \/ ReadPeek \/ ReadCopy \/ UNCHANGED vars
    BY <2>4 DEF WriteBegin, WriteCopy, ReadPeek, ReadCopy, vars, Untouched
  <2>5. CASE WritePublish
    BY <1>1, <2>5 DEF WritePublish, StartWrite, Histories, Untouched
  <2>6. QED
    BY <2>1, <2>2, <2>3, <2>4, <2>5 DEF Next
<1>3. /\ history.dropped \in Nat /\ history.errors \in Nat
      /\ history'.dropped \in Nat /\ history'.errors \in Nat /\ Lost' >= Lost
  BY <1>1, <1>2 DEF Histories, Lost, Untouched
<1>4. HostType' /\ HostStarts'
  BY <1>2 DEF HostInv, HostType, HostStarts, Stamped, Untouched
<1>5. HostFollows' /\ OutFollows'
  BY <1>2 DEF HostInv, HostFollows, OutFollows, Elapsed, Number, Nanoseconds, Untouched
<1>6. OrderLost'
  BY <1>2, <1>3, Sizes DEF HostInv, OrderLost, Lost, Untouched
<1>7. TimelineIsTrue'
  BY <1>2 DEF HostInv, TimelineIsTrue, Nanoseconds, Untouched
<1>8. QED
  BY <1>2, <1>4, <1>5, <1>6, <1>7 DEF HostInv

\* The consumer's last step hands the host the record behind the one delivered last.
LEMMA PopReads ==
    ASSUME TypeOK, RingInv, StreamInv, ReadPop
    PROVE  /\ reader.record \in Records /\ Stamped(reader.record)
           /\ Follows(history.last, reader.record, Lost, history.errors)
           /\ Decode(reader.record)
           /\ history' = [history EXCEPT !.last = reader.record,
                                   !.first = IF @ = None THEN reader.record ELSE @,
                                   !.reported = @ + reader.record.count,
                                   !.aliased = @ \/ Aliases(reader.record)]
<1>1. reader.record \in Records /\ reader.pc = "pop"
  BY DEF ReadPop, TypeOK, Idle
<1>2. Count > 0 /\ reader.record = Stream(1) /\ 1 \in 1..Count
  BY <1>1, RingBounds DEF RingInv
<1>3. InSequence(1)
  BY <1>2 DEF StreamInv
<1>4. Stream(1 - 1) = history.last
  BY DEF Stream
<1>5. Stamped(reader.record) /\ Follows(history.last, reader.record, Lost, history.errors)
  BY <1>2, <1>3, <1>4 DEF InSequence
<1>6. QED
  BY <1>1, <1>5, RecordsAreProper DEF ReadPop

LEMMA HistoryNext ==
    ASSUME TypeOK, NEW r \in Records, NEW aliased \in BOOLEAN,
           history' = [history EXCEPT !.last = r, !.first = IF @ = None THEN r ELSE @,
                                      !.reported = @ + r.count, !.aliased = aliased]
    PROVE  /\ history' \in Histories
           /\ history'.last = r /\ history'.first = First(r) /\ history'.aliased = aliased
           /\ history'.errors = history.errors /\ Lost' = Lost
<1>1. history \in Histories
  BY DEF TypeOK
<1>2. history' \in Histories
  BY <1>1, Delivered
<1>3. /\ history'.last = r /\ history'.first = First(r) /\ history'.aliased = aliased
      /\ history'.errors = history.errors /\ history'.dropped = history.dropped
  BY <1>1 DEF Histories, First
<1>4. QED
  BY <1>2, <1>3 DEF Lost

\* What both lemmas about the next record give of it.
LEMMA ReadsTrue ==
    ASSUME TypeOK, HostInv, host.stopped = None, NEW r \in Records, Stamped(r),
           Follows(history.last, r, Lost, history.errors), Readable(r),
           NEW aliased \in BOOLEAN, history.aliased \/ Aliases(r) => aliased
    PROVE  /\ First(r) \in Records /\ Truthful(r, First(r), aliased)
           /\ Expanded(r.ticks) \in Nat /\ Expanded(r.ticks) % TickModulus = r.ticks
           /\ Origin(r) \in Nat /\ Epoch(r.sequence) \in Nat
           /\ history.last # None =>
                /\ First(r) = history.first
                /\ Elapsed \in Nat /\ Elapsed <= Late(r)
                /\ Number \in Nat /\ Number + 1 <= Numbered(r)
<1>1. HostType /\ HostStarts /\ HostFollows
  BY DEF HostInv
<1>2. CASE history.last = None
  <2>1. /\ First(r) = r /\ Origin(r) = r.ticks /\ Expanded(r.ticks) = r.ticks
        /\ r.ticks \in Nat /\ r.ticks % TickModulus = r.ticks
        /\ Late(r) = 0 /\ Epoch(r.sequence) = 0 /\ Numbered(r) = r.sequence
    BY <1>1, <1>2, ReadFirst
  <2>2. r.tick \in Nat /\ r.attempt \in Nat /\ r.sequence \in Nat
    BY Sizes DEF Records
  <2>3. Truthful(r, r, aliased)
    BY <2>1, <2>2 DEF Truthful
  <2>4. QED
    BY <1>2, <2>1, <2>3
<1>3. CASE history.last # None
  <2>1. Stamped(history.last)
    BY <1>1, <1>3 DEF HostStarts
  <2>2. /\ First(r) = history.first /\ Origin(r) = host.origin
        /\ Expanded(r.ticks) \in Nat /\ Expanded(r.ticks) % TickModulus = r.ticks
        /\ Epoch(r.sequence) \in Nat /\ Late(r) \in Nat /\ Late(r) >= Elapsed
        /\ Late(r) <= r.tick - history.first.tick
        /\ Numbered(r) \in Nat /\ Numbered(r) >= Number + 1
        /\ Numbered(r) <= history.first.sequence + r.attempt - history.first.attempt
        /\ ~history.aliased /\ ~Aliases(r) =>
             /\ Late(r) = r.tick - history.first.tick
             /\ Numbered(r) = history.first.sequence + r.attempt - history.first.attempt
    BY <1>1, <1>3, <2>1, ReadNext
  <2>3. /\ history.first \in Records /\ host.last_expanded \in Nat /\ host.origin \in Nat
        /\ host.last_raw_sequence \in Nat /\ host.sequence_epoch \in Nat
    BY <1>1, <1>3, Sizes, LastTypes
  <2>4. Elapsed \in Nat /\ Number \in Nat
    BY <1>1, <1>3, <2>3 DEF HostFollows, Elapsed, Number
  <2>5. Truthful(r, First(r), aliased)
    BY <2>2 DEF Truthful
  <2>6. QED
    BY <2>2, <2>3, <2>4, <2>5
<1>4. QED
  BY <1>2, <1>3

\* The observations of a record the host accepts continue its stream.
LEMMA StreamGoesOn ==
    ASSUME TypeOK, HostInv, host.stopped = None, NEW r \in Records, Stamped(r),
           Follows(history.last, r, Lost, history.errors), Readable(r),
           NEW aliased \in BOOLEAN, history.aliased \/ Aliases(r) => aliased,
           out' = SinceEvent \o Observations(r)
    PROVE  /\ out' \in Seq(Observed) /\ Timeline(out', First(r), aliased)
           /\ out' # <<>> /\ out'[Len(out')] = Actual(r)
           /\ out' = IF r.kind = "event" /\ Missing(r.sequence) # 0
                     THEN Append(Append(SinceEvent, GapBefore(r)), Actual(r))
                     ELSE Append(SinceEvent, Actual(r))
<1>1. HostType /\ HostStarts /\ HostFollows /\ OutFollows /\ TimelineIsTrue
  BY DEF HostInv
<1>2. /\ First(r) \in Records /\ Truthful(r, First(r), aliased)
      /\ history.last # None =>
            /\ First(r) = history.first
            /\ Elapsed \in Nat /\ Elapsed <= Late(r)
            /\ Number \in Nat /\ Number + 1 <= Numbered(r)
  BY ReadsTrue
<1>3. r.kind \in {"event", "dropped"} /\ Late(r) \in Nat /\ Numbered(r) \in Nat
  BY <1>2 DEF Records, Truthful
<1>4. /\ Actual(r) \in Observed /\ Honest(Actual(r), First(r), aliased)
      /\ r.kind = "event" =>
            /\ GapBefore(r) \in Observed /\ Honest(GapBefore(r), First(r), aliased)
            /\ Behind(GapBefore(r), Actual(r))
  BY <1>2, ObservationsHonest
<1>5. out \in Seq(Observed) /\ Timeline(out, First(r), aliased)
  <2>1. out \in Seq(Observed)
    BY <1>1 DEF HostType
  <2>2. CASE history.last = None
    <3>1. out = <<>> /\ Len(out) = 0
      BY <1>1, <2>2 DEF HostStarts
    <3>2. QED
      BY <2>1, <3>1 DEF Timeline
  <2>3. CASE history.last # None
    <3>1. Timeline(out, First(r), history.aliased) /\ First(r) = history.first
      BY <1>1, <1>2, <2>1, <2>3, TimelineMeans
    <3>2. history.aliased \in BOOLEAN
      BY DEF TypeOK, Histories
    <3>3. QED
      BY <2>1, <3>1, <3>2, TimelineWeakens
  <2>4. QED
    BY <2>2, <2>3
<1>6. /\ SinceEvent \in Seq(Observed) /\ Timeline(SinceEvent, First(r), aliased)
      /\ SinceEvent = <<>> <=> out = <<>>
      /\ out # <<>> => SinceEvent[Len(SinceEvent)] = out[Len(out)]
  BY <1>5, TimelineSince
<1>7. ASSUME SinceEvent # <<>>
      PROVE  /\ Behind(SinceEvent[Len(SinceEvent)], Actual(r))
             /\ Behind(SinceEvent[Len(SinceEvent)], GapBefore(r))
  <2>1. history.last # None
    BY <1>1, <1>6, <1>7 DEF HostStarts
  <2>2. /\ SinceEvent[Len(SinceEvent)].ts_ns = Nanoseconds(Elapsed)
        /\ SinceEvent[Len(SinceEvent)].source_seq = 2 * Number + 1
    BY <1>1, <1>6, <1>7, <2>1 DEF OutFollows
  <2>3. Nanoseconds(Elapsed) <= Nanoseconds(Late(r))
    BY <1>2, <1>3, <2>1, NanosecondsMonotone
  <2>4. /\ Actual(r).ts_ns = Nanoseconds(Late(r))
        /\ Actual(r).source_seq = 2 * Numbered(r) + 1
    BY DEF Actual
  <2>5. /\ GapBefore(r).ts_ns = Nanoseconds(Late(r))
        /\ GapBefore(r).source_seq = 2 * Numbered(r)
    BY <1>3, GapFields
  <2>6. 2 * Number + 1 < 2 * Numbered(r) /\ 2 * Number + 1 < 2 * Numbered(r) + 1
    BY <1>2, <1>3, <2>1
  <2>7. QED
    BY <2>2, <2>3, <2>4, <2>5, <2>6 DEF Behind
<1> DEFINE S == SinceEvent
           A == Actual(r)
           G == GapBefore(r)
<1>8. Append(S, A) \in Seq(Observed) /\ Timeline(Append(S, A), First(r), aliased)
  BY <1>4, <1>6, <1>7, TimelineAppend
<1>9. ASSUME r.kind = "event"
      PROVE  /\ Append(Append(S, G), A) \in Seq(Observed) /\ Append(S, G) \in Seq(Observed)
             /\ Timeline(Append(Append(S, G), A), First(r), aliased)
  <2>1. Append(S, G) \in Seq(Observed) /\ Timeline(Append(S, G), First(r), aliased)
    BY <1>4, <1>6, <1>7, <1>9, TimelineAppend
  <2>2. Append(S, G)[Len(Append(S, G))] = G
    BY <1>4, <1>6, <1>9, AppendProperties
  <2>3. QED
    BY <1>4, <1>9, <2>1, <2>2, TimelineAppend
<1>10. S \o <<A>> = Append(S, A) /\ (r.kind = "event" => S \o <<G, A>> = Append(Append(S, G), A))
  BY <1>4, <1>6, AppendIsConcat, ConcatAssociative
<1>11. out' = IF r.kind = "event" /\ Missing(r.sequence) # 0
              THEN Append(Append(S, G), A) ELSE Append(S, A)
  BY <1>3, <1>10, ObservationsAre
<1>12. out' # <<>> /\ out'[Len(out')] = A
  BY <1>4, <1>6, <1>9, <1>11, AppendProperties
<1>13. QED
  BY <1>8, <1>9, <1>11, <1>12

\* The last disjunct of Decode, as an assignment.
Accept(r) ==
    /\ host' = [last_expanded |-> Expanded(r.ticks), origin |-> Origin(r),
                last_raw_sequence |-> r.sequence, sequence_epoch |-> Epoch(r.sequence),
                stopped |-> None]
    /\ out' = SinceEvent \o Observations(r)

LEMMA DecodeCases ==
    ASSUME NEW r, Decode(r)
    PROVE  \/ host.stopped # None /\ UNCHANGED <<host, out>>
           \/ /\ host.stopped = None /\ UNCHANGED out
              /\ \/ StepTooLarge(r.ticks) /\ host' = [host EXCEPT !.stopped = "clock"]
                 \/ OutOfOrder(r.sequence) /\ host' = [host EXCEPT !.stopped = "order"]
           \/ host.stopped = None /\ Readable(r) /\ Accept(r)
BY DEF Decode, Stop, hostVars, Readable, Accept, Origin

LEMMA HostAccepts ==
    ASSUME TypeOK, HostInv, host.stopped = None, NEW r \in Records, Stamped(r),
           Follows(history.last, r, Lost, history.errors), Readable(r), Accept(r),
           NEW aliased \in BOOLEAN, history.aliased \/ Aliases(r) <=> aliased,
           history' = [history EXCEPT !.last = r, !.first = IF @ = None THEN r ELSE @,
                                      !.reported = @ + r.count, !.aliased = aliased]
    PROVE  HostInv'
<1>1. history'.last = r /\ history'.first = First(r) /\ history'.aliased = aliased
  BY HistoryNext
<1>2. /\ First(r) \in Records /\ Truthful(r, First(r), aliased)
      /\ Expanded(r.ticks) \in Nat /\ Expanded(r.ticks) % TickModulus = r.ticks
      /\ Origin(r) \in Nat /\ Epoch(r.sequence) \in Nat
  BY ReadsTrue
<1>3. /\ out' \in Seq(Observed) /\ Timeline(out', First(r), aliased)
      /\ out' # <<>> /\ out'[Len(out')] = Actual(r)
  BY StreamGoesOn DEF Accept
<1>4. /\ host'.last_expanded = Expanded(r.ticks) /\ host'.origin = Origin(r)
      /\ host'.last_raw_sequence = r.sequence /\ host'.sequence_epoch = Epoch(r.sequence)
      /\ host'.stopped = None
  BY DEF Accept
<1>5. /\ r.kind \in {"event", "dropped"} /\ r.sequence \in 0..(Word - 1)
      /\ None \notin Nat /\ 0..(Word - 1) \subseteq Nat /\ r # None /\ First(r) # None
  BY <1>2, NoneAssumption, RecordsAreProper, Sizes DEF NoneAssumption, Records
<1>6. Elapsed' = Late(r) /\ Number' = Numbered(r)
  BY <1>4 DEF Elapsed, Number, Late, Numbered
<1>7. HostType'
  <2>1. host' \in [last_expanded : Nat \cup {None}, origin : Nat \cup {None},
                  last_raw_sequence : (0..(Word - 1)) \cup {None}, sequence_epoch : Nat,
                  stopped : {None, "clock", "order"}]
    BY <1>2, <1>5 DEF Accept
  <2>2. QED
    BY <1>3, <2>1 DEF HostType
<1>8. HostStarts'
  BY <1>1, <1>2, <1>4, <1>5 DEF HostStarts, Stamped
<1>9. HostFollows'
  BY <1>1, <1>2, <1>4, <1>6 DEF HostFollows, Truthful
<1>10. OutFollows'
  <2>1. /\ Actual(r).record = r /\ Actual(r).ts_ns = Nanoseconds(Late(r))
        /\ Actual(r).source_seq = 2 * Numbered(r) + 1
        /\ Actual(r).kind = "event" <=> r.kind = "event"
    BY <1>5 DEF Actual
  <2>2. Nanoseconds(Elapsed)' = Nanoseconds(Late(r))
    BY <1>6 DEF Nanoseconds
  <2>3. QED
    BY <1>1, <1>3, <1>6, <2>1, <2>2 DEF OutFollows
<1>11. OrderLost'
  BY <1>4, NoneAssumption DEF OrderLost, NoneAssumption
<1>12. TimelineIsTrue'
  BY <1>1, <1>3, TimelineMeansNext
<1>13. QED
  BY <1>7, <1>8, <1>9, <1>10, <1>11, <1>12 DEF HostInv

\* A host that stops keeps what it has said.
LEMMA HostRefuses ==
    ASSUME TypeOK, HostInv, history.last # None, NEW r \in Records, Stamped(r), UNCHANGED out,
           NEW reason \in {host.stopped, "clock", "order"}, reason # None,
           host' = [host EXCEPT !.stopped = reason],
           reason = "order" => Lost >= Word \div 2,
           NEW aliased \in BOOLEAN, history.aliased \/ Aliases(r) <=> aliased,
           history' = [history EXCEPT !.last = r, !.first = IF @ = None THEN r ELSE @,
                                      !.reported = @ + r.count, !.aliased = aliased]
    PROVE  HostInv'
<1>1. /\ history'.last = r /\ history'.first = First(r) /\ history'.aliased = aliased
      /\ Lost' = Lost
  BY HistoryNext
<1>2. HostType /\ HostStarts /\ OrderLost /\ TimelineIsTrue
  BY DEF HostInv
<1>3. First(r) = history.first /\ First(r) # None /\ r # None
  BY <1>2, RecordsAreProper DEF HostStarts, First
<1>4. HostType' /\ host'.stopped = reason
  BY <1>2 DEF HostType
<1>5. /\ host'.last_expanded = host.last_expanded /\ host'.origin = host.origin
      /\ host'.last_raw_sequence = host.last_raw_sequence
  BY <1>2 DEF HostType
<1>6. HostStarts'
  BY <1>1, <1>2, <1>3, <1>5 DEF HostStarts, Stamped
<1>7. HostFollows' /\ OutFollows'
  BY <1>4 DEF HostFollows, OutFollows
<1>8. OrderLost'
  BY <1>1, <1>4 DEF OrderLost
<1>9. TimelineIsTrue'
  <2>1. out \in Seq(Observed) /\ Timeline(out, history.first, history.aliased)
    BY <1>2, TimelineMeans DEF HostType
  <2>2. history.aliased \in BOOLEAN
    BY DEF TypeOK, Histories
  <2>3. Timeline(out, history.first, aliased)
    BY <2>1, <2>2, TimelineWeakens
  <2>4. QED
    BY <1>1, <1>3, <2>1, <2>3, TimelineMeansNext
<1>10. QED
  BY <1>4, <1>6, <1>7, <1>8, <1>9 DEF HostInv

LEMMA StepHost == TypeOK /\ RingInv /\ StreamInv /\ HostInv /\ [Next]_vars => HostInv'
<1> SUFFICES ASSUME TypeOK, RingInv, StreamInv, HostInv, [Next]_vars PROVE HostInv'
  OBVIOUS
<1>1. CASE ~ReadPop
  BY <1>1, HostStays
<1>2. CASE ReadPop
  <2> DEFINE r == reader.record
             aliased == history.aliased \/ Aliases(r)
  <2>1. /\ r \in Records /\ Stamped(r) /\ Follows(history.last, r, Lost, history.errors)
        /\ Decode(r)
        /\ history' = [history EXCEPT !.last = r, !.first = IF @ = None THEN r ELSE @,
                                      !.reported = @ + r.count, !.aliased = aliased]
    BY <1>2, PopReads
  <2>2. aliased \in BOOLEAN /\ (history.aliased \/ Aliases(r) <=> aliased)
    OBVIOUS
  <2>3. HostType /\ HostStarts /\ HostFollows /\ OrderLost
    BY DEF HostInv
  <2> HIDE DEF r, aliased
  <2>4. CASE host.stopped # None /\ UNCHANGED <<host, out>>
    <3>1. history.last # None
      BY <2>3, <2>4 DEF HostStarts
    <3>2. host' = [host EXCEPT !.stopped = host.stopped]
      BY <2>3, <2>4 DEF HostType
    <3>3. QED
      BY <2>1, <2>2, <2>3, <2>4, <3>1, <3>2, HostRefuses DEF OrderLost
  <2>5. CASE /\ host.stopped = None /\ UNCHANGED out
             /\ StepTooLarge(r.ticks) /\ host' = [host EXCEPT !.stopped = "clock"]
    <3>1. history.last # None
      BY <2>3, <2>5 DEF HostStarts, StepTooLarge
    <3>2. "clock" # None
      BY NoneAssumption DEF NoneAssumption
    <3>3. QED
      BY <2>1, <2>2, <2>5, <3>1, <3>2, HostRefuses
  <2>6. CASE /\ host.stopped = None /\ UNCHANGED out
             /\ OutOfOrder(r.sequence) /\ host' = [host EXCEPT !.stopped = "order"]
    <3>1. history.last # None
      BY <2>1, <2>3, <2>6, ReadFirst DEF Readable
    <3>2. "order" # None
      BY NoneAssumption DEF NoneAssumption
    <3>3. Missing(r.sequence) \in 0..(Word - 1) /\ Missing(r.sequence) <= Lost
      BY <2>1, <2>3, <2>6, <3>1, GapIsLoss DEF HostStarts
    <3>4. Lost \in Nat
      BY DEF TypeOK, Histories, Lost
    <3>5. Lost >= Word \div 2
      BY <2>6, <3>3, <3>4, Sizes DEF OutOfOrder
    <3>6. QED
      BY <2>1, <2>2, <2>6, <3>1, <3>2, <3>5, HostRefuses
  <2>7. CASE host.stopped = None /\ Readable(r) /\ Accept(r)
    BY <2>1, <2>2, <2>7, HostAccepts
  <2>8. QED
    BY <2>1, <2>4, <2>5, <2>6, <2>7, DecodeCases
<1>3. QED
  BY <1>1, <1>2

-----------------------------------------------------------------------------
(* Losses are announced *)

\* Between the record delivered last and the next one with no gap before it, nothing is
\* missing: Word numbers in a row are more than transport errors alone can take.
LEMMA NoGapNoLoss ==
    ASSUME FewErrors, history.errors <= MaxErrors, TypeOK, HostInv, host.stopped = None,
           history.last # None, history.last.kind = "event",
           NEW r \in Records, Stamped(r), r.kind = "event", Missing(r.sequence) = 0,
           Follows(history.last, r, Lost, history.errors)
    PROVE  r.id <= history.last.id + 1
<1>1. HostType /\ HostStarts /\ HostFollows /\ Stamped(history.last)
  BY DEF HostInv, HostStarts
<1>2. r.attempt - history.last.attempt <= Word => r.attempt = history.last.attempt + 1
  <2>1. r.attempt - history.last.attempt <= Word =>
            Missing(r.sequence) = r.attempt - history.last.attempt - 1
    BY <1>1, GapIsLoss
  <2>2. r.attempt \in Nat /\ history.last.attempt \in Nat
    BY <1>1, LastTypes DEF Records
  <2>3. QED
    BY <2>1, <2>2
<1>3. /\ history.errors \in Nat /\ MaxErrors \in Nat /\ Word \in Nat /\ history.errors < Word
      /\ r.attempt \in Nat /\ history.last.attempt \in Nat
  <2>1. history.errors \in Nat
    BY DEF TypeOK, Histories
  <2>2. MaxErrors \in Nat /\ Word \in Nat
    BY Sizes, SizesAssumption DEF SizesAssumption
  <2>3. r.attempt \in Nat /\ history.last.attempt \in Nat
    BY <1>1, LastTypes DEF Records
  <2>4. QED
    BY <2>1, <2>2, <2>3 DEF FewErrors
<1>4. r.attempt - history.last.attempt - 1 <= history.errors
  BY DEF Follows
<1>5. r.attempt = history.last.attempt + 1
  BY <1>2, <1>3, <1>4
<1>6. QED
  BY <1>5 DEF Follows

LEMMA InitLoss == Init => LossInv
<1> SUFFICES ASSUME Init PROVE LossInv
  OBVIOUS
<1>1. out = <<>> /\ history.errors = 0
  BY DEF Init
<1>2. QED
  BY <1>1, SizesAssumption DEF LossInv, GapBetween, SizesAssumption

LEMMA StepLoss ==
    FewErrors /\ TypeOK /\ RingInv /\ StreamInv /\ HostInv /\ LossInv /\ [Next]_vars => LossInv'
<1> SUFFICES ASSUME FewErrors, TypeOK, RingInv, StreamInv, HostInv, LossInv, [Next]_vars
             PROVE  LossInv'
  OBVIOUS
<1>1. history.errors \in Nat /\ MaxErrors \in Nat /\ history.errors <= MaxErrors
  BY SizesAssumption DEF SizesAssumption, TypeOK, Histories, LossInv
<1>2. CASE ~ReadPop
  <2>1. Untouched
    BY <1>2, HostStays
  <2>2. history'.errors <= MaxErrors
    BY <1>1, <2>1 DEF Untouched
  <2>3. GapBetween'
    BY <2>1 DEF LossInv, GapBetween, Untouched
  <2>4. QED
    BY <2>2, <2>3 DEF LossInv
<1>3. CASE ReadPop
  <2> DEFINE r == reader.record
             aliased == history.aliased \/ Aliases(r)
  <2>1. /\ r \in Records /\ Stamped(r) /\ Follows(history.last, r, Lost, history.errors)
        /\ Decode(r)
        /\ history' = [history EXCEPT !.last = r, !.first = IF @ = None THEN r ELSE @,
                                      !.reported = @ + r.count, !.aliased = aliased]
    BY <1>3, PopReads
  <2>2. aliased \in BOOLEAN /\ (history.aliased \/ Aliases(r) => aliased)
    OBVIOUS
  <2> HIDE DEF r, aliased
  <2>3. history'.errors = history.errors
    BY <2>1, <2>2, HistoryNext
  <2>4. CASE UNCHANGED out
    BY <1>1, <2>3, <2>4 DEF LossInv, GapBetween
  <2>5. CASE host.stopped = None /\ Readable(r) /\ Accept(r)
    <3> DEFINE S == SinceEvent
               A == Actual(r)
               G == GapBefore(r)
    <3>1. /\ out' \in Seq(Observed) /\ out' # <<>> /\ out'[Len(out')] = A
          /\ out' = IF r.kind = "event" /\ Missing(r.sequence) # 0
                    THEN Append(Append(S, G), A) ELSE Append(S, A)
      BY <2>1, <2>2, <2>5, StreamGoesOn DEF Accept
    <3>2. Truthful(r, First(r), aliased) /\ First(r) \in Records
      BY <2>1, <2>2, <2>5, ReadsTrue
    <3>3. /\ A \in Observed /\ A.record = r /\ (A.kind = "event" <=> r.kind = "event")
          /\ r.kind = "event" => G \in Observed
          /\ Numbered(r) \in Nat /\ r.id \in Nat
      <4>1. A \in Observed /\ (r.kind = "event" => G \in Observed)
        BY <2>1, <2>2, <3>2, ObservationsHonest
      <4>2. A.record = r /\ (A.kind = "event" <=> r.kind = "event")
        BY <2>1 DEF Actual, Records
      <4>3. QED
        BY <2>1, <3>2, <4>1, <4>2 DEF Truthful, Records
    <3>4. /\ HostStarts /\ HostFollows /\ OutFollows /\ out \in Seq(Observed)
          /\ Timeline(out, history.first, history.aliased)
      BY TimelineMeans DEF HostInv, HostType
    <3>5. S \in Seq(Observed) /\ (S = <<>> <=> out = <<>>)
      BY <3>4, TimelineSince
    <3>6. CASE A.kind # "event"
      BY <3>1, <3>6, <2>3, <1>1 DEF LossInv, GapBetween, Last
    <3>7. CASE r.kind = "event" /\ Missing(r.sequence) # 0
      <4>1. /\ Append(S, G) \in Seq(Observed) /\ Len(Append(S, G)) = Len(S) + 1
            /\ Append(S, G)[Len(S) + 1] = G /\ Len(S) \in Nat
        BY <3>3, <3>5, <3>7, AppendProperties
      <4>2. /\ Len(out') = Len(S) + 2 /\ out'[Len(S) + 1] = G
            /\ Len(S) + 1 \in 1..Len(out') /\ DOMAIN out' = 1..Len(out')
        BY <3>1, <3>3, <3>7, <4>1, AppendProperties
      <4>3. G.kind = "gap"
        BY <3>3, GapFields
      <4>4. \E i \in DOMAIN out' : out'[i].kind = "gap"
        BY <4>2, <4>3
      <4>5. QED
        BY <1>1, <2>3, <4>4 DEF LossInv, GapBetween
    <3>8. CASE r.kind = "event" /\ Missing(r.sequence) = 0
      <4>1. out' = Append(S, A) /\ Last(out') = A
        BY <3>1, <3>8 DEF Last
      <4>2. CASE out = <<>>
        <5>1. out' = <<A>>
          BY <3>3, <3>5, <4>1, <4>2
        <5>2. Head(out') = A
          BY <5>1
        <5>3. QED
          BY <1>1, <2>3, <3>3, <4>1, <5>2 DEF LossInv, GapBetween
      <4>3. CASE out # <<>> /\ out[Len(out)].kind = "event"
        <5>1. S = <<out[Len(out)]>>
          BY <4>3 DEF SinceEvent, Last
        <5>2. history.last # None
          BY <3>4, <4>3 DEF HostStarts
        <5>3. out[Len(out)].record = history.last /\ history.last.kind = "event"
          BY <2>5, <3>4, <4>3, <5>2 DEF OutFollows
        <5>4. r.id <= history.last.id + 1
          BY <1>1, <2>1, <2>5, <3>8, <5>2, <5>3, NoGapNoLoss
        <5>5. Head(out') = out[Len(out)]
          BY <3>3, <3>5, <4>1, <5>1, HeadTailAppend
        <5>6. Last(out').record.id <= Head(out').record.id + 1
          BY <3>3, <4>1, <5>3, <5>4, <5>5
        <5>7. QED
          BY <1>1, <2>3, <5>6 DEF LossInv, GapBetween
      <4>4. CASE out # <<>> /\ out[Len(out)].kind # "event"
        <5>1. S = out /\ Len(out) \in 1..Len(out) /\ out[Len(out)] \in Observed
          BY <3>4, <4>4, EmptySeq, ElementOfSeq DEF SinceEvent, Last
        <5>2. /\ out'[Len(out)] = out[Len(out)] /\ Len(out') = Len(out) + 1
              /\ DOMAIN out' = 1..Len(out')
          BY <3>1, <3>3, <3>5, <4>1, <5>1, AppendProperties
        <5>3. Len(out) \in DOMAIN out' /\ out'[Len(out)].kind = "gap"
          BY <4>4, <5>1, <5>2 DEF Observed
        <5>4. QED
          BY <1>1, <2>3, <5>3 DEF LossInv, GapBetween
      <4>5. QED
        BY <4>2, <4>3, <4>4
    <3>9. QED
      BY <3>3, <3>6, <3>7, <3>8
  <2>6. QED
    BY <2>1, <2>4, <2>5, DecodeCases
<1>4. QED
  BY <1>2, <1>3

-----------------------------------------------------------------------------
(* The theorems about the host *)

LEMMA HostInvariant == SlotsDivideWord => (Spec => []IInv)
<1> SUFFICES ASSUME SlotsDivideWord PROVE Spec => []IInv
  OBVIOUS
<1>1. Init => IInv
  BY InitType, InitRing, InitStream, InitHost DEF IInv
<1>2. IInv /\ [Next]_vars => IInv'
  BY StepType, StepRing, StepStream, StepHost DEF IInv
<1>3. QED
  BY <1>1, <1>2, PTL DEF Spec

\* Times and sequence numbers of the host's observations never decrease, never run ahead of
\* the firmware's, and are the firmware's own until a counter goes round between two
\* delivered records (TimestampUnwrapper::expand, expand_sequence).
THEOREM TimelineAlwaysTrue == SlotsDivideWord => (Spec => []TimelineIsTrue)
<1> SUFFICES ASSUME SlotsDivideWord PROVE Spec => []TimelineIsTrue
  OBVIOUS
<1>1. Spec => []IInv
  BY HostInvariant
<1>2. IInv => TimelineIsTrue
  BY DEF IInv, HostInv
<1>3. QED
  BY <1>1, <1>2, PTL

\* Every loss between two events the host sees has a TraceGap between the two, no record
\* arrives torn, and the host stops for its sequence only after half of the numbers were
\* lost, whatever the ring, the steps of the clock and the interleaving.
THEOREM LossAlwaysAnnounced == SlotsDivideWord /\ FewErrors => (Spec => []LossIsAnnounced)
<1> SUFFICES ASSUME SlotsDivideWord, FewErrors PROVE Spec => []LossIsAnnounced
  OBVIOUS
<1>1. Spec => []IInv
  BY HostInvariant
<1>2. Init => LossInv
  BY InitLoss
<1>3. IInv /\ LossInv /\ [Next]_vars => LossInv'
  BY StepLoss DEF IInv
<1>4. IInv /\ LossInv => LossIsAnnounced
  BY NoneAssumption
     DEF NoneAssumption, IInv, HostInv, HostType, OrderLost, LossInv, GapBetween, Lost,
         LossIsAnnounced
<1>5. QED
  BY <1>1, <1>2, <1>3, <1>4, PTL DEF Spec

-----------------------------------------------------------------------------
(* PART TWO: STACK SAMPLING                                                *)

InCapture ==
    {"capture_intent", "loop", "break", "break_observed", "frames", "go_intent", "go",
     "go_observed", "cleanup_intent", "cleanup_observed", "export_intent", "publish",
     "export_observed", "f_check", "f_intent", "f_go", "f_observed", "f_failed", "f_marked"}

InRecovery == {"r_intent", "r_go", "r_observed"}

StackTypeOK ==
    /\ journal \in [Txs -> Seq(Events)]
    /\ target \in {"running", "halted", "stopped"}
    /\ pc \in InCapture \cup InRecovery \cup {"idle", "recover"}
    /\ pc \in InCapture \cup InRecovery => tx \in Txs

\* A halt is on record, and from the intent on while the Break may still come.
HaltRecorded ==
    /\ target = "halted" => Halting # {}
    /\ pc = "break" => OwnsHalt(journal[tx])

\* An event that ends a halt is written only when there is none.
EndsNoHalt ==
    pc \in {"go_observed", "cleanup_observed", "f_observed", "r_observed"} => target # "halted"

\* Only the transaction that runs, or the one that is left over, has a halt.
OneHalting ==
    /\ \A t, u \in Halting : t = u
    /\ pc \in InCapture => Halting \subseteq {tx}

\* The halt the capture will end with a Go is its own.
OwnedIsNotExternal ==
    owns \/ pc \in {"break", "break_observed", "frames", "go_intent", "go"} => target # "stopped"

StackIInv == StackTypeOK /\ HaltRecorded /\ EndsNoHalt /\ OneHalting /\ OwnedIsNotExternal

-----------------------------------------------------------------------------
(* What an append does to the halts of a journal.                           *)
LEMMA HaltAppend ==
    ASSUME NEW j \in Seq(Events), NEW e \in Events
    PROVE  OwnsHalt(Append(j, e)) <=> e = "break_intent" \/ (OwnsHalt(j) /\ e \notin Resumed)
<1> DEFINE k == Append(j, e)
<1>1. /\ Len(k) = Len(j) + 1 /\ k[Len(j) + 1] = e /\ \A i \in 1..Len(j) : k[i] = j[i]
      /\ DOMAIN k = 1..(Len(j) + 1) /\ DOMAIN j = 1..Len(j) /\ Len(j) \in Nat
  OBVIOUS
<1>2. ASSUME e = "break_intent" PROVE OwnsHalt(k)
  <2>1. \A n \in DOMAIN k : ~(n > Len(j) + 1)
    BY <1>1
  <2> QED BY <1>1, <1>2, <2>1 DEF OwnsHalt
<1>3. ASSUME OwnsHalt(j), e \notin Resumed PROVE OwnsHalt(k)
  <2>1. PICK i \in 1..Len(j) :
           j[i] = "break_intent" /\ \A n \in 1..Len(j) : n > i => j[n] \notin Resumed
    BY <1>1, <1>3 DEF OwnsHalt
  <2>2. \A n \in 1..(Len(j) + 1) : n > i => k[n] \notin Resumed
    BY <1>1, <1>3, <2>1
  <2> QED BY <1>1, <2>1, <2>2 DEF OwnsHalt
<1>4. ASSUME OwnsHalt(k), e # "break_intent" PROVE OwnsHalt(j) /\ e \notin Resumed
  <2>1. PICK i \in 1..(Len(j) + 1) :
           k[i] = "break_intent" /\ \A n \in 1..(Len(j) + 1) : n > i => k[n] \notin Resumed
    BY <1>1, <1>4 DEF OwnsHalt
  <2>2. i \in 1..Len(j)
    BY <1>1, <1>4, <2>1
  <2>3. e \notin Resumed
    BY <1>1, <2>1, <2>2
  <2> QED BY <1>1, <2>1, <2>2, <2>3 DEF OwnsHalt
<1> QED BY <1>2, <1>3, <1>4 DEF Resumed

LEMMA EventNames ==
    Events = {"break_intent", "break_observed", "go_intent", "go_observed", "capture_intent",
              "capture_observed", "cleanup_intent", "recovery_intent", "cleanup_observed",
              "cleanup_failed", "recovery_observed", "export_intent", "export_observed"}
<1>1. Range(Cycle) = {"break_intent", "break_observed", "go_intent", "go_observed"}
  <2>1. DOMAIN Cycle = 1..4
    BY DEF Cycle
  <2> QED BY <2>1 DEF Range, Cycle
<1> QED BY <1>1 DEF Events

\* The halts on record after event e of the running transaction.
HaltingAfter(e) ==
    IF e = "break_intent" THEN Halting \cup {tx}
    ELSE IF e \in Resumed THEN Halting \ {tx} ELSE Halting

LEMMA LinkedHalting ==
    ASSUME StackTypeOK, tx \in Txs, NEW e \in Events, Linked(e)
    PROVE  journal' \in [Txs -> Seq(Events)] /\ Halting' = HaltingAfter(e)
<1>1. journal' = [journal EXCEPT ![tx] = Append(journal[tx], e)] /\ journal[tx] \in Seq(Events)
  BY DEF Linked, StackTypeOK
<1>2. OwnsHalt(journal'[tx]) <=> e = "break_intent" \/ (OwnsHalt(journal[tx]) /\ e \notin Resumed)
  BY <1>1, HaltAppend DEF StackTypeOK
<1>3. \A t \in Txs \ {tx} : journal'[t] = journal[t]
  BY <1>1 DEF StackTypeOK
<1>4. journal' \in [Txs -> Seq(Events)]
  BY <1>1 DEF StackTypeOK
<1>5. "break_intent" \notin Resumed
  BY DEF Resumed
<1>6. \A t \in Txs : t \in Halting <=> OwnsHalt(journal[t])
  BY DEF Halting
<1>7. \A t \in Txs : t \in Halting' <=> OwnsHalt(journal'[t])
  BY DEF Halting
<1>8. \A t : t \in Halting' <=> t \in HaltingAfter(e)
  BY <1>2, <1>3, <1>5, <1>6, <1>7 DEF HaltingAfter, Halting
<1> QED BY <1>4, <1>8

(* An attempt to append either changes nothing or links the event.          *)
LEMMA AppendHalting ==
    ASSUME StackTypeOK, tx \in Txs, NEW e \in Events, Appended(e) \/ AppendFails(e)
    PROVE  /\ journal' \in [Txs -> Seq(Events)]
           /\ Halting' \in {Halting, HaltingAfter(e)}
           /\ Appended(e) => Halting' = HaltingAfter(e)
<1>1. CASE Linked(e)
  BY <1>1, LinkedHalting
<1>2. CASE ~Linked(e)
  <2>1. UNCHANGED journal /\ ~Appended(e)
    BY <1>2 DEF Appended, AppendFails
  <2>2. Halting' = Halting
    BY <2>1 DEF Halting
  <2> QED BY <2>1, <2>2 DEF StackTypeOK
<1> QED BY <1>1, <1>2

LEMMA QuietHalting == UNCHANGED journal => Halting' = Halting
BY DEF Halting

-----------------------------------------------------------------------------
LEMMA InitStack == StackInit => StackIInv
<1> SUFFICES ASSUME StackInit PROVE StackIInv
  OBVIOUS
<1>1. \A t \in Txs : journal[t] = <<>>
  BY DEF StackInit
<1>2. Halting = {}
  BY <1>1 DEF Halting, OwnsHalt
<1> QED BY <1>1, <1>2, SMT DEF StackInit, StackIInv, StackTypeOK, InCapture, InRecovery,
               HaltRecorded, EndsNoHalt,
           OneHalting, OwnedIsNotExternal

(* Every step of a capture, of its finally clause and of a recovery keeps   *)
(* the account of halts.                                                    *)
LEMMA StepStack == StackIInv /\ [StackNext]_stackVars => StackIInv'
<1> SUFFICES ASSUME StackIInv, [StackNext]_stackVars PROVE StackIInv'
  OBVIOUS
<1>0. StackTypeOK
  BY DEF StackIInv
<1>a. \A t \in Txs : OwnsHalt(journal[t]) <=> t \in Halting
  BY DEF Halting
<1>b. \A t \in Txs : OwnsHalt(journal[t])' <=> t \in Halting'
  BY DEF Halting
<1>c. "break_intent" \notin Resumed /\ Halting \subseteq Txs /\ Halting' \subseteq Txs
  BY DEF Resumed, Halting
<1> USE <1>a, <1>b, <1>c, EventNames DEF StackIInv, StackTypeOK, InCapture, InRecovery,
    HaltRecorded, EndsNoHalt, OneHalting, OwnedIsNotExternal
<1>1. ASSUME NEW s \in Sessions, BeginCapture(s) PROVE StackIInv'
  <2>1. UNCHANGED journal
    BY <1>1 DEF BeginCapture, disk
  <2> QED BY <1>1, <2>1, QuietHalting DEF BeginCapture, NothingPending, Goto, Reset, Return
<1>2. ASSUME CaptureIntent PROVE StackIInv'
  <2>1. tx \in Txs /\ (Appended("capture_intent") \/ AppendFails("capture_intent"))
    BY <1>2 DEF CaptureIntent
  <2> QED BY <1>2, <2>1, <1>0, AppendHalting DEF CaptureIntent, Goto, Reset, Return,
                 HaltingAfter, Resumed
<1>3. ASSUME BreakIntent PROVE StackIInv'
  <2>1. tx \in Txs /\ (Appended("break_intent") \/ AppendFails("break_intent"))
    BY <1>3 DEF BreakIntent
  <2> QED BY <1>3, <2>1, <1>0, AppendHalting DEF BreakIntent, Goto, Reset, Return,
                 HaltingAfter, Resumed
<1>4. ASSUME Cancel PROVE StackIInv'
  <2>1. UNCHANGED journal
    BY <1>4 DEF Cancel, disk
  <2> QED BY <1>4, <2>1, QuietHalting DEF Cancel, disk, Goto, Reset, Return
<1>5. ASSUME Break PROVE StackIInv'
  <2>1. UNCHANGED journal
    BY <1>5 DEF Break, disk
  <2> QED BY <1>5, <2>1, QuietHalting DEF Break, disk, BreakDone, BreakFails, Goto, Reset, Return
<1>6. ASSUME BreakObserved PROVE StackIInv'
  <2>1. tx \in Txs /\ (Appended("break_observed") \/ AppendFails("break_observed"))
    BY <1>6 DEF BreakObserved, TryAppend
  <2> QED BY <1>6, <2>1, <1>0, AppendHalting DEF BreakObserved, TryAppend, Goto, Reset, Return,
                 HaltingAfter, Resumed
<1>7. ASSUME Frames PROVE StackIInv'
  <2>1. UNCHANGED journal
    BY <1>7 DEF Frames, disk
  <2> QED BY <1>7, <2>1, QuietHalting DEF Frames, disk, Goto, Reset, Return
<1>8. ASSUME GoIntent PROVE StackIInv'
  <2>1. tx \in Txs /\ (Appended("go_intent") \/ AppendFails("go_intent"))
    BY <1>8 DEF GoIntent, TryAppend
  <2> QED BY <1>8, <2>1, <1>0, AppendHalting DEF GoIntent, TryAppend, Goto, Reset, Return,
                 HaltingAfter, Resumed
<1>9. ASSUME Go PROVE StackIInv'
  <2>1. UNCHANGED journal
    BY <1>9 DEF Go, disk
  <2> QED BY <1>9, <2>1, QuietHalting DEF Go, disk, GoDone, GoFails, Goto, Reset, Return
<1>10. ASSUME GoObserved PROVE StackIInv'
  <2>1. tx \in Txs /\ (Appended("go_observed") \/ AppendFails("go_observed"))
    BY <1>10 DEF GoObserved, TryAppend
  <2> QED BY <1>10, <2>1, <1>0, AppendHalting DEF GoObserved, TryAppend, Goto, Reset, Return,
                 HaltingAfter, Resumed
<1>11. ASSUME CaptureObserved PROVE StackIInv'
  <2>1. tx \in Txs /\ (Appended("capture_observed") \/ AppendFails("capture_observed"))
    BY <1>11 DEF CaptureObserved, TryAppend
  <2> QED BY <1>11, <2>1, <1>0, AppendHalting DEF CaptureObserved, TryAppend, Goto, Reset,
                 Return, HaltingAfter, Resumed
<1>12. ASSUME CleanupIntent PROVE StackIInv'
  <2>1. tx \in Txs /\ (Appended("cleanup_intent") \/ AppendFails("cleanup_intent"))
    BY <1>12 DEF CleanupIntent, TryAppend
  <2> QED BY <1>12, <2>1, <1>0, AppendHalting DEF CleanupIntent, TryAppend, Goto, Reset,
                 Return, HaltingAfter, Resumed
<1>13. ASSUME CleanupObserved PROVE StackIInv'
  <2>1. tx \in Txs /\ (Appended("cleanup_observed") \/ AppendFails("cleanup_observed"))
    BY <1>13 DEF CleanupObserved, TryAppend
  <2> QED BY <1>13, <2>1, <1>0, AppendHalting DEF CleanupObserved, TryAppend, Goto, Reset,
                 Return, HaltingAfter, Resumed
<1>14. ASSUME StoppedElsewhere PROVE StackIInv'
  <2>1. UNCHANGED journal
    BY <1>14 DEF StoppedElsewhere, disk
  <2> QED BY <1>14, <2>1, QuietHalting DEF StoppedElsewhere, disk, Goto, Reset, Return
<1>15. ASSUME Export PROVE StackIInv'
  <2>1. CASE Appended(pc) \/ AppendFails(pc)
    <3>1. tx \in Txs /\ pc \in {"export_intent", "export_observed", "publish"} /\ UNCHANGED target
      BY <1>15 DEF Export
    <3>2. CASE pc = "publish"
      <4>1. UNCHANGED journal
        BY <1>15, <3>2 DEF Export
      <4> QED BY <1>15, <3>1, <3>2, <4>1, QuietHalting DEF Export, Goto, Reset, Return
    <3>3. CASE pc # "publish"
      <4>1. pc \in Events /\ pc \notin Resumed /\ pc # "break_intent"
        BY <3>1, <3>3 DEF Resumed
      <4>2. journal' \in [Txs -> Seq(Events)] /\ Halting' = Halting
        BY <2>1, <3>1, <4>1, <1>0, AppendHalting DEF HaltingAfter
      <4> QED BY <1>15, <3>1, <4>2 DEF Export, Goto, Reset, Return
    <3> QED BY <3>2, <3>3
  <2>2. CASE ~(Appended(pc) \/ AppendFails(pc))
    <3>1. UNCHANGED journal
      BY <1>15, <2>2 DEF Export
    <3> QED BY <1>15, <2>2, <3>1, QuietHalting DEF Export, Goto, Reset, Return
  <2> QED BY <2>1, <2>2
<1>16. ASSUME FinallyCheck PROVE StackIInv'
  <2>1. UNCHANGED journal
    BY <1>16 DEF FinallyCheck, disk
  <2> QED BY <1>16, <2>1, QuietHalting DEF FinallyCheck, disk, Goto, Reset, Return
<1>17. ASSUME FinallyIntent PROVE StackIInv'
  <2>1. tx \in Txs /\ (Appended("cleanup_intent") \/ AppendFails("cleanup_intent"))
    BY <1>17 DEF FinallyIntent
  <2> QED BY <1>17, <2>1, <1>0, AppendHalting DEF FinallyIntent, Goto, Reset, Return,
                 HaltingAfter, Resumed
<1>18. ASSUME FinallyGo PROVE StackIInv'
  <2>1. UNCHANGED journal
    BY <1>18 DEF FinallyGo, disk
  <2> QED BY <1>18, <2>1, QuietHalting DEF FinallyGo, disk, GoDone, GoFails, Goto, Reset, Return
<1>19. ASSUME FinallyObserved PROVE StackIInv'
  <2>1. tx \in Txs /\ (Appended("cleanup_observed") \/ AppendFails("cleanup_observed"))
    BY <1>19 DEF FinallyObserved
  <2> QED BY <1>19, <2>1, <1>0, AppendHalting DEF FinallyObserved, Goto, Reset, Return,
                 HaltingAfter, Resumed
<1>20. ASSUME FinallyFailed PROVE StackIInv'
  <2>1. tx \in Txs /\ (Appended("cleanup_failed") \/ AppendFails("cleanup_failed"))
    BY <1>20 DEF FinallyFailed
  <2> QED BY <1>20, <2>1, <1>0, AppendHalting DEF FinallyFailed, Goto, Reset, Return,
                 HaltingAfter, Resumed
<1>21. ASSUME FinallyMarked PROVE StackIInv'
  <2>1. UNCHANGED journal
    BY <1>21 DEF FinallyMarked, disk
  <2> QED BY <1>21, <2>1, QuietHalting DEF FinallyMarked, Goto, Reset, Return
<1>22. ASSUME RecoverBegin PROVE StackIInv'
  <2>1. UNCHANGED journal
    BY <1>22 DEF RecoverBegin, disk
  <2> QED BY <1>22, <2>1, QuietHalting DEF RecoverBegin, disk, Goto, Reset, Return
<1>23. ASSUME NEW t \in Txs, RecoverIntent(t) PROVE StackIInv'
  <2>1. UNCHANGED journal
    BY <1>23 DEF RecoverIntent, disk
  <2> QED BY <1>23, <2>1, QuietHalting DEF RecoverIntent, disk, Goto, Reset, Return
<1>24. ASSUME RecoverAppend PROVE StackIInv'
  <2>1. tx \in Txs /\ (Appended("recovery_intent") \/ AppendFails("recovery_intent"))
    BY <1>24 DEF RecoverAppend
  <2> QED BY <1>24, <2>1, <1>0, AppendHalting DEF RecoverAppend, Goto, Reset, Return,
                 HaltingAfter, Resumed
<1>25. ASSUME RecoverGo PROVE StackIInv'
  <2>1. UNCHANGED journal
    BY <1>25 DEF RecoverGo, disk
  <2> QED BY <1>25, <2>1, QuietHalting DEF RecoverGo, GoDone, GoFails, Goto, Reset, Return
<1>26. ASSUME RecoverObserved PROVE StackIInv'
  <2>1. PICK e \in {"cleanup_observed", "recovery_observed"} :
           \/ Appended(e) /\ Goto("recover")
           \/ AppendFails(e) /\ Reset
    BY <1>26 DEF RecoverObserved
  <2>2. tx \in Txs /\ e \in Events /\ UNCHANGED target /\ target # "halted"
    BY <1>26 DEF RecoverObserved
  <2>3. journal' \in [Txs -> Seq(Events)] /\ Halting' \subseteq Halting
    BY <2>1, <2>2, <1>0, AppendHalting DEF HaltingAfter, Resumed
  <2> QED BY <2>1, <2>2, <2>3 DEF Goto, Reset
<1>27. ASSUME RecoverDone PROVE StackIInv'
  <2>1. UNCHANGED journal
    BY <1>27 DEF RecoverDone, disk
  <2> QED BY <1>27, <2>1, QuietHalting DEF RecoverDone, Goto, Reset, Return
<1>28. ASSUME Crash PROVE StackIInv'
  <2>0. pc' = "idle" /\ owns' = FALSE /\ UNCHANGED target
    BY <1>28 DEF Crash, Return, Reset
  <2>1. CASE UNCHANGED journal
    BY <1>28, <2>0, <2>1, QuietHalting DEF Crash, Return, Reset
  <2>2. CASE \E e \in Appending : Linked(e)
    <3>1. PICK e \in Appending : Linked(e)
      BY <2>2
    <3>2. /\ e \in Events /\ tx \in Txs
          /\ e = "break_intent" => pc = "loop"
          /\ e \in Resumed => pc \in {"go_observed", "cleanup_observed", "f_observed", "r_observed"}
      <4>1. CASE pc \in Events
        <5>1. e = pc
          BY <3>1, <4>1 DEF Appending
        <5> QED BY <5>1, <4>1 DEF Resumed
      <4>2. CASE pc \notin Events
        BY <3>1, <4>2 DEF Appending, Resumed
      <4> QED BY <4>1, <4>2
    <3>3. journal' \in [Txs -> Seq(Events)] /\ Halting' = HaltingAfter(e)
      BY <3>1, <3>2, <1>0, LinkedHalting
    <3> QED BY <2>0, <3>2, <3>3 DEF HaltingAfter
  <2> QED BY <1>28, <2>1, <2>2 DEF Crash
<1>29. ASSUME ExternalStop PROVE StackIInv'
  <2>1. UNCHANGED journal
    BY <1>29 DEF ExternalStop, disk
  <2> QED BY <1>29, <2>1, QuietHalting DEF ExternalStop, disk, call, Goto, Reset, Return
<1>30. ASSUME ExternalGo PROVE StackIInv'
  <2>1. UNCHANGED journal
    BY <1>30 DEF ExternalGo, disk
  <2> QED BY <1>30, <2>1, QuietHalting DEF ExternalGo, disk, call, Goto, Reset, Return
<1>31. CASE UNCHANGED stackVars
  BY <1>31, QuietHalting DEF stackVars, disk, call
<1> QED BY <1>1, <1>2, <1>3, <1>4, <1>5, <1>6, <1>7, <1>8, <1>9, <1>10, <1>11, <1>12, <1>13,
           <1>14, <1>15, <1>16, <1>17, <1>18, <1>19, <1>20, <1>21, <1>22, <1>23, <1>24, <1>25,
           <1>26, <1>27, <1>28, <1>29, <1>30, <1>31 DEF StackNext

-----------------------------------------------------------------------------
(* The invariant holds in every reachable state.                            *)
THEOREM StackInvariant == StackSpec => []StackIInv
BY InitStack, StepStack, PTL DEF StackSpec

(* A target that the sidecar has halted is on record as the halt of exactly *)
(* one transaction, whatever appends, calls and processes have failed.      *)
THEOREM HaltAlwaysOwned == StackSpec => []HaltIsOwned
<1>1. StackIInv => HaltIsOwned
  <2> SUFFICES ASSUME StackIInv, target = "halted" PROVE Cardinality(Halting) = 1
    BY DEF HaltIsOwned
  <2>1. PICK t \in Halting : Halting = {t}
    BY DEF StackIInv, HaltRecorded, OneHalting
  <2> QED BY <2>1, FS_Singleton
<1> QED BY <1>1, StackInvariant, PTL

(* No failure path of a capture resumes a target that somebody else has     *)
(* stopped.                                                                 *)
THEOREM ExternalStopNeverResumed == StackSpec => ExternalStopKept
<1>1. ASSUME StackIInv, [StackNext]_stackVars
      PROVE  [target = "stopped" /\ target' = "running" => pc = "r_go" \/ ExternalGo]_stackVars
  <2> SUFFICES ASSUME StackNext, target = "stopped", target' = "running", pc # "r_go"
               PROVE  ExternalGo
    BY <1>1 DEF stackVars
  <2> USE <1>1 DEF StackIInv, OwnedIsNotExternal
  <2>1. ~Break /\ ~Go /\ ~FinallyGo /\ ~RecoverGo /\ ~ExternalStop
    BY DEF Break, Go, FinallyGo, RecoverGo, ExternalStop
  <2>2. /\ ~\E s \in Sessions : BeginCapture(s)
        /\ ~CaptureIntent /\ ~BreakIntent /\ ~Cancel /\ ~BreakObserved /\ ~Frames
        /\ ~GoIntent /\ ~GoObserved /\ ~CaptureObserved /\ ~CleanupIntent /\ ~CleanupObserved
        /\ ~StoppedElsewhere /\ ~Export
    BY DEF BeginCapture, CaptureIntent, BreakIntent, Cancel, BreakObserved, Frames, GoIntent,
           GoObserved, CaptureObserved, CleanupIntent, CleanupObserved, StoppedElsewhere, Export
  <2>3. /\ ~FinallyCheck /\ ~FinallyIntent /\ ~FinallyObserved /\ ~FinallyFailed /\ ~FinallyMarked
        /\ ~RecoverBegin /\ ~(\E t \in Txs : RecoverIntent(t)) /\ ~RecoverAppend
        /\ ~RecoverObserved /\ ~RecoverDone /\ ~Crash
    BY DEF FinallyCheck, FinallyIntent, FinallyObserved, FinallyFailed, FinallyMarked,
           RecoverBegin, RecoverIntent, RecoverAppend, RecoverObserved, RecoverDone, Crash
  <2> QED BY <2>1, <2>2, <2>3 DEF StackNext
<1> QED BY <1>1, StackInvariant, PTL DEF StackSpec, ExternalStopKept

-----------------------------------------------------------------------------
(* PART THREE: THE MERGE                                                   *)

\* What a source holds at one place of its stream.
Entries == SourceRecords(Names) \cup {Bad}

Keys == Nat \cup {Absent}
Orders == [sequences : [Names -> Keys], timestamps : [Names -> Keys], global : Keys]
SourceStates == [order : Orders, last_timestamp : Keys, last_order_key : Keys]

MergeTypeOK ==
    /\ input \in [Sources -> Seq(Entries)] /\ whole \in [Sources -> Seq(Entries)]
    /\ heads \in [Sources -> SourceRecords(Names) \cup {Absent}]
    /\ states \in [Sources -> SourceStates]
    /\ deferred \in BOOLEAN
    /\ writerOrder \in Orders
    /\ written \in Seq([from : Sources, record : SourceRecords(Names)])
    /\ status \in {"opening", "reading", "complete", "failed"}

\* Nothing was pulled before the merge is open.
Unopened ==
    /\ input = whole /\ written = <<>> /\ ~deferred
    /\ \A s \in Sources : heads[s] = Absent

\* The number of records of s written, and the record of s the merge holds.
Merged(s) == Contributed(s, Len(written))
Waiting(s) == IF heads[s] = Absent THEN 0 ELSE 1

\* The stream of s is what was written of it, then its head, then what it still holds.
SupplyOf(s) ==
    /\ Merged(s) + Waiting(s) + Len(input[s]) = Len(whole[s])
    /\ \A i \in 1..Len(input[s]) : input[s][i] = whole[s][Merged(s) + Waiting(s) + i]
    /\ heads[s] = Absent => input[s] = <<>>

\* The head of s is the next record of its stream, and the one its state remembers.
HeadOf(s) ==
    heads[s] # Absent =>
        /\ heads[s] = whole[s][Merged(s) + 1]
        /\ states[s].last_timestamp = heads[s].ts
        /\ states[s].last_order_key = heads[s].key

\* At one time, the keys put record a before record b.
KeysOrder(a, b) ==
    a.ts = b.ts => a.key # Absent /\ b.key # Absent /\ a.key < b.key

\* Every head comes after what was written.
HeadAfter(s) ==
    heads[s] # Absent =>
        \A i \in DOMAIN written : written[i].record.ts <= heads[s].ts

HeadTies(s) ==
    heads[s] # Absent =>
        \A i \in DOMAIN written :
            written[i].from # s => KeysOrder(written[i].record, heads[s])

Merging == status = "reading" /\ ~deferred

MergeInv ==
    /\ status = "opening" => Unopened
    /\ Merging => \A s \in Sources : SupplyOf(s) /\ HeadOf(s) /\ HeadAfter(s)
    /\ \A i \in DOMAIN written :
            /\ Contributed(written[i].from, i) \in DOMAIN whole[written[i].from]
            /\ written[i].record = whole[written[i].from][Contributed(written[i].from, i)]
    /\ \A i \in 2..Len(written) : written[i - 1].record.ts <= written[i].record.ts
    /\ status = "complete" => \A s \in Sources : Merged(s) = Len(whole[s])

\* The order keys of a source decide, as far as they are all present or all absent.
KeysUniform == \A stream \in Streams : Uniform(stream)

TiesInv ==
    /\ \A s \in Sources : Uniform(whole[s])
    /\ Merging => \A s \in Sources : HeadTies(s)
    /\ \A i, j \in DOMAIN written :
            i < j /\ written[i].from # written[j].from =>
                KeysOrder(written[i].record, written[j].record)

TiesIInv == MergeTypeOK /\ MergeInv /\ TiesInv

-----------------------------------------------------------------------------
(* Lemmas about the operators                                              *)

\* A record is not one of the marks.
LEMMA RecordFacts ==
    ASSUME NEW r \in SourceRecords(Names)
    PROVE  /\ r.name \in Names /\ r.seq \in Nat /\ r.ts \in Nat /\ r.key \in Keys
           /\ r # Absent /\ r # Bad
  BY StreamsAssumption DEF SourceRecords, Keys

\* What a source delivers is one of its entries, or Absent at its end only.
LEMMA PullFacts ==
    ASSUME NEW s \in Sources, input[s] \in Seq(Entries)
    PROVE  /\ Pulled(s) \in Entries \cup {Absent}
           /\ Pulled(s) = Absent <=> input[s] = <<>>
           /\ Rest(s) \in Seq(Entries)
           /\ input[s] # <<>> =>
                /\ Len(input[s]) >= 1 /\ Pulled(s) = input[s][1]
                /\ Len(Rest(s)) = Len(input[s]) - 1
                /\ \A i \in 1..Len(Rest(s)) : Rest(s)[i] = input[s][i + 1]
           /\ ~Refused(s) => Pulled(s) \in SourceRecords(Names) \cup {Absent}
<1>1. Absent \notin Entries
  BY StreamsAssumption DEF Entries
<1>2. CASE input[s] = <<>>
  <2>1. Pulled(s) = Absent /\ Rest(s) = <<>>
    BY <1>2 DEF Pulled, Rest
  <2>2. <<>> \in Seq(Entries)
    BY EmptySeq
  <2>. QED
    BY <1>2, <2>1, <2>2
<1>3. CASE input[s] # <<>>
  <2>1. Pulled(s) = Head(input[s]) /\ Rest(s) = Tail(input[s])
    BY <1>3 DEF Pulled, Rest
  <2>2. Head(input[s]) \in Entries /\ Head(input[s]) = input[s][1] /\ Len(input[s]) >= 1
    BY <1>3
  <2>3. /\ Tail(input[s]) \in Seq(Entries) /\ Len(Tail(input[s])) = Len(input[s]) - 1
        /\ \A i \in 1..Len(Tail(input[s])) : Tail(input[s])[i] = input[s][i + 1]
    BY <1>3
  <2>4. ~Refused(s) => Pulled(s) \in SourceRecords(Names)
    BY <2>1, <2>2, <1>1 DEF Refused, Entries
  <2>. QED
    BY <1>1, <1>3, <2>1, <2>2, <2>3, <2>4
<1>. QED
  BY <1>2, <1>3

\* The first n observations hold no more than n records of one source.
LEMMA ContributedBounds ==
    ASSUME NEW s \in Sources, NEW n \in Nat
    PROVE  Contributed(s, n) \in Nat
<1>. DEFINE T == {i \in 1..n : written[i].from = s}
<1>1. IsFiniteSet(1..n)
  BY FS_Interval
<1>2. IsFiniteSet(T)
  BY <1>1, FS_Subset
<1>3. Cardinality(T) \in Nat
  BY <1>2, FS_CardinalityType
<1>. QED
  BY <1>3 DEF Contributed

\* An observation written is the next one of its source, and changes no other count.
LEMMA ContributedGrows ==
    ASSUME NEW W, written \in Seq(W), NEW e \in W, written' = Append(written, e),
           NEW s \in Sources
    PROVE  /\ \A n \in 0..Len(written) : Contributed(s, n)' = Contributed(s, n)
           /\ Merged(s)' = Merged(s) + (IF e.from = s THEN 1 ELSE 0)
<1>. DEFINE L == Len(written)
<1>1. /\ L \in Nat /\ Len(written') = L + 1 /\ written'[L + 1] = e
      /\ \A i \in 1..L : written'[i] = written[i]
  OBVIOUS
<1>2. ASSUME NEW n \in 0..L
      PROVE  Contributed(s, n)' = Contributed(s, n)
  <2>1. {i \in 1..n : written'[i].from = s} = {i \in 1..n : written[i].from = s}
    BY <1>1
  <2>. QED
    BY <2>1 DEF Contributed
<1>3. Merged(s)' = Merged(s) + (IF e.from = s THEN 1 ELSE 0)
  <2>. DEFINE T == {i \in 1..L : written[i].from = s}
              T2 == {i \in 1..(L + 1) : written'[i].from = s}
  <2>1. IsFiniteSet(1..L)
    BY <1>1, FS_Interval
  <2>2. IsFiniteSet(T) /\ L + 1 \notin T
    <3>1. IsFiniteSet(T)
      BY <2>1, FS_Subset
    <3>2. L + 1 \notin T
      BY <1>1
    <3>. QED
      BY <3>1, <3>2
  <2>3. T2 = IF e.from = s THEN T \cup {L + 1} ELSE T
    BY <1>1
  <2>4. Cardinality(T \cup {L + 1}) = Cardinality(T) + 1 /\ Cardinality(T) \in Nat
    <3>. HIDE DEF T, L
    <3>. QED
      BY <2>2, FS_AddElement, FS_CardinalityType
  <2>5. Cardinality(T2) = Cardinality(T) + (IF e.from = s THEN 1 ELSE 0)
    <3>. HIDE DEF T, T2
    <3>. QED
      BY <2>3, <2>4
  <2>6. Merged(s) = Cardinality(T) /\ Merged(s)' = Cardinality(T2)
    BY <1>1 DEF Merged, Contributed
  <2>. QED
    BY <2>5, <2>6
<1>. QED
  BY <1>2, <1>3

\* select_head: the head selected is among the earliest, and before all the others among them.
LEMMA SelectedFirst ==
    ASSUME heads \in [Sources -> SourceRecords(Names) \cup {Absent}], Live # {}, ~Ambiguous
    PROVE  /\ Selected \in Live
           /\ \A t \in Live :
                /\ heads[Selected].ts <= heads[t].ts
                /\ t # Selected => KeysOrder(heads[Selected], heads[t])
<1>. DEFINE Times == {heads[t].ts : t \in Live}
            earliest == Min(Times)
<1>1. \A t \in Live :
        /\ t \in Sources /\ heads[t] \in SourceRecords(Names)
        /\ heads[t].ts \in Nat /\ heads[t].key \in Keys
  BY RecordFacts DEF Live
<1>2. Times \in SUBSET Nat /\ Times # {}
  BY <1>1
<1>3. PICK m \in Times : \A k \in Times : m <= k
  <2>. HIDE DEF Times
  <2>. QED
    BY <1>2, LeastNumber
<1>4. earliest \in Times /\ \A k \in Times : earliest <= k
  <2>. HIDE DEF Times
  <2>. QED
    BY <1>3 DEF Min
<1>5. Tied = {t \in Live : heads[t].ts = earliest}
  BY DEF Tied
<1>6. /\ earliest \in Nat
      /\ \A t \in Live : earliest <= heads[t].ts
      /\ Tied \subseteq Live /\ Tied # {}
  BY <1>2, <1>4, <1>5
<1>. HIDE DEF Times, earliest
<1>7. IsFiniteSet(Tied)
  <2>1. Tied \in SUBSET Sources
    BY <1>1, <1>6
  <2>. QED
    BY <2>1, SourcesAssumption, FS_Subset
<1>8. Cardinality(Tied) \in Nat /\ Cardinality(Tied) >= 1
  BY <1>6, <1>7, FS_CardinalityType, FS_EmptySet
<1>9. Selected \in Tied /\ \A t \in Tied : t # Selected => KeysOrder(heads[Selected], heads[t])
  <2>1. CASE Cardinality(Tied) = 1
    <3>1. \E x : Tied = {x}
      BY <1>7, <2>1, FS_Singleton
    <3>2. Selected \in Tied
      BY <1>6, <2>1 DEF Selected
    <3>. QED
      BY <3>1, <3>2
  <2>2. CASE Cardinality(Tied) # 1
    <3>1. /\ \A t \in Tied : heads[t].key # Absent
          /\ \A t, u \in Tied : heads[t].key = heads[u].key => t = u
      <4>1. Cardinality(Tied) > 1
        BY <1>8, <2>2
      <4>2. IsInjective([t \in Tied |-> heads[t].key])
        BY <4>1 DEF Ambiguous
      <4>. QED
        BY <4>1, <4>2 DEF Ambiguous, IsInjective
    <3>2. \A t \in Tied : heads[t].key \in Nat
      BY <1>1, <1>6, <3>1 DEF Keys
    <3>. DEFINE TiedKeys == {heads[t].key : t \in Tied}
    <3>3. TiedKeys \in SUBSET Nat /\ TiedKeys # {}
      BY <1>6, <3>2
    <3>4. PICK k \in TiedKeys : \A j \in TiedKeys : k <= j
      <4>. HIDE DEF TiedKeys
      <4>. QED
        BY <3>3, LeastNumber
    <3>5. \E u \in Tied : \A t \in Tied : heads[u].key <= heads[t].key
      BY <3>4
    <3>6. Selected \in Tied /\ \A t \in Tied : heads[Selected].key <= heads[t].key
      BY <2>2, <3>5 DEF Selected
    <3>7. ASSUME NEW t \in Tied, t # Selected
          PROVE  KeysOrder(heads[Selected], heads[t])
      <4>1. heads[Selected].key # heads[t].key /\ heads[Selected].key <= heads[t].key
        BY <3>1, <3>6, <3>7
      <4>2. heads[Selected].key < heads[t].key
        BY <4>1, <3>2, <3>6
      <4>. QED
        BY <4>2, <3>1, <3>6 DEF KeysOrder
    <3>. QED
      BY <3>6, <3>7
  <2>. QED
    BY <2>1, <2>2
<1>10. ASSUME NEW t \in Live
       PROVE  /\ heads[Selected].ts <= heads[t].ts
              /\ t # Selected => KeysOrder(heads[Selected], heads[t])
  <2>1. heads[Selected].ts = earliest
    BY <1>5, <1>9
  <2>2. heads[Selected].ts <= heads[t].ts
    BY <1>6, <2>1
  <2>3. CASE t \in Tied
    BY <1>9, <2>2, <2>3
  <2>4. CASE t \notin Tied
    BY <1>5, <2>1, <2>2, <2>4 DEF KeysOrder
  <2>. QED
    BY <2>3, <2>4
<1>. QED
  BY <1>6, <1>9, <1>10

-----------------------------------------------------------------------------
(* The initial states                                                      *)

\* What is added to a record is its identifier: its time and its key stay.
LEMMA IdentifiedFacts ==
    ASSUME NEW s \in Sources, NEW stream \in Streams
    PROVE  /\ Identified(s, stream) \in Seq(Entries)
           /\ Uniform(stream) => Uniform(Identified(s, stream))
<1>. DEFINE g == Identified(s, stream)
            E == SourceRecords({Absent, 0}) \cup {Bad}
<1>1. stream \in Seq(E)
  BY StreamsAssumption
<1>2. DOMAIN g = 1..Len(stream) /\ DOMAIN stream = 1..Len(stream) /\ Len(stream) \in Nat
  BY <1>1 DEF Identified
<1>3. ASSUME NEW i \in 1..Len(stream)
      PROVE  /\ g[i] \in Entries
             /\ stream[i] = Bad <=> g[i] = Bad
             /\ stream[i] # Bad => g[i].ts = stream[i].ts /\ g[i].key = stream[i].key
  <2>1. stream[i] \in E
    <3>. HIDE DEF E
    <3>. QED
      BY <1>1
  <2>2. g[i] = IF stream[i] = Bad \/ stream[i].name = 0
               THEN stream[i] ELSE [stream[i] EXCEPT !.name = s]
    BY <1>2 DEF Identified
  <2>3. CASE stream[i] = Bad
    BY <2>2, <2>3 DEF Entries
  <2>4. CASE stream[i] # Bad
    <3>1. stream[i] \in SourceRecords({Absent, 0})
      BY <2>1, <2>4
    <3>2. CASE stream[i].name = 0
      <4>1. g[i] = stream[i]
        BY <2>2, <3>2
      <4>2. stream[i] \in SourceRecords(Names)
        BY <3>1, <3>2 DEF SourceRecords, Names
      <4>. QED
        BY <2>4, <4>1, <4>2 DEF Entries
    <3>3. CASE stream[i].name # 0
      <4>1. g[i] = [stream[i] EXCEPT !.name = s]
        BY <2>2, <2>4, <3>3
      <4>2. g[i] \in SourceRecords(Names) /\ g[i].ts = stream[i].ts /\ g[i].key = stream[i].key
        BY <3>1, <4>1 DEF SourceRecords, Names
      <4>. QED
        BY <2>4, <4>2, RecordFacts DEF Entries
    <3>. QED
      BY <3>2, <3>3
  <2>. QED
    BY <2>3, <2>4
<1>4. g \in Seq(Entries)
  <2>1. g = [i \in 1..Len(stream) |-> g[i]]
    BY <1>2 DEF Identified
  <2>. HIDE DEF g
  <2>. QED
    BY <2>1, <1>2, <1>3
<1>5. ASSUME Uniform(stream)
      PROVE  Uniform(g)
  <2>. SUFFICES ASSUME NEW i \in DOMAIN g, NEW j \in DOMAIN g,
                       g[i] # Bad, g[j] # Bad, g[i].ts = g[j].ts
                PROVE  g[i].key = Absent <=> g[j].key = Absent
    BY DEF Uniform
  <2>1. i \in DOMAIN stream /\ j \in DOMAIN stream
    BY <1>2
  <2>2. /\ stream[i] # Bad /\ stream[j] # Bad
        /\ g[i].ts = stream[i].ts /\ g[j].ts = stream[j].ts
        /\ g[i].key = stream[i].key /\ g[j].key = stream[j].key
    <3>. HIDE DEF g
    <3>. QED
      BY <1>2, <1>3
  <2>3. stream[i].key = Absent <=> stream[j].key = Absent
    <3>. HIDE DEF g
    <3>. QED
      BY <1>5, <2>1, <2>2 DEF Uniform
  <2>. HIDE DEF g
  <2>. QED
    BY <2>2, <2>3
<1>. HIDE DEF g
<1>. QED
  BY <1>4, <1>5 DEF g

LEMMA InitMerge ==
    ASSUME MergeInit
    PROVE  /\ MergeTypeOK /\ MergeInv
           /\ KeysUniform => TiesInv
<1>1. PICK f \in [Sources -> Streams] : input = [s \in Sources |-> Identified(s, f[s])]
  BY DEF MergeInit
<1>2. input \in [Sources -> Seq(Entries)] /\ whole = input
  BY <1>1, IdentifiedFacts DEF MergeInit
<1>3. NoOrder \in Orders
  BY DEF NoOrder, Orders, Keys
<1>4. NoState \in SourceStates
  BY <1>3 DEF NoState, SourceStates, Keys
<1>5. written = <<>> /\ status = "opening" /\ deferred = FALSE
  BY DEF MergeInit
<1>6. MergeTypeOK
  <2>1. /\ heads \in [Sources -> SourceRecords(Names) \cup {Absent}]
        /\ states \in [Sources -> SourceStates] /\ writerOrder \in Orders
    BY <1>3, <1>4 DEF MergeInit
  <2>2. written \in Seq([from : Sources, record : SourceRecords(Names)])
    BY <1>5
  <2>. QED
    BY <1>2, <1>5, <2>1, <2>2 DEF MergeTypeOK
<1>7. Unopened
  BY <1>2, <1>5 DEF MergeInit, Unopened
<1>8. MergeInv
  BY <1>5, <1>7 DEF MergeInv, Merging
<1>9. ASSUME KeysUniform
      PROVE  TiesInv
  <2>1. ASSUME NEW s \in Sources
        PROVE  Uniform(whole[s])
    BY <1>1, <1>2, <1>9, IdentifiedFacts DEF KeysUniform
  <2>. QED
    BY <1>5, <2>1 DEF TiesInv, Merging
<1>. QED
  BY <1>6, <1>8, <1>9

-----------------------------------------------------------------------------
(* Types                                                                   *)

LEMMA ValidatedFacts ==
    ASSUME NEW state \in SourceStates, NEW r \in SourceRecords(Names)
    PROVE  /\ Observe(state.order, r) \in Orders
           /\ Validated(state, r) \in SourceStates
           /\ Validated(state, r).last_timestamp = r.ts
           /\ Validated(state, r).last_order_key = r.key
<1>1. /\ r.name \in Names /\ r.seq \in Keys /\ r.ts \in Keys /\ r.key \in Keys
  BY RecordFacts DEF Keys
<1>2. state.order \in Orders
  BY DEF SourceStates
<1>3. Observe(state.order, r) \in Orders
  BY <1>1, <1>2 DEF Observe, Orders
<1>. QED
  BY <1>1, <1>3 DEF Validated, SourceStates

LEMMA StepMergeType ==
    ASSUME MergeTypeOK, [MergeNext]_mergeVars
    PROVE  MergeTypeOK'
<1>. USE DEF MergeTypeOK
<1>1. ASSUME NEW s \in Sources
      PROVE  /\ Pulled(s) \in Entries \cup {Absent} /\ Rest(s) \in Seq(Entries)
             /\ Pulled(s) # Absent /\ ~Refused(s) =>
                    /\ Pulled(s) \in SourceRecords(Names)
                    /\ Validated(states[s], Pulled(s)) \in SourceStates
  BY PullFacts, ValidatedFacts
<1>2. CASE Open
  <2>1. CASE status' = "failed" /\ UNCHANGED <<input, heads, states>>
    BY <1>2, <2>1 DEF Open
  <2>2. CASE ~(status' = "failed" /\ UNCHANGED <<input, heads, states>>)
    <3>1. /\ status' = "reading" /\ \A s \in Sources : ~Refused(s)
          /\ heads' = [s \in Sources |-> Pulled(s)]
          /\ input' = [s \in Sources |-> Rest(s)]
          /\ states' = [s \in Sources |-> IF Pulled(s) = Absent THEN states[s]
                                          ELSE Validated(states[s], Pulled(s))]
      BY <1>2, <2>2 DEF Open
    <3>2. UNCHANGED <<whole, deferred, writerOrder, written>>
      BY <1>2 DEF Open
    <3>3. heads' \in [Sources -> SourceRecords(Names) \cup {Absent}]
      BY <1>1, <3>1
    <3>4. input' \in [Sources -> Seq(Entries)]
      BY <1>1, <3>1
    <3>5. states' \in [Sources -> SourceStates]
      BY <1>1, <3>1
    <3>. QED
      BY <3>1, <3>2, <3>3, <3>4, <3>5
  <2>. QED
    BY <2>1, <2>2
<1>3. CASE Fail /\ UNCHANGED <<whole, domain>>
  BY <1>3 DEF Fail
<1>4. CASE /\ status' = "complete"
           /\ UNCHANGED <<input, heads, states, deferred, writerOrder, written, whole, domain>>
  BY <1>4
<1>5. CASE /\ Live # {} /\ ~Ambiguous /\ Advance(Selected) /\ Write(Selected)
           /\ UNCHANGED <<whole, domain>>
  <2>. DEFINE s == Selected
  <2>1. s \in Sources /\ heads[s] \in SourceRecords(Names)
    BY <1>5, SelectedFirst DEF Live
  <2>. HIDE DEF s
  <2>2. /\ input' = [input EXCEPT ![s] = Rest(s)]
        /\ heads' = [heads EXCEPT ![s] = IF Pulled(s) = Bad THEN Absent ELSE Pulled(s)]
        /\ deferred' = Refused(s)
        /\ states' = IF Pulled(s) = Absent \/ Refused(s) THEN states
                     ELSE [states EXCEPT ![s] = Validated(states[s], Pulled(s))]
    BY <1>5, <2>1 DEF Advance, s
  <2>3. input' \in [Sources -> Seq(Entries)]
    BY <1>1, <2>1, <2>2
  <2>4. heads' \in [Sources -> SourceRecords(Names) \cup {Absent}]
    <3>1. (IF Pulled(s) = Bad THEN Absent ELSE Pulled(s)) \in SourceRecords(Names) \cup {Absent}
      BY <1>1, <2>1 DEF Entries
    <3>. QED
      BY <2>2, <3>1
  <2>5. states' \in [Sources -> SourceStates]
    BY <1>1, <2>1, <2>2
  <2>6. deferred' \in BOOLEAN
    BY <2>2 DEF Refused
  <2>7. \/ /\ writerOrder' = Observe(writerOrder, heads[s])
           /\ written' = Append(written, [from |-> s, record |-> heads[s]])
           /\ status' = status
        \/ status' = "failed" /\ UNCHANGED <<writerOrder, written>>
    BY <1>5 DEF Write, s
  <2>8. Observe(writerOrder, heads[s]) \in Orders
    <3>1. /\ heads[s].name \in Names /\ heads[s].seq \in Keys /\ heads[s].ts \in Keys
      BY <2>1, RecordFacts DEF Keys
    <3>. QED
      BY <3>1 DEF Observe, Orders
  <2>9. Append(written, [from |-> s, record |-> heads[s]])
            \in Seq([from : Sources, record : SourceRecords(Names)])
    BY <2>1
  <2>10. /\ writerOrder' \in Orders
         /\ written' \in Seq([from : Sources, record : SourceRecords(Names)])
         /\ status' \in {"opening", "reading", "complete", "failed"}
    BY <2>7, <2>8, <2>9
  <2>. QED
    BY <1>5, <2>3, <2>4, <2>5, <2>6, <2>10
<1>6. CASE UNCHANGED mergeVars
  BY <1>6 DEF mergeVars
<1>. QED
  BY <1>2, <1>3, <1>4, <1>5, <1>6 DEF MergeNext, Pull

-----------------------------------------------------------------------------
(* The steps                                                               *)

\* What was written and what it is compared with do not change.
LEMMA WrittenStays ==
    ASSUME UNCHANGED <<whole, written>>
    PROVE  /\ \A s \in Sources, n \in Nat : Contributed(s, n)' = Contributed(s, n)
           /\ \A s \in Sources : Merged(s)' = Merged(s)
           /\ MergeInv /\ status' \in {"reading", "failed"} /\ ~Merging' => MergeInv'
           /\ TiesInv /\ ~Merging' => TiesInv'
<1>1. \A s \in Sources, n \in Nat : Contributed(s, n)' = Contributed(s, n)
  BY DEF Contributed
<1>2. \A s \in Sources : Merged(s)' = Merged(s)
  BY DEF Merged, Contributed
<1>3. ASSUME MergeInv, status' \in {"reading", "failed"}, ~Merging'
      PROVE  MergeInv'
  <2>1. \A i \in DOMAIN written : Contributed(written[i].from, i)' = Contributed(written[i].from, i)
    BY DEF Contributed
  <2>. QED
    BY <1>3, <2>1 DEF MergeInv
<1>4. ASSUME TiesInv, ~Merging'
      PROVE  TiesInv'
  BY <1>4 DEF TiesInv, Uniform, KeysOrder
<1>. QED
  BY <1>1, <1>2, <1>3, <1>4

\* KWayMerge::new: the first records become the heads.
LEMMA OpenStep ==
    ASSUME MergeTypeOK, MergeInv, Open
    PROVE  MergeInv' /\ (TiesInv => TiesInv')
<1>. USE DEF MergeTypeOK
<1>1. UNCHANGED <<whole, written>> /\ Unopened /\ written = <<>> /\ deferred' = deferred
  BY DEF Open, MergeInv, Unopened
<1>2. CASE status' = "failed"
  BY <1>1, <1>2, WrittenStays DEF Merging
<1>3. CASE status' # "failed"
  <2>1. /\ status' = "reading" /\ \A s \in Sources : ~Refused(s)
        /\ heads' = [s \in Sources |-> Pulled(s)]
        /\ input' = [s \in Sources |-> Rest(s)]
        /\ states' = [s \in Sources |-> IF Pulled(s) = Absent THEN states[s]
                                        ELSE Validated(states[s], Pulled(s))]
    BY <1>3 DEF Open
  <2>2. \A i \in DOMAIN written' : FALSE
    BY <1>1
  <2>3. ASSUME NEW s \in Sources
        PROVE  /\ SupplyOf(s)' /\ HeadOf(s)' /\ HeadAfter(s)'
               /\ HeadTies(s)'
    <3>1. Merged(s)' = 0
      <4>1. {i \in 1..Len(written') : written'[i].from = s} = {}
        BY <1>1
      <4>. QED
        BY <4>1, FS_EmptySet DEF Merged, Contributed
    <3>2. /\ heads'[s] = Pulled(s) /\ input'[s] = Rest(s)
          /\ states'[s] = IF Pulled(s) = Absent THEN states[s]
                          ELSE Validated(states[s], Pulled(s))
          /\ whole'[s] = input[s] /\ input[s] \in Seq(Entries) /\ states[s] \in SourceStates
          /\ Pulled(s) \in SourceRecords(Names) \cup {Absent}
      BY <1>1, <2>1, PullFacts DEF Unopened
    <3>3. CASE input[s] = <<>>
      <4>1. Pulled(s) = Absent /\ Rest(s) = <<>>
        BY <3>3 DEF Pulled, Rest
      <4>2. Waiting(s)' = 0
        BY <3>2, <4>1 DEF Waiting
      <4>3. SupplyOf(s)'
        BY <3>1, <3>2, <3>3, <4>1, <4>2 DEF SupplyOf
      <4>. QED
        BY <3>2, <4>1, <4>3 DEF HeadOf, HeadAfter, HeadTies
    <3>4. CASE input[s] # <<>>
      <4>1. /\ Pulled(s) # Absent /\ Pulled(s) = input[s][1]
            /\ Len(input[s]) \in Nat /\ Len(Rest(s)) = Len(input[s]) - 1
            /\ \A i \in 1..Len(Rest(s)) : Rest(s)[i] = input[s][i + 1]
        BY <3>2, <3>4, PullFacts
      <4>2. Waiting(s)' = 1
        BY <3>2, <4>1 DEF Waiting
      <4>3. SupplyOf(s)'
        BY <3>1, <3>2, <4>1, <4>2 DEF SupplyOf
      <4>4. HeadOf(s)'
        <5>1. /\ Validated(states[s], Pulled(s)).last_timestamp = Pulled(s).ts
              /\ Validated(states[s], Pulled(s)).last_order_key = Pulled(s).key
          BY <3>2, <4>1, ValidatedFacts
        <5>. QED
          BY <3>1, <3>2, <4>1, <5>1 DEF HeadOf
      <4>. QED
        BY <2>2, <4>3, <4>4 DEF HeadAfter, HeadTies
    <3>. QED
      BY <3>3, <3>4
  <2>4. MergeInv'
    <3>1. status' # "opening" /\ status' # "complete" /\ Len(written') = 0
      BY <1>1, <2>1
    <3>2. \A i \in 2..Len(written') : FALSE
      BY <3>1
    <3>. QED
      BY <2>2, <2>3, <3>1, <3>2 DEF MergeInv
  <2>5. ASSUME TiesInv
        PROVE  TiesInv'
    <3>1. \A s \in Sources : Uniform(whole[s])'
      BY <1>1, <2>5 DEF TiesInv, Uniform
    <3>. QED
      BY <2>2, <2>3, <3>1 DEF TiesInv
  <2>. QED
    BY <2>4, <2>5
<1>. QED
  BY <1>2, <1>3

\* Every source is exhausted: all of it was written.
LEMMA CompleteStep ==
    ASSUME MergeTypeOK, MergeInv, Merging, Live = {}, status' = "complete",
           UNCHANGED <<input, heads, states, deferred, writerOrder, written, whole, domain>>
    PROVE  MergeInv' /\ (TiesInv => TiesInv')
<1>1. ASSUME NEW s \in Sources
      PROVE  Merged(s)' = Len(whole'[s])
  <2>1. SupplyOf(s) /\ heads[s] = Absent
    BY DEF MergeInv, Live
  <2>2. Len(input[s]) = 0 /\ Waiting(s) = 0
    BY <2>1 DEF SupplyOf, Waiting
  <2>3. Merged(s) \in Nat
    BY ContributedBounds DEF Merged, MergeTypeOK
  <2>4. Merged(s)' = Merged(s)
    BY WrittenStays
  <2>. QED
    BY <2>1, <2>2, <2>3, <2>4 DEF SupplyOf
<1>2. MergeInv'
  <2>1. \A i \in DOMAIN written : Contributed(written[i].from, i)' = Contributed(written[i].from, i)
    BY DEF Contributed
  <2>. QED
    BY <1>1, <2>1 DEF MergeInv, Merging
<1>3. ~Merging'
  BY DEF Merging
<1>. QED
  BY <1>2, <1>3, WrittenStays

\* next_observation and write_observation: the head selected is written, and the next
\* record of its source takes its place.
LEMMA TurnStep ==
    ASSUME MergeTypeOK, MergeTypeOK', MergeInv, Merging, Live # {}, ~Ambiguous,
           Advance(Selected), Write(Selected), UNCHANGED <<whole, domain>>
    PROVE  MergeInv' /\ (TiesInv => TiesInv')
<1>0. PICK s \in Sources : s = Selected
  BY SelectedFirst DEF MergeTypeOK, Live
<1>. DEFINE h == heads[s]
            e == [from |-> s, record |-> h]
            L == Len(written)
            W == [from : Sources, record : SourceRecords(Names)]
<1>1. CASE status' = "failed" /\ UNCHANGED written
  BY <1>1, WrittenStays DEF Merging
<1>2. CASE status' = status /\ written' = Append(written, e)
  <2>1. /\ s \in Live /\ s \in Sources /\ h \in SourceRecords(Names) /\ h # Absent
        /\ \A t \in Live : h.ts <= heads[t].ts /\ (t # s => KeysOrder(h, heads[t]))
    BY <1>0, SelectedFirst DEF MergeTypeOK, Live
  <2>2. /\ input' = [input EXCEPT ![s] = Rest(s)]
        /\ heads' = [heads EXCEPT ![s] = IF Pulled(s) = Bad THEN Absent ELSE Pulled(s)]
        /\ deferred' = Refused(s)
        /\ states' = IF Pulled(s) = Absent \/ Refused(s) THEN states
                     ELSE [states EXCEPT ![s] = Validated(states[s], Pulled(s))]
    BY <1>0 DEF Advance
  <2>. HIDE DEF h, W
  <2>a. /\ written \in Seq(W) /\ e \in W /\ e.from = s /\ e.record = h
        /\ \A w \in W : w.from \in Sources /\ w.record \in SourceRecords(Names)
    BY <2>1 DEF MergeTypeOK, W
  <2>3. /\ written \in Seq(W) /\ e \in W /\ L \in Nat /\ Len(written') = L + 1
        /\ written'[L + 1] = e /\ \A i \in 1..L : written'[i] = written[i]
        /\ DOMAIN written = 1..L /\ DOMAIN written' = 1..(L + 1)
        /\ \A i \in 1..L : written[i].from \in Sources /\ written[i].record \in SourceRecords(Names)
        /\ e.from = s /\ e.record = h
    <3>. HIDE DEF e
    <3>. QED
      BY <1>2, <2>a
  <2>4. /\ \A t \in Sources : \A n \in 0..L : Contributed(t, n)' = Contributed(t, n)
        /\ \A t \in Sources \ {s} : Merged(t)' = Merged(t)
        /\ Merged(s)' = Merged(s) + 1
        /\ \A t \in Sources : Merged(t) \in Nat
    <3>1. \A t \in Sources : Merged(t) \in Nat
      BY <2>3, ContributedBounds DEF Merged
    <3>2. \A t \in Sources :
            /\ \A n \in 0..L : Contributed(t, n)' = Contributed(t, n)
            /\ Merged(t)' = Merged(t) + (IF e.from = t THEN 1 ELSE 0)
      <4>. HIDE DEF e
      <4>. QED
        BY <1>2, <2>3, ContributedGrows
    <3>3. e.from = s
      BY <2>3
    <3>. HIDE DEF e
    <3>. QED
      BY <3>1, <3>2, <3>3
  <2>5. /\ \A t \in Sources : SupplyOf(t) /\ HeadOf(t) /\ HeadAfter(t)
        /\ \A t \in Sources : whole[t] \in Seq(Entries) /\ input[t] \in Seq(Entries)
    BY DEF MergeInv, MergeTypeOK
  <2>6. /\ Merged(s) + 1 \in DOMAIN whole[s] /\ h = whole[s][Merged(s) + 1]
        /\ Merged(s) + 1 + Len(input[s]) = Len(whole[s])
        /\ \A i \in 1..Len(input[s]) : input[s][i] = whole[s][Merged(s) + 1 + i]
        /\ states[s].last_timestamp = h.ts /\ states[s].last_order_key = h.key
        /\ Len(input[s]) \in Nat
    <3>1. Waiting(s) = 1 /\ heads[s] = h
      BY <2>1 DEF Waiting, h
    <3>2. /\ Merged(s) + 1 + Len(input[s]) = Len(whole[s])
          /\ \A i \in 1..Len(input[s]) : input[s][i] = whole[s][Merged(s) + 1 + i]
      BY <2>1, <2>5, <3>1 DEF SupplyOf
    <3>3. /\ h = whole[s][Merged(s) + 1]
          /\ states[s].last_timestamp = h.ts /\ states[s].last_order_key = h.key
      BY <2>1, <2>5, <3>1 DEF HeadOf
    <3>4. Merged(s) \in Nat /\ Len(input[s]) \in Nat /\ DOMAIN whole[s] = 1..Len(whole[s])
      BY <2>1, <2>4, <2>5
    <3>5. Merged(s) + 1 \in DOMAIN whole[s]
      <4>1. Merged(s) + 1 + Len(input[s]) = Len(whole[s])
        BY <3>2
      <4>. QED
        BY <3>4, <4>1
    <3>. QED
      BY <3>2, <3>3, <3>4, <3>5
  <2>7. ASSUME NEW i \in DOMAIN written'
        PROVE  /\ Contributed(written[i].from, i)' \in DOMAIN whole'[written'[i].from]
               /\ written'[i].record = whole'[written'[i].from][Contributed(written[i].from, i)']
    <3>1. CASE i \in 1..L
      <4>1. /\ Contributed(written[i].from, i) \in DOMAIN whole[written[i].from]
            /\ written[i].record = whole[written[i].from][Contributed(written[i].from, i)]
        BY <2>3, <3>1 DEF MergeInv
      <4>2. Contributed(written[i].from, i)' = Contributed(written[i].from, i)
        <5>1. written'[i].from = written[i].from /\ i \in 0..L /\ written[i].from \in Sources
          BY <2>3, <3>1
        <5>2. \A n \in 0..L : {j \in 1..n : written'[j].from = written[i].from}
                                = {j \in 1..n : written[j].from = written[i].from}
          BY <2>3
        <5>. QED
          BY <5>1, <5>2 DEF Contributed
      <4>. QED
        BY <2>3, <3>1, <4>1, <4>2
    <3>2. CASE i = L + 1
      <4>1. Contributed(written[i].from, i)' = Merged(s)'
        BY <2>3, <3>2 DEF Merged, Contributed
      <4>. QED
        BY <2>3, <2>4, <2>6, <3>2, <4>1
    <3>. QED
      BY <2>3, <3>1, <3>2
  <2>8. ASSUME NEW i \in 2..Len(written')
        PROVE  written'[i - 1].record.ts <= written'[i].record.ts
    <3>1. CASE i \in 2..L
      <4>1. written'[i - 1] = written[i - 1] /\ written'[i] = written[i]
        BY <2>3, <3>1
      <4>. QED
        BY <3>1, <4>1 DEF MergeInv
    <3>2. CASE i = L + 1
      <4>1. i - 1 \in DOMAIN written /\ written'[i - 1] = written[i - 1] /\ written'[i] = e
        BY <2>3, <3>2
      <4>2. written[i - 1].record.ts <= h.ts
        BY <2>1, <2>5, <4>1 DEF HeadAfter, h
      <4>. QED
        BY <2>3, <4>1, <4>2
    <3>. QED
      BY <2>3, <3>1, <3>2
  <2>9. ASSUME NEW t \in Sources, t # s
        PROVE  /\ heads'[t] = heads[t] /\ input'[t] = input[t] /\ states'[t] = states[t]
               /\ Merged(t)' = Merged(t) /\ Waiting(t)' = Waiting(t)
    <3>1. heads'[t] = heads[t] /\ input'[t] = input[t] /\ states'[t] = states[t]
      BY <2>1, <2>2, <2>9 DEF MergeTypeOK
    <3>. QED
      BY <2>4, <2>9, <3>1 DEF Waiting
  <2>10. /\ heads'[s] = IF Pulled(s) = Bad THEN Absent ELSE Pulled(s)
         /\ input'[s] = Rest(s)
         /\ Pulled(s) # Absent /\ ~Refused(s) =>
                states'[s] = Validated(states[s], Pulled(s))
    BY <2>1, <2>2 DEF MergeTypeOK
  <2>11. Merging' => ~Refused(s)
    BY <2>2 DEF Merging
  <2>12. ASSUME ~Refused(s), input[s] # <<>>
         PROVE  /\ heads'[s] = Pulled(s) /\ Pulled(s) \in SourceRecords(Names)
                /\ Pulled(s) # Absent /\ Pulled(s) = whole[s][Merged(s) + 2]
                /\ Merged(s) + 2 \in DOMAIN whole[s]
                /\ Pulled(s).ts >= h.ts
                /\ Pulled(s).ts = h.ts /\ h.key # Absent /\ Pulled(s).key # Absent
                        => Pulled(s).key > h.key
                /\ states'[s].last_timestamp = Pulled(s).ts
                /\ states'[s].last_order_key = Pulled(s).key
                /\ Len(Rest(s)) = Len(input[s]) - 1
                /\ \A i \in 1..Len(Rest(s)) : Rest(s)[i] = input[s][i + 1]
    <3>1. /\ Pulled(s) \in SourceRecords(Names) \cup {Absent} /\ Pulled(s) # Absent
          /\ Len(input[s]) >= 1 /\ Pulled(s) = input[s][1]
          /\ Len(Rest(s)) = Len(input[s]) - 1
          /\ \A i \in 1..Len(Rest(s)) : Rest(s)[i] = input[s][i + 1]
      BY <2>1, <2>5, <2>12, PullFacts
    <3>2. Pulled(s) \in SourceRecords(Names) /\ Pulled(s) # Bad
      BY <3>1, RecordFacts
    <3>3. Pulled(s) = whole[s][Merged(s) + 2] /\ Merged(s) + 2 \in DOMAIN whole[s]
      <4>1. Merged(s) \in Nat /\ DOMAIN whole[s] = 1..Len(whole[s])
        BY <2>1, <2>4, <2>5
      <4>2. 1 \in 1..Len(input[s]) /\ Merged(s) + 1 + 1 = Merged(s) + 2
        BY <2>6, <3>1, <4>1
      <4>3. input[s][1] = whole[s][Merged(s) + 1 + 1]
        BY <2>6, <4>2
      <4>4. Merged(s) + 2 \in 1..Len(whole[s])
        <5>1. /\ Merged(s) + 1 + Len(input[s]) = Len(whole[s])
              /\ Len(input[s]) >= 1 /\ Len(input[s]) \in Nat
          BY <2>6, <3>1
        <5>2. Merged(s) \in Nat
          BY <4>1
        <5>. QED
          BY <5>1, <5>2
      <4>. QED
        BY <3>1, <4>1, <4>2, <4>3, <4>4
    <3>4. ValidRecord(states[s], Pulled(s))
      BY <2>12, <3>1 DEF Refused
    <3>5. h.ts \in Nat /\ h.ts # Absent
      BY <2>1, RecordFacts, StreamsAssumption
    <3>6. /\ Pulled(s).ts >= h.ts
          /\ Pulled(s).ts = h.ts /\ h.key # Absent /\ Pulled(s).key # Absent
                => Pulled(s).key > h.key
      BY <2>6, <3>4, <3>5 DEF ValidRecord
    <3>7. states[s] \in SourceStates
      BY <2>1 DEF MergeTypeOK
    <3>8. /\ states'[s].last_timestamp = Pulled(s).ts
          /\ states'[s].last_order_key = Pulled(s).key
      BY <2>10, <2>12, <3>1, <3>2, <3>7, ValidatedFacts
    <3>. QED
      BY <2>10, <3>1, <3>2, <3>3, <3>6, <3>8
  <2>13. ASSUME ~Refused(s), input[s] = <<>>
         PROVE  heads'[s] = Absent /\ Rest(s) = <<>>
    <3>1. Pulled(s) = Absent /\ Rest(s) = <<>>
      BY <2>13 DEF Pulled, Rest
    <3>. QED
      BY <2>10, <3>1, StreamsAssumption
  <2>14. ASSUME Merging', NEW t \in Sources
         PROVE  SupplyOf(t)' /\ HeadOf(t)' /\ HeadAfter(t)'
    <3>1. CASE t # s
      <4>1. SupplyOf(t)' /\ HeadOf(t)'
        BY <2>5, <2>9, <3>1 DEF SupplyOf, HeadOf
      <4>2. HeadAfter(t)'
        <5>. SUFFICES ASSUME heads'[t] # Absent, NEW i \in DOMAIN written'
                      PROVE  written'[i].record.ts <= heads'[t].ts
          BY DEF HeadAfter
        <5>1. t \in Live /\ heads'[t] = heads[t]
          BY <2>9, <3>1 DEF Live
        <5>2. CASE i \in 1..L
          BY <2>3, <2>5, <5>1, <5>2 DEF HeadAfter, Live
        <5>3. CASE i = L + 1
          BY <2>1, <2>3, <5>1, <5>3
        <5>. QED
          BY <2>3, <5>2, <5>3
      <4>. QED
        BY <4>1, <4>2
    <3>2. CASE t = s /\ input[s] = <<>>
      <4>1. heads'[s] = Absent /\ Rest(s) = <<>> /\ Waiting(s)' = 0 /\ input'[s] = <<>>
        BY <2>10, <2>11, <2>13, <2>14, <3>2 DEF Waiting
      <4>2. SupplyOf(s)'
        <5>1. Len(input[s]) = 0 /\ Len(input'[s]) = 0
          BY <3>2, <4>1
        <5>2. Merged(s)' + Waiting(s)' + Len(input'[s]) = Len(whole'[s])
          BY <2>1, <2>4, <2>6, <4>1, <5>1
        <5>. QED
          BY <4>1, <5>1, <5>2 DEF SupplyOf
      <4>. QED
        BY <3>2, <4>1, <4>2 DEF HeadOf, HeadAfter
    <3>3. CASE t = s /\ input[s] # <<>>
      <4>1. Waiting(s)' = 1
        BY <2>11, <2>12, <2>14, <3>3 DEF Waiting
      <4>2. SupplyOf(s)'
        <5>1. Merged(s)' + Waiting(s)' + Len(Rest(s)) = Len(whole[s])
          <6>1. Len(Rest(s)) = Len(input[s]) - 1
            BY <2>11, <2>12, <2>14, <3>3
          <6>2. Merged(s)' = Merged(s) + 1 /\ Merged(s) \in Nat
            BY <2>1, <2>4
          <6>3. Merged(s) + 1 + Len(input[s]) = Len(whole[s]) /\ Len(input[s]) \in Nat
            BY <2>6
          <6>. QED
            BY <4>1, <6>1, <6>2, <6>3
        <5>2. ASSUME NEW i \in 1..Len(Rest(s))
              PROVE  Rest(s)[i] = whole[s][Merged(s)' + Waiting(s)' + i]
          <6>1. i \in Int /\ Rest(s)[i] = input[s][i + 1] /\ i + 1 \in 1..Len(input[s])
            BY <2>6, <2>11, <2>12, <2>14, <3>3
          <6>2. input[s][i + 1] = whole[s][Merged(s) + 1 + (i + 1)]
            BY <2>6, <6>1
          <6>3. Merged(s) + 1 + (i + 1) = Merged(s)' + Waiting(s)' + i
            BY <2>1, <2>4, <4>1, <6>1
          <6>. QED
            BY <6>1, <6>2, <6>3
        <5>3. heads'[s] # Absent /\ input'[s] = Rest(s)
          BY <2>10, <2>11, <2>12, <2>14, <3>3
        <5>. QED
          BY <5>1, <5>2, <5>3 DEF SupplyOf
      <4>3. HeadOf(s)'
        <5>1. Merged(s)' + 1 = Merged(s) + 2
          BY <2>1, <2>4
        <5>. QED
          BY <2>11, <2>12, <2>14, <3>3, <5>1 DEF HeadOf
      <4>4. HeadAfter(s)'
        <5>. SUFFICES ASSUME NEW i \in DOMAIN written'
                      PROVE  written'[i].record.ts <= heads'[s].ts
          BY DEF HeadAfter
        <5>1. /\ heads'[s].ts >= h.ts /\ heads'[s].ts \in Nat /\ h.ts \in Nat
          BY <2>1, <2>11, <2>12, <2>14, <3>3, RecordFacts
        <5>2. CASE i \in 1..L
          <6>1. written'[i] = written[i] /\ written[i].record.ts \in Nat
            BY <2>3, <5>2, RecordFacts
          <6>2. written[i].record.ts <= h.ts
            BY <2>1, <2>3, <2>5, <5>2 DEF HeadAfter, h
          <6>. QED
            BY <5>1, <6>1, <6>2
        <5>3. CASE i = L + 1
          BY <2>3, <5>1, <5>3
        <5>. QED
          BY <2>3, <5>2, <5>3
      <4>. QED
        BY <3>3, <4>2, <4>3, <4>4
    <3>. QED
      BY <3>1, <3>2, <3>3
  <2>15. MergeInv'
    <3>1. status' = "reading"
      BY <1>2 DEF Merging
    <3>. QED
      BY <2>7, <2>8, <2>14, <3>1 DEF MergeInv
  <2>16. ASSUME TiesInv
         PROVE  TiesInv'
    <3>1. \A t \in Sources : Uniform(whole[t])'
      BY <2>16 DEF TiesInv, Uniform
    <3>2. \A t \in Sources : HeadTies(t)
      BY <2>16 DEF TiesInv
    <3>3. ASSUME NEW i \in DOMAIN written', NEW j \in DOMAIN written',
                 i < j, written'[i].from # written'[j].from
          PROVE  KeysOrder(written'[i].record, written'[j].record)
      <4>1. CASE j \in 1..L
        <5>1. i \in 1..L /\ written'[i] = written[i] /\ written'[j] = written[j]
          BY <2>3, <3>3, <4>1
        <5>2. KeysOrder(written[i].record, written[j].record)
          BY <2>3, <2>16, <3>3, <4>1, <5>1 DEF TiesInv
        <5>. QED
          BY <5>1, <5>2
      <4>2. CASE j = L + 1
        <5>1. i \in 1..L /\ written'[i] = written[i] /\ written'[j] = e
          BY <2>3, <3>3, <4>2
        <5>2. KeysOrder(written[i].record, h)
          BY <2>1, <2>3, <3>2, <3>3, <5>1 DEF HeadTies, h
        <5>. QED
          BY <2>3, <5>1, <5>2
      <4>. QED
        BY <2>3, <4>1, <4>2
    <3>4. ASSUME Merging', NEW t \in Sources, heads'[t] # Absent,
                 NEW i \in DOMAIN written', written'[i].from # t
          PROVE  KeysOrder(written'[i].record, heads'[t])
      <4>1. CASE t # s
        <5>1. t \in Live /\ heads'[t] = heads[t]
          BY <2>9, <3>4, <4>1 DEF Live
        <5>2. CASE i \in 1..L
          BY <2>3, <3>2, <3>4, <5>1, <5>2 DEF HeadTies, Live
        <5>3. CASE i = L + 1
          BY <2>1, <2>3, <4>1, <5>1, <5>3
        <5>. QED
          BY <2>3, <5>2, <5>3
      <4>2. CASE t = s
        <5>. DEFINE r == written[i].record
                    p == Pulled(s)
        <5>1. i \in 1..L /\ written'[i] = written[i] /\ r \in SourceRecords(Names)
          BY <2>3, <3>4, <4>2
        <5>2. r.ts <= h.ts /\ KeysOrder(r, h)
          BY <2>1, <2>3, <2>5, <3>2, <3>4, <4>2, <5>1 DEF HeadTies, HeadAfter, h
        <5>3. ~Refused(s) /\ input[s] # <<>>
          BY <2>11, <2>13, <3>4, <4>2
        <5>4. /\ heads'[s] = p /\ p \in SourceRecords(Names)
              /\ p.ts >= h.ts
              /\ p.ts = h.ts /\ h.key # Absent /\ p.key # Absent => p.key > h.key
          BY <2>12, <5>3
        <5>5. p.ts = h.ts => (p.key = Absent <=> h.key = Absent)
          <6>1. /\ p = whole[s][Merged(s) + 2] /\ Merged(s) + 2 \in DOMAIN whole[s]
                /\ h = whole[s][Merged(s) + 1] /\ Merged(s) + 1 \in DOMAIN whole[s]
                /\ p # Bad /\ h # Bad
            BY <2>1, <2>6, <2>12, <5>3, <5>4, RecordFacts
          <6>2. Uniform(whole[s])
            BY <2>1, <2>16 DEF TiesInv
          <6>. HIDE DEF p
          <6>. QED
            BY <6>1, <6>2 DEF Uniform
        <5>6. /\ r.ts \in Nat /\ h.ts \in Nat /\ p.ts \in Nat
              /\ r.key \in Keys /\ h.key \in Keys /\ p.key \in Keys
          BY <2>1, <5>1, <5>4, RecordFacts
        <5>. HIDE DEF r, p
        <5>7. ASSUME r.ts = p.ts
              PROVE  r.key # Absent /\ p.key # Absent /\ r.key < p.key
          <6>1. r.ts = h.ts /\ h.ts = p.ts
            BY <5>2, <5>4, <5>6, <5>7
          <6>2. r.key # Absent /\ h.key # Absent /\ r.key < h.key
            BY <5>2, <6>1 DEF KeysOrder
          <6>3. p.key # Absent /\ p.key > h.key
            BY <5>4, <5>5, <6>1, <6>2
          <6>4. r.key \in Nat /\ h.key \in Nat /\ p.key \in Nat
            BY <5>6, <6>2, <6>3 DEF Keys
          <6>. QED
            BY <6>2, <6>3, <6>4
        <5>8. KeysOrder(r, p)
          BY <5>7 DEF KeysOrder
        <5>. QED
          BY <4>2, <5>1, <5>4, <5>8 DEF r
      <4>. QED
        BY <4>1, <4>2
    <3>. QED
      BY <3>1, <3>3, <3>4 DEF TiesInv, HeadTies
  <2>. QED
    BY <2>15, <2>16
<1>. QED
  BY <1>0, <1>1, <1>2 DEF Write

LEMMA StepMerge ==
    ASSUME MergeTypeOK, MergeInv, [MergeNext]_mergeVars
    PROVE  MergeInv' /\ (TiesInv => TiesInv')
<1>1. MergeTypeOK'
  BY StepMergeType
<1>2. CASE Open
  BY <1>2, OpenStep
<1>3. CASE Fail /\ UNCHANGED <<whole, domain>>
  BY <1>3, WrittenStays DEF Fail, Merging
<1>4. CASE /\ Merging /\ Live = {} /\ status' = "complete"
           /\ UNCHANGED <<input, heads, states, deferred, writerOrder, written, whole, domain>>
  BY <1>4, CompleteStep
<1>5. CASE /\ Merging /\ Live # {} /\ ~Ambiguous /\ Advance(Selected) /\ Write(Selected)
           /\ UNCHANGED <<whole, domain>>
  BY <1>1, <1>5, TurnStep
<1>6. CASE UNCHANGED mergeVars
  <2>1. \A i \in DOMAIN written : Contributed(written[i].from, i)' = Contributed(written[i].from, i)
    BY <1>6 DEF mergeVars, Contributed
  <2>2. \A s \in Sources : Merged(s)' = Merged(s) /\ Waiting(s)' = Waiting(s)
    BY <1>6 DEF mergeVars, Merged, Waiting, Contributed
  <2>3. MergeInv'
    BY <1>6, <2>1, <2>2 DEF mergeVars, MergeInv, Merging, Unopened, SupplyOf, HeadOf, HeadAfter
  <2>. QED
    BY <1>6, <2>3 DEF mergeVars, TiesInv, Merging, HeadTies, KeysOrder, Uniform
<1>. QED
  BY <1>2, <1>3, <1>4, <1>5, <1>6 DEF MergeNext, Pull, Merging

-----------------------------------------------------------------------------
(* The theorems                                                            *)

\* Every input is supplied in order, record by record, and no other record is written.
THEOREM MergeInvariant == MergeSpec => [](MergeTypeOK /\ MergeInv)
<1>1. MergeInit => MergeTypeOK /\ MergeInv
  BY InitMerge
<1>2. (MergeTypeOK /\ MergeInv) /\ [MergeNext]_mergeVars => (MergeTypeOK /\ MergeInv)'
  BY StepMergeType, StepMerge
<1>. QED
  BY <1>1, <1>2, PTL DEF MergeSpec

\* A committed observation stream holds all records of all inputs, those of one input in its
\* order and all in the order of time, whatever the inputs are and wherever one fails.
THEOREM NothingEverMissing == MergeSpec => []NothingMissing
<1>1. MergeTypeOK /\ MergeInv => NothingMissing
  BY DEF MergeInv, NothingMissing, Merged
<1>. QED
  BY <1>1, MergeInvariant, PTL

\* When within every stream the records of one time all have a key or all have none, records
\* of different inputs at one time are committed only in the order of keys.
THEOREM TiesAlwaysFollowKeys == KeysUniform => (MergeSpec => []TiesFollowKeys)
<1>. SUFFICES ASSUME KeysUniform
              PROVE  MergeSpec => []TiesFollowKeys
  OBVIOUS
<1>1. MergeInit => TiesIInv
  BY InitMerge DEF TiesIInv
<1>2. TiesIInv /\ [MergeNext]_mergeVars => TiesIInv'
  BY StepMergeType, StepMerge DEF TiesIInv
<1>3. TiesIInv => TiesFollowKeys
  BY DEF TiesIInv, TiesInv, TiesFollowKeys, KeysOrder
<1>. QED
  BY <1>1, <1>2, <1>3, PTL DEF MergeSpec
=============================================================================
