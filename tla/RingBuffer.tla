----------------------------- MODULE RingBuffer -----------------------------
(***************************************************************************)
(* client/length_delimited_ring_buffer.h and the annotation that keeps one *)
(* for the handler to read, client/ring_buffer_annotation.h.               *)
(*                                                                         *)
(* An item is written as its length, a varint, and its bytes, and may wrap *)
(* around the end of the array.  A Push() is cut into the steps between    *)
(* which the process may crash, and a handler then reads what is there.    *)
(***************************************************************************)
EXTENDS Integers, Sequences, SequencesExt, FiniteSetsExt

CONSTANTS
    Capacity,    \* the size of RingBufferData::data
    VarintBase,  \* 2 to the kBase128ByteValueBits
    LengthLimit, \* 2 to the width of Range::Length
    PushLengths, \* the lengths of the buffers that are pushed
    PushBytes,   \* the bytes that they are filled with
    MaxPushes    \* bound: how many buffers are pushed

ASSUME RingAssumption ==
    /\ Capacity \in Nat \ {0} /\ VarintBase \in Nat \ {0, 1} /\ LengthLimit \in Nat
    /\ Capacity < LengthLimit /\ PushLengths \subseteq Nat /\ PushBytes \subseteq 0 .. 2 * VarintBase - 1
    /\ MaxPushes \in Nat

VARIABLES
    ring,        \* RingBufferData: its data and the header's data_range
    writeOffset, \* ring_buffer_write_offset_
    ringSize,    \* size_ of the annotation, less the header
    push,        \* the Push() that has the spin guard: where it is, and its locals
    pushed       \* history: the buffers that Push() returned true for

ringVars == <<ring, writeOffset, ringSize, push, pushed>>

NoPush == [pc |-> "idle", buffer |-> <<>>, readable |-> [offset |-> 0, length |-> 0],
           write |-> [offset |-> 0, length |-> 0]]

RingTypeOK ==
    /\ ring.data \in [0 .. Capacity - 1 -> 0 .. 2 * VarintBase - 1]
    /\ ring.range.offset \in 0 .. Capacity - 1 /\ ring.range.length \in 0 .. Capacity
    /\ writeOffset \in 0 .. Capacity - 1
    /\ ringSize \in 0 .. Capacity
    /\ push.pc \in {"idle", "length", "bytes", "header", "size"}

RingInit ==
    /\ ring = [data |-> [i \in 0 .. Capacity - 1 |-> 0], range |-> NoPush.readable]
    /\ writeOffset = 0
    /\ ringSize = 0
    /\ push = NoPush
    /\ pushed = <<>>

----------------------------------------------------------------------------
(***************************************************************************)
(* Varints and ranges.                                                     *)
(***************************************************************************)

\* The bytes of the varint of n: all but the last one have the continuation bit.
Varint[n \in 0 .. Capacity] ==
    IF n < VarintBase THEN <<n>>
    ELSE <<(n % VarintBase) + VarintBase>> \o Varint[n \div VarintBase]

\* A range less its first n bytes.
Advance(range, n) ==
    [offset |-> (range.offset + n) % Capacity, length |-> (range.length - n) % LengthLimit]

\* The n bytes at the start of a range.
BytesAt(data, range, n) == [i \in 1 .. n |-> data[(range.offset + i - 1) % Capacity]]

NoVarint == [length |-> 0, value |-> 0]

\* ReadBase128VarintFromRingBuffer(): its length in bytes, 0 if the range ends or the
\* value overflows first, and its value.
ReadVarint(data, range) ==
    LET bytes == BytesAt(data, range, range.length)
        varint[n \in 0 .. range.length] == \* the one in the last n bytes
          LET byte == bytes[range.length - n + 1]
          IN IF n = 0 THEN NoVarint
             ELSE IF byte < VarintBase THEN [length |-> 1, value |-> byte]
             ELSE IF varint[n - 1].length = 0 THEN NoVarint
             ELSE [length |-> varint[n - 1].length + 1,
                   value |-> byte - VarintBase + VarintBase * varint[n - 1].value]
    IN IF varint[range.length].value < LengthLimit THEN varint[range.length] ELSE NoVarint

\* Mutant: the rest of a wrapping write is lost.
WriteBytesMutant(bytes, data, range) ==
    [i \in DOMAIN data |->
       IF i - range.offset \in 0 .. Len(bytes) - 1 THEN bytes[i - range.offset + 1] ELSE data[i]]

\* The data after a write at the start of a range.
WriteBytes(bytes, data, range) ==
    [i \in DOMAIN data |->
       LET n == (i - range.offset) % Capacity
       IN IF n < Len(bytes) THEN bytes[n + 1] ELSE data[i]]

\* WriteBytesToRingBuffer() compares the length with what is NOT in the range to be
\* written: a longer buffer is not written at all.
Fits(n, range) == n <= Capacity - range.length

\* Write some bytes in calls for at least n of them, or nothing if the first call
\* returns false, and go on.
WriteBytesToRingBuffer(bytes, n, next) ==
    LET written == IF Fits(n, push.write) THEN bytes ELSE <<>>
    IN /\ ring' = [ring EXCEPT !.data = WriteBytes(written, @, push.write)]
       /\ push' = [push EXCEPT !.write = Advance(@, Len(written)), !.pc = next]

----------------------------------------------------------------------------
(***************************************************************************)
(* Push().                                                                 *)
(***************************************************************************)

\* The readable range, and the room, after the oldest items were skipped until there is
\* enough of it, or a varint cannot be read.  An item has a byte at least.
MakeRoom(needed) ==
    LET skipped[n \in 0 .. needed] ==
          IF n = 0 THEN [range |-> ring.range, available |-> Capacity - ring.range.length]
          ELSE LET before == skipped[n - 1]
                   varint == ReadVarint(ring.data, before.range)
                   skip == varint.length + varint.value
               IN IF before.available >= needed \/ varint.length = 0 THEN before
                  ELSE [range |-> Advance(before.range, skip), available |-> before.available + skip]
    IN skipped[needed]

\* RingBufferAnnotation::Push() takes the spin guard, and Push() makes room.  A Push()
\* that finds the guard taken, or no room, returns false and changes nothing.
PushBegin(n, byte) ==
    LET needed == Len(Varint[n]) + n
        room == MakeRoom(needed)
    IN /\ push.pc = "idle"
       /\ Len(pushed) < MaxPushes
       /\ n \in 1 .. Capacity
       /\ needed <= Capacity
       /\ room.available >= needed
       /\ push' = [pc |-> "length", buffer |-> [i \in 1 .. n |-> byte], readable |-> room.range,
                   write |-> [offset |-> writeOffset, length |-> needed]]
       /\ UNCHANGED <<ring, writeOffset, ringSize, pushed>>

\* The varint is written byte by byte; the check can only fail for the first one.
PushLength ==
    /\ push.pc = "length"
    /\ WriteBytesToRingBuffer(Varint[Len(push.buffer)], 1, "bytes")
    /\ UNCHANGED <<writeOffset, ringSize, pushed>>

PushData ==
    /\ push.pc = "bytes"
    /\ WriteBytesToRingBuffer(push.buffer, Len(push.buffer), "header")
    /\ UNCHANGED <<writeOffset, ringSize, pushed>>

\* Neither result was looked at.
PushHeader ==
    /\ push.pc = "header"
    /\ writeOffset' = push.write.offset
    /\ ring' = [ring EXCEPT !.range =
                  [offset |-> push.readable.offset,
                   length |-> push.readable.length + Len(Varint[Len(push.buffer)]) + Len(push.buffer)]]
    /\ push' = [push EXCEPT !.pc = "size"]
    /\ UNCHANGED <<ringSize, pushed>>

\* SetSize(GetRingBufferLength()), and the guard is released.
PushEnd ==
    /\ push.pc = "size"
    /\ ringSize' = Min({Capacity, ring.range.offset + ring.range.length})
    /\ pushed' = Append(pushed, push.buffer)
    /\ push' = NoPush
    /\ UNCHANGED <<ring, writeOffset>>

RingNext ==
    \/ \E n \in PushLengths, byte \in PushBytes : PushBegin(n, byte)
    \/ PushLength \/ PushData \/ PushHeader \/ PushEnd

RingSpec == RingInit /\ [][RingNext]_ringVars

----------------------------------------------------------------------------
(***************************************************************************)
(* A reader.                                                               *)
(***************************************************************************)

\* DeserializeFromBuffer() of the size_ bytes the handler took, into a new object.
Deserialized == [i \in DOMAIN ring.data |-> IF i < ringSize THEN ring.data[i] ELSE 0]

\* Pop() until it fails: the range ends, the length is 0 or more than what is left.
PopAll(data, range) ==
    LET popped[n \in 0 .. range.length] ==
          IF n = 0 THEN [items |-> <<>>, range |-> range]
          ELSE LET before == popped[n - 1]
                   varint == ReadVarint(data, before.range)
                   rest == Advance(before.range, varint.length)
               IN IF varint.length = 0 \/ varint.value \notin 1 .. rest.length THEN before
                  ELSE [items |-> Append(before.items, BytesAt(data, rest, varint.value)),
                        range |-> Advance(rest, varint.value)]
    IN popped[range.length].items

----------------------------------------------------------------------------
\* The room that a buffer takes.
RoomFor(buffer) == Len(Varint[Len(buffer)]) + Len(buffer)

\* The newest buffers, as many as there is room for.
Newest(buffers) ==
    LET room[n \in 0 .. Len(buffers)] == \* for the newest n
          IF n = 0 THEN 0 ELSE room[n - 1] + RoomFor(buffers[Len(buffers) - n + 1])
        kept == Max({n \in 0 .. Len(buffers) : room[n] <= Capacity})
    IN SubSeq(buffers, Len(buffers) - kept + 1, Len(buffers))

\* "Old data will be removed from the ring buffer in FIFO order until there is room for
\* the new data": between two Push() calls a handler reads the newest buffers, no more of
\* them missing than had to be.  If the process dies inside a Push() that has removed
\* nothing, the handler reads those of before; if it dies in its last step, those of
\* after, with or without the new one.
RingHoldsNewest ==
    LET popped == PopAll(Deserialized, ring.range)
        after == Newest(Append(pushed, push.buffer))
    IN CASE push.pc = "idle" -> popped = Newest(pushed)
         [] push.pc = "size" -> popped \in {after, Front(after)}
         [] OTHER -> push.readable = ring.range => popped = Newest(pushed)
=============================================================================
