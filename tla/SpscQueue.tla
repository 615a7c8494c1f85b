----------------------------- MODULE SpscQueue -----------------------------
(***************************************************************************)
(* The logger's lock-free ring buffer (spsc_queue.cpp) between one         *)
(* producer and one consumer thread.                                       *)
(*                                                                         *)
(* Each of its methods loads the other thread's position once, with        *)
(* acquire, and changes its own with one release operation, so a method is *)
(* one step.  What the callers do between two calls, copying bytes into    *)
(* and out of the buffer, is not atomic: one step per byte, bound by the   *)
(* usage rules of spsc_queue.h only.  Positions are size_t and wrap        *)
(* around; here at WordSize.                                               *)
(***************************************************************************)
EXTENDS Integers, Sequences, FiniteSetsExt

CONSTANTS
    Capacity,    \* the argument of the constructor
    WordSize,    \* 2^w, w the width of size_t
    MaxRecord,   \* longest record the producer writes
    Byte         \* contents of the records

(***************************************************************************)
(* bit_ceil(capacity | 1): the least power of two that is not below the    *)
(* odd number capacity | 1.                                                *)
(***************************************************************************)
capacity_ ==
    LET odd == IF Capacity % 2 = 0 THEN Capacity + 1 ELSE Capacity
    IN  Min({2^i : i \in 0..Capacity} \cap {n \in 1..(2 * odd) : n >= odd})

ASSUME SpscAssumption ==
    /\ Capacity \in Nat
    /\ capacity_ \in Nat
    /\ WordSize \in Nat /\ WordSize > capacity_ /\ WordSize % capacity_ = 0
    /\ MaxRecord \in 1..(capacity_ - 1)

Index == 0..(capacity_ - 1)
Pos == 0..(WordSize - 1)
Record == UNION {[1..n -> Byte] : n \in 0..MaxRecord}

VARIABLES
    write_pos,   \* write_pos_
    read_pos,    \* read_pos_
    buffer,      \* buffer_
    ppc,         \* producer: "idle", "prepare" (has a record), "copy"
    record,      \* the record it writes
    written,     \* bytes of it copied so far
    promise,     \* the last result of writable_bytes
    cpc,         \* consumer: "idle", "size" (after peek), "copy"
    ptr,         \* what peek returned
    avail,       \* what readable_bytes returned
    got,         \* bytes copied since
    out          \* the bytes of the last consume

producerVars == <<write_pos, ppc, record, written, promise>>
consumerVars == <<read_pos, cpc, ptr, avail, got, out>>
spscVars == <<buffer, producerVars, consumerVars>>

Mask(pos) == pos % capacity_
MaskForgotten(pos) == Min({pos, capacity_ - 1})   \* a slip: no wrap-around
Used == (write_pos - read_pos) % WordSize
ToEnd(pos) == capacity_ - Mask(pos)

(***************************************************************************)
(* The producer                                                            *)
(***************************************************************************)
\* A slip: the byte that tells full from empty is not kept free.
FitsWholeBuffer(len) == len <= capacity_ - Used
\* A slip: one byte too many is kept free.
FitsWithRoom(len) == len < capacity_ - Used - 1
FitsFree(len) == len <= capacity_ - Used - 1

\* A slip: the space up to the end of the buffer is not checked.
FitsTailUnchecked(len) == TRUE
FitsTail(len) == len <= ToEnd(write_pos)

\* The caller has a record to log.
NewRecord ==
    /\ ppc = "idle"
    /\ ppc' = "prepare"
    /\ record' \in Record
    /\ UNCHANGED <<write_pos, written, promise, buffer, consumerVars>>

\* A slip: the free space is not limited to the contiguous part.
writable_bytes_total == capacity_ - Used - 1
writable_bytes == Min({capacity_ - Used - 1, ToEnd(write_pos)})

AskWritable ==
    /\ ppc = "prepare"
    /\ promise' = writable_bytes
    /\ UNCHANGED <<write_pos, ppc, record, written, buffer, consumerVars>>

\* prepare_write returns a pointer; when it returns nullptr the caller tries
\* again later.
prepare_write ==
    /\ ppc = "prepare"
    /\ Len(record) = 0 \/ (FitsFree(Len(record)) /\ FitsTail(Len(record)))
    /\ ppc' = "copy"
    /\ written' = 0
    /\ UNCHANGED <<write_pos, record, promise, buffer, consumerVars>>

CopyIn ==
    /\ ppc = "copy"
    /\ written < Len(record)
    /\ buffer' = [buffer EXCEPT ![Mask(write_pos) + written] = record[written + 1]]
    /\ written' = written + 1
    /\ UNCHANGED <<write_pos, ppc, record, promise, consumerVars>>

commit_write ==
    /\ ppc = "copy"
    /\ written = Len(record)
    /\ write_pos' = (write_pos + Len(record)) % WordSize
    /\ ppc' = "idle"
    /\ record' = <<>>
    /\ written' = 0
    /\ promise' = 0
    /\ UNCHANGED <<buffer, consumerVars>>

(***************************************************************************)
(* The consumer                                                            *)
(***************************************************************************)
peek ==
    /\ cpc = "idle"
    /\ read_pos # write_pos
    /\ cpc' = "size"
    /\ ptr' = Mask(read_pos)
    /\ UNCHANGED <<read_pos, avail, got, out, buffer, producerVars>>

\* A slip: the last byte of the buffer is never readable.
ReadableBeforeLast == Min({Used, capacity_ - 1 - Mask(read_pos)})
Readable == Min({Used, ToEnd(read_pos)})

readable_bytes ==
    /\ cpc = "size"
    /\ cpc' = "copy"
    /\ avail' = Readable
    /\ UNCHANGED <<read_pos, ptr, got, out, buffer, producerVars>>

CopyOut ==
    /\ cpc = "copy"
    /\ Len(got) < avail
    /\ got' = Append(got, buffer[ptr + Len(got)])
    /\ UNCHANGED <<read_pos, cpc, ptr, avail, out, buffer, producerVars>>

\* The caller may consume fewer bytes than it could.
consume ==
    /\ cpc = "copy"
    /\ got # <<>>
    /\ read_pos' = (read_pos + Len(got)) % WordSize
    /\ out' = got
    /\ cpc' = "idle"
    /\ ptr' = 0
    /\ avail' = 0
    /\ got' = <<>>
    /\ UNCHANGED <<buffer, producerVars>>

SpscNext ==
    \/ NewRecord \/ AskWritable \/ prepare_write \/ CopyIn \/ commit_write
    \/ peek \/ readable_bytes \/ CopyOut \/ consume

\* Positions start at 0; the buffer is not initialised.
SpscInit ==
    /\ write_pos = 0 /\ read_pos = 0
    /\ buffer \in [Index -> Byte]
    /\ ppc = "idle" /\ record = <<>> /\ written = 0 /\ promise = 0
    /\ cpc = "idle" /\ ptr = 0 /\ avail = 0 /\ got = <<>> /\ out = <<>>

SpscSpec == SpscInit /\ [][SpscNext]_spscVars

\* Both threads keep running, and the producer keeps retrying; nothing makes
\* it have a record or ask for the free space.
FairSpscSpec ==
    /\ SpscSpec
    /\ WF_spscVars(prepare_write) /\ WF_spscVars(CopyIn) /\ WF_spscVars(commit_write)
    /\ WF_spscVars(peek) /\ WF_spscVars(readable_bytes)
    /\ WF_spscVars(CopyOut) /\ WF_spscVars(consume)

-----------------------------------------------------------------------------
\* The ring buffer is a bounded FIFO: what the consumer gets are the bytes of
\* the committed records, in order, each once, although the threads copy
\* without a lock and the positions wrap around.
Waiting == [i \in 1..Used |-> buffer[Mask(read_pos + i - 1)]]

Abstract == INSTANCE BoundedFifo WITH queue <- Waiting, Limit <- capacity_ - 1

ImplementsFifo == Abstract!Fifo

\* No data race: the bytes the producer may write between prepare_write and
\* commit_write and the bytes the consumer may read after readable_bytes are
\* disjoint, and both stay inside the buffer.
WriteRegion ==
    IF ppc = "copy" THEN {Mask(write_pos) + i : i \in 0..(Len(record) - 1)} ELSE {}
ReadRegion ==
    IF cpc = "copy" THEN {ptr + i : i \in 0..(avail - 1)} ELSE {}

NoDataRace ==
    /\ WriteRegion \cap ReadRegion = {}
    /\ WriteRegion \cup ReadRegion \subseteq Index

\* What writable_bytes returned stays available to the producer, whatever
\* the consumer does before prepare_write.
PromiseKept ==
    \A len \in 1..promise : FitsFree(len) /\ FitsTail(len)

\* A record for which prepare_write finds room in front of the end of the
\* buffer is eventually committed: the consumer makes the rest of the room.
WritesGoOn == (ppc = "prepare" /\ FitsTail(Len(record))) ~> ppc = "idle"

\* What is committed is eventually read: peek and readable_bytes never leave
\* the consumer without a byte while there is one.
ReadsGoOn == \A p \in Pos : (read_pos = p /\ write_pos # p) ~> read_pos # p

\* spsc_queue.h on prepare_write: when the contiguous space at the end is too
\* short the producer has to wait for the consumer.  Waiting helps.
WaitingHelps == ppc = "prepare" ~> ppc = "idle"
=============================================================================
