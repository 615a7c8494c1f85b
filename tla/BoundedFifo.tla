---------------------------- MODULE BoundedFifo ----------------------------
(***************************************************************************)
(* What the logger's queue promises its two threads: a FIFO of bytes that  *)
(* never holds more than Limit bytes, written record by record and read in *)
(* pieces of any length.                                                   *)
(***************************************************************************)
EXTENDS Integers, Sequences

CONSTANTS Record,   \* the records a producer may write: sequences of bytes
          Limit     \* how many bytes may wait

VARIABLES
    queue,    \* the bytes written and not yet read
    record,   \* the record the producer is about to write
    out       \* what the consumer got last

fifoVars == <<queue, record, out>>

FifoInit == queue = <<>> /\ record = <<>> /\ out = <<>>

Offer ==
    /\ record' \in Record
    /\ UNCHANGED <<queue, out>>

Write ==
    /\ Len(queue) + Len(record) <= Limit
    /\ queue' = queue \o record
    /\ record' = <<>>
    /\ UNCHANGED out

Read ==
    /\ \E n \in 1..Len(queue) :
          /\ out' = SubSeq(queue, 1, n)
          /\ queue' = SubSeq(queue, n + 1, Len(queue))
    /\ UNCHANGED record

Fifo == FifoInit /\ [][Offer \/ Write \/ Read]_fifoVars
=============================================================================
