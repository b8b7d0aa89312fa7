----------------------------- MODULE TunDevice ------------------------------
(***************************************************************************)
(* internal/service/tundev/device.go: the adapter that hands out one       *)
(* packet at a time of the batches the TUN library reads.                  *)
(*                                                                         *)
(* Packets are numbered in the order in which the machine sends them.  One *)
(* goroutine reads, the pump from the device to the tunnel; Write keeps    *)
(* nothing between two calls.                                              *)
(***************************************************************************)
EXTENDS Naturals, Sequences

CONSTANTS BatchSize,   \* how many packets one read of the library can return
          MaxPackets   \* bound on what the machine sends

ASSUME BatchSizeIsPositive == BatchSize \in Nat \ {0}
ASSUME MaxPacketsIsNat     == MaxPackets \in Nat

VARIABLES
    emitted,     \* how many packets the kernel has given to the library
    readBufs,    \* the batch of the last read, of readCount packets
    readNext,    \* how many of them have been handed out
    dropped,     \* the packets of batches that overflowed the buffers
    handed       \* history: the packets Read has returned, in order

tunVars == <<emitted, readBufs, readNext, dropped, handed>>

TunTypeOK ==
    /\ emitted \in 0..MaxPackets
    /\ readBufs \in Seq(1..MaxPackets) /\ Len(readBufs) <= BatchSize
    /\ readNext \in 0..BatchSize
    /\ dropped \subseteq 1..MaxPackets
    /\ handed \in Seq(1..MaxPackets)

TunInit == /\ emitted = 0
           /\ readBufs = <<>> /\ readNext = 0
           /\ dropped = {}
           /\ handed = <<>>

readCount == Len(readBufs)

\* Read asks the library again only when the last batch has been handed out.
Drained == readNext >= readCount

\* The kernel gives the library the next n packets.
Emits(n) == /\ emitted + n <= MaxPackets
            /\ emitted' = emitted + n

\* Read, of a new batch: the first packet is returned at once.
ReadBatch(n) ==
    /\ Drained
    /\ n > 0 /\ Emits(n)
    /\ readBufs' = [k \in 1..n |-> emitted + k]
    /\ readNext' = 1
    /\ handed' = Append(handed, emitted + 1)
    /\ UNCHANGED dropped

\* Read, of what is left of the last batch.  Neither the library nor the kernel is
\* asked, so a device that has been closed hands these out all the same.
ReadNext ==
    /\ ~Drained
    /\ handed' = Append(handed, readBufs[readNext + 1])
    /\ readNext' = readNext + 1
    /\ UNCHANGED <<emitted, readBufs, dropped>>

\* A read that returns no packet: an empty batch, ...
ReadNothing ==
    /\ Drained
    /\ readBufs' = <<>> /\ readNext' = 0
    /\ UNCHANGED <<emitted, dropped, handed>>

\* ... or one that did not fit the buffers and is lost (ErrTooManySegments).
ReadOverflows(n) ==
    /\ Drained
    /\ n > BatchSize /\ Emits(n)
    /\ dropped' = dropped \union emitted + 1 .. emitted + n
    /\ UNCHANGED <<readBufs, readNext, handed>>

-----------------------------------------------------------------------------
(* What has to hold *)

\* "A batch is drained across calls so the caller keeps seeing one packet at a
\* time" (device.go:88-90): what Read has returned and what is left of the batch
\* are all the packets that were not dropped, once each and in order.
DrainedInOrder ==
    LET out == handed \o SubSeq(readBufs, readNext + 1, readCount)
    IN  /\ \A i, j \in DOMAIN out : i < j => out[i] < out[j]
        /\ {out[i] : i \in DOMAIN out} = (1..emitted) \ dropped
=============================================================================
