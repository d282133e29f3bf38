------------------------------ MODULE PipeBuffer ------------------------------
(***************************************************************************)
(* The ring buffer of a PipeKernelObject: the loops of PipeRead and        *)
(* PipeWrite that move bytes, and what the buffer holds.                   *)
(***************************************************************************)
EXTENDS Integers, Sequences

CONSTANTS Bytes,      \* the values of a byte that writers use
          Capacity    \* LINUX_PIPE_BUFFER_CAPACITY

ASSUME CapacityAssumption == Capacity \in Nat \ {0}

Cells == 0 .. Capacity - 1

Rings == [Buffer : [Cells -> Bytes], ReadOffset : Cells, WriteOffset : Cells,
          BufferedBytes : 0 .. Capacity]

\* The buffer is not initialised: what it holds at first is never read.
EmptyRing(byte) == [Buffer |-> [c \in Cells |-> byte], ReadOffset |-> 0,
                    WriteOffset |-> 0, BufferedBytes |-> 0]

\* The bytes of the ring, oldest first.
Contents(r) ==
    [i \in 1 .. r.BufferedBytes |-> r.Buffer[(r.ReadOffset + i - 1) % Capacity]]

AvailableSpace(r) == Capacity - r.BufferedBytes

\* How far cell c is ahead of WriteOffset.
Ahead(r, c) == (c - r.WriteOffset + Capacity) % Capacity

\* Mutant: the offset is advanced, the wrap-around forgotten for the data.
PutBytesNoWrap(r, data) ==
    [Buffer |-> [c \in Cells |-> IF c >= r.WriteOffset /\ c - r.WriteOffset < Len(data)
                                 THEN data[c - r.WriteOffset + 1] ELSE r.Buffer[c]],
     ReadOffset |-> r.ReadOffset,
     WriteOffset |-> (r.WriteOffset + Len(data)) % Capacity,
     BufferedBytes |-> r.BufferedBytes + Len(data)]

\* The loop of PipeWrite, for at most AvailableSpace(r) bytes.
PutBytes(r, data) ==
    [Buffer |-> [c \in Cells |-> IF Ahead(r, c) < Len(data)
                                 THEN data[Ahead(r, c) + 1] ELSE r.Buffer[c]],
     ReadOffset |-> r.ReadOffset,
     WriteOffset |-> (r.WriteOffset + Len(data)) % Capacity,
     BufferedBytes |-> r.BufferedBytes + Len(data)]

\* The loop of PipeRead, for at most BufferedBytes bytes.
TakeBytes(r, n) ==
    [r EXCEPT !.ReadOffset = (@ + n) % Capacity, !.BufferedBytes = @ - n]

FirstBytes(r, n) == [i \in 1 .. n |-> r.Buffer[(r.ReadOffset + i - 1) % Capacity]]
=============================================================================
