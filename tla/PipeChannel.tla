----------------------------- MODULE PipeChannel -----------------------------
(***************************************************************************)
(* What the pipes promise: each is a bounded first-in first-out queue of   *)
(* bytes.  A write appends to it, a read takes from its front, nothing is  *)
(* lost, duplicated or reordered while the pipe exists.                    *)
(***************************************************************************)
EXTENDS Integers, Sequences

CONSTANTS PipeIds, Bytes, Capacity

VARIABLES open,       \* the pipes that exist
          queue,      \* the unread bytes of every pipe
          Moved       \* the bytes the last step took from a writer or gave to a reader

Init ==
    /\ open = {}
    /\ queue = [x \in PipeIds |-> <<>>]
    /\ Moved = <<>>

Open(x) ==
    /\ x \notin open
    /\ open' = open \cup {x}
    /\ Moved' = <<>>
    /\ UNCHANGED queue

Send(x) ==
    /\ x \in open
    /\ \E n \in 1 .. Capacity - Len(queue[x]) : \E data \in [1 .. n -> Bytes] :
         /\ Moved' = data
         /\ queue' = [queue EXCEPT ![x] = @ \o data]
    /\ UNCHANGED open

Receive(x) ==
    /\ x \in open
    /\ \E n \in 1 .. Len(queue[x]) :
         /\ Moved' = SubSeq(queue[x], 1, n)
         /\ queue' = [queue EXCEPT ![x] = SubSeq(@, n + 1, Len(@))]
    /\ UNCHANGED open

Discard(x) ==
    /\ x \in open
    /\ open' = open \ {x}
    /\ queue' = [queue EXCEPT ![x] = <<>>]
    /\ Moved' = <<>>

Nothing ==
    /\ Moved' = <<>>
    /\ UNCHANGED <<open, queue>>

Next ==
    \/ \E x \in PipeIds : Open(x) \/ Send(x) \/ Receive(x) \/ Discard(x)
    \/ Nothing

Spec == Init /\ [][Next]_<<open, queue, Moved>>
=============================================================================
