----------------------------- MODULE SequenceOps -----------------------------
(***************************************************************************)
(* What the kernel's loops leave of a list when they drop entries from it  *)
(* and close the gaps.                                                     *)
(***************************************************************************)
EXTENDS Integers, Sequences, FiniteSets

\* The entries of q at the places `kept', in their order.  (SelectSeq in a form
\* the proof system can reason about.)
Compacted(q, kept) ==
    [n \in 1 .. Cardinality(kept) |->
       q[CHOOSE i \in kept : Cardinality({j \in kept : j <= i}) = n]]
=============================================================================
