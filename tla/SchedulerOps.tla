---------------------------- MODULE SchedulerOps ----------------------------
(***************************************************************************)
(* The operations of Kernel/Layers/Logic/Scheduler.cpp as functions on the *)
(* scheduler's state.  A state s is any record with the two fields         *)
(*                                                                         *)
(*   ReadyQueue      the process ids of the ProcessTag list, front first;  *)
(*   CurrentProcess  whether the pointer of that name is non-null.         *)
(*                                                                         *)
(* Scheduler::CurrentProcess only ever points at the head of the list (the *)
(* invariant CurrentIsHead of ReadyQueueList, where the list is modelled   *)
(* pointer by pointer), so one Boolean stands for it.  The record may have *)
(* further fields: the kernel's state has, and uses these operators as     *)
(* they are.                                                               *)
(***************************************************************************)
EXTENDS Integers, SequencesExt

CONSTANT INVALID    \* PROCESS_ID_INVALID, 0xFF: no process

\* IntrusiveQueue::RotateFrontToBack: the head, if there is another tag, is
\* moved behind the tail.
RotateFrontToBack(q) == IF q = <<>> THEN q ELSE Append(Tail(q), Head(q))

\* The tag is allocated and pushed at the back.  (The early return for an
\* allocation that fails is the action AddDropped of Scheduler.)
AddToReadyQueue(s, id) == [s EXCEPT !.ReadyQueue = Append(@, id)]

\* The first tag with this id is unlinked and deleted; if it was the head,
\* CurrentProcess is reset.  An id that is not queued changes nothing.
RemoveFromReadyQueue(s, id) ==
    IF Contains(s.ReadyQueue, id)
    THEN [s EXCEPT !.ReadyQueue = RemoveFirst(@, id),
                   !.CurrentProcess = @ /\ s.ReadyQueue[1] # id]
    ELSE s

\* Mutant of SelectNextProcess: the head is never rotated.
SelectNextProcessKeepsHead(s) ==
    IF s.ReadyQueue = <<>> THEN s ELSE [s EXCEPT !.CurrentProcess = TRUE]

\* The state after SelectNextProcess: the head keeps its place when nothing
\* is current (it was never given the CPU), and else goes to the back.
SelectNextProcess(s) ==
    IF s.ReadyQueue = <<>>
    THEN s
    ELSE [s EXCEPT !.ReadyQueue = IF s.CurrentProcess
                                  THEN RotateFrontToBack(@) ELSE @,
                   !.CurrentProcess = TRUE]

\* The value SelectNextProcess returns.
SelectedProcess(s) ==
    IF s.ReadyQueue = <<>> THEN INVALID ELSE SelectNextProcess(s).ReadyQueue[1]
=============================================================================
