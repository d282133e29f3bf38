------------------------------ MODULE Scheduler ------------------------------
(***************************************************************************)
(* What the scheduler of Kernel/Layers/Logic/Scheduler.cpp promises to the *)
(* layer above it: a round-robin queue of process ids.  ReadyQueueList,    *)
(* the linked list with its pointers, implements this specification.       *)
(***************************************************************************)
EXTENDS SchedulerOps

CONSTANT ProcessIds

VARIABLES sched,      \* the record of SchedulerOps
          Selected    \* the id the last SelectNextProcess returned

vars == <<sched, Selected>>

Init ==
    /\ sched = [ReadyQueue |-> <<>>, CurrentProcess |-> FALSE]
    /\ Selected = INVALID

AddProcess(id) ==
    /\ sched' = AddToReadyQueue(sched, id)
    /\ UNCHANGED Selected

\* "if (NewTag == nullptr) return": the caller is not told.
AddDropped(id) == UNCHANGED vars

RemoveProcess(id) ==
    /\ sched' = RemoveFromReadyQueue(sched, id)
    /\ UNCHANGED Selected

SelectProcess ==
    /\ sched' = SelectNextProcess(sched)
    /\ Selected' = SelectedProcess(sched)

Next ==
    \/ \E id \in ProcessIds : AddProcess(id) \/ AddDropped(id) \/ RemoveProcess(id)
    \/ SelectProcess

Spec == Init /\ [][Next]_vars
=============================================================================
