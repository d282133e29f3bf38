----------------------------- MODULE LogicLayer -----------------------------
(***************************************************************************)
(* The process table, the wait queues and the functions of                 *)
(* Kernel/Layers/Logic that change them: ProcessManager.cpp,               *)
(* SynchronizationManager.cpp and the process part of LogicLayer.cpp.      *)
(*                                                                         *)
(* The kernel runs on one processor and with interrupts disabled, so each  *)
(* C++ function is an operator from a kernel state to the state it leaves. *)
(* A kernel state k is one record (KernelState below):                     *)
(*                                                                         *)
(*  - the members of every Process entry, as functions of the slot number; *)
(*    a pair (flag, id) such as WaitingForVforkChild/VforkChildId, always  *)
(*    written together, is the id alone, INVALID for a false flag;         *)
(*  - the scheduler's ReadyQueue and CurrentProcess (SchedulerOps);        *)
(*  - the three wait queues of SynchronizationManager, front first;        *)
(*  - ProcessManager::CurrentProcessId;                                    *)
(*  - the machine: the slot whose context the processor executes (cpu),    *)
(*    the address space in CR3 (PageTable, NULL for the kernel's own), the *)
(*    VirtualAddressSpace objects that exist (Allocated), and whether the  *)
(*    processor is in the endless loop of HandleException (halted);        *)
(*  - Call[p], the system call p's kernel stack is blocked in, with the    *)
(*    locals it needs after the wake-up ("user": none);                    *)
(*  - Loop, the loop over processes or signals the kernel is in the middle *)
(*    of, if any.                                                          *)
(***************************************************************************)
EXTENDS SchedulerOps, SequenceOps

CONSTANTS MaxProcesses,   \* the size of the process table
          Spaces,         \* the addresses a VirtualAddressSpace can have
          NULL,           \* nullptr
          Signals,        \* the signal numbers in use
          MaxTicks        \* bound on sleeps and interval timers

ProcessIds == 0 .. MaxProcesses - 1
NullProcess == 0          \* the kernel process of CreateNullProcess
InitProcess == 1
UserIds == ProcessIds \ {NullProcess}
Ids == ProcessIds \cup {INVALID}

ASSUME TableAssumption == MaxProcesses \in Nat /\ MaxProcesses >= 2
ASSUME InvalidAssumption == INVALID \notin ProcessIds
ASSUME NullAssumption == NULL \notin Spaces
ASSUME SignalAssumption == Signals \subseteq 1 .. 64
ASSUME TickAssumption == MaxTicks \in Nat \ {0}

SIGKILL == 9
SIGALRM == 14
SIGCHLD == 17
SIGCONT == 18
SIGSTOP == 19
Unblockable == {SIGKILL, SIGSTOP}

ProcessStates == {"RUNNING", "READY", "BLOCKED", "TERMINATED"}

\* A sigaction handler: SIG_DFL, SIG_IGN, a function, or an address that the
\* process cannot execute (SetProcessSignalState refuses it).
Handlers == {"DFL", "IGN", "FUNCTION", "BAD"}

Calls == {"user", "pause", "sigsuspend", "nanosleep", "wait", "vfork",
          "futex", "tty", "event"}

\* The kernel stack of a process: pid is wait's argument (INVALID: any child),
\* mask sigsuspend's PreviousMask, key and ticks futex's FutexKey and
\* RemainingTicks (0: no timeout).
Frames == [call : Calls, pid : Ids, mask : SUBSET Signals,
           key : Spaces \cup {NULL}, ticks : 0 .. MaxTicks]

UserFrame == [call |-> "user", pid |-> INVALID, mask |-> {}, key |-> NULL,
              ticks |-> 0]

Loops == [op : {"none", "dispatch", "timer", "mouse"}, index : 0 .. MaxProcesses]

NoLoop == [op |-> "none", index |-> 0]

KernelState ==
    [Status : [ProcessIds -> ProcessStates],
     ParrentId : [ProcessIds -> Ids],
     AddressSpace : [ProcessIds -> Spaces \cup {NULL}],
     VforkChildId : [ProcessIds -> Ids],
     VforkParentId : [ProcessIds -> Ids],
     WaitingForChild : [ProcessIds -> BOOLEAN],
     PendingChildId : [ProcessIds -> Ids],
     BlockedSignalMask : [ProcessIds -> SUBSET Signals],
     PendingSignalMask : [ProcessIds -> SUBSET Signals],
     SavedSignalMask : [ProcessIds -> SUBSET Signals],
     HasSavedSignalState : [ProcessIds -> BOOLEAN],
     SavedSignalWasSyscall : [ProcessIds -> BOOLEAN],
     InterruptedBySignal : [ProcessIds -> BOOLEAN],
     SignalActions : [ProcessIds -> [Signals -> Handlers]],
     TimerRemaining : [ProcessIds -> 0 .. MaxTicks],
     TimerInterval : [ProcessIds -> 0 .. MaxTicks],
     Call : [ProcessIds -> Frames],
     ReadyQueue : Seq(ProcessIds),
     CurrentProcess : BOOLEAN,
     SleepQueue : Seq([Id : ProcessIds, Ticks : 0 .. MaxTicks]),
     TTYInputWaitQueue : Seq(ProcessIds),
     FutexWaitQueue : Seq([Id : ProcessIds, Key : Spaces \cup {NULL}]),
     CurrentProcessId : Ids,
     cpu : ProcessIds,
     PageTable : Spaces \cup {NULL},
     Allocated : SUBSET Spaces,
     TTYReadable : Nat,
     EventsPending : Nat,
     EventWaiters : Seq(ProcessIds),
     halted : BOOLEAN,
     Loop : Loops]

Live(k, p) == k.Status[p] # "TERMINATED"
-----------------------------------------------------------------------------
(* ProcessManager                                                          *)

\* GetCurrentProcess: the entry of CurrentProcessId, unless terminated.
GetCurrentProcess(k) ==
    IF k.CurrentProcessId # INVALID /\ Live(k, k.CurrentProcessId)
    THEN k.CurrentProcessId ELSE INVALID

\* What GetRunningProcess returns: the current process if it is RUNNING, else
\* the first RUNNING entry.
RunningProcess(k) ==
    LET running == {p \in ProcessIds : k.Status[p] = "RUNNING"}
    IN CASE k.CurrentProcessId \in running -> k.CurrentProcessId
         [] k.CurrentProcessId \notin running /\ running # {} -> Min(running)
         [] OTHER -> INVALID

\* ... and what it does: it stores what it found in CurrentProcessId.
GetRunningProcess(k) == [k EXCEPT !.CurrentProcessId = RunningProcess(k)]

\* InitializeProcessEntry, for a new process and for a killed one: whose it is
\* and whom it waits for, its signals, and its timer.  Its kernel stack is used
\* from the top again: nothing of an interrupted call is left.
ResetRelations(k, p, status, space) ==
    [k EXCEPT !.Status[p] = status,
              !.ParrentId[p] = INVALID,
              !.AddressSpace[p] = space,
              !.VforkChildId[p] = INVALID,
              !.VforkParentId[p] = INVALID,
              !.WaitingForChild[p] = FALSE,
              !.PendingChildId[p] = INVALID]

ResetSignals(k, p) ==
    [k EXCEPT !.BlockedSignalMask[p] = {},
              !.PendingSignalMask[p] = {},
              !.SavedSignalMask[p] = {},
              !.HasSavedSignalState[p] = FALSE,
              !.SavedSignalWasSyscall[p] = FALSE,
              !.InterruptedBySignal[p] = FALSE,
              !.SignalActions[p] = [s \in Signals |-> "DFL"]]

ResetTimer(k, p) ==
    [k EXCEPT !.TimerRemaining[p] = 0, !.TimerInterval[p] = 0, !.Call[p] = UserFrame]

InitializeProcessEntry(k, p, status, space) ==
    ResetTimer(ResetSignals(ResetRelations(k, p, status, space), p), p)

FreeSlots(k) == {p \in ProcessIds : ~Live(k, p)}

\* CreateUserProcess takes the first terminated entry, if there is one.
NewProcessId(k) == Min(FreeSlots(k))
CreateUserProcess(k, space) ==
    InitializeProcessEntry(k, NewProcessId(k), "READY", space)
-----------------------------------------------------------------------------
(* SynchronizationManager                                                  *)

AddToSleepQueue(k, p, ticks) ==
    [k EXCEPT !.SleepQueue = Append(@, [Id |-> p, Ticks |-> ticks])]

RemoveFromSleepQueue(k, p) ==
    [k EXCEPT !.SleepQueue = RemoveFirstMatch(@, LAMBDA tag : tag.Id = p)]

AddToTTYInputWaitQueue(k, p) ==
    IF Contains(k.TTYInputWaitQueue, p) THEN k
    ELSE [k EXCEPT !.TTYInputWaitQueue = Append(@, p)]

RemoveFromTTYInputWaitQueue(k, p) ==
    [k EXCEPT !.TTYInputWaitQueue = RemoveFirst(@, p)]

\* Mutant of AddFutexWaiter: it drops the waiters of the key.
AddFutexWaiterOverwrites(k, p, key) ==
    [k EXCEPT !.FutexWaitQueue =
        Append(Compacted(@, {i \in DOMAIN @ : @[i].Key # key}), [Id |-> p, Key |-> key])]

\* AddFutexWaiter drops every other wait of the process first.
AddFutexWaiter(k, p, key) ==
    [k EXCEPT !.FutexWaitQueue =
        Append(Compacted(@, {i \in DOMAIN @ : @[i].Id # p}), [Id |-> p, Key |-> key])]

RemoveFutexWaiter(k, p, key) ==
    [k EXCEPT !.FutexWaitQueue =
        RemoveFirst(@, [Id |-> p, Key |-> key])]

IsProcessWaitingOnFutex(k, p, key) ==
    Contains(k.FutexWaitQueue, [Id |-> p, Key |-> key])

\* SynchronizationManager::Tick: every tag counts down.
Ticked(q) ==
    [i \in DOMAIN q |-> IF q[i].Ticks > 0 THEN [q[i] EXCEPT !.Ticks = @ - 1] ELSE q[i]]

SyncTick(k) == [k EXCEPT !.SleepQueue = Ticked(@)]

\* Mutant of ExpiredTags: off by one.
ExpiredTagsOffByOne(k) == {i \in DOMAIN k.SleepQueue : k.SleepQueue[i].Ticks = 1}

\* The tags GetNextProcessToWake looks for; it returns the first one's id.
ExpiredTags(k) == {i \in DOMAIN k.SleepQueue : k.SleepQueue[i].Ticks = 0}
-----------------------------------------------------------------------------
(* LogicLayer: running and scheduling                                      *)

\* The task switch: the processor executes p, in p's address space (the
\* null process runs on the kernel's own page table).
SwitchTo(k, p) ==
    [k EXCEPT !.Status[p] = "RUNNING",
              !.CurrentProcessId = p,
              !.cpu = p,
              !.PageTable = k.AddressSpace[p]]

\* RunProcess up to the task switch.  The outgoing process becomes READY only
\* if it was RUNNING; when there is no current process (it has terminated) the
\* outgoing context is thrown away.  What follows the switch in the code, when
\* the outgoing process is switched back to, sets its Status to RUNNING again
\* and that of the process it had switched to, if RUNNING, to READY: nothing
\* changes, since only the process on the processor is RUNNING (OneRunning).
RunProcess(k, p) ==
    LET current == GetCurrentProcess(k)
    IN CASE ~Live(k, p) -> k
         [] Live(k, p) /\ current = INVALID -> SwitchTo(k, p)
         [] Live(k, p) /\ current = p -> k
         [] OTHER ->
              SwitchTo(IF k.Status[current] = "RUNNING"
                       THEN [k EXCEPT !.Status[current] = "READY"] ELSE k, p)

Schedule(k) ==
    IF k.ReadyQueue = <<>> THEN k
    ELSE RunProcess(SelectNextProcess(k), SelectedProcess(k))

\* BlockProcess, with the frame the process will continue from.
BlockProcess(k, p, frame) ==
    Schedule(RemoveFromReadyQueue(
        [k EXCEPT !.Status[p] = "BLOCKED", !.Call[p] = frame], p))

SleepProcess(k, p, ticks, frame) ==
    BlockProcess(AddToSleepQueue(k, p, ticks), p, frame)

BlockProcessForTTYInput(k, p, frame) ==
    BlockProcess(AddToTTYInputWaitQueue(k, p), p, frame)

MakeReady(k, p) ==
    AddToReadyQueue([k EXCEPT !.Status[p] = "READY"], p)

\* UnblockProcess and WakeProcess have the same effect: a BLOCKED process
\* leaves the sleep queue and becomes READY.
UnblockProcess(k, p) ==
    IF k.Status[p] = "BLOCKED"
    THEN MakeReady(RemoveFromSleepQueue(k, p), p) ELSE k

WakeProcess(k, p) == UnblockProcess(k, p)

NotifyTTYInputAvailable(k) ==
    IF k.TTYInputWaitQueue = <<>> THEN k
    ELSE LET p == Head(k.TTYInputWaitQueue)
         IN UnblockProcess(RemoveFromTTYInputWaitQueue(k, p), p)

AddProcessToReadyQueue(k, p) ==
    CASE ~Live(k, p) -> k
      [] k.Status[p] = "BLOCKED" -> MakeReady(k, p)
      [] OTHER -> AddToReadyQueue(k, p)
-----------------------------------------------------------------------------
(* LogicLayer::KillProcess                                                 *)

\* A process in its parent's address space (it was created by vfork) leaves
\* that address space alone.
SharesWithVforkParent(k, p) ==
    /\ k.VforkParentId[p] # INVALID
    /\ k.AddressSpace[k.VforkParentId[p]] = k.AddressSpace[p]

\* Mutant of ReleaseAddressSpace: the vfork parent's space is deleted.
ReleaseAddressSpaceShared(k, p) ==
    IF k.AddressSpace[p] = NULL THEN k
    ELSE [k EXCEPT !.Allocated = @ \ {k.AddressSpace[p]},
                   !.PageTable = IF RunningProcess(k) = p THEN NULL ELSE @]

\* The address space is cleaned up and deleted; if the process is the running
\* one, the kernel's page table is loaded first.
ReleaseAddressSpace(k, p) ==
    IF k.AddressSpace[p] = NULL \/ SharesWithVforkParent(k, p) THEN k
    ELSE [k EXCEPT !.Allocated = @ \ {k.AddressSpace[p]},
                   !.PageTable = IF RunningProcess(k) = p THEN NULL ELSE @]

LeaveQueues(k, p) ==
    RemoveFromTTYInputWaitQueue(
        RemoveFromSleepQueue(RemoveFromReadyQueue(k, p), p), p)

\* The parent's one slot for an exited child is overwritten; a parent that
\* waits for a child is unblocked.
NotifyParent(k, parent, child) ==
    IF parent = INVALID THEN k
    ELSE IF ~Live(k, parent) THEN k
    ELSE LET told == [k EXCEPT !.PendingChildId[parent] = child,
                               !.WaitingForChild[parent] = FALSE]
         IN IF k.WaitingForChild[parent]
            THEN UnblockProcess(told, parent) ELSE told

KillProcess(k, p) ==
    LET released == ReleaseAddressSpace(GetRunningProcess(k), p)
        dead == InitializeProcessEntry(released, p, "TERMINATED", NULL)
    IN NotifyParent(LeaveQueues(dead, p), k.ParrentId[p], p)
-----------------------------------------------------------------------------
(* LogicLayer::SignalProcess                                               *)

StopProcess(k, p) ==
    IF k.Status[p] \in {"RUNNING", "READY"}
    THEN LeaveQueues([k EXCEPT !.Status[p] = "BLOCKED"], p) ELSE k

LeaveWaitQueues(k, p) ==
    RemoveFromTTYInputWaitQueue(RemoveFromSleepQueue(k, p), p)

\* Mutant of ContinueProcess: a sleeping process keeps its tag.
ContinueProcessKeepsTag(k, p) ==
    IF k.Status[p] = "BLOCKED" THEN MakeReady(k, p) ELSE k

ContinueProcess(k, p) ==
    IF k.Status[p] = "BLOCKED" THEN MakeReady(LeaveWaitQueues(k, p), p) ELSE k

\* GetLinuxDefaultSignalAction for the signals of the model: SIGCHLD is
\* ignored; SIGKILL, SIGSTOP and SIGCONT are handled before it is asked.
DefaultAction(k, p, sig) == IF sig = SIGCHLD THEN k ELSE KillProcess(k, p)

\* WasSyscall in SetProcessSignalState: the target is inside a system call,
\* blocked in one or the caller of the one that is being served.
InSystemCall(k, p) ==
    k.Call[p].call # "user" \/ (p = k.cpu /\ k.Loop.op # "timer")

\* SetProcessSignalState redirects the saved context to the handler and masks
\* the signal.
Redirect(k, p, sig) ==
    [k EXCEPT !.HasSavedSignalState[p] = TRUE,
              !.SavedSignalWasSyscall[p] = InSystemCall(k, p),
              !.SavedSignalMask[p] = k.BlockedSignalMask[p],
              !.BlockedSignalMask[p] = (@ \cup {sig}) \ Unblockable]

\* Mutant of RunHandler: any process is made READY.
RunHandlerAlwaysWakes(k, p, sig) ==
    MakeReady(LeaveWaitQueues(Redirect(k, p, sig), p), p)

\* A handler is called, and a BLOCKED process is woken for it.
RunHandler(k, p, sig) ==
    IF k.Status[p] = "BLOCKED"
    THEN MakeReady(LeaveWaitQueues(
           [Redirect(k, p, sig) EXCEPT !.InterruptedBySignal[p] = TRUE], p), p)
    ELSE Redirect(k, p, sig)

\* The bit of a signal in PendingSignalMask.
ClearPending(k, p, sig) == [k EXCEPT !.PendingSignalMask[p] = @ \ {sig}]
SetPending(k, p, sig) == [k EXCEPT !.PendingSignalMask[p] = @ \cup {sig}]

\* A signal that is not masked, by its action.
DeliverSignal(k, p, sig) ==
    CASE k.SignalActions[p][sig] = "IGN" -> k
      [] k.SignalActions[p][sig] = "DFL" -> DefaultAction(k, p, sig)
      [] k.SignalActions[p][sig] \in {"FUNCTION", "BAD"}
         /\ k.HasSavedSignalState[p] ->
           SetPending(k, p, sig)
      [] k.SignalActions[p][sig] = "FUNCTION" /\ ~k.HasSavedSignalState[p] ->
           RunHandler(k, p, sig)
      [] OTHER -> KillProcess(k, p)

SignalProcess(k, p, sig) ==
    LET taken == ClearPending(k, p, sig)
    IN CASE ~Live(k, p) -> k
         [] Live(k, p) /\ sig = SIGKILL -> KillProcess(taken, p)
         [] Live(k, p) /\ sig = SIGSTOP -> StopProcess(taken, p)
         [] Live(k, p) /\ sig = SIGCONT -> ContinueProcess(taken, p)
         [] Live(k, p) /\ sig \notin {SIGKILL, SIGSTOP, SIGCONT}
            /\ sig \in k.BlockedSignalMask[p] ->
              SetPending(k, p, sig)
         [] OTHER -> DeliverSignal(taken, p, sig)
=============================================================================
