-------------------------------- MODULE Kernel --------------------------------
(***************************************************************************)
(* The kernel as its user processes and its devices drive it: the system   *)
(* calls of Kernel/Layers/Translation that create, end, block and signal   *)
(* processes, the interrupts and exceptions of Kernel/Layers/Dispatcher,   *)
(* and the continuation of system calls that were blocked.                 *)
(*                                                                         *)
(* A system call runs with interrupts disabled (InitSystemCalls masks IF), *)
(* from its entry until it returns or blocks: it is one action.  The       *)
(* process on the processor does anything a program may do; which calls    *)
(* the programs of an instance use is the constant SystemCalls.            *)
(***************************************************************************)
EXTENDS LogicLayer

CONSTANTS SystemCalls,    \* what the user programs do
          SentSignals,    \* the signals they send
          ManagedSignals, \* the signals they install handlers for and mask
          SignalsToSelf,  \* whether a process may send signals to itself
          InstalledHandlers,  \* the handlers they pass to sigaction
          MaxInput        \* bound on unread terminal and event input

ASSUME InputAssumption == MaxInput \in Nat
ASSUME SentAssumption == SentSignals \cup ManagedSignals \subseteq Signals
ASSUME HandlersAssumption == InstalledHandlers \subseteq Handlers
ASSUME AlarmAssumption == "setitimer" \in SystemCalls => SIGALRM \in Signals

VARIABLE k                \* the kernel state of LogicLayer

vars == <<k>>

\* CreateNullProcess has run and the first user process has been created: the
\* null process is on the processor, both are in the ready queue.
BootState(space) ==
    [Status |-> [p \in ProcessIds |->
                   CASE p = NullProcess -> "RUNNING"
                     [] p = InitProcess -> "READY"
                     [] OTHER -> "TERMINATED"],
     ParrentId |-> [p \in ProcessIds |-> INVALID],
     AddressSpace |-> [p \in ProcessIds |->
                         IF p = InitProcess THEN space ELSE NULL],
     VforkChildId |-> [p \in ProcessIds |-> INVALID],
     VforkParentId |-> [p \in ProcessIds |-> INVALID],
     WaitingForChild |-> [p \in ProcessIds |-> FALSE],
     PendingChildId |-> [p \in ProcessIds |-> INVALID],
     BlockedSignalMask |-> [p \in ProcessIds |-> {}],
     PendingSignalMask |-> [p \in ProcessIds |-> {}],
     SavedSignalMask |-> [p \in ProcessIds |-> {}],
     HasSavedSignalState |-> [p \in ProcessIds |-> FALSE],
     SavedSignalWasSyscall |-> [p \in ProcessIds |-> FALSE],
     InterruptedBySignal |-> [p \in ProcessIds |-> FALSE],
     SignalActions |-> [p \in ProcessIds |-> [s \in Signals |-> "DFL"]],
     TimerRemaining |-> [p \in ProcessIds |-> 0],
     TimerInterval |-> [p \in ProcessIds |-> 0],
     Call |-> [p \in ProcessIds |-> UserFrame],
     ReadyQueue |-> <<NullProcess, InitProcess>>,
     CurrentProcess |-> FALSE,
     SleepQueue |-> <<>>,
     TTYInputWaitQueue |-> <<>>,
     FutexWaitQueue |-> <<>>,
     CurrentProcessId |-> NullProcess,
     cpu |-> NullProcess,
     PageTable |-> NULL,
     Allocated |-> {space},
     TTYReadable |-> 0,
     EventsPending |-> 0,
     EventWaiters |-> <<>>,
     halted |-> FALSE,
     Loop |-> NoLoop]

Init == \E space \in Spaces : k = BootState(space)
-----------------------------------------------------------------------------
(* Who may take a step                                                     *)

\* The processor executes the program of p, interrupts enabled.
InUserMode(p) ==
    /\ ~k.halted
    /\ k.Loop.op = "none"
    /\ k.cpu = p
    /\ k.Call[p].call = "user"

\* p enters the kernel with system call c, and GetRunningProcess finds it.  A
\* program only runs while its own address space is loaded.
Calling(p, c) ==
    /\ c \in SystemCalls
    /\ p \in UserIds
    /\ InUserMode(p)
    /\ k.Status[p] = "RUNNING"

\* The system call p is blocked in goes on: p has been switched to again.
Resuming(p, c) ==
    /\ ~k.halted
    /\ k.Loop.op = "none"
    /\ k.cpu = p
    /\ k.Call[p].call = c

Return(s, p) == [s EXCEPT !.Call[p] = UserFrame]

\* GetRunningProcess finds no process: every system call returns an error.
RejectedSystemCall(p) ==
    /\ p \in UserIds
    /\ InUserMode(p)
    /\ k.Status[p] # "RUNNING"
    /\ k.PageTable # NULL
    /\ k' = GetRunningProcess(k)
-----------------------------------------------------------------------------
(* Creating processes                                                      *)

\* What fork, vfork and clone copy into the child, on top of the fresh entry.
InheritFrom(s, parent, child) ==
    [s EXCEPT !.ParrentId[child] = parent,
              !.BlockedSignalMask[child] = s.BlockedSignalMask[parent],
              !.SignalActions[child] = s.SignalActions[parent]]

\* CopyProcess: the child gets an address space of its own.
Fork(p) ==
    /\ Calling(p, "fork")
    /\ FreeSlots(k) # {}
    /\ \E space \in Spaces \ k.Allocated :
         LET child == NewProcessId(k)
             created == CreateUserProcess(
                          [k EXCEPT !.Allocated = @ \cup {space}], space)
         IN k' = AddToReadyQueue(InheritFrom(created, p, child), child)

\* CopyProcess fails after the child has its parent (no memory for a mapping,
\* a descriptor or an event queue): KillProcess(ChildId), which tells the
\* parent of a child that never ran.  Earlier failures leave nothing behind.
ForkFails(p) ==
    /\ Calling(p, "forkfail")
    /\ FreeSlots(k) # {}
    /\ \E space \in Spaces \ k.Allocated :
         LET child == NewProcessId(k)
             created == CreateUserProcess(
                          [k EXCEPT !.Allocated = @ \cup {space}], space)
         IN k' = KillProcess(InheritFrom(created, p, child), child)

\* clone with CLONE_VM and without CLONE_VFORK: a thread.
CloneThread(p) ==
    /\ Calling(p, "clone")
    /\ FreeSlots(k) # {}
    /\ LET child == NewProcessId(k)
           created == CreateUserProcess(k, k.AddressSpace[p])
       IN k' = AddProcessToReadyQueue(InheritFrom(created, p, child), child)

\* Mutant of Vfork: the parent goes on.
VforkDoesNotBlock(p) ==
    /\ Calling(p, "vfork")
    /\ k.VforkChildId[p] = INVALID
    /\ FreeSlots(k) # {}
    /\ LET child == NewProcessId(k)
           created == InheritFrom(
                        CreateUserProcess(k, k.AddressSpace[p]), p, child)
       IN k' = AddProcessToReadyQueue(
                 [created EXCEPT !.VforkChildId[p] = child,
                                 !.VforkParentId[child] = p], child)

\* The parent is blocked until the child calls execve or exits.  A parent that
\* already waits for such a child gets EAGAIN.
Vfork(p) ==
    /\ Calling(p, "vfork")
    /\ k.VforkChildId[p] = INVALID
    /\ FreeSlots(k) # {}
    /\ LET child == NewProcessId(k)
           created == InheritFrom(
                        CreateUserProcess(k, k.AddressSpace[p]), p, child)
           linked == [created EXCEPT !.VforkChildId[p] = child,
                                     !.VforkParentId[child] = p]
       IN k' = BlockProcess(AddProcessToReadyQueue(linked, child), p,
                            [UserFrame EXCEPT !.call = "vfork"])

ResumeVfork(p) ==
    /\ Resuming(p, "vfork")
    /\ k' = Return(k, p)
-----------------------------------------------------------------------------
(* Replacing and ending processes                                          *)

\* Mutant of ReleaseVforkParent: the parent's links are cleared, but it is not
\* unblocked.
ReleaseVforkParentForgetful(s, child, parent) ==
    IF parent = INVALID \/ ~Live(s, parent) THEN s
    ELSE [s EXCEPT !.VforkChildId[parent] = INVALID]

\* The part of ReleaseVforkParentIfNeeded and of HandleExitGroupSystemCall
\* that concerns the parent.
ReleaseVforkParent(s, child, parent) ==
    IF parent = INVALID THEN s
    ELSE IF ~Live(s, parent) THEN s
    ELSE LET freed == [s EXCEPT !.VforkChildId[parent] = INVALID]
         IN IF s.VforkChildId[parent] = child
            THEN UnblockProcess(freed, parent) ELSE freed

\* ChangeProcessExecution: the new address space is built and loaded before
\* the old one is deleted, unless that one is the vfork parent's.
ChangeProcessExecution(s, p, space) ==
    LET old == s.AddressSpace[p]
        kept == SharesWithVforkParent(s, p)
    IN [s EXCEPT !.AddressSpace[p] = space,
                 !.PageTable = space,
                 !.Allocated = (@ \cup {space}) \ (IF kept THEN {} ELSE {old})]

\* execve.  The signal actions stay; whether the handlers' addresses are still
\* executable depends on the new image.
Execve(p) ==
    /\ Calling(p, "execve")
    /\ \E space \in Spaces \ k.Allocated,
          sameHandlers \in BOOLEAN :
         LET changed == ChangeProcessExecution(k, p, space)
             parent == k.VforkParentId[p]
             actions == [s \in Signals |->
                           IF ~sameHandlers /\ k.SignalActions[p][s] = "FUNCTION"
                           THEN "BAD" ELSE k.SignalActions[p][s]]
         IN k' = ReleaseVforkParent(
                   [changed EXCEPT !.VforkParentId[p] = INVALID,
                                   !.SignalActions[p] = actions],
                   p, parent)

\* Mutant of ExitGroup: it returns instead of scheduling.
ExitGroupReturns(p) ==
    /\ Calling(p, "exit")
    /\ k' = ReleaseVforkParent(KillProcess(k, p), p, k.VforkParentId[p])

ExitGroup(p) ==
    /\ Calling(p, "exit")
    /\ k' = Schedule(ReleaseVforkParent(KillProcess(k, p), p,
                                        k.VforkParentId[p]))
-----------------------------------------------------------------------------
(* Waiting for children                                                    *)

\* IsMatchingChildId: pid INVALID stands for -1, any child.
Matches(pid, child) == pid = INVALID \/ pid = child

HasMatchingLiveChild(s, p, pid) ==
    \E c \in ProcessIds : s.ParrentId[c] = p /\ Live(s, c) /\ Matches(pid, c)

CanConsume(s, p, pid) ==
    s.PendingChildId[p] # INVALID /\ Matches(pid, s.PendingChildId[p])

ConsumePendingChild(s, p) ==
    [s EXCEPT !.PendingChildId[p] = INVALID, !.WaitingForChild[p] = FALSE]

\* wait4, when it does not block: an exited child is collected, or (ECHILD,
\* WNOHANG) nothing changes.
WaitReturns(p) ==
    /\ Calling(p, "wait")
    /\ \E pid \in Ids : /\ CanConsume(k, p, pid)
                        /\ k' = ConsumePendingChild(k, p)

WaitBlocks(p) ==
    /\ Calling(p, "wait")
    /\ \E pid \in Ids :
         /\ ~CanConsume(k, p, pid)
         /\ HasMatchingLiveChild(k, p, pid)
         /\ k' = BlockProcess([k EXCEPT !.WaitingForChild[p] = TRUE], p,
                              [UserFrame EXCEPT !.call = "wait", !.pid = pid])

\* After the wake-up: collect, or give up (the caller gets 0 or ECHILD).
ResumeWait(p) ==
    /\ Resuming(p, "wait")
    /\ k' = Return(IF CanConsume(k, p, k.Call[p].pid)
                   THEN ConsumePendingChild(k, p)
                   ELSE [k EXCEPT !.WaitingForChild[p] = FALSE], p)
-----------------------------------------------------------------------------
(* Sleeping, and waiting on futexes                                        *)

\* nanosleep; a request of no ticks returns at once.
Nanosleep(p) ==
    /\ Calling(p, "nanosleep")
    /\ \/ \E ticks \in 1 .. MaxTicks :
            k' = SleepProcess(k, p, ticks, [UserFrame EXCEPT !.call = "nanosleep"])
       \/ k' = [k EXCEPT !.InterruptedBySignal[p] = FALSE]

\* Mutant of ResumeNanosleep: the flag is not reset.
ResumeNanosleepKeepsFlag(p) ==
    /\ Resuming(p, "nanosleep")
    /\ k' = Return(k, p)

ResumeNanosleep(p) ==
    /\ Resuming(p, "nanosleep")
    /\ k' = Return([k EXCEPT !.InterruptedBySignal[p] = FALSE], p)

\* The key of the one futex word of a program: its address alone, or, for a
\* private futex, the address with the VirtualAddressSpace pointer.
FutexKey(p, private) == IF private THEN k.AddressSpace[p] ELSE NULL

\* One round of FUTEX_WAIT's loop: with a timeout it sleeps tick by tick.
FutexSleep(s, p, key, ticks) ==
    LET frame == [UserFrame EXCEPT !.call = "futex", !.key = key, !.ticks = ticks]
    IN IF ticks > 0 THEN SleepProcess(s, p, 1, frame)
                    ELSE BlockProcess(s, p, frame)

\* FUTEX_WAIT whose word still has the expected value.
FutexWait(p) ==
    /\ Calling(p, "futex")
    /\ \E private \in BOOLEAN, ticks \in 0 .. MaxTicks :
         LET key == FutexKey(p, private)
         IN k' = FutexSleep(AddFutexWaiter(k, p, key), p, key, ticks)

\* Mutant of ResumeFutex: a wait that a signal ends leaves its tag.
ResumeFutexKeepsTag(p) ==
    /\ Resuming(p, "futex")
    /\ k' = Return([k EXCEPT !.InterruptedBySignal[p] = FALSE], p)

ResumeFutex(p) ==
    /\ Resuming(p, "futex")
    /\ LET f == k.Call[p]
           removed == RemoveFutexWaiter(k, p, f.key)
       IN k' = CASE k.InterruptedBySignal[p] ->
                      Return([removed EXCEPT !.InterruptedBySignal[p] = FALSE], p)
                 [] ~k.InterruptedBySignal[p]
                    /\ ~IsProcessWaitingOnFutex(k, p, f.key) -> Return(k, p)
                 [] ~k.InterruptedBySignal[p] /\ f.ticks = 1
                    /\ IsProcessWaitingOnFutex(k, p, f.key) -> Return(removed, p)
                 [] OTHER -> FutexSleep(k, p, f.key,
                                        IF f.ticks > 1 THEN f.ticks - 1 ELSE 0)

\* FUTEX_WAKE of one waiter; a call for n of them is n such steps in a row.
FutexWake(p) ==
    /\ Calling(p, "futex")
    /\ \E private \in BOOLEAN :
         LET key == FutexKey(p, private)
             waiters == {i \in DOMAIN k.FutexWaitQueue :
                           k.FutexWaitQueue[i].Key = key}
         IN /\ waiters # {}
            /\ k' = WakeProcess([k EXCEPT !.FutexWaitQueue = RemoveAt(@, Min(waiters))],
                                k.FutexWaitQueue[Min(waiters)].Id)
-----------------------------------------------------------------------------
(* Signals                                                                 *)

\* kill of one process; kill(-1) is such steps in a row, for every user
\* process but init and the caller.
Kill(p) ==
    /\ Calling(p, "kill")
    /\ \E target \in UserIds, sig \in SentSignals :
         /\ Live(k, target)
         /\ SignalsToSelf \/ target # p
         /\ k' = SignalProcess(k, target, sig)

Pause(p) ==
    /\ Calling(p, "pause")
    /\ k' = BlockProcess(k, p, [UserFrame EXCEPT !.call = "pause"])

ResumePause(p) ==
    /\ Resuming(p, "pause")
    /\ k' = Return(k, p)

Sigaction(p) ==
    /\ Calling(p, "sigaction")
    /\ \E sig \in ManagedSignals \ Unblockable, handler \in InstalledHandlers :
         k' = [k EXCEPT !.SignalActions[p][sig] = handler]

Deliverable(s, p) == s.PendingSignalMask[p] \ s.BlockedSignalMask[p]

CanDispatch(s, p) == ~s.HasSavedSignalState[p] /\ Deliverable(s, p) # {}

\* DispatchOnePendingUnblockedSignal: the lowest deliverable signal.
DispatchOne(s, p) ==
    LET sig == Min(Deliverable(s, p))
    IN SignalProcess(ClearPending(s, p, sig), p, sig)

\* "while (DispatchOnePendingUnblockedSignal(...))" at the end of a call of p.
DispatchAll(s, p) ==
    IF CanDispatch(s, p)
    THEN [s EXCEPT !.Loop = [op |-> "dispatch", index |-> p]] ELSE s

DispatchStep ==
    /\ k.Loop.op = "dispatch"
    /\ LET p == k.Loop.index
       IN k' = IF CanDispatch(k, p) THEN DispatchOne(k, p)
               ELSE [k EXCEPT !.Loop = NoLoop]

Sigprocmask(p) ==
    /\ Calling(p, "sigprocmask")
    /\ \E mask \in SUBSET (ManagedSignals \ Unblockable) :
         k' = DispatchAll([k EXCEPT !.BlockedSignalMask[p] = mask], p)

\* rt_sigreturn; only the return into an interrupted system call looks for
\* signals that became deliverable.
Sigreturn(p) ==
    /\ Calling(p, "sigreturn")
    /\ k.HasSavedSignalState[p]
    /\ LET restored == [k EXCEPT !.BlockedSignalMask[p] = k.SavedSignalMask[p],
                                 !.HasSavedSignalState[p] = FALSE]
       IN k' = IF k.SavedSignalWasSyscall[p]
               THEN DispatchAll(restored, p) ELSE restored

\* Mutant of Sigsuspend: it blocks without looking for pending signals.
SigsuspendBlocks(p) ==
    /\ Calling(p, "sigsuspend")
    /\ \E mask \in SUBSET (ManagedSignals \ Unblockable) :
         k' = BlockProcess([k EXCEPT !.BlockedSignalMask[p] = mask], p,
                           [UserFrame EXCEPT !.call = "sigsuspend",
                                             !.mask = k.BlockedSignalMask[p]])

Sigsuspend(p) ==
    /\ Calling(p, "sigsuspend")
    /\ \E mask \in SUBSET (ManagedSignals \ Unblockable) :
         LET masked == [k EXCEPT !.BlockedSignalMask[p] = mask]
             previous == k.BlockedSignalMask[p]
         IN k' = IF CanDispatch(masked, p)
                 THEN [DispatchOne(masked, p) EXCEPT !.BlockedSignalMask[p] = previous]
                 ELSE BlockProcess(masked, p, [UserFrame EXCEPT !.call = "sigsuspend",
                                                                !.mask = previous])

ResumeSigsuspend(p) ==
    /\ Resuming(p, "sigsuspend")
    /\ k' = Return([k EXCEPT !.BlockedSignalMask[p] = k.Call[p].mask], p)

Setitimer(p) ==
    /\ Calling(p, "setitimer")
    /\ \E value, interval \in 0 .. MaxTicks :
         k' = [k EXCEPT !.TimerRemaining[p] = value, !.TimerInterval[p] = interval]
-----------------------------------------------------------------------------
(* Reading the terminal and the mouse's event device                       *)

\* TTY::Read in canonical mode: what is there, or wait for it.
ReadTTYFrom(s, p) ==
    IF s.TTYReadable = 0
    THEN {BlockProcessForTTYInput(s, p, [UserFrame EXCEPT !.call = "tty"])}
    ELSE {Return([s EXCEPT !.TTYReadable = @ - n], p) : n \in 1 .. s.TTYReadable}

ReadTTY(p) ==
    /\ Calling(p, "tty")
    /\ k' \in ReadTTYFrom(k, p)

ResumeReadTTY(p) ==
    /\ Resuming(p, "tty")
    /\ k' \in ReadTTYFrom(k, p)

RemoveWaitingProcess(s, p) == [s EXCEPT !.EventWaiters = RemoveFirst(@, p)]

AddWaitingProcess(s, p) ==
    IF Contains(s.EventWaiters, p) THEN s
    ELSE [s EXCEPT !.EventWaiters = Append(@, p)]

\* EventDevice::ReadFileOperation: it polls, one tick at a time, and is also
\* woken by the device.
ReadEventFrom(s, p) ==
    IF s.EventsPending = 0
    THEN {SleepProcess(AddWaitingProcess(s, p), p, 1,
                       [UserFrame EXCEPT !.call = "event"])}
    ELSE {Return([RemoveWaitingProcess(s, p) EXCEPT !.EventsPending = @ - n], p) :
            n \in 1 .. s.EventsPending}

ReadEvent(p) ==
    /\ Calling(p, "event")
    /\ k' \in ReadEventFrom(k, p)

ResumeReadEvent(p) ==
    /\ Resuming(p, "event")
    /\ IF k.InterruptedBySignal[p]
       THEN k' = Return([RemoveWaitingProcess(k, p) EXCEPT
                           !.InterruptedBySignal[p] = FALSE], p)
       ELSE k' \in ReadEventFrom(k, p)
-----------------------------------------------------------------------------
(* Interrupts and exceptions                                               *)

\* An interrupt is taken in user mode or in the null process's idle loop.
Interruptible == InUserMode(k.cpu)

\* CaptureCurrentInterruptState looks for the running process, but only when
\* the interrupt came from user mode.
Capture(s) == IF s.cpu = NullProcess THEN s ELSE GetRunningProcess(s)

\* The interval timers LogicLayer::Tick has still to look at.
Armed(s, from) == {p \in from .. MaxProcesses - 1 :
                     Live(s, p) /\ s.TimerRemaining[p] > 0}

\* The rest of the timer interrupt: one expired sleeper is woken and the next
\* process scheduled (SCHEDULER_TICK_INTERVAL is 1).
FinishTick(s) ==
    LET ticked == SyncTick(s)
        expired == ExpiredTags(ticked)
    IN Schedule(IF expired = {} THEN ticked
                ELSE WakeProcess(ticked, ticked.SleepQueue[Min(expired)].Id))

TimerInterrupt ==
    /\ Interruptible
    /\ k' = IF Armed(k, 0) = {} THEN FinishTick(Capture(k))
            ELSE [Capture(k) EXCEPT !.Loop = [op |-> "timer", index |-> 0]]

\* One interval timer; it is rearmed after its signal was sent.
TickTimer(s, p) ==
    LET ticked == [s EXCEPT !.TimerRemaining[p] = @ - 1]
        signalled == SignalProcess(ticked, p, SIGALRM)
    IN IF s.TimerRemaining[p] > 1 THEN ticked
       ELSE [signalled EXCEPT !.TimerRemaining[p] = signalled.TimerInterval[p]]

TimerStep ==
    /\ k.Loop.op = "timer"
    /\ LET armed == Armed(k, k.Loop.index)
       IN k' = IF armed = {} THEN FinishTick([k EXCEPT !.Loop = NoLoop])
               ELSE [TickTimer(k, Min(armed)) EXCEPT !.Loop.index = Min(armed) + 1]

\* A line is typed: its bytes are committed and one waiting reader is unblocked.
KeyboardInterrupt ==
    /\ "tty" \in SystemCalls
    /\ Interruptible
    /\ \E bytes \in 1 .. MaxInput - k.TTYReadable :
         k' = NotifyTTYInputAvailable(
                [Capture(k) EXCEPT !.TTYReadable = @ + bytes])

\* A mouse packet: if nothing was queued, the waiting readers are unblocked,
\* and then the last of them is run at once.  A full queue loses its oldest
\* event.
MouseInterrupt ==
    /\ "event" \in SystemCalls
    /\ Interruptible
    /\ LET queued == [Capture(k) EXCEPT !.EventsPending =
                         IF @ < MaxInput THEN @ + 1 ELSE @]
       IN k' = IF k.EventsPending > 0 \/ k.EventWaiters = <<>> THEN queued
               ELSE [queued EXCEPT !.Loop = [op |-> "mouse", index |-> 0]]

MouseStep ==
    /\ k.Loop.op = "mouse"
    /\ k' = IF k.EventWaiters # <<>>
            THEN [UnblockProcess(k, Head(k.EventWaiters)) EXCEPT
                    !.EventWaiters = Tail(@),
                    !.Loop.index = Head(k.EventWaiters)]
            ELSE RunProcess([k EXCEPT !.Loop = NoLoop], k.Loop.index)

\* HandleException in user mode: the current process is killed.  Without one
\* the processor is halted for good.  Besides the programs' own faults, a
\* program whose address space is not loaded faults at once.
Exception(p) ==
    /\ p \in UserIds
    /\ InUserMode(p)
    /\ "exception" \in SystemCalls \/ k.PageTable = NULL
    /\ LET current == GetCurrentProcess(k)
       IN k' = IF current \in UserIds THEN Schedule(KillProcess(k, current))
               ELSE [k EXCEPT !.halted = TRUE]

\* "while (1) X86Halt();"
HaltLoop == k.halted /\ UNCHANGED k
-----------------------------------------------------------------------------
SystemCall(p) ==
    \/ Fork(p) \/ ForkFails(p) \/ CloneThread(p) \/ Vfork(p)
    \/ Execve(p) \/ ExitGroup(p)
    \/ WaitReturns(p) \/ WaitBlocks(p)
    \/ Nanosleep(p) \/ FutexWait(p) \/ FutexWake(p)
    \/ Kill(p) \/ Pause(p) \/ Setitimer(p)
    \/ Sigaction(p) \/ Sigprocmask(p) \/ Sigreturn(p) \/ Sigsuspend(p)
    \/ ReadTTY(p) \/ ReadEvent(p)
    \/ RejectedSystemCall(p)

\* The kernel goes on with what it was doing; interrupts are disabled.
KernelStep ==
    \/ \E p \in UserIds :
         \/ ResumeVfork(p) \/ ResumeWait(p) \/ ResumeNanosleep(p)
         \/ ResumeFutex(p) \/ ResumePause(p) \/ ResumeSigsuspend(p)
         \/ ResumeReadTTY(p) \/ ResumeReadEvent(p)
    \/ DispatchStep
    \/ TimerStep
    \/ MouseStep

Next ==
    \/ \E p \in UserIds : SystemCall(p) \/ Exception(p)
    \/ KernelStep
    \/ TimerInterrupt \/ KeyboardInterrupt \/ MouseInterrupt
    \/ HaltLoop

\* The kernel's own code runs on.  The timer is periodic and its interrupt stays
\* pending while interrupts are disabled, so it is taken whenever they are
\* enabled again and again.
Spec == Init /\ [][Next]_vars /\ WF_vars(KernelStep) /\ SF_vars(TimerInterrupt)
-----------------------------------------------------------------------------
(* Properties                                                              *)

\* The kernel state is a record of its type.
TypeOK == k \in KernelState

\* The scheduler's queue and the process table agree: a process is in the
\* ready queue, and once, exactly when its Status is READY or RUNNING.  Every
\* function that blocks, wakes, creates or kills a process writes both.
QueueMatchesStatus ==
    /\ \A i, j \in 1 .. Len(k.ReadyQueue) :
         k.ReadyQueue[i] = k.ReadyQueue[j] => i = j
    /\ \A p \in ProcessIds :
         Contains(k.ReadyQueue, p) <=> k.Status[p] \in {"READY", "RUNNING"}

\* What the processor executes is the process the kernel believes is running:
\* exactly that one is RUNNING, and ProcessManager::CurrentProcessId names it.
\* GetRunningProcess, which every system call and interrupt relies on, never
\* finds another process, and no blocked or terminated process executes.
OneRunning ==
    /\ \A p \in ProcessIds : k.Status[p] = "RUNNING" =>
         p = k.cpu /\ p = k.CurrentProcessId
    /\ ~k.halted => k.Status[k.cpu] = "RUNNING"

\* Every live user process has an address space that exists, every address
\* space is used by a live process, and the page table in CR3 is that of the
\* process on the processor: KillProcess, ChangeProcessExecution and
\* CopyProcess neither free a space in use nor leak one.
AddressSpacesOwned ==
    /\ \A p \in UserIds : Live(k, p) => k.AddressSpace[p] \in k.Allocated
    /\ \A space \in k.Allocated :
         \E p \in UserIds : Live(k, p) /\ k.AddressSpace[p] = space
    /\ k.PageTable = k.AddressSpace[k.cpu]

\* "isolated user address spaces": of two processes in one address space, one
\* is blocked in vfork, so that only the other can use it.
Isolation ==
    \A p, q \in UserIds :
        Live(k, p) /\ Live(k, q) /\ p # q
        /\ k.AddressSpace[p] = k.AddressSpace[q] =>
            \E r \in {p, q} : k.Status[r] = "BLOCKED" /\ k.Call[r].call = "vfork"

\* A process is in a wait queue only while it is BLOCKED, and once: a wake-up
\* takes it out.  (LogicLayer::Tick wakes the first expired sleeper only; a
\* stale tag in front would keep everybody behind it asleep.)
WaitersBlocked ==
    /\ \A i, j \in DOMAIN k.SleepQueue :
         k.SleepQueue[i].Id = k.SleepQueue[j].Id => i = j
    /\ \A i \in DOMAIN k.SleepQueue :
         k.Status[k.SleepQueue[i].Id] = "BLOCKED"
    /\ \A i, j \in DOMAIN k.TTYInputWaitQueue :
         k.TTYInputWaitQueue[i] = k.TTYInputWaitQueue[j] => i = j
    /\ \A i \in DOMAIN k.TTYInputWaitQueue :
         k.Status[k.TTYInputWaitQueue[i]] = "BLOCKED"

\* No process is blocked for ever: somebody is still going to do what it waits
\* for.  A sleeper has its tag; wait4 a live child that will report to it (no
\* exit came in between); vfork a live child that knows its parent; a futex
\* waiter its tag; a terminal reader its place in the queue.
Wakeable(p) ==
    LET asleep == \E i \in DOMAIN k.SleepQueue : k.SleepQueue[i].Id = p
        f == k.Call[p]
    IN CASE f.call \in {"pause", "sigsuspend"} -> TRUE
         [] f.call \in {"nanosleep", "event"} -> asleep
         [] f.call = "tty" -> Contains(k.TTYInputWaitQueue, p)
         [] f.call = "futex" -> asleep \/ IsProcessWaitingOnFutex(k, p, f.key)
         [] f.call = "wait" ->
              k.WaitingForChild[p] /\ HasMatchingLiveChild(k, p, INVALID)
         [] f.call = "vfork" ->
              /\ k.VforkChildId[p] # INVALID
              /\ Live(k, k.VforkChildId[p])
              /\ k.VforkParentId[k.VforkChildId[p]] = p
         [] f.call = "user" -> FALSE

BlockedIsWakeable ==
    \A p \in ProcessIds : k.Status[p] = "BLOCKED" => Wakeable(p)

\* A tag in the futex queue, or an entry in the event device's list, belongs to
\* a process that is inside the call it stands for: a call that ends early, by
\* its timeout or by a signal, takes its entry with it.  (True as long as no
\* waiter is killed: KillProcess leaves both alone.)
NoStaleWaiters ==
    /\ \A i \in DOMAIN k.FutexWaitQueue :
         LET f == k.Call[k.FutexWaitQueue[i].Id]
         IN f.call = "futex" /\ f.key = k.FutexWaitQueue[i].Key
    /\ \A i \in DOMAIN k.EventWaiters : k.Call[k.EventWaiters[i]].call = "event"

\* InterruptedBySignal does not outlive the call that was interrupted, where
\* the next one would take it for its own interruption and fail with EINTR.
\* (nanosleep, futex and event reads reset it; pause, wait4, rt_sigsuspend and
\* terminal reads do not.)
NoSpuriousInterrupt ==
    \A p \in ProcessIds :
        k.InterruptedBySignal[p] =>
            k.Call[p].call # "user" /\ k.HasSavedSignalState[p]

\* rt_sigsuspend installs its mask and looks for signals that the mask lets
\* through before it blocks, with interrupts disabled: a process never waits in
\* it over a signal that could be delivered.
SuspendMissesNoSignal ==
    \A p \in ProcessIds :
        k.Status[p] = "BLOCKED" /\ k.Call[p].call = "sigsuspend" =>
            ~CanDispatch(k, p)

\* Round robin: a READY process gets the processor (or is stopped or killed).
ReadyGetsProcessor ==
    \A p \in ProcessIds : k.Status[p] = "READY" ~> k.Status[p] # "READY"

\* A process that sleeps is woken, although only one sleeper is per tick.
SleeperWakes ==
    \A p \in ProcessIds :
        (\E i \in DOMAIN k.SleepQueue : k.SleepQueue[i].Id = p)
            ~> ~(\E i \in DOMAIN k.SleepQueue : k.SleepQueue[i].Id = p)
=============================================================================
