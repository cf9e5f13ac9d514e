------------------------------- MODULE Sched -------------------------------
(***************************************************************************)
(* The single-hart scheduler of the kernel: the run queue and context      *)
(* switch (sched.c), resource waits (wait.c), the life of a thread control *)
(* block from publication to reclamation (thread.c), the user trap-return  *)
(* path (trap.c, trap_entry.S, user.c) and the idle loop of the boot       *)
(* thread.                                                                 *)
(*                                                                         *)
(* One step is one section that no interrupt can split: code between       *)
(* local_irq_save and local_irq_restore, or one instruction boundary where *)
(* an interrupt may be taken.  pc[t] is the place where thread t is, or    *)
(* will resume:                                                            *)
(*   "boot"  published, or switched to and in thread_bootstrap, IRQs on    *)
(*   "run"   kernel code with IRQs on: a worker, or a blocking syscall     *)
(*   "wait"  between wait_queue_prepare_locked and the last finish, off    *)
(*   "user"  U-mode                                                        *)
(*   "stop"  in the loop of thread_stop_process, IRQs off                  *)
(*   "ret"   U-origin trap after its handler: bottom halves, then return   *)
(*   "exit"  marked ZOMBIE, IRQs on, about to call schedule()              *)
(* and for the boot (idle) thread                                          *)
(*   "shell" shell commands, "rollback" a failed launch in one of them,    *)
(*   "reap"/"free" thread_reap_zombies, "check" the IRQ-off test of the    *)
(*   idle loop, "wfi" the WFI in it, "sched" about to call schedule().     *)
(*                                                                         *)
(* A definition X_Defect, placed before X, is X with a plausible defect.   *)
(* No specification uses it; it shows which property would notice.         *)
(***************************************************************************)
EXTENDS Naturals, Sequences

CONSTANTS Task,    \* memory slots that can hold a worker's struct thread
          Idle,    \* boot_idle_thread
          Queue,   \* wait queues (one per resource)
          None     \* null pointer

ASSUME SchedAssumption == Idle \notin Task /\ None \notin Task

Thread == Task \cup {Idle}

VARIABLES
    state,        \* enum thread_state, or "FREE" when the slot is not allocated
    kind,         \* enum thread_kind
    pc,           \* program point, see above
    current,      \* tp
    runq,         \* run_head .. run_tail
    need_resched,
    waitq,        \* queue -> its registrations, in order
    wait_entries, \* task -> queues it is registered on
    zombies,      \* zombie_head, linked by znext
    all_threads,
    reaping,      \* z of thread_reap_zombies, between the pop and the kfree
    reapFor       \* caller of the reaper: "launch", "until" or "forever"

vars == <<state, kind, pc, current, runq, need_resched, waitq, wait_entries,
          zombies, all_threads, reaping, reapFor>>

TaskStates == {"FREE", "RUNNING", "RUNNABLE", "WAITING", "ZOMBIE"}
Kinds == {"KERNEL", "USER"}
TaskPoints == {"boot", "run", "wait", "user", "stop", "ret", "exit"}
IdlePoints == {"shell", "rollback", "reap", "free", "check", "wfi", "sched"}

\* SIE of the running thread.  In U-mode an interrupt is a trap of its own.
IrqsOn == pc[current] \in {"boot", "run", "ret", "exit",
                           "shell", "rollback", "reap", "free", "sched"}

---------------------------------------------------------------------------
(* Singly linked lists: unlink the first node that is t.                   *)
IsFirst(s, i, t) == s[i] = t /\ \A j \in 1..(i - 1) : s[j] # t

Without(s, t) ==
    IF \E i \in 1..Len(s) : s[i] = t
    THEN LET k == CHOOSE i \in 1..Len(s) : IsFirst(s, i, t)
         IN  [j \in 1..(Len(s) - 1) |-> IF j < k THEN s[j] ELSE s[j + 1]]
    ELSE s

InSeq(t, s) == \E i \in 1..Len(s) : s[i] = t

---------------------------------------------------------------------------
(* schedule().  st is the value of state when it is called.                *)

\* The previous thread goes to the head of the run queue.
SwitchTo_ToHead(st, next, rest) ==
    LET old == IF st[current] = "RUNNING" THEN "RUNNABLE" ELSE st[current]
    IN  /\ state' = [st EXCEPT ![current] = old, ![next] = "RUNNING"]
        /\ runq' = IF old = "RUNNABLE" /\ current # Idle
                   THEN <<current>> \o rest
                   ELSE rest
        /\ current' = next

\* The switch from current to next, with rest left on the run queue.
SwitchTo(st, next, rest) ==
    LET old == IF st[current] = "RUNNING" THEN "RUNNABLE" ELSE st[current]
    IN  /\ state' = IF next = current
                    THEN [st EXCEPT ![current] = "RUNNING"]
                    ELSE [st EXCEPT ![current] = old, ![next] = "RUNNING"]
        /\ runq' = IF next # current /\ old = "RUNNABLE" /\ current # Idle
                   THEN Append(rest, current)
                   ELSE rest
        /\ current' = next

\* The first RUNNABLE entry of the run queue; the entries before it are
\* popped and dropped.
IsNext(st, i) == /\ st[runq[i]] = "RUNNABLE"
                 /\ \A j \in 1..(i - 1) : st[runq[j]] # "RUNNABLE"

schedule(st) ==
    /\ need_resched' = FALSE
    /\ \/ \E i \in 1..Len(runq) :
            /\ IsNext(st, i)
            /\ SwitchTo(st, runq[i], SubSeq(runq, i + 1, Len(runq)))
       \/ /\ \A i \in 1..Len(runq) : st[runq[i]] # "RUNNABLE"
          /\ IF current = Idle
             THEN state' = st /\ runq' = <<>> /\ UNCHANGED current
             ELSE SwitchTo(st, Idle, <<>>)

\* The current thread moves to program point p.
Goto(p) == pc' = [pc EXCEPT ![current] = p]

At(p) == pc[current] = p

IsKernelWorker == current # Idle /\ kind[current] = "KERNEL"
IsUserTask == current # Idle /\ kind[current] = "USER"

---------------------------------------------------------------------------
(* Creation.  The new task is private (THREAD_NEW) until thread_publish.   *)
thread_publish(t, k) ==
    /\ state[t] = "FREE"
    /\ state' = [state EXCEPT ![t] = "RUNNABLE"]
    /\ kind' = [kind EXCEPT ![t] = k]
    /\ all_threads' = all_threads \cup {t}
    /\ runq' = Append(runq, t)

\* thread_create_kernel and exec_spawn, called from a shell command.
ShellCreate(t, k) ==
    /\ At("shell")
    /\ thread_publish(t, k)
    /\ pc' = [pc EXCEPT ![t] = "boot"]
    /\ UNCHANGED <<current, need_resched, waitq, wait_entries, zombies,
                   reaping, reapFor>>

\* SYS_thread_create and SYS_fork.
UserCreate(t) ==
    /\ At("user")
    /\ thread_publish(t, "USER")
    /\ pc' = [pc EXCEPT ![t] = "boot", ![current] = "ret"]
    /\ UNCHANGED <<current, need_resched, waitq, wait_entries, zombies,
                   reaping, reapFor>>

\* thread_bootstrap of the thread just switched to.  A user task enters
\* U-mode through trap_return without looking at need_resched.
thread_bootstrap ==
    /\ At("boot")
    /\ Goto(IF kind[current] = "USER" THEN "user" ELSE "run")
    /\ UNCHANGED <<state, kind, current, runq, need_resched, waitq,
                   wait_entries, zombies, all_threads, reaping, reapFor>>

---------------------------------------------------------------------------
(* Exit and stop.                                                          *)

\* The part thread_mark_current_zombie and thread_stop_tid share: unlink
\* every registration of t and push t on the zombie list.
Bury(t) ==
    /\ waitq' = [q \in Queue |->
                   IF q \in wait_entries[t] THEN Without(waitq[q], t)
                                            ELSE waitq[q]]
    /\ wait_entries' = [wait_entries EXCEPT ![t] = {}]
    /\ zombies' = <<t>> \o zombies

\* Nothing happens to a thread that is a zombie already.
thread_mark_current_zombie ==
    IF state[current] = "ZOMBIE"
    THEN UNCHANGED <<state, waitq, wait_entries, zombies>>
    ELSE /\ Bury(current)
         /\ state' = [state EXCEPT ![current] = "ZOMBIE"]

thread_stop_tid(t) ==
    /\ t \in all_threads \ {Idle}
    /\ IF t = current
       THEN thread_mark_current_zombie /\ UNCHANGED runq
       ELSE IF state[t] = "ZOMBIE"
       THEN UNCHANGED <<state, runq, waitq, wait_entries, zombies>>
       ELSE /\ Bury(t)
            /\ runq' = Without(runq, t)
            /\ state' = [state EXCEPT ![t] = "ZOMBIE"]

\* thread_exit of a kernel worker: the mark, then (IRQs on) schedule().
ThreadExit ==
    /\ At("run") /\ IsKernelWorker
    /\ thread_mark_current_zombie
    /\ Goto("exit")
    /\ UNCHANGED <<kind, current, runq, need_resched, all_threads, reaping,
                   reapFor>>

\* thread_exit with IRQs off inside a wait section: no interrupt separates
\* the mark from schedule().
ExitInWait ==
    /\ At("wait") /\ IsKernelWorker
    /\ Bury(current)
    /\ schedule([state EXCEPT ![current] = "ZOMBIE"])
    /\ Goto("exit")
    /\ UNCHANGED <<kind, all_threads, reaping, reapFor>>

\* SYS_thread_exit, or a fault in U-mode.
UserExit ==
    /\ At("user")
    /\ thread_mark_current_zombie
    /\ Goto("ret")
    /\ UNCHANGED <<kind, current, runq, need_resched, all_threads, reaping,
                   reapFor>>

\* One turn of the loop of thread_stop_process, for SYS_stop and SYS_exit.
\* Which user tasks form the group is left open.
UserStop(t) ==
    /\ At("user") \/ At("stop")
    /\ kind[t] = "USER"
    /\ thread_stop_tid(t)
    /\ Goto("stop")
    /\ UNCHANGED <<kind, current, need_resched, all_threads, reaping, reapFor>>

UserStopDone ==
    /\ At("stop")
    /\ Goto("ret")
    /\ UNCHANGED <<state, kind, current, runq, need_resched, waitq,
                   wait_entries, zombies, all_threads, reaping, reapFor>>

\* Rollback of a failed launch stops the tasks of the batch.
ShellStop(t) ==
    /\ At("shell") \/ At("rollback")
    /\ thread_stop_tid(t)
    /\ Goto("rollback")
    /\ UNCHANGED <<kind, current, need_resched, all_threads, reaping,
                   reapFor>>

\* The last schedule() of a zombie.
ExitSchedule ==
    /\ At("exit")
    /\ schedule(state)
    /\ UNCHANGED <<kind, pc, waitq, wait_entries, zombies, all_threads,
                   reaping, reapFor>>

---------------------------------------------------------------------------
(* Voluntary switches and resource waits of the running thread.            *)
thread_yield ==
    /\ At("run") /\ IsKernelWorker
    /\ schedule(state)
    /\ UNCHANGED <<kind, pc, waitq, wait_entries, zombies, all_threads,
                   reaping, reapFor>>

\* wait_queue_prepare_locked, from a thread that may sleep or is already in
\* a wait section.  A task uses one wait_entry per queue.
Prepare(q) ==
    /\ current # Idle /\ pc[current] \in {"run", "wait"}
    /\ state[current] \in {"RUNNING", "WAITING"}
    /\ q \notin wait_entries[current]
    /\ waitq' = [waitq EXCEPT ![q] = Append(@, current)]
    /\ wait_entries' = [wait_entries EXCEPT ![current] = @ \cup {q}]
    /\ state' = [state EXCEPT ![current] = "WAITING"]
    /\ Goto("wait")
    /\ UNCHANGED <<kind, current, runq, need_resched, zombies, all_threads,
                   reaping, reapFor>>

\* wait_queue_wait_locked.  A wakeup since prepare leaves the thread RUNNING
\* and the call returns at once, which is no step here.
WaitLocked ==
    /\ At("wait") /\ state[current] = "WAITING"
    /\ schedule(state)
    /\ UNCHANGED <<kind, pc, waitq, wait_entries, zombies, all_threads,
                   reaping, reapFor>>

\* wait_queue_finish_locked by its owner; after the last one IRQs are
\* restored.
FinishWait(q) ==
    LET left == wait_entries[current] \ {q}
    IN  /\ At("wait") /\ q \in wait_entries[current]
        /\ waitq' = [waitq EXCEPT ![q] = Without(@, current)]
        /\ wait_entries' = [wait_entries EXCEPT ![current] = left]
        /\ state' = [state EXCEPT ![current] =
                        IF @ = "WAITING" /\ left = {} THEN "RUNNING" ELSE @]
        /\ Goto(IF left = {} THEN "run" ELSE "wait")
        /\ UNCHANGED <<kind, current, runq, need_resched, zombies,
                       all_threads, reaping, reapFor>>

\* The task is queued even when it is the running one.
WakeWaiter_Current(t) ==
    /\ state[t] = "WAITING"
    /\ state' = [state EXCEPT ![t] = "RUNNABLE"]
    /\ runq' = Append(runq, t)
    /\ need_resched' = TRUE

\* wake_waiter_locked on a WAITING task.
WakeWaiter(t) ==
    /\ state[t] = "WAITING"
    /\ IF t = current
       THEN /\ state' = [state EXCEPT ![t] = "RUNNING"]
            /\ UNCHANGED <<runq, need_resched>>
       ELSE /\ state' = [state EXCEPT ![t] = "RUNNABLE"]
            /\ runq' = Append(runq, t)
            /\ need_resched' = TRUE

\* wait_queue_wake_one, from a bottom half on the running thread's stack or
\* from that thread itself: the first registration whose task is WAITING.
\* wait_queue_wake_all is a run of these steps.
WakeOne(q) ==
    /\ IrqsOn \/ At("wait")
    /\ \E i \in 1..Len(waitq[q]) :
         /\ \A j \in 1..(i - 1) : state[waitq[q][j]] # "WAITING"
         /\ WakeWaiter(waitq[q][i])
    /\ UNCHANGED <<kind, pc, current, waitq, wait_entries, zombies,
                   all_threads, reaping, reapFor>>

---------------------------------------------------------------------------
(* Traps from U-mode.                                                      *)

\* The tick does not ask for the CPU.
TimerTrap_NoRequest ==
    /\ At("user")
    /\ Goto("ret")
    /\ UNCHANGED <<state, kind, current, runq, need_resched, waitq,
                   wait_entries, zombies, all_threads, reaping, reapFor>>

\* Timer interrupt: ask for the CPU if somebody else is runnable.
TimerTrap ==
    /\ At("user")
    /\ need_resched' = (need_resched \/ runq # <<>>)
    /\ Goto("ret")
    /\ UNCHANGED <<state, kind, current, runq, waitq, wait_entries, zombies,
                   all_threads, reaping, reapFor>>

\* External interrupt, or an ecall that touches none of this state.
OtherTrap ==
    /\ At("user")
    /\ Goto("ret")
    /\ UNCHANGED <<state, kind, current, runq, need_resched, waitq,
                   wait_entries, zombies, all_threads, reaping, reapFor>>

\* SYS_uart_read and SYS_uart_write run with IRQs on and may sleep.
BlockingEcall ==
    /\ At("user")
    /\ Goto("run")
    /\ UNCHANGED <<state, kind, current, runq, need_resched, waitq,
                   wait_entries, zombies, all_threads, reaping, reapFor>>

BlockingEcallDone ==
    /\ At("run") /\ IsUserTask
    /\ Goto("ret")
    /\ UNCHANGED <<state, kind, current, runq, need_resched, waitq,
                   wait_entries, zombies, all_threads, reaping, reapFor>>

\* user_has_exited: never restore the context of a zombie.
TrapExited ==
    /\ At("ret") /\ state[current] = "ZOMBIE"
    /\ Goto("exit")
    /\ UNCHANGED <<state, kind, current, runq, need_resched, waitq,
                   wait_entries, zombies, all_threads, reaping, reapFor>>

\* thread_consume_resched_request, then trap_return or schedule().
TrapResume ==
    /\ At("ret") /\ state[current] # "ZOMBIE"
    /\ Goto("user")
    /\ IF need_resched
       THEN schedule(state)
       ELSE UNCHANGED <<state, current, runq, need_resched>>
    /\ UNCHANGED <<kind, waitq, wait_entries, zombies, all_threads, reaping,
                   reapFor>>

---------------------------------------------------------------------------
(* The boot thread: shell, reaper, idle loop.                              *)

\* Entry of thread_run_until_idle ("until") or thread_enter_idle
\* ("forever"), or the reaping that ends a failed launch ("launch").
EnterReaper(caller) ==
    /\ At("shell") \/ (caller = "launch" /\ At("rollback"))
    /\ reapFor' = caller
    /\ Goto("reap")
    /\ UNCHANGED <<state, kind, current, runq, need_resched, waitq,
                   wait_entries, zombies, all_threads, reaping>>

\* The IRQ-off head of thread_reap_zombies' loop.
ReapPop ==
    /\ At("reap")
    /\ IF zombies # <<>> /\ Head(zombies) # current
       THEN /\ reaping' = Head(zombies)
            /\ zombies' = Tail(zombies)
            /\ Goto("free")
       ELSE /\ Goto(IF reapFor = "launch" THEN "shell" ELSE "check")
            /\ UNCHANGED <<reaping, zombies>>
    /\ UNCHANGED <<state, kind, current, runq, need_resched, waitq,
                   wait_entries, all_threads, reapFor>>

\* thread_list_remove and the kfrees of stacks and TCB.
ReapFree ==
    /\ At("free")
    /\ all_threads' = all_threads \ {reaping}
    /\ state' = [state EXCEPT ![reaping] = "FREE"]
    /\ kind' = [kind EXCEPT ![reaping] = "KERNEL"]
    /\ pc' = [pc EXCEPT ![reaping] = "boot", ![current] = "reap"]
    /\ reaping' = None
    /\ UNCHANGED <<current, runq, need_resched, waitq, wait_entries, zombies,
                   reapFor>>

thread_has_live_workers ==
    \E t \in all_threads : t # Idle /\ state[t] # "ZOMBIE"

\* An empty run queue is taken for the end of all work.
IdleCheck_RunqOnly ==
    /\ At("check")
    /\ Goto(IF runq # <<>> THEN "sched"
            ELSE IF reapFor = "until" THEN "shell" ELSE "wfi")
    /\ UNCHANGED <<state, kind, current, runq, need_resched, waitq,
                   wait_entries, zombies, all_threads, reaping, reapFor>>

\* The IRQ-off test: return to the shell, sleep in WFI, or go on.
IdleCheck ==
    /\ At("check")
    /\ Goto(IF runq # <<>> THEN "sched"
            ELSE IF reapFor = "until" /\ ~thread_has_live_workers
                 THEN "shell"
                 ELSE "wfi")
    /\ UNCHANGED <<state, kind, current, runq, need_resched, waitq,
                   wait_entries, zombies, all_threads, reaping, reapFor>>

\* A pending interrupt source ends WFI; then IRQs are enabled.
WfiEnds ==
    /\ At("wfi")
    /\ Goto("sched")
    /\ UNCHANGED <<state, kind, current, runq, need_resched, waitq,
                   wait_entries, zombies, all_threads, reaping, reapFor>>

\* The loop goes back to its test, not to the reaper.
IdleSchedule_NoReap ==
    /\ At("sched")
    /\ schedule(state)
    /\ Goto("check")
    /\ UNCHANGED <<kind, waitq, wait_entries, zombies, all_threads, reaping,
                   reapFor>>

IdleSchedule ==
    /\ At("sched")
    /\ schedule(state)
    /\ Goto("reap")
    /\ UNCHANGED <<kind, waitq, wait_entries, zombies, all_threads, reaping,
                   reapFor>>

---------------------------------------------------------------------------
\* After thread_system_bootstrap_init.
Init ==
    /\ state = [t \in Thread |-> IF t = Idle THEN "RUNNING" ELSE "FREE"]
    /\ kind = [t \in Task |-> "KERNEL"]
    /\ pc = [t \in Thread |-> IF t = Idle THEN "shell" ELSE "boot"]
    /\ current = Idle
    /\ runq = <<>>
    /\ need_resched = FALSE
    /\ waitq = [q \in Queue |-> <<>>]
    /\ wait_entries = [t \in Task |-> {}]
    /\ zombies = <<>>
    /\ all_threads = {Idle}
    /\ reaping = None
    /\ reapFor = "until"

\* Steps of the running thread, and of the traps and bottom halves on it.
Next ==
    \/ \E t \in Task, k \in Kinds : ShellCreate(t, k)
    \/ \E t \in Task : UserCreate(t) \/ UserStop(t) \/ ShellStop(t)
    \/ \E q \in Queue : Prepare(q) \/ FinishWait(q) \/ WakeOne(q)
    \/ \E c \in {"launch", "until", "forever"} : EnterReaper(c)
    \/ thread_bootstrap \/ ThreadExit \/ ExitInWait \/ UserExit
    \/ UserStopDone \/ ExitSchedule \/ thread_yield \/ WaitLocked
    \/ TimerTrap \/ OtherTrap \/ BlockingEcall \/ BlockingEcallDone
    \/ TrapExited \/ TrapResume
    \/ ReapPop \/ ReapFree \/ IdleCheck \/ WfiEnds \/ IdleSchedule

Spec == Init /\ [][Next]_vars

---------------------------------------------------------------------------
(* Safety.                                                                 *)

NoDup(s) == \A i, j \in 1..Len(s) : s[i] = s[j] => i = j

\* Every variable has its type.
TypeOK ==
    /\ state \in [Thread -> TaskStates]
    /\ kind \in [Task -> Kinds]
    /\ pc \in [Thread -> TaskPoints \cup IdlePoints]
    /\ current \in Thread
    /\ runq \in Seq(Task)
    /\ need_resched \in BOOLEAN
    /\ waitq \in [Queue -> Seq(Task)]
    /\ wait_entries \in [Task -> SUBSET Queue]
    /\ zombies \in Seq(Task)
    /\ all_threads \in SUBSET Thread
    /\ reaping \in Task \cup {None}
    /\ reapFor \in {"launch", "until", "forever"}

\* The run queue holds exactly the RUNNABLE workers, each once: what the
\* comment on sched_enqueue says of it, kept by yields, wakeups from several
\* queues, stops and preemption.
RunQueueExact ==
    /\ NoDup(runq)
    /\ \A t \in Task : InSeq(t, runq) <=> state[t] = "RUNNABLE"

\* The two lists a wait_entry is on agree: a task is linked in a resource's
\* queue, once, iff the resource is on its own registration list.  Only a
\* live task has registrations, and a WAITING one has some: no wait queue
\* keeps a node on the stack of a zombie or of a freed task, and nobody
\* sleeps where no wakeup can find it.
WaitLinksAgree ==
    /\ \A q \in Queue : NoDup(waitq[q])
    /\ \A t \in Task, q \in Queue :
         InSeq(t, waitq[q]) <=> q \in wait_entries[t]
    /\ \A t \in Task :
         /\ wait_entries[t] # {} => state[t] \in {"RUNNING", "RUNNABLE", "WAITING"}
         /\ state[t] = "WAITING" => wait_entries[t] # {}

\* A zombie is on the zombie list or in the reaper's hands, once: it is
\* freed, and freed once.  The global list names the allocated threads.
ZombieOnce ==
    /\ NoDup(zombies)
    /\ \A t \in Task : InSeq(t, zombies) => t # reaping
    /\ \A t \in Task : state[t] = "ZOMBIE" <=> (InSeq(t, zombies) \/ t = reaping)
    /\ all_threads = {Idle} \cup {t \in Task : state[t] # "FREE"}

\* Only the thread on the CPU is RUNNING, and that thread is RUNNING except
\* in its wait section or after it was marked dead.  A zombie is never in
\* U-mode and its memory is never freed under it.
OneRunning ==
    /\ \A t \in Thread : state[t] = "RUNNING" => t = current
    /\ \/ state[current] = "RUNNING" /\ pc[current] # "exit"
       \/ state[current] = "WAITING" /\ pc[current] = "wait"
       \/ state[current] = "ZOMBIE" /\ pc[current] \in {"stop", "ret", "exit"}

\* The boot thread is off the CPU only in the schedule() of its loop, and it
\* takes commands, sleeps or schedules only when every zombie is freed: the
\* shell gets the prompt back "after runnable work has finished and zombies
\* are freed".
ReapedBeforeIdle ==
    /\ current # Idle => pc[Idle] = "reap"
    /\ pc[Idle] \in {"shell", "check", "wfi", "sched"} =>
         zombies = <<>> /\ reaping = None

\* Where each thread can be: the boot thread in its own loop, holding a
\* zombie only between pop and kfree; a RUNNABLE task somewhere it can
\* resume; a WAITING one in its wait section.
ProgramPoints ==
    /\ pc[Idle] \in IdlePoints
    /\ state[Idle] \in {"RUNNING", "RUNNABLE"}
    /\ pc[Idle] = "free" <=> reaping # None
    /\ \A t \in Task :
         /\ pc[t] \in TaskPoints
         /\ state[t] = "RUNNABLE" => pc[t] \in {"boot", "run", "wait", "user"}
         /\ state[t] = "WAITING" => pc[t] = "wait"

\* The inductive invariant: the safety properties above hold together.
SchedInv ==
    /\ TypeOK
    /\ RunQueueExact
    /\ WaitLinksAgree
    /\ ZombieOnce
    /\ OneRunning
    /\ ReapedBeforeIdle
    /\ ProgramPoints

\* When thread_run_until_idle returns, no task is left in memory and no
\* wait queue has a registration.
ReturnsClean ==
    [][pc[Idle] = "check" /\ pc'[Idle] = "shell" =>
         /\ \A t \in Task : state[t] = "FREE"
         /\ \A q \in Queue : waitq[q] = <<>>]_vars

\* A dead thread never comes back: a zombie only becomes free memory, and
\* then it is neither the running thread nor on any list.
NoResurrection ==
    [][\A t \in Task : state[t] = "ZOMBIE" =>
         \/ state'[t] = "ZOMBIE"
         \/ state'[t] = "FREE" /\ t # current /\ ~InSeq(t, runq)]_vars

\* Round robin: a queued task is never overtaken.  While it stays on the
\* run queue no step moves it away from the head, and every switch to
\* another task moves it closer: the previous thread, a new task and a woken
\* one all queue behind it.
NeverOvertaken ==
    [][\A i \in 1..Len(runq), j \in 1..Len(runq') :
         runq[i] = runq'[j] =>
             /\ j <= i
             /\ current' \notin {current, Idle} => j < i]_vars

---------------------------------------------------------------------------
(* Liveness.  Fairness states what the code's scheduling gives: the boot   *)
(* thread and the trap path run to their next scheduling point, a launch   *)
(* command goes on to the idle loop, the periodic tick interrupts U-mode   *)
(* and WFI, and kernel workers are cooperative: one that keeps running     *)
(* keeps reaching a scheduling point.                                      *)
CpuRelease == thread_yield \/ ThreadExit \/ WaitLocked \/ ExitInWait

Fairness ==
    /\ WF_vars(ReapPop) /\ WF_vars(ReapFree) /\ WF_vars(IdleCheck)
    /\ WF_vars(WfiEnds) /\ WF_vars(IdleSchedule)
    /\ WF_vars(At("rollback") /\ EnterReaper("launch"))
    /\ SF_vars(EnterReaper("until"))
    /\ WF_vars(thread_bootstrap) /\ WF_vars(ExitSchedule)
    /\ WF_vars(UserStopDone) /\ WF_vars(TrapExited) /\ WF_vars(TrapResume)
    /\ SF_vars(TimerTrap)
    /\ SF_vars(CpuRelease)
    /\ WF_vars(BlockingEcallDone)
    /\ WF_vars(\E q \in Queue : FinishWait(q))

FairSpec == Spec /\ Fairness

\* A RUNNABLE task gets the CPU or is stopped.
RunnableRuns == \A t \in Task : state[t] = "RUNNABLE" ~> state[t] # "RUNNABLE"

\* If the boot thread keeps getting the CPU, every zombie is freed.
ZombieFreed ==
    []<>(current = Idle) => \A t \in Task : state[t] = "ZOMBIE" ~> state[t] = "FREE"
=============================================================================
