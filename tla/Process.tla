------------------------------ MODULE Process ------------------------------
(***************************************************************************)
(* User processes: creation and identity (thread.c), program loading       *)
(* (exec.c) and the system calls (syscall.c), with the memory they own and *)
(* the one image window they share.  Which task has the CPU is Sched's     *)
(* subject; here any live user task may make its next call.  A system call *)
(* runs with interrupts off and is one step, except that uart_read and     *)
(* uart_write may sleep at every byte.                                     *)
(*                                                                         *)
(* kmalloc may fail at any call.  A task is its TCB block; a kernel stack, *)
(* which only its task uses, is named after it; a buffer is the block it   *)
(* is in.                                                                  *)
(* A definition X_Defect, placed before X, is X with a plausible defect.   *)
(***************************************************************************)
EXTENDS Cpio, FiniteSets

CONSTANTS
  Task, Stack,         \* blocks for TCBs and for user stacks
  NULL,                \* what kmalloc returns when it fails
  Code,                \* the image window, as a buffer
  TID_MAX,             \* INT32_MAX
  EXEC_MAX_INSTANCES,
  USER_CODE_SIZE,
  Names, Archives      \* program names, and archives the machine may boot with

ASSUME ProcessAssumption ==
  /\ TID_MAX \in Nat /\ EXEC_MAX_INSTANCES \in Nat \ {0}
  /\ Task \cap Stack = {} /\ Code \notin Stack /\ NULL \notin Task \cup Stack

\* The sizes of an archive are numbers, and so is the window's.
ASSUME ArchiveAssumption ==
  HEADER \in Nat /\ USER_CODE_SIZE \in Nat /\ Archives \subseteq Archive

VARIABLES
  archive, program,    \* the initrd, and what it holds: both fixed at boot
  heap,                \* allocated TCBs and user stacks
  kstacks,             \* allocated kernel stacks
  state, tid, tgid, stack,  \* of each TCB; NONE is not on all_threads
  image,               \* ghost: the archive entry the task runs, 0 none
  op,                  \* the blocking call a task is in
  next_tid,
  window,              \* the archive entry copied to USER_CODE_BASE, 0 none
  pc, made, left,      \* boot thread: prompt, spawn or run; exec_spawn's progress
  access,              \* ghost: what the last step read or wrote for a task
  gone                 \* ghost: process ids that were stopped

blocks == <<heap, kstacks>>
tasks == <<state, tid, tgid, stack, image>>
boot == <<pc, made, left>>
initrd == <<archive, program>>
vars == <<initrd, blocks, tasks, op, next_tid, window, boot, access, gone>>

NoOp == [kind |-> "none", buf |-> Code]
NoAccess == [by |-> Code, buf |-> Code, kind |-> "none"]

Listed == {t \in Task : state[t] # "NONE"}   \* all_threads
Alive == {t \in Task : state[t] = "ALIVE"}
Zombies == {t \in Task : state[t] = "ZOMBIE"}  \* the list at zombie_head
Group(g) == {t \in Alive : tgid[t] = g}      \* thread_user_group_size counts it

\* Only the caller's own process is asked.
thread_user_image_busy_Group(except) ==
  {t \in Alive \ {except} : tgid[t] = tgid[except]} # {}

\* A live user task other than the one that loads.
thread_user_image_busy(except) == Alive \ {except} # {}

\* thread_user_stack_contains, and for reading also the image window.
user_range_ok(t, b, kind) ==
  \/ \E u \in Group(tgid[t]) : stack[u] = b
  \/ kind = "write" /\ b = Code

-----------------------------------------------------------------------------
(* Loading an image, creating and ending tasks *)

Loadable_AnySize(a, name) ==
  LET k == cpio_find(a, name) IN IF k # 0 /\ a.entries[k].regular THEN k ELSE 0

\* The entry of the program with that name, 0 when there is none to load.
Loadable(a, name) ==
  LET k == cpio_find(a, name)
  IN IF /\ k # 0
        /\ a.entries[k].regular
        /\ a.entries[k].filesz # 0 /\ a.entries[k].filesz <= USER_CODE_SIZE
     THEN k ELSE 0

\* The entry that is copied for a task (the boot thread: Code), 0 when refused.
exec_load_image(name, except) ==
  IF thread_user_image_busy(except) THEN 0 ELSE program[name]

\* A task or NULL, what is allocated now, and the next id.
Outcome(t, h, ks, n) == [task |-> t, heap |-> h, kstacks |-> ks, next_tid |-> n]

thread_alloc_KeepTask(h, t, k) ==
  IF next_tid > TID_MAX THEN Outcome(NULL, h, kstacks, next_tid)
  ELSE IF t = NULL THEN Outcome(NULL, h, kstacks, next_tid + 1)
  ELSE IF ~k THEN Outcome(NULL, h \cup {t}, kstacks, next_tid + 1)
  ELSE Outcome(t, h \cup {t}, kstacks \cup {t}, next_tid + 1)

\* thread_alloc with h allocated, when kmalloc gives t for the TCB and, if k, a
\* kernel stack; without one kfree(task).  The id is not given back.
thread_alloc(h, t, k) ==
  IF next_tid > TID_MAX THEN Outcome(NULL, h, kstacks, next_tid)
  ELSE IF t = NULL THEN Outcome(NULL, h, kstacks, next_tid + 1)
  ELSE IF ~k THEN Outcome(NULL, (h \cup {t}) \ {t}, kstacks, next_tid + 1)
  ELSE Outcome(t, h \cup {t}, kstacks \cup {t}, next_tid + 1)

\* What spawn, fork and thread creation have in common: a stack s is allocated,
\* then a task; without a task, kfree(stack).
NewTask(s, t, k) ==
  LET m == thread_alloc(heap \cup {s}, t, k)
  IN IF s = NULL THEN Outcome(NULL, heap, kstacks, next_tid)
     ELSE IF m.task = NULL THEN Outcome(NULL, m.heap \ {s}, m.kstacks, m.next_tid)
     ELSE m

\* The ways in which that fails.
Failures ==
  {m \in {NewTask(s, t, k) : s \in (Stack \ heap) \cup {NULL},
                             t \in (Task \ heap) \cup {NULL}, k \in BOOLEAN} :
     m.task = NULL}

\* The new task is filled in and published.  A group of 0 is a new process.
Create(t, s, group, runs) ==
  LET m == NewTask(s, t, TRUE) IN
  /\ t \in Task \ heap /\ s \in Stack \ heap /\ m.task = t
  /\ heap' = m.heap /\ kstacks' = m.kstacks /\ next_tid' = m.next_tid
  /\ state' = [state EXCEPT ![t] = "ALIVE"]
  /\ tid' = [tid EXCEPT ![t] = next_tid]
  /\ tgid' = [tgid EXCEPT ![t] = IF group = 0 THEN next_tid ELSE group]
  /\ stack' = [stack EXCEPT ![t] = s]
  /\ image' = [image EXCEPT ![t] = runs]

\* thread_mark_current_zombie and thread_stop_tid.
Kill(S) ==
  /\ state' = [t \in Task |-> IF t \in S /\ state[t] = "ALIVE" THEN "ZOMBIE" ELSE state[t]]
  /\ op' = [t \in Task |-> IF t \in S THEN NoOp ELSE op[t]]
  /\ UNCHANGED <<tid, tgid, stack, image>>

\* thread_reap_zombies, with the blocks h and ks allocated.
Free(S, h, ks) ==
  /\ state' = [t \in Task |-> IF t \in S THEN "NONE" ELSE state[t]]
  /\ heap' = h \ (S \cup {stack[t] : t \in S})
  /\ kstacks' = ks \ S
  /\ tid' = [t \in Task |-> IF t \in S THEN 0 ELSE tid[t]]
  /\ tgid' = [t \in Task |-> IF t \in S THEN 0 ELSE tgid[t]]
  /\ stack' = [t \in Task |-> IF t \in S THEN Code ELSE stack[t]]
  /\ image' = [t \in Task |-> IF t \in S THEN 0 ELSE image[t]]

-----------------------------------------------------------------------------
(* The boot thread: exec_spawn and thread_run_until_idle *)

\* At the prompt; a load that is refused leaves everything as it is.
SpawnStart(name, n) ==
  LET k == exec_load_image(name, Code) IN
  /\ pc = "prompt"
  /\ IF k = 0 THEN UNCHANGED <<window, boot>>
     ELSE window' = k /\ pc' = "spawn" /\ made' = {} /\ left' = n
  /\ access' = NoAccess
  /\ UNCHANGED <<initrd, blocks, tasks, op, next_tid, gone>>

SpawnOne(t, s) ==
  /\ pc = "spawn"
  /\ Create(t, s, 0, window)
  /\ left' = left - 1
  /\ IF left = 1 THEN pc' = "run" /\ made' = {} ELSE pc' = pc /\ made' = made \cup {t}
  /\ UNCHANGED <<initrd, op, window, access, gone>>

\* No further task: the ones made so far are stopped and reaped.
SpawnFails ==
  /\ pc = "spawn"
  /\ \E m \in Failures : Free(made \cup Zombies, m.heap, m.kstacks) /\ next_tid' = m.next_tid
  /\ pc' = "prompt" /\ made' = {} /\ left' = 0
  /\ UNCHANGED <<initrd, op, window, access, gone>>

Reap ==
  /\ pc = "run" /\ Zombies # {}
  /\ Free(Zombies, heap, kstacks)
  /\ access' = NoAccess
  /\ UNCHANGED <<initrd, op, next_tid, window, boot, gone>>

BackToPrompt ==
  /\ pc = "run" /\ Listed = {}
  /\ pc' = "prompt" /\ made' = {} /\ left' = 0
  /\ access' = NoAccess
  /\ UNCHANGED <<initrd, blocks, tasks, op, next_tid, window, gone>>

-----------------------------------------------------------------------------
(* System calls of task t *)

Calls(t) == pc = "run" /\ state[t] = "ALIVE" /\ op[t] = NoOp /\ access' = NoAccess

thread_create_user(t, u, s) ==
  /\ Calls(t)
  /\ Create(u, s, tgid[t], image[t])
  /\ UNCHANGED <<initrd, op, window, boot, gone>>

\* The stack is copied and its addresses moved; the child is a new process.
sys_fork(t, u, s) ==
  /\ Calls(t) /\ Group(tgid[t]) = {t}
  /\ Create(u, s, 0, image[t])
  /\ UNCHANGED <<initrd, op, window, boot, gone>>

CreateOrForkFails(t) ==
  /\ Calls(t)
  /\ \E m \in Failures : heap' = m.heap /\ kstacks' = m.kstacks /\ next_tid' = m.next_tid
  /\ UNCHANGED <<initrd, tasks, op, window, boot, gone>>

\* The path is read from the block b.
sys_exec(t, b, name) ==
  LET k == exec_load_image(name, t) IN
  /\ Calls(t) /\ Group(tgid[t]) = {t}
  /\ user_range_ok(t, b, "write")
  /\ k # 0 /\ window' = k
  /\ image' = [image EXCEPT ![t] = k]
  /\ UNCHANGED <<initrd, blocks, state, tid, tgid, stack, op, next_tid, boot, gone>>

\* SYS_thread_exit, or an exception in user mode.
thread_exit(t) ==
  /\ Calls(t)
  /\ Kill({t})
  /\ UNCHANGED <<initrd, blocks, next_tid, window, boot, gone>>

thread_stop_process_Leader(g) ==
  LET found == {u \in Listed : tid[u] = g}
  IN found # {} /\ Kill(found) /\ gone' = gone \cup {g}

\* Every listed task of the group, wherever its leader is.
thread_stop_process(g) ==
  LET found == {u \in Listed : tgid[u] = g}
  IN found # {} /\ Kill(found) /\ gone' = gone \cup {g}

\* SYS_stop, and SYS_exit for the caller's own group.
sys_stop(t, g) ==
  /\ Calls(t)
  /\ thread_stop_process(g)
  /\ UNCHANGED <<initrd, blocks, next_tid, window, boot>>

\* uart_read ("read": stores into the buffer) and uart_write ("write").
UartStart(t, kind, b) ==
  /\ Calls(t)
  /\ user_range_ok(t, b, kind)
  /\ op' = [op EXCEPT ![t] = [kind |-> kind, buf |-> b]]
  /\ UNCHANGED <<initrd, blocks, tasks, next_tid, window, boot, gone>>

UartByte_NoRecheck(t) ==
  /\ pc = "run" /\ op[t] # NoOp
  /\ access' = [by |-> t, buf |-> op[t].buf, kind |-> op[t].kind]
  /\ \E last \in BOOLEAN : op' = [op EXCEPT ![t] = IF last THEN NoOp ELSE @]
  /\ UNCHANGED <<initrd, blocks, tasks, next_tid, window, boot, gone>>

\* A byte arrived, or the previous one was accepted: the buffer is checked
\* again and used, or the call ends early.  It may have been the last byte.
UartByte(t) ==
  /\ pc = "run" /\ op[t] # NoOp
  /\ LET ok == user_range_ok(t, op[t].buf, op[t].kind)
     IN /\ access' = IF ok THEN [by |-> t, buf |-> op[t].buf, kind |-> op[t].kind] ELSE NoAccess
        /\ \E last \in BOOLEAN : op' = [op EXCEPT ![t] = IF last \/ ~ok THEN NoOp ELSE @]
  /\ UNCHANGED <<initrd, blocks, tasks, next_tid, window, boot, gone>>

-----------------------------------------------------------------------------
Init ==
  /\ archive \in Archives
  /\ program = [name \in Names |-> Loadable(archive, name)]
  /\ heap = {} /\ kstacks = {}
  /\ state = [t \in Task |-> "NONE"]
  /\ tid = [t \in Task |-> 0] /\ tgid = [t \in Task |-> 0]
  /\ stack = [t \in Task |-> Code]
  /\ image = [t \in Task |-> 0]
  /\ op = [t \in Task |-> NoOp]
  /\ next_tid = 1 /\ window = 0
  /\ pc = "prompt" /\ made = {} /\ left = 0
  /\ access = NoAccess /\ gone = {}

Next ==
  \/ \E name \in Names, n \in 1 .. EXEC_MAX_INSTANCES : SpawnStart(name, n)
  \/ \E t \in Task, s \in Stack : SpawnOne(t, s)
  \/ SpawnFails \/ Reap \/ BackToPrompt
  \/ \E t \in Task :
       \/ CreateOrForkFails(t) \/ thread_exit(t) \/ UartByte(t)
       \/ \E u \in Task, s \in Stack : thread_create_user(t, u, s) \/ sys_fork(t, u, s)
       \/ \E b \in Stack \cup {Code}, name \in Names : sys_exec(t, b, name)
       \/ \E g \in 1 .. TID_MAX : sys_stop(t, g)
       \/ \E kind \in {"read", "write"}, b \in Stack \cup {Code} : UartStart(t, kind, b)

Spec == Init /\ [][Next]_vars

-----------------------------------------------------------------------------
(* Properties *)

\* Blocks, ids and calls have their types.
TypeOK ==
  /\ heap \subseteq Task \cup Stack /\ kstacks \subseteq Task
  /\ state \in [Task -> {"NONE", "ALIVE", "ZOMBIE"}]
  /\ tid \in [Task -> 0 .. TID_MAX] /\ tgid \in [Task -> 0 .. TID_MAX]
  /\ stack \in [Task -> Stack \cup {Code}]
  /\ DOMAIN image = Task
  /\ op \in [Task -> [kind : {"none", "read", "write"}, buf : Stack \cup {Code}]]
  /\ next_tid \in 1 .. TID_MAX + 1

\* Nothing leaks and nothing is owned twice: the allocated blocks are exactly
\* the TCBs on all_threads with one user and one kernel stack for each, after
\* any failure inside spawn, fork and thread creation, whichever allocation
\* it was, and any order of exits and reaping.
BlocksOwned ==
  /\ heap = Listed \cup {stack[t] : t \in Listed} /\ kstacks = Listed
  /\ \A t, u \in Listed : stack[t] = stack[u] => t = u

\* Every live task runs the image that is in the window: no load replaces the
\* code under another task, in its own process or in another.
OneImage == \A t \in Alive : image[t] = window

\* What was copied to the window is a file that lies whole inside the archive
\* and is no larger than the window, in a sound archive and in a damaged one.
ImageWhole ==
  window # 0 =>
    /\ archive.entries[window].filesz \in 1 .. USER_CODE_SIZE
    /\ Data(archive, window) + archive.entries[window].filesz <= archive.limit

\* The code a task runs is whole and is its own (exec_load_image, cpio_find).
ImageIntact == OneImage /\ ImageWhole

\* A stopped process stays down: all its tasks die, even when its leader has
\* left first, and its id comes back to no later task, also when the ids run
\* out.  A TID names one task.
GroupStaysDown ==
  /\ \A t \in Alive : tgid[t] \notin gone
  /\ \A t, u \in Listed : tid[t] = tid[u] => t = u

\* A blocking call touches only memory its process has at that moment: the
\* stack of a live member, whoever exited, was reaped or was created while the
\* caller slept; it writes nothing to the image window.
AccessOwned ==
  access # NoAccess =>
    \/ access.buf = Code /\ access.kind = "write"
    \/ /\ access.buf \in heap
       /\ \E u \in Alive : stack[u] = access.buf /\ tgid[u] = tgid[access.by]

\* What the properties rest on, inductive: issued ids lie below next_tid, only
\* live tasks are in a call, and the boot thread spawns into an empty system.
TaskInv ==
  /\ TypeOK /\ BlocksOwned /\ OneImage /\ GroupStaysDown
  /\ \A t \in Listed :
       /\ stack[t] \in Stack
       /\ tid[t] \in 1 .. next_tid - 1 /\ tgid[t] \in 1 .. next_tid - 1
  /\ gone \subseteq 1 .. next_tid - 1
  /\ \A t \in Task : op[t] # NoOp => state[t] = "ALIVE"

ProcInv ==
  /\ TaskInv /\ AccessOwned
  /\ pc # "run" =>
       /\ Listed = made /\ Alive = made /\ access = NoAccess
       /\ \A t \in Task : op[t] = NoOp
  /\ pc = "prompt" => made = {}
=============================================================================
