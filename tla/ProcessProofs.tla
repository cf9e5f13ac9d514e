--------------------------- MODULE ProcessProofs ---------------------------
(***************************************************************************)
(* The invariants of Process for any number of tasks, stacks, ids and      *)
(* programs.  ProcInv is shown inductive action by action; the actions     *)
(* that create, kill or free tasks share the lemmas Creation, Killing and  *)
(* Freeing.                                                                *)
(***************************************************************************)
EXTENDS Process, TLAPS

\* Whichever allocation fails, what was allocated before it is freed again; at
\* most an id is used up.
LEMMA FailureUndone ==
  ASSUME NEW m \in Failures, next_tid \in 1 .. TID_MAX + 1
  PROVE  m.heap = heap /\ m.kstacks = kstacks /\ m.next_tid \in next_tid .. TID_MAX + 1
<1>1. PICK s \in (Stack \ heap) \cup {NULL}, t \in (Task \ heap) \cup {NULL}, k \in BOOLEAN :
        m = NewTask(s, t, k) /\ m.task = NULL
  BY DEF Failures
<1> DEFINE a == thread_alloc(heap \cup {s}, t, k)
<1>2. CASE s = NULL
  BY <1>1, <1>2, ProcessAssumption DEF NewTask, Outcome
<1>3. CASE s # NULL
  <2>1. m = IF a.task = NULL THEN Outcome(NULL, a.heap \ {s}, a.kstacks, a.next_tid) ELSE a
    BY <1>1, <1>3, Zenon DEF NewTask
  <2>2. /\ a.task = NULL
        /\ m.heap = a.heap \ {s} /\ m.kstacks = a.kstacks /\ m.next_tid = a.next_tid
    <3> HIDE DEF a
    <3> QED BY <1>1, <2>1 DEF Outcome
  <2>3. CASE next_tid > TID_MAX \/ t = NULL
    BY <1>1, <1>3, <2>2, <2>3, ProcessAssumption DEF thread_alloc, Outcome
  <2>4. CASE ~(next_tid > TID_MAX) /\ t # NULL
    <3>1. ~k
      BY <2>2, <2>4 DEF thread_alloc, Outcome
    <3>2. a = Outcome(NULL, ((heap \cup {s}) \cup {t}) \ {t}, kstacks, next_tid + 1)
      BY <2>4, <3>1 DEF thread_alloc
    <3>3. s # t
      BY <1>3, <2>4, ProcessAssumption
    <3> QED BY <1>1, <1>3, <2>2, <2>4, <3>2, <3>3, ProcessAssumption DEF Outcome
  <2> QED BY <2>3, <2>4
<1> QED BY <1>2, <1>3

\* Creation takes all three blocks and an id.
LEMMA CreateTakes ==
  ASSUME NEW t \in Task, NEW s \in Stack, NEW group, NEW runs, Create(t, s, group, runs),
         next_tid \in 1 .. TID_MAX + 1
  PROVE  /\ next_tid <= TID_MAX /\ next_tid' = next_tid + 1
         /\ heap' = heap \cup {t, s} /\ kstacks' = kstacks \cup {t}
<1> DEFINE a == thread_alloc(heap \cup {s}, t, TRUE)
           m == NewTask(s, t, TRUE)
<1>1. s # NULL /\ t # NULL
  BY ProcessAssumption
<1>2. a = IF next_tid > TID_MAX THEN Outcome(NULL, heap \cup {s}, kstacks, next_tid)
          ELSE Outcome(t, (heap \cup {s}) \cup {t}, kstacks \cup {t}, next_tid + 1)
  BY <1>1, Zenon DEF thread_alloc
<1>3. m = IF a.task = NULL THEN Outcome(NULL, a.heap \ {s}, a.kstacks, a.next_tid) ELSE a
  BY <1>1, Zenon DEF NewTask
<1>4. m.task = t /\ heap' = m.heap /\ kstacks' = m.kstacks /\ next_tid' = m.next_tid
  BY Zenon DEF Create
<1> HIDE DEF a, m
<1>5. a.task # NULL
  BY <1>1, <1>3, <1>4 DEF Outcome
<1>6. m = a
  BY <1>3, <1>5, Zenon
<1>7. next_tid <= TID_MAX
  BY <1>2, <1>5, ProcessAssumption DEF Outcome
<1>8. a = Outcome(t, (heap \cup {s}) \cup {t}, kstacks \cup {t}, next_tid + 1)
  BY <1>2, <1>7, ProcessAssumption
<1> QED BY <1>4, <1>6, <1>7, <1>8 DEF Outcome

\* Publishing a task on fresh blocks with a fresh id keeps every fact about
\* tasks, if its group is not a stopped one and it runs the window's image.
LEMMA Creation ==
  ASSUME TaskInv, NEW t \in Task, NEW s \in Stack, NEW group, NEW runs,
         Create(t, s, group, runs),
         group = 0 \/ group \in (1 .. next_tid - 1) \ gone,
         runs = window, window' = window, gone' = gone, op' = op
  PROVE  TaskInv' /\ Listed' = Listed \cup {t} /\ Alive' = Alive \cup {t}
<1>0. /\ next_tid <= TID_MAX /\ next_tid' = next_tid + 1
      /\ heap' = heap \cup {t, s} /\ kstacks' = kstacks \cup {t}
  BY CreateTakes DEF TaskInv, TypeOK
<1>1. state[t] = "NONE" /\ t \notin Listed
  BY DEF TaskInv, TypeOK, BlocksOwned, Create, Listed
<1>2. Listed' = Listed \cup {t} /\ Alive' = Alive \cup {t}
  BY DEF TaskInv, TypeOK, Create, Listed, Alive
<1>3. \A u \in Listed : /\ u # t
                        /\ tid'[u] = tid[u] /\ tgid'[u] = tgid[u]
                        /\ stack'[u] = stack[u] /\ image'[u] = image[u]
  BY <1>1 DEF TaskInv, TypeOK, Create, Listed
<1>4. /\ tid'[t] = next_tid /\ stack'[t] = s /\ image'[t] = window
      /\ tgid'[t] \in (1 .. next_tid) \ gone
  BY <1>0, ProcessAssumption DEF TaskInv, TypeOK, Create
<1>5. TypeOK'
  <2>1. tgid' = [tgid EXCEPT ![t] = IF group = 0 THEN next_tid ELSE group]
        /\ (IF group = 0 THEN next_tid ELSE group) \in 0 .. TID_MAX
    BY <1>0, ProcessAssumption DEF TaskInv, TypeOK, Create
  <2>2. /\ state' = [state EXCEPT ![t] = "ALIVE"] /\ tid' = [tid EXCEPT ![t] = next_tid]
        /\ stack' = [stack EXCEPT ![t] = s] /\ image' = [image EXCEPT ![t] = runs]
    BY Zenon DEF Create
  <2> QED BY <1>0, <2>1, <2>2, ProcessAssumption DEF TaskInv, TypeOK
<1>6. BlocksOwned'
  <2>1. s \notin {stack[u] : u \in Listed}
    BY DEF TaskInv, BlocksOwned, Create
  <2>2. {stack'[u] : u \in Listed'} = {stack[u] : u \in Listed} \cup {s}
    BY <1>2, <1>3, <1>4
  <2> QED BY <1>0, <1>2, <1>3, <1>4, <2>1, <2>2 DEF TaskInv, BlocksOwned
<1>7. OneImage'
  BY <1>2, <1>3, <1>4 DEF TaskInv, OneImage, Listed, Alive
<1>8. GroupStaysDown'
  <2>1. \A u \in Listed : tid'[u] # tid'[t]
    BY <1>3, <1>4 DEF TaskInv, TypeOK
  <2> QED BY <1>2, <1>3, <1>4, <2>1 DEF TaskInv, GroupStaysDown, Listed, Alive
<1>9. \A u \in Listed' :
        /\ stack'[u] \in Stack
        /\ tid'[u] \in 1 .. next_tid' - 1 /\ tgid'[u] \in 1 .. next_tid' - 1
  BY <1>0, <1>2, <1>3, <1>4 DEF TaskInv, TypeOK
<1>10. gone' \subseteq 1 .. next_tid' - 1
  BY <1>0 DEF TaskInv, TypeOK
<1>11. \A u \in Task : op'[u] # NoOp => state'[u] = "ALIVE"
  BY DEF TaskInv, TypeOK, Create
<1> QED BY <1>2, <1>5, <1>6, <1>7, <1>8, <1>9, <1>10, <1>11 DEF TaskInv

\* Killing tasks keeps every fact about tasks, also when the groups that are
\* counted as stopped lose all their live members.
LEMMA Killing ==
  ASSUME TaskInv, NEW S, Kill(S), NEW G,
         gone' = gone \cup G, G \subseteq 1 .. next_tid - 1,
         \A t \in Alive : tgid[t] \in G => t \in S,
         UNCHANGED blocks, next_tid' = next_tid, window' = window
  PROVE  TaskInv'
<1>1. Listed' = Listed /\ Alive' = Alive \ S
  BY DEF TaskInv, TypeOK, Kill, Listed, Alive
<1>2. TypeOK'
  BY DEF TaskInv, TypeOK, Kill, NoOp, blocks
<1>3. BlocksOwned' /\ OneImage' /\ GroupStaysDown'
  BY <1>1 DEF TaskInv, BlocksOwned, OneImage, GroupStaysDown, Kill, blocks
<1>4. \A t \in Task : op'[t] # NoOp => state'[t] = "ALIVE"
  BY DEF TaskInv, TypeOK, Kill
<1> QED BY <1>1, <1>2, <1>3, <1>4 DEF TaskInv, Kill

\* Freeing tasks that are in no call keeps every fact about tasks.
LEMMA Freeing ==
  ASSUME TaskInv, NEW S, S \subseteq Listed, Free(S, heap, kstacks),
         \A t \in S : op[t] = NoOp,
         next_tid' \in next_tid .. TID_MAX + 1,
         op' = op, window' = window, gone' = gone
  PROVE  TaskInv' /\ Listed' = Listed \ S /\ Alive' = Alive \ S
<1>1. Listed' = Listed \ S /\ Alive' = Alive \ S
  BY DEF TaskInv, TypeOK, Free, Listed, Alive
<1>2. \A t \in Listed' : /\ t \in Listed /\ t \in Task /\ t \notin S
                         /\ tid'[t] = tid[t] /\ tgid'[t] = tgid[t]
                         /\ stack'[t] = stack[t] /\ image'[t] = image[t]
  BY <1>1 DEF Free, Listed
<1>3. TypeOK'
  BY ProcessAssumption DEF TaskInv, TypeOK, Free
<1>4. BlocksOwned'
  <2>1. \A t \in Listed : t \notin {stack[u] : u \in S} /\ stack[t] \notin S
    BY ProcessAssumption DEF TaskInv, Listed
  <2>2. {stack'[t] : t \in Listed'} = {stack[t] : t \in Listed} \ {stack[t] : t \in S}
    BY <1>1, <1>2 DEF TaskInv, BlocksOwned
  <2>3. heap' = Listed' \cup {stack'[t] : t \in Listed'}
    <3>1. heap' = (Listed \cup {stack[t] : t \in Listed}) \ (S \cup {stack[t] : t \in S})
      BY DEF TaskInv, BlocksOwned, Free
    <3>2. \A b \in {stack[t] : t \in Listed} : b \notin S
      BY <2>1
    <3> QED BY <1>1, <2>1, <2>2, <3>1, <3>2, Zenon
  <2>4. kstacks' = Listed'
    BY <1>1 DEF TaskInv, BlocksOwned, Free
  <2> QED BY <1>2, <2>3, <2>4, Zenon DEF TaskInv, BlocksOwned
<1>5. OneImage' /\ GroupStaysDown'
  BY <1>1, <1>2 DEF TaskInv, OneImage, GroupStaysDown, Listed, Alive
<1>6. \A t \in Listed' :
        /\ stack'[t] \in Stack
        /\ tid'[t] \in 1 .. next_tid' - 1 /\ tgid'[t] \in 1 .. next_tid' - 1
  BY <1>2, ProcessAssumption DEF TaskInv, TypeOK
<1>7. gone' \subseteq 1 .. next_tid' - 1
  BY ProcessAssumption DEF TaskInv, TypeOK
<1>8. \A t \in Task : op'[t] # NoOp => state'[t] = "ALIVE"
  BY DEF TaskInv, Free
<1> QED BY <1>1, <1>3, <1>4, <1>5, <1>6, <1>7, <1>8, Zenon DEF TaskInv

\* The boot state satisfies the invariant.
LEMMA InitInv == Init => ProcInv
BY ProcessAssumption DEF Init, ProcInv, TaskInv, TypeOK, BlocksOwned, OneImage,
   GroupStaysDown, AccessOwned, Listed, Alive, NoOp, NoAccess

\* The ids issued so far remain issued.
LEMMA IdsGrow ==
  ASSUME NEW m \in Int, NEW n \in Int, m <= n
  PROVE  1 .. m - 1 \subseteq 1 .. n - 1
OBVIOUS

\* While no step creates, kills or frees, only the window, the images and the
\* calls can change.
LEMMA QuietStep ==
  ASSUME TaskInv, UNCHANGED <<blocks, tasks, window, gone>>,
         next_tid' \in next_tid .. TID_MAX + 1,
         op' \in [Task -> [kind : {"none", "read", "write"}, buf : Stack \cup {Code}]],
         \A t \in Task : op'[t] # NoOp => state[t] = "ALIVE"
  PROVE  TaskInv' /\ Listed' = Listed /\ Alive' = Alive
<1>1. Listed' = Listed /\ Alive' = Alive
  BY DEF Listed, Alive, tasks
<1>2. TypeOK' /\ BlocksOwned' /\ OneImage' /\ GroupStaysDown'
  BY <1>1, ProcessAssumption
  DEF TaskInv, TypeOK, BlocksOwned, OneImage, GroupStaysDown, tasks, blocks
<1>3. \A t \in Listed' :
        /\ stack'[t] \in Stack
        /\ tid'[t] \in 1 .. next_tid' - 1 /\ tgid'[t] \in 1 .. next_tid' - 1
  BY <1>1, ProcessAssumption DEF TaskInv, TypeOK, tasks
<1>4. gone' \subseteq 1 .. next_tid' - 1
  <2>1. gone' = gone /\ gone \subseteq 1 .. next_tid - 1 /\ next_tid \in 1 .. TID_MAX + 1
    BY Zenon DEF TaskInv, TypeOK
  <2>2. next_tid \in Int /\ next_tid' \in Int /\ next_tid <= next_tid'
    BY <2>1, ProcessAssumption
  <2>3. 1 .. next_tid - 1 \subseteq 1 .. next_tid' - 1
    BY <2>2, IdsGrow, Zenon
  <2> QED BY <2>1, <2>3, Zenon
<1> QED BY <1>1, <1>2, <1>3, <1>4 DEF TaskInv, tasks

\* Every action keeps the invariant.
LEMMA StepInv == ProcInv /\ [Next]_vars => ProcInv'
<1> SUFFICES ASSUME ProcInv, [Next]_vars PROVE ProcInv'
  OBVIOUS
<1> USE DEF ProcInv
<1>0. NoAccess = access' => AccessOwned'
  BY DEF AccessOwned
<1>t. op \in [Task -> [kind : {"none", "read", "write"}, buf : Stack \cup {Code}]]
      /\ next_tid \in 1 .. TID_MAX + 1 /\ TID_MAX \in Nat
  BY ProcessAssumption DEF TaskInv, TypeOK
<1>1. ASSUME NEW name \in Names, NEW n \in 1 .. EXEC_MAX_INSTANCES, SpawnStart(name, n)
      PROVE  ProcInv'
  <2>1. Listed = {} /\ Alive = {} /\ Listed' = {} /\ Alive' = {} /\ access' = NoAccess
    BY <1>1 DEF SpawnStart, tasks, Listed, Alive
  <2>2. TaskInv'
    BY <1>1, <2>1 DEF SpawnStart, tasks, blocks, TaskInv, TypeOK, BlocksOwned, OneImage, GroupStaysDown
  <2> QED BY <1>0, <1>1, <2>1, <2>2 DEF SpawnStart, boot
<1>2. ASSUME NEW t \in Task, NEW s \in Stack, SpawnOne(t, s)
      PROVE  ProcInv'
  <2>1. TaskInv' /\ Listed' = Listed \cup {t} /\ Alive' = Alive \cup {t}
    BY <1>2, Creation DEF SpawnOne
  <2> QED BY <1>0, <1>2, <2>1 DEF SpawnOne
<1>3. CASE SpawnFails
  <2>1. made \cup Zombies = Listed
    BY <1>3 DEF SpawnFails, Zombies, Listed
  <2>2. Free(Listed, heap, kstacks) /\ next_tid' \in next_tid .. TID_MAX + 1
    BY <1>3, <1>t, <2>1, FailureUndone DEF SpawnFails
  <2>3. TaskInv' /\ Listed' = {} /\ Alive' = {}
    BY <1>3, <2>2, Freeing DEF SpawnFails, Listed, Alive
  <2> QED BY <1>0, <1>3, <2>3 DEF SpawnFails
<1>4. CASE Reap
  <2>1. Zombies \subseteq Listed /\ \A t \in Zombies : op[t] = NoOp
    BY DEF Zombies, Listed, TaskInv
  <2>2. TaskInv'
    BY <1>4, <1>t, <2>1, Freeing DEF Reap
  <2> QED BY <1>0, <1>4, <2>2 DEF Reap, boot
<1>5. CASE BackToPrompt
  <2>1. TaskInv' /\ Listed' = {} /\ Alive' = {}
    BY <1>5, <1>t, QuietStep DEF BackToPrompt, TaskInv, Listed, Alive
  <2> QED BY <1>0, <1>5, <2>1 DEF BackToPrompt, TaskInv, Listed
<1>6. ASSUME NEW t \in Task, NEW u \in Task, NEW s \in Stack,
             thread_create_user(t, u, s) \/ sys_fork(t, u, s)
      PROVE  ProcInv'
  <2>1. t \in Listed /\ t \in Alive
    BY <1>6 DEF thread_create_user, sys_fork, Calls, Listed, Alive
  <2>2. tgid[t] \in (1 .. next_tid - 1) \ gone /\ image[t] = window
    BY <2>1 DEF TaskInv, GroupStaysDown, OneImage
  <2>3. TaskInv'
    BY <1>6, <2>2, Creation DEF thread_create_user, sys_fork
  <2> QED BY <1>0, <1>6, <2>3 DEF thread_create_user, sys_fork, Calls, boot
<1>7. ASSUME NEW t \in Task, CreateOrForkFails(t)
      PROVE  ProcInv'
  <2>1. UNCHANGED blocks /\ next_tid' \in next_tid .. TID_MAX + 1
    BY <1>7, <1>t, FailureUndone DEF CreateOrForkFails, blocks
  <2>2. TaskInv'
    BY <1>7, <1>t, <2>1, QuietStep DEF CreateOrForkFails, TaskInv
  <2> QED BY <1>0, <1>7, <2>2 DEF CreateOrForkFails, Calls, boot
<1>8. ASSUME NEW t \in Task, NEW b \in Stack \cup {Code}, NEW name \in Names,
             sys_exec(t, b, name)
      PROVE  ProcInv'
  <2>1. Alive = {t} /\ Alive' = Alive /\ Listed' = Listed
    BY <1>8 DEF sys_exec, exec_load_image, thread_user_image_busy, Calls, Alive, Listed
  <2>2. TypeOK' /\ OneImage'
    BY <1>8, <2>1 DEF sys_exec, blocks, TaskInv, TypeOK, OneImage
  <2>3. TaskInv'
    BY <1>8, <2>1, <2>2 DEF sys_exec, blocks, TaskInv, BlocksOwned, GroupStaysDown
  <2> QED BY <1>0, <1>8, <2>3 DEF sys_exec, Calls, boot
<1>9. ASSUME NEW t \in Task, thread_exit(t)
      PROVE  ProcInv'
  <2>1. Kill({t}) /\ gone' = gone \cup {} /\ UNCHANGED <<blocks, next_tid, window>>
    BY <1>9 DEF thread_exit
  <2>2. {} \subseteq 1 .. next_tid - 1 /\ \A u \in Alive : tgid[u] \in {} => u \in {t}
    OBVIOUS
  <2>3. TaskInv'
    BY <2>1, <2>2, Killing, Zenon
  <2> QED BY <1>0, <1>9, <2>3 DEF thread_exit, Calls, boot
<1>10. ASSUME NEW t \in Task, NEW g \in 1 .. TID_MAX, sys_stop(t, g)
       PROVE  ProcInv'
  <2> DEFINE found == {u \in Listed : tgid[u] = g}
  <2>1. found # {} /\ Kill(found) /\ gone' = gone \cup {g}
    BY <1>10 DEF sys_stop, thread_stop_process
  <2>2. {g} \subseteq 1 .. next_tid - 1
    BY <2>1 DEF TaskInv
  <2>3. \A u \in Alive : tgid[u] \in {g} => u \in found
    BY DEF Alive, Listed
  <2>4. UNCHANGED blocks /\ next_tid' = next_tid /\ window' = window
    BY <1>10 DEF sys_stop
  <2> HIDE DEF found
  <2>5. TaskInv'
    BY <2>1, <2>2, <2>3, <2>4, Killing, Zenon
  <2> QED BY <1>0, <1>10, <2>5 DEF sys_stop, Calls, boot
<1>11. ASSUME NEW t \in Task, NEW kind \in {"read", "write"}, NEW b \in Stack \cup {Code},
              UartStart(t, kind, b)
       PROVE  ProcInv'
  <2>1. op' \in [Task -> [kind : {"none", "read", "write"}, buf : Stack \cup {Code}]]
        /\ \A u \in Task : op'[u] # NoOp => state[u] = "ALIVE"
    BY <1>11, <1>t DEF UartStart, Calls, TaskInv
  <2>2. TaskInv'
    BY <1>11, <1>t, <2>1, QuietStep DEF UartStart
  <2> QED BY <1>0, <1>11, <2>2 DEF UartStart, Calls, boot
<1>12. ASSUME NEW t \in Task, UartByte(t)
       PROVE  ProcInv'
  <2>1. op' \in [Task -> [kind : {"none", "read", "write"}, buf : Stack \cup {Code}]]
        /\ \A u \in Task : op'[u] # NoOp => state[u] = "ALIVE"
    BY <1>12, <1>t DEF UartByte, NoOp, TaskInv
  <2>2. TaskInv' /\ Listed' = Listed /\ Alive' = Alive
    BY <1>12, <1>t, <2>1, QuietStep DEF UartByte
  <2>3. AccessOwned'
    <3>1. CASE user_range_ok(t, op[t].buf, op[t].kind)
      <4>1. access' = [by |-> t, buf |-> op[t].buf, kind |-> op[t].kind]
        BY <1>12, <3>1 DEF UartByte
      <4>2. CASE op[t].kind = "write" /\ op[t].buf = Code
        BY <4>1, <4>2 DEF AccessOwned
      <4>3. CASE \E u \in Group(tgid[t]) : stack[u] = op[t].buf
        <5>1. PICK u \in Alive : tgid[u] = tgid[t] /\ stack[u] = op[t].buf
          BY SMTT(30), <4>3 DEF Group
        <5>2. stack[u] \in heap /\ u \in Alive' /\ UNCHANGED <<heap, tgid, stack>>
          BY <1>12, <2>2, <5>1 DEF UartByte, tasks, blocks, TaskInv, BlocksOwned, Alive, Listed
        <5> QED BY <4>1, <5>1, <5>2 DEF AccessOwned
      <4> QED BY <3>1, <4>2, <4>3 DEF user_range_ok
    <3>2. CASE ~user_range_ok(t, op[t].buf, op[t].kind)
      BY <1>0, <1>12, <3>2 DEF UartByte
    <3> QED BY <3>1, <3>2
  <2> QED BY <1>12, <2>2, <2>3 DEF UartByte, boot
<1>13. CASE UNCHANGED vars
  <2>1. TaskInv' /\ Listed' = Listed /\ Alive' = Alive
    BY <1>13, <1>t, QuietStep DEF vars, TaskInv
  <2>2. AccessOwned'
    BY <1>13, <2>1 DEF vars, tasks, blocks, AccessOwned
  <2> QED BY <1>13, <2>1, <2>2 DEF vars, boot
<1> QED
  BY <1>1, <1>2, <1>3, <1>4, <1>5, <1>6, <1>7, <1>8, <1>9, <1>10, <1>11, <1>12, <1>13
  DEF Next

\* ProcInv holds in every reachable state.
THEOREM Invariance == Spec => []ProcInv
<1>1. ProcInv /\ [Next]_vars => ProcInv'
  BY StepInv
<1> QED BY InitInv, <1>1, PTL DEF Spec

\* For any number of tasks and stacks: whichever allocation of spawn, fork and
\* thread creation fails, and in whatever order tasks exit, no block leaks and
\* no stack is shared.
THEOREM BlocksAreOwned == Spec => []BlocksOwned
<1>1. ProcInv => BlocksOwned
  BY DEF ProcInv, TaskInv
<1> QED BY Invariance, <1>1, PTL

\* thread_stop_process is final, and ids are never issued twice.
THEOREM StoppedStaysDown == Spec => []GroupStaysDown
<1>1. ProcInv => GroupStaysDown
  BY DEF ProcInv, TaskInv
<1> QED BY Invariance, <1>1, PTL

\* The recheck after each sleep in sys_uart_read and sys_uart_write suffices.
THEOREM AccessesAreOwned == Spec => []AccessOwned
<1>1. ProcInv => AccessOwned
  BY DEF ProcInv
<1> QED BY Invariance, <1>1, PTL

-----------------------------------------------------------------------------
(* The archive.  Offsets are defined by recursion over the entries, so the *)
(* proofs rest on the least number of a set.                               *)
INSTANCE WellFoundedInduction

\* Every set of numbers has a least one.
LEMMA LeastNumber ==
  ASSUME NEW T \in SUBSET Nat, T # {}
  PROVE  \E x \in T : \A y \in T : x <= y
<1>1. PICK x \in T : \A y \in T : ~(<<y, x>> \in OpToRel(<, Nat))
  BY NatLessThanWellFounded, WFMin, Zenon
<1>2. \A y \in T : <<y, x>> \in OpToRel(<, Nat) <=> y < x
  BY DEF OpToRel
<1>3. \A y \in T : x <= y
  <2>1. \A y \in T : ~(y < x)
    BY <1>1, <1>2, Zenon
  <2> QED BY <2>1
<1> QED BY <1>3

\* The sums of d and e up to n.
SumsTo(f, n, d, e) ==
  f = [k \in 0 .. n |-> IF k <= 1 THEN 0 ELSE f[k - 1] + d[k - 1] + e[k - 1]]

\* There are such sums for every n.
LEMMA SumsExist ==
  ASSUME NEW d, NEW e, NEW n \in Nat
  PROVE  \E f : SumsTo(f, n, d, e)
<1> DEFINE T == {m \in Nat : ~\E f : SumsTo(f, m, d, e)}
<1> SUFFICES ASSUME T # {} PROVE FALSE
  BY Zenon
<1>1. PICK m \in T : \A y \in T : m <= y
  BY LeastNumber, Zenon
<1>2. m \in Nat /\ ~\E f : SumsTo(f, m, d, e)
  BY <1>1, Zenon
<1>3. \A y \in Nat : y < m => \E f : SumsTo(f, y, d, e)
  BY <1>1, <1>2
<1>4. CASE m = 0
  <2> DEFINE g == [k \in 0 .. 0 |-> 0]
  <2>1. g = [k \in 0 .. 0 |-> IF k <= 1 THEN 0 ELSE g[k - 1] + d[k - 1] + e[k - 1]]
    OBVIOUS
  <2> QED BY <1>2, <1>4, <2>1, Zenon DEF SumsTo
<1>5. CASE m # 0
  <2>1. m - 1 \in Nat /\ m - 1 < m
    BY <1>2, <1>5
  <2>2. PICK f : SumsTo(f, m - 1, d, e)
    BY <1>3, <2>1
  <2>3. \A k \in 0 .. m - 1 : f[k] = IF k <= 1 THEN 0 ELSE f[k - 1] + d[k - 1] + e[k - 1]
    BY <2>2 DEF SumsTo
  <2> DEFINE g == [k \in 0 .. m |-> IF k <= 1 THEN 0 ELSE f[k - 1] + d[k - 1] + e[k - 1]]
  <2>4. \A k \in 0 .. m - 1 : g[k] = f[k]
    BY <1>2, <2>3
  <2>5. \A k \in 0 .. m : k > 1 => g[k - 1] = f[k - 1]
    <3>1. \A k \in 0 .. m : k > 1 => k - 1 \in 0 .. m - 1
      BY <1>2
    <3> HIDE DEF g
    <3> QED BY <2>4, <3>1, Zenon
  <2>6. g = [k \in 0 .. m |-> IF k <= 1 THEN 0 ELSE g[k - 1] + d[k - 1] + e[k - 1]]
    <3> DEFINE h == [k \in 0 .. m |-> IF k <= 1 THEN 0 ELSE g[k - 1] + d[k - 1] + e[k - 1]]
    <3>1. \A k \in 0 .. m : g[k] = h[k]
      <4> SUFFICES ASSUME NEW k \in 0 .. m PROVE g[k] = h[k]
        BY Zenon
      <4>1. g[k] = IF k <= 1 THEN 0 ELSE f[k - 1] + d[k - 1] + e[k - 1]
        OBVIOUS
      <4>2. h[k] = IF k <= 1 THEN 0 ELSE g[k - 1] + d[k - 1] + e[k - 1]
        OBVIOUS
      <4>3. k > 1 => g[k - 1] = f[k - 1]
        BY <2>5
      <4>4. k <= 1 \/ k > 1
        BY <1>2
      <4> HIDE DEF g, h
      <4> QED BY <4>1, <4>2, <4>3, <4>4
    <3> QED BY <3>1, Zenon
  <2> QED BY <1>2, <2>6, Zenon DEF SumsTo
<1> QED BY <1>4, <1>5


\* They agree where two of them are defined.
LEMMA SumsAgree ==
  ASSUME NEW d, NEW e, NEW m \in Nat, NEW n \in Nat, NEW f, NEW g,
         SumsTo(f, m, d, e), SumsTo(g, n, d, e),
         NEW k \in Nat, k <= m, k <= n
  PROVE  f[k] = g[k]
<1> DEFINE T == {i \in Nat : i <= m /\ i <= n /\ f[i] # g[i]}
<1> SUFFICES ASSUME T # {} PROVE FALSE
  BY Zenon
<1>1. PICK i \in T : \A y \in T : i <= y
  BY LeastNumber, Zenon
<1>2. i \in Nat /\ i <= m /\ i <= n /\ f[i] # g[i]
  BY <1>1, Zenon
<1>3. i \in 0 .. m /\ i \in 0 .. n
  BY <1>2
<1>4. f[i] = IF i <= 1 THEN 0 ELSE f[i - 1] + d[i - 1] + e[i - 1]
  BY <1>3 DEF SumsTo
<1>5. g[i] = IF i <= 1 THEN 0 ELSE g[i - 1] + d[i - 1] + e[i - 1]
  BY <1>3 DEF SumsTo
<1>6. i > 1
  BY <1>2, <1>4, <1>5
<1>7. i - 1 \in Nat /\ i - 1 <= m /\ i - 1 <= n /\ ~(i <= i - 1)
  BY <1>2, <1>6
<1>8. i - 1 \notin T
  BY <1>1, <1>7, Zenon
<1>9. f[i - 1] = g[i - 1]
  BY <1>7, <1>8, Zenon
<1> QED BY <1>2, <1>4, <1>5, <1>6, <1>9

\* So the recursive definition of the sums has a solution.
LEMMA SumsFunction ==
  ASSUME NEW d, NEW e
  PROVE  \E f : f = [k \in Nat |-> IF k <= 1 THEN 0 ELSE f[k - 1] + d[k - 1] + e[k - 1]]
<1> DEFINE s(n) == CHOOSE f : SumsTo(f, n, d, e)
           h == [k \in Nat |-> s(k)[k]]
           r == [k \in Nat |-> IF k <= 1 THEN 0 ELSE h[k - 1] + d[k - 1] + e[k - 1]]
<1>1. \A n \in Nat : SumsTo(s(n), n, d, e)
  BY SumsExist, Zenon
<1>2. \A k \in Nat : h[k] = s(k)[k]
  OBVIOUS
<1>3. \A k \in Nat : r[k] = IF k <= 1 THEN 0 ELSE h[k - 1] + d[k - 1] + e[k - 1]
  OBVIOUS
<1> HIDE DEF s
<1>4. ASSUME NEW k \in Nat PROVE h[k] = r[k]
  <2> HIDE DEF h, r
  <2>1. s(k)[k] = IF k <= 1 THEN 0 ELSE s(k)[k - 1] + d[k - 1] + e[k - 1]
    <3>1. k \in 0 .. k
      OBVIOUS
    <3> QED BY <1>1, <3>1 DEF SumsTo
  <2>2. CASE k <= 1
    BY <1>2, <1>3, <2>1, <2>2
  <2>3. CASE ~(k <= 1)
    <3>1. k - 1 \in Nat /\ k - 1 <= k /\ k - 1 <= k - 1
      BY <2>3
    <3>2. s(k)[k - 1] = s(k - 1)[k - 1]
      <4>1. SumsTo(s(k), k, d, e) /\ SumsTo(s(k - 1), k - 1, d, e)
        BY <1>1, <3>1, Zenon
      <4> QED BY <3>1, <4>1, SumsAgree
    <3>3. h[k - 1] = s(k - 1)[k - 1] /\ h[k] = s(k)[k]
      BY <1>2, <3>1, Zenon
    <3> QED BY <1>3, <2>1, <2>3, <3>2, <3>3
  <2> QED BY <2>2, <2>3
<1>5. h = r
  BY <1>4
<1>6. h = [k \in Nat |-> IF k <= 1 THEN 0 ELSE h[k - 1] + d[k - 1] + e[k - 1]]
  BY <1>5, Zenon
<1> HIDE DEF h
<1> QED BY <1>6, Zenon

\* The offset of a header is that of the one before, moved by its name and data.
LEMMA CurSteps ==
  ASSUME NEW a
  PROVE  Cur(a) = [k \in Nat |->
                     IF k <= 1 THEN 0
                     ELSE Cur(a)[k - 1] + NameSpan(a.entries[k - 1])
                                        + align4(a.entries[k - 1].filesz)]
<1> DEFINE d == [k \in Nat |-> NameSpan(a.entries[k])]
           e == [k \in Nat |-> align4(a.entries[k].filesz)]
<1>1. \A k \in Nat : d[k] = NameSpan(a.entries[k]) /\ e[k] = align4(a.entries[k].filesz)
  OBVIOUS
<1> HIDE DEF d, e
<1>2. PICK f : f = [k \in Nat |-> IF k <= 1 THEN 0 ELSE f[k - 1] + d[k - 1] + e[k - 1]]
  BY SumsFunction, Zenon
<1>3. f = [k \in Nat |-> IF k <= 1 THEN 0
                        ELSE f[k - 1] + NameSpan(a.entries[k - 1])
                                      + align4(a.entries[k - 1].filesz)]
  <2>1. \A k \in Nat : ~(k <= 1) => k - 1 \in Nat
    OBVIOUS
  <2>2. \A k \in Nat : ~(k <= 1) => /\ d[k - 1] = NameSpan(a.entries[k - 1])
                                    /\ e[k - 1] = align4(a.entries[k - 1].filesz)
    BY <1>1, <2>1, Zenon
  <2>3. \A k \in Nat : (IF k <= 1 THEN 0 ELSE f[k - 1] + d[k - 1] + e[k - 1])
                     = (IF k <= 1 THEN 0 ELSE f[k - 1] + NameSpan(a.entries[k - 1])
                                      + align4(a.entries[k - 1].filesz))
    BY <2>2, Zenon
  <2> QED BY <1>2, <2>3, Zenon
<1> QED BY <1>3, Zenon DEF Cur


\* Rounding up to words of four bytes takes nothing away.
LEMMA AlignUp ==
  ASSUME NEW n \in Nat
  PROVE  align4(n) \in Nat /\ n <= align4(n)
BY DEF align4

\* Offsets in an archive are numbers.
LEMMA CurType ==
  ASSUME NEW a \in Archive, HEADER \in Nat, NEW k \in 1 .. Len(a.entries)
  PROVE  Cur(a)[k] \in Nat
<1> DEFINE T == {i \in Nat : i \in 1 .. Len(a.entries) /\ Cur(a)[i] \notin Nat}
<1>0. k \in Nat
  BY DEF Archive
<1> SUFFICES ASSUME T # {} PROVE FALSE
  BY <1>0, Zenon
<1>1. PICK i \in T : \A y \in T : i <= y
  BY LeastNumber, Zenon
<1>2. i \in Nat /\ i \in 1 .. Len(a.entries) /\ Cur(a)[i] \notin Nat
  BY <1>1, Zenon
<1>3. Cur(a)[i] = IF i <= 1 THEN 0
                  ELSE Cur(a)[i - 1] + NameSpan(a.entries[i - 1])
                                     + align4(a.entries[i - 1].filesz)
  BY <1>2, CurSteps
<1>4. i > 1
  BY <1>2, <1>3
<1>5. a.entries \in Seq(Entry) /\ Len(a.entries) \in Nat
  BY DEF Archive
<1>6. i - 1 \in Nat /\ i - 1 \in 1 .. Len(a.entries) /\ ~(i <= i - 1)
  BY <1>2, <1>4, <1>5
<1>7. Cur(a)[i - 1] \in Nat
  BY <1>1, <1>6, Zenon
<1>8. a.entries[i - 1] \in Entry
  BY <1>5, <1>6
<1>9. NameSpan(a.entries[i - 1]) \in Nat /\ align4(a.entries[i - 1].filesz) \in Nat
  <2>1. a.entries[i - 1].namesz \in Nat /\ a.entries[i - 1].filesz \in Nat
    BY <1>8 DEF Entry
  <2>2. HEADER + a.entries[i - 1].namesz \in Nat
    BY <2>1
  <2> QED BY <2>1, <2>2, AlignUp, Zenon DEF NameSpan
<1> QED BY <1>2, <1>3, <1>4, <1>7, <1>9

\* What cpio_find returns is an entry the walk reached.
LEMMA FindVisits ==
  ASSUME NEW a \in Archive, NEW name, cpio_find(a, name) # 0
  PROVE  cpio_find(a, name) \in Visited(a)
<1> DEFINE hits == {k \in Visited(a) : a.entries[k].name = name}
<1>1. hits # {} /\ cpio_find(a, name) = CHOOSE k \in hits : \A j \in hits : k <= j
  BY DEF cpio_find
<1>2. hits \in SUBSET Nat
  BY DEF Visited, Archive
<1>3. \E k \in hits : \A j \in hits : k <= j
  BY <1>1, <1>2, LeastNumber, Zenon
<1>4. cpio_find(a, name) \in hits
  BY <1>1, <1>3, Zenon
<1> QED BY <1>4, Zenon

\* A program that exec_load_image accepts lies whole in the archive.
LEMMA LoadableWhole ==
  ASSUME NEW a \in Archive, HEADER \in Nat, USER_CODE_SIZE \in Nat, NEW name,
         NEW k, k = Loadable(a, name), k # 0
  PROVE  /\ a.entries[k].filesz \in 1 .. USER_CODE_SIZE
         /\ Data(a, k) + a.entries[k].filesz <= a.limit
<1>1. /\ k = cpio_find(a, name) /\ k # 0
      /\ a.entries[k].filesz # 0 /\ a.entries[k].filesz <= USER_CODE_SIZE
  BY DEF Loadable
<1>2. k \in Visited(a)
  BY <1>1, FindVisits, Zenon
<1>3. a.entries \in Seq(Entry) /\ Len(a.entries) \in Nat /\ a.limit \in Nat
  BY DEF Archive
<1>4. k \in 1 .. Len(a.entries) /\ FileOk(a, k)
  BY <1>2, <1>3 DEF Visited
<1>5. a.entries[k] \in Entry
  BY <1>3, <1>4
<1>6. a.entries[k].filesz \in Nat /\ a.entries[k].namesz \in Nat
  BY <1>5 DEF Entry
<1>7. NameSpan(a.entries[k]) \in Nat
  <2>1. HEADER + a.entries[k].namesz \in Nat
    BY <1>6
  <2> QED BY <2>1, AlignUp DEF NameSpan
<1>8. Data(a, k) \in Nat
  <2>1. Cur(a)[k] \in Nat
    BY <1>4, CurType, Zenon
  <2> QED BY <1>7, <2>1 DEF Data
<1>9. Data(a, k) + align4(a.entries[k].filesz) <= a.limit
  BY <1>4, Zenon DEF FileOk
<1>10. align4(a.entries[k].filesz) \in Nat /\ a.entries[k].filesz <= align4(a.entries[k].filesz)
  BY <1>6, AlignUp
<1>11. a.entries[k].filesz \in 1 .. USER_CODE_SIZE
  BY <1>1, <1>6
<1>12. Data(a, k) + a.entries[k].filesz <= a.limit
  BY <1>3, <1>6, <1>8, <1>9, <1>10, SMTT(30)
<1> QED BY <1>11, <1>12

\* The window holds nothing or a program of the archive, which never changes.
WindowInv ==
  /\ archive \in Archives
  /\ program = [name \in Names |-> Loadable(archive, name)]
  /\ window = 0 \/ \E name \in Names : window = program[name]

\* Every action keeps it: only SpawnStart and sys_exec load a program.
LEMMA WindowStep == WindowInv /\ [Next]_vars => WindowInv'
<1> SUFFICES ASSUME WindowInv, [Next]_vars PROVE WindowInv'
  OBVIOUS
<1>1. /\ UNCHANGED <<archive, program>>
      /\ window' = window \/ \E name \in Names : window' = program[name]
  BY Zenon DEF Next, vars, initrd, SpawnStart, SpawnOne, SpawnFails, Reap, BackToPrompt,
         CreateOrForkFails, thread_exit, UartByte, thread_create_user, sys_fork, sys_exec,
         sys_stop, UartStart, exec_load_image
<1> QED BY <1>1 DEF WindowInv

\* exec_load_image never replaces the code of a live task other than its caller,
\* and what it copies is a file that lies whole in the archive, however the
\* archive is damaged.
THEOREM ImagesStayIntact == Spec => []ImageIntact
<1>1. Init => WindowInv
  BY DEF Init, WindowInv
<1>2. ProcInv => OneImage
  BY DEF ProcInv, TaskInv
<1>3. WindowInv => ImageWhole
  <2> SUFFICES ASSUME WindowInv, window # 0 PROVE ImageWhole
    BY DEF ImageWhole
  <2>1. PICK name \in Names : window = Loadable(archive, name)
    BY DEF WindowInv
  <2>2. archive \in Archive
    BY ArchiveAssumption DEF WindowInv
  <2> QED BY <2>1, <2>2, LoadableWhole, ArchiveAssumption, Zenon DEF ImageWhole
<1> QED BY Invariance, WindowStep, <1>1, <1>2, <1>3, PTL DEF Spec, ImageIntact

=============================================================================
