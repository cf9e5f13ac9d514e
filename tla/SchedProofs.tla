---------------------------- MODULE SchedProofs ----------------------------
(***************************************************************************)
(* Proofs about Sched for every set of tasks and wait queues.              *)
(***************************************************************************)
EXTENDS Sched, SequenceTheorems, TLAPS

---------------------------------------------------------------------------
(* The linked lists.                                                       *)

\* Appending a thread that is not on a list keeps the list duplicate free
\* and adds just that thread (sched_enqueue, wait_queue_prepare_locked).
LEMMA AppendList ==
    ASSUME NEW S, NEW s \in Seq(S), NEW t \in S, NoDup(s), ~InSeq(t, s)
    PROVE  /\ Append(s, t) \in Seq(S)
           /\ NoDup(Append(s, t))
           /\ \A x : InSeq(x, Append(s, t)) <=> InSeq(x, s) \/ x = t
<1>1. /\ Append(s, t) \in Seq(S)
      /\ Len(Append(s, t)) = Len(s) + 1
      /\ \A i \in 1..Len(s) : Append(s, t)[i] = s[i]
      /\ Append(s, t)[Len(s) + 1] = t
      /\ Len(s) \in Nat
  BY AppendProperties, LenProperties
<1>2. NoDup(Append(s, t))
  BY <1>1 DEF NoDup, InSeq
<1>3. ASSUME NEW x PROVE InSeq(x, Append(s, t)) <=> InSeq(x, s) \/ x = t
  BY <1>1 DEF InSeq
<1>4. QED BY <1>1, <1>2, <1>3

\* Pushing at the head (the zombie list).
LEMMA PushList ==
    ASSUME NEW S, NEW s \in Seq(S), NEW t \in S, NoDup(s), ~InSeq(t, s)
    PROVE  /\ <<t>> \o s \in Seq(S)
           /\ NoDup(<<t>> \o s)
           /\ \A x : InSeq(x, <<t>> \o s) <=> InSeq(x, s) \/ x = t
<1> DEFINE r == <<t>> \o s
<1>1. /\ <<t>> \in Seq(S) /\ Len(<<t>>) = 1 /\ <<t>>[1] = t
      /\ Len(s) \in Nat
  BY LenProperties
<1>2. /\ r \in Seq(S)
      /\ Len(r) = Len(s) + 1
      /\ \A i \in 1..(Len(s) + 1) : r[i] = IF i <= 1 THEN <<t>>[i] ELSE s[i - 1]
  BY <1>1, ConcatProperties
<1>3. /\ r[1] = t
      /\ \A i \in 1..Len(s) : r[i + 1] = s[i]
      /\ \A i \in 2..(Len(s) + 1) : r[i] = s[i - 1]
  BY <1>1, <1>2
<1> HIDE DEF r
<1>4. NoDup(r)
  <2> SUFFICES ASSUME NEW i \in 1..Len(r), NEW j \in 1..Len(r), r[i] = r[j]
               PROVE  i = j
    BY DEF NoDup
  <2>1. CASE i = 1 /\ j = 1
    BY <2>1
  <2>2. CASE i = 1 /\ j # 1
    BY <1>1, <1>2, <1>3, <2>2 DEF InSeq
  <2>3. CASE i # 1 /\ j = 1
    BY <1>1, <1>2, <1>3, <2>3 DEF InSeq
  <2>4. CASE i # 1 /\ j # 1
    <3>1. i - 1 \in 1..Len(s) /\ j - 1 \in 1..Len(s)
      BY <1>1, <1>2, <2>4
    <3>2. s[i - 1] = s[j - 1]
      BY <1>1, <1>2, <1>3, <2>4
    <3>3. i - 1 = j - 1
      BY <3>1, <3>2 DEF NoDup
    <3>4. QED BY <1>1, <1>2, <3>3
  <2>5. QED BY <2>1, <2>2, <2>3, <2>4
<1>5. ASSUME NEW x PROVE InSeq(x, r) <=> InSeq(x, s) \/ x = t
  <2>1. InSeq(x, r) => InSeq(x, s) \/ x = t
    BY <1>1, <1>2, <1>3 DEF InSeq
  <2>2. ASSUME InSeq(x, s) PROVE InSeq(x, r)
    <3>1. PICK i \in 1..Len(s) : s[i] = x
      BY <2>2 DEF InSeq
    <3>2. i + 1 \in 1..Len(r) /\ r[i + 1] = x
      BY <1>1, <1>2, <1>3, <3>1
    <3>3. QED BY <3>2 DEF InSeq
  <2>3. x = t => InSeq(x, r)
    BY <1>1, <1>2, <1>3 DEF InSeq
  <2>4. QED BY <2>1, <2>2, <2>3
<1>6. QED BY <1>2, <1>4, <1>5 DEF r

\* Popping the head (the reaper).
LEMMA PopList ==
    ASSUME NEW S, NEW s \in Seq(S), s # <<>>, NoDup(s)
    PROVE  /\ Head(s) \in S
           /\ InSeq(Head(s), s)
           /\ Tail(s) \in Seq(S)
           /\ NoDup(Tail(s))
           /\ \A x : InSeq(x, Tail(s)) <=> InSeq(x, s) /\ x # Head(s)
<1>1. /\ Head(s) \in S
      /\ Tail(s) \in Seq(S)
      /\ Len(Tail(s)) = Len(s) - 1
      /\ \A i \in 1..Len(Tail(s)) : Tail(s)[i] = s[i + 1]
      /\ Len(s) \in Nat \ {0}
      /\ Head(s) = s[1]
  BY HeadTailProperties, EmptySeq, LenProperties
<1>2. InSeq(Head(s), s)
  BY <1>1 DEF InSeq
<1>3. NoDup(Tail(s))
  BY <1>1 DEF NoDup
<1>4. ASSUME NEW x PROVE InSeq(x, Tail(s)) <=> InSeq(x, s) /\ x # Head(s)
  <2>1. ASSUME InSeq(x, Tail(s)) PROVE InSeq(x, s) /\ x # Head(s)
    BY <1>1, <2>1 DEF InSeq, NoDup
  <2>2. ASSUME InSeq(x, s), x # Head(s) PROVE InSeq(x, Tail(s))
    <3>1. PICK i \in 1..Len(s) : s[i] = x
      BY <2>2 DEF InSeq
    <3>2. i # 1 /\ i - 1 \in 1..Len(Tail(s)) /\ (i - 1) + 1 = i
      BY <1>1, <2>2, <3>1
    <3>3. Tail(s)[i - 1] = x
      BY <1>1, <3>1, <3>2
    <3>4. QED BY <3>2, <3>3 DEF InSeq
  <2>3. QED BY <2>1, <2>2
<1>5. QED BY <1>1, <1>2, <1>3, <1>4

\* Unlinking a thread (sched_remove, wait_queue_finish_locked).
LEMMA UnlinkList ==
    ASSUME NEW S, NEW s \in Seq(S), NEW t, NoDup(s)
    PROVE  /\ Without(s, t) \in Seq(S)
           /\ NoDup(Without(s, t))
           /\ \A x : InSeq(x, Without(s, t)) <=> InSeq(x, s) /\ x # t
<1>0. Len(s) \in Nat /\ \A i \in 1..Len(s) : s[i] \in S
  BY LenProperties, ElementOfSeq
<1>1. CASE ~ \E i \in 1..Len(s) : s[i] = t
  BY <1>1 DEF Without, InSeq
<1>2. CASE \E i \in 1..Len(s) : s[i] = t
  <2> DEFINE k == CHOOSE i \in 1..Len(s) : IsFirst(s, i, t)
             r == [j \in 1..(Len(s) - 1) |-> IF j < k THEN s[j] ELSE s[j + 1]]
  <2>1. k \in 1..Len(s) /\ s[k] = t
    <3>1. PICK i \in 1..Len(s) : s[i] = t
      BY <1>2
    <3>2. IsFirst(s, i, t)
      BY <1>0, <3>1 DEF IsFirst, NoDup
    <3>3. k \in 1..Len(s) /\ IsFirst(s, k, t)
      BY <3>2
    <3>4. QED BY <3>3 DEF IsFirst
  <2>2. Without(s, t) = r
    BY <1>2 DEF Without
  <2> HIDE DEF k
  <2>3. Len(s) - 1 \in Nat /\ \A j \in 1..(Len(s) - 1) :
          (IF j < k THEN s[j] ELSE s[j + 1]) \in S
    BY <1>0, <2>1
  <2>4. r \in Seq(S)
    BY <2>3, IsASeq
  <2>5. Len(r) = Len(s) - 1
    BY <2>3, <2>4, LenProperties
  <2>6. \A j \in 1..(Len(s) - 1) : r[j] = IF j < k THEN s[j] ELSE s[j + 1]
    OBVIOUS
  <2> HIDE DEF r
  <2>7. NoDup(r)
    BY <1>0, <2>1, <2>5, <2>6 DEF NoDup
  <2>8. ASSUME NEW x, InSeq(x, r) PROVE InSeq(x, s) /\ x # t
    BY <1>0, <2>1, <2>5, <2>6, <2>8 DEF InSeq, NoDup
  <2>9. ASSUME NEW x, InSeq(x, s), x # t PROVE InSeq(x, r)
    <3>1. PICK i \in 1..Len(s) : s[i] = x
      BY <2>9 DEF InSeq
    <3>2. CASE i < k
      <4>1. i \in 1..Len(r) /\ r[i] = x
        BY <1>0, <2>1, <2>5, <2>6, <3>1, <3>2
      <4>2. QED BY <4>1 DEF InSeq
    <3>3. CASE i > k
      <4>1. i - 1 \in 1..Len(r) /\ r[i - 1] = x
        BY <1>0, <2>1, <2>5, <2>6, <3>1, <3>3
      <4>2. QED BY <4>1 DEF InSeq
    <3>4. i # k
      BY <2>1, <2>9, <3>1
    <3>5. QED BY <1>0, <2>1, <3>1, <3>2, <3>3, <3>4
  <2>10. QED BY <2>2, <2>4, <2>7, <2>8, <2>9
<1>3. QED BY <1>1, <1>2

\* What is left of the run queue behind its head.
LEMMA RestList ==
    ASSUME NEW S, NEW s \in Seq(S), s # <<>>
    PROVE  SubSeq(s, 2, Len(s)) = Tail(s) /\ 1 \in 1..Len(s) /\ s[1] = Head(s)
BY HeadTailProperties, EmptySeq, LenProperties

---------------------------------------------------------------------------
(* schedule().                                                             *)

\* The state schedule() is called in: st is the value of state, and the run
\* queue holds exactly the workers that are RUNNABLE in it.
Ready(st) ==
    /\ st \in [Thread -> TaskStates]
    /\ current \in Thread
    /\ runq \in Seq(Task)
    /\ NoDup(runq)
    /\ \A t \in Task : InSeq(t, runq) <=> st[t] = "RUNNABLE"
    /\ \A t \in Thread : st[t] = "RUNNING" => t = current
    /\ st[current] \in {"RUNNING", "WAITING", "ZOMBIE"}
    /\ st[Idle] \in {"RUNNING", "RUNNABLE"}
    /\ current # Idle => st[Idle] = "RUNNABLE"

\* What schedule() leaves: an exact run queue, one RUNNING thread, which was
\* RUNNABLE or is the old one; a preempted worker is RUNNABLE, a sleeper and
\* a zombie stay what they are.
Switched(st) ==
    /\ state' \in [Thread -> TaskStates]
    /\ current' \in Thread
    /\ need_resched' = FALSE
    /\ runq' \in Seq(Task)
    /\ NoDup(runq')
    /\ \A t \in Task : InSeq(t, runq') <=> state'[t] = "RUNNABLE"
    /\ \A t \in Thread : state'[t] = "RUNNING" <=> t = current'
    /\ st[current'] \in {"RUNNING", "RUNNABLE"}
    /\ \A t \in Thread :
         /\ state'[t] \in {"RUNNING", "RUNNABLE"} <=> st[t] \in {"RUNNING", "RUNNABLE"}
         /\ st[t] \notin {"RUNNING", "RUNNABLE"} => state'[t] = st[t]

\* SwitchTo the head of the run queue, or to the idle thread from a worker.
LEMMA SwitchToFacts ==
    ASSUME NEW st, Ready(st), NEW next \in Thread, NEW rest \in Seq(Task),
           next # current, st[next] = "RUNNABLE",
           NoDup(rest),
           \A t \in Task : InSeq(t, rest) <=> st[t] = "RUNNABLE" /\ t # next,
           SwitchTo(st, next, rest), need_resched' = FALSE
    PROVE  Switched(st)
<1> DEFINE old == IF st[current] = "RUNNING" THEN "RUNNABLE" ELSE st[current]
<1>1. /\ state' = [st EXCEPT ![current] = old, ![next] = "RUNNING"]
      /\ runq' = IF old = "RUNNABLE" /\ current # Idle THEN Append(rest, current) ELSE rest
      /\ current' = next
  BY DEF SwitchTo
<1>2. old \in {"RUNNABLE", "WAITING", "ZOMBIE"} /\ old \in TaskStates
  BY DEF Ready, TaskStates
<1>3. /\ state' \in [Thread -> TaskStates]
      /\ state'[next] = "RUNNING"
      /\ state'[current] = old
      /\ \A t \in Thread : t # next /\ t # current => state'[t] = st[t]
  BY <1>1, <1>2 DEF Ready, TaskStates
<1>4. /\ runq' \in Seq(Task)
      /\ NoDup(runq')
      /\ \A t \in Task : InSeq(t, runq') <=>
           InSeq(t, rest) \/ (t = current /\ old = "RUNNABLE")
  <2>1. CASE old = "RUNNABLE" /\ current # Idle
    <3>1. current \in Task /\ ~InSeq(current, rest) /\ runq' = Append(rest, current)
      BY <1>1, <2>1 DEF Ready, Thread
    <3>2. QED BY <2>1, <3>1, AppendList
  <2>2. CASE ~(old = "RUNNABLE" /\ current # Idle)
    BY <1>1, <2>2, SchedAssumption
  <2>3. QED BY <2>1, <2>2
<1>5. \A t \in Task : InSeq(t, runq') <=> state'[t] = "RUNNABLE"
  BY <1>2, <1>3, <1>4 DEF Ready, Thread
<1>6. \A t \in Thread : state'[t] = "RUNNING" <=> t = current'
  BY <1>1, <1>2, <1>3 DEF Ready
<1>7. \A t \in Thread :
         /\ state'[t] \in {"RUNNING", "RUNNABLE"} <=> st[t] \in {"RUNNING", "RUNNABLE"}
         /\ st[t] \notin {"RUNNING", "RUNNABLE"} => state'[t] = st[t]
  BY <1>2, <1>3 DEF Ready
<1>8. QED BY <1>1, <1>3, <1>4, <1>5, <1>6, <1>7, Zenon DEF Switched

\* With a run queue that is exact, schedule() switches to its head.
LEMMA ScheduleHead ==
    ASSUME NEW st, Ready(st), schedule(st), runq # <<>>
    PROVE  /\ Head(runq) \in Task /\ st[Head(runq)] = "RUNNABLE" /\ Head(runq) # current
           /\ SwitchTo(st, Head(runq), Tail(runq))
<1>1. Head(runq) \in Task /\ InSeq(Head(runq), runq)
  BY PopList DEF Ready
<1>2. st[Head(runq)] = "RUNNABLE" /\ Head(runq) # current /\ Head(runq) \in Thread
  BY <1>1 DEF Ready, Thread
<1>3. 1 \in 1..Len(runq) /\ runq[1] = Head(runq) /\ SubSeq(runq, 2, Len(runq)) = Tail(runq)
  BY RestList DEF Ready
<1>4. PICK i \in 1..Len(runq) :
        IsNext(st, i) /\ SwitchTo(st, runq[i], SubSeq(runq, i + 1, Len(runq)))
  BY <1>2, <1>3 DEF schedule
<1>5. i = 1
  BY <1>2, <1>3, <1>4 DEF IsNext
<1>6. SwitchTo(st, Head(runq), Tail(runq))
  <2>1. runq[i] = Head(runq) /\ SubSeq(runq, i + 1, Len(runq)) = Tail(runq)
    BY <1>3, <1>5
  <2>2. QED BY <1>4, <2>1, Zenon DEF SwitchTo
<1>7. QED BY <1>1, <1>2, <1>6

\* schedule() leaves the run queue and the CPU that way.
LEMMA ScheduleFacts ==
    ASSUME NEW st, Ready(st), schedule(st),
           runq = <<>> /\ current = Idle => st[Idle] = "RUNNING"
    PROVE  Switched(st)
<1>1. CASE runq # <<>>
  <2>1. /\ Head(runq) \in Thread /\ st[Head(runq)] = "RUNNABLE" /\ Head(runq) # current
        /\ SwitchTo(st, Head(runq), Tail(runq))
    BY <1>1, ScheduleHead DEF Thread
  <2>2. /\ Tail(runq) \in Seq(Task) /\ NoDup(Tail(runq))
        /\ \A t \in Task : InSeq(t, Tail(runq)) <=> st[t] = "RUNNABLE" /\ t # Head(runq)
    BY <1>1, PopList DEF Ready
  <2>3. QED BY <2>1, <2>2, SwitchToFacts, Zenon DEF schedule
<1>2. CASE runq = <<>>
  <2>1. Len(runq) = 0 /\ runq \in Seq(Task)
    BY <1>2, EmptySeq DEF Ready
  <2>2. /\ need_resched' = FALSE
        /\ IF current = Idle
           THEN state' = st /\ runq' = <<>> /\ UNCHANGED current
           ELSE SwitchTo(st, Idle, <<>>)
    BY <2>1 DEF schedule
  <2>3. CASE current = Idle
    BY <1>2, <2>2, <2>3 DEF Ready, Switched, Thread
  <2>4. CASE current # Idle
    <3>1. Idle \in Thread /\ st[Idle] = "RUNNABLE"
      BY <2>4 DEF Ready, Thread
    <3>2. NoDup(<<>>) /\ \A t \in Task : InSeq(t, <<>>) <=> st[t] = "RUNNABLE" /\ t # Idle
      BY <1>2, SchedAssumption DEF Ready
    <3>3. QED BY <1>2, <2>1, <2>2, <2>4, <3>1, <3>2, SwitchToFacts, Zenon
  <2>5. QED BY <2>3, <2>4
<1>3. QED BY <1>1, <1>2

---------------------------------------------------------------------------
(* Steps that leave a list alone keep what ties it to the states.          *)
LEMMA RunQueueKept ==
    ASSUME RunQueueExact, runq' = runq,
           \A t \in Task : state'[t] = "RUNNABLE" <=> state[t] = "RUNNABLE"
    PROVE  RunQueueExact'
<1>1. NoDup(runq') /\ \A t \in Task : InSeq(t, runq') <=> InSeq(t, runq)
  BY DEF RunQueueExact
<1>2. QED BY <1>1 DEF RunQueueExact

\* The wait queues agree with the threads while nobody enters or leaves one.
LEMMA WaitLinksKept ==
    ASSUME WaitLinksAgree, waitq' = waitq, wait_entries' = wait_entries,
           \A t \in Task :
             /\ wait_entries[t] # {} => state'[t] \in {"RUNNING", "RUNNABLE", "WAITING"}
             /\ state'[t] = "WAITING" => state[t] = "WAITING"
    PROVE  WaitLinksAgree'
<1>1. \A q \in Queue : waitq'[q] = waitq[q]
  OBVIOUS
<1>2. /\ \A q \in Queue : NoDup(waitq'[q])
      /\ \A t \in Task, q \in Queue : InSeq(t, waitq'[q]) <=> q \in wait_entries'[t]
  BY <1>1 DEF WaitLinksAgree
<1>3. \A t \in Task :
        /\ wait_entries'[t] # {} => state'[t] \in {"RUNNING", "RUNNABLE", "WAITING"}
        /\ state'[t] = "WAITING" => wait_entries'[t] # {}
  BY DEF WaitLinksAgree
<1>4. QED BY <1>2, <1>3 DEF WaitLinksAgree

\* The zombie list is exact while nobody dies or is freed.
LEMMA ZombiesKept ==
    ASSUME ZombieOnce, zombies' = zombies, reaping' = reaping,
           all_threads' = all_threads,
           \A t \in Task : /\ state'[t] = "ZOMBIE" <=> state[t] = "ZOMBIE"
                           /\ state'[t] = "FREE" <=> state[t] = "FREE"
    PROVE  ZombieOnce'
<1>1. NoDup(zombies') /\ \A t \in Task : InSeq(t, zombies') <=> InSeq(t, zombies)
  BY DEF ZombieOnce
<1>2. {t \in Task : state'[t] # "FREE"} = {t \in Task : state[t] # "FREE"}
  OBVIOUS
<1>3. QED BY <1>1, <1>2 DEF ZombieOnce

---------------------------------------------------------------------------
(* Steps that move only the running thread's program point.                *)
LEMMA GotoStep ==
    ASSUME SchedInv, NEW p, Goto(p),
           UNCHANGED <<state, kind, current, runq, waitq, wait_entries,
                       zombies, all_threads, reaping>>,
           need_resched' \in BOOLEAN,
           reapFor' \in {"launch", "until", "forever"},
           current # Idle =>
             /\ p \in TaskPoints
             /\ \/ state[current] = "RUNNING" /\ p # "exit"
                \/ state[current] = "ZOMBIE" /\ p \in {"stop", "ret", "exit"},
           current = Idle =>
             /\ p \in IdlePoints /\ (p = "free" <=> reaping # None)
             /\ p \in {"shell", "check", "wfi", "sched"} => zombies = <<>> /\ reaping = None
    PROVE  SchedInv'
<1>1. TypeOK' /\ pc'[current] = p /\ \A t \in Thread : t # current => pc'[t] = pc[t]
  BY DEF SchedInv, TypeOK, Goto, Thread
<1>2. RunQueueExact' /\ WaitLinksAgree' /\ ZombieOnce'
  <2>1. \A t \in Task : state'[t] = state[t]
    OBVIOUS
  <2>2. \A t \in Task : wait_entries[t] # {} => state'[t] \in {"RUNNING", "RUNNABLE", "WAITING"}
    BY <2>1 DEF SchedInv, WaitLinksAgree
  <2>3. QED BY <2>1, <2>2, RunQueueKept, WaitLinksKept, ZombiesKept DEF SchedInv
<1>3. state[Idle] \in {"RUNNING", "RUNNABLE"} /\ current \in Thread
  BY DEF SchedInv, ProgramPoints, TypeOK
<1>4. OneRunning'
  BY <1>1, <1>3, SchedAssumption
     DEF SchedInv, OneRunning, ProgramPoints, IdlePoints
<1>5. ReapedBeforeIdle'
  BY <1>1 DEF SchedInv, ReapedBeforeIdle, Thread
<1>6. ProgramPoints'
  BY <1>1, SchedAssumption DEF SchedInv, ProgramPoints, Thread, OneRunning
<1>7. QED BY <1>1, <1>2, <1>4, <1>5, <1>6 DEF SchedInv

\* The boot thread is RUNNING whenever it has the CPU.
LEMMA IdleRuns ==
    ASSUME SchedInv PROVE current = Idle <=> state[Idle] = "RUNNING"
BY SchedAssumption DEF SchedInv, OneRunning, ProgramPoints, IdlePoints, Thread

(* Steps that end in schedule() and touch no list but the run queue.       *)
LEMMA SwitchStep ==
    ASSUME SchedInv, NEW p, Goto(p), schedule(state),
           UNCHANGED <<kind, waitq, wait_entries, zombies, all_threads,
                       reaping, reapFor>>,
           current # Idle =>
             /\ p \in TaskPoints
             /\ state[current] = "RUNNING" => p \in {"boot", "run", "wait", "user"}
             /\ state[current] = "WAITING" => p = "wait",
           current = Idle => p = "reap" /\ reaping = None
    PROVE  SchedInv'
<1>1. /\ pc' \in [Thread -> TaskPoints \cup IdlePoints]
      /\ pc'[current] = p /\ current \in Thread
      /\ \A t \in Thread : t # current => pc'[t] = pc[t]
  BY DEF SchedInv, TypeOK, Goto, Thread, IdlePoints
<1>2. Ready(state)
  BY IdleRuns DEF SchedInv, TypeOK, RunQueueExact, OneRunning, ProgramPoints, Ready
<1>3. Switched(state)
  BY <1>2, IdleRuns, ScheduleFacts
<1>4. TypeOK'
  BY <1>1, <1>3, Zenon DEF SchedInv, TypeOK, Switched
<1>5. RunQueueExact'
  BY <1>3 DEF Switched, RunQueueExact
<1>6. WaitLinksAgree'
  <2>1. \A u \in Task :
          /\ wait_entries[u] # {} => state'[u] \in {"RUNNING", "RUNNABLE", "WAITING"}
          /\ state'[u] = "WAITING" => state[u] = "WAITING"
    BY <1>3 DEF SchedInv, WaitLinksAgree, Switched, Thread
  <2>2. QED BY <2>1, WaitLinksKept DEF SchedInv
<1>7. ZombieOnce'
  <2>1. \A u \in Task : /\ state'[u] = "ZOMBIE" <=> state[u] = "ZOMBIE"
                        /\ state'[u] = "FREE" <=> state[u] = "FREE"
    BY <1>3 DEF Switched, Thread
  <2>2. QED BY <2>1, ZombiesKept DEF SchedInv
<1>8. ProgramPoints'
  <2>1. /\ pc'[Idle] \in IdlePoints /\ state'[Idle] \in {"RUNNING", "RUNNABLE"}
        /\ pc'[Idle] = "free" <=> reaping' # None
    BY <1>1, <1>3 DEF SchedInv, ProgramPoints, Switched, Thread, IdlePoints
  <2>2. ASSUME NEW t \in Task
        PROVE  /\ pc'[t] \in TaskPoints
               /\ state'[t] = "RUNNABLE" => pc'[t] \in {"boot", "run", "wait", "user"}
               /\ state'[t] = "WAITING" => pc'[t] = "wait"
    <3>1. t \in Thread /\ t # Idle
      BY SchedAssumption DEF Thread
    <3>2. state'[t] = "RUNNABLE" => state[t] \in {"RUNNING", "RUNNABLE"}
      BY <1>3, <3>1 DEF Switched
    <3>3. state'[t] = "WAITING" => state[t] = "WAITING"
      BY <1>3, <3>1 DEF Switched
    <3>4. state[t] = "RUNNING" => t = current
      BY <3>1 DEF SchedInv, OneRunning
    <3>5. t = current => state[t] # "RUNNABLE"
      BY <1>2 DEF Ready
    <3>6. QED BY <1>1, <3>1, <3>2, <3>3, <3>4, <3>5 DEF SchedInv, ProgramPoints
  <2>3. QED BY <2>1, <2>2 DEF ProgramPoints
<1>9. OneRunning'
  <2>1. current' \in Thread /\ state'[current'] = "RUNNING"
        /\ \A t \in Thread : state'[t] = "RUNNING" => t = current'
    BY <1>3 DEF Switched
  <2>2. pc'[current'] # "exit"
    <3>1. CASE current' = Idle
      BY <1>8, <3>1 DEF ProgramPoints, IdlePoints
    <3>2. CASE current' # Idle
      <4>1. current' \in Task /\ state[current'] \in {"RUNNING", "RUNNABLE"}
        BY <1>3, <3>2 DEF Switched, Thread
      <4>2. state[current'] = "RUNNING" => current' = current
        BY <2>1 DEF SchedInv, OneRunning
      <4>3. state[current'] = "RUNNABLE" => current' # current /\ pc[current'] # "exit"
        BY <1>2, <4>1 DEF Ready, SchedInv, ProgramPoints
      <4>4. QED BY <1>1, <2>1, <3>2, <4>1, <4>2, <4>3
    <3>3. QED BY <3>1, <3>2
  <2>3. QED BY <2>1, <2>2 DEF OneRunning
<1>10. ReapedBeforeIdle'
  BY <1>1, <1>3 DEF SchedInv, ReapedBeforeIdle, Thread
<1>11. QED BY <1>4, <1>5, <1>6, <1>7, <1>8, <1>9, <1>10 DEF SchedInv

---------------------------------------------------------------------------
(* Publication.                                                            *)
LEMMA PublishStep ==
    ASSUME SchedInv, NEW t \in Task, NEW k \in Kinds, thread_publish(t, k),
           At("shell") \/ At("user"),
           \/ pc' = [pc EXCEPT ![t] = "boot"]
           \/ At("user") /\ pc' = [pc EXCEPT ![t] = "boot", ![current] = "ret"],
           UNCHANGED <<current, need_resched, waitq, wait_entries, zombies,
                       reaping, reapFor>>
    PROVE  SchedInv'
<1>1. /\ t \in Thread /\ t # Idle /\ t # current /\ current \in Thread
      /\ state[t] = "FREE"
  BY SchedAssumption
     DEF SchedInv, TypeOK, OneRunning, thread_publish, Thread
<1>2. /\ state' \in [Thread -> TaskStates] /\ state'[t] = "RUNNABLE"
      /\ \A u \in Thread : u # t => state'[u] = state[u]
  BY <1>1 DEF SchedInv, TypeOK, thread_publish, TaskStates
<1>3. /\ pc' \in [Thread -> TaskPoints \cup IdlePoints] /\ pc'[t] = "boot"
      /\ pc'[current] = pc[current] \/ (pc[current] = "user" /\ pc'[current] = "ret")
      /\ \A u \in Thread : u # t /\ u # current => pc'[u] = pc[u]
  BY <1>1, Zenon DEF SchedInv, TypeOK, TaskPoints, IdlePoints, At
<1>4. /\ runq' \in Seq(Task) /\ NoDup(runq')
      /\ \A x : InSeq(x, runq') <=> InSeq(x, runq) \/ x = t
  <2>1. runq \in Seq(Task) /\ NoDup(runq) /\ ~InSeq(t, runq) /\ runq' = Append(runq, t)
    BY <1>1 DEF SchedInv, TypeOK, RunQueueExact, thread_publish
  <2>2. QED BY <2>1, AppendList
<1>5. TypeOK'
  BY <1>1, <1>2, <1>3, <1>4 DEF SchedInv, TypeOK, thread_publish
<1>6. RunQueueExact'
  BY <1>2, <1>4 DEF SchedInv, RunQueueExact, Thread
<1>7. WaitLinksAgree'
  <2>1. \A u \in Task :
          /\ wait_entries[u] # {} => state'[u] \in {"RUNNING", "RUNNABLE", "WAITING"}
          /\ state'[u] = "WAITING" => state[u] = "WAITING"
    BY <1>1, <1>2 DEF SchedInv, WaitLinksAgree, Thread
  <2>2. QED BY <2>1, WaitLinksKept DEF SchedInv
<1>8. ZombieOnce'
  <2>1. all_threads' = {Idle} \cup {u \in Task : state'[u] # "FREE"}
    BY <1>1, <1>2 DEF SchedInv, ZombieOnce, thread_publish, Thread
  <2>2. \A u \in Task : state'[u] = "ZOMBIE" <=> state[u] = "ZOMBIE"
    BY <1>1, <1>2 DEF Thread
  <2>3. QED BY <2>1, <2>2 DEF SchedInv, ZombieOnce, NoDup, InSeq
<1>9. pc[current] \in {"shell", "user"} /\ state[current] = "RUNNING"
  BY DEF SchedInv, OneRunning, At
<1>10. OneRunning'
  BY <1>1, <1>2, <1>3, <1>9 DEF SchedInv, OneRunning
<1>11. pc'[Idle] = pc[Idle]
  BY <1>1, <1>3, <1>9 DEF SchedInv, ProgramPoints, IdlePoints, Thread
<1>12. ReapedBeforeIdle'
  BY <1>11 DEF SchedInv, ReapedBeforeIdle
<1>13. ProgramPoints'
  <2>1. /\ pc'[Idle] \in IdlePoints
        /\ state'[Idle] \in {"RUNNING", "RUNNABLE"}
        /\ pc'[Idle] = "free" <=> reaping' # None
    BY <1>1, <1>2, <1>11 DEF SchedInv, ProgramPoints, Thread
  <2>2. ASSUME NEW u \in Task
        PROVE  /\ pc'[u] \in TaskPoints
               /\ state'[u] = "RUNNABLE" => pc'[u] \in {"boot", "run", "wait", "user"}
               /\ state'[u] = "WAITING" => pc'[u] = "wait"
    <3>0. u \in Thread /\ pc[u] \in TaskPoints
      BY DEF SchedInv, ProgramPoints, Thread
    <3>1. CASE u = t
      BY <1>2, <1>3, <3>1 DEF TaskPoints
    <3>2. CASE u = current
      BY <1>1, <1>2, <1>3, <1>9, <3>0, <3>2 DEF TaskPoints
    <3>3. CASE u # t /\ u # current
      BY <1>2, <1>3, <3>0, <3>3 DEF SchedInv, ProgramPoints
    <3>4. QED BY <3>1, <3>2, <3>3
  <2>3. QED BY <2>1, <2>2 DEF ProgramPoints
<1>14. QED BY <1>5, <1>6, <1>7, <1>8, <1>10, <1>12, <1>13 DEF SchedInv

---------------------------------------------------------------------------
(* Exit and stop.                                                          *)

\* No registration of t is left, and t is the one zombie more.
Buried(t) ==
    /\ waitq' \in [Queue -> Seq(Task)]
    /\ wait_entries' \in [Task -> SUBSET Queue]
    /\ wait_entries'[t] = {}
    /\ \A u \in Task : u # t => wait_entries'[u] = wait_entries[u]
    /\ \A q \in Queue : NoDup(waitq'[q])
    /\ \A u \in Task, q \in Queue : InSeq(u, waitq'[q]) <=> q \in wait_entries'[u]
    /\ zombies' \in Seq(Task) /\ NoDup(zombies')
    /\ \A u : InSeq(u, zombies') <=> InSeq(u, zombies) \/ u = t
    /\ t # reaping

\* Bury unlinks every registration of t and adds t to the zombies.
LEMMA BuryFacts ==
    ASSUME SchedInv, NEW t \in Task, Bury(t), state[t] # "ZOMBIE"
    PROVE  Buried(t)
<1>1. /\ waitq \in [Queue -> Seq(Task)]
      /\ wait_entries \in [Task -> SUBSET Queue]
      /\ \A q \in Queue : NoDup(waitq[q])
      /\ \A u \in Task, q \in Queue : InSeq(u, waitq[q]) <=> q \in wait_entries[u]
  BY DEF SchedInv, TypeOK, WaitLinksAgree
<1>2. /\ wait_entries' \in [Task -> SUBSET Queue]
      /\ wait_entries'[t] = {}
      /\ \A u \in Task : u # t => wait_entries'[u] = wait_entries[u]
  BY <1>1 DEF Bury
<1>3. ASSUME NEW q \in Queue
      PROVE  /\ waitq'[q] \in Seq(Task) /\ NoDup(waitq'[q])
             /\ \A u \in Task : InSeq(u, waitq'[q]) <=> InSeq(u, waitq[q]) /\ u # t
  <2>1. CASE q \in wait_entries[t]
    <3>1. waitq'[q] = Without(waitq[q], t)
      BY <2>1 DEF Bury
    <3>2. QED BY <1>1, <3>1, UnlinkList
  <2>2. CASE q \notin wait_entries[t]
    <3>1. waitq'[q] = waitq[q] /\ ~InSeq(t, waitq[q])
      BY <1>1, <2>2 DEF Bury
    <3>2. QED BY <1>1, <3>1
  <2>3. QED BY <2>1, <2>2
<1>4. waitq' \in [Queue -> Seq(Task)]
  <2>1. waitq' = [q \in Queue |-> IF q \in wait_entries[t] THEN Without(waitq[q], t)
                                                           ELSE waitq[q]]
    BY DEF Bury
  <2>2. QED BY <1>3, <2>1
<1>5. \A u \in Task, q \in Queue : InSeq(u, waitq'[q]) <=> q \in wait_entries'[u]
  BY <1>1, <1>2, <1>3
<1>6. zombies \in Seq(Task) /\ NoDup(zombies) /\ ~InSeq(t, zombies) /\ t # reaping
  BY DEF SchedInv, TypeOK, ZombieOnce
<1>7. /\ zombies' \in Seq(Task) /\ NoDup(zombies')
      /\ \A u : InSeq(u, zombies') <=> InSeq(u, zombies) \/ u = t
  <2>1. zombies' = <<t>> \o zombies
    BY DEF Bury
  <2>2. QED BY <1>6, <2>1, PushList
<1>8. QED BY <1>2, <1>3, <1>4, <1>5, <1>6, <1>7 DEF Buried

\* A live thread becomes a zombie, the running one or another.
LEMMA DeathStep ==
    ASSUME SchedInv, NEW t \in Task, state[t] \notin {"FREE", "ZOMBIE"}, Bury(t),
           state' = [state EXCEPT ![t] = "ZOMBIE"],
           runq' = IF t = current THEN runq ELSE Without(runq, t),
           NEW p, Goto(p),
           t = current => p \in {"stop", "ret", "exit"},
           t # current => /\ state[current] \in {"RUNNING", "ZOMBIE"}
                          /\ p = IF current = Idle THEN "rollback" ELSE "stop",
           current = Idle => pc[Idle] # "free",
           UNCHANGED <<kind, current, need_resched, all_threads, reaping, reapFor>>
    PROVE  SchedInv'
<1>0. Buried(t)
  BY BuryFacts
<1>1. t \in Thread /\ t # Idle /\ current \in Thread
  BY SchedAssumption DEF SchedInv, TypeOK, Thread
<1>2. /\ state' \in [Thread -> TaskStates] /\ state'[t] = "ZOMBIE"
      /\ \A u \in Thread : u # t => state'[u] = state[u]
  BY <1>1 DEF SchedInv, TypeOK, TaskStates
<1>3. /\ pc' \in [Thread -> TaskPoints \cup IdlePoints] /\ pc'[current] = p
      /\ \A u \in Thread : u # current => pc'[u] = pc[u]
  BY <1>1 DEF SchedInv, TypeOK, Goto, TaskPoints, IdlePoints
<1>4. /\ runq' \in Seq(Task) /\ NoDup(runq')
      /\ \A u \in Task : InSeq(u, runq') <=> InSeq(u, runq) /\ u # t
  <2>1. runq \in Seq(Task) /\ NoDup(runq)
    BY DEF SchedInv, TypeOK, RunQueueExact
  <2>2. CASE t = current
    <3>1. ~InSeq(t, runq)
      BY <2>2 DEF SchedInv, RunQueueExact, OneRunning
    <3>2. QED BY <2>1, <2>2, <3>1
  <2>3. CASE t # current
    BY <2>1, <2>3, UnlinkList
  <2>4. QED BY <2>2, <2>3
<1>5. TypeOK'
  BY <1>0, <1>2, <1>3, <1>4 DEF SchedInv, TypeOK, Buried
<1>6. RunQueueExact'
  BY <1>2, <1>4 DEF SchedInv, RunQueueExact, Thread
<1>7. WaitLinksAgree'
  <2>1. \A u \in Task :
          /\ wait_entries'[u] # {} => state'[u] \in {"RUNNING", "RUNNABLE", "WAITING"}
          /\ state'[u] = "WAITING" => wait_entries'[u] # {}
    BY <1>0, <1>2 DEF SchedInv, WaitLinksAgree, Thread, Buried
  <2>2. QED BY <1>0, <2>1 DEF WaitLinksAgree, Buried
<1>8. ZombieOnce'
  <2>1. all_threads' = {Idle} \cup {u \in Task : state'[u] # "FREE"}
    BY <1>1, <1>2 DEF SchedInv, ZombieOnce, Thread
  <2>2. \A u \in Task : state'[u] = "ZOMBIE" <=> state[u] = "ZOMBIE" \/ u = t
    BY <1>1, <1>2 DEF Thread
  <2>3. QED BY <1>0, <2>1, <2>2 DEF SchedInv, ZombieOnce, Buried
<1>9. OneRunning'
  <2>1. current = Idle => state[current] # "ZOMBIE"
    BY DEF SchedInv, ProgramPoints
  <2>2. QED BY <1>1, <1>2, <1>3, <2>1 DEF SchedInv, OneRunning
<1>10. ProgramPoints'
  BY <1>1, <1>2, <1>3
     DEF SchedInv, ProgramPoints, TaskPoints, IdlePoints, Thread, OneRunning
<1>11. ReapedBeforeIdle'
  BY <1>1, <1>3 DEF SchedInv, ReapedBeforeIdle, Thread
<1>12. QED BY <1>5, <1>6, <1>7, <1>8, <1>9, <1>10, <1>11 DEF SchedInv

\* thread_exit of a kernel thread.
LEMMA ThreadExitStep == SchedInv /\ ThreadExit => SchedInv'
<1> SUFFICES ASSUME SchedInv, ThreadExit PROVE SchedInv'
  OBVIOUS
<1>1. current \in Task /\ current # Idle /\ pc[current] = "run" /\ state[current] = "RUNNING"
  BY DEF SchedInv, TypeOK, ThreadExit, IsKernelWorker, At, OneRunning, Thread
<1>2. Bury(current) /\ state' = [state EXCEPT ![current] = "ZOMBIE"] /\ Goto("exit")
  BY <1>1 DEF ThreadExit, thread_mark_current_zombie
<1>3. QED BY <1>1, <1>2, DeathStep, Zenon DEF ThreadExit

\* The exit of a user thread.
LEMMA UserExitStep == SchedInv /\ UserExit => SchedInv'
<1> SUFFICES ASSUME SchedInv, UserExit PROVE SchedInv'
  OBVIOUS
<1>1. current \in Task /\ current # Idle /\ pc[current] = "user" /\ state[current] = "RUNNING"
  BY DEF SchedInv, TypeOK, UserExit, At, OneRunning, ProgramPoints, IdlePoints, Thread
<1>2. Bury(current) /\ state' = [state EXCEPT ![current] = "ZOMBIE"] /\ Goto("ret")
  BY <1>1 DEF UserExit, thread_mark_current_zombie
<1>3. QED BY <1>1, <1>2, DeathStep, Zenon DEF UserExit

\* thread_stop_tid of a running thread that then moves to p.
LEMMA StopStep ==
    ASSUME SchedInv, NEW t \in Task, thread_stop_tid(t),
           state[current] \in {"RUNNING", "ZOMBIE"},
           NEW p, Goto(p),
           \/ current # Idle /\ p = "stop"
           \/ current = Idle /\ p = "rollback" /\ pc[Idle] # "free",
           UNCHANGED <<kind, current, need_resched, all_threads, reaping, reapFor>>
    PROVE  SchedInv'
<1>1. state[t] # "FREE" /\ t # Idle
  BY SchedAssumption DEF SchedInv, ZombieOnce, thread_stop_tid
<1>2. CASE state[t] = "ZOMBIE"
  <2>2. UNCHANGED <<state, runq, waitq, wait_entries, zombies>>
    BY <1>2 DEF thread_stop_tid, thread_mark_current_zombie
  <2>1. current = Idle => state[current] = "RUNNING"
    BY DEF SchedInv, ProgramPoints
  <2>3. current = Idle => (p = "free" <=> reaping # None)
    BY DEF SchedInv, ProgramPoints
  <2>4. p \in TaskPoints \/ p \in IdlePoints
    BY DEF TaskPoints, IdlePoints
  <2>5. need_resched' \in BOOLEAN /\ reapFor' \in {"launch", "until", "forever"}
    BY DEF SchedInv, TypeOK
  <2>6. QED BY <2>1, <2>2, <2>3, <2>4, <2>5, GotoStep DEF TaskPoints, IdlePoints
<1>3. CASE state[t] # "ZOMBIE"
  <2>1. /\ Bury(t) /\ state' = [state EXCEPT ![t] = "ZOMBIE"]
        /\ runq' = IF t = current THEN runq ELSE Without(runq, t)
    BY <1>3 DEF thread_stop_tid, thread_mark_current_zombie
  <2>2. QED BY <1>1, <1>3, <2>1, DeathStep, Zenon
<1>4. QED BY <1>2, <1>3

\* thread_stop_tid called by a user thread.
LEMMA UserStopStep ==
    ASSUME SchedInv, NEW t \in Task, UserStop(t) PROVE SchedInv'
<1>1. current # Idle /\ state[current] \in {"RUNNING", "ZOMBIE"}
  BY DEF SchedInv, UserStop, At, OneRunning, ProgramPoints, IdlePoints
<1>2. QED BY <1>1, StopStep DEF UserStop

\* thread_stop_tid called by the shell.
LEMMA ShellStopStep ==
    ASSUME SchedInv, NEW t \in Task, ShellStop(t) PROVE SchedInv'
<1>1. current = Idle /\ state[current] = "RUNNING" /\ pc[Idle] # "free"
  BY Zenon DEF SchedInv, TypeOK, ShellStop, At, OneRunning, ProgramPoints, TaskPoints, Thread
<1>2. QED BY <1>1, StopStep DEF ShellStop

\* thread_exit inside a wait section: the death and the switch are one step.
LEMMA ExitInWaitStep == SchedInv /\ ExitInWait => SchedInv'
<1> SUFFICES ASSUME SchedInv, ExitInWait PROVE SchedInv'
  OBVIOUS
<1> DEFINE st == [state EXCEPT ![current] = "ZOMBIE"]
<1>1. /\ current \in Task /\ current # Idle /\ current \in Thread
      /\ pc[current] = "wait" /\ state[current] \in {"RUNNING", "WAITING"}
      /\ Bury(current) /\ schedule(st) /\ Goto("exit")
  BY DEF SchedInv, TypeOK, ExitInWait, IsKernelWorker, At, OneRunning, Thread
<1>2. /\ st \in [Thread -> TaskStates] /\ st[current] = "ZOMBIE"
      /\ \A u \in Thread : u # current => st[u] = state[u]
  BY <1>1 DEF SchedInv, TypeOK, TaskStates
<1> HIDE DEF st
<1>0. Buried(current)
  BY <1>1, BuryFacts
<1>3. Ready(st)
  BY <1>1, <1>2, IdleRuns
     DEF SchedInv, TypeOK, RunQueueExact, OneRunning, ProgramPoints, Ready, Thread
<1>4. Switched(st)
  BY <1>1, <1>3, ScheduleFacts
<1>5. /\ pc' \in [Thread -> TaskPoints \cup IdlePoints] /\ pc'[current] = "exit"
      /\ \A u \in Thread : u # current => pc'[u] = pc[u]
  BY <1>1 DEF SchedInv, TypeOK, Goto, TaskPoints
<1>6. UNCHANGED <<kind, all_threads, reaping, reapFor>>
  BY SMTT(30) DEF ExitInWait
<1>7. TypeOK'
  BY <1>0, <1>4, <1>5, <1>6, Zenon DEF SchedInv, TypeOK, Switched, Buried
<1>8. RunQueueExact'
  BY <1>4 DEF Switched, RunQueueExact
<1>9. \A u \in Thread :
        /\ u # current => /\ state'[u] \in {"RUNNING", "RUNNABLE"} <=>
                               state[u] \in {"RUNNING", "RUNNABLE"}
                          /\ state[u] \notin {"RUNNING", "RUNNABLE"} => state'[u] = state[u]
        /\ u = current => state'[u] = "ZOMBIE"
  BY <1>2, <1>4 DEF Switched
<1>10. WaitLinksAgree'
  <2>1. \A u \in Task :
          /\ wait_entries'[u] # {} => state'[u] \in {"RUNNING", "RUNNABLE", "WAITING"}
          /\ state'[u] = "WAITING" => wait_entries'[u] # {}
    BY <1>0, <1>9 DEF SchedInv, WaitLinksAgree, Thread, Buried
  <2>2. QED BY <1>0, <2>1 DEF WaitLinksAgree, Buried
<1>11. ZombieOnce'
  <2>1. \A u \in Task : /\ state'[u] = "ZOMBIE" <=> state[u] = "ZOMBIE" \/ u = current
                        /\ state'[u] = "FREE" <=> state[u] = "FREE"
    BY <1>1, <1>9 DEF Thread
  <2>2. all_threads' = {Idle} \cup {u \in Task : state'[u] # "FREE"}
    BY <1>6, <2>1 DEF SchedInv, ZombieOnce
  <2>3. QED BY <1>0, <1>6, <2>1, <2>2 DEF SchedInv, ZombieOnce, Buried
<1>12. ProgramPoints'
  BY <1>1, <1>5, <1>6, <1>9, SchedAssumption
     DEF SchedInv, ProgramPoints, OneRunning, TaskPoints, Thread
<1>13. OneRunning'
  <2>1. current' \in Thread /\ state'[current'] = "RUNNING"
        /\ \A t \in Thread : state'[t] = "RUNNING" => t = current'
    BY <1>4 DEF Switched
  <2>2. current' # current /\ state[current'] = "RUNNABLE"
    BY <1>1, <1>2, <1>4, <2>1 DEF Switched, SchedInv, OneRunning
  <2>3. pc'[current'] # "exit"
    BY <1>5, <2>1, <2>2 DEF SchedInv, ProgramPoints, IdlePoints, Thread
  <2>4. QED BY <2>1, <2>3 DEF OneRunning
<1>14. ReapedBeforeIdle'
  BY <1>1, <1>5, <1>6 DEF SchedInv, ReapedBeforeIdle, Thread
<1>15. QED BY <1>7, <1>8, <1>10, <1>11, <1>12, <1>13, <1>14 DEF SchedInv

---------------------------------------------------------------------------
(* Resource waits.                                                         *)
LEMMA PrepareStep ==
    ASSUME SchedInv, NEW q \in Queue, Prepare(q) PROVE SchedInv'
<1>1. /\ current \in Task /\ current \in Thread /\ current # Idle
      /\ pc[current] \in {"run", "wait"} /\ state[current] \in {"RUNNING", "WAITING"}
  BY DEF SchedInv, TypeOK, Prepare, Thread
<1>2. /\ state' \in [Thread -> TaskStates] /\ state'[current] = "WAITING"
      /\ \A u \in Thread : u # current => state'[u] = state[u]
  BY <1>1 DEF SchedInv, TypeOK, Prepare, TaskStates
<1>3. /\ pc' \in [Thread -> TaskPoints \cup IdlePoints] /\ pc'[current] = "wait"
      /\ \A u \in Thread : u # current => pc'[u] = pc[u]
  BY <1>1 DEF SchedInv, TypeOK, Prepare, Goto, TaskPoints
<1>4. /\ wait_entries' \in [Task -> SUBSET Queue]
      /\ wait_entries'[current] = wait_entries[current] \cup {q}
      /\ \A u \in Task : u # current => wait_entries'[u] = wait_entries[u]
  BY <1>1 DEF SchedInv, TypeOK, Prepare
<1>5. /\ waitq[q] \in Seq(Task) /\ NoDup(waitq[q]) /\ ~InSeq(current, waitq[q])
  BY <1>1 DEF SchedInv, TypeOK, Prepare, WaitLinksAgree
<1>6. /\ waitq'[q] \in Seq(Task) /\ NoDup(waitq'[q])
      /\ \A u : InSeq(u, waitq'[q]) <=> InSeq(u, waitq[q]) \/ u = current
  <2>1. waitq'[q] = Append(waitq[q], current)
    BY DEF SchedInv, TypeOK, Prepare
  <2>2. /\ Append(waitq[q], current) \in Seq(Task)
        /\ NoDup(Append(waitq[q], current))
        /\ \A u : InSeq(u, Append(waitq[q], current)) <=> InSeq(u, waitq[q]) \/ u = current
    <3> DEFINE s == waitq[q]
    <3>1. s \in Seq(Task) /\ NoDup(s) /\ ~InSeq(current, s) /\ current \in Task
      BY <1>1, <1>5
    <3> HIDE DEF s
    <3>2. /\ Append(s, current) \in Seq(Task)
          /\ NoDup(Append(s, current))
          /\ \A u : InSeq(u, Append(s, current)) <=> InSeq(u, s) \/ u = current
      BY <3>1, AppendList
    <3>3. QED BY <3>2 DEF s
  <2>3. QED BY <2>1, <2>2
<1>7. /\ waitq' \in [Queue -> Seq(Task)]
      /\ \A r \in Queue : r # q => waitq'[r] = waitq[r]
  <2>1. Append(waitq[q], current) \in Seq(Task)
    BY <1>1, <1>5, AppendList
  <2>2. QED BY <2>1 DEF SchedInv, TypeOK, Prepare
<1>8. UNCHANGED <<kind, current, runq, need_resched, zombies, all_threads, reaping, reapFor>>
  BY DEF Prepare
<1>9. TypeOK'
  BY <1>2, <1>3, <1>4, <1>7, <1>8 DEF SchedInv, TypeOK
<1>10. RunQueueExact'
  <2>1. \A u \in Task : state'[u] = "RUNNABLE" <=> state[u] = "RUNNABLE"
    BY SMTT(30), <1>1, <1>2 DEF Thread
  <2>2. QED BY <1>8, <2>1, RunQueueKept DEF SchedInv
<1>11. WaitLinksAgree'
  <2>1. \A r \in Queue : NoDup(waitq'[r])
    BY <1>6, <1>7 DEF SchedInv, WaitLinksAgree
  <2>2. \A u \in Task, r \in Queue : InSeq(u, waitq'[r]) <=> r \in wait_entries'[u]
    BY <1>4, <1>6, <1>7 DEF SchedInv, WaitLinksAgree
  <2>3. \A u \in Task :
          /\ wait_entries'[u] # {} => state'[u] \in {"RUNNING", "RUNNABLE", "WAITING"}
          /\ state'[u] = "WAITING" => wait_entries'[u] # {}
    BY <1>1, <1>2, <1>4 DEF SchedInv, WaitLinksAgree, Thread
  <2>4. QED BY <2>1, <2>2, <2>3 DEF WaitLinksAgree
<1>12. ZombieOnce'
  <2>1. \A u \in Task : /\ state'[u] = "ZOMBIE" <=> state[u] = "ZOMBIE"
                        /\ state'[u] = "FREE" <=> state[u] = "FREE"
    BY <1>1, <1>2 DEF Thread
  <2>2. QED BY <1>8, <2>1, ZombiesKept DEF SchedInv
<1>13. OneRunning' /\ ReapedBeforeIdle' /\ ProgramPoints'
  BY <1>1, <1>2, <1>3, <1>8
     DEF SchedInv, OneRunning, ReapedBeforeIdle, ProgramPoints, TaskPoints, Thread
<1>14. QED BY <1>9, <1>10, <1>11, <1>12, <1>13 DEF SchedInv

\* wait_queue_finish.
LEMMA FinishWaitStep ==
    ASSUME SchedInv, NEW q \in Queue, FinishWait(q) PROVE SchedInv'
<1> DEFINE left == wait_entries[current] \ {q}
<1>1. /\ current \in Task /\ current \in Thread /\ current # Idle
      /\ pc[current] = "wait" /\ state[current] \in {"RUNNING", "WAITING"}
  BY DEF SchedInv, TypeOK, FinishWait, At, OneRunning, ProgramPoints, IdlePoints, Thread
<1>2. /\ state' \in [Thread -> TaskStates]
      /\ state'[current] = IF state[current] = "WAITING" /\ left # {}
                           THEN "WAITING" ELSE "RUNNING"
      /\ \A u \in Thread : u # current => state'[u] = state[u]
  BY <1>1 DEF SchedInv, TypeOK, FinishWait, TaskStates
<1>3. /\ pc' \in [Thread -> TaskPoints \cup IdlePoints]
      /\ pc'[current] = IF left = {} THEN "run" ELSE "wait"
      /\ \A u \in Thread : u # current => pc'[u] = pc[u]
  BY <1>1 DEF SchedInv, TypeOK, FinishWait, Goto, TaskPoints
<1>4. /\ wait_entries' \in [Task -> SUBSET Queue]
      /\ wait_entries'[current] = left
      /\ \A u \in Task : u # current => wait_entries'[u] = wait_entries[u]
  BY <1>1 DEF SchedInv, TypeOK, FinishWait
<1>5. waitq[q] \in Seq(Task) /\ NoDup(waitq[q])
  BY DEF SchedInv, TypeOK, WaitLinksAgree
<1>6. /\ Without(waitq[q], current) \in Seq(Task) /\ NoDup(Without(waitq[q], current))
      /\ \A u : InSeq(u, Without(waitq[q], current)) <=> InSeq(u, waitq[q]) /\ u # current
  BY <1>5, UnlinkList
<1>7. /\ waitq' \in [Queue -> Seq(Task)] /\ waitq'[q] = Without(waitq[q], current)
      /\ \A r \in Queue : r # q => waitq'[r] = waitq[r]
  BY <1>6 DEF SchedInv, TypeOK, FinishWait
<1>8. UNCHANGED <<kind, current, runq, need_resched, zombies, all_threads, reaping, reapFor>>
  BY DEF FinishWait
<1>9. TypeOK'
  BY <1>2, <1>3, <1>4, <1>7, <1>8 DEF SchedInv, TypeOK
<1>10. RunQueueExact'
  <2>1. \A u \in Task : state'[u] = "RUNNABLE" <=> state[u] = "RUNNABLE"
    BY SMTT(30), <1>1, <1>2 DEF Thread
  <2>2. QED BY <1>8, <2>1, RunQueueKept DEF SchedInv
<1>11. WaitLinksAgree'
  <2>1. \A r \in Queue : NoDup(waitq'[r])
    BY <1>6, <1>7, Zenon DEF SchedInv, WaitLinksAgree
  <2>2. \A u \in Task, r \in Queue : InSeq(u, waitq'[r]) <=> r \in wait_entries'[u]
    <3> SUFFICES ASSUME NEW u \in Task, NEW r \in Queue
                 PROVE  InSeq(u, waitq'[r]) <=> r \in wait_entries'[u]
      OBVIOUS
    <3>1. InSeq(u, waitq[r]) <=> r \in wait_entries[u]
      BY DEF SchedInv, WaitLinksAgree
    <3>2. CASE r = q
      <4>1. InSeq(u, waitq'[q]) <=> InSeq(u, waitq[q]) /\ u # current
        BY <1>6, <1>7
      <4>2. q \in wait_entries'[u] <=> q \in wait_entries[u] /\ u # current
        BY <1>4
      <4>3. QED BY <3>1, <3>2, <4>1, <4>2
    <3>3. CASE r # q
      <4>1. waitq'[r] = waitq[r]
        BY <1>7, <3>3
      <4>2. r \in wait_entries'[u] <=> r \in wait_entries[u]
        BY <1>4, <3>3
      <4>3. QED BY <3>1, <4>1, <4>2
    <3>4. QED BY <3>2, <3>3
  <2>3. \A u \in Task :
          /\ wait_entries'[u] # {} => state'[u] \in {"RUNNING", "RUNNABLE", "WAITING"}
          /\ state'[u] = "WAITING" => wait_entries'[u] # {}
    BY <1>1, <1>2, <1>4 DEF SchedInv, WaitLinksAgree, Thread
  <2>4. QED BY <2>1, <2>2, <2>3 DEF WaitLinksAgree
<1>12. ZombieOnce'
  <2>1. \A u \in Task : /\ state'[u] = "ZOMBIE" <=> state[u] = "ZOMBIE"
                        /\ state'[u] = "FREE" <=> state[u] = "FREE"
    BY <1>1, <1>2 DEF Thread
  <2>2. QED BY <1>8, <2>1, ZombiesKept DEF SchedInv
<1>13. OneRunning' /\ ReapedBeforeIdle' /\ ProgramPoints'
  BY <1>1, <1>2, <1>3, <1>8
     DEF SchedInv, OneRunning, ReapedBeforeIdle, ProgramPoints, TaskPoints, Thread
<1>14. QED BY <1>9, <1>10, <1>11, <1>12, <1>13 DEF SchedInv

\* wait_queue_wake_one.
LEMMA WakeOneStep ==
    ASSUME SchedInv, NEW q \in Queue, WakeOne(q) PROVE SchedInv'
<1>1. PICK i \in 1..Len(waitq[q]) : WakeWaiter(waitq[q][i])
  BY SMTT(30) DEF WakeOne
<1> DEFINE t == waitq[q][i]
<1>2. t \in Task /\ t \in Thread /\ t # Idle /\ state[t] = "WAITING" /\ pc[t] = "wait"
  <2>1. t \in Task
    BY ElementOfSeq DEF SchedInv, TypeOK
  <2>2. QED BY <1>1, <2>1, SchedAssumption DEF WakeWaiter, Thread, SchedInv, ProgramPoints
<1>3. WakeWaiter(t)
  BY <1>1
<1> HIDE DEF t
<1>4. UNCHANGED <<kind, pc, current, waitq, wait_entries, zombies, all_threads, reaping, reapFor>>
  BY DEF WakeOne
<1>5. /\ state' \in [Thread -> TaskStates]
      /\ state'[t] = IF t = current THEN "RUNNING" ELSE "RUNNABLE"
      /\ \A u \in Thread : u # t => state'[u] = state[u]
  BY <1>2, <1>3, Zenon DEF SchedInv, TypeOK, WakeWaiter, TaskStates
<1>6. /\ runq' \in Seq(Task) /\ NoDup(runq')
      /\ \A u \in Task : InSeq(u, runq') <=> InSeq(u, runq) \/ (u = t /\ t # current)
  <2>1. runq \in Seq(Task) /\ NoDup(runq) /\ ~InSeq(t, runq)
    BY <1>2 DEF SchedInv, TypeOK, RunQueueExact
  <2>2. CASE t = current
    BY <1>3, <2>1, <2>2 DEF WakeWaiter
  <2>3. CASE t # current
    <3>1. runq' = Append(runq, t)
      BY <1>3, <2>3 DEF WakeWaiter
    <3>2. QED BY <1>2, <2>1, <2>3, <3>1, AppendList
  <2>4. QED BY <2>2, <2>3
<1>7. need_resched' \in BOOLEAN
  BY <1>3, Zenon DEF SchedInv, TypeOK, WakeWaiter
<1>8. TypeOK'
  BY <1>4, <1>5, <1>6, <1>7 DEF SchedInv, TypeOK
<1>9. RunQueueExact'
  BY <1>2, <1>5, <1>6 DEF SchedInv, RunQueueExact, Thread
<1>10. WaitLinksAgree'
  <2>1. waitq' = waitq /\ wait_entries' = wait_entries
    BY <1>4
  <2>2. /\ \A r \in Queue : NoDup(waitq'[r])
        /\ \A u \in Task, r \in Queue : InSeq(u, waitq'[r]) <=> r \in wait_entries'[u]
    BY <2>1 DEF SchedInv, WaitLinksAgree
  <2>3. \A u \in Task :
          /\ wait_entries'[u] # {} => state'[u] \in {"RUNNING", "RUNNABLE", "WAITING"}
          /\ state'[u] = "WAITING" => wait_entries'[u] # {}
    BY <2>1, <1>2, <1>5 DEF SchedInv, WaitLinksAgree, Thread
  <2>4. QED BY <2>2, <2>3 DEF WaitLinksAgree
<1>11. ZombieOnce'
  <2>1. \A u \in Task : /\ state'[u] = "ZOMBIE" <=> state[u] = "ZOMBIE"
                        /\ state'[u] = "FREE" <=> state[u] = "FREE"
    BY <1>2, <1>5 DEF Thread
  <2>2. QED BY <1>4, <2>1, ZombiesKept DEF SchedInv
<1>12. OneRunning' /\ ReapedBeforeIdle' /\ ProgramPoints'
  BY <1>2, <1>4, <1>5
     DEF SchedInv, TypeOK, OneRunning, ReapedBeforeIdle, ProgramPoints, Thread
<1>13. QED BY <1>8, <1>9, <1>10, <1>11, <1>12 DEF SchedInv

---------------------------------------------------------------------------
(* The reaper.                                                             *)
LEMMA ReapPopStep == SchedInv /\ ReapPop => SchedInv'
<1> SUFFICES ASSUME SchedInv, ReapPop PROVE SchedInv'
  OBVIOUS
<1>1. current = Idle /\ pc[Idle] = "reap" /\ reaping = None /\ state[Idle] = "RUNNING"
  BY IdleRuns, Zenon DEF SchedInv, TypeOK, ReapPop, At, ProgramPoints, TaskPoints, Thread
<1>2. CASE zombies # <<>>
  <2>1. /\ Head(zombies) \in Task /\ InSeq(Head(zombies), zombies)
        /\ Tail(zombies) \in Seq(Task) /\ NoDup(Tail(zombies))
        /\ \A x : InSeq(x, Tail(zombies)) <=> InSeq(x, zombies) /\ x # Head(zombies)
    BY <1>2, PopList DEF SchedInv, TypeOK, ZombieOnce
  <2>2. reaping' = Head(zombies) /\ zombies' = Tail(zombies) /\ Goto("free")
    BY <1>1, <1>2, <2>1, SchedAssumption, Zenon DEF ReapPop
  <2>3. UNCHANGED <<state, kind, current, runq, need_resched, waitq,
                    wait_entries, all_threads, reapFor>>
    BY DEF ReapPop
  <2>4. /\ pc' \in [Thread -> TaskPoints \cup IdlePoints] /\ pc'[Idle] = "free"
        /\ \A u \in Thread : u # Idle => pc'[u] = pc[u]
    BY <1>1, <2>2 DEF SchedInv, TypeOK, Goto, IdlePoints, Thread
  <2>5. TypeOK'
    BY <2>1, <2>2, <2>3, <2>4 DEF SchedInv, TypeOK
  <2>6. RunQueueExact' /\ WaitLinksAgree'
    <3>1. \A t \in Task : state'[t] = state[t]
      BY <2>3
    <3>2. \A t \in Task : wait_entries[t] # {} => state'[t] \in {"RUNNING", "RUNNABLE", "WAITING"}
      BY SMTT(30), <3>1 DEF SchedInv, WaitLinksAgree
    <3>3. QED BY <2>3, <3>1, <3>2, RunQueueKept, WaitLinksKept DEF SchedInv
  <2>7. ZombieOnce'
    BY SMTT(30), <1>1, <2>1, <2>2, <2>3, SchedAssumption DEF SchedInv, ZombieOnce
  <2>8. OneRunning' /\ ReapedBeforeIdle' /\ ProgramPoints'
    BY <1>1, <2>1, <2>2, <2>3, <2>4, SchedAssumption
       DEF SchedInv, OneRunning, ReapedBeforeIdle, ProgramPoints, IdlePoints, Thread
  <2>9. QED BY <2>5, <2>6, <2>7, <2>8 DEF SchedInv
<1>3. CASE zombies = <<>>
  <2> DEFINE p == IF reapFor = "launch" THEN "shell" ELSE "check"
  <2>1. /\ Goto(p) /\ UNCHANGED <<state, kind, current, runq, need_resched, waitq,
                    wait_entries, zombies, all_threads, reaping, reapFor>>
    BY <1>3 DEF ReapPop
  <2>2. p \in IdlePoints /\ p # "free"
    BY DEF IdlePoints
  <2>3. need_resched' \in BOOLEAN /\ reapFor' \in {"launch", "until", "forever"}
    BY <2>1 DEF SchedInv, TypeOK
  <2> HIDE DEF p
  <2>4. QED BY <1>1, <1>3, <2>1, <2>2, <2>3, GotoStep
<1>4. QED BY <1>2, <1>3

\* kill_zombies frees the thread it has taken off the list.
LEMMA ReapFreeStep == SchedInv /\ ReapFree => SchedInv'
<1> SUFFICES ASSUME SchedInv, ReapFree PROVE SchedInv'
  OBVIOUS
<1>1. /\ current = Idle /\ pc[Idle] = "free" /\ state[Idle] = "RUNNING"
      /\ reaping \in Task /\ reaping \in Thread /\ reaping # Idle
      /\ state[reaping] = "ZOMBIE" /\ ~InSeq(reaping, zombies)
  <2>1. current = Idle
    BY Zenon DEF SchedInv, TypeOK, ReapFree, At, ProgramPoints, TaskPoints, Thread
  <2>2. pc[Idle] = "free" /\ reaping \in Task
    BY <2>1 DEF SchedInv, TypeOK, ReapFree, At, ProgramPoints
  <2>3. QED BY <2>1, <2>2, IdleRuns, SchedAssumption DEF SchedInv, ZombieOnce, Thread
<1>2. /\ state' \in [Thread -> TaskStates] /\ state'[reaping] = "FREE"
      /\ \A u \in Thread : u # reaping => state'[u] = state[u]
  BY <1>1 DEF SchedInv, TypeOK, ReapFree, TaskStates
<1>3. /\ pc' \in [Thread -> TaskPoints \cup IdlePoints]
      /\ pc'[reaping] = "boot" /\ pc'[Idle] = "reap"
      /\ \A u \in Thread : u # reaping /\ u # Idle => pc'[u] = pc[u]
  BY <1>1 DEF SchedInv, TypeOK, ReapFree, TaskPoints, IdlePoints, Thread
<1>4. /\ reaping' = None /\ all_threads' = all_threads \ {reaping}
      /\ kind' \in [Task -> Kinds]
      /\ UNCHANGED <<current, runq, need_resched, waitq, wait_entries, zombies, reapFor>>
  BY <1>1 DEF ReapFree, SchedInv, TypeOK, Kinds
<1>5. TypeOK'
  BY SMTT(30), <1>2, <1>3, <1>4 DEF SchedInv, TypeOK
<1>6. RunQueueExact'
  <2>1. \A u \in Task : state'[u] = "RUNNABLE" <=> state[u] = "RUNNABLE"
    BY <1>1, <1>2 DEF Thread
  <2>2. QED BY <1>4, <2>1, RunQueueKept DEF SchedInv
<1>7. WaitLinksAgree'
  <2>1. \A u \in Task :
          /\ wait_entries[u] # {} => state'[u] \in {"RUNNING", "RUNNABLE", "WAITING"}
          /\ state'[u] = "WAITING" => state[u] = "WAITING"
    BY <1>1, <1>2 DEF SchedInv, WaitLinksAgree, Thread
  <2>2. QED BY <1>4, <2>1, WaitLinksKept DEF SchedInv
<1>8. ZombieOnce'
  <2>1. all_threads' = {Idle} \cup {u \in Task : state'[u] # "FREE"}
    BY <1>1, <1>2, <1>4 DEF SchedInv, ZombieOnce, Thread
  <2>2. \A u \in Task : InSeq(u, zombies) => u # None
    BY SchedAssumption
  <2>3. \A u \in Task : state'[u] = "ZOMBIE" <=> InSeq(u, zombies)
    BY SMTT(30), <1>1, <1>2 DEF SchedInv, ZombieOnce, Thread
  <2>4. QED BY SMTT(30), <1>4, <2>1, <2>2, <2>3, SchedAssumption DEF SchedInv, ZombieOnce, NoDup, InSeq
<1>9. OneRunning' /\ ReapedBeforeIdle' /\ ProgramPoints'
  BY <1>1, <1>2, <1>3, <1>4
     DEF SchedInv, OneRunning, ReapedBeforeIdle, ProgramPoints, TaskPoints, IdlePoints, Thread
<1>10. QED BY SMTT(30), <1>5, <1>6, <1>7, <1>8, <1>9 DEF SchedInv

---------------------------------------------------------------------------
(* Steps of the trap path and the idle loop that only move.                *)
LEMMA MoveStep ==
    ASSUME SchedInv,
           \/ thread_bootstrap \/ TimerTrap \/ OtherTrap \/ BlockingEcall
           \/ BlockingEcallDone \/ UserStopDone \/ TrapExited
    PROVE  SchedInv'
<1>1. /\ need_resched' \in BOOLEAN /\ reapFor' \in {"launch", "until", "forever"}
      /\ UNCHANGED <<state, kind, current, runq, waitq, wait_entries,
                     zombies, all_threads, reaping>>
  BY Zenon DEF SchedInv, TypeOK, thread_bootstrap, TimerTrap, OtherTrap, BlockingEcall,
         BlockingEcallDone, UserStopDone, TrapExited
<1>2. /\ pc[current] \in {"boot", "user", "run", "stop", "ret"}
      /\ current # Idle
  BY Zenon DEF SchedInv, ProgramPoints, IdlePoints, At, thread_bootstrap, TimerTrap,
         OtherTrap, BlockingEcall, BlockingEcallDone, UserStopDone, TrapExited
<1>3. CASE TrapExited
  <2>1. Goto("exit") /\ state[current] = "ZOMBIE" /\ "exit" \in TaskPoints
    BY <1>3 DEF TrapExited, TaskPoints
  <2>2. QED BY <1>1, <1>2, <2>1, GotoStep, Zenon
<1>4. CASE UserStopDone
  <2>1. Goto("ret") /\ "ret" \in TaskPoints /\ state[current] \in {"RUNNING", "ZOMBIE"}
    BY <1>4 DEF UserStopDone, At, TaskPoints, SchedInv, OneRunning
  <2>2. QED BY <1>1, <1>2, <2>1, GotoStep
<1>5. CASE ~TrapExited /\ ~UserStopDone
  <2>1. PICK p \in {"user", "run", "ret"} : Goto(p)
    BY <1>5 DEF thread_bootstrap, TimerTrap, OtherTrap, BlockingEcall, BlockingEcallDone
  <2>2. state[current] = "RUNNING" /\ p \in TaskPoints /\ p # "exit"
    <3>1. pc[current] \notin {"stop", "ret"}
      BY <1>5 DEF At, thread_bootstrap, TimerTrap, OtherTrap, BlockingEcall, BlockingEcallDone
    <3>2. QED BY <1>2, <3>1 DEF SchedInv, OneRunning, TaskPoints
  <2>3. QED BY <1>1, <1>2, <2>1, <2>2, GotoStep
<1>6. QED BY <1>3, <1>4, <1>5

\* The idle thread moves between its loops without a switch.
LEMMA IdleMoveStep ==
    ASSUME SchedInv,
           \/ \E c \in {"launch", "until", "forever"} : EnterReaper(c)
           \/ IdleCheck \/ WfiEnds
    PROVE  SchedInv'
<1>1. /\ need_resched' \in BOOLEAN /\ reapFor' \in {"launch", "until", "forever"}
      /\ UNCHANGED <<state, kind, current, runq, waitq, wait_entries,
                     zombies, all_threads, reaping>>
  BY DEF SchedInv, TypeOK, EnterReaper, IdleCheck, WfiEnds
<1>2. current = Idle /\ pc[Idle] \in {"shell", "rollback", "check", "wfi"}
  BY Zenon DEF SchedInv, TypeOK, ProgramPoints, TaskPoints, Thread, At, EnterReaper, IdleCheck, WfiEnds
<1>3. reaping = None /\ (pc[Idle] \in {"check", "wfi"} => zombies = <<>>)
  BY <1>2 DEF SchedInv, ReapedBeforeIdle, ProgramPoints
<1>4. CASE \E c \in {"launch", "until", "forever"} : EnterReaper(c)
  <2>1. Goto("reap") /\ "reap" \in IdlePoints
    BY <1>4 DEF EnterReaper, IdlePoints
  <2>2. QED BY <1>1, <1>2, <1>3, <2>1, GotoStep, Zenon
<1>5. CASE IdleCheck \/ WfiEnds
  <2>1. zombies = <<>>
    BY <1>2, <1>3, <1>5 DEF IdleCheck, WfiEnds, At
  <2>2. PICK p \in {"sched", "shell", "wfi"} : Goto(p)
    BY <1>5 DEF IdleCheck, WfiEnds
  <2>3. p \in IdlePoints /\ p # "free"
    BY DEF IdlePoints
  <2>4. QED BY <1>1, <1>2, <1>3, <2>1, <2>2, <2>3, GotoStep
<1>6. QED BY <1>4, <1>5

\* The steps that only switch: yield, sleep, last switch of a zombie,
\* preemption on the way back to U-mode, the idle loop.
LEMMA ScheduleStep ==
    ASSUME SchedInv,
           \/ ExitSchedule \/ thread_yield \/ WaitLocked \/ TrapResume
           \/ IdleSchedule
    PROVE  SchedInv'
<1>0. pc \in [Thread -> TaskPoints \cup IdlePoints] /\ current \in Thread
  BY DEF SchedInv, TypeOK
<1>1. CASE ExitSchedule \/ thread_yield \/ WaitLocked
  <2>1. /\ schedule(state)
        /\ UNCHANGED <<kind, pc, waitq, wait_entries, zombies, all_threads, reaping, reapFor>>
    BY <1>1 DEF ExitSchedule, thread_yield, WaitLocked
  <2>2. Goto(pc[current])
    BY <1>0, <2>1 DEF Goto
  <2>3. current # Idle /\ pc[current] \in TaskPoints
    BY SMTT(30), <1>0, <1>1 DEF ExitSchedule, thread_yield, WaitLocked, IsKernelWorker, At, SchedInv,
                      ProgramPoints, IdlePoints, Thread
  <2>4. /\ state[current] = "RUNNING" => pc[current] \in {"boot", "run", "wait", "user"}
        /\ state[current] = "WAITING" => pc[current] = "wait"
    BY <1>1, Zenon DEF ExitSchedule, thread_yield, WaitLocked, At, SchedInv, OneRunning
  <2>5. QED BY <2>1, <2>2, <2>3, <2>4, SwitchStep
<1>2. CASE TrapResume
  <2>1. /\ Goto("user") /\ "user" \in TaskPoints
        /\ UNCHANGED <<kind, waitq, wait_entries, zombies, all_threads, reaping, reapFor>>
    BY <1>2 DEF TrapResume, TaskPoints
  <2>2. current # Idle /\ state[current] = "RUNNING"
    BY <1>2, Zenon DEF TrapResume, At, SchedInv, OneRunning, ProgramPoints, IdlePoints
  <2>3. CASE need_resched
    <3>1. schedule(state)
      BY <1>2, <2>3 DEF TrapResume
    <3>2. QED BY <2>1, <2>2, <3>1, SwitchStep
  <2>4. CASE ~need_resched
    <3>1. UNCHANGED <<state, current, runq, need_resched>>
      BY <1>2, <2>4 DEF TrapResume
    <3>2. need_resched' \in BOOLEAN /\ reapFor' \in {"launch", "until", "forever"}
      BY <2>1, <3>1 DEF SchedInv, TypeOK
    <3>3. QED BY <2>1, <2>2, <3>1, <3>2, GotoStep
  <2>5. QED BY <2>3, <2>4
<1>3. CASE IdleSchedule
  <2>1. /\ Goto("reap") /\ schedule(state)
        /\ UNCHANGED <<kind, waitq, wait_entries, zombies, all_threads, reaping, reapFor>>
    BY <1>3 DEF IdleSchedule
  <2>2. current = Idle /\ reaping = None
    BY <1>0, <1>3 DEF IdleSchedule, At, SchedInv, ProgramPoints, TaskPoints, ReapedBeforeIdle, Thread
  <2>3. QED BY <2>1, <2>2, SwitchStep
<1>4. QED BY <1>1, <1>2, <1>3

---------------------------------------------------------------------------
(* The theorems.                                                           *)
LEMMA InitInv == Init => SchedInv
<1> SUFFICES ASSUME Init PROVE SchedInv
  OBVIOUS
<1>1. <<>> \in Seq(Task) /\ Len(<<>>) = 0
  BY EmptySeq
<1>2. TypeOK
  BY <1>1, Zenon DEF Init, TypeOK, Thread, TaskStates, Kinds, TaskPoints, IdlePoints
<1>3. NoDup(<<>>) /\ \A t : ~InSeq(t, <<>>)
  BY <1>1 DEF NoDup, InSeq
<1>4. \A t \in Task : state[t] = "FREE" /\ pc[t] = "boot" /\ t # None
  BY SchedAssumption, Zenon DEF Init, Thread
<1>5. state[Idle] = "RUNNING" /\ pc[Idle] = "shell"
  BY DEF Init, Thread
<1>6. RunQueueExact /\ WaitLinksAgree
  BY <1>3, <1>4, Zenon DEF Init, RunQueueExact, WaitLinksAgree
<1>7. ZombieOnce
  BY <1>3, <1>4, Zenon DEF Init, ZombieOnce
<1>8. OneRunning /\ ReapedBeforeIdle /\ ProgramPoints
  BY <1>4, <1>5, Zenon
     DEF Init, OneRunning, ReapedBeforeIdle, ProgramPoints, IdlePoints, TaskPoints, Thread
<1>9. QED BY <1>2, <1>6, <1>7, <1>8 DEF SchedInv

\* Every step of the scheduler keeps the inductive invariant.
LEMMA NextInv == SchedInv /\ [Next]_vars => SchedInv'
<1> SUFFICES ASSUME SchedInv, [Next]_vars PROVE SchedInv'
  OBVIOUS
<1>1. ASSUME NEW t \in Task, NEW k \in Kinds, ShellCreate(t, k) PROVE SchedInv'
  BY <1>1, PublishStep, Zenon DEF ShellCreate
<1>2. ASSUME NEW t \in Task, UserCreate(t) PROVE SchedInv'
  BY <1>2, PublishStep, Zenon DEF UserCreate, Kinds
<1>3. ASSUME NEW t \in Task, UserStop(t) \/ ShellStop(t) PROVE SchedInv'
  BY <1>3, UserStopStep, ShellStopStep
<1>4. ASSUME NEW q \in Queue, Prepare(q) \/ FinishWait(q) \/ WakeOne(q) PROVE SchedInv'
  BY <1>4, PrepareStep, FinishWaitStep, WakeOneStep
<1>5. CASE \/ \E c \in {"launch", "until", "forever"} : EnterReaper(c)
           \/ IdleCheck \/ WfiEnds
  BY <1>5, IdleMoveStep
<1>6. CASE ThreadExit \/ ExitInWait \/ UserExit
  BY <1>6, ThreadExitStep, ExitInWaitStep, UserExitStep
<1>7. CASE ExitSchedule \/ thread_yield \/ WaitLocked \/ TrapResume \/ IdleSchedule
  BY <1>7, ScheduleStep
<1>8. CASE \/ thread_bootstrap \/ TimerTrap \/ OtherTrap \/ BlockingEcall
           \/ BlockingEcallDone \/ UserStopDone \/ TrapExited
  BY <1>8, MoveStep
<1>9. CASE ReapPop \/ ReapFree
  BY <1>9, ReapPopStep, ReapFreeStep
<1>10. CASE UNCHANGED vars
  <2>1. UNCHANGED <<state, kind, pc, current, runq, need_resched, waitq,
                    wait_entries, zombies, all_threads, reaping, reapFor>>
    BY <1>10 DEF vars
  <2>2. \A t \in Task :
          /\ state'[t] = state[t]
          /\ wait_entries[t] # {} => state'[t] \in {"RUNNING", "RUNNABLE", "WAITING"}
    BY <2>1, Zenon DEF SchedInv, WaitLinksAgree
  <2>3. RunQueueExact' /\ WaitLinksAgree' /\ ZombieOnce'
    BY <2>1, <2>2, RunQueueKept, WaitLinksKept, ZombiesKept DEF SchedInv
  <2>4. TypeOK'
    BY <2>1 DEF SchedInv, TypeOK
  <2>5. OneRunning' /\ ReapedBeforeIdle' /\ ProgramPoints'
    BY <2>1 DEF SchedInv, OneRunning, ReapedBeforeIdle, ProgramPoints
  <2>6. QED BY <2>3, <2>4, <2>5 DEF SchedInv
<1>11. QED
  BY <1>1, <1>2, <1>3, <1>4, <1>5, <1>6, <1>7, <1>8, <1>9, <1>10 DEF Next

\* The scheduler's inductive invariant holds in every reachable state, for
\* every number of tasks and wait queues.
THEOREM Invariance == Spec => []SchedInv
BY InitInv, NextInv, PTL DEF Spec

\* Every variable keeps its type.
THEOREM TypeCorrect == Spec => []TypeOK
<1>1. SchedInv => TypeOK
  BY DEF SchedInv
<1>2. QED BY <1>1, Invariance, PTL

\* The run queue of sched.c is exact: it holds each RUNNABLE worker once and
\* nothing else, so schedule() never drops a runnable thread and never
\* switches to one that is asleep, dead or freed.
THEOREM RunQueueIsExact == Spec => []RunQueueExact
<1>1. SchedInv => RunQueueExact
  BY DEF SchedInv
<1>2. QED BY <1>1, Invariance, PTL

\* Wait queues and registrations agree: wait.c never leaves a node on the
\* stack of a dead thread, and every sleeper can be found by a wakeup.
THEOREM WaitLinksStayPaired == Spec => []WaitLinksAgree
<1>1. SchedInv => WaitLinksAgree
  BY DEF SchedInv
<1>2. QED BY <1>1, Invariance, PTL

\* Every dead thread is on the zombie list or with the reaper, once.
THEOREM ZombiesFreedOnce == Spec => []ZombieOnce
<1>1. SchedInv => ZombieOnce
  BY DEF SchedInv
<1>2. QED BY <1>1, Invariance, PTL

\* At most one thread is RUNNING, and the thread on the CPU is alive except
\* on its way out.
THEOREM OneThreadRuns == Spec => []OneRunning
<1>1. SchedInv => OneRunning
  BY DEF SchedInv
<1>2. QED BY <1>1, Invariance, PTL

\* The boot thread sleeps, schedules or prompts only when nothing is left
\* to free.
THEOREM IdleHasReaped == Spec => []ReapedBeforeIdle
<1>1. SchedInv => ReapedBeforeIdle
  BY DEF SchedInv
<1>2. QED BY <1>1, Invariance, PTL

---------------------------------------------------------------------------
(* Action properties.                                                      *)

\* schedule() from the states it is called in leaves dead threads dead.
LEMMA ScheduleKeepsZombies ==
    ASSUME SchedInv, schedule(state), NEW t \in Task, state[t] = "ZOMBIE"
    PROVE  state'[t] = "ZOMBIE"
<1>1. Ready(state)
  BY IdleRuns DEF SchedInv, TypeOK, RunQueueExact, OneRunning, ProgramPoints, Ready
<1>2. Switched(state)
  BY SMTT(30), <1>1, IdleRuns, ScheduleFacts
<1>3. QED BY SMTT(30), <1>2 DEF Switched, Thread

\* A zombie stays one until it is freed, off the CPU and off the run queue.
LEMMA ZombieStep ==
    ASSUME SchedInv, Next, NEW t \in Task, state[t] = "ZOMBIE"
    PROVE  \/ state'[t] = "ZOMBIE"
           \/ state'[t] = "FREE" /\ t # current /\ ~InSeq(t, runq)
<1>0. state \in [Thread -> TaskStates] /\ t \in Thread /\ t # Idle /\ current \in Thread
  BY SchedAssumption DEF SchedInv, TypeOK, Thread
<1>1. ASSUME NEW u \in Task, NEW k \in Kinds, ShellCreate(u, k) \/ UserCreate(u)
      PROVE  state'[t] = "ZOMBIE"
  BY <1>0, <1>1 DEF ShellCreate, UserCreate, thread_publish
<1>2. ASSUME NEW u \in Task, UserStop(u) \/ ShellStop(u) PROVE state'[t] = "ZOMBIE"
  BY <1>0, <1>2 DEF UserStop, ShellStop, thread_stop_tid, thread_mark_current_zombie
<1>3. ASSUME NEW q \in Queue, Prepare(q) \/ FinishWait(q) PROVE state'[t] = "ZOMBIE"
  BY <1>0, <1>3 DEF Prepare, FinishWait
<1>4. ASSUME NEW q \in Queue, WakeOne(q) PROVE state'[t] = "ZOMBIE"
  <2>1. PICK i \in 1..Len(waitq[q]) : WakeWaiter(waitq[q][i])
    BY <1>4 DEF WakeOne
  <2>2. QED BY <1>0, <2>1 DEF WakeWaiter
<1>5. CASE ThreadExit \/ UserExit
  BY <1>0, <1>5 DEF ThreadExit, UserExit, thread_mark_current_zombie
<1>6. CASE ExitInWait
  <2> DEFINE st == [state EXCEPT ![current] = "ZOMBIE"]
  <2>1. /\ current # Idle /\ schedule(st) /\ pc[current] = "wait"
        /\ st \in [Thread -> TaskStates] /\ st[current] = "ZOMBIE"
        /\ \A u \in Thread : u # current => st[u] = state[u]
    BY SMTT(30), <1>0, <1>6 DEF ExitInWait, IsKernelWorker, At, TaskStates
  <2> HIDE DEF st
  <2>2. Ready(st)
    BY SMTT(30), <2>1, IdleRuns
       DEF SchedInv, TypeOK, RunQueueExact, OneRunning, ProgramPoints, Ready, Thread
  <2>3. Switched(st)
    BY <2>1, <2>2, ScheduleFacts, Zenon
  <2>4. st[t] = "ZOMBIE"
    BY SMTT(30), <1>0, <2>1
  <2>5. QED BY <1>0, <2>3, <2>4 DEF Switched
<1>7. CASE ExitSchedule \/ thread_yield \/ WaitLocked \/ IdleSchedule
  <2>1. schedule(state)
    BY <1>7 DEF ExitSchedule, thread_yield, WaitLocked, IdleSchedule
  <2>2. QED BY <2>1, ScheduleKeepsZombies, Zenon
<1>8. CASE TrapResume
  BY SMTT(30), <1>8, ScheduleKeepsZombies DEF TrapResume
<1>9. CASE \/ \E c \in {"launch", "until", "forever"} : EnterReaper(c)
           \/ IdleCheck \/ WfiEnds \/ thread_bootstrap \/ TimerTrap \/ OtherTrap
           \/ BlockingEcall \/ BlockingEcallDone \/ UserStopDone \/ TrapExited \/ ReapPop
  BY <1>9 DEF EnterReaper, IdleCheck, WfiEnds, thread_bootstrap, TimerTrap, OtherTrap,
              BlockingEcall, BlockingEcallDone, UserStopDone, TrapExited, ReapPop
<1>10. CASE ReapFree
  <2>1. current = Idle
    BY <1>10, Zenon DEF SchedInv, TypeOK, ReapFree, At, ProgramPoints, TaskPoints, Thread
  <2>2. ~InSeq(t, runq)
    BY DEF SchedInv, RunQueueExact
  <2>3. QED BY <1>0, <1>10, <2>1, <2>2 DEF ReapFree
<1>11. QED
  BY <1>1, <1>2, <1>3, <1>4, <1>5, <1>6, <1>7, <1>8, <1>9, <1>10, Zenon DEF Next, Kinds

\* A zombie never runs again and is never woken, queued or resumed; it only
\* becomes free memory, off the CPU and off the run queue.
THEOREM DeadStayDead == Spec => NoResurrection
<1>1. SchedInv /\ [Next]_vars =>
        [\A t \in Task : state[t] = "ZOMBIE" =>
           \/ state'[t] = "ZOMBIE"
           \/ state'[t] = "FREE" /\ t # current /\ ~InSeq(t, runq)]_vars
  BY ZombieStep
<1>2. QED BY <1>1, Invariance, PTL DEF Spec, NoResurrection

\* The shell prompt comes back only when every thread is freed.
LEMMA ReturnStep ==
    ASSUME SchedInv, Next, pc[Idle] = "check", pc'[Idle] = "shell"
    PROVE  /\ \A t \in Task : state[t] = "FREE"
           /\ \A q \in Queue : waitq[q] = <<>>
<1>1. current = Idle /\ zombies = <<>> /\ reaping = None
  BY DEF SchedInv, ReapedBeforeIdle
<1>2. At("check")
  BY <1>1 DEF At
<1>3. IdleCheck
  <2>1. ASSUME NEW u \in Task, NEW k \in Kinds,
               ShellCreate(u, k) \/ UserCreate(u) \/ UserStop(u) \/ ShellStop(u)
        PROVE  FALSE
    BY SMTT(30), <1>2, <2>1 DEF At, ShellCreate, UserCreate, UserStop, ShellStop
  <2>2. ASSUME NEW q \in Queue, Prepare(q) \/ FinishWait(q) \/ WakeOne(q) PROVE FALSE
    BY SMTT(30), <1>1, <1>2, <2>2 DEF At, Prepare, FinishWait, WakeOne, IrqsOn
  <2>3. ~ \E c \in {"launch", "until", "forever"} : EnterReaper(c)
    BY SMTT(30), <1>2 DEF At, EnterReaper
  <2>4. ~ (\/ thread_bootstrap \/ ThreadExit \/ ExitInWait \/ UserExit
           \/ ExitSchedule \/ thread_yield \/ WaitLocked
           \/ TimerTrap \/ OtherTrap \/ BlockingEcall \/ BlockingEcallDone
           \/ UserStopDone \/ TrapExited \/ TrapResume
           \/ ReapPop \/ ReapFree \/ WfiEnds \/ IdleSchedule)
    BY <1>2, Zenon DEF At, thread_bootstrap, ThreadExit, ExitInWait, UserExit, ExitSchedule,
                thread_yield, WaitLocked, TimerTrap, OtherTrap, BlockingEcall,
                BlockingEcallDone, UserStopDone, TrapExited, TrapResume, ReapPop, ReapFree, WfiEnds,
                IdleSchedule
  <2>5. QED BY <2>1, <2>2, <2>3, <2>4, Zenon DEF Next, Kinds
<1>4. ~thread_has_live_workers
  <2>1. Goto(IF runq # <<>> THEN "sched"
             ELSE IF reapFor = "until" /\ ~thread_has_live_workers THEN "shell" ELSE "wfi")
    BY <1>3, Zenon DEF IdleCheck
  <2>2. pc \in [Thread -> TaskPoints \cup IdlePoints] /\ Idle \in Thread
    BY DEF SchedInv, TypeOK, Thread
  <2>3. QED BY SMTT(30), <1>1, <2>1, <2>2 DEF Goto
<1>5. \A t \in Task : ~InSeq(t, zombies) /\ t # reaping
  <2>1. Len(zombies) = 0
    BY <1>1, EmptySeq
  <2>2. 1..Len(zombies) = {}
    BY <2>1
  <2>3. ASSUME NEW t \in Task PROVE ~InSeq(t, zombies)
    BY <2>2 DEF InSeq
  <2>4. ASSUME NEW t \in Task PROVE t # reaping
    BY <1>1, SchedAssumption
  <2>5. QED BY <2>3, <2>4, Zenon
<1>6. ASSUME NEW t \in Task PROVE state[t] = "FREE"
  BY <1>4, <1>5, SchedAssumption DEF SchedInv, ZombieOnce, thread_has_live_workers
<1>7. ASSUME NEW q \in Queue PROVE waitq[q] = <<>>
  <2>1. waitq[q] \in Seq(Task)
    BY DEF SchedInv, TypeOK
  <2>2. \A t \in Task : ~InSeq(t, waitq[q])
    BY <1>6 DEF SchedInv, WaitLinksAgree
  <2>3. Len(waitq[q]) = 0
    BY <2>1, <2>2, LenProperties, ElementOfSeq DEF InSeq
  <2>4. QED BY <2>1, <2>3, EmptySeq
<1>8. QED BY <1>6, <1>7, Zenon

\* When thread_run_until_idle gives the prompt back, every task it ran has
\* been freed and no wait queue holds a registration.
THEOREM PromptAfterCleanup == Spec => ReturnsClean
<1>1. SchedInv /\ [Next]_vars =>
        [pc[Idle] = "check" /\ pc'[Idle] = "shell" =>
           /\ \A t \in Task : state[t] = "FREE"
           /\ \A q \in Queue : waitq[q] = <<>>]_vars
  BY ReturnStep
<1>2. QED BY <1>1, Invariance, PTL DEF Spec, ReturnsClean
---------------------------------------------------------------------------
(* Round robin.                                                            *)

\* Whoever is on the list q and still on r is no further from the head, and
\* closer if the head was taken.
Behind(q, r, taken) ==
    \A i \in 1..Len(q), j \in 1..Len(r) :
        q[i] = r[j] => j <= i /\ (taken => j < i)

\* A list that stays as it is.
LEMMA SameOrder ==
    ASSUME NEW S, NEW q \in Seq(S), NoDup(q)
    PROVE  Behind(q, q, FALSE)
BY LenProperties DEF Behind, NoDup

\* sched_enqueue puts a thread that is not queued behind all that are.
LEMMA AppendOrder ==
    ASSUME NEW S, NEW q \in Seq(S), NEW t \in S, NoDup(q), ~InSeq(t, q)
    PROVE  Behind(q, Append(q, t), FALSE)
<1>1. /\ Len(Append(q, t)) = Len(q) + 1
      /\ \A i \in 1..Len(q) : Append(q, t)[i] = q[i]
      /\ Append(q, t)[Len(q) + 1] = t
      /\ Len(q) \in Nat
  BY AppendProperties, LenProperties
<1> QED
  BY <1>1 DEF Behind, NoDup, InSeq

\* sched_remove lets the threads behind the removed one move up.
LEMMA UnlinkOrder ==
    ASSUME NEW S, NEW q \in Seq(S), NEW t, NoDup(q)
    PROVE  Behind(q, Without(q, t), FALSE)
<1>0. Len(q) \in Nat
  BY LenProperties
<1>1. CASE ~ \E i \in 1..Len(q) : q[i] = t
  BY <1>1, SameOrder, Zenon DEF Without
<1>2. CASE \E i \in 1..Len(q) : q[i] = t
  <2> DEFINE k == CHOOSE i \in 1..Len(q) : IsFirst(q, i, t)
             r == [j \in 1..(Len(q) - 1) |-> IF j < k THEN q[j] ELSE q[j + 1]]
  <2>1. k \in 1..Len(q)
    <3>1. PICK i \in 1..Len(q) : q[i] = t
      BY <1>2
    <3>2. IsFirst(q, i, t)
      BY <1>0, <3>1 DEF IsFirst, NoDup
    <3> QED
      BY <3>2
  <2>2. Without(q, t) = r /\ Without(q, t) \in Seq(S)
    BY <1>2, UnlinkList DEF Without
  <2>3. /\ \A j \in 1..(Len(q) - 1) : r[j] = IF j < k THEN q[j] ELSE q[j + 1]
        /\ DOMAIN r = 1..(Len(q) - 1)
    OBVIOUS
  <2> HIDE DEF k, r
  <2>4. Len(r) = Len(q) - 1
    BY <1>0, <2>1, <2>2, <2>3, LenProperties
  <2> QED
    BY <1>0, <2>1, <2>2, <2>3, <2>4 DEF Behind, NoDup
<1> QED
  BY <1>1, <1>2, Zenon

\* Taking the head moves everybody up, also when the previous thread is put
\* at the end.
LEMMA PopOrder ==
    ASSUME NEW S, NEW q \in Seq(S), q # <<>>, NoDup(q)
    PROVE  /\ Behind(q, Tail(q), TRUE)
           /\ \A t \in S : ~InSeq(t, q) => Behind(q, Append(Tail(q), t), TRUE)
<1>1. /\ Tail(q) \in Seq(S) /\ Len(Tail(q)) = Len(q) - 1 /\ Len(q) \in Nat
      /\ \A i \in 1..(Len(q) - 1) : Tail(q)[i] = q[i + 1]
  BY HeadTailProperties, LenProperties
<1>2. Behind(q, Tail(q), TRUE)
  BY <1>1 DEF Behind, NoDup
<1>3. ASSUME NEW t \in S, ~InSeq(t, q) PROVE Behind(q, Append(Tail(q), t), TRUE)
  <2>1. /\ Len(Append(Tail(q), t)) = Len(q)
        /\ \A i \in 1..(Len(q) - 1) : Append(Tail(q), t)[i] = q[i + 1]
        /\ Append(Tail(q), t)[Len(q)] = t
    <3>1. /\ Len(Append(Tail(q), t)) = Len(Tail(q)) + 1
          /\ \A i \in 1..Len(Tail(q)) : Append(Tail(q), t)[i] = Tail(q)[i]
          /\ Append(Tail(q), t)[Len(Tail(q)) + 1] = t
      BY <1>1, AppendProperties
    <3> QED
      BY <1>1, <3>1
  <2> DEFINE r == Append(Tail(q), t)
  <2> HIDE DEF r
  <2>2. /\ Len(r) = Len(q) /\ r[Len(q)] = t
        /\ \A i \in 1..(Len(q) - 1) : r[i] = q[i + 1]
    BY <2>1, Zenon DEF r
  <2>3. ASSUME NEW i \in 1..Len(q), NEW j \in 1..Len(r), q[i] = r[j] PROVE j < i
    <3>1. j # Len(q)
      BY <1>3, <2>2, <2>3 DEF InSeq
    <3>2. j \in 1..(Len(q) - 1) /\ j + 1 \in 1..Len(q)
      <4>1. Len(q) \in Nat /\ j \in 1..Len(q)
        BY <1>1, <2>2, Zenon
      <4> QED
        BY <3>1, <4>1
    <3>3. q[i] = q[j + 1]
      BY <2>2, <2>3, <3>2, Zenon
    <3>4. i = j + 1
      BY <3>2, <3>3, Zenon DEF NoDup
    <3> QED
      BY <3>2, <3>4
  <2>4. Behind(q, r, TRUE)
    BY <1>1, <2>2, <2>3 DEF Behind
  <2> QED
    BY <2>4, Zenon DEF r
<1> QED
  BY <1>2, <1>3, Zenon

\* schedule() takes the head of the run queue.
LEMMA ScheduleOrder ==
    ASSUME NEW st, Ready(st), schedule(st), ~InSeq(current, runq)
    PROVE  Behind(runq, runq', TRUE)
<1>0. runq \in Seq(Task) /\ NoDup(runq) /\ current \in Thread
  BY DEF Ready
<1>1. CASE runq # <<>>
  <2>1. SwitchTo(st, Head(runq), Tail(runq))
    BY <1>1, ScheduleHead
  <2>2. runq' = Tail(runq) \/ (current # Idle /\ runq' = Append(Tail(runq), current))
    BY <2>1, Zenon DEF SwitchTo
  <2>3. current # Idle => current \in Task
    BY <1>0 DEF Thread
  <2> QED
    BY <1>0, <1>1, <2>2, <2>3, PopOrder, Zenon
<1>2. CASE runq = <<>>
  BY <1>2 DEF Behind
<1> QED
  BY <1>1, <1>2, Zenon

\* No step moves a queued thread back, and a switch to a worker moves all
\* others up.
LEMMA OrderStep ==
    ASSUME SchedInv, Next
    PROVE  Behind(runq, runq', current' \notin {current, Idle})
<1>0. /\ state \in [Thread -> TaskStates] /\ current \in Thread
      /\ runq \in Seq(Task) /\ NoDup(runq)
  BY DEF SchedInv, TypeOK, RunQueueExact
<1>01. ASSUME current' = current, Behind(runq, runq', FALSE)
       PROVE  Behind(runq, runq', current' \notin {current, Idle})
  BY <1>01 DEF Behind
<1>02. ASSUME Behind(runq, runq', TRUE)
       PROVE  Behind(runq, runq', current' \notin {current, Idle})
  BY <1>02 DEF Behind
<1>03. ~InSeq(current, runq)
  <2>1. current \in Task \/ current = Idle
    BY <1>0 DEF Thread
  <2>2. state[current] # "RUNNABLE"
    BY DEF SchedInv, OneRunning
  <2>3. CASE current \in Task
    BY <2>2, <2>3 DEF SchedInv, RunQueueExact
  <2>4. CASE current = Idle
    BY <1>0, <2>4, SchedAssumption, ElementOfSeq DEF InSeq
  <2> QED
    BY <2>1, <2>3, <2>4
<1>04. ASSUME schedule(state) PROVE Behind(runq, runq', TRUE)
  <2>1. Ready(state)
    BY IdleRuns DEF SchedInv, TypeOK, RunQueueExact, OneRunning, ProgramPoints, Ready
  <2> QED
    BY <1>03, <1>04, <2>1, ScheduleOrder, Zenon
<1>05. ASSUME UNCHANGED <<runq, current>>
       PROVE  Behind(runq, runq', current' \notin {current, Idle})
  BY <1>0, <1>01, <1>05, SameOrder, Zenon
<1>1. ASSUME NEW u \in Task, NEW k \in Kinds, ShellCreate(u, k) \/ UserCreate(u)
      PROVE  Behind(runq, runq', current' \notin {current, Idle})
  <2>1. state[u] = "FREE" /\ runq' = Append(runq, u) /\ current' = current
    BY <1>1 DEF ShellCreate, UserCreate, thread_publish
  <2>2. ~InSeq(u, runq)
    BY <2>1 DEF SchedInv, RunQueueExact
  <2> QED
    BY <1>0, <1>01, <2>1, <2>2, AppendOrder, Zenon
<1>2. ASSUME NEW u \in Task, UserStop(u) \/ ShellStop(u)
      PROVE  Behind(runq, runq', current' \notin {current, Idle})
  <2>1. current' = current /\ (runq' = runq \/ runq' = Without(runq, u))
    BY <1>2 DEF UserStop, ShellStop, thread_stop_tid
  <2> QED
    BY <1>0, <1>01, <2>1, SameOrder, UnlinkOrder, Zenon
<1>3. ASSUME NEW q \in Queue, Prepare(q) \/ FinishWait(q)
      PROVE  Behind(runq, runq', current' \notin {current, Idle})
  BY <1>3, <1>05 DEF Prepare, FinishWait
<1>4. ASSUME NEW q \in Queue, WakeOne(q)
      PROVE  Behind(runq, runq', current' \notin {current, Idle})
  <2>1. PICK i \in 1..Len(waitq[q]) : WakeWaiter(waitq[q][i])
    BY <1>4 DEF WakeOne
  <2> DEFINE t == waitq[q][i]
  <2>2. t \in Task
    BY ElementOfSeq DEF SchedInv, TypeOK
  <2>3. /\ state[t] = "WAITING" /\ current' = current
        /\ runq' = runq \/ runq' = Append(runq, t)
    BY <1>4, <2>1 DEF WakeOne, WakeWaiter
  <2> HIDE DEF t
  <2>4. ~InSeq(t, runq)
    BY <2>2, <2>3 DEF SchedInv, RunQueueExact
  <2> QED
    BY <1>0, <1>01, <2>2, <2>3, <2>4, SameOrder, AppendOrder, Zenon
<1>5. CASE ExitInWait
  <2> DEFINE st == [state EXCEPT ![current] = "ZOMBIE"]
  <2>1. /\ current # Idle /\ schedule(st) /\ pc[current] = "wait"
        /\ st \in [Thread -> TaskStates] /\ st[current] = "ZOMBIE"
        /\ \A u \in Thread : u # current => st[u] = state[u]
    BY SMTT(30), <1>0, <1>5 DEF ExitInWait, IsKernelWorker, At, TaskStates
  <2> HIDE DEF st
  <2>2. Ready(st)
    BY SMTT(30), <2>1, IdleRuns
       DEF SchedInv, TypeOK, RunQueueExact, OneRunning, ProgramPoints, Ready, Thread
  <2> QED
    BY <1>02, <1>03, <2>1, <2>2, ScheduleOrder, Zenon
<1>6. CASE ExitSchedule \/ thread_yield \/ WaitLocked \/ IdleSchedule
  <2>1. schedule(state)
    BY <1>6 DEF ExitSchedule, thread_yield, WaitLocked, IdleSchedule
  <2> QED
    BY <1>02, <1>04, <2>1, Zenon
<1>7. CASE TrapResume
  <2>1. schedule(state) \/ UNCHANGED <<runq, current>>
    BY <1>7 DEF TrapResume
  <2> QED
    BY <1>02, <1>04, <1>05, <2>1, Zenon
<1>8. CASE \/ \E c \in {"launch", "until", "forever"} : EnterReaper(c)
           \/ IdleCheck \/ WfiEnds \/ thread_bootstrap \/ TimerTrap \/ OtherTrap
           \/ BlockingEcall \/ BlockingEcallDone \/ UserStopDone \/ TrapExited
           \/ ReapPop \/ ReapFree \/ ThreadExit \/ UserExit
  <2>1. UNCHANGED <<runq, current>>
    BY <1>8 DEF EnterReaper, IdleCheck, WfiEnds, thread_bootstrap, TimerTrap, OtherTrap,
                BlockingEcall, BlockingEcallDone, UserStopDone, TrapExited, ReapPop,
                ReapFree, ThreadExit, UserExit
  <2> QED
    BY <1>05, <2>1, Zenon
<1> QED
  BY <1>1, <1>2, <1>3, <1>4, <1>5, <1>6, <1>7, <1>8, Zenon DEF Next, Kinds

\* Round robin: a task on the run queue of sched.c is never overtaken, and
\* every switch to another task brings it closer to the CPU.
THEOREM QueueIsRoundRobin == Spec => NeverOvertaken
<1>1. SchedInv /\ [Next]_vars =>
        [\A i \in 1..Len(runq), j \in 1..Len(runq') :
           runq[i] = runq'[j] =>
               /\ j <= i
               /\ current' \notin {current, Idle} => j < i]_vars
  BY OrderStep DEF Behind
<1>2. QED BY <1>1, Invariance, PTL DEF Spec, NeverOvertaken
=============================================================================
