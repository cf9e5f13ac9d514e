----------------------------- MODULE TimerProofs -----------------------------
(***************************************************************************)
(* The properties of timer.c that Timer states, for any number of events,  *)
(* any tick interval, budget, durations and width of the clock.            *)
(***************************************************************************)
EXTENDS Timer, TLAPS

Els(s) == {s[i] : i \in 1..Len(s)}
NoDup(s) == \A i, j \in 1..Len(s) : s[i] = s[j] => i = j

---------------------------------------------------------------------------
(* The inductive invariant.                                                *)
TypeInv ==
    /\ now \in 0..MaxNow
    /\ timer_enabled \in BOOLEAN /\ booted \in BOOLEAN /\ stie \in BOOLEAN
    /\ timer_head \in Seq(Event) /\ tick \in Nat /\ hw \in Nat
    /\ step \in {"next", "callback", "end"} /\ done \in Nat
    /\ firing \in Event \cup {None}
    /\ adding \in [Context -> Event \cup {None}]
    /\ dropping \in [Context -> Seq(Event)]
    /\ heap \in SUBSET Event
    /\ expire \in [Event -> 0..MaxTime] /\ due \in [Event -> 0..MaxTime]
    /\ released \in [Event -> Nat]

\* The queue is sorted, so its head is its earliest event.
Sorted(q) == \A i, j \in 1..Len(q) : i <= j => expire[q[i]] <= expire[q[j]]

\* The tick runs while the timer is enabled.
TickInv == timer_enabled => booted /\ tick > 0

\* The bottom half holds an event exactly while it is at its callback.
FiringInv == /\ firing # None <=> step = "callback"
             /\ firing # None => BH!Handling(TIMER)

\* The owners of an event.
Owned(e) == \/ e \in Els(timer_head) \/ e = firing
            \/ \E c \in Context : e = adding[c] \/ e \in Els(dropping[c])

\* An event is allocated while it has an owner, and it has one only.
ListsOnce == NoDup(timer_head) /\ \A c \in Context : NoDup(dropping[c])
HeapOwned == \A e \in Event : e \in heap <=> Owned(e)
QueueApart ==
    \A e \in Els(timer_head) :
        e # firing /\ \A c \in Context : e # adding[c] /\ e \notin Els(dropping[c])
FiringApart ==
    firing # None =>
        \A c \in Context : firing # adding[c] /\ firing \notin Els(dropping[c])
ContextsApart ==
    \A c, d \in Context :
        /\ adding[c] # None => adding[c] \notin Els(dropping[d])
        /\ c # d /\ adding[c] # None => adding[c] # adding[d]
        /\ c # d => Els(dropping[c]) \cap Els(dropping[d]) = {}
OwnInv == ListsOnce /\ HeapOwned /\ QueueApart /\ FiringApart /\ ContextsApart

\* An allocated event has not been cleaned up, and its deadline is the one
\* that was asked for.
FreshInv == \A e \in heap : released[e] = 0 /\ due[e] = expire[e]

\* What is said of the events and of the lists they are on.
EventInv == TypeInv /\ Sorted(timer_head) /\ OwnInv /\ FreshInv /\ NotEarly

\* The step of CleanupOnce.
CleanStep ==
    \A e \in heap \ heap' :
        released'[e] = IF \E c \in Context : adding[c] = e THEN 0 ELSE 1

---------------------------------------------------------------------------
(* Sequences.                                                              *)
LEMMA TailFacts ==
    ASSUME NEW S, NEW s \in Seq(S), s # <<>>
    PROVE  /\ Tail(s) \in Seq(S) /\ Head(s) \in S /\ Head(s) = s[1] /\ Head(s) \in Els(s)
           /\ Len(s) > 0 /\ Len(Tail(s)) = Len(s) - 1
           /\ \A i \in 1..Len(Tail(s)) : Tail(s)[i] = s[i + 1] /\ i + 1 \in 1..Len(s)
           /\ NoDup(s) => /\ NoDup(Tail(s))
                          /\ Els(Tail(s)) = Els(s) \ {Head(s)}
<1>1. /\ Tail(s) \in Seq(S) /\ Head(s) \in S /\ Head(s) = s[1]
      /\ Len(s) > 0 /\ Len(Tail(s)) = Len(s) - 1
      /\ \A i \in 1..Len(Tail(s)) : Tail(s)[i] = s[i + 1] /\ i + 1 \in 1..Len(s)
  OBVIOUS
<1>2. Head(s) \in Els(s)
  BY <1>1 DEF Els
<1>3. ASSUME NoDup(s) PROVE NoDup(Tail(s))
  BY <1>1, <1>3 DEF NoDup
<1>4. ASSUME NoDup(s), NEW e \in Els(Tail(s)) PROVE e \in Els(s) \ {Head(s)}
  <2>1. PICK i \in 1..Len(Tail(s)) : e = Tail(s)[i]
    BY <1>4 DEF Els
  <2>2. e = s[i + 1] /\ i + 1 \in 1..Len(s) /\ 1 \in 1..Len(s) /\ i + 1 # 1
    BY <1>1, <2>1
  <2>3. s[i + 1] # s[1]
    BY <1>4, <2>2 DEF NoDup
  <2> QED
    BY <1>1, <2>2, <2>3 DEF Els
<1>5. ASSUME NEW e \in Els(s) \ {Head(s)} PROVE e \in Els(Tail(s))
  <2>1. PICK i \in 1..Len(s) : e = s[i]
    BY <1>5 DEF Els
  <2>2. i # 1 /\ i - 1 \in 1..Len(Tail(s)) /\ Tail(s)[i - 1] = s[(i - 1) + 1]
    BY <1>1, <1>5, <2>1
  <2> QED
    BY <2>1, <2>2 DEF Els
<1> QED
  BY <1>1, <1>2, <1>3, <1>4, <1>5

\* The elements of a list are of the type of the list.
LEMMA ElementsTyped ==
    ASSUME NEW S, NEW s \in Seq(S)
    PROVE  Els(s) \subseteq S
<1>1. \A i \in 1..Len(s) : s[i] \in S
  OBVIOUS
<1> QED
  BY <1>1 DEF Els

\* Two lists without a common element, one behind the other.
LEMMA ConcatFacts ==
    ASSUME NEW S, NEW s \in Seq(S), NEW t \in Seq(S),
           NoDup(s), NoDup(t), Els(s) \cap Els(t) = {}
    PROVE  /\ s \o t \in Seq(S) /\ NoDup(s \o t)
           /\ Els(s \o t) = Els(s) \cup Els(t)
<1> DEFINE u == s \o t
<1>1. /\ u \in Seq(S) /\ Len(u) = Len(s) + Len(t) /\ Len(s) \in Nat /\ Len(t) \in Nat
      /\ \A i \in 1..Len(s) : u[i] = s[i] /\ i \in 1..Len(u)
      /\ \A i \in 1..Len(t) : u[Len(s) + i] = t[i] /\ Len(s) + i \in 1..Len(u)
      /\ \A i \in 1..Len(u) : i <= Len(s) \/ i - Len(s) \in 1..Len(t)
  OBVIOUS
<1>2. \A i \in 1..Len(u) : \/ i \in 1..Len(s) /\ u[i] = s[i]
                           \/ i - Len(s) \in 1..Len(t) /\ u[i] = t[i - Len(s)]
  BY <1>1
<1>3. \A i \in 1..Len(u) : i - Len(s) \in 1..Len(t) => u[i] = t[i - Len(s)]
  OBVIOUS
<1> HIDE DEF u
<1>4. Els(u) = Els(s) \cup Els(t)
  <2>1. ASSUME NEW e \in Els(u) PROVE e \in Els(s) \cup Els(t)
    BY <1>2, <2>1 DEF Els
  <2>2. ASSUME NEW e \in Els(s) PROVE e \in Els(u)
    BY <1>1, <2>2 DEF Els
  <2>3. ASSUME NEW e \in Els(t) PROVE e \in Els(u)
    BY <1>1, <2>3 DEF Els
  <2> QED
    BY <2>1, <2>2, <2>3
<1>5. ASSUME NEW i \in 1..Len(u), NEW j \in 1..Len(u), u[i] = u[j] PROVE i = j
  <2>1. CASE i \in 1..Len(s) /\ j \in 1..Len(s)
    BY <1>1, <1>5, <2>1 DEF NoDup
  <2>2. CASE i - Len(s) \in 1..Len(t) /\ j - Len(s) \in 1..Len(t)
    <3>1. t[i - Len(s)] = t[j - Len(s)]
      BY <1>3, <1>5, <2>2
    <3>2. i - Len(s) = j - Len(s)
      BY <2>2, <3>1 DEF NoDup
    <3> QED
      BY <1>1, <3>2
  <2>3. ASSUME NEW k \in 1..Len(s), NEW l \in 1..Len(t) PROVE s[k] # t[l]
    BY Zenon DEF Els
  <2> QED
    BY <1>2, <1>5, <2>1, <2>2, <2>3, Zenon
<1> QED
  BY <1>1, <1>4, <1>5 DEF NoDup, u

\* The queue after the section of add_timer.
LEMMA InsertFacts ==
    ASSUME TypeInv, Sorted(timer_head), NoDup(timer_head),
           NEW e \in Event, e \notin Els(timer_head),
           NEW k \in 0..Len(timer_head), Place(e, k)
    PROVE  /\ Inserted(e, k) \in Seq(Event)
           /\ Els(Inserted(e, k)) = Els(timer_head) \cup {e}
           /\ NoDup(Inserted(e, k)) /\ Sorted(Inserted(e, k))
<1> DEFINE n == Len(timer_head)
           q == Inserted(e, k)
<1>1. timer_head \in Seq(Event) /\ n \in Nat /\ k \in Nat /\ k <= n
  BY DEF TypeInv
<1>2. \A i \in 1..n : timer_head[i] \in Event
  BY <1>1
<1>3. /\ q = [i \in 1..(n + 1) |-> IF i <= k THEN timer_head[i]
                ELSE IF i = k + 1 THEN e ELSE timer_head[i - 1]]
  BY DEF Inserted
<1>4. \A i \in 1..(n + 1) : /\ i <= k => i \in 1..n /\ q[i] = timer_head[i]
                            /\ i = k + 1 => q[i] = e
                            /\ i > k + 1 => i - 1 \in 1..n /\ q[i] = timer_head[i - 1]
  BY <1>1, <1>3
<1>5. q \in Seq(Event) /\ Len(q) = n + 1
  <2>1. \A i \in 1..(n + 1) : q[i] \in Event
    BY <1>1, <1>2, <1>4
  <2> QED
    BY <1>1, <1>3, <2>1
<1> HIDE DEF q
<1>6. ASSUME NEW x \in Els(q) PROVE x \in Els(timer_head) \cup {e}
  <2>1. PICK i \in 1..(n + 1) : x = q[i]
    BY <1>5, <1>6 DEF Els
  <2> QED
    BY <1>1, <1>4, <2>1 DEF Els
<1>7. ASSUME NEW x \in Els(timer_head) \cup {e} PROVE x \in Els(q)
  <2>1. CASE x = e
    <3>1. k + 1 \in 1..Len(q) /\ q[k + 1] = e
      BY <1>1, <1>4, <1>5
    <3> QED
      BY <2>1, <3>1 DEF Els
  <2>2. ASSUME NEW i \in 1..n, x = timer_head[i] PROVE x \in Els(q)
    <3>1. CASE i <= k
      BY <1>1, <1>4, <1>5, <2>2, <3>1 DEF Els
    <3>2. CASE i > k
      <4>1. i + 1 \in 1..(n + 1) /\ i + 1 > k + 1 /\ (i + 1) - 1 = i
        BY <1>1, <3>2
      <4>2. q[i + 1] = timer_head[i]
        BY <1>4, <4>1
      <4> QED
        BY <1>5, <2>2, <4>1, <4>2 DEF Els
    <3> QED
      BY <1>1, <3>1, <3>2
  <2> QED
    BY <1>7, <2>1, <2>2 DEF Els
<1>8. \A i \in 1..n : timer_head[i] # e
  BY DEF Els
<1>9. NoDup(q)
  <2> SUFFICES ASSUME NEW i \in 1..(n + 1), NEW j \in 1..(n + 1), q[i] = q[j] PROVE i = j
    BY <1>5 DEF NoDup
  <2> QED
    BY <1>1, <1>4, <1>8 DEF NoDup
<1>10. /\ \A i \in 1..n : i <= k => expire[timer_head[i]] <= expire[e]
       /\ \A i \in 1..n : i > k => expire[timer_head[i]] >= expire[e]
  <2>1. /\ \A i \in 1..n : expire[timer_head[i]] \in Int
        /\ expire[e] \in Int
    BY <1>2 DEF TypeInv
  <2>2. ASSUME NEW i \in 1..n, i > k PROVE expire[timer_head[i]] >= expire[e]
    <3>1. k + 1 \in 1..n /\ k + 1 <= i /\ expire[timer_head[k + 1]] > expire[e]
      BY <1>1, <2>2 DEF Place
    <3>2. expire[timer_head[k + 1]] <= expire[timer_head[i]]
      BY <3>1 DEF Sorted
    <3> QED
      BY <2>1, <3>1, <3>2
  <2> QED
    BY <1>1, <2>2 DEF Place
<1>11. Sorted(q)
  <2> SUFFICES ASSUME NEW i \in 1..(n + 1), NEW j \in 1..(n + 1), i <= j
               PROVE  expire[q[i]] <= expire[q[j]]
    BY <1>5 DEF Sorted
  <2>1. /\ \A x \in 1..n : expire[timer_head[x]] \in Int
        /\ expire[e] \in Int
    BY <1>2 DEF TypeInv
  <2>2. \A x, y \in 1..n : x <= y => expire[timer_head[x]] <= expire[timer_head[y]]
    BY DEF Sorted
  <2>3. CASE i <= k /\ j <= k
    BY <1>4, <2>2, <2>3
  <2>4. CASE i <= k /\ j = k + 1
    BY <1>4, <1>10, <2>4
  <2>5. CASE i <= k /\ j > k + 1
    <3>1. i \in 1..n /\ j - 1 \in 1..n /\ i <= j - 1 /\ q[i] = timer_head[i] /\ q[j] = timer_head[j - 1]
      BY <1>1, <1>4, <2>5
    <3> QED
      BY <2>2, <3>1
  <2>6. CASE i = k + 1 /\ j = k + 1
    BY <1>4, <2>1, <2>6
  <2>7. CASE i = k + 1 /\ j > k + 1
    <3>1. j - 1 \in 1..n /\ j - 1 > k /\ q[i] = e /\ q[j] = timer_head[j - 1]
      BY <1>1, <1>4, <2>7
    <3> QED
      BY <1>10, <2>1, <3>1
  <2>8. CASE i > k + 1
    <3>1. i - 1 \in 1..n /\ j - 1 \in 1..n /\ i - 1 <= j - 1
          /\ q[i] = timer_head[i - 1] /\ q[j] = timer_head[j - 1]
      BY <1>1, <1>4, <2>8
    <3> QED
      BY <2>2, <3>1
  <2> QED
    BY <1>1, <2>3, <2>4, <2>5, <2>6, <2>7, <2>8
<1> QED
  BY <1>5, <1>6, <1>7, <1>9, <1>11 DEF q

---------------------------------------------------------------------------
(* Events and their holders.                                               *)

\* What is owned is allocated.
LEMMA OwnedInHeap ==
    ASSUME EventInv
    PROVE  /\ \A e \in Els(timer_head) : e \in heap /\ e \in Event
           /\ \A i \in 1..Len(timer_head) : timer_head[i] \in heap /\ timer_head[i] \in Event
           /\ firing # None => firing \in heap /\ firing \in Event
           /\ \A c \in Context : adding[c] # None => adding[c] \in heap /\ adding[c] \in Event
           /\ \A c \in Context : \A e \in Els(dropping[c]) : e \in heap /\ e \in Event
<1>1. \A e \in Els(timer_head) : e \in Event
  BY DEF EventInv, TypeInv, Els
<1>2. \A i \in 1..Len(timer_head) : timer_head[i] \in Els(timer_head)
  BY DEF Els
<1>3. ASSUME NEW c \in Context, NEW e \in Els(dropping[c]) PROVE e \in Event
  <2>1. dropping[c] \in Seq(Event)
    BY DEF EventInv, TypeInv
  <2> QED
    BY <2>1, <1>3 DEF Els
<1>4. /\ firing # None => firing \in Event
      /\ \A c \in Context : adding[c] # None => adding[c] \in Event
  BY DEF EventInv, TypeInv
<1>5. \A e \in Event : Owned(e) => e \in heap
  BY DEF EventInv, OwnInv, HeapOwned
<1> QED
  BY <1>1, <1>2, <1>3, <1>4, <1>5 DEF Owned

\* No event moves.
LEMMA EventsSame ==
    ASSUME EventInv, TypeInv', now' >= now, UNCHANGED <<timer_head, firing, locals, blocks>>
    PROVE  EventInv' /\ CleanStep
<1>1. /\ timer_head' = timer_head /\ firing' = firing /\ adding' = adding
      /\ dropping' = dropping /\ expire' = expire /\ heap' = heap
      /\ due' = due /\ released' = released
  BY DEF locals, blocks
<1>2. Sorted(timer_head)' /\ FreshInv' /\ CleanStep
  BY <1>1 DEF EventInv, Sorted, FreshInv, CleanStep
<1>3. OwnInv'
  <2>1. /\ Els(timer_head)' = Els(timer_head) /\ NoDup(timer_head)' = NoDup(timer_head)
        /\ \A c \in Context : /\ Els(dropping[c])' = Els(dropping[c])
                            /\ NoDup(dropping[c])' = NoDup(dropping[c])
    BY <1>1 DEF NoDup, Els
  <2> QED
    BY <1>1, <2>1, SMTT(30) DEF EventInv, OwnInv, Owned, ListsOnce, HeapOwned, QueueApart,
                      FiringApart, ContextsApart
<1>4. NotEarly'
  <2>1. now \in Int /\ now' \in Int /\ (firing # None => due[firing] \in Int)
    BY DEF EventInv, TypeInv
  <2> QED
    BY <1>1, <2>1 DEF EventInv, NotEarly
<1> QED
  BY <1>2, <1>3, <1>4 DEF EventInv

\* kmalloc in add_timer_with_cleanup: a fresh event, owned by its adder.
LEMMA AddPrepareEvents ==
    ASSUME EventInv, NEW c \in Context, NEW e \in Event, NEW d \in Durations, AddPrepare(c, e, d)
    PROVE  EventInv' /\ CleanStep
<1>1. /\ e \notin heap /\ adding[c] = None /\ heap' = heap \cup {e}
      /\ adding' = [adding EXCEPT ![c] = e]
      /\ expire' = [expire EXCEPT ![e] = now + d] /\ due' = [due EXCEPT ![e] = now + d]
      /\ released' = [released EXCEPT ![e] = 0]
      /\ UNCHANGED <<now, timer_enabled, timer_head, tick, hw, stie, step, done, firing,
                     dropping, booted>>
  BY DEF AddPrepare, Idle, hard, handler
<1>2. TypeInv'
  <2>1. now + d \in 0..MaxTime
    BY TimerAssumption DEF AddPrepare, EventInv, TypeInv
  <2>2. /\ adding' \in [Context -> Event \cup {None}]
        /\ expire' \in [Event -> 0..MaxTime] /\ due' \in [Event -> 0..MaxTime]
        /\ released' \in [Event -> Nat]
    BY <1>1, <2>1 DEF EventInv, TypeInv
  <2> QED
    BY <1>1, <2>2 DEF EventInv, TypeInv
<1>3. Sorted(timer_head)'
  <2>1. \A i \in 1..Len(timer_head) : timer_head[i] \in Event \ {e}
    BY <1>1, OwnedInHeap
  <2>2. \A i \in 1..Len(timer_head) : expire'[timer_head[i]] = expire[timer_head[i]]
    BY <1>1, <2>1, Zenon DEF EventInv, TypeInv
  <2> QED
    BY <1>1, <2>2 DEF EventInv, Sorted
<1>4. OwnInv'
  <2>1. adding'[c] = e /\ \A x \in Context : x # c => adding'[x] = adding[x]
    BY <1>1 DEF EventInv, TypeInv
  <2>2. OwnInv /\ e # None
    BY TimerAssumption DEF EventInv
  <2>3. ~Owned(e)
    BY <1>1, <2>2 DEF OwnInv, HeapOwned
  <2>4. \A x \in Event : Owned(x)' <=> Owned(x) \/ x = e
    BY <1>1, <2>1, <2>3, TimerAssumption DEF Owned
  <2> QED
    BY <1>1, <2>1, <2>2, <2>3, <2>4 DEF OwnInv, Owned, ListsOnce, HeapOwned, QueueApart,
                                        FiringApart, ContextsApart
<1>5. FreshInv'
  BY <1>1 DEF EventInv, TypeInv, FreshInv
<1>6. NotEarly'
  BY <1>1, OwnedInHeap DEF EventInv, TypeInv, NotEarly
<1>7. CleanStep
  BY <1>1 DEF CleanStep
<1> QED
  BY <1>2, <1>3, <1>4, <1>5, <1>6, <1>7 DEF EventInv

\* What timer_reprogram_locked programs for a sorted queue.
LEMMA Reprogram ==
    ASSUME NEW q \in Seq(Event), expire \in [Event -> 0..MaxTime], Sorted(q),
           NEW t \in Nat, timer_reprogram_locked(q, t)
    PROVE  /\ hw' \in Nat
           /\ t > 0 => /\ hw' <= t /\ \A i \in 1..Len(q) : hw' <= expire[q[i]]
                       /\ hw' = t \/ \E i \in 1..Len(q) : hw' = expire[q[i]]
<1>1. MaxTime \in Nat /\ Never = MaxTime
  BY TimerAssumption DEF Never
<1>2. CASE q = <<>>
  BY <1>1, <1>2 DEF timer_reprogram_locked
<1>3. CASE q # <<>>
  <2>1. Len(q) \in Nat /\ 1 \in 1..Len(q) /\ q[1] \in Event
    BY <1>3
  <2>2. \A i \in 1..Len(q) : expire[q[i]] \in Nat /\ expire[q[1]] <= expire[q[i]]
    <3> SUFFICES ASSUME NEW i \in 1..Len(q)
                 PROVE  expire[q[i]] \in Nat /\ expire[q[1]] <= expire[q[i]]
      OBVIOUS
    <3>1. q[i] \in Event /\ 1 <= i
      BY <2>1
    <3> QED
      BY <1>1, <2>1, <3>1 DEF Sorted
  <2>3. expire[q[1]] \in Nat
    BY <2>1, <2>2
  <2>4. hw' = Least(IF t = 0 THEN Never ELSE t, expire[q[1]])
    BY <1>3 DEF timer_reprogram_locked
  <2> QED
    BY <1>1, <2>1, <2>2, <2>3, <2>4 DEF Least
<1> QED
  BY <1>2, <1>3

\* The section of add_timer_with_cleanup: the event moves to the queue.
LEMMA AddInsertEvents ==
    ASSUME EventInv, NEW c \in Context, AddInsert(c)
    PROVE  EventInv' /\ CleanStep
<1> DEFINE e == adding[c]
<1>1. /\ e # None /\ adding' = [adding EXCEPT ![c] = None]
      /\ UNCHANGED <<now, timer_enabled, tick, stie, step, done, firing,
                     dropping, booted, expire, due, released>>
  BY DEF AddInsert, handler
<1>2. TypeInv /\ OwnInv /\ Sorted(timer_head) /\ FreshInv /\ NotEarly
  BY DEF EventInv
<1>3. e \in heap /\ e \in Event
  BY <1>1, OwnedInHeap
<1>4. /\ adding'[c] = None /\ \A x \in Context : x # c => adding'[x] = adding[x]
      /\ adding' \in [Context -> Event \cup {None}]
  BY <1>1, <1>2 DEF TypeInv
<1>5. /\ e # firing /\ e \notin Els(timer_head)
      /\ \A x \in Context : e \notin Els(dropping[x]) /\ (x # c => e # adding[x])
  BY <1>1, <1>2 DEF OwnInv, QueueApart, FiringApart, ContextsApart
<1> HIDE DEF e
<1>6. CASE timer_enabled
  <2>1. PICK k \in 0..Len(timer_head) : Place(e, k) /\ timer_head' = Inserted(e, k)
    BY <1>6, SMTT(30) DEF AddInsert, e
  <2>2. /\ timer_head' \in Seq(Event) /\ Els(timer_head') = Els(timer_head) \cup {e}
        /\ NoDup(timer_head') /\ Sorted(timer_head')
    BY <1>2, <1>3, <1>5, <2>1, InsertFacts DEF OwnInv, ListsOnce
  <2>3. timer_reprogram_locked(timer_head', tick) /\ heap' = heap
    BY <1>6 DEF AddInsert
  <2>4. hw' \in Nat
    BY <1>2, <2>2, <2>3, Reprogram, Zenon DEF TypeInv
  <2>5. TypeInv'
    BY <1>1, <1>2, <1>4, <2>2, <2>3, <2>4, SMTT(30) DEF TypeInv
  <2>6. Sorted(timer_head)' /\ FreshInv' /\ NotEarly' /\ CleanStep
    BY <1>1, <1>2, <2>2, <2>3 DEF Sorted, FreshInv, NotEarly, CleanStep
  <2>7. \A x \in Event : Owned(x)' <=> Owned(x)
    <3>1. Els(timer_head)' = Els(timer_head) \cup {e}
      BY <2>2, Zenon DEF Els
    <3> QED
      BY <1>1, <1>4, <3>1, TimerAssumption DEF Owned, e
  <2>8. OwnInv'
    <3>1. NoDup(timer_head)' /\ Els(timer_head)' = Els(timer_head) \cup {e}
      BY <2>2, SMTT(30) DEF NoDup, Els
    <3>2. \A x \in Context : /\ NoDup(dropping[x])' = NoDup(dropping[x])
                             /\ Els(dropping[x])' = Els(dropping[x])
      BY <1>1 DEF NoDup, Els
    <3>3. ListsOnce' /\ HeapOwned'
      BY <1>2, <2>3, <2>7, <3>1, <3>2, SMTT(30) DEF OwnInv, ListsOnce, HeapOwned
    <3>4. QueueApart'
      BY <1>1, <1>2, <1>3, <1>4, <1>5, <3>1, <3>2, OwnedInHeap, TimerAssumption
         DEF OwnInv, QueueApart
    <3>5. FiringApart' /\ ContextsApart'
      BY <1>1, <1>2, <1>4, <3>2, Zenon DEF OwnInv, FiringApart, ContextsApart
    <3> QED
      BY <3>3, <3>4, <3>5 DEF OwnInv
  <2> QED
    BY <2>5, <2>6, <2>8 DEF EventInv
<1>7. CASE ~timer_enabled
  <2>1. heap' = heap \ {e} /\ timer_head' = timer_head /\ hw' = hw
    BY <1>7 DEF AddInsert, e
  <2>2. TypeInv'
    BY <1>1, <1>2, <1>4, <2>1, SMTT(30) DEF TypeInv
  <2>3. Sorted(timer_head)' /\ FreshInv' /\ NotEarly'
    BY <1>1, <1>2, <2>1, Zenon DEF Sorted, FreshInv, NotEarly
  <2>4. CleanStep
    BY <1>1, <1>2, <1>3, <2>1, Zenon DEF FreshInv, CleanStep, e
  <2>5. \A x \in Event : Owned(x)' <=> Owned(x) /\ x # e
    <3>1. /\ Els(timer_head)' = Els(timer_head)
          /\ \A x \in Context : Els(dropping[x])' = Els(dropping[x])
      BY <1>1, <2>1 DEF Els
    <3>2. \A y \in Context : adding'[y] # e
      BY <1>1, <1>4, <1>5, Zenon
    <3>3. \A x \in Event, y \in Context : x # e => (x = adding'[y] <=> x = adding[y])
      BY <1>4, TimerAssumption DEF e
    <3>4. ASSUME NEW x \in Event, x = e PROVE ~Owned(x)'
      BY <1>1, <1>5, <3>1, <3>2, <3>4, Zenon DEF Owned
    <3>5. ASSUME NEW x \in Event, x # e PROVE Owned(x)' <=> Owned(x)
      BY <1>1, <3>1, <3>3, <3>5, Zenon DEF Owned
    <3> QED
      BY <3>4, <3>5, Zenon
  <2>6. OwnInv'
    <3>1. /\ NoDup(timer_head)' = NoDup(timer_head) /\ Els(timer_head)' = Els(timer_head)
          /\ \A x \in Context : /\ NoDup(dropping[x])' = NoDup(dropping[x])
                                /\ Els(dropping[x])' = Els(dropping[x])
      BY <1>1, <2>1 DEF NoDup, Els
    <3>2. ListsOnce' /\ HeapOwned'
      BY <1>2, <2>1, <2>5, <3>1, SMTT(30) DEF OwnInv, ListsOnce, HeapOwned
    <3>3. QueueApart'
      BY <1>1, <1>2, <1>4, <3>1, OwnedInHeap, TimerAssumption, SMTT(30) DEF OwnInv, QueueApart
    <3>4. FiringApart' /\ ContextsApart'
      BY <1>1, <1>2, <1>4, <3>1 DEF OwnInv, FiringApart, ContextsApart
    <3> QED
      BY <3>2, <3>3, <3>4 DEF OwnInv
  <2> QED
    BY <2>2, <2>3, <2>4, <2>6 DEF EventInv
<1> QED
  BY <1>6, <1>7

\* The empty queue.
LEMMA EmptyList == <<>> \in Seq(Event) /\ Els(<<>>) = {} /\ NoDup(<<>>) /\ Sorted(<<>>)
BY DEF Els, NoDup, Sorted

\* stop_timer: the queue moves to the list it drops.
LEMMA StopEvents ==
    ASSUME EventInv, NEW c \in Context, timer_stop(c)
    PROVE  EventInv' /\ CleanStep
<1>1. /\ timer_enabled' = FALSE /\ stie' = FALSE /\ tick' = 0 /\ hw' = Never
      /\ dropping[c] = <<>> /\ dropping' = [dropping EXCEPT ![c] = timer_head]
      /\ timer_head' = <<>>
      /\ UNCHANGED <<now, step, done, firing, adding, booted, expire, heap, due, released>>
  BY DEF timer_stop, Idle, handler, blocks
<1>2. TypeInv /\ OwnInv /\ FreshInv /\ NotEarly
  BY DEF EventInv
<1>3. /\ dropping'[c] = timer_head /\ \A x \in Context : x # c => dropping'[x] = dropping[x]
      /\ dropping' \in [Context -> Seq(Event)]
  BY <1>1, <1>2 DEF TypeInv
<1>4. TypeInv'
  BY <1>1, <1>2, <1>3, EmptyList, TimerAssumption, Zenon DEF TypeInv, Never
<1>5. Sorted(timer_head)' /\ FreshInv' /\ NotEarly' /\ CleanStep
  BY <1>1, <1>2 DEF Sorted, FreshInv, NotEarly, CleanStep
<1>6. /\ Els(timer_head)' = {} /\ NoDup(timer_head)'
      /\ Els(dropping[c])' = Els(timer_head) /\ (NoDup(timer_head) => NoDup(dropping[c])')
      /\ Els(dropping[c]) = {}
      /\ \A x \in Context : x # c => /\ Els(dropping[x])' = Els(dropping[x])
                                     /\ NoDup(dropping[x]) => NoDup(dropping[x])'
  BY <1>1, <1>3 DEF Els, NoDup
<1>7. \A x : Owned(x)' <=> Owned(x)
  BY <1>1, <1>6 DEF Owned
<1>8. ListsOnce' /\ HeapOwned'
  BY <1>1, <1>2, <1>6, <1>7, SMTT(30) DEF OwnInv, ListsOnce, HeapOwned
<1>9. QueueApart' /\ FiringApart'
  BY <1>1, <1>2, <1>6, SMTT(30) DEF OwnInv, QueueApart, FiringApart
<1>10. ContextsApart'
  BY <1>1, <1>2, <1>6 DEF OwnInv, QueueApart, ContextsApart
<1> QED
  BY <1>4, <1>5, <1>8, <1>9, <1>10 DEF EventInv, OwnInv

\* stop_timer drops one event outside its section.
LEMMA DropEvents ==
    ASSUME EventInv, NEW c \in Context, DropOne(c)
    PROVE  EventInv' /\ CleanStep
<1> DEFINE e == Head(dropping[c])
<1>1. /\ dropping[c] # <<>> /\ dropping' = [dropping EXCEPT ![c] = Tail(dropping[c])]
      /\ released' = [released EXCEPT ![e] = released[e] + 1] /\ heap' = heap \ {e}
      /\ UNCHANGED <<now, timer_enabled, timer_head, tick, hw, stie, step, done, firing,
                     adding, booted, expire, due>>
  BY DEF DropOne, hard, handler
<1>2. TypeInv /\ OwnInv /\ Sorted(timer_head) /\ FreshInv /\ NotEarly
  BY DEF EventInv
<1>3. dropping[c] \in Seq(Event) /\ NoDup(dropping[c])
  BY <1>2 DEF TypeInv, OwnInv, ListsOnce
<1>4. /\ Tail(dropping[c]) \in Seq(Event) /\ e \in Els(dropping[c])
      /\ NoDup(Tail(dropping[c])) /\ Els(Tail(dropping[c])) = Els(dropping[c]) \ {e}
  BY <1>1, <1>3, TailFacts, SMTT(30)
<1>5. e \in Event /\ e \in heap /\ released[e] = 0
  BY <1>2, <1>4, OwnedInHeap DEF FreshInv
<1> HIDE DEF e
<1>6. /\ dropping'[c] = Tail(dropping[c])
      /\ \A x \in Context : x # c => dropping'[x] = dropping[x]
      /\ dropping' \in [Context -> Seq(Event)]
  BY <1>1, <1>2, <1>4 DEF TypeInv
<1>7. /\ released' \in [Event -> Nat] /\ released'[e] = 1
      /\ \A x \in Event : x # e => released'[x] = released[x]
  BY <1>1, <1>2, <1>5 DEF TypeInv
<1>8. TypeInv'
  BY <1>1, <1>2, <1>6, <1>7, Zenon DEF TypeInv
<1>9. /\ e # firing /\ e \notin Els(timer_head)
      /\ \A x \in Context : e # adding[x] /\ (x # c => e \notin Els(dropping[x]))
  BY <1>2, <1>4, <1>5, TimerAssumption, Zenon DEF OwnInv, QueueApart, FiringApart, ContextsApart
<1>10. Sorted(timer_head)' /\ NotEarly'
  BY <1>1, <1>2 DEF Sorted, NotEarly
<1>11. FreshInv' /\ CleanStep
  BY <1>1, <1>2, <1>5, <1>7, <1>9 DEF FreshInv, CleanStep, TypeInv
<1>12. /\ Els(timer_head)' = Els(timer_head) /\ (NoDup(timer_head) => NoDup(timer_head)')
       /\ Els(dropping[c])' = Els(dropping[c]) \ {e} /\ NoDup(dropping[c])'
       /\ \A x \in Context : x # c => /\ Els(dropping[x])' = Els(dropping[x])
                                      /\ NoDup(dropping[x]) => NoDup(dropping[x])'
  <2>1. Els(dropping[c])' = Els(dropping[c]) \ {e}
    BY <1>4, <1>6, Zenon DEF Els
  <2>2. NoDup(dropping[c])'
    BY <1>4, <1>6 DEF NoDup
  <2>3. Els(timer_head)' = Els(timer_head) /\ (NoDup(timer_head) => NoDup(timer_head)')
    BY <1>1 DEF Els, NoDup
  <2>4. ASSUME NEW x \in Context, x # c
        PROVE  Els(dropping[x])' = Els(dropping[x]) /\ (NoDup(dropping[x]) => NoDup(dropping[x])')
    BY <1>6, <2>4, Zenon DEF Els, NoDup
  <2> QED
    BY <2>1, <2>2, <2>3, <2>4, Zenon
<1>13. \A x \in Event : Owned(x)' <=> Owned(x) /\ x # e
  BY <1>1, <1>9, <1>12 DEF Owned
<1>14. ListsOnce' /\ HeapOwned'
  BY <1>1, <1>2, <1>12, <1>13, SMTT(30) DEF OwnInv, ListsOnce, HeapOwned
<1>15. QueueApart' /\ FiringApart'
  BY <1>1, <1>2, <1>12, SMTT(30) DEF OwnInv, QueueApart, FiringApart
<1>16. ContextsApart'
  BY <1>1, <1>2, <1>12 DEF OwnInv, ContextsApart
<1> QED
  BY <1>8, <1>10, <1>11, <1>14, <1>15, <1>16 DEF EventInv, OwnInv

\* A callback has returned: its event is freed.
LEMMA CallbackEvents ==
    ASSUME EventInv, firing # None, CallbackReturns
    PROVE  EventInv' /\ CleanStep
<1>1. /\ released' = [released EXCEPT ![firing] = released[firing] + 1]
      /\ heap' = heap \ {firing} /\ firing' = None /\ done' = done + 1 /\ step' = "next"
      /\ UNCHANGED <<now, timer_enabled, timer_head, tick, hw, stie, adding, dropping,
                     booted, expire, due>>
  BY DEF CallbackReturns, hard, locals
<1>2. TypeInv /\ OwnInv /\ Sorted(timer_head) /\ FreshInv
  BY DEF EventInv
<1>3. firing \in Event /\ firing \in heap /\ released[firing] = 0
  BY <1>2, OwnedInHeap DEF FreshInv
<1>4. /\ released' \in [Event -> Nat] /\ released'[firing] = 1
      /\ \A x \in Event : x # firing => released'[x] = released[x]
  BY <1>1, <1>2, <1>3 DEF TypeInv
<1>5. TypeInv'
  BY <1>1, <1>2, <1>4, SMTT(30) DEF TypeInv
<1>6. Sorted(timer_head)' /\ NotEarly'
  BY <1>1, <1>2 DEF Sorted, NotEarly
<1>7. FreshInv' /\ CleanStep
  BY <1>1, <1>2, <1>3, <1>4 DEF FreshInv, CleanStep, TypeInv, OwnInv, FiringApart
<1>8. /\ Els(timer_head)' = Els(timer_head) /\ (NoDup(timer_head) => NoDup(timer_head)')
      /\ \A x \in Context : /\ Els(dropping[x])' = Els(dropping[x])
                            /\ NoDup(dropping[x]) => NoDup(dropping[x])'
  BY <1>1, SMTT(30) DEF Els, NoDup
<1>9. \A x \in Event : Owned(x)' <=> Owned(x) /\ x # firing
  BY <1>1, <1>2, <1>8, TimerAssumption DEF Owned, OwnInv, QueueApart, FiringApart
<1>10. ListsOnce' /\ HeapOwned'
  BY <1>1, <1>2, <1>8, <1>9, SMTT(30) DEF OwnInv, ListsOnce, HeapOwned
<1>11. QueueApart' /\ FiringApart'
  BY <1>1, <1>2, <1>8, OwnedInHeap, TimerAssumption, SMTT(30) DEF OwnInv, QueueApart, FiringApart
<1>12. ContextsApart'
  BY <1>1, <1>2, <1>8 DEF OwnInv, ContextsApart
<1> QED
  BY <1>5, <1>6, <1>7, <1>10, <1>11, <1>12 DEF EventInv, OwnInv

\* The tick stays in the future of zero.
LEMMA TickType ==
    ASSUME TypeInv
    PROVE  TickAfter(tick) \in Nat /\ (tick > 0 => TickAfter(tick) > 0)
<1>1. now \in Nat /\ tick \in Nat /\ Interval \in Nat \ {0}
  BY TimerAssumption DEF TypeInv
<1>2. CASE tick = 0 \/ tick > now
  BY <1>1, <1>2 DEF TickAfter
<1>3. CASE ~(tick = 0 \/ tick > now)
  <2>1. now - tick \in Nat
    BY <1>1, <1>3
  <2>2. (now - tick) \div Interval \in Nat
    BY <1>1, <2>1
  <2>3. ((now - tick) \div Interval + 1) * Interval \in Nat
    BY <1>1, <2>2
  <2> QED
    BY <1>1, <1>3, <2>3 DEF TickAfter
<1> QED
  BY <1>2, <1>3

\* timer_bottom_half takes the due head, or nothing.
LEMMA NextEvents ==
    ASSUME EventInv, firing = None, TimerNext
    PROVE  EventInv' /\ CleanStep
<1>1. TypeInv /\ OwnInv /\ Sorted(timer_head) /\ FreshInv /\ NotEarly
  BY DEF EventInv
<1>2. /\ UNCHANGED <<now, timer_enabled, hw, stie, done, adding, dropping, booted, expire,
                     heap, due, released>>
      /\ tick' \in {tick, TickAfter(tick)} /\ step' \in {"callback", "end"}
  BY DEF TimerNext, hard, locals, blocks
<1>3. tick' \in Nat
  BY <1>1, <1>2, TickType DEF TypeInv
<1>4. CASE firing' = firing /\ timer_head' = timer_head
  <2>1. TypeInv'
    BY <1>1, <1>2, <1>3, <1>4 DEF TypeInv
  <2>2. now' >= now /\ UNCHANGED <<timer_head, firing, locals, blocks>>
    BY <1>1, <1>2, <1>4 DEF TypeInv, locals, blocks
  <2> QED
    BY <2>1, <2>2, EventsSame
<1>5. CASE HeadDue /\ firing' = Head(timer_head) /\ timer_head' = Tail(timer_head)
  <2> DEFINE e == Head(timer_head)
  <2>1. timer_head # <<>> /\ expire[timer_head[1]] <= now /\ timer_head \in Seq(Event)
        /\ NoDup(timer_head)
    BY <1>1, <1>5 DEF HeadDue, TypeInv, OwnInv, ListsOnce
  <2>2. /\ Tail(timer_head) \in Seq(Event) /\ e \in Els(timer_head) /\ e = timer_head[1]
        /\ e \in Event /\ Len(timer_head) > 0 /\ Len(Tail(timer_head)) = Len(timer_head) - 1
        /\ \A i \in 1..Len(Tail(timer_head)) :
             Tail(timer_head)[i] = timer_head[i + 1] /\ i + 1 \in 1..Len(timer_head)
        /\ NoDup(Tail(timer_head)) /\ Els(Tail(timer_head)) = Els(timer_head) \ {e}
    BY <2>1, TailFacts
  <2>3. e \in heap /\ firing' = e
    BY <1>5, <2>2, OwnedInHeap, SMTT(30)
  <2> HIDE DEF e
  <2>4. TypeInv'
    BY <1>1, <1>2, <1>3, <1>5, <2>2, <2>3, SMTT(30) DEF TypeInv
  <2>5. Sorted(timer_head)'
    <3> SUFFICES ASSUME NEW i \in 1..Len(Tail(timer_head)), NEW j \in 1..Len(Tail(timer_head)),
                        i <= j
                 PROVE  expire[Tail(timer_head)[i]] <= expire[Tail(timer_head)[j]]
      BY <1>2, <1>5 DEF Sorted
    <3>1. i + 1 \in 1..Len(timer_head) /\ j + 1 \in 1..Len(timer_head) /\ i + 1 <= j + 1
      BY <2>1, <2>2
    <3>2. expire[timer_head[i + 1]] <= expire[timer_head[j + 1]]
      BY <1>1, <3>1 DEF Sorted
    <3> QED
      BY <2>2, <3>2, Zenon
  <2>6. FreshInv' /\ CleanStep
    BY <1>1, <1>2, Zenon DEF FreshInv, CleanStep
  <2>7. NotEarly'
    BY <1>1, <1>2, <2>1, <2>2, <2>3 DEF NotEarly, FreshInv
  <2>8. Els(timer_head)' = Els(timer_head) \ {e} /\ NoDup(timer_head)'
    <3>1. Els(timer_head)' = Els(timer_head) \ {e}
      BY <1>5, <2>2, Zenon DEF Els
    <3>2. NoDup(timer_head)'
      BY <1>5, <2>2, SMTT(30) DEF NoDup
    <3> QED
      BY <3>1, <3>2
  <2>9. \A x \in Context : /\ Els(dropping[x])' = Els(dropping[x])
                           /\ NoDup(dropping[x]) => NoDup(dropping[x])'
    BY <1>2, SMTT(30) DEF Els, NoDup
  <2>10. \A x \in Event : Owned(x)' <=> Owned(x)
    BY <1>2, <2>2, <2>3, <2>8, <2>9, TimerAssumption DEF Owned
  <2>11. ListsOnce' /\ HeapOwned'
    BY <1>1, <1>2, <2>8, <2>9, <2>10, SMTT(30) DEF OwnInv, ListsOnce, HeapOwned
  <2>12. QueueApart'
    BY <1>1, <1>2, <2>3, <2>8, <2>9 DEF OwnInv, QueueApart
  <2>13. FiringApart' /\ ContextsApart'
    BY <1>1, <1>2, <2>2, <2>3, <2>9, Zenon DEF OwnInv, QueueApart, FiringApart, ContextsApart
  <2> QED
    BY <2>4, <2>5, <2>6, <2>7, <2>11, <2>12, <2>13, SMTT(30) DEF EventInv, OwnInv
<1> QED
  BY <1>4, <1>5 DEF TimerNext

\* The list of an optional event.
LEMMA SomeFacts ==
    ASSUME NEW e \in Event \cup {None}
    PROVE  /\ Some(e) \in Seq(Event) /\ NoDup(Some(e))
           /\ Els(Some(e)) = {e} \ {None}
<1>1. CASE e = None
  BY <1>1, EmptyList DEF Some
<1>2. CASE e # None
  <2>1. Some(e) = <<e>> /\ e \in Event
    BY <1>2 DEF Some
  <2> QED
    BY <1>2, <2>1 DEF Els, NoDup
<1> QED
  BY <1>1, <1>2

\* The lists of the owners hold every allocated event once.
LEMMA OwnedLists == EventInv => EventOwnedOnce
<1> SUFFICES ASSUME EventInv PROVE EventOwnedOnce
  OBVIOUS
<1>1. EventInv /\ TypeInv /\ OwnInv
  BY DEF EventInv
<1> DEFINE T == "thread"
           C == "callback"
           s1 == timer_head \o Some(firing)
           s2 == s1 \o Some(adding[T])
           s3 == s2 \o Some(adding[C])
           s4 == s3 \o dropping[T]
           s5 == s4 \o dropping[C]
<1>2. T \in Context /\ C \in Context /\ T # C /\ Context = {T, C}
  BY DEF Context
<1>3. /\ Some(firing) \in Seq(Event) /\ NoDup(Some(firing))
      /\ Els(Some(firing)) = {firing} \ {None}
  BY <1>1, SomeFacts DEF TypeInv
<1>4. \A c \in Context : /\ Some(adding[c]) \in Seq(Event) /\ NoDup(Some(adding[c]))
                         /\ Els(Some(adding[c])) = {adding[c]} \ {None}
  BY <1>1, SomeFacts DEF TypeInv
<1>5. /\ timer_head \in Seq(Event) /\ NoDup(timer_head)
      /\ \A c \in Context : dropping[c] \in Seq(Event) /\ NoDup(dropping[c])
  BY <1>1 DEF TypeInv, OwnInv, ListsOnce
<1>6. s1 \in Seq(Event) /\ NoDup(s1) /\ Els(s1) = Els(timer_head) \cup ({firing} \ {None})
  <2>1. Els(timer_head) \cap Els(Some(firing)) = {}
    BY <1>1, <1>3 DEF OwnInv, QueueApart
  <2> QED
    BY <1>3, <1>5, <2>1, ConcatFacts, SMTT(30)
<1> HIDE DEF s1
<1>7. s2 \in Seq(Event) /\ NoDup(s2) /\ Els(s2) = Els(s1) \cup ({adding[T]} \ {None})
  <2>1. Els(s1) \cap Els(Some(adding[T])) = {}
    BY <1>1, <1>2, <1>4, <1>6, SMTT(30) DEF OwnInv, QueueApart, FiringApart
  <2> QED
    BY <1>2, <1>4, <1>6, <2>1, ConcatFacts, SMTT(30)
<1> HIDE DEF s2
<1>8. s3 \in Seq(Event) /\ NoDup(s3) /\ Els(s3) = Els(s2) \cup ({adding[C]} \ {None})
  <2>1. Els(s2) \cap Els(Some(adding[C])) = {}
    BY <1>1, <1>2, <1>4, <1>6, <1>7, Zenon DEF OwnInv, QueueApart, FiringApart, ContextsApart
  <2> QED
    BY <1>2, <1>4, <1>7, <2>1, ConcatFacts
<1> HIDE DEF s3
<1>9. s4 \in Seq(Event) /\ NoDup(s4) /\ Els(s4) = Els(s3) \cup Els(dropping[T])
  <2>1. Els(s3) \cap Els(dropping[T]) = {}
    BY <1>1, <1>2, <1>6, <1>7, <1>8, SMTT(30) DEF OwnInv, QueueApart, FiringApart, ContextsApart
  <2> QED
    BY <1>2, <1>5, <1>8, <2>1, ConcatFacts, SMTT(30)
<1> HIDE DEF s4
<1>10. s5 \in Seq(Event) /\ NoDup(s5) /\ Els(s5) = Els(s4) \cup Els(dropping[C])
  <2>1. Els(s4) \cap Els(dropping[C]) = {}
    BY <1>1, <1>2, <1>6, <1>7, <1>8, <1>9 DEF OwnInv, QueueApart, FiringApart, ContextsApart
  <2> QED
    BY <1>2, <1>5, <1>9, <2>1, ConcatFacts, SMTT(30)
<1>11. heap = Els(s5)
  <2>1. \A e \in Event : e \in Els(s5) <=> Owned(e)
    BY <1>2, <1>6, <1>7, <1>8, <1>9, <1>10, TimerAssumption, SMTT(30) DEF Owned
  <2>2. Els(s5) \subseteq Event
    <3> HIDE DEF s5
    <3> QED
      BY <1>10, ElementsTyped
  <2> QED
    BY <1>1, <2>1, <2>2, Zenon DEF OwnInv, HeapOwned, TypeInv
<1> QED
  BY <1>10, <1>11, Zenon DEF EventOwnedOnce, NoDup, Els, s1, s2, s3, s4

---------------------------------------------------------------------------
(* The runner, as the timer sees it.                                       *)
BHP == INSTANCE BottomHalfProofs

\* What is said of the clock, the hardware and the runner.
ClockInv == /\ BHP!BHInv /\ TickInv /\ FiringInv
            /\ HardwareDeadline /\ SourceArmed /\ StoppedIsQuiet

TimerInv == EventInv /\ ClockInv

LEMMA SameRunner ==
    /\ \A b : BH!Handling(b) <=> BHP!Handling(b)
    /\ \A b : BH!Handling(b)' <=> BHP!Handling(b)'
    /\ \A b : BHP!Waits(b) <=> b \in pending \/ BH!InRound(b)
    /\ \A b : BHP!Waits(b)' <=> b \in pending' \/ BH!InRound(b)'
    /\ \A b : BHP!Handling(b) => BHP!Active
    /\ \A S : BH!RaiseAndRun(S) <=> BHP!RaiseAndRun(S)
    /\ \A S : BH!clear_bottom_half(S) <=> BHP!clear_bottom_half(S)
    /\ \A S : BH!FinishHandler(S) <=> BHP!FinishHandler(S)
    /\ \A b : BH!StartHandler(b) <=> BHP!StartHandler(b)
    /\ BH!EndRound <=> BHP!EndRound
BY DEF BHP!Waits, BH!Handling, BHP!Handling, BH!InRound, BHP!InRound, BH!Active, BHP!Active,
       BH!Top, BHP!Top, BH!SetTop, BHP!SetTop, BH!Between, BHP!Between,
       BH!Types, BHP!Types, BH!Rank, BHP!Rank,
       BH!raise_bottom_half, BHP!raise_bottom_half,
       BH!RaiseAndRun, BHP!RaiseAndRun, BH!clear_bottom_half, BHP!clear_bottom_half,
       BH!FinishHandler, BHP!FinishHandler, BH!StartHandler, BHP!StartHandler,
       BH!EndRound, BHP!EndRound

\* Both bottom halves of this model are types of the runner.
LEMMA TimerIsType == {TIMER, CUSTOM} \in SUBSET BHP!Types /\ TIMER # CUSTOM
BY DEF TIMER, CUSTOM, BHP!Types

\* A step that leaves the runner alone.
LEMMA QuietFacts ==
    ASSUME BHP!BHInv, UNCHANGED bh
    PROVE  /\ BHP!BHInv' /\ pending' = pending
           /\ BH!Handling(TIMER)' <=> BH!Handling(TIMER)
           /\ Coming' <=> Coming
BY SameRunner, BHP!QuietStep DEF bh, Coming

\* A trap whose handler raises S, as the timer queue sees it.
LEMMA TrapFacts ==
    ASSUME BHP!BHInv, NEW S \in SUBSET {TIMER, CUSTOM}, BH!RaiseAndRun(S)
    PROVE  /\ BHP!BHInv' /\ pending' \subseteq pending \cup S
           /\ BH!Handling(TIMER)' <=> BH!Handling(TIMER)
           /\ Coming' <=> Coming \/ TIMER \in S
<1>1. S \in SUBSET BHP!Types /\ TIMER \in BHP!Types
  BY TimerIsType
<1> QED
  BY <1>1, SameRunner, BHP!TrapStep DEF Coming

\* clear_bottom_half, as the timer queue sees it.
LEMMA ClearFacts ==
    ASSUME BHP!BHInv, BH!clear_bottom_half({TIMER})
    PROVE  /\ BHP!BHInv' /\ TIMER \notin pending'
           /\ BH!Handling(TIMER)' <=> BH!Handling(TIMER)
BY SameRunner, BHP!ClearStep

\* The start of a handler, as the timer queue sees it.
LEMMA StartFacts ==
    ASSUME BHP!BHInv, NEW b \in {TIMER, CUSTOM}, BH!StartHandler(b)
    PROVE  /\ BHP!BHInv' /\ pending' = pending
           /\ ~BH!Handling(TIMER) /\ (BH!Handling(TIMER)' <=> b = TIMER)
           /\ Coming => Coming'
<1>1. b \in BHP!Types /\ TIMER \in BHP!Types
  BY TimerIsType
<1> QED
  BY <1>1, SameRunner, BHP!StartStep DEF Coming

\* The return of a handler, as the timer queue sees it.
LEMMA FinishFacts ==
    ASSUME BHP!BHInv, NEW c, BH!Handling(c), NEW S, BH!FinishHandler(S)
    PROVE  /\ BHP!BHInv' /\ pending' \subseteq pending \cup S
           /\ ~BH!Handling(TIMER)'
           /\ Coming /\ ~BH!Handling(TIMER) => Coming'
<1>1. TIMER \in BHP!Types
  BY TimerIsType
<1> QED
  BY <1>1, SameRunner, BHP!FinishStep DEF Coming

\* The end of a round, as the timer queue sees it.
LEMMA EndRoundFacts ==
    ASSUME BHP!BHInv, BH!EndRound
    PROVE  /\ BHP!BHInv' /\ pending' \subseteq pending
           /\ ~BH!Handling(TIMER) /\ ~BH!Handling(TIMER)'
           /\ Coming' <=> Coming
<1>1. TIMER \in BHP!Types
  BY TimerIsType
<1> QED
  BY <1>1, SameRunner, BHP!EndRoundStep DEF Coming

\* Only one handler is active.
LEMMA OneHandler ==
    /\ \A b, c : BH!Handling(b) /\ BH!Handling(c) => b = c
    /\ BH!Handling(CUSTOM) => ~BH!Handling(TIMER)
BY TimerIsType DEF BH!Handling

---------------------------------------------------------------------------
(* The hardware and the runner.                                            *)

\* A step that programs nothing.
LEMMA ClockSame ==
    ASSUME ClockInv, BHP!BHInv', BH!Handling(TIMER)' <=> BH!Handling(TIMER),
           Coming => Coming', TIMER \in pending' => TIMER \in pending,
           UNCHANGED <<timer_enabled, booted, tick, stie, hw, timer_head, firing, step>>,
           \A i \in 1..Len(timer_head) : expire'[timer_head[i]] = expire[timer_head[i]]
    PROVE  ClockInv'
<1>1. TickInv' /\ FiringInv'
  BY DEF ClockInv, TickInv, FiringInv
<1>2. HardwareDeadline'
  <2>1. {expire[timer_head[i]] : i \in 1..Len(timer_head)}'
          = {expire[timer_head[i]] : i \in 1..Len(timer_head)}
    OBVIOUS
  <2> QED
    BY <2>1 DEF ClockInv, HardwareDeadline
<1>3. SourceArmed' /\ StoppedIsQuiet'
  BY DEF ClockInv, SourceArmed, StoppedIsQuiet, Never
<1> QED
  BY <1>1, <1>2, <1>3, Zenon DEF ClockInv

\* timer_init starts the tick and programs the hardware.
LEMMA InitClock ==
    ASSUME EventInv, ClockInv, timer_init
    PROVE  TypeInv' /\ ClockInv'
<1>1. /\ booted' = TRUE /\ timer_enabled' = TRUE /\ tick' = now + Interval /\ stie' = TRUE
      /\ timer_reprogram_locked(timer_head, now + Interval)
      /\ UNCHANGED <<bh, now, timer_head, step, done, firing, adding, dropping,
                     expire, heap, due, released>>
  BY DEF timer_init, handler, locals, blocks
<1>2. now + Interval \in Nat /\ now + Interval > 0
  BY TimerAssumption, SMTT(30) DEF EventInv, TypeInv
<1>3. /\ hw' \in Nat /\ hw' <= now + Interval
      /\ \A i \in 1..Len(timer_head) : hw' <= expire[timer_head[i]]
      /\ hw' = now + Interval \/ \E i \in 1..Len(timer_head) : hw' = expire[timer_head[i]]
  BY <1>1, <1>2, Reprogram, Zenon DEF EventInv, TypeInv
<1>4. TypeInv'
  BY <1>1, <1>2, <1>3, SMTT(30) DEF EventInv, TypeInv
<1>5. HardwareDeadline'
  BY <1>1, <1>3 DEF HardwareDeadline
<1>6. /\ BHP!BHInv' /\ (BH!Handling(TIMER)' <=> BH!Handling(TIMER))
  BY <1>1, QuietFacts DEF ClockInv
<1>7. TickInv' /\ FiringInv' /\ SourceArmed' /\ StoppedIsQuiet'
  BY <1>1, <1>2, <1>6 DEF ClockInv, TickInv, FiringInv, SourceArmed, StoppedIsQuiet
<1> QED
  BY <1>4, <1>5, <1>6, <1>7 DEF ClockInv

\* The timer interrupt.
LEMMA IrqClock ==
    ASSUME EventInv, ClockInv, timer_irq_top
    PROVE  ClockInv'
<1>1. /\ stie /\ stie' = FALSE /\ BH!RaiseAndRun({TIMER})
      /\ UNCHANGED <<timer_enabled, timer_head, tick, hw, step, firing, booted, expire>>
  BY DEF timer_irq_top, handler, blocks
<1>2. /\ BHP!BHInv' /\ (BH!Handling(TIMER)' <=> BH!Handling(TIMER)) /\ Coming'
  BY <1>1, TrapFacts DEF ClockInv
<1>3. TickInv' /\ FiringInv'
  BY <1>1, <1>2 DEF ClockInv, TickInv, FiringInv
<1>4. HardwareDeadline'
  BY <1>1, <1>2 DEF ClockInv, HardwareDeadline
<1>5. SourceArmed' /\ StoppedIsQuiet'
  BY <1>1, <1>2 DEF ClockInv, SourceArmed, StoppedIsQuiet
<1> QED
  BY <1>2, <1>3, <1>4, <1>5 DEF ClockInv

\* The first part of add_timer_with_cleanup reads the clock.
LEMMA AddPrepareClock ==
    ASSUME EventInv, ClockInv,
           NEW c \in Context, NEW e \in Event, NEW d \in Durations, AddPrepare(c, e, d)
    PROVE  ClockInv'
<1>1. /\ UNCHANGED <<bh, timer_enabled, booted, tick, stie, hw, timer_head, firing, step>>
      /\ expire' = [expire EXCEPT ![e] = now + d] /\ e \notin heap
  BY DEF AddPrepare, hard, handler
<1>2. \A i \in 1..Len(timer_head) : expire'[timer_head[i]] = expire[timer_head[i]]
  BY <1>1, OwnedInHeap, Zenon DEF EventInv, TypeInv
<1>3. BHP!BHInv
  BY DEF ClockInv
<1> QED
  BY <1>1, <1>2, <1>3, QuietFacts, ClockSame

\* The section of add_timer_with_cleanup programs an earlier deadline.
LEMMA AddInsertClock ==
    ASSUME EventInv, ClockInv, EventInv', NEW c \in Context, AddInsert(c)
    PROVE  ClockInv'
<1>1. UNCHANGED <<bh, timer_enabled, booted, tick, stie, firing, step, expire>>
  BY DEF AddInsert, handler
<1>2. BHP!BHInv
  BY DEF ClockInv
<1>3. /\ BHP!BHInv' /\ (BH!Handling(TIMER)' <=> BH!Handling(TIMER)) /\ (Coming' <=> Coming)
      /\ pending' = pending
  BY <1>1, <1>2, QuietFacts
<1>4. CASE timer_enabled
  <2>1. timer_reprogram_locked(timer_head', tick)
    BY <1>4 DEF AddInsert
  <2>2. timer_head' \in Seq(Event) /\ Sorted(timer_head') /\ tick \in Nat /\ tick > 0
        /\ expire \in [Event -> 0..MaxTime]
    BY <1>1, <1>4, Zenon DEF EventInv, TypeInv, Sorted, ClockInv, TickInv
  <2>3. /\ hw' <= tick /\ \A i \in 1..Len(timer_head') : hw' <= expire[timer_head'[i]]
        /\ hw' = tick \/ \E i \in 1..Len(timer_head') : hw' = expire[timer_head'[i]]
    BY <2>1, <2>2, Reprogram
  <2>4. HardwareDeadline'
    BY <1>1, <2>3 DEF HardwareDeadline
  <2>5. TickInv' /\ FiringInv'
    BY <1>1, <1>3 DEF ClockInv, TickInv, FiringInv
  <2>6. SourceArmed' /\ StoppedIsQuiet'
    BY <1>1, <1>3, <1>4, SMTT(30) DEF ClockInv, SourceArmed, StoppedIsQuiet
  <2> QED
    BY <1>3, <2>4, <2>5, <2>6 DEF ClockInv
<1>5. CASE ~timer_enabled
  <2>1. timer_head' = timer_head /\ hw' = hw
    BY <1>5 DEF AddInsert
  <2> QED
    BY <1>1, <1>3, <2>1, ClockSame
<1> QED
  BY <1>4, <1>5

\* stop_timer turns the timer off.
LEMMA StopClock ==
    ASSUME ClockInv, NEW c \in Context, timer_stop(c)
    PROVE  ClockInv'
<1>1. /\ timer_enabled' = FALSE /\ stie' = FALSE /\ tick' = 0 /\ hw' = Never
      /\ timer_head' = <<>> /\ BH!clear_bottom_half({TIMER})
      /\ UNCHANGED <<step, firing, booted>>
  BY DEF timer_stop, handler
<1>2. BHP!BHInv' /\ TIMER \notin pending' /\ (BH!Handling(TIMER)' <=> BH!Handling(TIMER))
  BY <1>1, ClearFacts, SMTT(30) DEF ClockInv
<1>3. TickInv' /\ FiringInv' /\ HardwareDeadline' /\ SourceArmed'
  BY <1>1, <1>2 DEF ClockInv, TickInv, FiringInv, HardwareDeadline, SourceArmed
<1>4. StoppedIsQuiet'
  BY <1>1, <1>2 DEF StoppedIsQuiet, Never
<1> QED
  BY <1>2, <1>3, <1>4 DEF ClockInv

\* The timer bottom half starts.
LEMMA StartClock ==
    ASSUME ClockInv, NEW b \in {TIMER, CUSTOM}, StartHandler(b)
    PROVE  ClockInv'
<1>1. /\ BH!StartHandler(b)
      /\ UNCHANGED <<timer_enabled, timer_head, tick, hw, stie, firing, booted, expire>>
      /\ IF b = TIMER THEN step' = (IF timer_enabled THEN "next" ELSE "end") ELSE step' = step
  BY DEF StartHandler, hard, blocks
<1>2. /\ BHP!BHInv' /\ pending' = pending
      /\ ~BH!Handling(TIMER) /\ (BH!Handling(TIMER)' <=> b = TIMER) /\ (Coming => Coming')
  BY <1>1, StartFacts DEF ClockInv
<1>3. TickInv' /\ FiringInv'
  BY <1>1, <1>2, SMTT(30) DEF ClockInv, TickInv, FiringInv
<1>4. HardwareDeadline'
  BY <1>1, <1>2 DEF ClockInv, HardwareDeadline
<1>5. SourceArmed' /\ StoppedIsQuiet'
  BY <1>1, <1>2 DEF ClockInv, SourceArmed, StoppedIsQuiet, Never
<1> QED
  BY <1>2, <1>3, <1>4, <1>5 DEF ClockInv

\* timer_bottom_half goes to the next due event, or programs the deadline.
LEMMA NextClock ==
    ASSUME EventInv, EventInv', ClockInv, TimerNext
    PROVE  ClockInv'
<1>1. /\ BH!Handling(TIMER) /\ step = "next"
      /\ UNCHANGED <<bh, timer_enabled, hw, stie, booted>>
  BY DEF TimerNext, InHandler, hard
<1>2. BHP!BHInv
  BY DEF ClockInv
<1>3. /\ BHP!BHInv' /\ BH!Handling(TIMER)' /\ (Coming' <=> Coming) /\ pending' = pending
  BY <1>1, <1>2, QuietFacts
<1>4. HardwareDeadline' /\ SourceArmed'
  BY <1>1, <1>3 DEF ClockInv, HardwareDeadline, SourceArmed
<1>5. firing = None
  BY <1>1 DEF ClockInv, FiringInv
<1>6. FiringInv'
  <2>1. CASE step' = "end" /\ firing' = firing
    BY <1>3, <1>5, <2>1 DEF FiringInv
  <2>2. CASE step' = "callback" /\ timer_head # <<>> /\ firing' = Head(timer_head)
    <3>1. Head(timer_head) \in Event
      BY <2>2, TailFacts DEF EventInv, TypeInv
    <3> QED
      BY <1>3, <2>2, <3>1, TimerAssumption, SMTT(30) DEF FiringInv
  <2> QED
    BY <2>1, <2>2 DEF TimerNext, HeadDue
<1>7. TickInv'
  BY <1>1, TickType DEF ClockInv, TickInv, TimerNext, EventInv
<1>8. StoppedIsQuiet'
  BY <1>1, <1>3 DEF ClockInv, StoppedIsQuiet, TimerNext, Never
<1> QED
  BY <1>3, <1>4, <1>6, <1>7, <1>8 DEF ClockInv

\* A callback returns.
LEMMA CallbackClock ==
    ASSUME ClockInv, CallbackReturns
    PROVE  ClockInv' /\ firing # None
<1>1. /\ BH!Handling(TIMER) /\ step = "callback" /\ step' = "next" /\ firing' = None
      /\ UNCHANGED <<bh, timer_enabled, timer_head, tick, hw, stie, booted, expire>>
  BY DEF CallbackReturns, InHandler, hard
<1>2. BHP!BHInv
  BY DEF ClockInv
<1>3. /\ BHP!BHInv' /\ BH!Handling(TIMER)' /\ (Coming' <=> Coming) /\ pending' = pending
  BY <1>1, <1>2, QuietFacts
<1>4. TickInv' /\ FiringInv' /\ HardwareDeadline' /\ SourceArmed'
  BY <1>1, <1>3 DEF ClockInv, TickInv, FiringInv, HardwareDeadline, SourceArmed
<1>5. StoppedIsQuiet' /\ firing # None
  BY <1>1, <1>3 DEF ClockInv, StoppedIsQuiet, FiringInv, Never
<1> QED
  BY <1>3, <1>4, <1>5 DEF ClockInv

\* timer_bottom_half ends: the hardware gets the deadline of the queue.
LEMMA EndClock ==
    ASSUME EventInv, ClockInv, TimerEnd
    PROVE  ClockInv' /\ hw' \in Nat /\ stie' \in BOOLEAN
<1>1. /\ BH!Handling(TIMER) /\ step = "end"
      /\ UNCHANGED <<timer_enabled, timer_head, tick, step, firing, booted, expire>>
  BY DEF TimerEnd, InHandler, handler, blocks
<1>2. BHP!BHInv /\ firing = None
  BY <1>1 DEF ClockInv, FiringInv
<1>3. PICK S : BH!FinishHandler(S) /\ (~timer_enabled => S = {})
  BY DEF TimerEnd
<1>4. BHP!BHInv' /\ pending' \subseteq pending \cup S /\ ~BH!Handling(TIMER)'
  BY <1>1, <1>2, <1>3, FinishFacts
<1>5. TickInv' /\ FiringInv'
  BY <1>1, <1>2 DEF ClockInv, TickInv, FiringInv
<1>6. CASE timer_enabled
  <2>1. timer_reprogram_locked(timer_head, tick) /\ stie' = TRUE
    BY <1>6 DEF TimerEnd
  <2>2. tick \in Nat /\ tick > 0
    BY <1>6 DEF ClockInv, TickInv, EventInv, TypeInv
  <2>3. /\ hw' \in Nat /\ hw' <= tick
        /\ \A i \in 1..Len(timer_head) : hw' <= expire[timer_head[i]]
        /\ hw' = tick \/ \E i \in 1..Len(timer_head) : hw' = expire[timer_head[i]]
    BY <2>1, <2>2, Reprogram, Zenon DEF EventInv, TypeInv
  <2>4. HardwareDeadline'
    BY <1>1, <2>3 DEF HardwareDeadline
  <2>5. SourceArmed' /\ StoppedIsQuiet'
    BY <1>1, <1>6, <2>1 DEF SourceArmed, StoppedIsQuiet
  <2> QED
    BY <1>4, <1>5, <2>1, <2>3, <2>4, <2>5 DEF ClockInv
<1>7. CASE ~timer_enabled
  <2>1. hw' = hw /\ stie' = stie
    BY <1>7, SMTT(30) DEF TimerEnd, hard
  <2>2. HardwareDeadline' /\ SourceArmed' /\ StoppedIsQuiet'
    BY <1>1, <1>3, <1>4, <1>7, <2>1, SMTT(30)
       DEF ClockInv, HardwareDeadline, SourceArmed, StoppedIsQuiet, Never
  <2> QED
    BY <1>4, <1>5, <2>1, <2>2 DEF ClockInv, EventInv, TypeInv
<1> QED
  BY <1>6, <1>7 DEF EventInv, TypeInv

---------------------------------------------------------------------------
\* Every step keeps the invariant and cleans up what it frees.
LEMMA TimerStep ==
    ASSUME TimerInv, [Next]_vars
    PROVE  TimerInv' /\ CleanStep
<1>1. EventInv /\ ClockInv /\ TypeInv /\ BHP!BHInv
  BY DEF TimerInv, EventInv, ClockInv
<1>2. CASE timer_init
  <2>1. TypeInv' /\ ClockInv'
    BY <1>1, <1>2, InitClock
  <2>2. now' >= now /\ UNCHANGED <<timer_head, firing, locals, blocks>>
    BY <1>1, <1>2 DEF timer_init, handler, TypeInv
  <2> QED
    BY <1>1, <2>1, <2>2, EventsSame DEF TimerInv
<1>3. CASE ClockTicks
  <2>1. TypeInv' /\ now' >= now
    BY <1>1, <1>3, TimerAssumption, SMTT(30) DEF ClockTicks, TypeInv, hard, handler, locals, blocks
  <2>2. EventInv' /\ CleanStep
    BY <1>1, <1>3, <2>1, EventsSame DEF ClockTicks, handler
  <2>3. ClockInv'
    <3>1. UNCHANGED <<bh, timer_enabled, booted, tick, stie, hw, timer_head, firing, step, expire>>
      BY <1>3 DEF ClockTicks, hard, handler, blocks
    <3> QED
      BY <1>1, <3>1, QuietFacts, ClockSame
  <2> QED
    BY <2>2, <2>3, SMTT(30) DEF TimerInv
<1>4. CASE timer_irq_top
  <2>1. TypeInv' /\ now' >= now
    <3>1. /\ UNCHANGED <<now, timer_enabled, timer_head, tick, hw, step, done, firing,
                         adding, dropping, booted, expire, heap, due, released>>
          /\ stie' = FALSE
      BY <1>4 DEF timer_irq_top, handler, locals, blocks
    <3>2. TypeInv'
      BY <1>1, <3>1, Zenon DEF TypeInv
    <3> QED
      BY <1>1, <3>1, <3>2 DEF TypeInv
  <2>2. EventInv' /\ CleanStep
    BY <1>1, <1>4, <2>1, EventsSame, SMTT(30) DEF timer_irq_top, handler
  <2> QED
    BY <1>1, <1>4, <2>2, IrqClock, SMTT(30) DEF TimerInv
<1>5. CASE OtherTrap \/ NextRound \/ CustomReturns
  <2>1. /\ UNCHANGED <<now, timer_enabled, timer_head, tick, hw, stie, step, done, firing,
                       adding, dropping, booted, expire, heap, due, released>>
    BY <1>5 DEF OtherTrap, NextRound, CustomReturns, hard, handler, locals, blocks
  <2>2. TypeInv' /\ now' >= now
    BY <1>1, <2>1 DEF TypeInv
  <2>3. EventInv' /\ CleanStep
    BY <1>1, <2>1, <2>2, EventsSame DEF locals, blocks
  <2>4. /\ BHP!BHInv' /\ (BH!Handling(TIMER)' <=> BH!Handling(TIMER))
        /\ (Coming => Coming') /\ (TIMER \in pending' => TIMER \in pending)
    <3>1. CASE OtherTrap
      BY <1>1, <3>1, TrapFacts, TimerIsType DEF OtherTrap
    <3>2. CASE NextRound
      BY <1>1, <3>2, EndRoundFacts DEF NextRound
    <3>3. CASE CustomReturns
      BY <1>1, <3>3, FinishFacts, OneHandler, SMTT(30) DEF CustomReturns
    <3> QED
      BY <1>5, <3>1, <3>2, <3>3
  <2>5. ClockInv'
    <3>1. \A i \in 1..Len(timer_head) : expire'[timer_head[i]] = expire[timer_head[i]]
      BY <2>1
    <3> QED
      BY <1>1, <2>1, <2>4, <3>1, ClockSame, SMTT(30)
  <2> QED
    BY <2>3, <2>5 DEF TimerInv
<1>6. ASSUME NEW c \in Context, NEW e \in Event, NEW d \in Durations, AddPrepare(c, e, d)
      PROVE  TimerInv' /\ CleanStep
  BY <1>1, <1>6, AddPrepareEvents, AddPrepareClock DEF TimerInv
<1>7. ASSUME NEW c \in Context, AddInsert(c) PROVE TimerInv' /\ CleanStep
  BY <1>1, <1>7, AddInsertEvents, AddInsertClock DEF TimerInv
<1>8. ASSUME NEW c \in Context, timer_stop(c) PROVE TimerInv' /\ CleanStep
  BY <1>1, <1>8, StopEvents, StopClock DEF TimerInv
<1>9. ASSUME NEW c \in Context, DropOne(c) PROVE TimerInv' /\ CleanStep
  <2>1. UNCHANGED <<bh, timer_enabled, booted, tick, stie, hw, timer_head, firing, step, expire>>
    BY <1>9 DEF DropOne, hard, handler
  <2>2. ClockInv'
    BY <1>1, <2>1, QuietFacts, ClockSame
  <2> QED
    BY <1>1, <1>9, <2>2, DropEvents DEF TimerInv
<1>10. ASSUME NEW b \in {TIMER, CUSTOM}, StartHandler(b) PROVE TimerInv' /\ CleanStep
  <2>1. TypeInv' /\ now' >= now
    BY <1>1, <1>10 DEF StartHandler, TypeInv, hard, locals, blocks
  <2>2. EventInv' /\ CleanStep
    BY <1>1, <1>10, <2>1, EventsSame DEF StartHandler
  <2> QED
    BY <1>1, <1>10, <2>2, StartClock, SMTT(30) DEF TimerInv
<1>11. CASE TimerNext
  <2>1. firing = None
    BY <1>1, <1>11 DEF TimerNext, InHandler, ClockInv, FiringInv
  <2> QED
    BY <1>1, <1>11, <2>1, NextEvents, NextClock DEF TimerInv
<1>12. CASE CallbackReturns
  BY <1>1, <1>12, CallbackClock, CallbackEvents DEF TimerInv
<1>13. CASE TimerEnd
  <2>1. ClockInv' /\ hw' \in Nat /\ stie' \in BOOLEAN
    BY <1>1, <1>13, EndClock
  <2>2. /\ UNCHANGED <<now, timer_enabled, timer_head, tick, step, done, firing,
                       adding, dropping, booted, expire, heap, due, released>>
    BY <1>13 DEF TimerEnd, handler, locals, blocks
  <2>3. TypeInv' /\ now' >= now
    BY <1>1, <2>1, <2>2 DEF TypeInv
  <2>4. EventInv' /\ CleanStep
    BY <1>1, <2>2, <2>3, EventsSame, SMTT(30) DEF locals, blocks
  <2> QED
    BY <2>1, <2>4 DEF TimerInv
<1>14. CASE UNCHANGED vars
  <2>1. /\ UNCHANGED <<now, timer_enabled, timer_head, tick, hw, stie, step, done, firing,
                       adding, dropping, booted, expire, heap, due, released>>
        /\ UNCHANGED bh
    BY <1>14 DEF vars, hard, handler, locals, blocks
  <2>2. TypeInv' /\ now' >= now
    BY <1>1, <2>1 DEF TypeInv
  <2>3. EventInv' /\ CleanStep
    BY <1>1, <2>1, <2>2, EventsSame DEF locals, blocks
  <2>4. ClockInv'
    BY <1>1, <2>1, QuietFacts, ClockSame, Zenon
  <2> QED
    BY <2>3, <2>4 DEF TimerInv
<1> QED
  BY <1>2, <1>3, <1>4, <1>5, <1>6, <1>7, <1>8, <1>9, <1>10, <1>11, <1>12, <1>13, <1>14, SMTT(30) DEF Next

\* Before timer_init nothing is queued, armed or owned.
LEMMA TimerStart == Init => TimerInv
<1> SUFFICES ASSUME Init PROVE TimerInv
  OBVIOUS
<1>1. TypeInv
  <2>1. now \in 0..MaxNow /\ hw \in Nat /\ tick \in Nat /\ done \in Nat
    BY TimerAssumption DEF Init, Never
  <2>2. /\ expire \in [Event -> 0..MaxTime] /\ due \in [Event -> 0..MaxTime]
        /\ released \in [Event -> Nat]
    BY TimerAssumption DEF Init
  <2>3. /\ timer_head \in Seq(Event) /\ dropping \in [Context -> Seq(Event)]
        /\ adding \in [Context -> Event \cup {None}] /\ firing \in Event \cup {None}
    BY EmptyList DEF Init
  <2> QED
    BY <2>1, <2>2, <2>3, Zenon DEF Init, TypeInv
<1>2. Sorted(timer_head) /\ FreshInv /\ NotEarly
  BY DEF Init, Sorted, FreshInv, NotEarly
<1>3. /\ Els(timer_head) = {} /\ NoDup(timer_head)
      /\ \A c \in Context : Els(dropping[c]) = {} /\ NoDup(dropping[c]) /\ adding[c] = None
  BY EmptyList DEF Init
<1>4. OwnInv
  BY <1>3, TimerAssumption, Zenon DEF Init, OwnInv, ListsOnce, HeapOwned, Owned, QueueApart,
                               FiringApart, ContextsApart
<1>5. BHP!BHInv
  <2>1. BHP!Init
    BY DEF Init, BH!Init, BHP!Init
  <2> QED
    BY <2>1, BHP!BHStart
<1>6. TickInv /\ FiringInv /\ HardwareDeadline /\ SourceArmed /\ StoppedIsQuiet
  BY DEF Init, TickInv, FiringInv, HardwareDeadline, SourceArmed, StoppedIsQuiet
<1> QED
  BY <1>1, <1>2, <1>4, <1>5, <1>6 DEF TimerInv, EventInv, ClockInv

\* The inductive invariant of the timer queue: every event has one owner, the
\* queue is sorted, and the deadline of the timer covers its head.
THEOREM TimerInvariance == Spec => []TimerInv
<1>1. TimerInv /\ [Next]_vars => TimerInv'
  BY TimerStep
<1> QED
  BY <1>1, TimerStart, PTL DEF Spec

\* The hardware deadline is the earliest of the tick and of all queued events
\* whenever the bottom half is not at work on it, and its interrupt is
\* masked only while that bottom half is on its way.
THEOREM DeadlineIsKept == Spec => []DeadlineKept
<1>1. TimerInv => DeadlineKept
  BY DEF TimerInv, ClockInv, DeadlineKept
<1> QED
  BY <1>1, TimerInvariance, PTL

\* Once timer_stop has run, whatever it interrupted, nothing is queued and
\* nothing will look for an event.
THEOREM StopIsFinal == Spec => []StoppedIsQuiet
<1>1. TimerInv => StoppedIsQuiet
  BY DEF TimerInv, ClockInv
<1> QED
  BY <1>1, TimerInvariance, PTL

\* A callback runs at its deadline or later.
THEOREM CallbackNotEarly == Spec => []NotEarly
<1>1. TimerInv => NotEarly
  BY DEF TimerInv, EventInv
<1> QED
  BY <1>1, TimerInvariance, PTL

\* The cleanup of a freed event has run once if the event had been accepted,
\* and not at all if it was refused.
THEOREM CleanupRunsOnce == Spec => CleanupOnce
<1>1. TimerInv /\ [Next]_vars => CleanStep
  BY TimerStep
<1>2. CleanupOnce <=> [][CleanStep]_vars
  BY DEF CleanupOnce, CleanStep
<1> QED
  BY <1>1, <1>2, TimerInvariance, PTL DEF Spec

\* Every allocated event is held once: by an add_timer that has not linked
\* it, by the queue, by the bottom half, or by a timer_stop.
THEOREM OwnershipIsExact == Spec => []EventOwnedOnce
<1>1. TimerInv => EventOwnedOnce
  BY OwnedLists DEF TimerInv
<1> QED
  BY <1>1, TimerInvariance, PTL
=============================================================================
