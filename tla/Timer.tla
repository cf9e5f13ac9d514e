-------------------------------- MODULE Timer --------------------------------
(***************************************************************************)
(* The timer subsystem (timer.c): one hardware deadline shared by the      *)
(* scheduling tick and a sorted queue of one-shot events, the top half,    *)
(* and the TIMER bottom half under BottomHalf's runner.                    *)
(*                                                                         *)
(* One step is one section with interrupts off, or the code between two of *)
(* them.  add_timer and timer_stop are called from thread code and from    *)
(* callbacks (of timers and of deferred work), which run on top of the     *)
(* interrupted thread: a context is "thread" or "callback", and each has   *)
(* its own locals.  An event is a block of the heap; one without a cleanup *)
(* is one whose cleanup does nothing.                                      *)
(*                                                                         *)
(* A definition X_Defect, placed before X, is X with a plausible defect.   *)
(***************************************************************************)
EXTENDS Integers, Sequences, FiniteSets

CONSTANTS Event,       \* heap blocks for struct timer_event
          None,        \* the null pointer
          Interval,    \* sched_tick_interval after timer_init
          EventBudget, \* TIMER_EVENT_BUDGET
          Durations,   \* values of duration_ticks
          MaxTime,     \* UINT64_MAX
          MaxNow       \* bound: the last time the clock reaches

ASSUME TimerAssumption ==
    /\ None \notin Event
    /\ {Interval, EventBudget, MaxTime, MaxNow} \subseteq Nat \ {0}
    /\ MaxNow + Interval < MaxTime
    /\ Durations \subseteq 0..MaxTime

VARIABLES
    pending, running, frames, owed,  \* BottomHalf
    now,                 \* timer_read
    timer_enabled,
    timer_head,          \* the queue, as a sequence of events
    tick,                \* sched_tick_deadline; 0 with the tick off
    hw, stie,            \* the deadline set through the SBI; the STIE bit
    expire,              \* event->expire
    adding, dropping,    \* per context: the event of add_timer before its
                         \* section; the list timer_stop has still to free
    step, done, firing,  \* program point and locals of the bottom half
    booted,              \* timer_init was called
    heap,                \* allocated events
    due,                 \* now + duration_ticks as it was asked for
    released             \* calls of the event's cleanup so far

bh == <<pending, running, frames, owed>>
hard == <<hw, stie>>
handler == <<step, done, firing>>
locals == <<adding, dropping>>
blocks == <<expire, heap, due, released>>
vars == <<bh, now, timer_enabled, timer_head, tick, hard, handler, locals,
          booted, blocks>>

BH == INSTANCE BottomHalf

TIMER == "TIMER"
CUSTOM == "CUSTOM"
Never == MaxTime       \* sbi_set_timer(~0ULL)
Context == {"thread", "callback"}

InHandler(s) == BH!Handling(TIMER) /\ step = s

\* Context c has the CPU.
Has(c) == IF c = "thread" THEN ~BH!Active
          ELSE BH!Handling(CUSTOM) \/ InHandler("callback")
Idle(c) == adding[c] = None /\ dropping[c] = <<>>

Least(a, b) == IF a <= b THEN a ELSE b

---------------------------------------------------------------------------
(* Shared parts.                                                           *)

\* The new event is not compared with the tick.
timer_reprogram_locked_HeadOnly(queue, deadline) ==
    hw' = IF queue = <<>> THEN (IF deadline = 0 THEN Never ELSE deadline)
          ELSE expire[queue[1]]

\* The deadline of the hardware for the given queue and tick.
timer_reprogram_locked(queue, deadline) ==
    hw' = LET tickAt == IF deadline = 0 THEN Never ELSE deadline
          IN  IF queue = <<>> THEN tickAt ELSE Least(tickAt, expire[queue[1]])

\* An event goes to the end of the queue.
Place_AtEnd(e, k) == k = Len(timer_head)

\* The walk of add_timer_with_cleanup passes k events: it stops at the first
\* one that is later than e.
Place(e, k) ==
    /\ \A i \in 1..k : expire[timer_head[i]] <= expire[e]
    /\ k < Len(timer_head) => expire[timer_head[k + 1]] > expire[e]

\* The queue with e put in after its first k events.
Inserted(e, k) ==
    [i \in 1..(Len(timer_head) + 1) |->
        IF i <= k THEN timer_head[i] ELSE IF i = k + 1 THEN e ELSE timer_head[i - 1]]

---------------------------------------------------------------------------
(* Boot, the clock and the top half.                                       *)
timer_init ==
    /\ ~booted /\ ~BH!Active
    /\ booted' = TRUE
    /\ timer_enabled' = TRUE
    /\ tick' = now + Interval
    /\ timer_reprogram_locked(timer_head, now + Interval)
    /\ stie' = TRUE
    /\ UNCHANGED <<bh, now, timer_head, handler, locals, blocks>>

ClockTicks ==
    /\ now < MaxNow
    /\ now' = now + 1
    /\ UNCHANGED <<bh, timer_enabled, timer_head, tick, hard, handler, locals,
                   booted, blocks>>

\* The hardware interrupts while its deadline lies behind.
timer_irq_top ==
    /\ stie /\ hw <= now
    /\ stie' = FALSE
    /\ BH!RaiseAndRun({TIMER})
    /\ UNCHANGED <<now, timer_enabled, timer_head, tick, hw, handler, locals,
                   booted, blocks>>

\* A trap that leaves a deferred callback to be run.
OtherTrap ==
    /\ BH!RaiseAndRun({CUSTOM})
    /\ UNCHANGED <<now, timer_enabled, timer_head, tick, hard, handler, locals,
                   booted, blocks>>

---------------------------------------------------------------------------
(* add_timer_with_cleanup.                                                 *)

\* The sum is taken without the test for overflow.
AddPrepare_Wraps(c, e, d) ==
    /\ booted /\ Has(c) /\ Idle(c) /\ e \notin heap
    /\ heap' = heap \cup {e}
    /\ expire' = [expire EXCEPT ![e] = (now + d) % (MaxTime + 1)]
    /\ due' = [due EXCEPT ![e] = now + d]
    /\ released' = [released EXCEPT ![e] = 0]
    /\ adding' = [adding EXCEPT ![c] = e]
    /\ UNCHANGED <<bh, now, timer_enabled, timer_head, tick, hard, handler,
                   dropping, booted>>

\* Up to the section: the block is allocated and filled.  With no memory, or
\* a sum that does not fit, add_timer fails and nothing is changed.
AddPrepare(c, e, d) ==
    /\ booted /\ Has(c) /\ Idle(c) /\ e \notin heap
    /\ d <= MaxTime - now
    /\ heap' = heap \cup {e}
    /\ expire' = [expire EXCEPT ![e] = now + d]
    /\ due' = [due EXCEPT ![e] = now + d]
    /\ released' = [released EXCEPT ![e] = 0]
    /\ adding' = [adding EXCEPT ![c] = e]
    /\ UNCHANGED <<bh, now, timer_enabled, timer_head, tick, hard, handler,
                   dropping, booted>>

\* The timer may have been stopped since add_timer looked.
AddInsert_NoRecheck(c) ==
    /\ Has(c) /\ adding[c] # None
    /\ adding' = [adding EXCEPT ![c] = None]
    /\ \E k \in 0..Len(timer_head) :
         Place(adding[c], k) /\ timer_head' = Inserted(adding[c], k)
    /\ timer_reprogram_locked(timer_head', tick)
    /\ UNCHANGED <<bh, now, timer_enabled, tick, stie, handler, dropping, booted,
                   blocks>>

\* The section: link the event and program the hardware, or give it up when
\* the timer was stopped meanwhile.
AddInsert(c) ==
    /\ Has(c) /\ adding[c] # None
    /\ adding' = [adding EXCEPT ![c] = None]
    /\ IF timer_enabled
       THEN /\ \E k \in 0..Len(timer_head) :
                 Place(adding[c], k) /\ timer_head' = Inserted(adding[c], k)
            /\ timer_reprogram_locked(timer_head', tick)
            /\ UNCHANGED heap
       ELSE /\ heap' = heap \ {adding[c]}
            /\ UNCHANGED <<timer_head, hw>>
    /\ UNCHANGED <<bh, now, timer_enabled, tick, stie, handler, dropping, booted,
                   expire, due, released>>

---------------------------------------------------------------------------
(* timer_stop.                                                             *)

\* The event whose callback runs is dropped with the others.
timer_stop_TakeFiring(c) ==
    /\ booted /\ Has(c) /\ Idle(c)
    /\ stie' = FALSE
    /\ timer_enabled' = FALSE
    /\ BH!clear_bottom_half({TIMER})
    /\ dropping' = [dropping EXCEPT ![c] =
                      (IF firing = None THEN <<>> ELSE <<firing>>) \o timer_head]
    /\ timer_head' = <<>>
    /\ tick' = 0 /\ hw' = Never
    /\ UNCHANGED <<now, handler, adding, booted, blocks>>

\* The section: nothing is left for the hardware or the bottom half to do.
timer_stop(c) ==
    /\ booted /\ Has(c) /\ Idle(c)
    /\ stie' = FALSE
    /\ timer_enabled' = FALSE
    /\ BH!clear_bottom_half({TIMER})
    /\ dropping' = [dropping EXCEPT ![c] = timer_head]
    /\ timer_head' = <<>>
    /\ tick' = 0 /\ hw' = Never
    /\ UNCHANGED <<now, handler, adding, booted, blocks>>

\* The payload is forgotten.
DropOne_NoCleanup(c) ==
    /\ Has(c) /\ dropping[c] # <<>>
    /\ heap' = heap \ {Head(dropping[c])}
    /\ dropping' = [dropping EXCEPT ![c] = Tail(@)]
    /\ UNCHANGED <<bh, now, timer_enabled, timer_head, tick, hard, handler, adding,
                   booted, expire, due, released>>

\* One turn of the loop over the dropped events: clean up, free.
DropOne(c) ==
    /\ Has(c) /\ dropping[c] # <<>>
    /\ released' = [released EXCEPT ![Head(dropping[c])] = @ + 1]
    /\ heap' = heap \ {Head(dropping[c])}
    /\ dropping' = [dropping EXCEPT ![c] = Tail(@)]
    /\ UNCHANGED <<bh, now, timer_enabled, timer_head, tick, hard, handler, adding,
                   booted, expire, due>>

---------------------------------------------------------------------------
(* timer_run_bottom_half, and the runner around it.                        *)
StartHandler(b) ==
    /\ BH!StartHandler(b)
    /\ IF b = TIMER
       THEN step' = (IF timer_enabled THEN "next" ELSE "end") /\ done' = 0
       ELSE UNCHANGED <<step, done>>
    /\ UNCHANGED <<now, timer_enabled, timer_head, tick, hard, firing, locals,
                   booted, blocks>>

NextRound ==
    /\ BH!EndRound
    /\ UNCHANGED <<now, timer_enabled, timer_head, tick, hard, handler, locals,
                   booted, blocks>>

CustomReturns ==
    /\ BH!Handling(CUSTOM) /\ Idle("callback")
    /\ BH!FinishHandler({})
    /\ UNCHANGED <<now, timer_enabled, timer_head, tick, hard, handler, locals,
                   booted, blocks>>

\* The first deadline of the tick that lies ahead.
TickAfter(t) == IF t = 0 \/ t > now THEN t
                ELSE t + ((now - t) \div Interval + 1) * Interval

HeadDue == timer_head # <<>> /\ expire[timer_head[1]] <= now

\* The section at the top of the loop: move the tick on, detach the first
\* event that is due.
TimerNext ==
    /\ InHandler("next")
    /\ IF done < EventBudget /\ timer_enabled
       THEN /\ tick' = TickAfter(tick)
            /\ IF HeadDue
               THEN /\ firing' = Head(timer_head)
                    /\ timer_head' = Tail(timer_head)
                    /\ step' = "callback"
               ELSE step' = "end" /\ UNCHANGED <<firing, timer_head>>
       ELSE step' = "end" /\ UNCHANGED <<tick, firing, timer_head>>
    /\ UNCHANGED <<bh, now, timer_enabled, hard, done, locals, booted, blocks>>

\* The callback has returned: clean up, free.
CallbackReturns ==
    /\ InHandler("callback") /\ Idle("callback")
    /\ released' = [released EXCEPT ![firing] = @ + 1]
    /\ heap' = heap \ {firing}
    /\ firing' = None
    /\ done' = done + 1
    /\ step' = "next"
    /\ UNCHANGED <<bh, now, timer_enabled, timer_head, tick, hard, locals, booted,
                   expire, due>>

\* The source stays masked when events are left over.
TimerEnd_MaskLeft ==
    /\ InHandler("end")
    /\ IF timer_enabled
       THEN /\ BH!FinishHandler({})
            /\ timer_reprogram_locked(timer_head, tick)
            /\ stie' = ~HeadDue
       ELSE BH!FinishHandler({}) /\ UNCHANGED hard
    /\ UNCHANGED <<now, timer_enabled, timer_head, tick, handler, locals, booted,
                   blocks>>

\* The last section: due events that are left wait for the next round.
TimerEnd ==
    /\ InHandler("end")
    /\ IF timer_enabled
       THEN /\ BH!FinishHandler(IF HeadDue THEN {TIMER} ELSE {})
            /\ timer_reprogram_locked(timer_head, tick)
            /\ stie' = TRUE
       ELSE BH!FinishHandler({}) /\ UNCHANGED hard
    /\ UNCHANGED <<now, timer_enabled, timer_head, tick, handler, locals, booted,
                   blocks>>

---------------------------------------------------------------------------
\* After timer_init_state and bottom_half_init.
Init ==
    /\ BH!Init
    /\ now = 0 /\ booted = FALSE
    /\ timer_enabled = FALSE /\ timer_head = <<>> /\ tick = 0
    /\ hw = Never /\ stie = FALSE
    /\ step = "end" /\ done = 0 /\ firing = None
    /\ adding = [c \in Context |-> None]
    /\ dropping = [c \in Context |-> <<>>]
    /\ heap = {}
    /\ expire = [e \in Event |-> 0] /\ due = [e \in Event |-> 0]
    /\ released = [e \in Event |-> 0]

Next ==
    \/ timer_init \/ ClockTicks \/ timer_irq_top \/ OtherTrap
    \/ \E c \in Context :
         \/ \E e \in Event, d \in Durations : AddPrepare(c, e, d)
         \/ AddInsert(c) \/ timer_stop(c) \/ DropOne(c)
    \/ \E b \in {TIMER, CUSTOM} : StartHandler(b)
    \/ NextRound \/ CustomReturns
    \/ TimerNext \/ CallbackReturns \/ TimerEnd

Spec == Init /\ [][Next]_vars

---------------------------------------------------------------------------
(* Safety.                                                                 *)

\* The timer's bottom half is on its way.
Coming == TIMER \in pending \/ BH!InRound(TIMER) \/ BH!Handling(TIMER)

\* The hardware deadline is the earliest of the tick and of all queued events,
\* as timer.c says, also when an event is linked long after its deadline was
\* computed; except inside the bottom half, which programs it anew.
HardwareDeadline ==
    timer_enabled /\ ~BH!Handling(TIMER) =>
        LET deadlines == {tick} \cup {expire[timer_head[i]] : i \in 1..Len(timer_head)}
        IN  hw \in deadlines /\ \A d \in deadlines : hw <= d

\* The timer interrupt is masked only while the bottom half, which unmasks
\* it, is on its way: neither the tick nor an event is ever waited for in
\* vain.
SourceArmed == timer_enabled => stie \/ Coming

\* The next deadline is programmed and will be heard (timer_reprogram_locked,
\* timer_irq_top).
DeadlineKept == HardwareDeadline /\ SourceArmed

\* After timer_stop, from whatever context and in the middle of whatever
\* call of add_timer, no event is queued, and neither the hardware nor the
\* bottom half will look for one.
StoppedIsQuiet ==
    booted /\ ~timer_enabled =>
        /\ timer_head = <<>> /\ tick = 0
        /\ hw = Never /\ ~stie /\ TIMER \notin pending

Some(e) == IF e = None THEN <<>> ELSE <<e>>

\* Every allocated event has one owner: an add_timer that has not linked it,
\* the queue, the bottom half that runs it, or a timer_stop that drops it.
\* No event leaks, is freed twice, or is reached after it was freed.
EventOwnedOnce ==
    LET owned == timer_head \o Some(firing) \o Some(adding["thread"]) \o
                 Some(adding["callback"]) \o dropping["thread"] \o dropping["callback"]
    IN  /\ \A i, j \in 1..Len(owned) : owned[i] = owned[j] => i = j
        /\ heap = {owned[i] : i \in 1..Len(owned)}

\* The payload's cleanup runs once for every event that was accepted, fired
\* or dropped, and never for one that was refused, whose caller keeps it.
CleanupOnce ==
    [][\A e \in heap \ heap' :
         released'[e] = IF \E c \in Context : adding[c] = e THEN 0 ELSE 1]_vars

\* A callback never runs before its time, however large the duration was.
NotEarly == firing # None => due[firing] <= now

---------------------------------------------------------------------------
(* Liveness.  Time goes on, a pending interrupt is taken, the runner and   *)
(* the bottom half go on, and callbacks, which may not sleep, return.      *)
Fairness ==
    /\ WF_vars(timer_init)
    /\ WF_vars(ClockTicks)
    /\ WF_vars(timer_irq_top)
    /\ \A b \in {TIMER, CUSTOM} : WF_vars(StartHandler(b))
    /\ WF_vars(NextRound)
    /\ WF_vars(TimerNext \/ TimerEnd)
    /\ WF_vars(AddInsert("callback") \/ DropOne("callback"))
    /\ SF_vars(CallbackReturns) /\ SF_vars(CustomReturns)

FairSpec == Spec /\ Fairness

InQueue(e) == \E i \in 1..Len(timer_head) : timer_head[i] = e

\* Every queued event whose time comes is taken from the queue, to be run or
\* dropped, even when callbacks keep adding events that are due at once.
EventTaken ==
    \A e \in Event : InQueue(e) /\ expire[e] <= MaxNow ~> ~InQueue(e)

\* The scheduling tick is not lost behind the events: once its deadline has
\* passed it is moved ahead of the clock again.
TickGoesOn == tick # 0 /\ tick <= now ~> tick = 0 \/ tick > now

\* Neither the events nor the tick of timer_run_bottom_half starve the other.
TimeIsServed == EventTaken /\ TickGoesOn
=============================================================================
