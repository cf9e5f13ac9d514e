----------------------------- MODULE CustomWork -----------------------------
(***************************************************************************)
(* One-shot deferred callbacks (custom_work.c) under BottomHalf's runner: a *)
(* pool of slots, the linked list of the submitted ones, and the CUSTOM    *)
(* bottom half that takes the whole list as a batch and calls it in order. *)
(*                                                                         *)
(* One step is one section with interrupts off, or the stretch of the      *)
(* handler between two of them.  A slot is a pool index, 0 the null        *)
(* pointer.  Submissions are numbered; arg holds the number.               *)
(*                                                                         *)
(* A definition X_Defect, placed before X, is X with a plausible defect.   *)
(***************************************************************************)
EXTENDS Naturals, Sequences

CONSTANTS Capacity,    \* CUSTOM_WORK_CAPACITY
          MaxSubmit,   \* bound: accepted submissions
          OtherWork    \* bottom halves beside CUSTOM

ASSUME CustomAssumption ==
    /\ Capacity \in Nat \ {0} /\ MaxSubmit \in Nat
    /\ OtherWork \subseteq {"TIMER", "UART_RX", "UART_TX"}

VARIABLES
    pending, running, frames, owed,  \* BottomHalf
    allocated, next, arg,            \* the pool
    head, tail,                      \* the list of submitted slots
    work, after,                     \* locals of run_custom_callbacks: work, next
    step,                            \* "take", "loop", "call"
    submitted, lastRun               \* submissions accepted, last one called

bh == <<pending, running, frames, owed>>
pool == <<allocated, next, arg>>
handler == <<work, after, step, lastRun>>
vars == <<bh, pool, head, tail, handler, submitted>>

BH == INSTANCE BottomHalf

Slot == 1..Capacity
CUSTOM == "CUSTOM"

InHandler(s) == BH!Handling(CUSTOM) /\ step = s

\* Code that may submit: threads, callbacks of the other bottom halves, and
\* deferred callbacks themselves.
MaySubmit == \/ ~BH!Active
             \/ \E b \in OtherWork : BH!Handling(b)
             \/ InHandler("call")

IsFirstFree(s) == ~allocated[s] /\ \A r \in 1..(s - 1) : allocated[r]

---------------------------------------------------------------------------
(* defer_callback.                                                         *)

\* The slot is put before the others.
Link_AtHead(s) ==
    /\ submitted < MaxSubmit /\ IsFirstFree(s)
    /\ allocated' = [allocated EXCEPT ![s] = TRUE]
    /\ arg' = [arg EXCEPT ![s] = submitted + 1]
    /\ next' = [next EXCEPT ![s] = head]
    /\ head' = s
    /\ tail' = IF tail = 0 THEN s ELSE tail
    /\ submitted' = submitted + 1

\* The first free slot is filled and linked behind the last one.  With the
\* pool full, or no callback, defer_callback fails and changes nothing.
Link(s) ==
    /\ submitted < MaxSubmit /\ IsFirstFree(s)
    /\ allocated' = [allocated EXCEPT ![s] = TRUE]
    /\ arg' = [arg EXCEPT ![s] = submitted + 1]
    /\ next' = [r \in Slot |-> IF r = s THEN 0 ELSE IF r = tail THEN s ELSE next[r]]
    /\ head' = IF tail = 0 THEN s ELSE head
    /\ tail' = s
    /\ submitted' = submitted + 1

\* Only the first slot of a list raises the bottom half, and only when no
\* batch is running.
defer_callback_RaiseIdle(s) ==
    /\ MaySubmit
    /\ Link(s)
    /\ IF running THEN UNCHANGED <<pending, owed>> ELSE BH!raise_bottom_half({CUSTOM})
    /\ UNCHANGED <<running, frames, handler>>

\* In a thread or a callback.
defer_callback(s) ==
    /\ MaySubmit
    /\ Link(s)
    /\ BH!raise_bottom_half({CUSTOM})
    /\ UNCHANGED <<running, frames, handler>>

\* In an interrupt handler, at any point of the code it interrupts.
DeferInTrap(s) ==
    /\ Link(s)
    /\ BH!RaiseAndRun({CUSTOM})
    /\ UNCHANGED handler

---------------------------------------------------------------------------
(* The runner, and traps that submit nothing.                              *)
Trap(S) ==
    /\ BH!RaiseAndRun(S)
    /\ UNCHANGED <<pool, head, tail, handler, submitted>>

StartHandler(b) ==
    /\ BH!StartHandler(b)
    /\ step' = "take"
    /\ UNCHANGED <<pool, head, tail, work, after, lastRun, submitted>>

OtherHandlerReturns(b) ==
    /\ BH!Handling(b)
    /\ BH!FinishHandler({})
    /\ UNCHANGED <<pool, head, tail, handler, submitted>>

NextRound ==
    /\ BH!EndRound
    /\ UNCHANGED <<pool, head, tail, handler, submitted>>

---------------------------------------------------------------------------
(* run_custom_callbacks.                                                   *)

\* The submitted list becomes the batch.
Take ==
    /\ InHandler("take")
    /\ work' = head
    /\ head' = 0 /\ tail' = 0
    /\ step' = "loop"
    /\ UNCHANGED <<bh, pool, after, lastRun, submitted>>

\* The callback of the next slot is called.
Call ==
    /\ InHandler("loop") /\ work # 0
    /\ after' = next[work]
    /\ lastRun' = arg[work]
    /\ step' = "call"
    /\ UNCHANGED <<bh, pool, head, tail, work, submitted>>

\* The batch ends with the first callback, its other slots stay allocated.
Release_One ==
    /\ InHandler("call")
    /\ allocated' = [allocated EXCEPT ![work] = FALSE]
    /\ work' = 0
    /\ step' = "loop"
    /\ UNCHANGED <<bh, next, arg, head, tail, after, lastRun, submitted>>

\* It has returned: its slot is free again.
Release ==
    /\ InHandler("call")
    /\ allocated' = [allocated EXCEPT ![work] = FALSE]
    /\ work' = after
    /\ step' = "loop"
    /\ UNCHANGED <<bh, next, arg, head, tail, after, lastRun, submitted>>

Return ==
    /\ InHandler("loop") /\ work = 0
    /\ BH!FinishHandler({})
    /\ UNCHANGED <<pool, head, tail, handler, submitted>>

---------------------------------------------------------------------------
\* After custom_work_init.
Init ==
    /\ BH!Init
    /\ allocated = [s \in Slot |-> FALSE]
    /\ next = [s \in Slot |-> 0] /\ arg = [s \in Slot |-> 0]
    /\ head = 0 /\ tail = 0
    /\ work = 0 /\ after = 0 /\ step = "take"
    /\ submitted = 0 /\ lastRun = 0

Next ==
    \/ \E s \in Slot : defer_callback(s) \/ DeferInTrap(s)
    \/ \E S \in SUBSET OtherWork : Trap(S)
    \/ \E b \in BH!Types : StartHandler(b)
    \/ \E b \in OtherWork : OtherHandlerReturns(b)
    \/ NextRound
    \/ Take \/ Call \/ Release \/ Return

Spec == Init /\ [][Next]_vars

---------------------------------------------------------------------------
\* The list that starts at slot s is q[i], ..., q[j].
Linked(q, i, j, s) ==
    IF i > j THEN s = 0
    ELSE /\ s = q[i]
         /\ \A n \in i..(j - 1) : next[q[n]] = q[n + 1]
         /\ next[q[j]] = 0

SlotLists == UNION {[1..n -> Slot] : n \in 0..Capacity}

\* The pool is exact: the allocated slots are the slots of the running batch
\* (the first k of q) and of the submitted list, each once, and tail is the
\* last one submitted.  No slot leaks, and none is filled again while its
\* callback is queued or running, whoever interrupts whom.
PoolExact ==
    \E q \in SlotLists : \E k \in 0..Len(q) :
        /\ \A i, j \in 1..Len(q) : q[i] = q[j] => i = j
        /\ {s \in Slot : allocated[s]} = {q[i] : i \in 1..Len(q)}
        /\ IF ~BH!Handling(CUSTOM) \/ step = "take" THEN k = 0
           ELSE IF step = "call" THEN k > 0 /\ q[1] = work /\ Linked(q, 2, k, after)
           ELSE Linked(q, 1, k, work)
        /\ Linked(q, k + 1, Len(q), head)
        /\ tail = IF k = Len(q) THEN 0 ELSE q[Len(q)]

\* Callbacks are called in the order they were submitted, none left out and
\* none twice, across batches and submitters.
RunsInOrder ==
    [][step = "loop" /\ step' = "call" => lastRun' = lastRun + 1]_vars

---------------------------------------------------------------------------
\* The runner goes on, callbacks and handlers return, and the periodic tick
\* traps again and again.
Fairness ==
    /\ \A b \in BH!Types : WF_vars(StartHandler(b))
    /\ \A b \in OtherWork : WF_vars(OtherHandlerReturns(b))
    /\ WF_vars(NextRound)
    /\ WF_vars(Take \/ Call \/ Release \/ Return)
    /\ WF_vars(Trap({}))

FairSpec == Spec /\ Fairness

\* No notification is lost: one raised after its handler started, by a
\* thread, a callback or a nested trap, is pending or selected for a round
\* until the handler starts again (the clearing in run_bottom_halves).
NoLostRaise == BH!NoLostRaise

\* Every notification is served, even when a more urgent handler is raised
\* again each time it runs (the rounds of run_bottom_halves).
RaiseServed == BH!RaiseServed

\* Every accepted callback is called.
CallbackRuns == \A n \in 1..MaxSubmit : submitted >= n ~> lastRun >= n
=============================================================================
