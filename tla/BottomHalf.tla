----------------------------- MODULE BottomHalf -----------------------------
(***************************************************************************)
(* Deferred interrupt work (bottom_half.c) and its call from trap_entry.S. *)
(* A trap handler raises notification bits; run_bottom_halves then takes   *)
(* the pending set as one round and calls the handlers of that round in a  *)
(* fixed order with interrupts enabled.  A trap taken meanwhile may raise  *)
(* more bits; its own call of run_bottom_halves returns at once.           *)
(*                                                                         *)
(* frames holds one record per active call of run_bottom_halves, the       *)
(* innermost last.  owed is a history variable: the types raised and not   *)
(* cleared since their handler last started.                               *)
(*                                                                         *)
(* A definition X_Defect, placed before X, is X with a plausible defect.   *)
(***************************************************************************)
EXTENDS Naturals, Sequences

VARIABLES pending, running, frames, owed

bhVars == <<pending, running, frames, owed>>

\* enum bottom_half, in dispatch order.
Types == {"TIMER", "UART_RX", "UART_TX", "CUSTOM"}
Rank == [TIMER |-> 0, UART_RX |-> 1, UART_TX |-> 2, CUSTOM |-> 3]

Frame == [round : SUBSET Types, handler : Types \cup {"none"}]

Top == frames[Len(frames)]
Active == frames # <<>>
Handling(b) == Active /\ Top.handler = b
Between == Active /\ Top.handler = "none"
InRound(b) == \E i \in 1..Len(frames) : b \in frames[i].round

SetTop(f) == [frames EXCEPT ![Len(frames)] = f]

---------------------------------------------------------------------------
(* Operators the owners of the handlers use.                               *)

\* raise_bottom_half for the members of S; it ignores all but the types.
raise_bottom_half(S) ==
    /\ pending' = pending \cup (S \cap Types)
    /\ owed' = owed \cup (S \cap Types)

\* clear_bottom_half drops a notification; a handler selected for the
\* current round still runs.
clear_bottom_half(S) ==
    /\ pending' = pending \ S
    /\ owed' = {b \in owed : b \notin S \/ InRound(b)}
    /\ UNCHANGED <<running, frames>>

\* A trap whose handler raises S, and the entry of run_bottom_halves after
\* it, up to the first local_irq_enable.
RaiseAndRun(S) ==
    /\ owed' = owed \cup S
    /\ IF running \/ pending \cup S = {}
       THEN pending' = pending \cup S /\ UNCHANGED <<running, frames>>
       ELSE /\ pending' = {}
            /\ running' = TRUE
            /\ frames' = Append(frames, [round |-> pending \cup S, handler |-> "none"])

\* Handlers are picked from all pending work, most urgent first.
StartHandler_NoRounds(b) ==
    LET work == Top.round \cup pending
    IN  /\ Between
        /\ b \in work
        /\ \A c \in work : Rank[b] <= Rank[c]
        /\ frames' = SetTop([round |-> work \ {b}, handler |-> b])
        /\ pending' = {}
        /\ owed' = owed \ {b}
        /\ UNCHANGED running

\* The next handler of the round is called.
StartHandler(b) ==
    /\ Between
    /\ b \in Top.round
    /\ \A c \in Top.round : Rank[b] <= Rank[c]
    /\ frames' = SetTop([round |-> Top.round \ {b}, handler |-> b])
    /\ owed' = owed \ {b}
    /\ UNCHANGED <<pending, running>>

\* The handler returns, raising S as its last act.
FinishHandler(S) ==
    /\ frames' = SetTop([round |-> Top.round, handler |-> "none"])
    /\ raise_bottom_half(S)
    /\ UNCHANGED running

\* Notifications are cleared when their round ends, not when it starts.
EndRound_ClearLate ==
    /\ Between /\ Top.round = {}
    /\ pending' = {}
    /\ running' = FALSE
    /\ frames' = SubSeq(frames, 1, Len(frames) - 1)
    /\ UNCHANGED owed

\* The round is over: take what is pending as the next one, or return.
EndRound ==
    /\ Between /\ Top.round = {}
    /\ IF pending # {}
       THEN /\ frames' = SetTop([round |-> pending, handler |-> "none"])
            /\ pending' = {}
            /\ UNCHANGED running
       ELSE /\ running' = FALSE
            /\ frames' = SubSeq(frames, 1, Len(frames) - 1)
            /\ UNCHANGED pending
    /\ UNCHANGED owed

---------------------------------------------------------------------------
(* The runner on its own: traps, threads and handlers may raise anything.  *)

\* raise_bottom_half from thread code or from a handler (defer_callback),
\* with a value that need not be a type.
Raise(b) ==
    /\ ~Between
    /\ raise_bottom_half({b})
    /\ UNCHANGED <<running, frames>>

Clear(b) == ~Between /\ clear_bottom_half({b})

HandlerReturns ==
    /\ Active /\ Top.handler # "none"
    /\ \E S \in SUBSET {Top.handler} : FinishHandler(S)

Init ==
    /\ pending = {}
    /\ running = FALSE
    /\ frames = <<>>
    /\ owed = {}

Next ==
    \/ \E S \in SUBSET Types : RaiseAndRun(S)
    \/ \E b \in Types \cup {"COUNT"} : Raise(b) \/ Clear(b)
    \/ \E b \in Types : StartHandler(b)
    \/ HandlerReturns
    \/ EndRound

Spec == Init /\ [][Next]_bhVars

---------------------------------------------------------------------------
\* Every variable has its type.
TypeOK ==
    /\ pending \in SUBSET Types
    /\ running \in BOOLEAN
    /\ frames \in Seq(Frame)
    /\ owed \in SUBSET Types

\* However traps nest, one call of run_bottom_halves is active at a time, so
\* a handler is never entered while a handler runs; running tells exactly
\* whether that call is active, so work raised later is not refused.
OneRunner == Len(frames) <= 1 /\ (running <=> frames # <<>>)

\* No notification is lost: one that was raised after its handler started,
\* in thread code, in a nested trap or by the handler itself, is pending or
\* selected until the handler starts again.
NoLostRaise == \A b \in owed : b \in pending \/ InRound(b)

\* Every notification is served or cleared, even when a more urgent handler
\* raises itself each time it runs.
RaiseServed == \A b \in Types : b \in owed ~> b \notin owed
=============================================================================
