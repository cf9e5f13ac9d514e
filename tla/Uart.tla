------------------------------- MODULE Uart -------------------------------
(***************************************************************************)
(* The UART driver (uart.c): receive and transmit rings between the device *)
(* and the threads that call uart_recv and uart_send, the interrupt-enable *)
(* bits, the top half, and the two bottom halves under BottomHalf's        *)
(* runner.  demo_uart.c is the streaming producer that refills an empty    *)
(* transmit ring from the bottom half.                                     *)
(*                                                                         *)
(* One step is one section with interrupts off, one MMIO access outside of *)
(* such a section, or one act of the device.  Threads take steps only when *)
(* no runner is active: handlers run on top of the interrupted thread.     *)
(* The scheduler is abstracted: any thread that is not asleep may take the *)
(* next section.                                                           *)
(*                                                                         *)
(* Bytes are numbered in the order the device receives them, and in the    *)
(* order the driver accepts them for output; the rings hold the numbers.   *)
(*                                                                         *)
(* A definition X_Defect, placed before X, is X with a plausible defect.   *)
(***************************************************************************)
EXTENDS Naturals, Sequences, FiniteSets

CONSTANTS Reader, Writer,  \* threads that may sleep in uart_recv, uart_send
          Capacity,        \* RINGBUF_CAPACITY
          HwFifo,          \* depth of the device's receive FIFO
          Budget,          \* UART_DEFERRED_WORK_BUDGET
          MaxRx, MaxTx,    \* bounds: bytes received, bytes accepted
          MarkerLen,       \* bytes of one marker of the streaming demo
          FillBudget,      \* stress markers one call of demo_fill_tx queues
          MaxMarkers,      \* bound: markers of one streaming run
          MaxTimerMarkers, \* room of uart_timer_marker_ids
          OtherWork        \* bottom halves beside the UART's two

ASSUME UartAssumption ==
    /\ Reader \cap Writer = {} /\ IsFiniteSet(Reader) /\ IsFiniteSet(Writer)
    /\ {Capacity, HwFifo, Budget, MarkerLen, FillBudget} \subseteq Nat \ {0}
    /\ MarkerLen <= Capacity
    /\ {MaxRx, MaxTx, MaxMarkers, MaxTimerMarkers} \subseteq Nat
    /\ OtherWork \subseteq {"TIMER", "CUSTOM"}

VARIABLES
    pending, running, frames, owed,   \* BottomHalf
    irq_enabled,   \* uart_irq_enabled
    ier_rx, ier_tx,
    fifo,          \* the device's receive FIFO
    thr_idle,      \* LSR_TX_IDLE
    rx, tx,        \* uart_rx_buf, uart_tx_buf
    rx_wait, tx_wait,  \* uart_rx_wait, uart_tx_wait: registered threads
    tstate,        \* thread -> "out", "in" (in the loop), "waiting", "woken", "dead"
    step, budget,  \* program point and local of the active UART handler
    refill,        \* uart_tx_refill # 0
    remaining,     \* uart_stress_remaining
    timer_markers, \* timer markers queued for the stream
    received, accepted,  \* bytes numbered so far
    lastRead, lastSent,  \* number of the last byte read, sent
    lost           \* threads stopped after their wakeup, before they ran

bh == <<pending, running, frames, owed>>
dev == <<fifo, received>>
rxVars == <<ier_rx, rx, lastRead>>
stream == <<refill, remaining, timer_markers>>
txVars == <<ier_tx, tx, thr_idle, stream, accepted, lastSent>>
threads == <<tstate, rx_wait, tx_wait, lost>>
handler == <<step, budget>>
vars == <<bh, dev, rxVars, txVars, threads, handler, irq_enabled>>

BH == INSTANCE BottomHalf

Thread == Reader \cup Writer
RX == "UART_RX"
TX == "UART_TX"

\* Code outside the UART's own handlers runs: threads, other callbacks.
InThread == ~BH!Active
Outside == InThread \/ \E b \in OtherWork : BH!Handling(b)
InHandler(b, s) == BH!Handling(b) /\ step = s

\* The entry of t, if it is registered on q, is unlinked.
IsFirst(q, i, t) == q[i] = t /\ \A j \in 1..(i - 1) : q[j] # t
Without(q, t) ==
    IF \E i \in 1..Len(q) : q[i] = t
    THEN LET k == CHOOSE i \in 1..Len(q) : IsFirst(q, i, t)
         IN  [j \in 1..(Len(q) - 1) |-> IF j < k THEN q[j] ELSE q[j + 1]]
    ELSE q

---------------------------------------------------------------------------
(* Shared parts.                                                           *)

\* wait_queue_wake_one: the first registered thread that is asleep.
FirstWaiting(q, t) ==
    \E i \in 1..Len(q) : /\ q[i] = t /\ tstate[t] = "waiting"
                         /\ \A j \in 1..(i - 1) : tstate[q[j]] # "waiting"

wake_one(q) ==
    /\ tstate' = [t \in Thread |-> IF FirstWaiting(q, t) THEN "woken" ELSE tstate[t]]
    /\ UNCHANGED <<rx_wait, tx_wait, lost>>

\* A freed slot wakes nobody.
DrainOne_NoWake ==
    /\ thr_idle /\ tx # <<>>
    /\ tx' = Tail(tx)
    /\ lastSent' = Head(tx)
    /\ thr_idle' = FALSE
    /\ UNCHANGED <<stream, accepted, threads>>

\* uart_tx_try_drain_one, when it returns 1.
CanDrain == thr_idle /\ tx # <<>>

DrainOne ==
    /\ CanDrain
    /\ tx' = Tail(tx)
    /\ lastSent' = Head(tx)
    /\ thr_idle' = FALSE
    /\ wake_one(tx_wait)
    /\ UNCHANGED <<stream, accepted>>

\* The bound on accepted bytes, the rest of a streaming run and the bytes of
\* the writers inside uart_send included: what has begun is never cut short.
Sending == {t \in Writer : tstate[t] \in {"in", "waiting", "woken"}}
MayAccept(n) ==
    accepted + n + (remaining + timer_markers) * MarkerLen + Cardinality(Sending)
        <= MaxTx

\* n bytes accepted into the transmit ring.
Push(n) ==
    /\ accepted' = accepted + n
    /\ tx' = tx \o [i \in 1..n |-> accepted + i]
    /\ UNCHANGED <<thr_idle, lastSent>>

Room == Capacity - Len(tx)
Least(a, b) == IF a <= b THEN a ELSE b

\* demo_fill_tx with left stress markers and timers timer markers to go:
\* whole markers while they fit (uart_write_async queues all of a buffer or
\* nothing), timer markers first and outside of the budget.
demo_fill_tx(left, timers) ==
    LET slots == Room \div MarkerLen
        t == Least(timers, slots)
        u == Least(Least(left, FillBudget), slots - t)
    IN  /\ Push((t + u) * MarkerLen)
        /\ remaining' = left - u
        /\ timer_markers' = timers - t
        /\ ier_tx' = (ier_tx \/ t + u > 0)

Streaming == remaining > 0 \/ timer_markers > 0

---------------------------------------------------------------------------
(* The device.  External.                                                  *)

\* A byte arrives; with the FIFO full it is lost.
ByteArrives ==
    /\ received < MaxRx
    /\ received' = received + 1
    /\ fifo' = IF Len(fifo) < HwFifo THEN Append(fifo, received + 1) ELSE fifo
    /\ UNCHANGED <<bh, rxVars, txVars, threads, handler, irq_enabled>>

ByteSent ==
    /\ ~thr_idle
    /\ thr_idle' = TRUE
    /\ UNCHANGED <<bh, dev, rxVars, ier_tx, tx, stream, accepted,
                   lastSent, threads, handler, irq_enabled>>

IrqLine == (ier_rx /\ fifo # <<>>) \/ (ier_tx /\ thr_idle)

---------------------------------------------------------------------------
(* Threads and other callbacks.                                            *)
uart_irq_init ==
    /\ InThread /\ ~irq_enabled
    /\ irq_enabled' = TRUE
    /\ rx' = <<>> /\ tx' = <<>> /\ fifo' = <<>>
    /\ ier_rx' = TRUE /\ ier_tx' = FALSE
    /\ refill' = FALSE
    /\ BH!clear_bottom_half({RX, TX})
    /\ UNCHANGED <<received, lastRead, thr_idle, remaining, timer_markers, accepted,
                   lastSent, threads, handler>>

\* A thread calls uart_recv or uart_send with interrupts on.
Call(t) ==
    /\ InThread /\ irq_enabled /\ tstate[t] = "out"
    /\ t \in Writer => MayAccept(1)
    /\ tstate' = [tstate EXCEPT ![t] = "in"]
    /\ UNCHANGED <<bh, dev, rxVars, txVars, rx_wait, tx_wait, lost, handler,
                   irq_enabled>>

\* The loop body of uart_recv in a thread: pop, or sleep.
uart_recv(t) ==
    /\ InThread /\ tstate[t] = "in"
    /\ IF rx # <<>>
       THEN /\ rx' = Tail(rx)
            /\ lastRead' = Head(rx)
            /\ tstate' = [tstate EXCEPT ![t] = "out"]
            /\ UNCHANGED rx_wait
       ELSE /\ rx_wait' = Append(rx_wait, t)
            /\ tstate' = [tstate EXCEPT ![t] = "waiting"]
            /\ UNCHANGED <<rx, lastRead>>
    /\ UNCHANGED <<bh, dev, ier_rx, txVars, tx_wait, lost, handler, irq_enabled>>

\* The loop body of uart_send in a thread: push, or sleep.
uart_send(t) ==
    /\ InThread /\ tstate[t] = "in"
    /\ ier_tx' = TRUE
    /\ IF Room > 0
       THEN /\ Push(1)
            /\ tstate' = [tstate EXCEPT ![t] = "out"]
            /\ UNCHANGED tx_wait
       ELSE /\ tx_wait' = Append(tx_wait, t)
            /\ tstate' = [tstate EXCEPT ![t] = "waiting"]
            /\ UNCHANGED <<accepted, tx, thr_idle, lastSent>>
    /\ UNCHANGED <<bh, dev, rxVars, stream, rx_wait, lost, handler,
                   irq_enabled>>

\* A woken thread gets the CPU and finishes its registration.
Resume(t) ==
    /\ InThread /\ tstate[t] = "woken"
    /\ tstate' = [tstate EXCEPT ![t] = "in"]
    /\ rx_wait' = Without(rx_wait, t)
    /\ tx_wait' = Without(tx_wait, t)
    /\ UNCHANGED <<bh, dev, rxVars, txVars, lost, handler, irq_enabled>>

\* Another thread stops t (thread_stop_tid), which never runs again.
Stop(t) ==
    /\ InThread /\ tstate[t] \in {"waiting", "woken"}
    /\ lost' = IF tstate[t] = "woken" THEN lost \cup {t} ELSE lost
    /\ tstate' = [tstate EXCEPT ![t] = "dead"]
    /\ rx_wait' = Without(rx_wait, t)
    /\ tx_wait' = Without(tx_wait, t)
    /\ UNCHANGED <<bh, dev, rxVars, txVars, handler, irq_enabled>>

\* uart_recv by the idle thread or a callback, interrupts on: it spins.
RecvSpin ==
    /\ Outside /\ irq_enabled /\ rx # <<>>
    /\ rx' = Tail(rx)
    /\ lastRead' = Head(rx)
    /\ UNCHANGED <<bh, dev, ier_rx, txVars, threads, handler, irq_enabled>>

\* uart_send by the idle thread or a callback: push, or help to drain.
SendSpin ==
    /\ Outside /\ irq_enabled
    /\ ier_tx' = TRUE
    /\ \/ Room > 0 /\ MayAccept(1) /\ Push(1) /\ UNCHANGED <<stream, threads>>
       \/ Room = 0 /\ DrainOne
       \/ Room = 0 /\ ~CanDrain /\ UNCHANGED <<tx, thr_idle, stream,
                                             accepted, lastSent, threads>>
    /\ UNCHANGED <<bh, dev, rxVars, handler, irq_enabled>>

\* The device is asked first, the ring second.
RecvPolled_DeviceFirst ==
    /\ Outside
    /\ IF fifo # <<>>
       THEN lastRead' = Head(fifo) /\ fifo' = Tail(fifo) /\ UNCHANGED rx
       ELSE rx # <<>> /\ lastRead' = Head(rx) /\ rx' = Tail(rx) /\ UNCHANGED fifo
    /\ UNCHANGED <<bh, received, ier_rx, txVars, threads, handler, irq_enabled>>

\* uart_recv before uart_irq_init or with interrupts off: one turn that
\* finds a byte in the ring, else in the device.
RecvPolled ==
    /\ Outside
    /\ IF rx # <<>>
       THEN lastRead' = Head(rx) /\ rx' = Tail(rx) /\ UNCHANGED fifo
       ELSE fifo # <<>> /\ lastRead' = Head(fifo) /\ fifo' = Tail(fifo) /\ UNCHANGED rx
    /\ UNCHANGED <<bh, received, ier_rx, txVars, threads, handler, irq_enabled>>

\* The byte goes to the device past the ring.
SendPolled_PastRing ==
    /\ Outside
    /\ thr_idle /\ MayAccept(1)
    /\ accepted' = accepted + 1 /\ lastSent' = accepted + 1
    /\ thr_idle' = FALSE
    /\ UNCHANGED <<tx, stream, threads>>
    /\ UNCHANGED <<bh, dev, rxVars, ier_tx, handler, irq_enabled>>

\* uart_send before uart_irq_init or with interrupts off: one turn.
SendPolled ==
    /\ Outside
    /\ IF tx # <<>>
       THEN DrainOne
       ELSE /\ thr_idle /\ MayAccept(1)
            /\ accepted' = accepted + 1 /\ lastSent' = accepted + 1
            /\ thr_idle' = FALSE
            /\ UNCHANGED <<tx, stream, threads>>
    /\ UNCHANGED <<bh, dev, rxVars, ier_tx, handler, irq_enabled>>

\* One turn of uart_tx_wait_idle that finds the ring not empty.
uart_tx_wait_idle ==
    /\ Outside
    /\ DrainOne
    /\ UNCHANGED <<bh, dev, rxVars, ier_tx, handler, irq_enabled>>

\* demo_uart_stress_start(n); uart_tx_set_refill needs interrupts set up.
demo_uart_stress_start(n) ==
    /\ InThread /\ irq_enabled /\ ~Streaming /\ MayAccept(n * MarkerLen)
    /\ refill' = TRUE
    /\ demo_fill_tx(n, 0)
    /\ UNCHANGED <<bh, dev, rxVars, threads, handler, irq_enabled>>

\* A timer callback inserts its marker into the stream.
demo_uart_stress_note_timer ==
    /\ BH!Handling("TIMER") /\ Streaming /\ MayAccept(MarkerLen)
    /\ timer_markers < MaxTimerMarkers
    /\ demo_fill_tx(remaining, timer_markers + 1)
    /\ UNCHANGED <<bh, dev, rxVars, refill, threads, handler, irq_enabled>>

---------------------------------------------------------------------------
(* Interrupts.                                                             *)

\* uart_irq_top and the run_bottom_halves that follows.  The PLIC may hand
\* over an interrupt whose cause is gone.
uart_irq_top ==
    LET tx_irq == thr_idle /\ ier_tx
        rx_irq == fifo # <<>>
    IN  /\ irq_enabled
        /\ ier_rx' = (ier_rx /\ ~rx_irq)
        /\ ier_tx' = (ier_tx /\ ~tx_irq)
        /\ BH!RaiseAndRun((IF rx_irq THEN {RX} ELSE {}) \cup
                          (IF tx_irq THEN {TX} ELSE {}))
        /\ UNCHANGED <<dev, rx, lastRead, tx, thr_idle, stream,
                       accepted, lastSent, threads, handler, irq_enabled>>

OtherIrq(b) ==
    /\ BH!RaiseAndRun({b})
    /\ UNCHANGED <<dev, rxVars, txVars, threads, handler, irq_enabled>>

---------------------------------------------------------------------------
(* Bottom halves.                                                          *)
StartHandler(b) ==
    /\ BH!StartHandler(b)
    /\ step' = IF b = TX THEN "refill" ELSE "drain"
    /\ budget' = Budget
    /\ UNCHANGED <<dev, rxVars, txVars, threads, irq_enabled>>

OtherHandlerReturns(b) ==
    /\ BH!Handling(b)
    /\ BH!FinishHandler({})
    /\ UNCHANGED <<dev, rxVars, txVars, threads, handler, irq_enabled>>

NextRound ==
    /\ BH!EndRound
    /\ UNCHANGED <<dev, rxVars, txVars, threads, handler, irq_enabled>>

\* A byte wakes nobody.
RxDrain_NoWake ==
    /\ InHandler(RX, "drain")
    /\ IF budget > 0 /\ fifo # <<>>
       THEN /\ fifo' = Tail(fifo)
            /\ rx' = IF Len(rx) < Capacity THEN Append(rx, Head(fifo)) ELSE rx
            /\ budget' = budget - 1
            /\ UNCHANGED <<step, threads>>
       ELSE /\ step' = "check"
            /\ UNCHANGED <<fifo, rx, threads, budget>>
    /\ UNCHANGED <<bh, received, ier_rx, lastRead, txVars, irq_enabled>>

\* A reader is woken only when the ring was empty.
RxDrain_WakeOnFirst ==
    /\ InHandler(RX, "drain")
    /\ IF budget > 0 /\ fifo # <<>>
       THEN /\ fifo' = Tail(fifo)
            /\ IF Len(rx) < Capacity
               THEN /\ rx' = Append(rx, Head(fifo))
                    /\ IF rx = <<>> THEN wake_one(rx_wait) ELSE UNCHANGED threads
               ELSE UNCHANGED <<rx, threads>>
            /\ budget' = budget - 1
            /\ UNCHANGED step
       ELSE /\ step' = "check"
            /\ UNCHANGED <<fifo, rx, threads, budget>>
    /\ UNCHANGED <<bh, received, ier_rx, lastRead, txVars, irq_enabled>>

\* One turn of uart_rx_drain; a byte that finds the ring full is dropped.
RxDrain ==
    /\ InHandler(RX, "drain")
    /\ IF budget > 0 /\ fifo # <<>>
       THEN /\ fifo' = Tail(fifo)
            /\ IF Len(rx) < Capacity
               THEN rx' = Append(rx, Head(fifo)) /\ wake_one(rx_wait)
               ELSE UNCHANGED <<rx, threads>>
            /\ budget' = budget - 1
            /\ UNCHANGED step
       ELSE /\ step' = "check"
            /\ UNCHANGED <<fifo, rx, threads, budget>>
    /\ UNCHANGED <<bh, received, ier_rx, lastRead, txVars, irq_enabled>>

\* The handler returns on an exhausted budget without raising itself.
RxCheck_NoRaise ==
    /\ InHandler(RX, "check")
    /\ IF fifo # <<>>
       THEN BH!FinishHandler({}) /\ UNCHANGED step
       ELSE step' = "unmask" /\ UNCHANGED bh
    /\ UNCHANGED <<dev, rxVars, txVars, threads, budget, irq_enabled>>

\* The rest of uart_rx_run_bottom_half: more input keeps RX masked and
\* raises the handler again.
RxCheck ==
    /\ InHandler(RX, "check")
    /\ IF fifo # <<>>
       THEN BH!FinishHandler({RX}) /\ UNCHANGED step
       ELSE step' = "unmask" /\ UNCHANGED bh
    /\ UNCHANGED <<dev, rxVars, txVars, threads, budget, irq_enabled>>

RxUnmask ==
    /\ InHandler(RX, "unmask")
    /\ ier_rx' = TRUE
    /\ BH!FinishHandler({})
    /\ UNCHANGED <<dev, rx, lastRead, txVars, threads, handler, irq_enabled>>

\* The refill callback is taken out after one call.
TxRefill_Once ==
    /\ BH!Handling(TX) /\ step \in {"refill", "refill again"}
    /\ step' = IF step = "refill" THEN "drain" ELSE "decide"
    /\ IF tx = <<>> /\ refill
       THEN demo_fill_tx(remaining, timer_markers) /\ refill' = FALSE
       ELSE UNCHANGED txVars
    /\ UNCHANGED <<bh, dev, rxVars, threads, budget, irq_enabled>>

\* The refill points of uart_tx_run_bottom_half, before and after the drain,
\* with demo_uart_refill as the callback.  Its sections are one step: what
\* can interrupt a handler, a top half, changes neither ring nor stream.
TxRefill ==
    /\ BH!Handling(TX) /\ step \in {"refill", "refill again"}
    /\ step' = IF step = "refill" THEN "drain" ELSE "decide"
    /\ IF tx = <<>> /\ refill
       THEN /\ demo_fill_tx(remaining, timer_markers)
            /\ refill' = (remaining' > 0 \/ timer_markers' > 0)
       ELSE UNCHANGED txVars
    /\ UNCHANGED <<bh, dev, rxVars, threads, budget, irq_enabled>>

TxDrain ==
    /\ InHandler(TX, "drain")
    /\ IF budget > 0 /\ CanDrain
       THEN DrainOne /\ budget' = budget - 1 /\ UNCHANGED <<step, ier_tx>>
       ELSE step' = "refill again" /\ UNCHANGED <<budget, txVars, threads>>
    /\ UNCHANGED <<bh, dev, rxVars, irq_enabled>>

\* Arming is decided on the device alone.
TxDecide_MaskWhenBusy ==
    /\ InHandler(TX, "decide")
    /\ ier_tx' = (tx # <<>> /\ thr_idle)
    /\ BH!FinishHandler(IF tx # <<>> /\ thr_idle THEN {TX} ELSE {})
    /\ UNCHANGED <<dev, rxVars, tx, thr_idle, stream, accepted,
                   lastSent, threads, handler, irq_enabled>>

\* The last section of uart_tx_run_bottom_half.
TxDecide ==
    /\ InHandler(TX, "decide")
    /\ ier_tx' = (tx # <<>>)
    /\ BH!FinishHandler(IF tx # <<>> /\ thr_idle THEN {TX} ELSE {})
    /\ UNCHANGED <<dev, rxVars, tx, thr_idle, stream, accepted,
                   lastSent, threads, handler, irq_enabled>>

---------------------------------------------------------------------------
\* At reset, before uart_irq_init.
Init ==
    /\ BH!Init
    /\ irq_enabled = FALSE
    /\ ier_rx = FALSE /\ ier_tx = FALSE
    /\ fifo = <<>> /\ thr_idle = TRUE
    /\ rx = <<>> /\ tx = <<>>
    /\ rx_wait = <<>> /\ tx_wait = <<>>
    /\ tstate = [t \in Thread |-> "out"]
    /\ step = "drain" /\ budget = 0
    /\ refill = FALSE /\ remaining = 0 /\ timer_markers = 0
    /\ received = 0 /\ accepted = 0
    /\ lastRead = 0 /\ lastSent = 0
    /\ lost = {}

Next ==
    \/ ByteArrives \/ ByteSent
    \/ uart_irq_init
    \/ \E t \in Thread : Call(t) \/ Resume(t) \/ Stop(t)
    \/ \E t \in Reader : uart_recv(t)
    \/ \E t \in Writer : uart_send(t)
    \/ RecvSpin \/ SendSpin \/ RecvPolled \/ SendPolled \/ uart_tx_wait_idle
    \/ \E n \in 1..MaxMarkers : demo_uart_stress_start(n)
    \/ demo_uart_stress_note_timer
    \/ uart_irq_top
    \/ \E b \in OtherWork : OtherIrq(b) \/ OtherHandlerReturns(b)
    \/ \E b \in BH!Types : StartHandler(b)
    \/ NextRound
    \/ RxDrain \/ RxCheck \/ RxUnmask
    \/ TxRefill \/ TxDrain \/ TxDecide

Spec == Init /\ [][Next]_vars

---------------------------------------------------------------------------
(* Safety.                                                                 *)

\* Work of type b is on its way: raised, selected, or its handler is active.
Coming(b) == b \in pending \/ BH!InRound(b) \/ BH!Handling(b)

\* Receive interrupts are masked only while the RX bottom half, which
\* unmasks them or raises itself, is on its way: input never goes deaf,
\* whichever interrupts nest in its handler.
RxArmed == irq_enabled => ier_rx \/ Coming(RX)

\* Output never stalls: while bytes are queued or a stream has markers left,
\* the transmit interrupt is enabled or the TX bottom half is on its way.
TxArmed ==
    irq_enabled /\ (tx # <<>> \/ Streaming) => ier_tx \/ Coming(TX)

Increasing(s) == \A i, j \in 1..Len(s) : i < j => s[i] < s[j]

\* Input is read in the order it arrived, whether a thread pops the ring or
\* an interrupts-off caller polls the device past a bottom half that is due
\* (uart_recv, uart_rx_drain).
RxInOrder == Increasing(<<lastRead>> \o rx \o fifo)

\* Output reaches the device in the order it was accepted, from all senders:
\* ring, polling callers, and the streaming refill.
TxInOrder == Increasing(<<lastSent>> \o tx)

\* Threads that will look at the ring again without another wakeup.
Awake(S) == {t \in S : tstate[t] \in {"in", "woken"}}
Asleep(S) == {t \in S : tstate[t] = "waiting"}

\* No lost wakeup: while a reader sleeps, every byte in the ring has a
\* reader awake for it.  A reader stopped between its wakeup and its next
\* look leaves at most one byte that nobody was woken for.
ByteHasReader ==
    Asleep(Reader) # {} =>
        Len(rx) <= Cardinality(Awake(Reader)) + Cardinality(lost \cap Reader)

\* The same for writers and free slots of the transmit ring.
SlotHasWriter ==
    Asleep(Writer) # {} =>
        Room <= Cardinality(Awake(Writer)) + Cardinality(lost \cap Writer)

---------------------------------------------------------------------------
(* Liveness.  The device goes on sending, a pending interrupt is taken,    *)
(* the runner and its handlers go on, and the scheduler runs every thread  *)
(* that is not asleep.                                                     *)
Fairness ==
    /\ WF_vars(ByteSent)
    /\ WF_vars(uart_irq_init)
    /\ WF_vars(IrqLine /\ uart_irq_top)
    /\ \A b \in BH!Types : WF_vars(StartHandler(b))
    /\ \A b \in OtherWork : WF_vars(OtherHandlerReturns(b))
    /\ WF_vars(NextRound)
    /\ WF_vars(RxDrain \/ RxCheck \/ RxUnmask)
    /\ WF_vars(TxRefill \/ TxDrain \/ TxDecide)
    /\ \A t \in Thread : SF_vars(Resume(t))
    /\ \A t \in Reader : SF_vars(uart_recv(t))
    /\ \A t \in Writer : SF_vars(uart_send(t))

FairSpec == Spec /\ Fairness

\* Every accepted byte, of every sender, is sent.
AcceptedIsSent ==
    \A n \in 1..MaxTx : irq_enabled /\ accepted >= n ~> lastSent >= n

\* A streaming run ends: every marker of it is queued, however often other
\* senders fill or drain the ring between the refills.
StreamEnds == Streaming ~> ~Streaming

\* Output goes out: queued bytes and streamed markers alike, however the
\* interrupt is masked and unmasked by uart_tx_run_bottom_half.
OutputGoesOut == AcceptedIsSent /\ StreamEnds

\* Input is taken from the device.
InputIsTaken == irq_enabled /\ fifo # <<>> ~> fifo = <<>>

\* A sleeping reader does not sleep on while the ring holds input, as long
\* as no reader is stopped with its wakeup unused.
SleeperIsServed ==
    [](lost = {}) =>
        \A t \in Reader :
            tstate[t] = "waiting" /\ rx # <<>> ~> tstate[t] # "waiting" \/ rx = <<>>

\* Input comes through, from the device to the readers (uart_irq_top,
\* uart_rx_run_bottom_half).
InputComesThrough == InputIsTaken /\ SleeperIsServed

\* A writer that sleeps on a full ring is woken, as long as no writer is
\* stopped with its wakeup unused.
WriterIsWoken ==
    [](lost = {}) =>
        \A t \in Writer : tstate[t] = "waiting" ~> tstate[t] # "waiting"
=============================================================================
