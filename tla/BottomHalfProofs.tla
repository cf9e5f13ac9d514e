-------------------------- MODULE BottomHalfProofs --------------------------
(***************************************************************************)
(* The runner of bottom_half.c never nests and never loses a notification, *)
(* whatever traps, threads and handlers raise.                             *)
(***************************************************************************)
EXTENDS BottomHalf, TLAPS

\* The conjunction is inductive: NoLostRaise needs that a new runner starts
\* with no round in progress, which is OneRunner.
BHInv == TypeOK /\ OneRunner /\ NoLostRaise

\* A non-empty sequence of at most one element has one.
LEMMA OnlyElement ==
    ASSUME NEW S, NEW s \in Seq(S), s # <<>>, Len(s) <= 1
    PROVE  Len(s) = 1
<1>1. Len(s) \in Nat \ {0}
  OBVIOUS
<1> QED
  BY <1>1

\* Replacing the only element of a sequence.
LEMMA ReplaceOnly ==
    ASSUME NEW S, NEW s \in Seq(S), Len(s) = 1, NEW e \in S
    PROVE  /\ [s EXCEPT ![1] = e] \in Seq(S)
           /\ Len([s EXCEPT ![1] = e]) = 1
           /\ [s EXCEPT ![1] = e][1] = e
<1>1. 1 \in 1..Len(s)
  OBVIOUS
<1> QED
  BY <1>1

\* With one runner, its frame is all there is.
LEMMA OneFrame ==
    ASSUME TypeOK, OneRunner, Active
    PROVE  /\ running
           /\ Len(frames) = 1 /\ Top = frames[1] /\ Top \in Frame
           /\ \A b : InRound(b) <=> b \in Top.round
<1>1. frames \in Seq(Frame) /\ Len(frames) <= 1 /\ frames # <<>> /\ running
  BY DEF TypeOK, OneRunner, Active
<1>2. Len(frames) = 1
  BY <1>1, OnlyElement
<1>3. frames[1] \in Frame
  BY <1>1, <1>2
<1> QED
  BY <1>1, <1>2, <1>3 DEF Top, InRound

\* Replacing the frame of the runner keeps it the only one.
LEMMA ReplaceFrame ==
    ASSUME TypeOK, OneRunner, Active, NEW f \in Frame,
           frames' = SetTop(f), running' = running
    PROVE  /\ frames' \in Seq(Frame)
           /\ OneRunner' /\ Active' /\ Top' = f
           /\ \A b : InRound(b)' <=> b \in f.round
<1>1. frames \in Seq(Frame) /\ Len(frames) = 1 /\ running
  BY OneFrame DEF TypeOK
<1>2. frames' \in Seq(Frame) /\ Len(frames') = 1 /\ frames'[1] = f
  <2>1. frames' = [frames EXCEPT ![1] = f]
    BY <1>1 DEF SetTop
  <2> QED
    BY <1>1, <2>1, ReplaceOnly
<1>3. frames' # <<>>
  BY <1>2
<1>4. OneRunner'
  BY <1>1, <1>2, <1>3 DEF OneRunner
<1>5. \A b : InRound(b)' <=> \E i \in 1..1 : b \in frames'[i].round
  BY <1>2 DEF InRound
<1>6. Active' /\ Top' = f
  BY <1>2, <1>3 DEF Active, Top
<1> QED
  BY <1>2, <1>4, <1>5, <1>6

\* Without a runner no type is selected.
LEMMA NoFrame ==
    ASSUME OneRunner, TypeOK, ~running
    PROVE  frames = <<>> /\ \A b : ~InRound(b)
<1>1. frames = <<>>
  BY DEF OneRunner
<1> QED
  BY <1>1 DEF InRound

---------------------------------------------------------------------------
(* What each operation of the runner does to the invariant, to the handler *)
(* that runs and to the notifications that wait.  Stated for the operators, *)
(* so that the modules that use the runner can cite them.                  *)

\* A notification of type b is pending or selected for a round.
Waits(b) == b \in pending \/ InRound(b)

\* Nothing of the runner changes.
LEMMA QuietStep ==
    ASSUME BHInv, UNCHANGED <<pending, running, frames, owed>>
    PROVE  /\ BHInv' /\ (Active' <=> Active)
           /\ \A b : (Waits(b)' <=> Waits(b)) /\ (Handling(b)' <=> Handling(b))
BY DEF BHInv, TypeOK, OneRunner, NoLostRaise, InRound, Waits, Handling, Active, Top

\* A trap with its top half and the start of a runner: the code it
\* interrupts stays where it is.
LEMMA TrapStep ==
    ASSUME BHInv, NEW S \in SUBSET Types, RaiseAndRun(S)
    PROVE  /\ BHInv' /\ pending' \subseteq pending \cup S
           /\ \A b : Waits(b)' <=> Waits(b) \/ b \in S
           /\ \A b \in Types : Handling(b)' <=> Handling(b)
<1>1. CASE running \/ pending \cup S = {}
  <2>1. pending' = pending \cup S /\ UNCHANGED <<running, frames>> /\ owed' = owed \cup S
    BY <1>1 DEF RaiseAndRun
  <2>2. \A b : (InRound(b)' <=> InRound(b)) /\ (Handling(b)' <=> Handling(b))
    BY <2>1 DEF InRound, Handling, Active, Top
  <2>3. BHInv'
    BY <2>1, <2>2 DEF BHInv, TypeOK, OneRunner, NoLostRaise
  <2> QED
    BY <2>1, <2>2, <2>3 DEF Waits
<1>2. CASE ~running /\ pending \cup S # {}
  <2> DEFINE f == [round |-> pending \cup S, handler |-> "none"]
  <2>1. frames = <<>> /\ \A b : ~InRound(b)
    BY <1>2, NoFrame DEF BHInv
  <2>2. f \in Frame
    BY DEF BHInv, TypeOK, Frame
  <2>3. pending' = {} /\ running' = TRUE /\ frames' = <<f>>
    BY <1>2, <2>1, <2>2 DEF RaiseAndRun
  <2>4. frames' \in Seq(Frame) /\ Len(frames') = 1 /\ frames'[1] = f /\ frames' # <<>>
    BY <2>2, <2>3
  <2>5. \A b : InRound(b)' <=> b \in pending \cup S
    BY <2>4 DEF InRound
  <2>6. owed \subseteq pending
    BY <2>1 DEF BHInv, NoLostRaise
  <2>7. owed' = owed \cup S
    BY DEF RaiseAndRun
  <2>8. NoLostRaise'
    BY <2>5, <2>6, <2>7 DEF NoLostRaise
  <2>9. BHInv'
    BY <2>3, <2>4, <2>7, <2>8 DEF BHInv, TypeOK, OneRunner
  <2>10. \A b \in Types : ~Handling(b) /\ ~Handling(b)'
    BY <2>1, <2>4 DEF Handling, Active, Top, Types
  <2> QED
    BY <2>1, <2>3, <2>5, <2>9, <2>10 DEF Waits
<1> QED
  BY <1>1, <1>2

\* raise_bottom_half with interrupts off, outside of the runner's own code.
LEMMA RaiseStep ==
    ASSUME BHInv, NEW S, raise_bottom_half(S), UNCHANGED <<running, frames>>
    PROVE  /\ BHInv' /\ (Active' <=> Active)
           /\ \A b \in Types : Waits(b)' <=> Waits(b) \/ b \in S
           /\ \A b : Handling(b)' <=> Handling(b)
<1>1. \A b : (InRound(b)' <=> InRound(b)) /\ (Handling(b)' <=> Handling(b))
  BY DEF InRound, Handling, Active, Top
<1>2. TypeOK' /\ OneRunner'
  BY DEF BHInv, TypeOK, OneRunner, raise_bottom_half
<1>3. NoLostRaise'
  BY <1>1 DEF BHInv, NoLostRaise, raise_bottom_half
<1> QED
  BY <1>1, <1>2, <1>3 DEF BHInv, Waits, Active, raise_bottom_half

\* clear_bottom_half.
LEMMA ClearStep ==
    ASSUME BHInv, NEW S, clear_bottom_half(S)
    PROVE  /\ BHInv' /\ (Active' <=> Active) /\ pending' = pending \ S
           /\ \A b : b \notin S => (Waits(b)' <=> Waits(b))
           /\ \A b : Handling(b)' <=> Handling(b)
<1>1. \A b : (InRound(b)' <=> InRound(b)) /\ (Handling(b)' <=> Handling(b))
  BY DEF InRound, Handling, Active, Top, clear_bottom_half
<1>2. TypeOK' /\ OneRunner'
  BY DEF BHInv, TypeOK, OneRunner, clear_bottom_half
<1>3. NoLostRaise'
  BY <1>1 DEF BHInv, NoLostRaise, clear_bottom_half
<1> QED
  BY <1>1, <1>2, <1>3 DEF BHInv, Waits, Active, clear_bottom_half

\* A handler of the round starts; none was running.
LEMMA StartStep ==
    ASSUME BHInv, NEW b \in Types, StartHandler(b)
    PROVE  /\ BHInv' /\ pending' = pending
           /\ \A c \in Types : ~Handling(c) /\ (Handling(c)' <=> c = b)
           /\ \A c : c # b => (Waits(c)' <=> Waits(c))
<1> DEFINE f == [round |-> Top.round \ {b}, handler |-> b]
<1>1. Active /\ frames' = SetTop(f) /\ UNCHANGED <<pending, running>> /\ owed' = owed \ {b}
  BY DEF StartHandler, Between
<1>2. Top \in Frame /\ \A c : InRound(c) <=> c \in Top.round
  BY <1>1, OneFrame DEF BHInv
<1>3. f \in Frame
  BY <1>2 DEF Frame
<1>4. /\ frames' \in Seq(Frame) /\ OneRunner' /\ Active' /\ Top' = f
      /\ \A c : InRound(c)' <=> c \in f.round
  BY <1>1, <1>3, ReplaceFrame, Zenon DEF BHInv
<1>5. NoLostRaise'
  BY <1>1, <1>2, <1>4 DEF BHInv, NoLostRaise
<1>6. BHInv'
  BY <1>1, <1>4, <1>5 DEF BHInv, TypeOK
<1>7. \A c \in Types : ~Handling(c)
  BY DEF StartHandler, Between, Handling, Types
<1>8. \A c : Handling(c)' <=> c = b
  BY <1>4 DEF Handling
<1> QED
  BY <1>1, <1>2, <1>4, <1>6, <1>7, <1>8 DEF Waits

\* A handler returns.
LEMMA FinishStep ==
    ASSUME BHInv, Active, NEW S, FinishHandler(S)
    PROVE  /\ BHInv' /\ pending' = pending \cup (S \cap Types)
           /\ \A c \in Types : ~Handling(c)' /\ (Waits(c)' <=> Waits(c) \/ c \in S)
<1> DEFINE f == [round |-> Top.round, handler |-> "none"]
<1>1. Top \in Frame /\ \A c : InRound(c) <=> c \in Top.round
  BY OneFrame DEF BHInv
<1>2. f \in Frame /\ f.round = Top.round
  BY <1>1 DEF Frame
<1>3. frames' = SetTop(f) /\ running' = running /\ raise_bottom_half(S)
  BY DEF FinishHandler
<1>4. /\ frames' \in Seq(Frame) /\ OneRunner' /\ Active' /\ Top' = f
      /\ \A c : InRound(c)' <=> c \in f.round
  BY <1>2, <1>3, ReplaceFrame DEF BHInv
<1>5. NoLostRaise'
  BY <1>1, <1>2, <1>3, <1>4 DEF BHInv, NoLostRaise, raise_bottom_half
<1>6. BHInv'
  BY <1>3, <1>4, <1>5 DEF BHInv, TypeOK, raise_bottom_half
<1>7. \A c \in Types : ~Handling(c)'
  BY <1>4 DEF Handling, Types
<1> QED
  BY <1>1, <1>2, <1>3, <1>4, <1>6, <1>7 DEF Waits, raise_bottom_half

\* A round ends: the next one starts, or the runner returns.
LEMMA EndRoundStep ==
    ASSUME BHInv, EndRound
    PROVE  /\ BHInv' /\ pending' \subseteq pending
           /\ \A c \in Types : ~Handling(c) /\ ~Handling(c)'
           /\ \A c : Waits(c)' <=> Waits(c)
<1>1. Active /\ Top.round = {} /\ owed' = owed
  BY DEF EndRound, Between
<1>2. Len(frames) = 1 /\ running /\ \A c : ~InRound(c)
  BY <1>1, OneFrame DEF BHInv
<1>3. owed \subseteq pending
  BY <1>2 DEF BHInv, NoLostRaise
<1>4. \A c \in Types : ~Handling(c)
  BY DEF EndRound, Between, Handling, Types
<1>5. CASE pending # {}
  <2> DEFINE f == [round |-> pending, handler |-> "none"]
  <2>1. frames' = SetTop(f) /\ pending' = {} /\ running' = running
    BY <1>5 DEF EndRound
  <2>2. f \in Frame
    BY DEF BHInv, TypeOK, Frame
  <2>3. /\ frames' \in Seq(Frame) /\ OneRunner' /\ Top' = f
        /\ \A c : InRound(c)' <=> c \in f.round
    BY <1>1, <2>1, <2>2, ReplaceFrame DEF BHInv
  <2>4. BHInv'
    BY <1>1, <1>3, <2>1, <2>3 DEF BHInv, TypeOK, NoLostRaise
  <2>5. \A c \in Types : ~Handling(c)'
    BY <2>3 DEF Handling, Types
  <2> QED
    BY <1>2, <1>4, <2>1, <2>3, <2>4, <2>5 DEF Waits
<1>6. CASE pending = {}
  <2>1. running' = FALSE /\ frames' = SubSeq(frames, 1, Len(frames) - 1) /\ pending' = {}
    BY <1>6 DEF EndRound
  <2>2. frames \in Seq(Frame)
    BY DEF BHInv, TypeOK
  <2>3. frames' \in Seq(Frame) /\ Len(frames') = 0
    BY <1>2, <2>1, <2>2
  <2>4. frames' = <<>>
    BY <2>3
  <2>5. OneRunner'
    BY <2>1, <2>3, <2>4 DEF OneRunner
  <2>6. TypeOK' /\ NoLostRaise'
    BY <1>1, <1>3, <1>6, <2>1, <2>3, Zenon DEF BHInv, TypeOK, NoLostRaise
  <2>7. \A c : ~Handling(c)' /\ ~InRound(c)'
    BY <2>3, <2>4 DEF Handling, Active, InRound
  <2> QED
    BY <1>2, <1>4, <1>6, <2>1, <2>5, <2>6, <2>7 DEF BHInv, Waits
<1> QED
  BY <1>5, <1>6

\* The runner starts out idle.
LEMMA BHStart ==
    ASSUME Init
    PROVE  BHInv
<1>1. frames \in Seq(Frame) /\ Len(frames) = 0 /\ frames = <<>> /\ running = FALSE
  BY DEF Init
<1>2. OneRunner
  BY <1>1 DEF OneRunner
<1>3. TypeOK /\ NoLostRaise
  BY <1>1, Zenon DEF Init, TypeOK, NoLostRaise
<1> QED
  BY <1>2, <1>3 DEF BHInv

\* Every step keeps the invariant.
THEOREM BHInvariance == Spec => []BHInv
<1>1. Init => BHInv
  BY BHStart
<1>2. ASSUME BHInv, [Next]_bhVars PROVE BHInv'
  <2>1. ASSUME NEW S \in SUBSET Types, RaiseAndRun(S) PROVE BHInv'
    BY <1>2, <2>1, TrapStep
  <2>2. ASSUME NEW b, Raise(b) \/ Clear(b) PROVE BHInv'
    BY <1>2, <2>2, RaiseStep, ClearStep DEF Raise, Clear
  <2>3. ASSUME NEW b \in Types, StartHandler(b) PROVE BHInv'
    BY <1>2, <2>3, StartStep
  <2>4. CASE HandlerReturns
    BY <1>2, <2>4, FinishStep DEF HandlerReturns
  <2>5. CASE EndRound
    BY <1>2, <2>5, EndRoundStep
  <2>6. CASE UNCHANGED bhVars
    BY <1>2, <2>6, QuietStep DEF bhVars
  <2> QED
    BY <1>2, <2>1, <2>2, <2>3, <2>4, <2>5, <2>6 DEF Next
<1> QED
  BY <1>1, <1>2, PTL DEF Spec

\* However traps nest, run_bottom_halves has one active call at most, and
\* running says so.
THEOREM RunnerIsUnique == Spec => []OneRunner
<1>1. BHInv => OneRunner
  BY DEF BHInv
<1> QED
  BY <1>1, BHInvariance, PTL

\* A notification stays pending or selected until its handler starts, also
\* one that is raised while a round is in progress.
THEOREM NotificationsKept == Spec => []NoLostRaise
<1>1. BHInv => NoLostRaise
  BY DEF BHInv
<1> QED
  BY <1>1, BHInvariance, PTL
=============================================================================
