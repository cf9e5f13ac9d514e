-------------------------- MODULE CustomWorkProofs --------------------------
(***************************************************************************)
(* The pool and the lists of custom_work.c stay exact, and callbacks run   *)
(* in the order of their submission, for any pool size and any number of   *)
(* submissions, whoever interrupts whom.                                   *)
(***************************************************************************)
EXTENDS CustomWork, FiniteSetTheorems, TLAPS

BHP == INSTANCE BottomHalfProofs

---------------------------------------------------------------------------
(* The inductive invariant speaks of submission numbers: a list is in      *)
(* order when the numbers of its slots count up by one.                    *)
TypeInv ==
    /\ allocated \in [Slot -> BOOLEAN] /\ next \in [Slot -> 0..Capacity]
    /\ arg \in [Slot -> Nat]
    /\ head \in 0..Capacity /\ tail \in 0..Capacity
    /\ work \in 0..Capacity /\ after \in 0..Capacity
    /\ step \in {"take", "loop", "call"}
    /\ submitted \in Nat /\ lastRun \in Nat

\* The number of the last callback whose slot is free again.
Base == IF step = "call" THEN lastRun - 1 ELSE lastRun

\* The allocated slots hold the submissions after Base, each once.
NumbersInv ==
    /\ Base \in Nat /\ Base <= submitted
    /\ \A s \in Slot : allocated[s] => Base < arg[s] /\ arg[s] <= submitted
    /\ \A r, s \in Slot : allocated[r] /\ allocated[s] /\ arg[r] = arg[s] => r = s
    /\ \A n \in (Base + 1)..submitted : \E s \in Slot : allocated[s] /\ arg[s] = n

\* A link leads to the next submission, and a list ends where the submitted
\* list starts or with the last submission.
LinksInv ==
    \A s \in Slot : allocated[s] =>
        IF next[s] # 0
        THEN /\ next[s] \in Slot /\ allocated[next[s]] /\ arg[next[s]] = arg[s] + 1
             /\ next[s] # head
        ELSE arg[s] = submitted \/ (head # 0 /\ arg[head] = arg[s] + 1)

\* The ends of the submitted list.
EndsInv ==
    /\ head = 0 <=> tail = 0
    /\ head # 0 => allocated[head] /\ allocated[tail] /\ arg[tail] = submitted

\* Where the batch starts.  Without one, the submitted list is everything.
NoBatch == ~BH!Handling(CUSTOM) \/ step = "take" \/ (step = "loop" /\ work = 0)
BatchInv ==
    /\ step = "call" => BH!Handling(CUSTOM) /\ work # 0 /\ after = next[work]
    /\ NoBatch => IF head = 0 THEN submitted = Base ELSE arg[head] = Base + 1
    /\ ~NoBatch => work # 0 /\ allocated[work] /\ arg[work] = Base + 1 /\ work # head

PoolInv == TypeInv /\ NumbersInv /\ LinksInv /\ EndsInv /\ BatchInv

CustomInv == BHP!BHInv /\ PoolInv

\* The step of RunsInOrder.
OrderStep == step = "loop" /\ step' = "call" => lastRun' = lastRun + 1

---------------------------------------------------------------------------
(* The runner, as the deferred callbacks see it.                           *)
LEMMA SameRunner ==
    /\ \A b : BH!Handling(b) <=> BHP!Handling(b)
    /\ \A b : BH!Handling(b)' <=> BHP!Handling(b)'
    /\ \A b : BHP!Handling(b) => BHP!Active
    /\ \A S : BH!raise_bottom_half(S) <=> BHP!raise_bottom_half(S)
    /\ \A S : BH!RaiseAndRun(S) <=> BHP!RaiseAndRun(S)
    /\ \A S : BH!FinishHandler(S) <=> BHP!FinishHandler(S)
    /\ \A b : BH!StartHandler(b) <=> BHP!StartHandler(b)
    /\ BH!EndRound <=> BHP!EndRound
BY DEF BH!Handling, BHP!Handling, BH!Active, BHP!Active,
       BH!Top, BHP!Top, BH!SetTop, BHP!SetTop, BH!Between, BHP!Between,
       BH!Types, BHP!Types, BH!Rank, BHP!Rank,
       BH!raise_bottom_half, BHP!raise_bottom_half, BH!RaiseAndRun, BHP!RaiseAndRun,
       BH!FinishHandler, BHP!FinishHandler, BH!StartHandler, BHP!StartHandler,
       BH!EndRound, BHP!EndRound

\* The custom bottom half is one of the types, and only one handler is active.
LEMMA CustomIsType ==
    /\ CUSTOM \in BHP!Types /\ OtherWork \subseteq BHP!Types /\ CUSTOM \notin OtherWork
    /\ \A b, c : BH!Handling(b) /\ BH!Handling(c) => b = c
BY CustomAssumption DEF CUSTOM, BHP!Types, BH!Handling

---------------------------------------------------------------------------
(* The pool.                                                               *)

\* Link keeps the pool exact while the handler is where it was.
LEMMA LinkStep ==
    ASSUME PoolInv, NEW s \in Slot, Link(s), UNCHANGED handler,
           BH!Handling(CUSTOM)' <=> BH!Handling(CUSTOM)
    PROVE  PoolInv'
<1>1. /\ ~allocated[s] /\ allocated' = [allocated EXCEPT ![s] = TRUE]
      /\ arg' = [arg EXCEPT ![s] = submitted + 1]
      /\ next' = [r \in Slot |-> IF r = s THEN 0 ELSE IF r = tail THEN s ELSE next[r]]
      /\ head' = IF tail = 0 THEN s ELSE head
      /\ tail' = s /\ submitted' = submitted + 1
      /\ UNCHANGED <<work, after, step, lastRun>>
  BY DEF Link, IsFirstFree, handler
<1>2. TypeInv /\ NumbersInv /\ LinksInv /\ EndsInv /\ BatchInv
  BY DEF PoolInv
<1>3. s \in 1..Capacity /\ s # 0 /\ Slot = 1..Capacity /\ Capacity \in Nat
  BY CustomAssumption DEF Slot
<1>4. TypeInv'
  BY <1>1, <1>2, <1>3 DEF TypeInv
<1>5. /\ allocated'[s] /\ arg'[s] = submitted + 1 /\ next'[s] = 0
      /\ \A r \in Slot : r # s => /\ allocated'[r] = allocated[r] /\ arg'[r] = arg[r]
                                  /\ next'[r] = IF r = tail THEN s ELSE next[r]
  BY <1>1, <1>2 DEF TypeInv
<1>6. Base' = Base /\ Base \in Nat /\ submitted \in Nat /\ Base <= submitted
  BY <1>1, <1>2 DEF Base, NumbersInv, TypeInv
<1>7. \A r \in Slot : arg[r] \in Nat
  BY <1>2 DEF TypeInv
<1>8. NumbersInv'
  <2>1. \A r \in Slot : allocated'[r] => Base < arg'[r] /\ arg'[r] <= submitted + 1
    BY <1>2, <1>5, <1>6, <1>7 DEF NumbersInv
  <2>2. \A q, r \in Slot : allocated'[q] /\ allocated'[r] /\ arg'[q] = arg'[r] => q = r
    BY <1>2, <1>5, <1>6, <1>7 DEF NumbersInv
  <2>3. ASSUME NEW n \in Nat, Base < n, n <= submitted + 1
        PROVE  \E r \in Slot : allocated'[r] /\ arg'[r] = n
    <3>1. CASE n = submitted + 1
      BY <1>5, <3>1
    <3>2. CASE n <= submitted
      <4>1. PICK r \in Slot : allocated[r] /\ arg[r] = n
        BY <1>2, <2>3, <3>2 DEF NumbersInv
      <4> QED
        BY <1>1, <1>5, <4>1
    <3> QED
      BY <1>6, <2>3, <3>1, <3>2
  <2> QED
    BY <1>1, <1>6, <2>1, <2>2, <2>3 DEF NumbersInv
<1>9. /\ head # 0 => head \in Slot /\ head # s
      /\ tail # 0 => tail \in Slot /\ tail # s
  BY <1>1, <1>2, <1>3, SMTT(30) DEF EndsInv, TypeInv
<1>10. EndsInv'
  BY <1>1, <1>2, <1>3, <1>5, <1>9 DEF EndsInv
<1>11. LinksInv'
  <2> SUFFICES ASSUME NEW r \in Slot, allocated'[r]
               PROVE  IF next'[r] # 0
                      THEN /\ next'[r] \in Slot /\ allocated'[next'[r]]
                           /\ arg'[next'[r]] = arg'[r] + 1 /\ next'[r] # head'
                      ELSE arg'[r] = submitted' \/ (head' # 0 /\ arg'[head'] = arg'[r] + 1)
    BY DEF LinksInv
  <2>1. CASE r = s
    BY <1>1, <1>5, <2>1
  <2>2. CASE r # s /\ r = tail
    <3>1. next'[r] = s /\ arg'[r] = submitted /\ head' = head /\ head # s
      BY <1>1, <1>2, <1>3, <1>5, <1>9, <2>2 DEF EndsInv
    <3> QED
      BY <1>3, <1>5, <3>1
  <2>3. CASE r # s /\ r # tail /\ next[r] # 0
    <3>1. allocated[r] /\ next'[r] = next[r] /\ arg'[r] = arg[r]
      BY <1>5, <2>3
    <3>2. /\ next[r] \in Slot /\ allocated[next[r]] /\ arg[next[r]] = arg[r] + 1
          /\ next[r] # head /\ next[r] # s
      BY <1>1, <1>2, <2>3, <3>1 DEF LinksInv
    <3> QED
      BY <1>1, <1>5, <2>3, <3>1, <3>2
  <2>4. CASE r # s /\ r # tail /\ next[r] = 0
    <3>1. allocated[r] /\ next'[r] = 0 /\ arg'[r] = arg[r]
      BY <1>5, <2>4
    <3>2. arg[r] = submitted \/ (head # 0 /\ arg[head] = arg[r] + 1)
      BY <1>2, <2>4, <3>1 DEF LinksInv
    <3>3. CASE head # 0
      <4>1. tail # 0 /\ arg[tail] = submitted /\ allocated[tail] /\ head' = head
        BY <1>1, <1>2, <3>3 DEF EndsInv
      <4>2. arg[r] # submitted
        BY <1>2, <1>9, <2>4, <3>1, <4>1 DEF NumbersInv
      <4>3. arg'[head] = arg[head]
        BY <1>5, <1>9, <3>3
      <4> QED
        BY <3>1, <3>2, <3>3, <4>1, <4>2, <4>3
    <3>4. CASE head = 0
      <4>1. tail = 0 /\ head' = s /\ arg[r] = submitted
        BY <1>1, <1>2, <3>2, <3>4 DEF EndsInv
      <4> QED
        BY <1>3, <1>5, <3>1, <4>1
    <3> QED
      BY <3>3, <3>4
  <2> QED
    BY <2>1, <2>2, <2>3, <2>4
<1>12. BatchInv'
  <2>1. NoBatch' <=> NoBatch
    BY <1>1 DEF NoBatch
  <2>2. ASSUME NoBatch PROVE IF head' = 0 THEN submitted' = Base' ELSE arg'[head'] = Base' + 1
    BY <1>1, <1>2, <1>3, <1>5, <1>6, <1>9, <2>2 DEF BatchInv, EndsInv
  <2>3. ASSUME ~NoBatch
        PROVE  /\ work # 0 /\ work \in Slot /\ work # s /\ work # head' /\ work # tail
               /\ allocated'[work] /\ arg'[work] = Base' + 1 /\ next'[work] = next[work]
    <3>1. /\ work # 0 /\ work \in Slot /\ allocated[work] /\ arg[work] = Base + 1
          /\ work # head /\ work # s
      BY <1>1, <1>2, <1>3, <2>3 DEF BatchInv, TypeInv
    <3>2. head # 0 => arg[head] # Base + 1 /\ arg[head] > Base /\ arg[head] <= submitted
      BY <1>2, <1>9, <3>1 DEF NumbersInv, EndsInv
    <3>3. tail # 0 => head # 0 /\ arg[tail] = submitted
      BY <1>2 DEF EndsInv
    <3>4. work # tail
      BY <1>6, <1>7, <1>9, <3>1, <3>2, <3>3
    <3> QED
      BY <1>1, <1>5, <1>6, <3>1, <3>4
  <2>4. step = "call" => ~NoBatch /\ BH!Handling(CUSTOM) /\ after = next[work]
    BY <1>2 DEF BatchInv, NoBatch
  <2> QED
    BY <1>1, <2>1, <2>2, <2>3, <2>4 DEF BatchInv
<1> QED
  BY <1>4, <1>8, <1>10, <1>11, <1>12 DEF PoolInv

\* Steps of the runner move no slot; where no batch was running none starts,
\* and the handler begins by taking the list.
LEMMA RunnerStep ==
    ASSUME PoolInv, UNCHANGED <<pool, head, tail, work, after, lastRun, submitted>>,
           \/ step' = step /\ (BH!Handling(CUSTOM)' <=> BH!Handling(CUSTOM))
           \/ step' = step /\ step # "call" /\ NoBatch /\ ~BH!Handling(CUSTOM)'
           \/ step' = "take" /\ step # "call" /\ NoBatch
    PROVE  PoolInv'
<1>1. /\ UNCHANGED <<allocated, next, arg, head, tail, work, after, lastRun, submitted>>
      /\ Base' = Base /\ step' \in {"take", "loop", "call"}
  BY DEF pool, PoolInv, TypeInv, Base
<1>2. TypeInv' /\ NumbersInv' /\ LinksInv' /\ EndsInv'
  BY <1>1 DEF PoolInv, TypeInv, NumbersInv, LinksInv, EndsInv
<1>3. BatchInv /\ (NoBatch' <=> NoBatch) /\ (step' = "call" => step = "call" /\ BH!Handling(CUSTOM)')
  BY <1>1 DEF NoBatch, PoolInv, BatchInv
<1>4. BatchInv'
  BY <1>1, <1>3 DEF BatchInv
<1> QED
  BY <1>2, <1>4 DEF PoolInv

\* The submitted list becomes the batch.
LEMMA TakeStep ==
    ASSUME PoolInv, Take, BH!Handling(CUSTOM)'
    PROVE  PoolInv'
<1>1. /\ BH!Handling(CUSTOM) /\ step = "take" /\ step' = "loop"
      /\ work' = head /\ head' = 0 /\ tail' = 0
      /\ UNCHANGED <<allocated, next, arg, after, lastRun, submitted>>
  BY DEF Take, InHandler, pool
<1>2. TypeInv /\ NumbersInv /\ LinksInv /\ EndsInv /\ BatchInv /\ NoBatch /\ Base' = Base
  BY <1>1 DEF PoolInv, NoBatch, Base
<1>3. IF head = 0 THEN submitted = Base ELSE arg[head] = Base + 1 /\ allocated[head]
  BY <1>2 DEF BatchInv, EndsInv
<1>4. TypeInv' /\ NumbersInv' /\ EndsInv'
  BY <1>1, <1>2, CustomAssumption DEF TypeInv, NumbersInv, EndsInv
<1>5. LinksInv'
  <2> SUFFICES ASSUME NEW s \in Slot, allocated[s]
               PROVE  IF next[s] # 0
                      THEN /\ next[s] \in Slot /\ allocated[next[s]]
                           /\ arg[next[s]] = arg[s] + 1 /\ next[s] # 0
                      ELSE arg[s] = submitted
    BY <1>1 DEF LinksInv
  <2>1. head # 0 /\ next[s] = 0 => arg[s] = submitted
    \* The head is the first of all: nothing comes before it.
    <3> SUFFICES ASSUME head # 0, next[s] = 0, arg[head] = arg[s] + 1 PROVE FALSE
      BY <1>2 DEF LinksInv
    <3>1. arg[s] > Base /\ arg[s] \in Nat /\ Base \in Nat
      BY <1>2 DEF NumbersInv, TypeInv
    <3> QED
      BY <1>3, <3>1
  <2> QED
    BY <1>2, <2>1 DEF LinksInv
<1>6. BatchInv'
  BY <1>1, <1>2, <1>3, CustomAssumption DEF BatchInv, NoBatch
<1> QED
  BY <1>4, <1>5, <1>6 DEF PoolInv

\* The callback of the next slot is called: it is the next submission.
LEMMA CallStep ==
    ASSUME PoolInv, Call, BH!Handling(CUSTOM)'
    PROVE  PoolInv' /\ lastRun' = lastRun + 1
<1>1. /\ BH!Handling(CUSTOM) /\ step = "loop" /\ step' = "call" /\ work # 0
      /\ after' = next[work] /\ lastRun' = arg[work]
      /\ UNCHANGED <<allocated, next, arg, head, tail, work, submitted>>
  BY DEF Call, InHandler, pool
<1>2. TypeInv /\ NumbersInv /\ LinksInv /\ EndsInv /\ BatchInv /\ ~NoBatch /\ ~NoBatch'
  BY <1>1 DEF PoolInv, NoBatch
<1>3. /\ work \in Slot /\ allocated[work] /\ arg[work] = Base + 1 /\ work # head
      /\ Base = lastRun /\ lastRun \in Nat /\ next[work] \in 0..Capacity
  BY <1>1, <1>2 DEF BatchInv, TypeInv, Slot, Base
<1>4. Base' = Base /\ lastRun' = lastRun + 1
  BY <1>1, <1>3 DEF Base
<1>5. TypeInv' /\ NumbersInv' /\ EndsInv' /\ LinksInv'
  BY <1>1, <1>2, <1>3, <1>4 DEF TypeInv, NumbersInv, EndsInv, LinksInv
<1>6. BatchInv'
  BY <1>1, <1>2, <1>3, <1>4 DEF BatchInv
<1> QED
  BY <1>4, <1>5, <1>6 DEF PoolInv

\* A callback has returned: its slot leaves the batch and the pool.
LEMMA ReleaseStep ==
    ASSUME PoolInv, Release, BH!Handling(CUSTOM)'
    PROVE  PoolInv'
<1>1. /\ BH!Handling(CUSTOM) /\ step = "call" /\ step' = "loop"
      /\ allocated' = [allocated EXCEPT ![work] = FALSE] /\ work' = after
      /\ UNCHANGED <<next, arg, head, tail, after, lastRun, submitted>>
  BY DEF Release, InHandler
<1>2. TypeInv /\ NumbersInv /\ LinksInv /\ EndsInv /\ BatchInv /\ ~NoBatch
  BY <1>1 DEF PoolInv, NoBatch
<1>3. /\ work \in Slot /\ allocated[work] /\ arg[work] = Base + 1 /\ work # head
      /\ after = next[work] /\ Base = lastRun - 1 /\ lastRun \in Nat /\ Base \in Nat
      /\ submitted \in Nat
  BY <1>1, <1>2 DEF BatchInv, TypeInv, Slot, Base, NumbersInv
<1>4. Base' = Base + 1
  BY <1>1, <1>3 DEF Base
<1>5. /\ ~allocated'[work]
      /\ \A s \in Slot : s # work => allocated'[s] = allocated[s]
      /\ \A s \in Slot : arg[s] \in Nat
  BY <1>1, <1>2, <1>3 DEF TypeInv
<1>6. \A s \in Slot : allocated'[s] => allocated[s] /\ s # work /\ arg[s] # Base + 1
  BY <1>2, <1>3, <1>5 DEF NumbersInv
<1>7. TypeInv'
  BY <1>1, <1>2, Zenon DEF TypeInv
<1>8. NumbersInv'
  <2>1. Base + 1 <= submitted
    BY <1>2, <1>3 DEF NumbersInv
  <2>2. \A s \in Slot : allocated'[s] => Base + 1 < arg[s] /\ arg[s] <= submitted
    BY <1>2, <1>3, <1>5, <1>6 DEF NumbersInv
  <2>3. ASSUME NEW n \in (Base + 2)..submitted
        PROVE  \E s \in Slot : allocated'[s] /\ arg[s] = n
    <3>1. PICK s \in Slot : allocated[s] /\ arg[s] = n
      BY <1>2, <1>3 DEF NumbersInv
    <3> QED
      BY <1>3, <1>5, <3>1
  <2>4. \A r, s \in Slot : allocated'[r] /\ allocated'[s] /\ arg[r] = arg[s] => r = s
    BY <1>2, <1>6 DEF NumbersInv
  <2>5. (Base + 1) + 1 = Base + 2 /\ Base + 1 \in Nat
    BY <1>3
  <2> QED
    BY <1>1, <1>4, <2>1, <2>2, <2>3, <2>4, <2>5 DEF NumbersInv
<1>9. head # 0 => head \in Slot /\ tail \in Slot /\ tail # work /\ allocated'[head] /\ allocated'[tail]
  <2> SUFFICES ASSUME head # 0
               PROVE head \in Slot /\ tail \in Slot /\ tail # work /\ allocated'[head] /\ allocated'[tail]
    OBVIOUS
  <2>1. /\ head \in Slot /\ tail \in Slot /\ allocated[head] /\ allocated[tail]
        /\ arg[tail] = submitted
    BY <1>2 DEF EndsInv, TypeInv, Slot
  <2>2. arg[head] > Base /\ arg[head] <= submitted /\ arg[head] # Base + 1
    BY <1>2, <1>3, <2>1 DEF NumbersInv
  <2>3. tail # work
    BY <1>3, <1>5, <2>1, <2>2
  <2> QED
    BY <1>3, <1>5, <2>1, <2>3
<1>10. EndsInv'
  BY <1>1, <1>2, <1>9 DEF EndsInv
<1>11. LinksInv'
  <2> SUFFICES ASSUME NEW s \in Slot, allocated'[s]
               PROVE  IF next[s] # 0
                      THEN /\ next[s] \in Slot /\ allocated'[next[s]]
                           /\ arg[next[s]] = arg[s] + 1 /\ next[s] # head
                      ELSE arg[s] = submitted \/ (head # 0 /\ arg[head] = arg[s] + 1)
    BY <1>1 DEF LinksInv
  <2>1. allocated[s] /\ arg[s] > Base
    BY <1>2, <1>6 DEF NumbersInv
  <2>2. next[s] # 0 => next[s] # work
    BY <1>2, <1>3, <1>5, <2>1 DEF LinksInv
  <2> QED
    BY <1>2, <1>5, <2>1, <2>2 DEF LinksInv
<1>12. IF after # 0
       THEN /\ after \in Slot /\ allocated'[after] /\ arg[after] = Base + 2 /\ after # head
       ELSE submitted = Base + 1 \/ (head # 0 /\ arg[head] = Base + 2)
  <2>1. IF after # 0
        THEN /\ after \in Slot /\ allocated[after] /\ arg[after] = arg[work] + 1 /\ after # head
        ELSE arg[work] = submitted \/ (head # 0 /\ arg[head] = arg[work] + 1)
    BY <1>2, <1>3 DEF LinksInv
  <2>2. arg[work] + 1 = Base + 2 /\ arg[work] # arg[work] + 1
    BY <1>3
  <2> QED
    BY <1>3, <1>5, <2>1, <2>2
<1>13. BatchInv'
  <2>1. NoBatch' <=> after = 0
    BY <1>1 DEF NoBatch
  <2>2. after = 0 => IF head = 0 THEN submitted = Base + 1 ELSE arg[head] = (Base + 1) + 1
    <3>1. SUFFICES ASSUME after = 0, head # 0, submitted = Base + 1 PROVE FALSE
      BY <1>3, <1>12
    <3>2. arg[head] > Base /\ arg[head] <= submitted /\ arg[head] # Base + 1
      BY <1>2, <1>6, <1>9, <3>1 DEF NumbersInv
    <3> QED
      BY <1>3, <1>5, <1>9, <3>1, <3>2
  <2>3. Base + 2 = (Base + 1) + 1
    BY <1>3
  <2> QED
    BY <1>1, <1>4, <1>12, <2>1, <2>2, <2>3 DEF BatchInv
<1> QED
  BY <1>7, <1>8, <1>10, <1>11, <1>13 DEF PoolInv

---------------------------------------------------------------------------
(* The steps of the specification.                                         *)

\* custom_work_init leaves an empty pool.
LEMMA PoolStart ==
    ASSUME Init
    PROVE  CustomInv
<1>1. BHP!Init /\ BHP!BHInv
  BY BHP!BHStart, Zenon DEF Init, BH!Init, BHP!Init
<1>2. ~BH!Handling(CUSTOM)
  BY DEF Init, BH!Init, BH!Handling, BH!Active
<1>3. Capacity \in Nat
  BY CustomAssumption
<1>4. TypeInv
  BY <1>3 DEF Init, TypeInv
<1>5. NumbersInv /\ LinksInv /\ EndsInv
  BY DEF Init, NumbersInv, LinksInv, EndsInv, Base
<1>6. BatchInv
  BY <1>2 DEF Init, BatchInv, NoBatch, Base
<1> QED
  BY <1>1, <1>4, <1>5, <1>6 DEF CustomInv, PoolInv

\* Every step keeps the invariant, and calls only the next submission.
LEMMA CustomStep ==
    ASSUME CustomInv, [Next]_vars
    PROVE  CustomInv' /\ OrderStep
<1>1. BHP!BHInv /\ PoolInv /\ (step = "call" => BH!Handling(CUSTOM))
  BY DEF CustomInv, PoolInv, BatchInv
<1>2. ASSUME step' = step \/ step' = "take" \/ step' = "loop", CustomInv' PROVE CustomInv' /\ OrderStep
  BY <1>2 DEF OrderStep
<1>3. ASSUME NEW s \in Slot, defer_callback(s) PROVE CustomInv' /\ OrderStep
  <2>1. /\ Link(s) /\ BHP!raise_bottom_half({CUSTOM})
        /\ UNCHANGED <<running, frames>> /\ UNCHANGED handler /\ step' = step
    BY <1>3, SameRunner DEF defer_callback, handler
  <2>2. BHP!BHInv' /\ (BH!Handling(CUSTOM)' <=> BH!Handling(CUSTOM))
    BY <1>1, <2>1, SameRunner, BHP!RaiseStep
  <2> QED
    BY <1>1, <1>2, <2>1, <2>2, LinkStep DEF CustomInv
<1>4. ASSUME NEW s \in Slot, DeferInTrap(s) PROVE CustomInv' /\ OrderStep
  <2>1. /\ Link(s) /\ BHP!RaiseAndRun({CUSTOM}) /\ UNCHANGED handler /\ step' = step
        /\ {CUSTOM} \in SUBSET BHP!Types
    BY <1>4, SameRunner, CustomIsType DEF DeferInTrap, handler
  <2>2. BHP!BHInv' /\ (BH!Handling(CUSTOM)' <=> BH!Handling(CUSTOM))
    BY <1>1, <2>1, SameRunner, CustomIsType, BHP!TrapStep
  <2> QED
    BY <1>1, <1>2, <2>1, <2>2, LinkStep DEF CustomInv
<1>5. ASSUME NEW S \in SUBSET OtherWork, Trap(S) PROVE CustomInv' /\ OrderStep
  <2>1. /\ BHP!RaiseAndRun(S) /\ S \in SUBSET BHP!Types
        /\ UNCHANGED <<pool, head, tail, work, after, lastRun, submitted>> /\ step' = step
    BY <1>5, SameRunner, CustomIsType DEF Trap, handler
  <2>2. BHP!BHInv' /\ (BH!Handling(CUSTOM)' <=> BH!Handling(CUSTOM))
    BY <1>1, <2>1, SameRunner, CustomIsType, BHP!TrapStep
  <2> QED
    BY <1>1, <1>2, <2>1, <2>2, RunnerStep DEF CustomInv
<1>6. ASSUME NEW b \in BH!Types, StartHandler(b) PROVE CustomInv' /\ OrderStep
  <2>1. /\ BHP!StartHandler(b) /\ b \in BHP!Types
        /\ UNCHANGED <<pool, head, tail, work, after, lastRun, submitted>> /\ step' = "take"
    BY <1>6, SameRunner DEF StartHandler, BH!Types, BHP!Types
  <2>2. BHP!BHInv' /\ ~BH!Handling(CUSTOM)
    BY <1>1, <2>1, SameRunner, CustomIsType, BHP!StartStep
  <2>3. NoBatch /\ step # "call"
    BY <1>1, <2>2 DEF NoBatch
  <2> QED
    BY <1>1, <1>2, <2>1, <2>2, <2>3, RunnerStep DEF CustomInv
<1>7. ASSUME NEW b \in OtherWork, OtherHandlerReturns(b) PROVE CustomInv' /\ OrderStep
  <2>1. /\ BH!Handling(b) /\ BHP!FinishHandler({}) /\ BHP!Active
        /\ UNCHANGED <<pool, head, tail, work, after, lastRun, submitted>> /\ step' = step
    BY <1>7, SameRunner DEF OtherHandlerReturns, handler
  <2>2. BHP!BHInv' /\ ~BH!Handling(CUSTOM) /\ ~BH!Handling(CUSTOM)'
    BY <1>1, <2>1, SameRunner, CustomIsType, BHP!FinishStep
  <2> QED
    BY <1>1, <1>2, <2>1, <2>2, RunnerStep DEF CustomInv
<1>8. ASSUME NextRound PROVE CustomInv' /\ OrderStep
  <2>1. /\ BHP!EndRound
        /\ UNCHANGED <<pool, head, tail, work, after, lastRun, submitted>> /\ step' = step
    BY <1>8, SameRunner DEF NextRound, handler
  <2>2. BHP!BHInv' /\ ~BH!Handling(CUSTOM) /\ ~BH!Handling(CUSTOM)'
    BY <1>1, <2>1, SameRunner, CustomIsType, BHP!EndRoundStep
  <2> QED
    BY <1>1, <1>2, <2>1, <2>2, RunnerStep DEF CustomInv
<1>9. ASSUME UNCHANGED bh PROVE BHP!BHInv' /\ (BH!Handling(CUSTOM)' <=> BH!Handling(CUSTOM))
  BY <1>1, <1>9, SameRunner, BHP!QuietStep DEF bh
<1>10. ASSUME Take PROVE CustomInv' /\ OrderStep
  <2>1. UNCHANGED bh /\ BH!Handling(CUSTOM) /\ step' = "loop"
    BY <1>10 DEF Take, InHandler
  <2> QED
    BY <1>1, <1>2, <1>9, <1>10, <2>1, TakeStep DEF CustomInv
<1>11. ASSUME Call PROVE CustomInv' /\ OrderStep
  <2>1. UNCHANGED bh /\ BH!Handling(CUSTOM)
    BY <1>11 DEF Call, InHandler
  <2> QED
    BY <1>1, <1>9, <1>11, <2>1, CallStep DEF CustomInv, OrderStep
<1>12. ASSUME Release PROVE CustomInv' /\ OrderStep
  <2>1. UNCHANGED bh /\ BH!Handling(CUSTOM) /\ step' = "loop"
    BY <1>12 DEF Release, InHandler
  <2> QED
    BY <1>1, <1>2, <1>9, <1>12, <2>1, ReleaseStep DEF CustomInv
<1>13. ASSUME Return PROVE CustomInv' /\ OrderStep
  <2>1. /\ BH!Handling(CUSTOM) /\ step = "loop" /\ work = 0 /\ BHP!FinishHandler({}) /\ BHP!Active
        /\ UNCHANGED <<pool, head, tail, work, after, lastRun, submitted>> /\ step' = step
    BY <1>13, SameRunner DEF Return, InHandler, handler
  <2>2. BHP!BHInv' /\ ~BH!Handling(CUSTOM)'
    BY <1>1, <2>1, SameRunner, CustomIsType, BHP!FinishStep
  <2>3. NoBatch /\ step # "call"
    BY <2>1 DEF NoBatch
  <2> QED
    BY <1>1, <1>2, <2>1, <2>2, <2>3, RunnerStep DEF CustomInv
<1>14. ASSUME UNCHANGED vars PROVE CustomInv' /\ OrderStep
  <2>1. /\ UNCHANGED bh /\ step' = step
        /\ UNCHANGED <<pool, head, tail, work, after, lastRun, submitted>>
    BY <1>14 DEF vars, handler
  <2> QED
    BY <1>1, <1>2, <1>9, <2>1, RunnerStep DEF CustomInv
<1> QED
  BY <1>3, <1>4, <1>5, <1>6, <1>7, <1>8, <1>10, <1>11, <1>12, <1>13, <1>14 DEF Next

\* The inductive invariant of the deferred callbacks: the allocated slots are
\* the submissions not called yet, each once, and every link leads to the next.
THEOREM CustomInvariance == Spec => []CustomInv
<1>1. Init => CustomInv
  BY PoolStart
<1>2. CustomInv /\ [Next]_vars => CustomInv'
  BY CustomStep
<1> QED
  BY <1>1, <1>2, PTL DEF Spec

\* run_custom_callbacks calls the callbacks in the order of their submission,
\* none left out and none twice, for any pool and any submitters.
THEOREM CallbacksInOrder == Spec => RunsInOrder
<1>1. CustomInv /\ [Next]_vars => [OrderStep]_vars
  BY CustomStep
<1> QED
  BY <1>1, CustomInvariance, PTL DEF Spec, RunsInOrder, OrderStep

\* No notification of a deferred callback is lost in run_bottom_halves.
THEOREM RaisesKept == Spec => []NoLostRaise
<1>1. CustomInv => NoLostRaise
  BY DEF CustomInv, BHP!BHInv, BHP!NoLostRaise, NoLostRaise, BH!NoLostRaise,
         BHP!InRound, BH!InRound
<1> QED
  BY <1>1, CustomInvariance, PTL

---------------------------------------------------------------------------
\* A function on 1..n is a list of length n.
LEMMA ListLength ==
    ASSUME NEW S, NEW n \in Nat, NEW f \in [1..n -> S]
    PROVE  f \in Seq(S) /\ Len(f) = n
<1>1. f \in Seq(S)
  OBVIOUS
<1>2. Len(f) \in Nat /\ 1..Len(f) = 1..n
  BY <1>1
<1>3. \A i \in Nat \ {0} : i <= Len(f) <=> i <= n
  BY <1>2
<1>4. ~(Len(f) < n) /\ ~(n < Len(f))
  <2>1. Len(f) < n => n <= Len(f)
    BY <1>2, <1>3
  <2>2. n < Len(f) => Len(f) <= n
    BY <1>2, <1>3
  <2> QED
    BY <1>2, <2>1, <2>2
<1> QED
  BY <1>1, <1>2, <1>4

---------------------------------------------------------------------------
(* The pool is exact.  The list it asks for is the allocated slots in the  *)
(* order of their numbers; k is where the submitted list starts in it.     *)
LEMMA ExactPool ==
    ASSUME PoolInv
    PROVE  PoolExact
<1> DEFINE N == submitted - Base
           Q == [i \in 1..N |-> CHOOSE s \in Slot : allocated[s] /\ arg[s] = Base + i]
           k == IF NoBatch THEN 0 ELSE IF head = 0 THEN N ELSE (arg[head] - Base) - 1
<1>1. TypeInv /\ NumbersInv /\ LinksInv /\ EndsInv /\ BatchInv
  BY DEF PoolInv
<1>2. /\ Base \in Nat /\ submitted \in Nat /\ N \in Nat /\ Capacity \in Nat
      /\ Slot = 1..Capacity /\ \A s \in Slot : arg[s] \in Nat /\ next[s] \in 0..Capacity
  BY <1>1, CustomAssumption DEF TypeInv, NumbersInv, Slot
<1>3. \A i \in 1..N : Q[i] \in Slot /\ allocated[Q[i]] /\ arg[Q[i]] = Base + i
  <2> TAKE i \in 1..N
  <2>1. Base + i \in (Base + 1)..submitted
    BY <1>2
  <2>2. \E s \in Slot : allocated[s] /\ arg[s] = Base + i
    BY <1>1, <2>1 DEF NumbersInv
  <2> QED
    BY <2>2
<1>4. \A s \in Slot : \A i \in 1..N : allocated[s] /\ arg[s] = Base + i => s = Q[i]
  BY <1>1, <1>3 DEF NumbersInv
<1>5. Q \in [1..N -> Slot]
  BY <1>3
<1> HIDE DEF Q
<1>6. \A s \in Slot : allocated[s] => arg[s] - Base \in 1..N /\ s = Q[arg[s] - Base]
  <2> SUFFICES ASSUME NEW s \in Slot, allocated[s]
               PROVE  arg[s] - Base \in 1..N /\ s = Q[arg[s] - Base]
    OBVIOUS
  <2>1. arg[s] - Base \in 1..N /\ arg[s] = Base + (arg[s] - Base)
    BY <1>1, <1>2 DEF NumbersInv
  <2> QED
    BY <1>4, <2>1
<1>7. \A i, j \in 1..N : Q[i] = Q[j] => i = j
  <2> TAKE i, j \in 1..N
  <2>1. Q[i] = Q[j] => Base + i = Base + j
    BY <1>3
  <2> QED
    BY <1>2, <2>1
<1>8. N <= Capacity
  <2>1. Q \in Injection(1..N, 1..Capacity)
    BY <1>2, <1>5, <1>7 DEF Injection, IsInjective
  <2>2. /\ IsFiniteSet(1..Capacity) /\ Cardinality(1..Capacity) = Capacity
        /\ Cardinality(1..N) = N
    BY <1>2, FS_Interval
  <2> QED
    BY <2>1, <2>2, FS_Injection
<1>9. Q \in SlotLists /\ Len(Q) = N
  <2>1. Len(Q) = N
    BY <1>2, <1>5, ListLength
  <2>2. N \in 0..Capacity
    BY <1>2, <1>8
  <2> QED
    BY <1>5, <2>1, <2>2, Zenon DEF SlotLists
<1>10. {s \in Slot : allocated[s]} = {Q[i] : i \in 1..N}
  BY <1>3, <1>6
<1>11. head # 0 => head \in Slot /\ allocated[head] /\ arg[head] - Base \in 1..N
  BY <1>1, <1>2, <1>6 DEF EndsInv, TypeInv
<1>12. ~NoBatch => work \in Slot /\ work = Q[1] /\ N > 0 /\ (head # 0 => arg[head] # Base + 1)
  <2> SUFFICES ASSUME ~NoBatch
               PROVE  work \in Slot /\ work = Q[1] /\ N > 0 /\ (head # 0 => arg[head] # Base + 1)
    OBVIOUS
  <2>1. work \in Slot /\ allocated[work] /\ arg[work] = Base + 1 /\ work # head
    BY <1>1, <1>2 DEF BatchInv, TypeInv
  <2>2. (Base + 1) - Base = 1
    BY <1>2
  <2>3. 1 \in 1..N /\ work = Q[1]
    BY <1>6, <2>1, <2>2
  <2>4. head # 0 => arg[head] # Base + 1
    BY <1>1, <1>11, <2>1, SMTT(30) DEF NumbersInv
  <2> QED
    BY <1>2, <2>1, <2>3, <2>4
<1>13. /\ k \in 0..N /\ (~NoBatch => k > 0)
       /\ IF head = 0 THEN k = N ELSE k < N /\ head = Q[k + 1]
  <2>1. CASE NoBatch
    <3>1. IF head = 0 THEN N = 0 ELSE arg[head] = Base + 1
      BY <1>1, <1>2, <2>1 DEF BatchInv
    <3>2. head # 0 => arg[head] - Base = 1 /\ head = Q[1] /\ N > 0
      BY <1>2, <1>6, <1>11, <3>1
    <3> QED
      BY <1>2, <2>1, <3>1, <3>2
  <2>2. CASE ~NoBatch /\ head = 0
    BY <1>2, <1>12, <2>2
  <2>3. CASE ~NoBatch /\ head # 0
    <3>1. k = (arg[head] - Base) - 1 /\ arg[head] - Base \in 1..N /\ arg[head] \in Nat
      BY <1>2, <1>11, <2>3
    <3>2. k + 1 = arg[head] - Base /\ k \in 0..N /\ k < N /\ k > 0
      BY <1>2, <1>12, <2>3, <3>1
    <3> QED
      BY <1>6, <1>11, <2>3, <3>2
  <2> QED
    BY <2>1, <2>2, <2>3
<1> HIDE DEF k
<1>14. \A n \in 1..N : IF n = N \/ n = k THEN next[Q[n]] = 0
                                         ELSE n + 1 \in 1..N /\ next[Q[n]] = Q[n + 1]
  <2> TAKE n \in 1..N
  <2>1. /\ Q[n] \in Slot /\ allocated[Q[n]] /\ arg[Q[n]] = Base + n
        /\ n + 1 = (Base + n) + 1 - Base /\ (Base + n = submitted <=> n = N)
    BY <1>2, <1>3
  <2>2. ASSUME next[Q[n]] # 0
        PROVE  n + 1 \in 1..N /\ next[Q[n]] = Q[n + 1] /\ next[Q[n]] # head
    <3>1. /\ next[Q[n]] \in Slot /\ allocated[next[Q[n]]]
          /\ arg[next[Q[n]]] = (Base + n) + 1 /\ next[Q[n]] # head
      BY <1>1, <2>1, <2>2 DEF LinksInv
    <3>2. arg[next[Q[n]]] - Base = n + 1
      BY <1>2, <2>1, <3>1
    <3> QED
      BY <1>6, <3>1, <3>2
  <2>3. ASSUME next[Q[n]] = 0, n # N PROVE n = k
    <3>1. head # 0 /\ arg[head] = (Base + n) + 1
      BY <1>1, <2>1, <2>3 DEF LinksInv
    <3>2. head = Q[n + 1] /\ n + 1 \in 1..N /\ head = Q[k + 1] /\ k + 1 \in 1..N
      BY <1>2, <1>6, <1>11, <1>13, <2>1, <3>1, SMTT(30)
    <3>3. n + 1 = k + 1
      BY <1>7, <3>2, Zenon
    <3> QED
      BY <1>2, <1>13, <3>3
  <2>4. n = k /\ n # N => next[Q[n]] = 0
    BY <1>13, <2>2
  <2>5. n = N => next[Q[n]] = 0
    BY <1>2, <2>2
  <2> QED
    BY <2>2, <2>3, <2>4, <2>5
<1>15. Linked(Q, k + 1, N, head)
  <2>1. CASE head = 0
    BY <1>2, <1>13, <2>1 DEF Linked
  <2>2. CASE head # 0
    <3>1. k + 1 <= N /\ head = Q[k + 1] /\ N \in 1..N /\ k \in Nat
      BY <1>2, <1>13, <2>2
    <3>2. \A n \in (k + 1)..(N - 1) : n \in 1..N /\ n # N /\ n # k
      BY <1>2, <3>1
    <3> QED
      BY <1>2, <1>14, <3>1, <3>2 DEF Linked
  <2> QED
    BY <2>1, <2>2
<1>16. tail = IF k = N THEN 0 ELSE Q[N]
  <2>1. CASE head = 0
    BY <1>1, <1>13, <2>1 DEF EndsInv
  <2>2. CASE head # 0
    <3>1. tail \in Slot /\ allocated[tail] /\ arg[tail] = submitted
      BY <1>1, <1>2, <2>2 DEF EndsInv, TypeInv
    <3> QED
      BY <1>2, <1>6, <1>13, <2>2, <3>1
  <2> QED
    BY <2>1, <2>2
<1>17. IF ~BH!Handling(CUSTOM) \/ step = "take" THEN k = 0
       ELSE IF step = "call" THEN k > 0 /\ Q[1] = work /\ Linked(Q, 2, k, after)
       ELSE Linked(Q, 1, k, work)
  <2>1. CASE NoBatch
    <3>1. k = 0
      BY <2>1 DEF k
    <3>2. step \in {"take", "loop", "call"} /\ (step = "call" => BH!Handling(CUSTOM))
      BY <1>1 DEF TypeInv, BatchInv
    <3> QED
      BY <2>1, <3>1, <3>2 DEF NoBatch, Linked
  <2>2. CASE ~NoBatch
    <3>1. /\ k \in 1..N /\ work = Q[1] /\ BH!Handling(CUSTOM) /\ step # "take"
          /\ step = "call" => after = next[Q[1]]
      BY <1>1, <1>2, <1>12, <1>13, <2>2 DEF NoBatch, BatchInv
    <3>2. \A n \in 1..(k - 1) : n \in 1..N /\ n # N /\ n # k
      BY <1>2, <3>1
    <3>3. next[Q[k]] = 0 /\ \A n \in 1..(k - 1) : next[Q[n]] = Q[n + 1]
      BY <1>14, <3>1, <3>2
    <3>4. Linked(Q, 1, k, work)
      BY <3>1, <3>3 DEF Linked
    <3>5. step = "call" => Linked(Q, 2, k, after)
      BY <3>1, <3>3 DEF Linked
    <3> QED
      BY <2>2, <3>1, <3>4, <3>5, SMTT(30)
  <2> QED
    BY <2>1, <2>2
<1> QED
  BY <1>7, <1>9, <1>10, <1>13, <1>15, <1>16, <1>17 DEF PoolExact

\* No slot of the pool leaks and none is filled twice: the allocated slots are
\* the running batch followed by the submitted list, linked in that order.
THEOREM PoolIsExact == Spec => []PoolExact
<1>1. CustomInv => PoolExact
  BY ExactPool DEF CustomInv
<1> QED
  BY <1>1, CustomInvariance, PTL
=============================================================================
