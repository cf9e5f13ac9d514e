----------------------------- MODULE BootProofs -----------------------------
(***************************************************************************)
(* The copies of the bootloader and the turns of the harts, for images of  *)
(* any size within the limits and any number of harts; and that what is    *)
(* loaded is what was sent.                                                *)
(***************************************************************************)
EXTENDS Boot, TLAPS

-----------------------------------------------------------------------------
(* The copies *)

\* One unit of the kernel moves down by META: its source is not overwritten yet.
LEMMA KernelUnit ==
  ASSUME LoaderInv, pc = "copy_kernel", copy_bytes(LOAD, LOAD + META, ksize),
         UNCHANGED <<pc, ksize, isize, bundle>>
  PROVE  LoaderInv'
<1>1. /\ ksize \in 1 .. MAX_KERNEL /\ isize \in 1 .. MAX_INITRD
      /\ got \in 0 .. ksize - 1 /\ got' = got + 1
      /\ LOAD \in Nat /\ INITRD \in Nat /\ MAX_KERNEL \in Nat /\ MAX_INITRD \in Nat
      /\ LOAD + MAX_KERNEL + MAX_INITRD + 4 <= INITRD
  BY LoaderAssumption DEF LoaderInv, copy_bytes, MAX_BUNDLE, META
<1>2. CopyIndex(LOAD, LOAD + META, ksize, got) = got
  BY <1>1 DEF CopyIndex, META
<1>3. mem' = [mem EXCEPT ![LOAD + got] = mem[LOAD + META + got]]
  BY <1>2, Zenon DEF copy_bytes
<1>4. LOAD + got \in Addr /\ LOAD + META + got \in Addr
  BY <1>1 DEF Addr, META
<1>5. mem[LOAD + META + got] = bundle[LOAD + got + META]
  BY <1>1, <1>4 DEF LoaderInv, Copied, META
<1>6. DOMAIN mem' = Addr
  BY <1>3 DEF LoaderInv
<1>7. ASSUME NEW a \in Addr
      PROVE  mem'[a] = IF a < LOAD + got' THEN bundle[a + META]
                       ELSE IF INITRD + isize <= a /\ a < INITRD + isize
                       THEN bundle[LOAD + META + ksize + (a - INITRD)]
                       ELSE bundle[a]
  <2>1. a \in Int
    BY <1>1 DEF Addr
  <2>2. CASE a = LOAD + got
    BY <1>1, <1>3, <1>5, <2>1, <2>2 DEF LoaderInv
  <2>3. CASE a # LOAD + got
    <3>1. mem'[a] = mem[a]
      BY <1>3, <2>3 DEF LoaderInv
    <3>2. mem[a] = IF a < LOAD + got THEN bundle[a + META] ELSE bundle[a]
      BY <1>1, <2>1 DEF LoaderInv, Copied
    <3> QED BY <1>1, <2>1, <2>3, <3>1, <3>2
  <2> QED BY <2>2, <2>3
<1>8. Copied(got, INITRD + isize)'
  BY <1>7 DEF Copied
<1> QED BY <1>1, <1>6, <1>8 DEF LoaderInv

\* One unit of the initrd moves up: the source lies below every destination.
LEMMA InitrdUnit ==
  ASSUME LoaderInv, pc = "copy_initrd", copy_bytes(INITRD, LOAD + META + ksize, isize),
         UNCHANGED <<pc, ksize, isize, bundle>>
  PROVE  LoaderInv'
<1>1. /\ ksize \in 1 .. MAX_KERNEL /\ isize \in 1 .. MAX_INITRD
      /\ got \in 0 .. isize - 1 /\ got' = got + 1
      /\ LOAD \in Nat /\ INITRD \in Nat /\ MAX_KERNEL \in Nat /\ MAX_INITRD \in Nat
      /\ LOAD + MAX_KERNEL + MAX_INITRD + 4 <= INITRD
  BY LoaderAssumption DEF LoaderInv, copy_bytes, MAX_BUNDLE, META
<1> DEFINE j == isize - 1 - got
           src == LOAD + META + ksize + j
<1>2. CopyIndex(INITRD, LOAD + META + ksize, isize, got) = j
  BY <1>1 DEF CopyIndex, META
<1>3. mem' = [mem EXCEPT ![INITRD + j] = mem[src]]
  BY <1>2, Zenon DEF copy_bytes
<1>4. src \in Addr /\ src > LOAD + ksize - 1 /\ src < INITRD
  BY <1>1 DEF Addr, META
<1>5. mem[src] = bundle[src]
  <2>1. ~(src < LOAD + ksize)
    BY <1>1, <1>4 DEF META
  <2>2. ~(INITRD + isize - got <= src)
    BY <1>1, <1>4 DEF META
  <2> QED BY <1>4, <2>1, <2>2 DEF LoaderInv, Copied
<1>6. DOMAIN mem' = Addr
  BY <1>3 DEF LoaderInv
<1>7. ASSUME NEW a \in Addr
      PROVE  mem'[a] = IF a < LOAD + ksize THEN bundle[a + META]
                       ELSE IF INITRD + isize - got' <= a /\ a < INITRD + isize
                       THEN bundle[LOAD + META + ksize + (a - INITRD)]
                       ELSE bundle[a]
  <2>1. a \in Int
    BY <1>1 DEF Addr
  <2>2. CASE a = INITRD + j
    <3>1. mem'[a] = bundle[src] /\ a - INITRD = j
      BY <1>1, <1>3, <1>5, <2>2 DEF LoaderInv
    <3> QED BY <1>1, <2>1, <2>2, <3>1
  <2>3. CASE a # INITRD + j
    <3>1. mem'[a] = mem[a]
      BY <1>3, <2>3 DEF LoaderInv
    <3>2. mem[a] = IF a < LOAD + ksize THEN bundle[a + META]
                   ELSE IF INITRD + isize - got <= a /\ a < INITRD + isize
                   THEN bundle[LOAD + META + ksize + (a - INITRD)]
                   ELSE bundle[a]
      BY DEF LoaderInv, Copied
    <3> QED BY <1>1, <2>1, <2>3, <3>1, <3>2
  <2> QED BY <2>2, <2>3
<1>8. Copied(ksize, INITRD + isize - got)'
  BY <1>7 DEF Copied
<1> QED BY <1>1, <1>6, <1>8 DEF LoaderInv

\* Every step keeps the loader's invariant.
LEMMA LoaderStepInv == LoaderInv /\ [Next]_vars => LoaderInv'
<1> SUFFICES ASSUME LoaderInv, [Next]_vars PROVE LoaderInv'
  OBVIOUS
<1>1. CASE UNCHANGED loader
  BY <1>1 DEF loader, LoaderInv, Copied
<1>2. CASE Send
  BY <1>2 DEF Send, LoaderInv, Copied
<1>3. CASE ReadLine
  BY <1>3 DEF ReadLine, Prompt, LoaderInv
<1>4. CASE ReadHeader
  BY <1>4 DEF ReadHeader, Prompt, LoaderInv
<1>5. CASE ReadPayload
  BY <1>5 DEF ReadPayload, LoaderInv
<1>6. CASE Verify
  <2>1. CASE BundleOk(mem, header[2], header[3])
    <3> DEFINE k == mem[LOAD]
               i == mem[LOAD + 1]
    <3>1. /\ k \in 1 .. MAX_KERNEL /\ i \in 1 .. MAX_INITRD
          /\ ksize' = k /\ isize' = i
          /\ pc' = "copy_kernel" /\ got' = 0 /\ mem' = mem /\ bundle' = mem
      BY <1>6, <2>1 DEF Verify, BundleOk
    <3> HIDE DEF k, i
    <3>2. ASSUME NEW a \in Addr
          PROVE  ~(a < LOAD + 0) /\ ~(INITRD + i <= a /\ a < INITRD + i)
      <4>1. a \in Int /\ a >= LOAD /\ LOAD \in Int /\ INITRD \in Int /\ i \in Int
        BY <3>1, LoaderAssumption DEF Addr
      <4> QED BY <4>1
    <3>3. Copied(got, INITRD + isize)'
      BY <3>1, <3>2 DEF Copied
    <3> QED BY <3>1, <3>3, LoaderAssumption DEF LoaderInv
  <2>2. CASE ~BundleOk(mem, header[2], header[3])
    BY <1>6, <2>2 DEF Verify, Prompt, LoaderInv
  <2> QED BY <2>1, <2>2
<1>7. CASE CopyKernel
  <2>1. CASE copy_bytes(LOAD, LOAD + META, ksize) /\ UNCHANGED pc
    BY <1>7, <2>1, KernelUnit DEF CopyKernel
  <2>2. CASE got = ksize /\ pc' = "copy_initrd" /\ got' = 0 /\ UNCHANGED mem
    BY <1>7, <2>2, LoaderAssumption DEF CopyKernel, LoaderInv, Copied
  <2> QED BY <1>7, <2>1, <2>2 DEF CopyKernel
<1>8. CASE CopyInitrd
  <2>1. CASE copy_bytes(INITRD, LOAD + META + ksize, isize) /\ UNCHANGED pc
    BY <1>8, <2>1, InitrdUnit DEF CopyInitrd
  <2>2. CASE got = isize /\ pc' = "kernel" /\ UNCHANGED <<mem, got>>
    <3>1. ksize \in 1 .. MAX_KERNEL /\ isize \in 1 .. MAX_INITRD /\ INITRD + isize - got = INITRD
      BY <1>8, <2>2, LoaderAssumption DEF CopyInitrd, LoaderInv
    <3>2. Copied(ksize, INITRD)
      BY <1>8, <3>1 DEF CopyInitrd, LoaderInv
    <3>3. Copied(ksize, INITRD)'
      BY <1>8, <2>2, <3>2 DEF CopyInitrd, Copied
    <3> QED BY <1>8, <2>2, <3>1, <3>3 DEF CopyInitrd, LoaderInv
  <2> QED BY <1>8, <2>1, <2>2 DEF CopyInitrd
<1>9. CASE KernelStep \/ \E h \in Hart : HartStep(h)
  BY <1>1, <1>9 DEF KernelStep, HartStep, Enter, StartHart, AllStarted, EndWait,
     TakeTicket, Served, PassTurn, Count
<1> QED
  BY SMTT(30), <1>1, <1>2, <1>3, <1>4, <1>5, <1>6, <1>7, <1>8, <1>9
  DEF Next, LoaderNext, LoaderStep, vars

\* When the last copy is over, both are exact.
LEMMA CopyInv == LoaderInv => CopyExact
<1> SUFFICES ASSUME LoaderInv, pc = "kernel" PROVE CopyExact
  BY DEF CopyExact
<1>1. /\ ksize \in 1 .. MAX_KERNEL /\ isize \in 1 .. MAX_INITRD /\ Copied(ksize, INITRD)
      /\ LOAD \in Nat /\ INITRD \in Nat /\ MAX_KERNEL \in Nat /\ MAX_INITRD \in Nat
      /\ LOAD + MAX_KERNEL + MAX_INITRD + 4 <= INITRD
  BY LoaderAssumption DEF LoaderInv, MAX_BUNDLE, META
<1>2. ASSUME NEW j \in 0 .. ksize - 1
      PROVE  mem[LOAD + j] = bundle[LOAD + META + j]
  <2>1. LOAD + j \in Addr /\ LOAD + j < LOAD + ksize
    BY <1>1 DEF Addr
  <2>2. mem[LOAD + j] = bundle[LOAD + j + META]
    BY <1>1, <2>1 DEF Copied
  <2> QED BY <1>1, <2>2 DEF META
<1>3. ASSUME NEW j \in 0 .. isize - 1
      PROVE  mem[INITRD + j] = bundle[LOAD + META + ksize + j]
  <2>1. /\ INITRD + j \in Addr /\ ~(INITRD + j < LOAD + ksize)
        /\ INITRD <= INITRD + j /\ INITRD + j < INITRD + isize
        /\ (INITRD + j) - INITRD = j
    BY <1>1 DEF Addr
  <2> QED BY <1>1, <2>1 DEF Copied
<1> QED BY <1>2, <1>3 DEF CopyExact

\* For images of any size within the limits, and load addresses as far apart
\* as the largest bundle, the jump is taken with both images copied exactly.
THEOREM CopiesAreExact == Spec => []CopyExact
<1>1. Init => LoaderInv
  BY DEF Init, LoaderInit, LoaderInv
<1>2. LoaderInv /\ [Next]_vars => LoaderInv'
  BY LoaderStepInv
<1>3. LoaderInv => CopyExact
  BY CopyInv
<1> QED BY <1>1, <1>2, <1>3, PTL DEF Spec

-----------------------------------------------------------------------------
(* The turns of the harts *)

\* What the counters need of counting: one more hart makes the count one more,
\* and a set whose count is not above that of a part of it is that part.
Counting ==
    /\ Cardinality({}) = 0 /\ Cardinality({BOOTHART}) = 1
    /\ \A S \in SUBSET Hart :
        /\ Cardinality(S) \in Nat
        /\ \A x \in Hart \ S : Cardinality(S \cup {x}) = Cardinality(S) + 1
        /\ \A T \in SUBSET S : ~(Cardinality(T) < Cardinality(S)) => S = T

\* The invariant holds when the machine starts.
LEMMA HartInit == Counting /\ Init => HartInv
<1> SUFFICES ASSUME Counting, Init PROVE HartInv
  OBVIOUS
<1>1. Started = {BOOTHART} /\ Done = {} /\ Waiting = {}
  BY BootAssumption DEF Init, Started, Done, Waiting
<1>2. Cardinality(Started) = 1 /\ Cardinality(Done) = 0
  BY <1>1, Zenon DEF Counting
<1> QED BY <1>1, <1>2, BootAssumption DEF Init, HartInv

\* Every step keeps it.
LEMMA HartStepInv == Counting /\ HartInv /\ [Next]_vars => HartInv'
<1> SUFFICES ASSUME Counting, HartInv, [Next]_vars PROVE HartInv'
  OBVIOUS
<1>0. MAX_CORES \in Nat \ {0} /\ BOOTHART \in Hart /\ Hart \subseteq Int
  BY BootAssumption DEF Hart
<1>1. CASE UNCHANGED harts
  BY <1>1 DEF harts, counters, HartInv, Started, Done, Waiting
<1>2. CASE Enter
  <2>1. Started' = Started /\ Done' = Done /\ Waiting' = Waiting
    BY <1>0, <1>2 DEF Enter, HartInv, Started, Done, Waiting
  <2> QED BY <1>0, <1>2, <2>1 DEF Enter, counters, HartInv
<1>3. ASSUME NEW ok \in BOOLEAN, StartHart(ok)
      PROVE  HartInv'
  <2>1. CASE target # BOOTHART /\ ok
    <3>1. target \in Hart /\ target # BOOTHART /\ hpc[target] = "off"
      BY <1>0, <1>3, <2>1 DEF StartHart, HartInv, Hart
    <3>2. hpc' = [hpc EXCEPT ![target] = "ticket"] /\ DOMAIN hpc = Hart
      BY <1>3, <2>1 DEF StartHart, HartInv
    <3>3. Started' = Started \cup {target} /\ target \notin Started
      BY <3>1, <3>2 DEF Started
    <3>4. Done' = Done /\ Waiting' = Waiting
      BY <3>1, <3>2 DEF Done, Waiting
    <3>5. started_cores' = Cardinality(Started')
      <4>1. started_cores' = started_cores + 1
        BY <1>3, <2>1 DEF StartHart
      <4>2. Started \in SUBSET Hart
        BY DEF Started
      <4> QED BY <3>1, <3>3, <4>1, <4>2 DEF Counting, HartInv
    <3>6. \A h, g \in Started' \ {BOOTHART} :
            slot'[h] \in 0 .. stack_slot' - 1 /\ (slot'[h] = slot'[g] => h = g)
      <4>1. /\ slot' = [slot EXCEPT ![target] = stack_slot] /\ DOMAIN slot = Hart
            /\ stack_slot' = stack_slot + 1 /\ stack_slot \in Nat
        BY <1>0, <1>3, <2>1 DEF StartHart, HartInv
      <4>2. \A h \in Started \ {BOOTHART} :
              h # target /\ slot'[h] = slot[h] /\ slot[h] \in 0 .. stack_slot - 1
        BY <3>3, <4>1 DEF HartInv
      <4>3. slot'[target] = stack_slot
        BY <3>1, <4>1
      <4> QED BY <3>3, <4>1, <4>2, <4>3 DEF HartInv
    <3> QED BY <1>0, <1>3, <2>1, <3>1, <3>2, <3>3, <3>4, <3>5, <3>6 DEF StartHart, HartInv
  <2>2. CASE ~(target # BOOTHART /\ ok)
    <3>1. Started' = Started /\ Done' = Done /\ Waiting' = Waiting
      BY <1>3, <2>2 DEF StartHart, Started, Done, Waiting
    <3> QED BY <1>0, <1>3, <2>2, <3>1 DEF StartHart, HartInv
  <2> QED BY <2>1, <2>2
<1>4. CASE AllStarted
  <2>1. Started' = Started /\ Done' = Done /\ Waiting' = Waiting
    BY <1>0, <1>4 DEF AllStarted, HartInv, Started, Done, Waiting
  <2> QED BY <1>0, <1>4, <2>1 DEF AllStarted, counters, HartInv
<1>5. CASE EndWait
  <2>1. Started' = Started /\ Done' = Done /\ Waiting' = Waiting
    BY <1>0, <1>5 DEF EndWait, HartInv, Started, Done, Waiting
  <2>2. ~timeout' => Started = Done
    <3>1. Started \in SUBSET Hart /\ Done \in SUBSET Started
      BY DEF Done, Started
    <3>2. timeout' = (greeted_count < started_cores)
      BY <1>5 DEF EndWait
    <3>3. started_cores = Cardinality(Started) /\ greeted_count = Cardinality(Done)
      BY DEF HartInv
    <3>4. ~timeout' => ~(Cardinality(Done) < Cardinality(Started))
      BY <3>2, <3>3, ZenonT(60)
    <3> QED BY <3>1, <3>4, Zenon DEF Counting
  <2> QED BY <1>0, <1>5, <2>1, <2>2 DEF EndWait, counters, HartInv
<1>6. ASSUME NEW h \in Hart, TakeTicket(h)
      PROVE  HartInv'
  <2>1. Started' = Started /\ Done' = Done /\ Waiting' = Waiting \cup {h} /\ h \notin Waiting
    <3>1. hpc' = [hpc EXCEPT ![h] = "spin"] /\ DOMAIN hpc = Hart /\ hpc[h] = "ticket"
      BY <1>6 DEF TakeTicket, HartInv
    <3> QED BY <3>1 DEF Started, Done, Waiting
  <2> QED BY <1>0, <1>6, <2>1 DEF TakeTicket, counters, HartInv
<1>7. ASSUME NEW h \in Hart, Served(h)
      PROVE  HartInv'
  <2>1. Started' = Started /\ Done' = Done /\ Waiting' = Waiting
    BY <1>7 DEF Served, HartInv, Started, Done, Waiting
  <2> QED BY <1>0, <1>7, <2>1 DEF Served, counters, HartInv
<1>8. ASSUME NEW h \in Hart, PassTurn(h)
      PROVE  HartInv'
  <2>1. Started' = Started /\ Done' = Done /\ Waiting' = Waiting \ {h} /\ h \in Waiting
    <3>1. hpc' = [hpc EXCEPT ![h] = "count"] /\ DOMAIN hpc = Hart /\ hpc[h] = "print"
      BY <1>8 DEF PassTurn, HartInv
    <3> QED BY <3>1 DEF Started, Done, Waiting
  <2>2. \A g \in Waiting' : my_ticket[g] \in greet_serving + 1 .. greet_ticket - 1 /\ hpc'[g] # "print"
    BY <1>8, <2>1 DEF PassTurn, HartInv, Waiting
  <2> QED BY <1>0, <1>8, <2>1, <2>2 DEF PassTurn, counters, HartInv, Waiting
<1>9. ASSUME NEW h \in Hart, Count(h)
      PROVE  HartInv'
  <2>1. Started' = Started /\ Done' = Done \cup {h} /\ Waiting' = Waiting /\ h \notin Done
    BY <1>9 DEF Count, HartInv, Started, Done, Waiting
  <2>2. greeted_count' = Cardinality(Done')
    <3>1. greeted_count' = greeted_count + 1 /\ Done \in SUBSET Hart
      BY <1>9 DEF Count, Done
    <3> QED BY <2>1, <3>1 DEF Counting, HartInv
  <2>3. ~(hpc'[BOOTHART] = "shell" /\ ~timeout')
    BY <1>0, <1>9 DEF Count, HartInv, Started, Done
  <2> QED BY <1>0, <1>9, <2>1, <2>2, <2>3 DEF Count, counters, HartInv
<1> QED
  BY <1>1, <1>2, <1>3, <1>4, <1>5, <1>6, <1>7, <1>8, <1>9
  DEF Next, LoaderNext, LoaderStep, KernelStep, HartStep, vars

\* The invariant keeps the harts apart.
LEMMA HartsKept == HartInv => HartsApart
<1>1. HartInv => UartTurns
  BY DEF HartInv, UartTurns, Waiting, Started, Done
<1>2. HartInv => StacksPrivate
  BY BootAssumption DEF HartInv, StacksPrivate, Started
<1> QED BY <1>1, <1>2 DEF HartsApart

-----------------------------------------------------------------------------
(* The checksum.  It is defined by recursion over the units, so the proofs *)
(* rest on the least number of a set.                                      *)
INSTANCE WellFoundedInduction
INSTANCE SequenceTheorems

\* Every set of numbers has a least one.
LEMMA LeastNumber ==
  ASSUME NEW T \in SUBSET Nat, T # {}
  PROVE  \E x \in T : \A y \in T : x <= y
<1>1. PICK x \in T : \A y \in T : ~(<<y, x>> \in OpToRel(<, Nat))
  BY NatLessThanWellFounded, WFMin, Zenon
<1>2. \A y \in T : <<y, x>> \in OpToRel(<, Nat) <=> y < x
  BY DEF OpToRel
<1>3. \A y \in T : x <= y
  <2>1. \A y \in T : ~(y < x)
    BY <1>1, <1>2, Zenon
  <2> QED BY <2>1
<1> QED BY <1>3

\* The sum of two units, less the modulus where it is reached.
LEMMA SumOfUnits ==
  ASSUME NEW x \in Unit, NEW u \in Unit
  PROVE  (x + u) % SUM = IF x + u < SUM THEN x + u ELSE x + u - SUM
BY StreamAssumption DEF Unit

\* It is a unit.
LEMMA SumIsUnit ==
  ASSUME NEW x \in Unit, NEW u \in Unit
  PROVE  (x + u) % SUM \in Unit
BY StreamAssumption DEF Unit

\* So adding to different units, or different units, gives different sums.
LEMMA SumsDiffer ==
  ASSUME NEW x \in Unit, NEW y \in Unit, NEW u \in Unit, NEW v \in Unit,
         (x = y /\ u # v) \/ (x # y /\ u = v)
  PROVE  (x + u) % SUM # (y + v) % SUM
<1> DEFINE a == (x + u) % SUM
           b == (y + v) % SUM
<1>1. /\ a = IF x + u < SUM THEN x + u ELSE x + u - SUM
      /\ b = IF y + v < SUM THEN y + v ELSE y + v - SUM
  BY SumOfUnits
<1> HIDE DEF a, b
<1>2. a # b
  BY <1>1, StreamAssumption DEF Unit
<1> QED BY <1>2, Zenon DEF a, b

\* The checksums of the first units of s, up to n of them.
SumsTo(f, s, n) ==
  f = [k \in 0 .. n |-> IF k = 0 THEN 0 ELSE (f[k - 1] + s[k]) % SUM]

\* There are such checksums for every n.
LEMMA SumsExist ==
  ASSUME NEW s, NEW n \in Nat
  PROVE  \E f : SumsTo(f, s, n)
<1> DEFINE T == {m \in Nat : ~\E f : SumsTo(f, s, m)}
<1> SUFFICES ASSUME T # {} PROVE FALSE
  BY Zenon
<1>1. PICK m \in T : \A y \in T : m <= y
  BY LeastNumber, Zenon
<1>2. m \in Nat /\ ~\E f : SumsTo(f, s, m)
  BY <1>1, Zenon
<1>3. \A y \in Nat : y < m => \E f : SumsTo(f, s, y)
  BY <1>1, <1>2
<1>4. CASE m = 0
  <2> DEFINE g == [k \in 0 .. 0 |-> 0]
  <2>1. g = [k \in 0 .. 0 |-> IF k = 0 THEN 0 ELSE (g[k - 1] + s[k]) % SUM]
    OBVIOUS
  <2> QED BY <1>2, <1>4, <2>1, Zenon DEF SumsTo
<1>5. CASE m # 0
  <2>1. m - 1 \in Nat /\ m - 1 < m
    BY <1>2, <1>5
  <2>2. PICK f : SumsTo(f, s, m - 1)
    BY <1>3, <2>1
  <2>3. \A k \in 0 .. m - 1 : f[k] = IF k = 0 THEN 0 ELSE (f[k - 1] + s[k]) % SUM
    BY <2>2 DEF SumsTo
  <2> DEFINE g == [k \in 0 .. m |-> IF k = 0 THEN 0 ELSE (f[k - 1] + s[k]) % SUM]
  <2>4. \A k \in 0 .. m - 1 : g[k] = f[k]
    BY <1>2, <2>3
  <2>5. \A k \in 0 .. m : k # 0 => g[k - 1] = f[k - 1]
    <3>1. \A k \in 0 .. m : k # 0 => k - 1 \in 0 .. m - 1
      BY <1>2
    <3> HIDE DEF g
    <3> QED BY <2>4, <3>1, Zenon
  <2>6. g = [k \in 0 .. m |-> IF k = 0 THEN 0 ELSE (g[k - 1] + s[k]) % SUM]
    <3> DEFINE h == [k \in 0 .. m |-> IF k = 0 THEN 0 ELSE (g[k - 1] + s[k]) % SUM]
    <3>1. \A k \in 0 .. m : g[k] = h[k]
      <4> SUFFICES ASSUME NEW k \in 0 .. m PROVE g[k] = h[k]
        BY Zenon
      <4>1. g[k] = IF k = 0 THEN 0 ELSE (f[k - 1] + s[k]) % SUM
        BY Zenon
      <4>2. h[k] = IF k = 0 THEN 0 ELSE (g[k - 1] + s[k]) % SUM
        BY Zenon
      <4>3. k # 0 => g[k - 1] = f[k - 1]
        BY <2>5, Zenon
      <4> HIDE DEF g, h
      <4> QED BY <4>1, <4>2, <4>3, Zenon
    <3> QED BY <3>1, ZenonT(60)
  <2> QED BY <1>2, <2>6, Zenon DEF SumsTo
<1> QED BY <1>4, <1>5

\* checksum_bytes adds one unit at a time.
LEMMA ChecksumSteps ==
  ASSUME NEW s \in Seq(Unit)
  PROVE  \E f \in [0 .. Len(s) -> Unit] :
           /\ f[0] = 0 /\ \A k \in 1 .. Len(s) : f[k] = (f[k - 1] + s[k]) % SUM
           /\ checksum_bytes(s) = f[Len(s)]
<1> DEFINE n == Len(s)
           f == CHOOSE f : f = [k \in 0 .. n |-> IF k = 0 THEN 0 ELSE (f[k - 1] + s[k]) % SUM]
<1>1. n \in Nat
  OBVIOUS
<1>2. checksum_bytes(s) = f[n]
  BY Zenon DEF checksum_bytes
<1>3. f = [k \in 0 .. n |-> IF k = 0 THEN 0 ELSE (f[k - 1] + s[k]) % SUM]
  <2>1. PICK g : g = [k \in 0 .. n |-> IF k = 0 THEN 0 ELSE (g[k - 1] + s[k]) % SUM]
    BY <1>1, SumsExist DEF SumsTo
  <2> QED BY <2>1, Zenon
<1>7. \A k \in 1 .. n : s[k] \in Unit
  OBVIOUS
<1> HIDE DEF n, f
<1>4. f[0] = 0 /\ \A k \in 1 .. n : f[k] = (f[k - 1] + s[k]) % SUM
  <2>1. \A k \in 0 .. n : f[k] = IF k = 0 THEN 0 ELSE (f[k - 1] + s[k]) % SUM
    BY <1>3, Zenon
  <2> QED BY <1>1, <2>1
<1> DEFINE T == {k \in Nat : k <= n /\ f[k] \notin Unit}
<1>5. T = {}
  <2> SUFFICES ASSUME T # {} PROVE FALSE
    OBVIOUS
  <2>1. PICK k \in T : \A y \in T : k <= y
    BY LeastNumber, Zenon
  <2>2. k \in Nat /\ k <= n /\ f[k] \notin Unit
    BY <2>1, Zenon
  <2>3. k # 0
    BY <1>4, <2>2, StreamAssumption DEF Unit
  <2>4. k - 1 \in Nat /\ k - 1 <= n /\ ~(k <= k - 1) /\ k \in 1 .. n
    BY <1>1, <2>2, <2>3
  <2>5. f[k - 1] \in Unit
    BY <2>1, <2>4, Zenon
  <2>6. f[k] = (f[k - 1] + s[k]) % SUM /\ s[k] \in Unit
    BY <1>4, <1>7, <2>4, Zenon
  <2>7. (f[k - 1] + s[k]) % SUM \in Unit
    BY <2>5, <2>6, SumIsUnit, Zenon
  <2> QED BY <2>2, <2>6, <2>7, Zenon
<1>6. f \in [0 .. n -> Unit]
  <2>1. \A k \in 0 .. n : f[k] \in Unit
    BY <1>1, <1>5
  <2> QED BY <1>3, <2>1, Zenon
<1> QED BY <1>2, <1>4, <1>6, Zenon DEF n

\* It is a unit.
LEMMA ChecksumIsUnit ==
  ASSUME NEW s \in Seq(Unit)
  PROVE  checksum_bytes(s) \in Unit
<1>1. PICK f \in [0 .. Len(s) -> Unit] : checksum_bytes(s) = f[Len(s)]
  BY ChecksumSteps, Zenon
<1>2. Len(s) \in 0 .. Len(s)
  OBVIOUS
<1> QED BY <1>1, <1>2, Zenon

\* A single changed unit changes the checksum.
LEMMA ChecksumChange ==
  ASSUME NEW s \in Seq(Unit), NEW t \in Seq(Unit), Len(s) = Len(t),
         NEW d \in 1 .. Len(s), s[d] # t[d],
         \A k \in 1 .. Len(s) : k # d => s[k] = t[k]
  PROVE  checksum_bytes(s) # checksum_bytes(t)
<1> DEFINE n == Len(s)
<1>0. /\ n \in Nat /\ d \in Nat /\ 1 <= d /\ d <= n
      /\ \A k \in 1 .. n : s[k] \in Unit /\ t[k] \in Unit /\ (k # d => s[k] = t[k])
  OBVIOUS
<1>1. PICK f \in [0 .. n -> Unit] :
        /\ f[0] = 0 /\ \A k \in 1 .. n : f[k] = (f[k - 1] + s[k]) % SUM
        /\ checksum_bytes(s) = f[n]
  BY ChecksumSteps, Zenon
<1>2. PICK g \in [0 .. n -> Unit] :
        /\ g[0] = 0 /\ \A k \in 1 .. n : g[k] = (g[k - 1] + t[k]) % SUM
        /\ checksum_bytes(t) = g[n]
  BY ChecksumSteps, Zenon
<1> HIDE DEF n
<1> DEFINE T == {k \in Nat : k <= n /\ ~(f[k] = g[k] <=> k < d)}
<1>3. T = {}
  <2> SUFFICES ASSUME T # {} PROVE FALSE
    OBVIOUS
  <2>1. PICK k \in T : \A y \in T : k <= y
    BY LeastNumber, Zenon
  <2>2. k \in Nat /\ k <= n /\ ~(f[k] = g[k] <=> k < d)
    BY <2>1, Zenon
  <2>3. k # 0
    BY <1>0, <1>1, <1>2, <2>2
  <2>4. k - 1 \in Nat /\ k - 1 <= n /\ ~(k <= k - 1) /\ k \in 1 .. n /\ k - 1 \in 0 .. n
    BY <1>0, <2>2, <2>3
  <2>5. f[k - 1] = g[k - 1] <=> k - 1 < d
    BY <2>1, <2>4, Zenon
  <2>6. /\ f[k] = (f[k - 1] + s[k]) % SUM /\ g[k] = (g[k - 1] + t[k]) % SUM
        /\ s[k] \in Unit /\ t[k] \in Unit /\ f[k - 1] \in Unit /\ g[k - 1] \in Unit
    BY <1>0, <1>1, <1>2, <2>4, Zenon
  <2>7. CASE k < d
    <3>1. k - 1 < d /\ k # d
      BY <1>0, <2>2, <2>7
    <3>2. f[k - 1] = g[k - 1] /\ s[k] = t[k]
      BY <1>0, <2>4, <2>5, <3>1, Zenon
    <3> QED BY <2>2, <2>6, <2>7, <3>2, Zenon
  <2>8. CASE k = d
    <3>1. f[k - 1] = g[k - 1] /\ s[k] # t[k] /\ ~(k < d)
      BY <1>0, <2>2, <2>5, <2>8
    <3>2. f[k] # g[k]
      BY <2>6, <3>1, SumsDiffer
    <3> QED BY <2>2, <3>1, <3>2, Zenon
  <2>9. CASE k > d
    <3>1. ~(k - 1 < d) /\ k # d /\ ~(k < d)
      BY <1>0, <2>2, <2>9
    <3>2. f[k - 1] # g[k - 1] /\ s[k] = t[k]
      BY <1>0, <2>4, <2>5, <3>1, Zenon
    <3>3. f[k] # g[k]
      BY <2>6, <3>2, SumsDiffer
    <3> QED BY <2>2, <3>1, <3>3, Zenon
  <2> QED BY <1>0, <2>2, <2>7, <2>8, <2>9
<1>4. f[n] # g[n]
  <2>1. n \in Nat /\ n <= n /\ ~(n < d)
    BY <1>0
  <2> QED BY <1>3, <2>1, Zenon
<1> QED BY <1>1, <1>2, <1>4

-----------------------------------------------------------------------------
(* What is received *)

\* What the line may deliver of the sender's stream when no unit is lost.
Deliveries == {Stream(image)} \cup Changed(Stream(image))

\* p units of delivery W have been read.
Left(W, p) == p \in 0 .. Len(W) /\ wire = SubSeq(W, p + 1, Len(W))

\* The magic word is in the stream once, and no change makes another.
MagicOnce ==
  /\ MAGIC \notin Changes
  /\ \A im \in Images : \A i \in 1 .. Len(Stream(im)) : Stream(im)[i] = MAGIC => i = 4

\* A header that starts with the magic word is that of the delivery being read.
HeaderInv ==
  \E W \in Deliveries : \E p \in 0 .. Len(W) :
    /\ Left(W, p)
    /\ pc = "header" /\ header # <<>> /\ header[1] = MAGIC =>
         p = 3 + Len(header) /\ (Len(header) = 2 => header[2] = W[5])

\* A payload that is being read is that of one delivery, as far as this reaches.
PayloadInv ==
  \E W \in Deliveries :
    /\ header[2] = W[5] /\ header[3] = W[6] /\ header[2] \in 1 .. MAX_BUNDLE
    /\ got \in 0 .. header[2] /\ (got = header[2] <=> pc = "verify")
    /\ \A j \in 0 .. got - 1 : 7 + j <= Len(W) => mem[LOAD + j] = W[7 + j]
    /\ \E V \in Deliveries : \E q \in 0 .. Len(V) :
         Left(V, q) /\ (6 + got < Len(W) => V = W /\ q = 6 + got)

\* A bundle that was accepted is the sender's.
AcceptedInv ==
  LET P == Payload(image)
  IN  /\ ksize = Len(image.kernel) /\ isize = Len(image.initrd)
      /\ \A j \in 1 .. Len(P) : bundle[LOAD + j - 1] = P[j]

SyncInv ==
  /\ image \in Images
  /\ pc \in {"prompt", "header", "payload", "verify", "copy_kernel", "copy_initrd", "kernel"}
  /\ ~lost =>
       /\ pc = "header" => header \in Seq(Unit) /\ Len(header) <= 2
       /\ pc \in {"prompt", "header"} => HeaderInv
       /\ pc \in {"payload", "verify"} => PayloadInv
       /\ pc \in {"copy_kernel", "copy_initrd", "kernel"} => AcceptedInv

\* The layout of what the sender sends: its four fields, then the two images.
LEMMA PayloadLayout ==
  ASSUME NEW im \in Images
  PROVE  LET P == Payload(im)
             K == Len(im.kernel)
             I == Len(im.initrd)
         IN  /\ K \in Nat /\ I \in Nat /\ P \in Seq(Unit) /\ Len(P) = META + K + I
             /\ P[1] = K /\ P[2] = I
             /\ \A j \in 1 .. K : P[META + j] = im.kernel[j]
             /\ \A j \in 1 .. I : P[META + K + j] = im.initrd[j]
<1> DEFINE k == im.kernel
           i == im.initrd
           K == Len(k)
           I == Len(i)
           F == <<K, I, checksum_bytes(k), checksum_bytes(i)>>
           Q == F \o k
           P == Q \o i
<1>1. k \in Seq(Unit) /\ i \in Seq(Unit) /\ Len(Payload(im)) < SUM
  BY StreamAssumption
<1>2. K \in Nat /\ I \in Nat /\ SUM \in Nat
  BY <1>1, StreamAssumption
<1>3. checksum_bytes(k) \in Unit /\ checksum_bytes(i) \in Unit
  BY <1>1, ChecksumIsUnit
<1>4. Payload(im) = P
  BY Zenon DEF Payload
<1>5. F \in Seq(Nat) /\ k \in Seq(Nat) /\ i \in Seq(Nat) /\ Len(F) = 4
  BY <1>1, <1>2, <1>3, SeqMonotonic DEF Unit
<1> HIDE DEF k, i, K, I
<1>6. /\ Q \in Seq(Nat) /\ Len(Q) = 4 + K
      /\ \A j \in 1 .. 4 + K : Q[j] = IF j <= 4 THEN F[j] ELSE k[j - 4]
  BY <1>5, ConcatProperties DEF K
<1> HIDE DEF Q
<1>7. /\ P \in Seq(Nat) /\ Len(P) = 4 + K + I
      /\ \A j \in 1 .. 4 + K + I : P[j] = IF j <= 4 + K THEN Q[j] ELSE i[j - (4 + K)]
  <2>1. /\ P \in Seq(Nat) /\ Len(P) = Len(Q) + Len(i)
        /\ \A j \in 1 .. Len(Q) + Len(i) : P[j] = IF j <= Len(Q) THEN Q[j] ELSE i[j - Len(Q)]
    BY <1>5, <1>6, ConcatProperties, Zenon
  <2> QED BY <1>6, <2>1, Zenon DEF I
<1> HIDE DEF P
<1>8. K \in Unit /\ I \in Unit
  BY <1>1, <1>2, <1>4, <1>7 DEF Unit
<1>9. F \in Seq(Unit)
  BY <1>3, <1>8
<1>10. P \in Seq(Unit)
  <2>1. Q \in Seq(Unit)
    BY <1>1, <1>9, ConcatProperties DEF Q
  <2> QED BY <1>1, <2>1, ConcatProperties DEF P
<1>11. P[1] = K /\ P[2] = I
  BY <1>2, <1>6, <1>7
<1> HIDE DEF F
<1>12. \A j \in 1 .. K : P[4 + j] = k[j]
  <2> SUFFICES ASSUME NEW j \in 1 .. K PROVE P[4 + j] = k[j]
    OBVIOUS
  <2>1. 4 + j \in 1 .. 4 + K /\ 4 + j \in 1 .. 4 + K + I /\ 4 + j <= 4 + K /\ ~(4 + j <= 4) /\ (4 + j) - 4 = j
    BY <1>2
  <2> QED BY <1>6, <1>7, <2>1
<1>13. \A j \in 1 .. I : P[4 + K + j] = i[j]
  <2> SUFFICES ASSUME NEW j \in 1 .. I PROVE P[4 + K + j] = i[j]
    BY Zenon
  <2>1. 4 + K + j \in 1 .. 4 + K + I /\ ~(4 + K + j <= 4 + K) /\ (4 + K + j) - (4 + K) = j
    BY <1>2
  <2> QED BY <1>7, <2>1
<1> QED BY <1>2, <1>4, <1>7, <1>10, <1>11, <1>12, <1>13, Zenon DEF META, k, i, K, I

\* The layout of the stream: the command, the header, the payload.
LEMMA StreamLayout ==
  ASSUME NEW im \in Images
  PROVE  LET S == Stream(im)
             P == Payload(im)
         IN  /\ S \in Seq(Unit) /\ Len(P) \in Nat /\ Len(P) >= 4 /\ Len(S) = 6 + Len(P)
             /\ S[5] = Len(P) /\ S[6] = checksum_bytes(P)
             /\ \A j \in 1 .. Len(P) : S[6 + j] = P[j]
<1> DEFINE P == Payload(im)
           n == Len(P)
           H == <<CR, CMD, CR, MAGIC, n, checksum_bytes(P)>>
           S == H \o P
<1>1. P \in Seq(Unit) /\ n \in Nat /\ n >= 4 /\ n < SUM
  <2> DEFINE K == Len(im.kernel)
             I == Len(im.initrd)
  <2>1. P \in Seq(Unit) /\ K \in Nat /\ I \in Nat /\ n = 4 + K + I
    BY PayloadLayout, Zenon DEF META
  <2>2. n < SUM
    BY StreamAssumption, Zenon
  <2> HIDE DEF P, n, K, I
  <2>3. n \in Nat /\ n >= 4
    BY <2>1
  <2> QED BY <2>1, <2>2, <2>3, Zenon
<1>2. Stream(im) = S
  BY Zenon DEF Stream
<1> HIDE DEF P, n
<1>3. H \in Seq(Unit) /\ Len(H) = 6 /\ H[5] = n /\ H[6] = checksum_bytes(P)
  <2>1. checksum_bytes(P) \in Unit /\ n \in Unit
    BY <1>1, ChecksumIsUnit, StreamAssumption DEF Unit
  <2>2. CR \in Unit /\ CMD \in Unit /\ MAGIC \in Unit
    BY StreamAssumption
  <2> HIDE DEF Unit
  <2> QED BY <2>1, <2>2
<1> HIDE DEF H
<1>4. /\ S \in Seq(Unit) /\ Len(S) = 6 + n
      /\ \A j \in 1 .. 6 + n : S[j] = IF j <= 6 THEN H[j] ELSE P[j - 6]
  <2>1. /\ S \in Seq(Unit) /\ Len(S) = Len(H) + Len(P)
        /\ \A j \in 1 .. Len(H) + Len(P) : S[j] = IF j <= Len(H) THEN H[j] ELSE P[j - Len(H)]
    BY <1>1, <1>3, ConcatProperties, Zenon
  <2> QED BY <1>3, <2>1, Zenon DEF n
<1> HIDE DEF S
<1>5. S[5] = n /\ S[6] = checksum_bytes(P)
  BY <1>1, <1>3, <1>4
<1>6. \A j \in 1 .. n : S[6 + j] = P[j]
  <2> SUFFICES ASSUME NEW j \in 1 .. n PROVE S[6 + j] = P[j]
    OBVIOUS
  <2>1. 6 + j \in 1 .. 6 + n /\ ~(6 + j <= 6) /\ (6 + j) - 6 = j
    BY <1>1
  <2> QED BY <1>4, <2>1
<1> QED BY <1>1, <1>2, <1>4, <1>5, <1>6 DEF P, n

\* A delivery is the stream but for one unit, at d.
LEMMA DeliveryLayout ==
  ASSUME image \in Images, NEW W \in Deliveries
  PROVE  LET S == Stream(image)
         IN  /\ W \in Seq(Unit) /\ Len(W) = Len(S)
             /\ MagicOnce => \A i \in 1 .. Len(W) : W[i] = MAGIC => i = 4
             /\ \/ W = S
                \/ \E d \in 1 .. Len(S) :
                     W[d] # S[d] /\ \A i \in 1 .. Len(S) : i # d => W[i] = S[i]
<1> DEFINE S == Stream(image)
<1>1. S \in Seq(Unit)
  BY StreamLayout
<1>2. MagicOnce => \A i \in 1 .. Len(S) : S[i] = MAGIC => i = 4
  BY DEF MagicOnce
<1>3. CASE W = S
  BY <1>1, <1>2, <1>3
<1>4. CASE W # S
  <2>1. PICK d \in DOMAIN S, u \in Changes : W = [S EXCEPT ![d] = u]
    BY <1>4 DEF Deliveries, Changed
  <2> HIDE DEF S
  <2>2. d \in 1 .. Len(S) /\ u \in Unit
    BY <1>1, <2>1, StreamAssumption
  <2>3. /\ W \in Seq(Unit) /\ Len(W) = Len(S)
        /\ \A i \in 1 .. Len(S) : W[i] = IF i = d THEN u ELSE S[i]
    <3> DEFINE X == [S EXCEPT ![d] = u]
    <3>1. /\ X \in Seq(Unit) /\ Len(X) = Len(S)
          /\ \A i \in 1 .. Len(S) : X[i] = IF i = d THEN u ELSE S[i]
      BY <1>1, <2>2, ExceptSeq
    <3> QED BY <2>1, <3>1, Zenon
  <2>4. W[d] # S[d]
    <3>1. \A i \in 1 .. Len(S) : i # d => W[i] = S[i]
      BY <2>3
    <3>2. W[d] = S[d] => \A i \in 1 .. Len(W) : W[i] = S[i]
      BY <2>3, <3>1
    <3> QED BY <1>1, <1>4, <2>3, <3>2, SeqEqual, Zenon
  <2>5. MagicOnce => u # MAGIC
    BY DEF MagicOnce
  <2> QED BY <1>2, <2>2, <2>3, <2>4, <2>5 DEF S
<1> QED BY <1>3, <1>4

\* What is accepted is what was sent: a changed size does not fit the layout,
\* a changed sum or payload does not fit the sum.
LEMMA AcceptedIsSent ==
  ASSUME image \in Images, NEW W \in Deliveries, NEW m, NEW size \in Nat, size = W[5],
         BundleOk(m, size, W[6]),
         \A j \in 0 .. size - 1 : 7 + j <= Len(W) => m[LOAD + j] = W[7 + j]
  PROVE  LET P == Payload(image)
         IN  /\ size = Len(P) /\ m[LOAD] = Len(image.kernel) /\ m[LOAD + 1] = Len(image.initrd)
             /\ \A j \in 1 .. Len(P) : m[LOAD + j - 1] = P[j]
<1> DEFINE S == Stream(image)
           P == Payload(image)
           n == Len(P)
           K == Len(image.kernel)
           I == Len(image.initrd)
           B == Block(m, LOAD, size)
<1>1. /\ S \in Seq(Unit) /\ n \in Nat /\ n >= 4 /\ Len(S) = 6 + n
      /\ S[5] = n /\ S[6] = checksum_bytes(P)
      /\ \A j \in 1 .. n : S[6 + j] = P[j]
  BY StreamLayout, Zenon
<1>2. P \in Seq(Unit) /\ K \in Nat /\ I \in Nat /\ n = 4 + K + I /\ P[1] = K /\ P[2] = I
  BY PayloadLayout, Zenon DEF META
<1>3. W \in Seq(Unit) /\ Len(W) = 6 + n
  BY <1>1, DeliveryLayout, Zenon
<1>4. \/ W = S
      \/ \E d \in 1 .. 6 + n : W[d] # S[d] /\ \A i \in 1 .. 6 + n : i # d => W[i] = S[i]
  <2>1. \/ W = S
        \/ \E d \in 1 .. Len(S) : W[d] # S[d] /\ \A i \in 1 .. Len(S) : i # d => W[i] = S[i]
    BY DeliveryLayout, Zenon
  <2> HIDE DEF S, n
  <2> QED BY <1>1, <2>1, Zenon
<1>5. size >= 4 /\ 4 + m[LOAD] + m[LOAD + 1] = size /\ checksum_bytes(B) = W[6]
  BY Zenon DEF BundleOk, META
<1>6. B = [j \in 1 .. size |-> m[LOAD + j - 1]]
  BY Zenon DEF Block
<1>0. LOAD \in Nat
  BY LoaderAssumption
<1>7. \A j \in 1 .. size : j <= n => m[LOAD + j - 1] = W[6 + j]
  <2> SUFFICES ASSUME NEW j \in 1 .. size, j <= n PROVE m[LOAD + j - 1] = W[6 + j]
    BY Zenon
  <2> HIDE DEF n
  <2>1. j - 1 \in 0 .. size - 1 /\ 7 + (j - 1) <= Len(W) /\ 7 + (j - 1) = 6 + j
        /\ LOAD + (j - 1) = LOAD + j - 1
    BY <1>0, <1>1, <1>3
  <2> QED BY <2>1, Zenon
<1> HIDE DEF S, P, n, K, I, B
<1>8. CASE \A j \in 5 .. 6 + n : W[j] = S[j]
  <2>1. size = n
    BY <1>1, <1>8
  <2>2. \A j \in 1 .. n : m[LOAD + j - 1] = P[j]
    <3> SUFFICES ASSUME NEW j \in 1 .. n PROVE m[LOAD + j - 1] = P[j]
      BY Zenon
    <3>1. 6 + j \in 5 .. 6 + n /\ j <= n
      BY <1>1
    <3> QED BY <1>1, <1>7, <1>8, <2>1, <3>1, Zenon
  <2>3. LOAD + 1 - 1 = LOAD /\ LOAD + 2 - 1 = LOAD + 1 /\ 1 \in 1 .. n /\ 2 \in 1 .. n
    BY <1>0, <1>1
  <2>4. m[LOAD] = K /\ m[LOAD + 1] = I
    BY <1>2, <2>2, <2>3, Zenon
  <2> QED BY <2>1, <2>2, <2>4, Zenon DEF P, n, K, I
<1>9. ASSUME NEW d \in 5 .. 6 + n, W[d] # S[d],
             \A i \in 1 .. 6 + n : i # d => W[i] = S[i]
      PROVE  FALSE
  <2>1. CASE d = 5
    <3>1. LOAD + 1 - 1 = LOAD /\ LOAD + 2 - 1 = LOAD + 1 /\ 1 \in 1 .. size /\ 2 \in 1 .. size
          /\ 1 \in 1 .. n /\ 2 \in 1 .. n
      BY <1>0, <1>1, <1>5
    <3>2. 6 + 1 \in 1 .. 6 + n /\ 6 + 2 \in 1 .. 6 + n /\ 6 + 1 # 5 /\ 6 + 2 # 5 /\ 1 <= n /\ 2 <= n
      BY <1>1
    <3>3. m[LOAD] = W[6 + 1] /\ m[LOAD + 1] = W[6 + 2]
      BY <1>7, <3>1, <3>2, Zenon
    <3>4. W[6 + 1] = S[6 + 1] /\ W[6 + 2] = S[6 + 2]
      BY <1>9, <2>1, <3>2, Zenon
    <3>5. m[LOAD] = K /\ m[LOAD + 1] = I
      BY <1>1, <1>2, <3>1, <3>3, <3>4, Zenon
    <3>6. size = n
      BY <1>2, <1>5, <3>5
    <3> QED BY <1>1, <1>9, <2>1, <3>6, Zenon
  <2>2. CASE d # 5
    <3>1. size = n
      <4>1. 5 \in 1 .. 6 + n
        BY <1>1
      <4> QED BY <1>1, <1>9, <2>2, <4>1, Zenon
    <3>2. /\ B \in Seq(Unit) /\ Len(B) = n
          /\ \A j \in 1 .. n : B[j] = W[6 + j]
      <4>1. \A j \in 1 .. n : j <= n /\ 6 + j \in 1 .. Len(W)
        BY <1>1, <1>3
      <4>2. \A j \in 1 .. n : B[j] = W[6 + j]
        BY <1>6, <1>7, <3>1, <4>1, Zenon
      <4>3. \A j \in 1 .. n : W[6 + j] \in Unit
        BY <1>3, <4>1, ElementOfSeq, Zenon
      <4>4. B \in [1 .. n -> Unit]
        BY <1>6, <3>1, <4>2, <4>3, Zenon
      <4>5. B \in Seq(Unit) /\ Len(B) = n
        BY <1>1, <4>4
      <4> QED BY <4>2, <4>5
    <3>3. CASE d = 6
      <4>1. \A j \in 1 .. n : B[j] = P[j]
        <5>1. \A j \in 1 .. n : 6 + j \in 1 .. 6 + n /\ 6 + j # 6
          BY <1>1
        <5> QED BY <1>1, <1>9, <3>2, <3>3, <5>1, Zenon
      <4>2. B = P
        BY <1>2, <3>2, <4>1, SeqEqual, Zenon DEF n
      <4> QED BY <1>1, <1>5, <1>9, <3>3, <4>2, Zenon
    <3>4. CASE d # 6
      <4>1. d - 6 \in 1 .. n /\ 6 + (d - 6) = d
        BY <1>1, <2>2, <3>4
      <4>2. B[d - 6] # P[d - 6]
        BY <1>1, <1>9, <3>2, <4>1, Zenon
      <4>3. \A j \in 1 .. n : j # d - 6 => 6 + j \in 1 .. 6 + n /\ 6 + j # d
        BY <1>1
      <4>4. \A j \in 1 .. n : j # d - 6 => B[j] = P[j]
        BY <1>1, <1>9, <3>2, <4>3, Zenon
      <4>5. checksum_bytes(B) # checksum_bytes(P)
        <5>1. Len(B) = Len(P) /\ Len(B) = n
          BY <3>2, Zenon DEF n
        <5>2. d - 6 \in 1 .. Len(B) /\ \A j \in 1 .. Len(B) : j # d - 6 => B[j] = P[j]
          BY <4>1, <4>4, <5>1, Zenon
        <5> QED BY <1>2, <3>2, <4>2, <5>1, <5>2, ChecksumChange, Zenon
      <4>6. W[6] = S[6]
        <5>1. 6 \in 1 .. 6 + n
          BY <1>1
        <5> QED BY <1>9, <3>4, <5>1, Zenon
      <4> QED BY <1>1, <1>5, <4>5, <4>6, Zenon
    <3> QED BY <3>3, <3>4
  <2> QED BY <2>1, <2>2
<1>10. CASE W = S
  BY <1>8, <1>10, Zenon
<1>11. ASSUME NEW d \in 1 .. 6 + n, W[d] # S[d],
              \A i \in 1 .. 6 + n : i # d => W[i] = S[i]
       PROVE  \A j \in 5 .. 6 + n : W[j] = S[j]
  <2>1. CASE d \in 5 .. 6 + n
    BY <1>9, <1>11, <2>1, Zenon
  <2>2. CASE d \notin 5 .. 6 + n
    <3>1. \A j \in 5 .. 6 + n : j \in 1 .. 6 + n /\ j # d
      BY <1>1, <2>2
    <3> QED BY <1>11, <3>1, Zenon
  <2> QED BY <2>1, <2>2
<1> QED BY <1>4, <1>8, <1>10, <1>11, Zenon

\* Taking a unit off the line.
LEMMA TakeUnit ==
  ASSUME NEW W \in Seq(Unit), NEW p \in 0 .. Len(W), Left(W, p), NEW u, uart_recv(u)
  PROVE  p + 1 \in 1 .. Len(W) /\ u = W[p + 1] /\ Left(W, p + 1)'
<1>1. Len(W) \in Nat /\ p \in Nat /\ p <= Len(W)
  OBVIOUS
<1>2. /\ wire = SubSeq(W, p + 1, Len(W)) /\ wire # <<>>
      /\ u = Head(wire) /\ wire' = Tail(wire)
  BY Zenon DEF Left, uart_recv
<1>3. p # Len(W)
  <2> SUFFICES ASSUME p = Len(W) PROVE FALSE
    BY Zenon
  <2>1. Len(W) < p + 1 /\ p + 1 \in Int /\ Len(W) \in Int
    BY <1>1
  <2> QED BY <1>2, <2>1, SubSeqEmpty, Zenon
<1>4. p + 1 \in 1 .. Len(W) /\ Len(W) \in p + 1 .. Len(W) /\ p + 1 \in 0 .. Len(W)
  BY <1>1, <1>3
<1>5. Head(wire) = W[p + 1] /\ Tail(wire) = SubSeq(W, (p + 1) + 1, Len(W))
  BY <1>2, <1>4, HeadTailOfSubSeq, Zenon
<1> QED BY <1>2, <1>4, <1>5, Zenon DEF Left

\* An empty line: the delivery has been read to its end.
LEMMA AllRead ==
  ASSUME NEW W \in Seq(Unit), NEW p \in 0 .. Len(W), Left(W, p), wire = <<>>
  PROVE  p = Len(W)
<1> SUFFICES ASSUME p # Len(W) PROVE FALSE
  BY Zenon
<1>1. Len(W) \in Nat /\ p + 1 \in 1 .. Len(W) /\ p + 1 \in Int /\ Len(W) \in Int /\ p + 1 <= Len(W)
      /\ \A i \in p + 1 .. Len(W) : W[i] \in Unit
  OBVIOUS
<1>2. Len(SubSeq(W, p + 1, Len(W))) = Len(W) - (p + 1) + 1
  BY <1>1, SubSeqProperties, Zenon
<1>3. SubSeq(W, p + 1, Len(W)) = <<>>
  BY Zenon DEF Left
<1>4. Len(W) - (p + 1) + 1 = 0
  BY <1>2, <1>3, EmptySeq, Zenon
<1> QED BY <1>1, <1>4

\* A delivery that was not read yet.
LEMMA NothingRead ==
  ASSUME NEW W \in Seq(Unit), wire' = W
  PROVE  0 \in 0 .. Len(W) /\ Left(W, 0)'
<1>1. 0 \in 0 .. Len(W) /\ 0 + 1 = 1
  OBVIOUS
<1>2. SubSeq(W, 0 + 1, Len(W)) = W
  BY <1>1, SubSeqFull, Zenon
<1> QED BY <1>1, <1>2, Zenon DEF Left

\* Nothing was read when the machine starts.
LEMMA SyncInit == Init => SyncInv
<1> SUFFICES ASSUME Init PROVE SyncInv
  OBVIOUS
<1>1. image \in Images /\ wire = <<>> /\ pc = "prompt"
  BY DEF Init, LoaderInit
<1> DEFINE S == Stream(image)
<1>2. S \in Seq(Unit) /\ S \in Deliveries
  BY <1>1, StreamLayout DEF Deliveries
<1> HIDE DEF S
<1>3. Len(S) \in 0 .. Len(S) /\ Len(S) < Len(S) + 1 /\ Len(S) + 1 \in Int /\ Len(S) \in Int
  BY <1>2
<1>4. Left(S, Len(S))
  BY <1>1, <1>3, SubSeqEmpty, Zenon DEF Left
<1>5. HeaderInv
  BY <1>1, <1>2, <1>3, <1>4 DEF HeaderInv
<1> QED BY <1>1, <1>5 DEF SyncInv

\* A new delivery comes when the last one has been read: a header is then read
\* no further, and a payload beyond the end of its delivery.
LEMMA SyncSend ==
  ASSUME SyncInv, Send
  PROVE  SyncInv'
<1>1. /\ image \in Images /\ wire = <<>> /\ pc # "kernel"
      /\ UNCHANGED <<image, pc, line, header, mem, got, ksize, isize, bundle>>
  BY DEF SyncInv, Send
<1>2. CASE lost'
  BY <1>1, <1>2 DEF SyncInv
<1>3. CASE ~lost'
  <2>1. wire' \in Deliveries /\ ~lost
    BY <1>3 DEF Send, Deliveries
  <2>2. Deliveries' = Deliveries
    BY <1>1 DEF Deliveries, Changed, Stream, Payload
  <2>0. PICK X \in Deliveries : wire' = X
    BY <2>1, Zenon
  <2>3. X \in Seq(Unit) /\ 0 \in 0 .. Len(X) /\ Left(X, 0)'
    <3>1. X \in Seq(Unit)
      BY <1>1, DeliveryLayout, Zenon
    <3> QED BY <2>0, <3>1, NothingRead, Zenon
  <2>4. \A W \in Deliveries : W \in Seq(Unit) /\ Len(W) \in Nat /\ Len(W) >= 10
    <3> SUFFICES ASSUME NEW W \in Deliveries PROVE W \in Seq(Unit) /\ Len(W) \in Nat /\ Len(W) >= 10
      OBVIOUS
    <3> DEFINE n == Len(Payload(image))
    <3>1. W \in Seq(Unit) /\ Len(W) = 6 + n /\ n \in Nat /\ n >= 4
      BY <1>1, DeliveryLayout, StreamLayout, Zenon
    <3> HIDE DEF n
    <3> QED BY <3>1
  <2>5. CASE pc \in {"prompt", "header"}
    <3>1. ~(pc = "header" /\ header # <<>> /\ header[1] = MAGIC)
      <4> SUFFICES ASSUME pc = "header", header # <<>>, header[1] = MAGIC PROVE FALSE
        BY Zenon
      <4>0. PICK W \in Deliveries :
              \E p \in 0 .. Len(W) : Left(W, p) /\ p = 3 + Len(header)
        BY <2>1, <2>5, Zenon DEF SyncInv, HeaderInv
      <4>1. PICK p \in 0 .. Len(W) : Left(W, p) /\ p = 3 + Len(header)
        BY <4>0, Zenon
      <4>2. p = Len(W)
        BY <1>1, <2>4, <4>1, AllRead, Zenon
      <4>3. Len(header) \in Nat /\ Len(header) <= 2
        BY <2>1 DEF SyncInv
      <4> QED BY <2>4, <4>1, <4>2, <4>3
    <3>2. HeaderInv'
      <4>1. ~(pc' = "header" /\ header' # <<>> /\ header'[1] = MAGIC)
        BY <1>1, <3>1, Zenon
      <4> QED BY <2>0, <2>2, <2>3, <4>1, Zenon DEF HeaderInv
    <3> QED BY <1>1, <1>3, <2>1, <2>5, <3>2 DEF SyncInv
  <2>6. CASE pc \in {"payload", "verify"}
    <3>1. PICK W \in Deliveries :
            /\ header[2] = W[5] /\ header[3] = W[6] /\ header[2] \in 1 .. MAX_BUNDLE
            /\ got \in 0 .. header[2] /\ (got = header[2] <=> pc = "verify")
            /\ \A j \in 0 .. got - 1 : 7 + j <= Len(W) => mem[LOAD + j] = W[7 + j]
            /\ \E V \in Deliveries : \E q \in 0 .. Len(V) :
                 Left(V, q) /\ (6 + got < Len(W) => V = W /\ q = 6 + got)
      BY <2>1, <2>6, Zenon DEF SyncInv, PayloadInv
    <3>2. ~(6 + got < Len(W))
      <4> SUFFICES ASSUME 6 + got < Len(W) PROVE FALSE
        BY Zenon
      <4>1. 6 + got \in 0 .. Len(W) /\ Left(W, 6 + got)
        BY <3>1, Zenon
      <4>2. 6 + got = Len(W)
        BY <1>1, <2>4, <4>1, AllRead, Zenon
      <4> QED BY <2>4, <4>2
    <3>3. PayloadInv'
      <4>1. \E V \in Deliveries : \E q \in 0 .. Len(V) :
              Left(V, q)' /\ (6 + got < Len(W) => V = W /\ q = 6 + got)
        BY <2>0, <2>3, <3>2, Zenon
      <4> QED BY <1>1, <2>2, <3>1, <4>1, Zenon DEF PayloadInv
    <3> QED BY <1>1, <1>3, <2>6, <3>3 DEF SyncInv
  <2>7. CASE pc \in {"copy_kernel", "copy_initrd", "kernel"}
    BY <1>1, <2>1, <2>7, Zenon DEF SyncInv, AcceptedInv, Payload
  <2> QED BY <2>5, <2>6, <2>7 DEF SyncInv
<1> QED BY <1>2, <1>3

\* A unit of a line is read.
LEMMA SyncReadLine ==
  ASSUME SyncInv, ReadLine
  PROVE  SyncInv'
<1>1. /\ image \in Images /\ pc = "prompt" /\ uart_recv(Head(wire))
      /\ UNCHANGED <<image, lost>>
      /\ \/ pc' = "prompt"
         \/ pc' = "header" /\ header' = <<>>
  BY DEF SyncInv, ReadLine, Prompt, sender
<1>2. Deliveries' = Deliveries
  BY <1>1 DEF Deliveries, Changed, Stream, Payload
<1>3. ASSUME ~lost PROVE HeaderInv'
  <2>0. PICK W \in Deliveries : \E p \in 0 .. Len(W) : Left(W, p)
    BY <1>1, <1>3, Zenon DEF SyncInv, HeaderInv
  <2>1. PICK p \in 0 .. Len(W) : Left(W, p)
    BY <2>0, Zenon
  <2>2. W \in Seq(Unit)
    BY <1>1, DeliveryLayout
  <2>3. p + 1 \in 0 .. Len(W) /\ Left(W, p + 1)'
    BY <1>1, <2>1, <2>2, TakeUnit
  <2> QED BY <1>1, <1>2, <2>3, Zenon DEF HeaderInv
<1>4. <<>> \in Seq(Unit) /\ Len(<<>>) = 0
  OBVIOUS
<1>5. pc' = "header" => header' \in Seq(Unit) /\ Len(header') <= 2
  BY <1>1, <1>4
<1> QED BY <1>1, <1>3, <1>5 DEF SyncInv

\* A unit of the header is read: the magic word is the fourth of its delivery.
LEMMA SyncReadHeader ==
  ASSUME MagicOnce, SyncInv, ReadHeader
  PROVE  SyncInv'
<1> DEFINE u == Head(wire)
<1>1. image \in Images /\ pc = "header" /\ uart_recv(u) /\ UNCHANGED <<image, lost>>
  BY DEF SyncInv, ReadHeader, sender
<1>2. Deliveries' = Deliveries
  BY <1>1 DEF Deliveries, Changed, Stream, Payload
<1>3. CASE lost
  BY <1>1, <1>3 DEF SyncInv, ReadHeader, Prompt
<1>4. CASE ~lost
  <2>1. header \in Seq(Unit) /\ Len(header) \in Nat /\ Len(header) <= 2
    BY <1>1, <1>4 DEF SyncInv
  <2>0. PICK W \in Deliveries : \E p \in 0 .. Len(W) :
          /\ Left(W, p)
          /\ header # <<>> /\ header[1] = MAGIC =>
               p = 3 + Len(header) /\ (Len(header) = 2 => header[2] = W[5])
    BY <1>1, <1>4, Zenon DEF SyncInv, HeaderInv
  <2>2. PICK p \in 0 .. Len(W) :
          /\ Left(W, p)
          /\ header # <<>> /\ header[1] = MAGIC =>
               p = 3 + Len(header) /\ (Len(header) = 2 => header[2] = W[5])
    BY <2>0, Zenon
  <2>3. W \in Seq(Unit) /\ \A i \in 1 .. Len(W) : W[i] = MAGIC => i = 4
    BY <1>1, DeliveryLayout
  <2>4. p + 1 \in 1 .. Len(W) /\ u = W[p + 1] /\ Left(W, p + 1)'
    BY <1>1, <2>2, <2>3, TakeUnit
  <2>5. u \in Unit /\ p + 1 \in 0 .. Len(W)
    BY <2>3, <2>4
  <2> HIDE DEF u
  <2> DEFINE H == Append(header, u)
  <2>6. /\ H \in Seq(Unit) /\ Len(H) = Len(header) + 1 /\ H[Len(header) + 1] = u
        /\ \A i \in 1 .. Len(header) : H[i] = header[i]
    BY <2>1, <2>5, AppendProperties
  <2> HIDE DEF H
  <2>7. CASE Len(header) < 2
    <3>1. header' = H /\ pc' = "header"
      BY <1>1, <2>7 DEF ReadHeader, u, H
    <3>2. ASSUME H[1] = MAGIC
          PROVE  p + 1 = 3 + Len(H) /\ (Len(H) = 2 => H[2] = W[5])
      <4>1. CASE Len(header) = 0
        <5>1. u = MAGIC
          BY <2>6, <3>2, <4>1
        <5>2. p + 1 = 4
          BY <2>3, <2>4, <5>1, Zenon
        <5>3. Len(H) = 1
          BY <2>6, <4>1
        <5> QED BY <5>2, <5>3
      <4>2. CASE Len(header) = 1
        <5>0. header # <<>> /\ 1 \in 1 .. Len(header)
          BY <2>1, <4>2, EmptySeq
        <5>1. header # <<>> /\ header[1] = MAGIC
          BY <2>6, <3>2, <5>0, Zenon
        <5>2. p = 4
          BY <2>2, <4>2, <5>1
        <5> QED BY <2>4, <2>6, <4>2, <5>2
      <4>3. Len(header) = 0 \/ Len(header) = 1
        <5>1. \A l \in Nat : l < 2 => l = 0 \/ l = 1
          OBVIOUS
        <5> QED BY <2>1, <2>7, <5>1, Zenon
      <4> QED BY <4>1, <4>2, <4>3, Zenon
    <3>3. HeaderInv'
      BY <1>2, <2>4, <2>5, <3>1, <3>2, Zenon DEF HeaderInv
    <3>4. Len(H) <= 2
      BY <2>1, <2>6, <2>7
    <3> QED BY <1>1, <2>6, <3>1, <3>3, <3>4, SMTT(30) DEF SyncInv
  <2>8. CASE Len(header) = 2 /\ (header[1] # MAGIC \/ header[2] \notin 1 .. MAX_BUNDLE)
    <3>1. pc' = "prompt"
      BY <1>1, <2>8 DEF ReadHeader, Prompt
    <3>2. HeaderInv'
      BY <1>2, <2>4, <2>5, <3>1, Zenon DEF HeaderInv
    <3> QED BY <1>1, <3>1, <3>2 DEF SyncInv
  <2>9. CASE Len(header) = 2 /\ header[1] = MAGIC /\ header[2] \in 1 .. MAX_BUNDLE
    <3>1. pc' = "payload" /\ header' = H /\ got' = 0
      BY <1>1, <2>9 DEF ReadHeader, u, H
    <3>2. header # <<>>
      BY <2>1, <2>9
    <3>3. p = 5 /\ header[2] = W[5]
      BY <2>2, <2>9, <3>2
    <3>4. H[2] = W[5] /\ H[3] = W[6] /\ H[2] \in 1 .. MAX_BUNDLE
      BY <2>4, <2>6, <2>9, <3>3
    <3>5. /\ got' \in 0 .. header'[2] /\ got' # header'[2]
          /\ 0 .. got' - 1 = {} /\ p + 1 = 6 + got'
      BY <3>1, <3>3, <3>4
    <3>6. PayloadInv'
      <4>1. Left(W, p + 1)' /\ p + 1 \in 0 .. Len(W)
        BY <2>4, <2>5
      <4>2. pc' # "verify"
        BY <3>1
      <4> QED BY <1>2, <3>1, <3>4, <3>5, <4>1, <4>2, Zenon DEF PayloadInv
    <3> QED BY <1>1, <3>1, <3>6 DEF SyncInv
  <2>10. Len(header) < 2 \/ Len(header) = 2
    <3>1. \A l \in Nat : l <= 2 => l < 2 \/ l = 2
      OBVIOUS
    <3> QED BY <2>1, <3>1, Zenon
  <2> QED BY <2>7, <2>8, <2>9, <2>10, Zenon
<1> QED BY <1>3, <1>4

\* A unit of the payload is stored.
LEMMA SyncReadPayload ==
  ASSUME LoaderInv, SyncInv, ReadPayload
  PROVE  SyncInv'
<1> DEFINE u == Head(wire)
<1>1. /\ image \in Images /\ pc = "payload" /\ uart_recv(u)
      /\ UNCHANGED <<image, lost, header>>
      /\ mem' = [mem EXCEPT ![LOAD + got] = u] /\ got' = got + 1
      /\ pc' = IF got + 1 = header[2] THEN "verify" ELSE pc
  BY DEF SyncInv, ReadPayload, sender
<1>2. Deliveries' = Deliveries
  BY <1>1 DEF Deliveries, Changed, Stream, Payload
<1>3. CASE lost
  BY <1>1, <1>3 DEF SyncInv
<1>4. CASE ~lost
  <2> DEFINE size == header[2]
  <2>1. PICK W \in Deliveries :
          /\ header[2] = W[5] /\ header[3] = W[6] /\ size \in 1 .. MAX_BUNDLE
          /\ got \in 0 .. size /\ (got = size <=> pc = "verify")
          /\ \A j \in 0 .. got - 1 : 7 + j <= Len(W) => mem[LOAD + j] = W[7 + j]
          /\ \E V \in Deliveries : \E q \in 0 .. Len(V) :
               Left(V, q) /\ (6 + got < Len(W) => V = W /\ q = 6 + got)
    BY <1>1, <1>4, Zenon DEF SyncInv, PayloadInv
  <2>0. PICK V \in Deliveries : \E q \in 0 .. Len(V) :
          Left(V, q) /\ (6 + got < Len(W) => V = W /\ q = 6 + got)
    BY <2>1, Zenon
  <2>2. PICK q \in 0 .. Len(V) :
          Left(V, q) /\ (6 + got < Len(W) => V = W /\ q = 6 + got)
    BY <2>0, Zenon
  <2>3. V \in Seq(Unit) /\ W \in Seq(Unit) /\ Len(W) \in Nat
    BY <1>1, DeliveryLayout
  <2>4. q + 1 \in 1 .. Len(V) /\ u = V[q + 1] /\ Left(V, q + 1)'
    BY <1>1, <2>2, <2>3, TakeUnit
  <2>5. MAX_BUNDLE \in Nat /\ LOAD \in Nat /\ INITRD \in Nat /\ LOAD + MAX_BUNDLE <= INITRD
        /\ MAX_INITRD \in Nat
    BY LoaderAssumption DEF MAX_BUNDLE, META
  <2> HIDE DEF u
  <2>6. got \in Nat /\ size \in Nat /\ got < size /\ size <= MAX_BUNDLE
    BY <1>1, <2>1, <2>5, SMTT(30)
  <2> HIDE DEF size
  <2>7. ASSUME NEW j \in 0 .. got, 7 + j <= Len(W)
        PROVE  mem'[LOAD + j] = W[7 + j]
    <3>1. LOAD + j \in Addr /\ DOMAIN mem = Addr
      BY <2>5, <2>6 DEF Addr, LoaderInv
    <3>2. CASE j = got
      <4>1. 6 + got < Len(W) /\ 7 + got = (6 + got) + 1
        BY <2>3, <2>6, <2>7, <3>2
      <4>2. u = W[7 + got]
        BY <2>2, <2>4, <4>1, Zenon
      <4> QED BY <1>1, <3>1, <3>2, <4>2, Zenon DEF u
    <3>3. CASE j # got
      <4>1. j \in 0 .. got - 1 /\ LOAD + j # LOAD + got
        BY <2>5, <2>6, <3>3
      <4>2. mem'[LOAD + j] = mem[LOAD + j]
        BY <1>1, <3>1, <4>1
      <4> QED BY <2>1, <2>7, <4>1, <4>2, Zenon
    <3> QED BY <3>2, <3>3
  <2>8. \A j \in 0 .. got' - 1 : 7 + j <= Len(W) => mem'[LOAD + j] = W[7 + j]
    <3>1. 0 .. got' - 1 = 0 .. got
      BY <1>1, <2>6
    <3> QED BY <2>7, <3>1, Zenon
  <2>9. got' \in 0 .. size /\ (got' = size <=> pc' = "verify")
    BY <1>1, <2>6 DEF size
  <2>10. /\ q + 1 \in 0 .. Len(V)
         /\ 6 + got' < Len(W) => V = W /\ q + 1 = 6 + got'
    <3>1. 6 + got' < Len(W) => 6 + got < Len(W)
      BY <1>1, <2>3, <2>6
    <3> QED BY <1>1, <2>2, <2>3, <2>4, <2>6, <3>1, SMTT(30)
  <2>11. PayloadInv'
    <3>1. header' = header
      BY <1>1
    <3> QED BY <1>2, <2>1, <2>4, <2>8, <2>9, <2>10, <3>1, ZenonT(60) DEF PayloadInv, size
  <2>12. pc' \in {"payload", "verify"}
    BY <1>1
  <2> QED BY <1>1, <2>11, <2>12 DEF SyncInv
<1> QED BY <1>3, <1>4

\* The bundle is accepted, or the loader returns to its prompt.
LEMMA SyncVerify ==
  ASSUME SyncInv, Verify
  PROVE  SyncInv'
<1>1. image \in Images /\ pc = "verify" /\ UNCHANGED <<image, lost, wire, mem>>
  BY DEF SyncInv, Verify, sender
<1>2. Deliveries' = Deliveries
  BY <1>1 DEF Deliveries, Changed, Stream, Payload
<1>3. CASE lost
  BY <1>1, <1>3 DEF SyncInv, Verify, Prompt
<1>4. CASE ~lost
  <2>1. PICK W \in Deliveries :
          /\ header[2] = W[5] /\ header[3] = W[6] /\ header[2] \in 1 .. MAX_BUNDLE
          /\ got = header[2]
          /\ \A j \in 0 .. got - 1 : 7 + j <= Len(W) => mem[LOAD + j] = W[7 + j]
          /\ \E V \in Deliveries : \E q \in 0 .. Len(V) : Left(V, q)
    BY <1>1, <1>4, Zenon DEF SyncInv, PayloadInv
  <2>2. CASE BundleOk(mem, header[2], header[3])
    <3>1. pc' = "copy_kernel" /\ ksize' = mem[LOAD] /\ isize' = mem[LOAD + 1] /\ bundle' = mem
      BY <1>1, <2>2 DEF Verify
    <3>2. got \in Nat /\ got = W[5] /\ BundleOk(mem, got, W[6])
      <4>1. \A x \in 1 .. MAX_BUNDLE : x \in Nat
        BY LoaderAssumption DEF MAX_BUNDLE, META
      <4> QED BY <2>1, <2>2, <4>1, Zenon
    <3>3. LET P == Payload(image)
          IN  /\ mem[LOAD] = Len(image.kernel) /\ mem[LOAD + 1] = Len(image.initrd)
              /\ \A j \in 1 .. Len(P) : mem[LOAD + j - 1] = P[j]
      BY <1>1, <2>1, <3>2, AcceptedIsSent, ZenonT(60)
    <3>4. AcceptedInv'
      BY <1>1, <3>1, <3>3, Zenon DEF AcceptedInv, Payload
    <3> QED BY <1>1, <3>1, <3>4 DEF SyncInv
  <2>3. CASE ~BundleOk(mem, header[2], header[3])
    <3>1. pc' = "prompt"
      BY <1>1, <2>3 DEF Verify, Prompt
    <3>2. HeaderInv'
      <4>1. \A V, q : Left(V, q)' <=> Left(V, q)
        BY <1>1, Zenon DEF Left
      <4>2. pc' # "header"
        BY <3>1
      <4> QED BY <1>2, <2>1, <4>1, <4>2, Zenon DEF HeaderInv
    <3> QED BY <1>1, <3>1, <3>2 DEF SyncInv
  <2> QED BY <2>2, <2>3
<1> QED BY <1>3, <1>4

\* Every step keeps SyncInv, when the magic word occurs once in every stream.
LEMMA SyncStep == MagicOnce /\ LoaderInv /\ SyncInv /\ [Next]_vars => SyncInv'
<1> SUFFICES ASSUME MagicOnce, LoaderInv, SyncInv, [Next]_vars PROVE SyncInv'
  OBVIOUS
<1>1. CASE UNCHANGED loader
  <2>1. UNCHANGED <<image, lost, wire, pc, header, mem, got, ksize, isize, bundle>>
    BY <1>1 DEF loader
  <2>2. /\ Deliveries' = Deliveries /\ Payload(image)' = Payload(image)
        /\ \A W, p : Left(W, p)' <=> Left(W, p)
    <3>1. Deliveries' = Deliveries /\ Payload(image)' = Payload(image)
      BY <2>1 DEF Deliveries, Changed, Stream, Payload
    <3>2. \A W, p : Left(W, p)' <=> Left(W, p)
      BY <2>1, Zenon DEF Left
    <3> QED BY <3>1, <3>2, Zenon
  <2>3. HeaderInv => HeaderInv'
    BY <2>1, <2>2, Zenon DEF HeaderInv
  <2>4. PayloadInv => PayloadInv'
    BY <2>1, <2>2, Zenon DEF PayloadInv
  <2>5. AcceptedInv => AcceptedInv'
    BY <2>1, <2>2, Zenon DEF AcceptedInv
  <2> QED BY <2>1, <2>3, <2>4, <2>5 DEF SyncInv
<1>2. CASE CopyKernel \/ CopyInitrd
  <2>1. /\ pc \in {"copy_kernel", "copy_initrd"} /\ pc' \in {"copy_kernel", "copy_initrd", "kernel"}
        /\ UNCHANGED <<image, lost, ksize, isize, bundle>>
    BY <1>2 DEF CopyKernel, CopyInitrd, sender
  <2>2. ~lost => AcceptedInv'
    BY <2>1, ZenonT(60) DEF SyncInv, AcceptedInv, Payload
  <2> QED BY <2>1, <2>2 DEF SyncInv
<1>3. CASE KernelStep \/ \E h \in Hart : HartStep(h)
  BY <1>1, <1>3 DEF KernelStep, HartStep, Enter, StartHart, AllStarted, EndWait,
     TakeTicket, Served, PassTurn, Count
<1> QED
  BY <1>1, <1>2, <1>3, SyncSend, SyncReadLine, SyncReadHeader, SyncReadPayload, SyncVerify
  DEF Next, LoaderNext, LoaderStep, vars

\* For any images and any number of faulty deliveries that lose no unit, the
\* kernel that load jumps to and its initrd are the sender's, provided that the
\* magic word occurs in no other place of the stream and no fault makes it: an
\* image that holds a whole load stream could otherwise be taken for one.
THEOREM LoadsExactly == MagicOnce => (Spec => []LoadedExactly)
<1> SUFFICES ASSUME MagicOnce PROVE Spec => []LoadedExactly
  OBVIOUS
<1>1. Init => LoaderInv /\ SyncInv
  <2>1. Init => LoaderInv
    BY DEF Init, LoaderInit, LoaderInv
  <2> QED BY <2>1, SyncInit, SMTT(30)
<1>2. LoaderInv /\ SyncInv /\ [Next]_vars => LoaderInv' /\ SyncInv'
  BY LoaderStepInv, SyncStep
<1>3. LoaderInv /\ SyncInv => LoadedExactly
  <2> SUFFICES ASSUME LoaderInv, SyncInv, pc = "kernel", ~lost PROVE LoadedExactly
    BY DEF LoadedExactly
  <2> DEFINE P == Payload(image)
             k == image.kernel
             i == image.initrd
             K == Len(k)
             I == Len(i)
  <2>1. /\ K \in Nat /\ I \in Nat /\ Len(P) = 4 + K + I
        /\ \A j \in 1 .. K : P[4 + j] = k[j]
        /\ \A j \in 1 .. I : P[4 + K + j] = i[j]
        /\ k \in [1 .. K -> Unit] /\ i \in [1 .. I -> Unit]
    <3>1. image \in Images
      BY DEF SyncInv
    <3>2. k \in Seq(Unit) /\ i \in Seq(Unit)
      BY <3>1, StreamAssumption
    <3>3. k \in [1 .. K -> Unit] /\ i \in [1 .. I -> Unit]
      BY <3>2, LenProperties, Zenon
    <3> QED BY <3>1, <3>3, PayloadLayout, Zenon DEF META
  <2>2. ksize = K /\ isize = I /\ \A j \in 1 .. Len(P) : bundle[LOAD + j - 1] = P[j]
    BY DEF SyncInv, AcceptedInv
  <2>3. /\ \A j \in 0 .. ksize - 1 : mem[LOAD + j] = bundle[LOAD + 4 + j]
        /\ \A j \in 0 .. isize - 1 : mem[INITRD + j] = bundle[LOAD + 4 + ksize + j]
    BY CopyInv, Zenon DEF CopyExact, META
  <2>4. LOAD \in Nat /\ INITRD \in Nat
    BY LoaderAssumption
  <2> HIDE DEF P, k, i, K, I
  <2>5. ASSUME NEW j \in 1 .. K PROVE mem[LOAD + j - 1] = k[j]
    <3>1. /\ j - 1 \in 0 .. ksize - 1 /\ 4 + j \in 1 .. Len(P)
          /\ LOAD + (j - 1) = LOAD + j - 1 /\ LOAD + 4 + (j - 1) = LOAD + (4 + j) - 1
      BY <2>1, <2>2, <2>4
    <3>2. mem[LOAD + (j - 1)] = bundle[LOAD + 4 + (j - 1)]
      BY <2>3, <3>1, Zenon
    <3>3. bundle[LOAD + (4 + j) - 1] = P[4 + j] /\ P[4 + j] = k[j]
      BY <2>1, <2>2, <3>1, Zenon
    <3> QED BY <3>1, <3>2, <3>3, Zenon
  <2>6. ASSUME NEW j \in 1 .. I PROVE mem[INITRD + j - 1] = i[j]
    <3>1. /\ j - 1 \in 0 .. isize - 1 /\ 4 + K + j \in 1 .. Len(P)
          /\ INITRD + (j - 1) = INITRD + j - 1 /\ LOAD + 4 + K + (j - 1) = LOAD + (4 + K + j) - 1
      BY <2>1, <2>2, <2>4
    <3>2. mem[INITRD + (j - 1)] = bundle[LOAD + 4 + ksize + (j - 1)]
      BY <2>3, <3>1, Zenon
    <3>3. bundle[LOAD + (4 + K + j) - 1] = P[4 + K + j] /\ P[4 + K + j] = i[j]
      BY <2>1, <2>2, <3>1, Zenon
    <3> QED BY <2>2, <3>1, <3>2, <3>3, Zenon
  <2>7. Block(mem, LOAD, ksize) = k /\ Block(mem, INITRD, isize) = i
    BY <2>1, <2>2, <2>5, <2>6, Zenon DEF Block
  <2> QED BY <2>2, <2>7, ZenonT(60) DEF LoadedExactly, k, i, K, I
<1> QED BY <1>1, <1>2, <1>3, PTL DEF Spec

-----------------------------------------------------------------------------
(* The counts of the harts *)
INSTANCE FiniteSetTheorems

\* There are finitely many harts, so the counters count finite sets.
LEMMA FiniteHarts == ASSUME NEW S \in SUBSET Hart
                     PROVE  IsFiniteSet(S) /\ Cardinality(S) \in Nat
<1>1. IsFiniteSet(Hart)
  BY BootAssumption, FS_Interval DEF Hart
<1>2. IsFiniteSet(S)
  BY <1>1, FS_Subset
<1> QED BY <1>2, FS_CardinalityType

\* One more hart in a set of harts makes its count one more.
LEMMA AddHart == ASSUME NEW S \in SUBSET Hart, NEW x \in Hart, x \notin S
                 PROVE  Cardinality(S \cup {x}) = Cardinality(S) + 1
BY FiniteHarts, FS_AddElement

\* A set of harts whose count is not above that of a part of it is that part.
LEMMA SameCount == ASSUME NEW S \in SUBSET Hart, NEW T \in SUBSET S,
                          ~(Cardinality(T) < Cardinality(S))
                   PROVE  S = T
<1>1. IsFiniteSet(S) /\ Cardinality(S) \in Nat /\ Cardinality(T) \in Nat
  BY FiniteHarts
<1>2. Cardinality(T) <= Cardinality(S) /\ (Cardinality(S) = Cardinality(T) => S = T)
  BY <1>1, FS_Subset, SMTT(30)
<1> QED BY <1>1, <1>2

\* So counting is what the steps take it to be.
LEMMA HartsCounted == Counting
<1>1. Cardinality({}) = 0 /\ Cardinality({BOOTHART}) = 1
  BY FS_EmptySet, FS_Singleton, Zenon
<1> QED BY <1>1, FiniteHarts, AddHart, SameCount DEF Counting

\* HartInv holds in every reachable state.
THEOREM HartInvariance == Spec => []HartInv
<1>1. HartInv /\ [Next]_vars => HartInv'
  BY HartsCounted, HartStepInv
<1>2. Init => HartInv
  BY HartsCounted, HartInit
<1> QED BY <1>1, <1>2, PTL DEF Spec

\* For any number of harts, greet_once serialises the UART, the wait of
\* kernel_main covers every hart that was started, and every started hart has
\* a stack of its own.
THEOREM HartsStayApart == Spec => []HartsApart
BY HartInvariance, HartsKept, PTL
=============================================================================
