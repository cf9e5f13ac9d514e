-------------------------------- MODULE Boot --------------------------------
(***************************************************************************)
(* From power-on to the kernel's shell: the bootloader of Loader, then     *)
(* kernel_main of kernel/src/kernel.c, which starts the other harts, greets*)
(* in turn with them and waits a bounded time for the last.                *)
(***************************************************************************)
EXTENDS Loader, FiniteSets

CONSTANTS MAX_CORES, BOOTHART

Hart == 0 .. MAX_CORES - 1

ASSUME BootAssumption == MAX_CORES \in Nat \ {0} /\ BOOTHART \in Hart

VARIABLES
  target,                     \* target_hart
  stack_slot, slot,           \* next free stack; the one each hart was given
  started_cores, greet_ticket, greet_serving, greeted_count,
  hpc, my_ticket,             \* of each hart
  timeout                     \* ghost: the wait for the greetings ended early

counters == <<target, stack_slot, slot, started_cores>>
harts == <<counters, greet_ticket, greet_serving, greeted_count, hpc, my_ticket, timeout>>
vars == <<loader, harts>>

-----------------------------------------------------------------------------
\* _start and kernel_main on the boot hart, once the bootloader has jumped, with
\* a device tree that platform_init accepts.  No other hart comes here: the
\* loader jumps on one hart, the rest are started in secondary_main.
Enter ==
  /\ pc = "kernel" /\ hpc[BOOTHART] = "off"
  /\ hpc' = [hpc EXCEPT ![BOOTHART] = "start"]
  /\ UNCHANGED <<loader, counters, greet_ticket, greet_serving, greeted_count, my_ticket, timeout>>

\* Every started hart is given the same stack slot.
StartHart_NoSlot(ok) ==
  /\ hpc[BOOTHART] = "start" /\ target < MAX_CORES
  /\ target' = target + 1
  /\ IF target # BOOTHART /\ ok
     THEN /\ hpc' = [hpc EXCEPT ![target] = "ticket"]
          /\ slot' = [slot EXCEPT ![target] = stack_slot]
          /\ started_cores' = started_cores + 1
          /\ UNCHANGED stack_slot
     ELSE UNCHANGED <<hpc, slot, started_cores, stack_slot>>
  /\ UNCHANGED <<loader, greet_ticket, greet_serving, greeted_count, my_ticket, timeout>>

\* An iteration of the loop; sbi_hart_start succeeds or not.
StartHart(ok) ==
  /\ hpc[BOOTHART] = "start" /\ target < MAX_CORES /\ stack_slot < MAX_CORES - 1
  /\ target' = target + 1
  /\ IF target # BOOTHART /\ ok
     THEN /\ hpc' = [hpc EXCEPT ![target] = "ticket"]
          /\ slot' = [slot EXCEPT ![target] = stack_slot]
          /\ started_cores' = started_cores + 1
          /\ stack_slot' = stack_slot + 1
     ELSE UNCHANGED <<hpc, slot, started_cores, stack_slot>>
  /\ UNCHANGED <<loader, greet_ticket, greet_serving, greeted_count, my_ticket, timeout>>

AllStarted ==
  /\ hpc[BOOTHART] = "start"
  /\ target = MAX_CORES \/ stack_slot = MAX_CORES - 1
  /\ hpc' = [hpc EXCEPT ![BOOTHART] = "ticket"]
  /\ UNCHANGED <<loader, counters, greet_ticket, greet_serving, greeted_count, my_ticket, timeout>>

\* greet_once: take a ticket, spin until served, greet, pass the turn, count.
TakeTicket(h) ==
  /\ hpc[h] = "ticket"
  /\ my_ticket' = [my_ticket EXCEPT ![h] = greet_ticket]
  /\ greet_ticket' = greet_ticket + 1
  /\ hpc' = [hpc EXCEPT ![h] = "spin"]
  /\ UNCHANGED <<loader, counters, greet_serving, greeted_count, timeout>>

Served_NoWait(h) ==
  /\ hpc[h] = "spin" /\ greet_serving <= my_ticket[h]
  /\ hpc' = [hpc EXCEPT ![h] = "print"]
  /\ UNCHANGED <<loader, counters, greet_ticket, greet_serving, greeted_count, my_ticket, timeout>>

Served(h) ==
  /\ hpc[h] = "spin" /\ greet_serving = my_ticket[h]
  /\ hpc' = [hpc EXCEPT ![h] = "print"]
  /\ UNCHANGED <<loader, counters, greet_ticket, greet_serving, greeted_count, my_ticket, timeout>>

PassTurn(h) ==
  /\ hpc[h] = "print"
  /\ greet_serving' = greet_serving + 1
  /\ hpc' = [hpc EXCEPT ![h] = "count"]
  /\ UNCHANGED <<loader, counters, greet_ticket, greeted_count, my_ticket, timeout>>

\* The boot hart goes on to wait, the others stop for good.
Count(h) ==
  /\ hpc[h] = "count"
  /\ greeted_count' = greeted_count + 1
  /\ hpc' = [hpc EXCEPT ![h] = IF h = BOOTHART THEN "wait" ELSE "idle"]
  /\ UNCHANGED <<loader, counters, greet_ticket, greet_serving, my_ticket, timeout>>

\* The wait ends when all have greeted, or when its count runs out; what
\* follows, the shell included, uses the UART.
EndWait ==
  /\ hpc[BOOTHART] = "wait"
  /\ timeout' = (greeted_count < started_cores)
  /\ hpc' = [hpc EXCEPT ![BOOTHART] = "shell"]
  /\ UNCHANGED <<loader, counters, greet_ticket, greet_serving, greeted_count, my_ticket>>

HartStep(h) == TakeTicket(h) \/ Served(h) \/ PassTurn(h) \/ Count(h)
KernelStep == Enter \/ (\E ok \in BOOLEAN : StartHart(ok)) \/ AllStarted \/ EndWait

-----------------------------------------------------------------------------
Init ==
  /\ LoaderInit
  /\ target = 0 /\ stack_slot = 0 /\ started_cores = 1
  /\ slot = [h \in Hart |-> -1]
  /\ greet_ticket = 0 /\ greet_serving = 0 /\ greeted_count = 0
  /\ hpc = [h \in Hart |-> "off"] /\ my_ticket = [h \in Hart |-> -1]
  /\ timeout = FALSE

Next ==
  \/ LoaderNext /\ UNCHANGED harts
  \/ KernelStep
  \/ \E h \in Hart : HartStep(h)
  \/ hpc[BOOTHART] = "shell" /\ UNCHANGED vars

\* The sender is run again until the kernel runs; every hart makes progress.
Fairness ==
  /\ WF_vars(Send /\ UNCHANGED harts) /\ WF_vars(LoaderStep /\ UNCHANGED harts)
  /\ WF_vars(KernelStep) /\ \A h \in Hart : WF_vars(HartStep(h))

Spec == Init /\ [][Next]_vars
FairSpec == Spec /\ Fairness

-----------------------------------------------------------------------------
(* Properties *)

\* Harts greet one at a time, and unless the wait timed out the boot hart
\* writes to the UART again only when every greeting is over, however late a
\* hart arrives.
UartTurns ==
  \A h, g \in Hart :
    hpc[h] = "print" /\ h # g =>
      /\ hpc[g] # "print"
      /\ ~timeout => hpc[g] # "shell"

\* No two started harts share a stack, and none is beyond the array, whichever
\* calls of sbi_hart_start failed.
StacksPrivate ==
  \A h, g \in Hart \ {BOOTHART} :
    hpc[h] # "off" =>
      /\ slot[h] \in 0 .. MAX_CORES - 2
      /\ hpc[g] # "off" /\ slot[h] = slot[g] => h = g

\* Harts share neither the UART nor a stack (greet_once, kernel_main).
HartsApart == UartTurns /\ StacksPrivate

\* Once the line is sound, sending again boots the kernel: no remainder of an
\* earlier attempt and no wrong size field blocks the loader for good, and
\* neither a missing hart nor a late one keeps the boot hart from its shell.
ShellReached == <>(hpc[BOOTHART] = "shell")

Done == {h \in Hart : hpc[h] \in {"idle", "wait", "shell"}}
Started == {h \in Hart : h = BOOTHART \/ hpc[h] # "off"}
Waiting == {h \in Hart : hpc[h] \in {"spin", "print"}}

\* What the two rest on, inductive: tickets in use are distinct and not yet
\* passed, the counters count, and harts are started in order.
HartInv ==
  /\ hpc \in [Hart -> {"off", "start", "ticket", "spin", "print", "count", "idle", "wait", "shell"}]
  /\ my_ticket \in [Hart -> Int] /\ slot \in [Hart -> Int]
  /\ target \in 0 .. MAX_CORES /\ stack_slot \in 0 .. MAX_CORES - 1
  /\ greet_ticket \in Nat /\ greet_serving \in 0 .. greet_ticket
  /\ \A h \in Waiting : my_ticket[h] \in greet_serving .. greet_ticket - 1
  /\ \A h, g \in Waiting : my_ticket[h] = my_ticket[g] => h = g
  /\ \A h \in Hart : hpc[h] = "print" => my_ticket[h] = greet_serving
  /\ \A h \in Hart : /\ hpc[h] \in {"start", "wait", "shell"} => h = BOOTHART
                     /\ h # BOOTHART /\ h >= target => hpc[h] = "off"
                     /\ hpc[h] = "idle" => h # BOOTHART
  /\ \A h, g \in Started \ {BOOTHART} :
       slot[h] \in 0 .. stack_slot - 1 /\ (slot[h] = slot[g] => h = g)
  /\ started_cores = Cardinality(Started) /\ greeted_count = Cardinality(Done)
  /\ hpc[BOOTHART] = "off" => target = 0
  /\ hpc[BOOTHART] = "shell" /\ ~timeout => Started = Done
=============================================================================
