---------------------------- MODULE ButtonsDriver ----------------------------
(***************************************************************************)
(* The buttons driver (buttonmodule.c) and the processes that open its     *)
(* device: the main process and test programs.  A press raises an          *)
(* interrupt; the handler drops it if it comes less than Debounce ticks    *)
(* after the last one it took, of either button, and otherwise sends a     *)
(* signal to the task that opened the device last.  Both pins belong to    *)
(* one bank of the GPIO controller, so one handler runs at a time, but     *)
(* open and close run on other CPUs meanwhile and share task and the two   *)
(* siginfo with it without a lock.                                         *)
(*                                                                         *)
(* The signals are real-time signals: they kill a process that has not     *)
(* installed a handler.  main opens the device first and installs its      *)
(* handlers after that; the test program does it the other way round.      *)
(***************************************************************************)
EXTENDS Integers

CONSTANTS
  Process,      \* who may open the device
  Early,        \* those that open it before they install their handlers
  Debounce,     \* 20 in the code
  JiffiesMod,   \* bound: jiffies and old_jiffie are unsigned long
  NoTask        \* a NULL task

ASSUME ButtonsAssumption ==
  /\ JiffiesMod \in Nat /\ Debounce \in 1..JiffiesMod - 1
  /\ Early \subseteq Process /\ NoTask \notin Process

VARIABLES
  loaded,       \* is the module in the kernel?
  registered,   \* has request_irq succeeded?
  task,         \* the pointer task
  jiffies,      \* the kernel's clock
  oldJiffie,    \* old_jiffie
  irq,          \* where the interrupt handler is
  opening,      \* where each process is in button_open
  ready,        \* the siginfo that are set up, not zero
  hasDevice,    \* processes that have the device open
  installed,    \* processes that have installed their signal handlers
  killed,       \* processes killed by a signal, the device not yet closed
  since,        \* history: ticks since the last press taken, JiffiesMod at most
  edge,         \* history: was the last press taken, after how many ticks?
  shared,       \* history: have two processes had the device open together?
  closed        \* history: was the device closed while the handler ran?

OpenPC == {"out", "clearPro", "setPro", "clearBuzz", "setBuzz", "irq"}
InUse  == hasDevice \cup {p \in Process : opening[p] # "out"}

driver == <<loaded, registered, task, opening, ready>>
clock == <<jiffies, oldJiffie, since>>
processes == <<hasDevice, installed, killed>>
vars == <<driver, clock, irq, processes, edge, shared, closed>>

Init ==
  /\ loaded = TRUE /\ registered = FALSE /\ task = NoTask
  /\ jiffies \in 0..JiffiesMod - 1 /\ oldJiffie = 0
  /\ irq = "idle"
  /\ opening = [p \in Process |-> "out"] /\ ready = {}
  /\ hasDevice = {} /\ installed = {} /\ killed = {}
  /\ since = JiffiesMod
  /\ edge = [taken |-> TRUE, after |-> since]
  /\ shared = FALSE /\ closed = FALSE

-----------------------------------------------------------------------------
(***************************************************************************)
(* The interrupt handlers                                                  *)
(***************************************************************************)
(* Mutant of Bouncing: it compares with a deadline, which may have wrapped.*)
BouncingBeforeDeadline == jiffies < oldJiffie + Debounce

Bouncing == (jiffies - oldJiffie) % JiffiesMod < Debounce

Press ==
  /\ irq = "idle" /\ registered
  /\ irq' = IF Bouncing THEN "idle" ELSE "stamp"
  /\ edge' = [taken |-> ~Bouncing, after |-> since]
  /\ closed' = FALSE
  /\ UNCHANGED <<driver, clock, processes, shared>>

(* jiffies is read again: a tick may have passed since the test.           *)
Stamp ==
  /\ irq = "stamp" /\ irq' = "test"
  /\ oldJiffie' = jiffies /\ since' = 0
  /\ UNCHANGED <<driver, jiffies, processes, edge, shared, closed>>

(* Mutant of TestTask: the pointer is not tested.                          *)
TestNothing ==
  /\ irq = "test" /\ irq' = "send"
  /\ UNCHANGED <<driver, clock, processes, edge, shared, closed>>

TestTask ==
  /\ irq = "test" /\ irq' = IF task = NoTask THEN "idle" ELSE "send"
  /\ UNCHANGED <<driver, clock, processes, edge, shared, closed>>

(* task is read again: NULL here stops the kernel.                         *)
SendSignal ==
  /\ irq = "send" /\ irq' = IF task = NoTask THEN "oops" ELSE "idle"
  /\ killed' = killed \cup ({task} \ (installed \cup {NoTask}))
  /\ UNCHANGED <<driver, clock, hasDevice, installed, edge, shared, closed>>

IRQHandler == Press \/ Stamp \/ TestTask \/ SendSignal

(***************************************************************************)
(* open and release, in the process's own context                          *)
(***************************************************************************)
(* A press is sent to the process that opens from here on.  An open that   *)
(* is not the first may meet the handler at each of its steps.             *)
ButtonOpen(p) ==
  /\ loaded /\ p \notin hasDevice /\ opening[p] = "out"
  /\ (p \in Early) <=> (p \notin installed)
  /\ task' = p
  /\ opening' = [opening EXCEPT ![p] = "clearPro"]
  /\ shared' = (shared \/ InUse # {})
  /\ UNCHANGED <<loaded, registered, ready, clock, irq, processes, edge, closed>>

OpenStep(p, here, there) ==
  /\ opening[p] = here /\ opening' = [opening EXCEPT ![p] = there]
  /\ UNCHANGED <<loaded, task, clock, irq, installed, killed, edge, shared,
                 closed>>

(* The memset of each siginfo, which may be in use.                        *)
ClearInfo(p) ==
  /\ \/ OpenStep(p, "clearPro", "setPro") /\ ready' = ready \ {"pro"}
     \/ OpenStep(p, "clearBuzz", "setBuzz") /\ ready' = ready \ {"buzz"}
  /\ UNCHANGED <<registered, hasDevice>>

(* Its si_signo and si_code.                                               *)
SetInfo(p) ==
  /\ \/ OpenStep(p, "setPro", "clearBuzz") /\ ready' = ready \cup {"pro"}
     \/ OpenStep(p, "setBuzz", "irq") /\ ready' = ready \cup {"buzz"}
  /\ UNCHANGED <<registered, hasDevice>>

(* Only the first request_irq of each interrupt succeeds, close frees none,*)
(* and open returns 0 whether it did or not.                               *)
RequestIrq(p) ==
  /\ OpenStep(p, "irq", "out")
  /\ registered' = TRUE
  /\ hasDevice' = hasDevice \cup {p}
  /\ UNCHANGED ready

(* Mutant of ButtonClose: the pointer stays.                               *)
ButtonCloseKeepsTask(p) ==
  /\ p \in hasDevice
  /\ hasDevice' = hasDevice \ {p}
  /\ installed' = installed \ {p} /\ killed' = killed \ {p}
  /\ closed' = TRUE
  /\ UNCHANGED <<driver, clock, irq, edge>>
  /\ shared' = (shared /\ InUse' # {})

(* A process closes the device as it ends, and whoever opened it last,     *)
(* task becomes NULL.                                                      *)
ButtonClose(p) ==
  /\ p \in hasDevice
  /\ task' = NoTask
  /\ hasDevice' = hasDevice \ {p}
  /\ installed' = installed \ {p} /\ killed' = killed \ {p}
  /\ closed' = TRUE
  /\ UNCHANGED <<loaded, registered, opening, ready, clock, irq, edge>>
  /\ shared' = (shared /\ InUse' # {})

InstallHandlers(p) ==
  /\ p \notin killed /\ opening[p] = "out"
  /\ (p \in Early) <=> (p \in hasDevice)
  /\ installed' = installed \cup {p}
  /\ UNCHANGED <<driver, clock, irq, hasDevice, killed, edge, shared, closed>>

(***************************************************************************)
(* insmod and rmmod, and the clock                                         *)
(***************************************************************************)
ButtonModuleInit ==
  /\ ~loaded
  /\ loaded' = TRUE /\ oldJiffie' = 0 /\ ready' = {}
  /\ UNCHANGED <<registered, task, opening, jiffies, since, irq, processes,
                 edge, shared, closed>>

(* The module is not removed while its device is in use, from the start of *)
(* open on; free_irq waits for the handler to end.                         *)
ButtonModuleExit ==
  /\ loaded /\ InUse = {} /\ irq = "idle"
  /\ loaded' = FALSE /\ registered' = FALSE
  /\ since' = JiffiesMod
  /\ UNCHANGED <<task, opening, ready, jiffies, oldJiffie, irq, processes,
                 edge, shared, closed>>

Tick ==
  /\ jiffies' = (jiffies + 1) % JiffiesMod
  /\ since' = IF since = JiffiesMod THEN since ELSE since + 1
  /\ UNCHANGED <<driver, oldJiffie, irq, processes, edge, shared, closed>>

Next ==
  /\ irq # "oops"
  /\ \/ IRQHandler \/ Tick
     \/ \E p \in Process :
          \/ ButtonOpen(p) \/ ClearInfo(p) \/ SetInfo(p) \/ RequestIrq(p)
          \/ ButtonClose(p) \/ InstallHandlers(p)
     \/ ButtonModuleInit \/ ButtonModuleExit
Spec == Init /\ [][Next]_vars

-----------------------------------------------------------------------------
(***************************************************************************)
(* Properties                                                              *)
(***************************************************************************)
(* A press is taken if Debounce ticks have passed since the last one taken,*)
(* and dropped if not, although the clock wraps; only when it has gone     *)
(* round, or none was taken yet, may a press be dropped for no reason      *)
(* (old_jiffie starts at 0).                                                *)
DebouncesExactly ==
  /\ edge.taken => edge.after >= Debounce
  /\ ~edge.taken => edge.after < Debounce \/ edge.after = JiffiesMod

(* A siginfo that the handlers may send is set up, unless a process that   *)
(* opens the device again has cleared it and is about to set it.           *)
InfoSetUp ==
  registered =>
    /\ "pro" \notin ready => \E p \in Process : opening[p] = "setPro"
    /\ "buzz" \notin ready => \E p \in Process : opening[p] = "setBuzz"

(* Presses are signalled to a process that has the device open or is in    *)
(* open; to nobody while one has it only if it once shared it with another,*)
(* whose close cleared task; only a process that opens the device before it*)
(* installs its handlers, as main does, can be killed by one; and what is  *)
(* sent is set up.                                                         *)
SignalsWhoExpectsThem ==
  /\ task # NoTask => task \in InUse
  /\ task = NoTask => InUse = {} \/ shared
  /\ killed \subseteq Early
  /\ InfoSetUp

(* The kernel stops on a NULL task only if the device was closed while the *)
(* handler ran.                                                            *)
OopsOnlyByClose == irq = "oops" => closed
=============================================================================
