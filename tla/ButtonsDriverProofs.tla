-------------------------- MODULE ButtonsDriverProofs --------------------------
(***************************************************************************)
(* Proofs about ButtonsDriver for any processes, any debounce time and any *)
(* width of jiffies.  TaskInv relates task to the processes, DebounceInv   *)
(* the two stamps to the time that has passed; both are inductive, and the *)
(* properties of the runs follow from them.                                *)
(***************************************************************************)
EXTENDS ButtonsDriver, TLAPS

M == JiffiesMod

(***************************************************************************)
(* The strengthened invariants                                             *)
(***************************************************************************)
(* Where a process is in open when it is about to set b up, and after.     *)
Setting(b) == IF b = "pro" THEN "setPro" ELSE "setBuzz"
After(b) == IF b = "pro" THEN {"clearBuzz", "setBuzz", "irq"} ELSE {"irq"}

SetUpPast(b) ==
  (registered \/ \E p \in Process : opening[p] \in After(b))
    => b \in ready \/ \E p \in Process : opening[p] = Setting(b)

(* Who has the device open, or is in open, is ready for a signal or one of *)
(* Early; two have it only if shared remembers it; the handler that has    *)
(* tested task finds it NULL only after a close; and a process in open has *)
(* set up what it has passed, or another has cleared it since and will set *)
(* it: SetUpPast says so of each siginfo.                                  *)
TaskInv ==
  /\ hasDevice \subseteq Process /\ installed \subseteq Process
  /\ shared \in BOOLEAN /\ closed \in BOOLEAN
  /\ irq \in {"idle", "stamp", "test", "send", "oops"}
  /\ SignalsWhoExpectsThem
  /\ opening \in [Process -> OpenPC]
  /\ \A p \in hasDevice : opening[p] = "out"
  /\ InUse \subseteq Early \cup installed
  /\ ~shared => \A p, q \in InUse : p = q
  /\ ~loaded => InUse = {} /\ ~registered
  /\ SetUpPast("pro") /\ SetUpPast("buzz")
  /\ (irq = "send" /\ task = NoTask) => closed
  /\ OopsOnlyByClose

(* Until the clock has gone round, the difference of the stamps is the     *)
(* time since the last press taken; an unloaded driver has taken none.     *)
DebounceInv ==
  /\ jiffies \in 0..M - 1 /\ oldJiffie \in 0..M - 1
  /\ since \in 0..M
  /\ since < M => (jiffies - oldJiffie) % M = since
  /\ ~loaded => since = M /\ irq = "idle"
  /\ edge.taken \in BOOLEAN
  /\ DebouncesExactly

-----------------------------------------------------------------------------
(* TaskInv holds initially.                                                *)
LEMMA TaskInit == Init => TaskInv
BY DEF Init, TaskInv, SignalsWhoExpectsThem, OopsOnlyByClose, InfoSetUp, InUse,
       SetUpPast, Setting, After, OpenPC

(* The steps of open after the first leave the process in open, or with    *)
(* the device; one that clears a siginfo is the one that will set it.      *)
LEMMA OpenKeeps ==
  ASSUME TaskInv, NEW p \in Process,
         ClearInfo(p) \/ SetInfo(p) \/ RequestIrq(p)
  PROVE  TaskInv'
<1> USE DEF TaskInv, SignalsWhoExpectsThem, OopsOnlyByClose, InfoSetUp,
            OpenPC, OpenStep, clock
<1>1. PICK here, there \in OpenPC : OpenStep(p, here, there) /\ here # "out"
  BY DEF ClearInfo, SetInfo, RequestIrq
<1>2. /\ opening' = [opening EXCEPT ![p] = there] /\ opening[p] = here
      /\ opening'[p] = there /\ opening' \in [Process -> OpenPC]
      /\ \A q \in Process \ {p} : opening'[q] = opening[q]
  BY <1>1
<1>3. there = "out" <=> RequestIrq(p)
  BY <1>2 DEF ClearInfo, SetInfo, RequestIrq
<1>4. hasDevice' = IF there = "out" THEN hasDevice \cup {p} ELSE hasDevice
  BY <1>3 DEF ClearInfo, SetInfo, RequestIrq
<1>5. InUse' = InUse
  BY <1>1, <1>2, <1>4 DEF InUse
<1>6. \A q \in hasDevice' : opening'[q] = "out"
  BY <1>1, <1>2, <1>4
<1>7. SetUpPast("pro")' /\ SetUpPast("buzz")'
  <2> USE DEF SetUpPast, Setting, After
  <2>1. CASE ClearInfo(p)
    BY <1>2, <2>1 DEF ClearInfo
  <2>2. CASE SetInfo(p)
    BY <1>2, <2>2 DEF SetInfo
  <2>3. CASE RequestIrq(p)
    BY <1>2, <2>3 DEF RequestIrq
  <2> QED BY <2>1, <2>2, <2>3
<1>8. InfoSetUp'
  BY <1>7 DEF SetUpPast, Setting
<1>9. UNCHANGED <<loaded, task, irq, installed, killed, shared, closed>>
  BY <1>1
<1>10. loaded
  BY <1>1, <1>2 DEF InUse
<1> QED BY <1>2, <1>4, <1>5, <1>6, <1>7, <1>8, <1>9, <1>10

(* Every action preserves TaskInv.                                         *)
LEMMA TaskNext == TaskInv /\ [Next]_vars => TaskInv'
<1> SUFFICES ASSUME TaskInv, [Next]_vars PROVE TaskInv'
  OBVIOUS
<1> USE DEF TaskInv, SignalsWhoExpectsThem, OopsOnlyByClose, InfoSetUp, InUse,
            SetUpPast, Setting, After, OpenPC, driver, clock, processes
<1>1. CASE Press
  BY <1>1 DEF Press
<1>2. CASE Stamp
  BY <1>2 DEF Stamp
<1>3. CASE TestTask
  BY <1>3 DEF TestTask
<1>4. CASE SendSignal
  <2>1. task # NoTask => task \in Early \cup installed
    OBVIOUS
  <2>2. killed' \subseteq Early
    BY <1>4, <2>1 DEF SendSignal
  <2> QED BY <1>4, <2>2 DEF SendSignal
<1>5. ASSUME NEW p \in Process, ButtonOpen(p) PROVE TaskInv'
  <2> USE DEF ButtonOpen
  <2>1. p # NoTask
    BY ButtonsAssumption
  <2>2. InUse' = InUse \cup {p} /\ opening' \in [Process -> OpenPC]
    BY <1>5
  <2>3. (InUse \subseteq Early \cup installed)'
    BY <1>5, <2>2
  <2>4. (~shared => \A q, r \in InUse : q = r)'
    BY <1>5, <2>2
  <2>5. \A q \in Process \ {p} : opening'[q] = opening[q]
    BY <1>5
  <2>6. opening[p] = "out" /\ opening'[p] = "clearPro"
    BY <1>5
  <2>7. SetUpPast("pro")' /\ SetUpPast("buzz")'
    BY <1>5, <2>5, <2>6
  <2>8. InfoSetUp'
    BY <2>7
  <2>9. \A q \in hasDevice' : opening'[q] = "out"
    BY <1>5, <2>5
  <2> QED BY <1>5, <2>1, <2>2, <2>3, <2>4, <2>7, <2>8, <2>9
<1>6. ASSUME NEW p \in Process, ClearInfo(p) \/ SetInfo(p) \/ RequestIrq(p)
      PROVE  TaskInv'
  BY <1>6, OpenKeeps
<1>7. ASSUME NEW p \in Process, ButtonClose(p) PROVE TaskInv'
  <2> USE DEF ButtonClose
  (* Another process that still has the device shared it with p.           *)
  <2>1. InUse' = InUse \ {p} /\ p \in InUse
    BY <1>7
  <2>2. InUse' # {} => shared
    BY <1>7, <2>1
  <2>3. SignalsWhoExpectsThem'
    BY <1>7, <2>1, <2>2
  <2>4. (InUse \subseteq Early \cup installed)'
    BY <1>7, <2>1
  <2>5. (~shared => \A q, r \in InUse : q = r)'
    BY <1>7, <2>1
  <2> QED BY <1>7, <2>3, <2>4, <2>5
<1>8. ASSUME NEW p \in Process, InstallHandlers(p) PROVE TaskInv'
  BY <1>8 DEF InstallHandlers
<1>9. CASE ButtonModuleInit
  BY <1>9 DEF ButtonModuleInit
<1>10. CASE ButtonModuleExit
  BY <1>10 DEF ButtonModuleExit
<1>11. CASE Tick
  BY <1>11 DEF Tick
<1>12. CASE UNCHANGED vars
  BY <1>12 DEF vars
<1> QED BY <1>1, <1>2, <1>3, <1>4, <1>5, <1>6, <1>7, <1>8, <1>9, <1>10, <1>11,
           <1>12
        DEF Next, IRQHandler

(* Presses go to a process that has the device open and, except for those  *)
(* of Early, is ready for them.                                            *)
THEOREM SignalsExpected == Spec => []SignalsWhoExpectsThem
<1>1. TaskInv => SignalsWhoExpectsThem
  BY DEF TaskInv
<1> QED BY <1>1, TaskInit, TaskNext, PTL DEF Spec

(* A NULL task stops the kernel only if a close ran beside the handler.    *)
THEOREM OopsNeedsClose == Spec => []OopsOnlyByClose
<1>1. TaskInv => OopsOnlyByClose
  BY DEF TaskInv
<1> QED BY <1>1, TaskInit, TaskNext, PTL DEF Spec

-----------------------------------------------------------------------------
(* Quotient and remainder are determined by the equation they satisfy.     *)
LEMMA Remainder ==
  ASSUME NEW n \in Nat \ {0}, NEW q \in Int, NEW r \in 0..n - 1,
         NEW x \in Int, x = n * q + r
  PROVE  x % n = r
  OBVIOUS

(* On a circle of n the way from o to j is forwards.                       *)
LEMMA Difference ==
  ASSUME NEW n \in Nat \ {0}, NEW j \in 0..n - 1, NEW o \in 0..n - 1
  PROVE  (j - o) % n = IF j >= o THEN j - o ELSE j - o + n
<1>1. CASE j >= o
  <2>1. j - o = n * 0 + (j - o) /\ j - o \in 0..n - 1 /\ j - o \in Int
    BY <1>1
  <2>2. (j - o) % n = j - o
    BY ONLY <2>1, Remainder, n \in Nat \ {0}, 0 \in Int
  <2> QED BY <1>1, <2>2
<1>2. CASE j < o
  <2>1. j - o = n * (-1) + (j - o + n) /\ j - o + n \in 0..n - 1 /\ j - o \in Int
    BY <1>2
  <2>2. (j - o) % n = j - o + n
    BY <2>1, Remainder
  <2> QED BY <1>2, <2>2
<1> QED BY <1>1, <1>2

(* The clock stays on the circle.                                          *)
LEMMA NextTick ==
  ASSUME NEW n \in Nat \ {0}, NEW j \in 0..n - 1
  PROVE  (j + 1) % n = IF j + 1 = n THEN 0 ELSE j + 1
<1>1. CASE j + 1 = n
  <2>1. j + 1 = n * 1 + 0 /\ 0 \in 0..n - 1
    BY <1>1
  <2>2. (j + 1) % n = 0
    BY <2>1, Remainder
  <2> QED BY <1>1, <2>2
<1>2. CASE j + 1 # n
  <2>1. j + 1 = n * 0 + (j + 1) /\ j + 1 \in 0..n - 1
    BY <1>2
  <2>2. (j + 1) % n = j + 1
    BY <2>1, Remainder
  <2> QED BY <1>2, <2>2
<1> QED BY <1>1, <1>2

(* DebounceInv holds initially: since says that none was taken yet.        *)
LEMMA DebounceInit == Init => DebounceInv
BY ButtonsAssumption DEF Init, DebounceInv, DebouncesExactly, M

(* Every action preserves DebounceInv.                                     *)
LEMMA DebounceNext == TaskInv /\ DebounceInv /\ [Next]_vars => DebounceInv'
<1> SUFFICES ASSUME TaskInv, DebounceInv, [Next]_vars PROVE DebounceInv'
  OBVIOUS
<1>0. M \in Nat \ {0} /\ Debounce \in 1..M - 1 /\ M = JiffiesMod
  BY ButtonsAssumption DEF M
<1> HIDE DEF M
<1> USE DEF DebounceInv, DebouncesExactly, driver, clock, processes
(* The test reads the time since the last press taken, or the clock has    *)
(* gone round, and then more than Debounce ticks have passed.              *)
<1>1. CASE Press
  <2>1. Bouncing <=> (jiffies - oldJiffie) % M < Debounce
    BY <1>0 DEF Bouncing
  <2>2. edge' = [taken |-> ~Bouncing, after |-> since]
    BY <1>1 DEF Press
  <2>3. edge'.taken = ~Bouncing /\ edge'.after = since
    BY <2>2
  <2>4. Bouncing => since < Debounce \/ since = M
    BY <1>0, <2>1
  <2>5. ~Bouncing => since >= Debounce
    BY <1>0, <2>1
  <2>6. DebouncesExactly'
    BY ONLY <1>0, <2>3, <2>4, <2>5, Zenon DEF DebouncesExactly
  <2>7. edge'.taken \in BOOLEAN
    BY <2>3 DEF Bouncing
  <2>8. loaded
    BY <1>1 DEF Press, TaskInv
  <2> QED BY <1>1, <2>6, <2>7, <2>8 DEF Press
(* The stamp starts the time again.                                        *)
<1>2. CASE Stamp
  <2>1. (jiffies - jiffies) % M = 0
    BY <1>0, Difference
  <2> QED BY <1>0, <1>2, <2>1 DEF Stamp
<1>3. CASE TestTask
  BY <1>3 DEF TestTask
<1>4. CASE SendSignal
  BY <1>4 DEF SendSignal
<1>5. ASSUME NEW p \in Process, ButtonOpen(p) PROVE DebounceInv'
  BY <1>5 DEF ButtonOpen
<1>6. ASSUME NEW p \in Process,
             ClearInfo(p) \/ SetInfo(p) \/ RequestIrq(p) \/ ButtonClose(p)
             \/ InstallHandlers(p)
      PROVE  DebounceInv'
  BY <1>6 DEF ClearInfo, SetInfo, RequestIrq, OpenStep, ButtonClose,
              InstallHandlers
(* insmod resets the stamp, which only a driver that took a press has set. *)
<1>7. CASE ButtonModuleInit
  BY <1>0, <1>7 DEF ButtonModuleInit
<1>8. CASE ButtonModuleExit
  BY <1>0, <1>8 DEF ButtonModuleExit
<1>9. CASE Tick
  <2>1. jiffies' = IF jiffies + 1 = M THEN 0 ELSE jiffies + 1
    BY <1>0, <1>9, NextTick DEF Tick
  <2>2. jiffies' \in 0..M - 1 /\ oldJiffie' = oldJiffie
    BY <1>0, <1>9, <2>1 DEF Tick
  <2>3. since' = IF since = M THEN since ELSE since + 1
    BY <1>0, <1>9 DEF Tick
  <2>4. ASSUME since' < M PROVE (jiffies' - oldJiffie') % M = since'
    <3>1. since < M /\ (jiffies - oldJiffie) % M = since /\ since' = since + 1
      BY <1>0, <2>3, <2>4
    <3>2. (jiffies - oldJiffie) % M
            = IF jiffies >= oldJiffie THEN jiffies - oldJiffie
              ELSE jiffies - oldJiffie + M
      BY <1>0, Difference
    <3>3. (jiffies' - oldJiffie) % M
            = IF jiffies' >= oldJiffie THEN jiffies' - oldJiffie
              ELSE jiffies' - oldJiffie + M
      BY <1>0, <2>2, Difference
    <3>4. (jiffies' - oldJiffie) % M = since + 1
      BY <1>0, <2>1, <2>4, <3>1, <3>2, <3>3
    <3> QED BY <2>2, <3>1, <3>4
  <2> QED BY <1>0, <1>9, <2>2, <2>3, <2>4 DEF Tick
<1>10. CASE UNCHANGED vars
  BY <1>10 DEF vars
<1> QED BY <1>1, <1>2, <1>3, <1>4, <1>5, <1>6, <1>7, <1>8, <1>9, <1>10
        DEF Next, IRQHandler

(* A press is taken exactly if Debounce ticks have passed, although the    *)
(* clock wraps.                                                            *)
THEOREM Debounces == Spec => []DebouncesExactly
<1>1. DebounceInv => DebouncesExactly
  BY DEF DebounceInv
<1> QED BY <1>1, TaskInit, TaskNext, DebounceInit, DebounceNext, PTL DEF Spec
=============================================================================
