------------------------- MODULE SignalHandlerProofs -------------------------
(***************************************************************************)
(* Proofs about SignalHandler, for any number of threads and of signals:   *)
(* MutexInv is inductive, so that each handler refines one atomic update,  *)
(* and with that no update of controlWord is lost.  A thread that waits    *)
(* for a mutex of its own waits for ever and controlWord is frozen; it     *)
(* gets there only if a signal interrupts its handler, and nothing else    *)
(* stops the handlers.  And every signal sent is accounted for.            *)
(***************************************************************************)
EXTENDS SignalHandler, HandlerStack, FiniteSetTheorems, TLAPS

(* The handler's update of any value of controlWord is one again.          *)
LEMMA UpdateType ==
  ASSUME NEW w \in SUBSET Flag, NEW s \in Sig
  PROVE  Update(w, s) \in SUBSET Flag
BY DEF Update, Toggle, Flag, Sig, ButtonSig

(* TypeOK holds initially and every action preserves it.                   *)
LEMMA TypeInit == Init => TypeOK
BY SignalHandlerAssumption DEF Init, TypeOK, PC, InitialWord, Flag

LEMMA TypeNext == TypeOK /\ [Next]_vars => TypeOK'
<1> SUFFICES ASSUME TypeOK, [Next]_vars PROVE TypeOK'
  OBVIOUS
<1> USE DEF TypeOK
<1>1. ASSUME NEW s \in Sig, Send(s) PROVE TypeOK'
  <2>1. sent[s] + 1 \in Nat /\ pending[s] + 1 \in Nat
    OBVIOUS
  <2> QED BY <1>1, <2>1 DEF Send
<1>2. ASSUME NEW t \in Thread, NEW s \in Sig, Deliver(t, s) PROVE TypeOK'
  <2>1. pending[s] - 1 \in Nat
    BY <1>2 DEF Deliver
  <2>2. pending' \in [Sig -> Nat]
    BY <1>2, <2>1 DEF Deliver
  <2>3. <<s>> \o active[t] \in Seq(Sig)
    OBVIOUS
  <2>4. active' \in [Thread -> Seq(Sig)]
    BY <1>2, <2>3 DEF Deliver
  <2>5. pc' \in [Thread -> [Sig -> PC]]
    BY <1>2 DEF Deliver, PC
  <2> QED BY <1>2, <2>2, <2>4, <2>5 DEF Deliver
<1>3. ASSUME NEW t \in Thread, NEW s \in Sig, Lock(t, s) PROVE TypeOK'
  BY <1>3 DEF Lock, PC
<1>4. ASSUME NEW t \in Thread, NEW s \in Sig, Load(t, s) PROVE TypeOK'
  <2>1. pc' \in [Thread -> [Sig -> PC]]
    BY <1>4 DEF Load, PC
  <2>2. read' \in [Thread -> [Sig -> SUBSET Flag]]
    BY <1>4 DEF Load
  <2> QED BY <1>4, <2>1, <2>2 DEF Load
<1>5. ASSUME NEW t \in Thread, NEW s \in Sig, Store(t, s) PROVE TypeOK'
  <2>1. controlWord' \in SUBSET Flag
    BY <1>5, UpdateType DEF Store
  <2>2. handled' \in [Sig -> Nat]
    BY <1>5 DEF Store
  <2>3. read' \in [Thread -> [Sig -> SUBSET Flag]]
    BY <1>5 DEF Store
  <2>4. pc' \in [Thread -> [Sig -> PC]]
    BY <1>5 DEF Store, PC
  <2> QED BY <1>5, <2>1, <2>2, <2>3, <2>4 DEF Store
<1>6. ASSUME NEW t \in Thread, NEW s \in Sig, Unlock(t, s) PROVE TypeOK'
  <2>1. Tail(active[t]) \in Seq(Sig)
    BY <1>6 DEF Unlock, Runs
  <2>2. active' \in [Thread -> Seq(Sig)]
    BY <1>6, <2>1 DEF Unlock
  <2>3. pc' \in [Thread -> [Sig -> PC]]
    BY <1>6 DEF Unlock, PC
  <2> QED BY <1>6, <2>2, <2>3 DEF Unlock
<1>7. CASE UNCHANGED vars
  BY <1>7 DEF vars
<1> QED BY <1>1, <1>2, <1>3, <1>4, <1>5, <1>6, <1>7 DEF Next, Handler

-----------------------------------------------------------------------------
(* No handler is in its critical section initially; a handler enters it    *)
(* when the mutex is free, and the mutex stays its own until it leaves.    *)
LEMMA MutexInit == Init => MutexInv
<1> SUFFICES ASSUME Init PROVE MutexInv
  OBVIOUS
<1>1. TypeOK
  BY TypeInit
<1>2. \A t \in Thread, s \in Sig : pc[t][s] = "idle"
  BY DEF Init
<1> QED BY <1>1, <1>2 DEF MutexInv, Critical

LEMMA MutexNext == MutexInv /\ [Next]_vars => MutexInv'
<1> SUFFICES ASSUME MutexInv, [Next]_vars PROVE MutexInv'
  OBVIOUS
<1>1. TypeOK /\ TypeOK'
  BY TypeNext DEF MutexInv
<1>2. ASSUME NEW s \in Sig, Send(s) PROVE MutexInv'
  BY <1>1, <1>2 DEF Send, MutexInv, Critical
<1>3. ASSUME NEW t \in Thread, NEW s \in Sig, Deliver(t, s) PROVE MutexInv'
  <2>1. \A u \in Thread, r \in Sig :
          pc'[u][r] = IF u = t /\ r = s THEN "lock" ELSE pc[u][r]
    BY <1>1, <1>3 DEF Deliver, TypeOK
  <2> QED BY <1>1, <1>3, <2>1 DEF Deliver, MutexInv, Critical
<1>4. ASSUME NEW t \in Thread, NEW s \in Sig, Lock(t, s) PROVE MutexInv'
  <2>1. \A u \in Thread, r \in Sig :
          pc'[u][r] = IF u = t /\ r = s THEN "load" ELSE pc[u][r]
    BY <1>1, <1>4 DEF Lock, TypeOK
  <2>2. \A u \in Thread, r \in Sig : ~Critical(u, r)
    BY <1>4, SignalHandlerAssumption DEF Lock, MutexInv
  <2> QED BY <1>1, <1>4, <2>1, <2>2 DEF Lock, MutexInv, Critical
<1>5. ASSUME NEW t \in Thread, NEW s \in Sig, Load(t, s) PROVE MutexInv'
  <2>1. \A u \in Thread, r \in Sig :
          /\ pc'[u][r] = IF u = t /\ r = s THEN "store" ELSE pc[u][r]
          /\ read'[u][r] = IF u = t /\ r = s THEN controlWord ELSE read[u][r]
    BY <1>1, <1>5 DEF Load, TypeOK
  <2> QED BY <1>1, <1>5, <2>1 DEF Load, MutexInv, Critical
<1>6. ASSUME NEW t \in Thread, NEW s \in Sig, Store(t, s) PROVE MutexInv'
  <2>1. \A u \in Thread, r \in Sig :
          pc'[u][r] = IF u = t /\ r = s THEN "unlock" ELSE pc[u][r]
    BY <1>1, <1>6 DEF Store, TypeOK
  <2>2. \A u \in Thread, r \in Sig : Critical(u, r) => u = t /\ r = s
    BY <1>6 DEF Store, MutexInv, Critical
  <2>3. \A u \in Thread, r \in Sig : pc'[u][r] # "store"
    BY <2>1, <2>2 DEF Critical
  <2> QED BY <1>1, <1>6, <2>1, <2>2, <2>3 DEF Store, MutexInv, Critical
<1>7. ASSUME NEW t \in Thread, NEW s \in Sig, Unlock(t, s) PROVE MutexInv'
  <2>1. \A u \in Thread, r \in Sig :
          pc'[u][r] = IF u = t /\ r = s THEN "idle" ELSE pc[u][r]
    BY <1>1, <1>7 DEF Unlock, TypeOK
  <2>2. \A u \in Thread, r \in Sig : Critical(u, r) => u = t /\ r = s
    BY <1>7 DEF Unlock, MutexInv, Critical
  <2>3. \A u \in Thread, r \in Sig : ~Critical(u, r)'
    BY <2>1, <2>2 DEF Critical
  <2> QED BY <1>1, <2>3 DEF MutexInv, Critical
<1>8. CASE UNCHANGED vars
  BY <1>1, <1>8 DEF vars, MutexInv, Critical
<1> QED BY <1>2, <1>3, <1>4, <1>5, <1>6, <1>7, <1>8 DEF Next, Handler

(* Handlers exclude each other across threads and nesting depths.          *)
THEOREM MutualExclusion == Spec => []MutexInv
BY MutexInit, MutexNext, PTL DEF Spec

-----------------------------------------------------------------------------
(* AtomicSignals reads the flags and the signals as this module does.      *)
LEMMA SameWords ==
  /\ Atomic!Sig = Sig /\ Atomic!Flag = Flag /\ Atomic!InitialWord = InitialWord
  /\ \A w : \A s \in Sig : Atomic!Update(w, s) = Update(w, s)
<1>1. \A w, f : Atomic!Toggle(w, f) = Toggle(w, f)
  BY DEF Atomic!Toggle, Toggle
<1> QED
  BY <1>1 DEF Atomic!Sig, Sig, Atomic!ButtonSig, ButtonSig, Atomic!Flag, Flag,
              Atomic!InitialWord, InitialWord, Atomic!Update, Update

(* A step of a handler is the atomic update when it writes, and otherwise  *)
(* changes nothing that AtomicSignals sees.                                *)
LEMMA StepRefines ==
  MutexInv /\ [Next]_vars => [Atomic!Next]_<<controlWord, handled>>
<1> SUFFICES ASSUME MutexInv, [Next]_vars
             PROVE  [Atomic!Next]_<<controlWord, handled>>
  OBVIOUS
<1>1. ASSUME NEW t \in Thread, NEW s \in Sig, Store(t, s) PROVE Atomic!Next
  <2>1. read[t][s] = controlWord
    BY <1>1 DEF Store, MutexInv
  <2>2. Atomic!Handle(s)
    BY <1>1, <2>1, SameWords DEF Store, Atomic!Handle
  <2> QED BY <2>2, SameWords DEF Atomic!Next
<1>2. ASSUME NEW s \in Sig, Send(s) PROVE UNCHANGED <<controlWord, handled>>
  BY <1>2 DEF Send
<1>3. ASSUME NEW t \in Thread, NEW s \in Sig,
             Deliver(t, s) \/ Lock(t, s) \/ Load(t, s) \/ Unlock(t, s)
      PROVE  UNCHANGED <<controlWord, handled>>
  BY <1>3 DEF Deliver, Lock, Load, Unlock
<1>4. CASE UNCHANGED vars
  BY <1>4 DEF vars
<1> QED BY <1>1, <1>2, <1>3, <1>4 DEF Next, Handler

(* The handler as it runs implements the handler as the rest of main.cpp   *)
(* sees it: atomic updates of controlWord.                                 *)
THEOREM Refinement == Spec => HandlesAtomically
<1>1. Init => Atomic!Init
  BY SameWords DEF Init, Atomic!Init
<1> QED BY <1>1, StepRefines, MutualExclusion, PTL
        DEF Spec, HandlesAtomically, Atomic!Spec

-----------------------------------------------------------------------------
(* The parity of a count alternates.                                       *)
LEMMA Parity ==
  ASSUME NEW n \in Nat
  PROVE  /\ n % 2 \in {0, 1}
         /\ (n + 1) % 2 = 1 <=> n % 2 = 0
         /\ (n + 1) % 2 = 0 <=> n % 2 = 1
OBVIOUS

(* WordIsEffect, one flag at a time.                                       *)
EffectByFlag ==
  /\ controlWord \subseteq Flag
  /\ "PROC_F"   \in controlWord <=> handled["SIG_PROBUT"] % 2 = 0
  /\ "BUZZ"     \in controlWord <=> handled["SIG_BUZZBUT"] % 2 = 1
  /\ "ENG_STAT" \in controlWord <=> handled["SIG_ENG_ON"] > 0
  /\ "END"      \in controlWord <=> handled["SIG_ENG_OFF"] > 0
  /\ "WARN"     \in controlWord <=> handled["SIG_WARN_SYS"] > 0

LEMMA EffectIsEffectByFlag == NoLostUpdate <=> EffectByFlag
BY SameWords DEF NoLostUpdate, Atomic!WordIsEffect, EffectByFlag, Flag

(* Every flag that is on or off is so because of the signals handled:      *)
(* updates are neither lost nor made twice.                                *)
THEOREM NothingLost == Spec => []NoLostUpdate
<1>1. Init => EffectByFlag
  <2>1. 0 % 2 = 0
    OBVIOUS
  <2> QED BY <2>1 DEF Init, EffectByFlag, InitialWord, Flag, Sig, ButtonSig
<1>2. MutexInv /\ EffectByFlag /\ [Next]_vars => EffectByFlag'
  <2> SUFFICES ASSUME MutexInv, EffectByFlag, [Next]_vars PROVE EffectByFlag'
    OBVIOUS
  <2>1. handled \in [Sig -> Nat]
    BY DEF MutexInv, TypeOK
  <2>2. ASSUME NEW s \in Sig, Atomic!Handle(s) PROVE EffectByFlag'
    <3>1. controlWord' = Update(controlWord, s)
      BY <2>2, SameWords DEF Atomic!Handle
    <3>2. \A r \in Sig : handled'[r] = IF r = s THEN handled[r] + 1 ELSE handled[r]
      BY <2>1, <2>2 DEF Atomic!Handle
    <3>3. \A r \in Sig : handled[r] \in Nat
      BY <2>1
    <3>4. CASE s = "SIG_PROBUT"
      <4>1. controlWord' = Toggle(controlWord, "PROC_F")
        BY <3>1, <3>4 DEF Update
      <4>2. "PROC_F" \in controlWord' <=> "PROC_F" \notin controlWord
        BY <4>1 DEF Toggle
      <4>3. \A f \in Flag \ {"PROC_F"} : f \in controlWord' <=> f \in controlWord
        BY <4>1 DEF Toggle
      <4>4. controlWord' \subseteq Flag
        BY <4>1 DEF Toggle, EffectByFlag, Flag
      <4>5. \A r \in Sig \ {"SIG_PROBUT"} : handled'[r] = handled[r]
        BY <3>2, <3>4
      <4>6. /\ handled'["SIG_PROBUT"] = handled["SIG_PROBUT"] + 1
            /\ handled["SIG_PROBUT"] \in Nat
        BY <3>2, <3>3, <3>4 DEF Sig, ButtonSig
      <4>7. handled'["SIG_PROBUT"] % 2 = 0 <=> handled["SIG_PROBUT"] % 2 = 1
        BY <4>6, Parity
      <4>8. handled'["SIG_PROBUT"] % 2 = 1 <=> handled["SIG_PROBUT"] % 2 = 0
        BY <4>6, Parity
      <4>9. "PROC_F" \in controlWord' <=> handled'["SIG_PROBUT"] % 2 = 0
        BY <4>2, <4>6, <4>7, <4>8, Parity DEF EffectByFlag
      <4> QED BY <4>3, <4>4, <4>5, <4>9 DEF EffectByFlag, Flag, Sig, ButtonSig
    <3>5. CASE s = "SIG_BUZZBUT"
      <4>1. controlWord' = Toggle(controlWord, "BUZZ")
        BY <3>1, <3>5 DEF Update
      <4>2. "BUZZ" \in controlWord' <=> "BUZZ" \notin controlWord
        BY <4>1 DEF Toggle
      <4>3. \A f \in Flag \ {"BUZZ"} : f \in controlWord' <=> f \in controlWord
        BY <4>1 DEF Toggle
      <4>4. controlWord' \subseteq Flag
        BY <4>1 DEF Toggle, EffectByFlag, Flag
      <4>5. \A r \in Sig \ {"SIG_BUZZBUT"} : handled'[r] = handled[r]
        BY <3>2, <3>5
      <4>6. /\ handled'["SIG_BUZZBUT"] = handled["SIG_BUZZBUT"] + 1
            /\ handled["SIG_BUZZBUT"] \in Nat
        BY <3>2, <3>3, <3>5 DEF Sig, ButtonSig
      <4>7. handled'["SIG_BUZZBUT"] % 2 = 0 <=> handled["SIG_BUZZBUT"] % 2 = 1
        BY <4>6, Parity
      <4>8. handled'["SIG_BUZZBUT"] % 2 = 1 <=> handled["SIG_BUZZBUT"] % 2 = 0
        BY <4>6, Parity
      <4>9. "BUZZ" \in controlWord' <=> handled'["SIG_BUZZBUT"] % 2 = 1
        BY <4>2, <4>6, <4>7, <4>8, Parity DEF EffectByFlag
      <4> QED BY <4>3, <4>4, <4>5, <4>9 DEF EffectByFlag, Flag, Sig, ButtonSig
    <3>6. CASE s = "SIG_ENG_ON"
      BY <3>1, <3>2, <3>3, <3>6 DEF EffectByFlag, Update, Flag, Sig, ButtonSig
    <3>7. CASE s = "SIG_ENG_OFF"
      BY <3>1, <3>2, <3>3, <3>7 DEF EffectByFlag, Update, Flag, Sig, ButtonSig
    <3>8. CASE s = "SIG_WARN_SYS"
      BY <3>1, <3>2, <3>3, <3>8 DEF EffectByFlag, Update, Flag, Sig, ButtonSig
    <3> QED BY <3>4, <3>5, <3>6, <3>7, <3>8 DEF Sig, ButtonSig
  <2>3. CASE UNCHANGED <<controlWord, handled>>
    BY <2>3 DEF EffectByFlag
  <2> QED BY <2>2, <2>3, StepRefines, SameWords DEF Atomic!Next
<1>3. Spec => []EffectByFlag
  BY <1>1, <1>2, MutualExclusion, PTL DEF Spec
<1> QED BY <1>3, EffectIsEffectByFlag, PTL

-----------------------------------------------------------------------------
(* MutexInv says who is critical only in a thread that owns the mutex, so  *)
(* while a thread deadlocks itself no handler can write, unlock or lock.   *)
LEMMA DeadlockedStep ==
  ASSUME MutexInv, [Next]_vars, SelfDeadlocked
  PROVE  SelfDeadlocked' /\ UNCHANGED <<controlWord, handled, owner>>
<1>0. TypeOK
  BY DEF MutexInv
<1>1. PICK t \in Thread, s \in Sig :
        owner = t /\ Runs(t, s) /\ pc[t][s] = "lock"
  BY DEF SelfDeadlocked
<1>2. owner # None
  BY <1>1, SignalHandlerAssumption
<1>3. ASSUME NEW r \in Sig, Send(r)
      PROVE  SelfDeadlocked' /\ UNCHANGED <<controlWord, handled, owner>>
  BY <1>1, <1>3 DEF Send, SelfDeadlocked, Runs
<1>4. ASSUME NEW u \in Thread, NEW r \in Sig, Deliver(u, r)
      PROVE  SelfDeadlocked' /\ UNCHANGED <<controlWord, handled, owner>>
  <2>1. UNCHANGED <<controlWord, handled, owner>>
    BY <1>4 DEF Deliver
  <2>2. CASE u = t
    <3>1. <<r>> \o active[t] # <<>> /\ Head(<<r>> \o active[t]) = r
      BY <1>0 DEF TypeOK
    <3>2. active'[t] = <<r>> \o active[t] /\ pc'[t][r] = "lock"
      BY <1>0, <1>4, <2>2 DEF Deliver, TypeOK
    <3> QED BY <1>1, <2>1, <3>1, <3>2 DEF SelfDeadlocked, Runs
  <2>3. CASE u # t
    <3>1. active'[t] = active[t] /\ pc'[t][s] = pc[t][s]
      BY <1>0, <1>4, <2>3 DEF Deliver, TypeOK
    <3> QED BY <1>1, <2>1, <3>1 DEF SelfDeadlocked, Runs
  <2> QED BY <2>2, <2>3
<1>5. ASSUME NEW u \in Thread, NEW r \in Sig, Lock(u, r) PROVE FALSE
  BY <1>2, <1>5 DEF Lock
<1>6. ASSUME NEW u \in Thread, NEW r \in Sig,
             Load(u, r) \/ Store(u, r) \/ Unlock(u, r)
      PROVE  FALSE
  <2>1. Runs(u, r) /\ Critical(u, r)
    BY <1>6 DEF Load, Store, Unlock, Critical
  <2>2. u = t
    BY <1>1, <2>1 DEF MutexInv
  <2>3. r = s
    BY <1>1, <2>1, <2>2 DEF Runs
  <2> QED BY <1>1, <2>1, <2>2, <2>3 DEF Critical
<1>7. CASE UNCHANGED vars
  BY <1>1, <1>7 DEF vars, SelfDeadlocked, Runs
<1> QED BY <1>3, <1>4, <1>5, <1>6, <1>7 DEF Next, Handler

(* Nothing gets a thread out of a handler that waits for the handler it    *)
(* interrupted.                                                            *)
THEOREM DeadlockStays == Spec => DeadlockIsForEver
<1>1. MutexInv /\ [Next]_vars => [SelfDeadlocked => SelfDeadlocked']_vars
  BY DeadlockedStep
<1> QED BY <1>1, MutualExclusion, PTL DEF Spec, DeadlockIsForEver

(* From the moment one thread deadlocks itself, controlWord never changes  *)
(* again, whatever signals other threads get.                              *)
DeadlockFreezesWord ==
  [][SelfDeadlocked => UNCHANGED <<controlWord, handled>>]_vars

(* After it, a switched-off engine, say, no longer sets END.               *)
THEOREM DeadlockFreezes == Spec => DeadlockFreezesWord
<1>1. MutexInv /\ [Next]_vars =>
        [SelfDeadlocked => UNCHANGED <<controlWord, handled>>]_vars
  BY DeadlockedStep
<1> QED BY <1>1, MutualExclusion, PTL DEF Spec, DeadlockFreezesWord

(* A mutex that is held is held by a handler in its critical section.      *)
OwnerInv == owner # None => \E s \in Sig : Critical(owner, s)

(* Who leaves the critical section unlocks the mutex in the same step.     *)
LEMMA OwnerNext == MutexInv /\ OwnerInv /\ [Next]_vars => OwnerInv'
<1> SUFFICES ASSUME MutexInv, OwnerInv, [Next]_vars, owner' # None
             PROVE  \E s \in Sig : pc'[owner'][s] \in {"load", "store", "unlock"}
  BY DEF OwnerInv, Critical
<1>0. TypeOK
  BY DEF MutexInv
<1>1. ASSUME NEW r \in Sig, Send(r)
      PROVE  \E s \in Sig : pc'[owner'][s] \in {"load", "store", "unlock"}
  BY <1>1 DEF Send, OwnerInv, Critical
<1>2. ASSUME NEW u \in Thread, NEW r \in Sig, Deliver(u, r)
      PROVE  \E s \in Sig : pc'[owner'][s] \in {"load", "store", "unlock"}
  <2>1. PICK s \in Sig : Critical(owner, s)
    BY <1>2 DEF Deliver, OwnerInv
  <2>2. pc[u][r] = "idle" /\ owner' = owner /\ owner \in Thread
    BY <1>0, <1>2 DEF Deliver, TypeOK
  <2>3. pc'[owner][s] = pc[owner][s]
    BY <1>0, <1>2, <2>1, <2>2 DEF Deliver, TypeOK, Critical
  <2> QED BY <2>1, <2>2, <2>3 DEF Critical
<1>3. ASSUME NEW u \in Thread, NEW r \in Sig, Lock(u, r)
      PROVE  \E s \in Sig : pc'[owner'][s] \in {"load", "store", "unlock"}
  BY <1>0, <1>3 DEF Lock, TypeOK, Critical
<1>4. ASSUME NEW u \in Thread, NEW r \in Sig, Load(u, r) \/ Store(u, r)
      PROVE  \E s \in Sig : pc'[owner'][s] \in {"load", "store", "unlock"}
  <2>1. Critical(u, r) /\ owner = u /\ owner' = u
    BY <1>4 DEF Load, Store, Critical, MutexInv
  <2>2. pc'[u][r] \in {"store", "unlock"}
    BY <1>0, <1>4 DEF Load, Store, TypeOK
  <2> QED BY <2>1, <2>2 DEF Critical
<1>5. ASSUME NEW u \in Thread, NEW r \in Sig, Unlock(u, r) PROVE FALSE
  BY <1>5 DEF Unlock
<1>6. CASE UNCHANGED vars
  BY <1>6 DEF vars, OwnerInv, Critical
<1> QED BY <1>1, <1>2, <1>3, <1>4, <1>5, <1>6 DEF Next, Handler

(* A thread deadlocks itself only when a signal interrupts its handler     *)
(* between the lock and the unlock: an sa_mask that held the other signals *)
(* back for as long as the handler runs would rule it out.                 *)
DeadlockedByInterruption ==
  [][~SelfDeadlocked /\ SelfDeadlocked' =>
       \E t \in Thread : /\ \E r \in Sig : Critical(t, r)
                         /\ \E s \in Sig : Deliver(t, s)]_vars

(* No other step, and no other thread's, brings a thread into it.          *)
THEOREM ByInterruption == Spec => DeadlockedByInterruption
<1>1. ASSUME MutexInv, OwnerInv, [Next]_vars, ~SelfDeadlocked, SelfDeadlocked'
      PROVE  \E t \in Thread : /\ \E r \in Sig : Critical(t, r)
                               /\ \E s \in Sig : Deliver(t, s)
  <2>0. TypeOK
    BY <1>1 DEF MutexInv
  <2>1. PICK t \in Thread, s \in Sig :
          owner' = t /\ Runs(t, s)' /\ pc'[t][s] = "lock"
    BY <1>1 DEF SelfDeadlocked
  <2>2. ~(owner = t /\ Runs(t, s) /\ pc[t][s] = "lock")
    BY <1>1 DEF SelfDeadlocked
  <2>3. ASSUME NEW r \in Sig, Send(r) PROVE FALSE
    BY <2>1, <2>2, <2>3 DEF Send, Runs
  <2>4. ASSUME NEW u \in Thread, NEW r \in Sig, Deliver(u, r)
        PROVE  \E v \in Thread : /\ \E q \in Sig : Critical(v, q)
                                 /\ \E q \in Sig : Deliver(v, q)
    <3>1. u = t
      BY <2>0, <2>1, <2>2, <2>4 DEF Deliver, Runs, TypeOK
    <3>2. owner = t /\ owner # None
      BY <2>1, <2>4, SignalHandlerAssumption DEF Deliver
    <3> QED BY <1>1, <2>4, <3>1, <3>2 DEF OwnerInv
  <2>5. ASSUME NEW u \in Thread, NEW r \in Sig, Lock(u, r) PROVE FALSE
    <3>1. u = t /\ r = s
      BY <2>1, <2>5 DEF Lock, Runs
    <3> QED BY <2>0, <2>1, <2>5, <3>1 DEF Lock, TypeOK
  <2>6. ASSUME NEW u \in Thread, NEW r \in Sig, Load(u, r) \/ Store(u, r)
        PROVE  FALSE
    <3>1. UNCHANGED <<owner, active>>
      BY <2>6 DEF Load, Store
    <3>2. CASE Load(u, r)
      BY <2>0, <2>1, <2>2, <3>1, <3>2 DEF Load, Runs, TypeOK
    <3>3. CASE Store(u, r)
      BY <2>0, <2>1, <2>2, <3>1, <3>3 DEF Store, Runs, TypeOK
    <3> QED BY <2>6, <3>2, <3>3
  <2>7. ASSUME NEW u \in Thread, NEW r \in Sig, Unlock(u, r) PROVE FALSE
    BY <2>1, <2>7, SignalHandlerAssumption DEF Unlock
  <2>8. ~UNCHANGED vars
    BY <2>1, <2>2 DEF vars, Runs
  <2> QED BY <1>1, <2>3, <2>4, <2>5, <2>6, <2>7, <2>8 DEF Next, Handler
<1>2. Init => OwnerInv
  BY DEF Init, OwnerInv
<1>3. MutexInv /\ OwnerInv /\ [Next]_vars => OwnerInv'
  BY OwnerNext
<1>4. MutexInv /\ OwnerInv /\ [Next]_vars =>
        [~SelfDeadlocked /\ SelfDeadlocked' =>
           \E t \in Thread : /\ \E r \in Sig : Critical(t, r)
                             /\ \E s \in Sig : Deliver(t, s)]_vars
  BY <1>1
<1> QED BY <1>2, <1>3, <1>4, MutualExclusion, PTL
        DEF Spec, DeadlockedByInterruption

-----------------------------------------------------------------------------
(* The threads that have taken s and not written its update yet.           *)
Taken(s) == {t \in Thread : pc[t][s] \in {"lock", "load", "store"}}

(* Every signal sent is queued, taken by a thread, or written.             *)
AccountInv ==
  \A s \in Sig : sent[s] = pending[s] + Cardinality(Taken(s)) + handled[s]

(* A process has finitely many threads.                                    *)
LEMMA TakenFinite ==
  \A s \in Sig : IsFiniteSet(Taken(s)) /\ Cardinality(Taken(s)) \in Nat
BY SignalHandlerAssumption, FS_Subset, FS_CardinalityType DEF Taken

(* Send adds one to the queue, Deliver takes one from it to a thread, and  *)
(* Store counts the thread's as written.                                   *)
LEMMA AccountNext == MutexInv /\ AccountInv /\ [Next]_vars => AccountInv'
<1> SUFFICES ASSUME MutexInv, AccountInv, [Next]_vars, NEW s \in Sig
             PROVE  sent'[s] = pending'[s] + Cardinality(Taken(s)') + handled'[s]
  BY DEF AccountInv, Taken
<1>0. TypeOK /\ sent[s] \in Nat /\ pending[s] \in Nat /\ handled[s] \in Nat
      /\ Cardinality(Taken(s)) \in Nat
      /\ sent[s] = pending[s] + Cardinality(Taken(s)) + handled[s]
  BY TakenFinite DEF MutexInv, TypeOK, AccountInv
<1>1. ASSUME NEW r \in Sig, Send(r)
      PROVE  sent'[s] = pending'[s] + Cardinality(Taken(s)') + handled'[s]
  <2>1. /\ Taken(s)' = Taken(s) /\ handled' = handled
        /\ sent'[s] = IF s = r THEN sent[s] + 1 ELSE sent[s]
        /\ pending'[s] = IF s = r THEN pending[s] + 1 ELSE pending[s]
    BY <1>0, <1>1 DEF Send, Taken, TypeOK
  <2> QED BY <1>0, <2>1
<1>2. ASSUME NEW u \in Thread, NEW r \in Sig, Deliver(u, r)
      PROVE  sent'[s] = pending'[s] + Cardinality(Taken(s)') + handled'[s]
  <2>1. /\ UNCHANGED <<sent, handled>>
        /\ pending'[s] = IF s = r THEN pending[s] - 1 ELSE pending[s]
        /\ \A t \in Thread :
             pc'[t][s] = IF t = u /\ s = r THEN "lock" ELSE pc[t][s]
    BY <1>0, <1>2 DEF Deliver, TypeOK
  <2>2. CASE s = r
    <3>1. u \notin Taken(s) /\ Taken(s)' = Taken(s) \cup {u}
      BY <1>2, <2>1, <2>2 DEF Deliver, Taken
    <3>2. Cardinality(Taken(s)') = Cardinality(Taken(s)) + 1
      BY <3>1, TakenFinite, FS_AddElement
    <3> QED BY <1>0, <2>1, <2>2, <3>2
  <2>3. CASE s # r
    <3>1. Taken(s)' = Taken(s)
      BY <2>1, <2>3 DEF Taken
    <3> QED BY <1>0, <2>1, <2>3, <3>1
  <2> QED BY <2>2, <2>3
<1>3. ASSUME NEW u \in Thread, NEW r \in Sig, Lock(u, r) \/ Load(u, r)
      PROVE  sent'[s] = pending'[s] + Cardinality(Taken(s)') + handled'[s]
  <2>1. /\ UNCHANGED <<sent, pending, handled>>
        /\ pc[u][r] \in {"lock", "load"} /\ pc'[u][r] \in {"load", "store"}
        /\ \A t \in Thread : t # u \/ s # r => pc'[t][s] = pc[t][s]
    BY <1>0, <1>3 DEF Lock, Load, TypeOK
  <2>2. Taken(s)' = Taken(s)
    BY <2>1 DEF Taken
  <2> QED BY <1>0, <2>1, <2>2
<1>4. ASSUME NEW u \in Thread, NEW r \in Sig, Store(u, r)
      PROVE  sent'[s] = pending'[s] + Cardinality(Taken(s)') + handled'[s]
  <2>1. /\ UNCHANGED <<sent, pending>>
        /\ handled'[s] = IF s = r THEN handled[s] + 1 ELSE handled[s]
        /\ \A t \in Thread :
             pc'[t][s] = IF t = u /\ s = r THEN "unlock" ELSE pc[t][s]
    BY <1>0, <1>4 DEF Store, TypeOK
  <2>2. CASE s = r
    <3>1. u \in Taken(s) /\ Taken(s)' = Taken(s) \ {u}
      BY <1>4, <2>1, <2>2 DEF Store, Taken
    <3>2. Cardinality(Taken(s)') = Cardinality(Taken(s)) - 1
      BY <3>1, TakenFinite, FS_RemoveElement
    <3> QED BY <1>0, <2>1, <2>2, <3>2
  <2>3. CASE s # r
    <3>1. Taken(s)' = Taken(s)
      BY <2>1, <2>3 DEF Taken
    <3> QED BY <1>0, <2>1, <2>3, <3>1
  <2> QED BY <2>2, <2>3
<1>5. ASSUME NEW u \in Thread, NEW r \in Sig, Unlock(u, r)
      PROVE  sent'[s] = pending'[s] + Cardinality(Taken(s)') + handled'[s]
  <2>1. /\ UNCHANGED <<sent, pending, handled>> /\ pc[u][r] = "unlock"
        /\ \A t \in Thread :
             pc'[t][s] = IF t = u /\ s = r THEN "idle" ELSE pc[t][s]
    BY <1>0, <1>5 DEF Unlock, TypeOK
  <2>2. Taken(s)' = Taken(s)
    BY <2>1 DEF Taken
  <2> QED BY <1>0, <2>1, <2>2
<1>6. CASE UNCHANGED vars
  BY <1>0, <1>6 DEF vars, Taken
<1> QED BY <1>1, <1>2, <1>3, <1>4, <1>5, <1>6 DEF Next, Handler

(* No signal is lost or handled twice on its way: what was sent is queued, *)
(* in a handler or written, for any number of threads.                     *)
THEOREM Accounted == Spec => []AccountInv
<1>1. Init => AccountInv
  <2> SUFFICES ASSUME Init PROVE AccountInv
    OBVIOUS
  <2> SUFFICES ASSUME NEW s \in Sig
               PROVE  sent[s] = pending[s] + Cardinality(Taken(s)) + handled[s]
    BY DEF AccountInv
  <2>1. Taken(s) = {}
    BY DEF Init, Taken
  <2>2. Cardinality(Taken(s)) = 0
    BY <2>1, FS_EmptySet
  <2>3. sent[s] = 0 /\ pending[s] = 0 /\ handled[s] = 0
    BY DEF Init
  <2> QED BY <2>2, <2>3
<1>2. MutexInv /\ AccountInv /\ [Next]_vars => AccountInv'
  BY AccountNext
<1> QED BY <1>1, <1>2, MutualExclusion, PTL DEF Spec

(* Every signal has been delivered and every handler has returned.         *)
Quiet == \A s \in Sig : pending[s] = 0 /\ \A t \in Thread : pc[t][s] = "idle"

Everything == INSTANCE AtomicSignals WITH handled <- sent

(* The flags are then the effect of all the signals that were sent.        *)
QuietWord == Quiet => Everything!WordIsEffect

(* No flag lacks a signal once the handlers are quiet: a press or an       *)
(* engine signal that was sent shows in controlWord.                       *)
THEOREM NothingMissing == Spec => []QuietWord
<1>1. ASSUME MutexInv, AccountInv, NoLostUpdate, Quiet
      PROVE  Everything!WordIsEffect
  <2>1. \A s \in Sig : sent[s] = handled[s]
    <3> SUFFICES ASSUME NEW s \in Sig PROVE sent[s] = handled[s]
      OBVIOUS
    <3>1. Cardinality(Taken(s)) = 0
      BY <1>1, FS_EmptySet DEF Quiet, Taken
    <3>2. sent[s] = pending[s] + Cardinality(Taken(s)) + handled[s]
      BY <1>1 DEF AccountInv
    <3>3. pending[s] = 0 /\ handled[s] \in Nat
      BY <1>1 DEF Quiet, MutexInv, TypeOK
    <3> QED BY <3>1, <3>2, <3>3
  <2>2. sent = handled
    BY <1>1, <2>1 DEF MutexInv, TypeOK
  <2> QED BY <1>1, <2>2
          DEF NoLostUpdate, Atomic!WordIsEffect, Everything!WordIsEffect,
              Atomic!Flag, Everything!Flag
<1>2. MutexInv /\ AccountInv /\ NoLostUpdate => QuietWord
  BY <1>1 DEF QuietWord
<1> QED BY <1>2, MutualExclusion, Accounted, NothingLost, PTL

(* Every variable of the handlers keeps its type.                          *)
THEOREM HandlerTypes == Spec => []TypeOK
BY TypeInit, TypeNext, PTL DEF Spec

-----------------------------------------------------------------------------
(* The handlers that run in a thread are those on its stack, once each.    *)
StackInv ==
  \A t \in Thread :
    /\ IsInjective(active[t])
    /\ \A s \in Sig : pc[t][s] # "idle" <=> s \in ToSet(active[t])

(* Only a delivery pushes a handler and only its return pops it.           *)
LEMMA StackNext == MutexInv /\ StackInv /\ [Next]_vars => StackInv'
<1> SUFFICES ASSUME MutexInv, StackInv, [Next]_vars, NEW t \in Thread
             PROVE  /\ IsInjective(active'[t])
                    /\ \A s \in Sig : pc'[t][s] # "idle" <=> s \in ToSet(active'[t])
  BY DEF StackInv
<1>0. /\ TypeOK /\ active[t] \in Seq(Sig) /\ IsInjective(active[t])
      /\ \A s \in Sig : pc[t][s] # "idle" <=> s \in ToSet(active[t])
  BY DEF MutexInv, TypeOK, StackInv
<1>1. ASSUME NEW s \in Sig, Send(s) PROVE UNCHANGED <<active, pc>>
  BY <1>1 DEF Send
<1>2. ASSUME NEW r \in Sig, Deliver(t, r)
      PROVE  /\ IsInjective(active'[t])
             /\ \A s \in Sig : pc'[t][s] # "idle" <=> s \in ToSet(active'[t])
  <2>1. /\ active'[t] = <<r>> \o active[t] /\ r \notin ToSet(active[t])
        /\ \A s \in Sig : pc'[t][s] = IF s = r THEN "lock" ELSE pc[t][s]
    BY <1>0, <1>2 DEF Deliver, TypeOK
  <2>2. /\ IsInjective(<<r>> \o active[t])
        /\ ToSet(<<r>> \o active[t]) = ToSet(active[t]) \cup {r}
    BY <1>0, <2>1, Push
  <2> QED BY <1>0, <2>1, <2>2
<1>3. ASSUME NEW r \in Sig, Lock(t, r) \/ Load(t, r) \/ Store(t, r)
      PROVE  /\ UNCHANGED active
             /\ \A s \in Sig : pc'[t][s] # "idle" <=> pc[t][s] # "idle"
  BY <1>0, <1>3 DEF Lock, Load, Store, TypeOK
<1>4. ASSUME NEW r \in Sig, Unlock(t, r)
      PROVE  /\ IsInjective(active'[t])
             /\ \A s \in Sig : pc'[t][s] # "idle" <=> s \in ToSet(active'[t])
  <2>1. /\ active'[t] = Tail(active[t])
        /\ active[t] # <<>> /\ active[t][1] = r
        /\ \A s \in Sig : pc'[t][s] = IF s = r THEN "idle" ELSE pc[t][s]
    BY <1>0, <1>4 DEF Unlock, Runs, TypeOK
  <2>2. /\ IsInjective(Tail(active[t]))
        /\ ToSet(Tail(active[t])) = ToSet(active[t]) \ {r}
    BY <1>0, <2>1, Pop
  <2> QED BY <1>0, <2>1, <2>2
<1>5. ASSUME NEW u \in Thread, u # t, NEW r \in Sig,
             \/ Deliver(u, r) \/ Lock(u, r) \/ Load(u, r) \/ Store(u, r)
             \/ Unlock(u, r)
      PROVE  active'[t] = active[t] /\ pc'[t] = pc[t]
  BY <1>0, <1>5 DEF Deliver, Lock, Load, Store, Unlock, TypeOK
<1>6. CASE UNCHANGED vars
  BY <1>0, <1>6 DEF vars
<1> QED BY <1>0, <1>1, <1>2, <1>3, <1>4, <1>5, <1>6 DEF Next, Handler

(* The handler of s in thread t is the innermost there and need not wait.  *)
CanStep(t, s) ==
  Runs(t, s) /\ (Critical(t, s) \/ (pc[t][s] = "lock" /\ owner = None))

(* A thread that deadlocks itself is the only way for all to stop: while   *)
(* some handler has not returned, one of them need not wait.               *)
SomeHandlerMoves ==
  (\E t \in Thread : active[t] # <<>>) =>
    SelfDeadlocked \/ \E t \in Thread, s \in Sig : CanStep(t, s)

(* The thread that owns the mutex is in a handler, whose innermost one     *)
(* either need not wait or waits for the mutex of its own thread.          *)
THEOREM OnlySelfDeadlocks == Spec => []SomeHandlerMoves
<1>1. Init => StackInv
  BY DEF Init, StackInv, IsInjective, ToSet
<1>2. Init => OwnerInv
  BY DEF Init, OwnerInv
<1>3. MutexInv /\ StackInv /\ [Next]_vars => StackInv'
  BY StackNext
<1>4. MutexInv /\ OwnerInv /\ [Next]_vars => OwnerInv'
  BY OwnerNext
<1>5. MutexInv /\ OwnerInv /\ StackInv => SomeHandlerMoves
  <2> SUFFICES ASSUME MutexInv, OwnerInv, StackInv, ~SelfDeadlocked,
                      NEW t \in Thread, active[t] # <<>>
               PROVE  \E u \in Thread, s \in Sig : CanStep(u, s)
    BY DEF SomeHandlerMoves
  <2>1. ASSUME NEW u \in Thread, active[u] # <<>>
        PROVE  \E s \in Sig : Runs(u, s) /\ (pc[u][s] = "lock" \/ Critical(u, s))
    <3>1. active[u] \in Seq(Sig) /\ pc[u] \in [Sig -> PC]
      BY DEF MutexInv, TypeOK
    <3>2. /\ Head(active[u]) \in Sig /\ Head(active[u]) = active[u][1]
          /\ 1 \in DOMAIN active[u]
      BY <2>1, <3>1
    <3>3. pc[u][Head(active[u])] # "idle"
      BY <3>2 DEF StackInv, ToSet
    <3> QED BY <2>1, <3>1, <3>2, <3>3 DEF Runs, Critical, PC
  <2>2. CASE owner = None
    BY <2>1, <2>2 DEF CanStep
  <2>3. CASE owner # None
    <3>1. owner \in Thread /\ \E s \in Sig : Critical(owner, s)
      BY <2>3 DEF OwnerInv, MutexInv, TypeOK
    <3>2. active[owner] # <<>>
      BY <3>1 DEF StackInv, Critical, ToSet
    <3>3. PICK s \in Sig :
            Runs(owner, s) /\ (pc[owner][s] = "lock" \/ Critical(owner, s))
      BY <2>1, <3>1, <3>2
    <3>4. pc[owner][s] # "lock"
      BY <3>1, <3>3 DEF SelfDeadlocked
    <3> QED BY <3>1, <3>3, <3>4 DEF CanStep
  <2> QED BY <2>2, <2>3
<1> QED BY <1>1, <1>2, <1>3, <1>4, <1>5, MutualExclusion, PTL DEF Spec
=============================================================================
