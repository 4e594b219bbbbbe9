---------------------------- MODULE RoadBuddyProofs ----------------------------
(***************************************************************************)
(* Proofs about RoadBuddy, for any ring, any number of frames and presses, *)
(* with spurious wakeups or without: the loops of the threads implement    *)
(* FrameRing, so what is proved of the ring holds of the process; and what *)
(* can happen when the engine is switched off.                             *)
(***************************************************************************)
EXTENDS RoadBuddy, TLAPS

RingProofs == INSTANCE FrameRingProofs
                WITH acq <- RingAcq, store <- RingStore, proc <- RingProc

-----------------------------------------------------------------------------
(* The process starts with the ring as FrameRing starts.                   *)
LEMMA RingInit == Init => Ring!Init
BY DEF Init, Ring!Init, RingAcq, RingStore, RingProc

(* Every step of a thread is a step of FrameRing or leaves the ring alone. *)
LEMMA RingStep == [Next]_vars => [Ring!Next]_(Ring!vars)
<1> SUFFICES ASSUME [Next]_vars PROVE [Ring!Next]_(Ring!vars)
  OBVIOUS
<1> USE DEF ring, flags, RingAcq, RingStore, RingProc
<1>1. CASE AcqNext
  <2> USE DEF AcqOthers
  <2>1. CASE EngineOn \/ AcqLoop \/ TestLines \/ AddLines
    BY <2>1 DEF EngineOn, AcqLoop, TestLines, AddLines, Ring!vars
  <2>2. CASE Capture
    BY <2>2 DEF Capture, Ring!CaptureFrame, Ring!Next
  <2>3. CASE Put
    BY <2>3 DEF Put, Ring!PutFrame, Ring!Next
  <2>4. CASE Advance
    BY <2>4 DEF Advance, Ring!AdvanceWrite, Ring!Next
  <2>5. CASE Post
    BY <2>5 DEF Post, Ring!PostFrame, Ring!Next
  <2>6. CASE Notify
    BY <2>6 DEF Notify, SignalProc, Ring!vars
  <2> QED BY <1>1, <2>1, <2>2, <2>3, <2>4, <2>5, <2>6 DEF AcqNext
<1>2. CASE ProcNext
  <2> USE DEF ProcOthers
  <2>1. CASE ProcLoop \/ ProcWait \/ TestProcFlag \/ Remap \/ PublishLines
             \/ DangerDetection \/ TestWarnFlags
    BY <2>1 DEF ProcLoop, ProcWait, TestProcFlag, Remap, PublishLines,
                DangerDetection, TestWarnFlags, Ring!vars
  <2>2. CASE Index
    BY <2>2 DEF Index, Ring!ComputeIndex, Ring!Next
  <2>3. CASE Grab
    BY <2>3 DEF Grab, Ring!GrabFrame, Ring!Next
  <2> QED BY <1>2, <2>1, <2>2, <2>3 DEF ProcNext
<1>3. CASE StoreNext
  <2> USE DEF StoreOthers
  <2>1. CASE StoreLoop \/ StoreExit
    BY <2>1 DEF StoreLoop, StoreExit, SignalProc, Ring!vars
  <2>2. CASE StoreWait
    BY <2>2 DEF StoreWait, Ring!WaitFrame, Ring!Next
  <2>3. CASE StoreBegin
    BY <2>3 DEF StoreBegin, Ring!BeginWrite, Ring!Next
  <2>4. CASE StoreEnd
    BY <2>4 DEF StoreEnd, Ring!EndWrite, Ring!Next
  <2> QED BY <1>3, <2>1, <2>2, <2>3, <2>4 DEF StoreNext
<1>4. CASE WarnNext
  BY <1>4 DEF WarnNext, WarnWait, WarnOpen, WarnOff, WarnOthers, Ring!vars
<1>5. CASE MainNext
  BY <1>5 DEF MainNext, Join, SendUnmount, DestroyLocals, Exit, MainOthers, Ring!vars
<1>6. CASE WakeSpuriously
  BY <1>6 DEF WakeSpuriously, ProcSpuriousWakeup, WarnSpuriousWakeup,
              ProcOthers, WarnOthers, Ring!vars
<1>7. CASE HandlerNext
  BY <1>7 DEF HandlerNext, SigButton, SigEngine, SigWarnSys, HandlerOthers,
              Ring!vars
<1>8. CASE UNCHANGED vars
  BY <1>8 DEF vars, Ring!vars
<1> QED BY <1>1, <1>2, <1>3, <1>4, <1>5, <1>6, <1>7, <1>8 DEF Next

(* The main process implements FrameRing.                                  *)
THEOREM ImplementsRing == Spec => RingSpec
BY RingInit, RingStep, PTL DEF Spec, RingSpec, Ring!Spec

(* RingProofs is the same instance of FrameRing as Ring.                   *)
LEMMA SameInit == Ring!Init <=> RingProofs!Init
BY DEF Ring!Init, RingProofs!Init, Ring!Slots, RingProofs!Slots, Ring!Empty,
       RingProofs!Empty, Ring!Frames, RingProofs!Frames

LEMMA SameType == Ring!TypeOK <=> RingProofs!TypeOK
BY DEF Ring!TypeOK, RingProofs!TypeOK, Ring!Slots, RingProofs!Slots,
       Ring!Frames, RingProofs!Frames

LEMMA SameNext ==
  [Ring!Next]_(Ring!vars) <=> [RingProofs!Next]_(RingProofs!vars)
<1>1. Ring!vars = RingProofs!vars /\ (Ring!vars)' = (RingProofs!vars)'
  BY DEF Ring!vars, RingProofs!vars
<1>0. Ring!CaptureFrame <=> RingProofs!CaptureFrame
  <2>1. Ring!CopyPicture <=> RingProofs!CopyPicture
    <3>1. /\ Ring!Failed = RingProofs!Failed /\ Ring!Frames = RingProofs!Frames
          /\ Ring!Empty = RingProofs!Empty
      BY DEF Ring!Failed, RingProofs!Failed, Ring!Frames, RingProofs!Frames,
             Ring!Empty, RingProofs!Empty
    <3>2. Ring!Cardinality(Ring!Failed) = RingProofs!Cardinality(Ring!Failed)
      BY DEF Ring!Cardinality, RingProofs!Cardinality
    <3> QED BY <3>1, <3>2 DEF Ring!CopyPicture, RingProofs!CopyPicture
  <2> QED BY <2>1 DEF Ring!CaptureFrame, RingProofs!CaptureFrame,
         Ring!storeVars, RingProofs!storeVars, Ring!procVars,
         RingProofs!procVars
<1>2. /\ Ring!PutFrame <=> RingProofs!PutFrame
      /\ Ring!PostFrame <=> RingProofs!PostFrame
      /\ Ring!WaitFrame <=> RingProofs!WaitFrame
      /\ Ring!BeginWrite <=> RingProofs!BeginWrite
      /\ Ring!GrabFrame <=> RingProofs!GrabFrame
  BY DEF Ring!PutFrame, RingProofs!PutFrame, Ring!PostFrame, RingProofs!PostFrame,
         Ring!WaitFrame, RingProofs!WaitFrame, Ring!BeginWrite,
         RingProofs!BeginWrite, Ring!GrabFrame, RingProofs!GrabFrame,
         Ring!MutexFrameBuffFree, RingProofs!MutexFrameBuffFree,
         Ring!acqVars, RingProofs!acqVars, Ring!storeVars,
         RingProofs!storeVars, Ring!procVars, RingProofs!procVars
<1>3. Ring!AdvanceWrite <=> RingProofs!AdvanceWrite
  BY DEF Ring!AdvanceWrite, RingProofs!AdvanceWrite, Ring!Increment,
         RingProofs!Increment, Ring!storeVars, RingProofs!storeVars,
         Ring!procVars, RingProofs!procVars
<1>4. Ring!EndWrite <=> RingProofs!EndWrite
  BY DEF Ring!EndWrite, RingProofs!EndWrite, Ring!Increment,
         RingProofs!Increment, Ring!Empty,
         RingProofs!Empty, Ring!acqVars, RingProofs!acqVars, Ring!procVars,
         RingProofs!procVars
<1>5. Ring!ComputeIndex <=> RingProofs!ComputeIndex
  BY DEF Ring!ComputeIndex, RingProofs!ComputeIndex, Ring!Previous,
         RingProofs!Previous, Ring!Advanced, RingProofs!Advanced,
         Ring!acqVars, RingProofs!acqVars, Ring!storeVars,
         RingProofs!storeVars
<1> QED BY <1>0, <1>1, <1>2, <1>3, <1>4, <1>5 DEF Ring!Next, RingProofs!Next

-----------------------------------------------------------------------------
(***************************************************************************)
(* The inductive invariants of the threads                                 *)
(***************************************************************************)
(* Frames put in a slot, and frames advanced past.                         *)
Written == RingProofs!Written
Advanced == RingProofs!Advanced

(* What tProcessFrame has, and the lines it has published, come from a     *)
(* frame that was put in a slot.                                           *)
LinesInv ==
  /\ acq \notin {"spin", "check", "capture", "done"} => captured > 0
  /\ frameBeingProcessed <= Written /\ processedFrame <= Written

(* Before END only tAcqnMergeFrame wakes tProcessFrame, after a post: there*)
(* is a frame for it, and writeIndex has passed the one it last copied.    *)
WakeInv ==
  ~On("END") /\ "proc" \notin SpuriousWakeups =>
    /\ store \notin {"exit", "done"}
    /\ proc \in {"woken", "index"} =>
         Advanced > 0 /\ frameBeingProcessed <= Advanced
    /\ proc = "grab" => newest > 0 /\ frameBeingProcessed <= newest
    /\ proc = "remap" => frameBeingProcessed # Empty

(* main joins tStoreFrame before it asks for the unmount.                  *)
JoinInv == main \in {"unmount", "return", "exit"} => store = "done"

(* The index is written when tStoreFrame has been joined, and lists all.   *)
IndexInv == videoIndex # None => main = "exit" /\ videoIndex = Ring!Stored

-----------------------------------------------------------------------------
(* The handler's update keeps controlWord a set of flags, and END in it.   *)
LEMMA UpdateFlags ==
  ASSUME NEW w \in SUBSET Flag, NEW s \in Sig
  PROVE  Update(w, s) \in SUBSET Flag /\ ("END" \in w => "END" \in Update(w, s))
BY DEF Update, Toggle, Flag, Sig, ButtonSig

(* Every variable keeps its type; the ring's are RingHolds's concern.      *)
LEMMA TypeNext ==
  ASSUME RingProofs!RingInv, (RingProofs!RingInv)', TypeOK, [Next]_vars
  PROVE  TypeOK'
<1>0. Ring!TypeOK /\ (Ring!TypeOK)'
  BY RoadBuddyAssumption
     DEF Ring!TypeOK, RingProofs!RingInv, RingProofs!TypeOK, Ring!Slots,
         RingProofs!Slots, Ring!Frames, RingProofs!Frames
<1>a. frameBeingProcessed \in Ring!Frames /\ Empty \in Ring!Frames
  BY <1>0, RoadBuddyAssumption DEF Ring!TypeOK, Ring!Frames, Empty, Ring!Empty
<1> USE <1>0, <1>a DEF TypeOK, ring, flags, AcqOthers, ProcOthers, StoreOthers,
            WarnOthers, MainOthers, HandlerOthers, SignalProc
<1>1. CASE AcqNext
  <2>1. CASE EngineOn
    BY <2>1 DEF EngineOn
  <2>2. CASE AcqLoop
    BY <2>2 DEF AcqLoop
  <2>3. CASE Capture
    BY <2>3 DEF Capture, Ring!CaptureFrame
  <2>4. CASE TestLines
    BY <2>4 DEF TestLines
  <2>5. CASE AddLines
    BY <2>5 DEF AddLines
  <2>6. CASE Put
    BY <2>6 DEF Put, Ring!PutFrame
  <2>7. CASE Advance
    BY <2>7 DEF Advance, Ring!AdvanceWrite
  <2>8. CASE Post
    BY <2>8 DEF Post, Ring!PostFrame
  <2>9. CASE Notify
    BY <2>9 DEF Notify
  <2> QED BY <1>1, <2>1, <2>2, <2>3, <2>4, <2>5, <2>6, <2>7, <2>8, <2>9 DEF AcqNext
<1>2. CASE ProcNext
  <2>1. CASE ProcLoop
    BY <2>1 DEF ProcLoop
  <2>2. CASE ProcWait
    BY <2>2 DEF ProcWait
  <2>3. CASE TestProcFlag
    BY <2>3 DEF TestProcFlag
  <2>4. CASE Index
    BY <2>4 DEF Index, Ring!ComputeIndex
  <2>5. CASE Grab
    BY <2>5 DEF Grab, Ring!GrabFrame
  <2>6. CASE Remap
    BY <2>6 DEF Remap
  <2>7. CASE PublishLines
    BY <2>7 DEF PublishLines
  <2>8. CASE DangerDetection
    BY <2>8, RoadBuddyAssumption DEF DangerDetection
  <2>9. CASE TestWarnFlags
    BY <2>9 DEF TestWarnFlags
  <2> QED BY <1>2, <2>1, <2>2, <2>3, <2>4, <2>5, <2>6, <2>7, <2>8, <2>9 DEF ProcNext
<1>3. CASE StoreNext
  <2>1. CASE StoreLoop
    BY <2>1 DEF StoreLoop
  <2>2. CASE StoreWait
    BY <2>2 DEF StoreWait, Ring!WaitFrame
  <2>3. CASE StoreBegin
    BY <2>3 DEF StoreBegin, Ring!BeginWrite
  <2>4. CASE StoreEnd
    BY <2>4 DEF StoreEnd, Ring!EndWrite
  <2>5. CASE StoreExit
    BY <2>5 DEF StoreExit
  <2> QED BY <1>3, <2>1, <2>2, <2>3, <2>4, <2>5 DEF StoreNext
<1>4. CASE WarnNext
  <2>1. CASE WarnWait
    BY <2>1 DEF WarnWait
  <2>2. CASE WarnOpen
    BY <2>2 DEF WarnOpen
  <2>3. CASE WarnOff
    BY <2>3 DEF WarnOff
  <2> QED BY <1>4, <2>1, <2>2, <2>3 DEF WarnNext
<1>5. CASE MainNext
  <2>1. CASE Join
    BY <2>1 DEF Join
  <2>2. CASE SendUnmount
    BY <2>2 DEF SendUnmount
  <2>3. CASE DestroyLocals
    <3>1. Ring!Stored \in Nat
      BY DEF Ring!TypeOK, Ring!Stored
    <3> QED BY <2>3, <3>1 DEF DestroyLocals
  <2>4. CASE Exit
    BY <2>4 DEF Exit
  <2> QED BY <1>5, <2>1, <2>2, <2>3, <2>4 DEF MainNext
<1>6. CASE WakeSpuriously
  <2>1. CASE ProcSpuriousWakeup
    BY <2>1 DEF ProcSpuriousWakeup
  <2>2. CASE WarnSpuriousWakeup
    BY <2>2 DEF WarnSpuriousWakeup
  <2> QED BY <1>6, <2>1, <2>2 DEF WakeSpuriously
<1>7. CASE HandlerNext
  <2>1. CASE SigButton
    <3>1. controlWord' \in SUBSET Flag
      BY <2>1, UpdateFlags DEF SigButton, Sig
    <3> QED BY <2>1, <3>1, RoadBuddyAssumption DEF SigButton
  <2>2. CASE SigEngine
    <3>1. controlWord' \in SUBSET Flag
      BY <2>2, UpdateFlags DEF SigEngine, Sig
    <3> QED BY <2>2, <3>1 DEF SigEngine
  <2>3. CASE SigWarnSys
    <3>1. controlWord' \in SUBSET Flag
      BY <2>3, UpdateFlags DEF SigWarnSys, Sig
    <3>2. warnPending' \in BOOLEAN /\ presses' = presses
      BY <2>3 DEF SigWarnSys
    <3>3. UNCHANGED <<processedFrame, videoIndex, acq, proc, store, warn, main,
                      process>>
      BY <2>3 DEF SigWarnSys
    <3> QED BY ONLY TypeOK, (Ring!TypeOK)', <3>1, <3>2, <3>3 DEF TypeOK
  <2> QED BY <1>7, <2>1, <2>2, <2>3 DEF HandlerNext
<1>8. CASE UNCHANGED vars
  BY <1>8 DEF vars
<1> QED BY <1>1, <1>2, <1>3, <1>4, <1>5, <1>6, <1>7, <1>8 DEF Next

(* The counts, read off the places of tAcqnMergeFrame, and what the laws   *)
(* of the ring say of them.                                                *)
LEMMA RingFacts ==
  ASSUME RingProofs!RingInv, TypeOK
  PROVE  /\ Written = IF acq \in {"merge", "add", "put"} THEN captured - 1
                                                        ELSE captured
         /\ Advanced = IF acq \in {"merge", "add", "put", "advance"}
                         THEN captured - 1 ELSE captured
         /\ captured \in Nat /\ newest \in Nat
         /\ frameBeingProcessed \in Nat /\ processedFrame \in Nat
         /\ procIndex \in RingProofs!Slots
         /\ \A i \in RingProofs!Slots :
              frameBuff[i] \in Nat /\ frameBuff[i] <= Written
         /\ proc = "grab" => frameBuff[procIndex] >= newest
         /\ Empty = 0
<1> USE RoadBuddyAssumption
        DEF RingAcq, RingStore, RingProc, RingProofs!RingInv,
            RingProofs!TypeOK, RingProofs!Frames
<1>1. captured \in Nat /\ newest \in Nat /\ frameBeingProcessed \in Nat
  OBVIOUS
<1>2. processedFrame \in Nat
  BY DEF TypeOK, Ring!Frames
<1>3. Written = IF acq \in {"merge", "add", "put"} THEN captured - 1
                                                  ELSE captured
  BY DEF TypeOK, Written, RingProofs!Written
<1>4. Advanced = IF acq \in {"merge", "add", "put", "advance"}
                   THEN captured - 1 ELSE captured
  BY DEF TypeOK, Advanced, RingProofs!Advanced
<1>5. procIndex \in RingProofs!Slots /\ frameBuff \in [RingProofs!Slots -> Nat]
  OBVIOUS
<1>6. ASSUME NEW i \in RingProofs!Slots
      PROVE  frameBuff[i] \in Nat /\ frameBuff[i] <= Written
  <2>1. captured > 0 \/ Written = captured
    BY <1>3
  <2> QED BY <1>1, <1>3, <1>5, <2>1
          DEF RingProofs!SlotLaw, RingProofs!Empty, Written
<1>7. proc = "grab" => frameBuff[procIndex] >= newest
  BY DEF RingProofs!IndexedLaw
<1> QED BY <1>1, <1>2, <1>3, <1>4, <1>5, <1>6, <1>7 DEF Empty, Ring!Empty

(* Only a frame in a slot is copied, and only copied frames are published. *)
LEMMA LinesNext ==
  ASSUME RingProofs!RingInv, TypeOK, TypeOK', LinesInv, [Next]_vars
  PROVE  LinesInv'
<1>0. /\ captured \in Nat /\ newest \in Nat
      /\ frameBeingProcessed \in Nat /\ processedFrame \in Nat
      /\ procIndex \in RingProofs!Slots
  BY RingFacts
<1>a. /\ Written = IF acq \in {"merge", "add", "put"} THEN captured - 1
                                                     ELSE captured
      /\ Advanced = IF acq \in {"merge", "add", "put", "advance"}
                      THEN captured - 1 ELSE captured
      /\ Empty = 0
  BY RingFacts
<1>b. /\ Written' = IF acq' \in {"merge", "add", "put"} THEN captured' - 1
                                                       ELSE captured'
      /\ Advanced' = IF acq' \in {"merge", "add", "put", "advance"}
                       THEN captured' - 1 ELSE captured'
  BY DEF TypeOK, Written, RingProofs!Written, Advanced, RingProofs!Advanced,
         RingAcq
<1>c. /\ frameBuff[procIndex] \in Nat /\ frameBuff[procIndex] <= Written
      /\ proc = "grab" => frameBuff[procIndex] >= newest
  BY RingFacts
<1> USE <1>0, <1>a, <1>b, <1>c
        DEF LinesInv, ring, flags, AcqOthers, ProcOthers, StoreOthers, WarnOthers,
            MainOthers, HandlerOthers, SignalProc,
            Ring!storeVars, Ring!procVars, Ring!acqVars
<1>1. CASE AcqNext
  <2>1. CASE EngineOn
    BY <2>1 DEF EngineOn
  <2>2. CASE AcqLoop
    BY <2>2 DEF AcqLoop
  <2>3. CASE Capture
    BY <2>3 DEF Capture, Ring!CaptureFrame
  <2>4. CASE TestLines
    BY <2>4 DEF TestLines
  <2>5. CASE AddLines
    BY <2>5 DEF AddLines
  <2>6. CASE Put
    BY <2>6 DEF Put, Ring!PutFrame
  <2>7. CASE Advance
    BY <2>7 DEF Advance, Ring!AdvanceWrite
  <2>8. CASE Post
    BY <2>8 DEF Post, Ring!PostFrame
  <2>9. CASE Notify
    BY <2>9 DEF Notify
  <2> QED BY <1>1, <2>1, <2>2, <2>3, <2>4, <2>5, <2>6, <2>7, <2>8, <2>9 DEF AcqNext
<1>2. CASE ProcNext
  <2>1. CASE ProcLoop
    BY <2>1 DEF ProcLoop
  <2>2. CASE ProcWait
    BY <2>2 DEF ProcWait
  <2>3. CASE TestProcFlag
    BY <2>3 DEF TestProcFlag
  <2>4. CASE Index
    BY <2>4 DEF Index, Ring!ComputeIndex
  <2>5. CASE Grab
    BY <2>5 DEF Grab, Ring!GrabFrame
  <2>6. CASE Remap
    BY <2>6 DEF Remap
  <2>7. CASE PublishLines
    BY <2>7 DEF PublishLines
  <2>8. CASE DangerDetection
    BY <2>8 DEF DangerDetection
  <2>9. CASE TestWarnFlags
    BY <2>9 DEF TestWarnFlags
  <2> QED BY <1>2, <2>1, <2>2, <2>3, <2>4, <2>5, <2>6, <2>7, <2>8, <2>9 DEF ProcNext
<1>3. CASE StoreNext
  <2>1. CASE StoreLoop
    BY <2>1 DEF StoreLoop
  <2>2. CASE StoreWait
    BY <2>2 DEF StoreWait, Ring!WaitFrame
  <2>3. CASE StoreBegin
    BY <2>3 DEF StoreBegin, Ring!BeginWrite
  <2>4. CASE StoreEnd
    BY <2>4 DEF StoreEnd, Ring!EndWrite
  <2>5. CASE StoreExit
    BY <2>5 DEF StoreExit
  <2> QED BY <1>3, <2>1, <2>2, <2>3, <2>4, <2>5 DEF StoreNext
<1>4. CASE WarnNext
  <2>1. CASE WarnWait
    BY <2>1 DEF WarnWait
  <2>2. CASE WarnOpen
    BY <2>2 DEF WarnOpen
  <2>3. CASE WarnOff
    BY <2>3 DEF WarnOff
  <2> QED BY <1>4, <2>1, <2>2, <2>3 DEF WarnNext
<1>5. CASE MainNext
  <2>1. CASE Join
    BY <2>1 DEF Join
  <2>2. CASE SendUnmount
    BY <2>2 DEF SendUnmount
  <2>3. CASE DestroyLocals
    BY <2>3 DEF DestroyLocals
  <2>4. CASE Exit
    BY <2>4 DEF Exit
  <2> QED BY <1>5, <2>1, <2>2, <2>3, <2>4 DEF MainNext
<1>6. CASE WakeSpuriously
  <2>1. CASE ProcSpuriousWakeup
    BY <2>1 DEF ProcSpuriousWakeup
  <2>2. CASE WarnSpuriousWakeup
    BY <2>2 DEF WarnSpuriousWakeup
  <2> QED BY <1>6, <2>1, <2>2 DEF WakeSpuriously
<1>7. CASE HandlerNext
  <2>1. CASE SigButton
    BY <2>1 DEF SigButton
  <2>2. CASE SigEngine
    BY <2>2 DEF SigEngine
  <2>3. CASE SigWarnSys
    BY <2>3 DEF SigWarnSys
  <2> QED BY <1>7, <2>1, <2>2, <2>3 DEF HandlerNext
<1>8. CASE UNCHANGED vars
  BY <1>8 DEF vars
<1> QED BY <1>1, <1>2, <1>3, <1>4, <1>5, <1>6, <1>7, <1>8 DEF Next

(* END stays set, and before it tProcessFrame is woken by a post only.     *)
LEMMA WakeNext ==
  ASSUME RingProofs!RingInv, TypeOK, TypeOK', LinesInv, WakeInv, [Next]_vars
  PROVE  WakeInv'
<1>0. /\ captured \in Nat /\ newest \in Nat
      /\ frameBeingProcessed \in Nat /\ processedFrame \in Nat
      /\ procIndex \in RingProofs!Slots
  BY RingFacts
<1>a. /\ Written = IF acq \in {"merge", "add", "put"} THEN captured - 1
                                                     ELSE captured
      /\ Advanced = IF acq \in {"merge", "add", "put", "advance"}
                      THEN captured - 1 ELSE captured
      /\ Empty = 0
  BY RingFacts
<1>b. /\ Written' = IF acq' \in {"merge", "add", "put"} THEN captured' - 1
                                                       ELSE captured'
      /\ Advanced' = IF acq' \in {"merge", "add", "put", "advance"}
                       THEN captured' - 1 ELSE captured'
  BY DEF TypeOK, Written, RingProofs!Written, Advanced, RingProofs!Advanced,
         RingAcq
<1>c. /\ frameBuff[procIndex] \in Nat /\ frameBuff[procIndex] <= Written
      /\ proc = "grab" => frameBuff[procIndex] >= newest
  BY RingFacts
<1> USE <1>0, <1>a, <1>b, <1>c
        DEF LinesInv, WakeInv, On, ring, flags, AcqOthers, ProcOthers,
            StoreOthers, WarnOthers, MainOthers, HandlerOthers, SignalProc,
            Ring!storeVars, Ring!procVars, Ring!acqVars
<1>1. CASE AcqNext
  <2>1. CASE EngineOn
    BY <2>1 DEF EngineOn
  <2>2. CASE AcqLoop
    BY <2>2 DEF AcqLoop
  <2>3. CASE Capture
    BY <2>3 DEF Capture, Ring!CaptureFrame
  <2>4. CASE TestLines
    BY <2>4 DEF TestLines
  <2>5. CASE AddLines
    BY <2>5 DEF AddLines
  <2>6. CASE Put
    BY <2>6 DEF Put, Ring!PutFrame
  <2>7. CASE Advance
    BY <2>7 DEF Advance, Ring!AdvanceWrite
  <2>8. CASE Post
    BY <2>8 DEF Post, Ring!PostFrame
  <2>9. CASE Notify
    BY <2>9 DEF Notify
  <2> QED BY <1>1, <2>1, <2>2, <2>3, <2>4, <2>5, <2>6, <2>7, <2>8, <2>9 DEF AcqNext
<1>2. CASE ProcNext
  <2>1. CASE ProcLoop
    BY <2>1 DEF ProcLoop
  <2>2. CASE ProcWait
    BY <2>2 DEF ProcWait
  <2>3. CASE TestProcFlag
    BY <2>3 DEF TestProcFlag
  <2>4. CASE Index
    <3>1. newest' = Advanced
      BY <2>4 DEF Index, Ring!ComputeIndex, Ring!Advanced, Advanced,
               RingProofs!Advanced
    <3> QED BY <2>4, <3>1 DEF Index, Ring!ComputeIndex
  <2>5. CASE Grab
    BY <2>5 DEF Grab, Ring!GrabFrame
  <2>6. CASE Remap
    BY <2>6 DEF Remap
  <2>7. CASE PublishLines
    BY <2>7 DEF PublishLines
  <2>8. CASE DangerDetection
    BY <2>8 DEF DangerDetection
  <2>9. CASE TestWarnFlags
    BY <2>9 DEF TestWarnFlags
  <2> QED BY <1>2, <2>1, <2>2, <2>3, <2>4, <2>5, <2>6, <2>7, <2>8, <2>9 DEF ProcNext
<1>3. CASE StoreNext
  <2>1. CASE StoreLoop
    BY <2>1 DEF StoreLoop
  <2>2. CASE StoreWait
    BY <2>2 DEF StoreWait, Ring!WaitFrame
  <2>3. CASE StoreBegin
    BY <2>3 DEF StoreBegin, Ring!BeginWrite
  <2>4. CASE StoreEnd
    BY <2>4 DEF StoreEnd, Ring!EndWrite
  <2>5. CASE StoreExit
    BY <2>5 DEF StoreExit
  <2> QED BY <1>3, <2>1, <2>2, <2>3, <2>4, <2>5 DEF StoreNext
<1>4. CASE WarnNext
  <2>1. CASE WarnWait
    BY <2>1 DEF WarnWait
  <2>2. CASE WarnOpen
    BY <2>2 DEF WarnOpen
  <2>3. CASE WarnOff
    BY <2>3 DEF WarnOff
  <2> QED BY <1>4, <2>1, <2>2, <2>3 DEF WarnNext
<1>5. CASE MainNext
  <2>1. CASE Join
    BY <2>1 DEF Join
  <2>2. CASE SendUnmount
    BY <2>2 DEF SendUnmount
  <2>3. CASE DestroyLocals
    BY <2>3 DEF DestroyLocals
  <2>4. CASE Exit
    BY <2>4 DEF Exit
  <2> QED BY <1>5, <2>1, <2>2, <2>3, <2>4 DEF MainNext
<1>6. CASE WakeSpuriously
  <2>1. CASE ProcSpuriousWakeup
    BY <2>1 DEF ProcSpuriousWakeup
  <2>2. CASE WarnSpuriousWakeup
    BY <2>2 DEF WarnSpuriousWakeup
  <2> QED BY <1>6, <2>1, <2>2 DEF WakeSpuriously
<1>7. CASE HandlerNext
  <2>1. CASE SigButton
    <3>1. "END" \in controlWord => "END" \in controlWord'
      BY <2>1, UpdateFlags DEF SigButton, TypeOK, Sig
    <3> QED BY <2>1, <3>1 DEF SigButton
  <2>2. CASE SigEngine
    <3>1. "END" \in controlWord => "END" \in controlWord'
      BY <2>2, UpdateFlags DEF SigEngine, TypeOK, Sig
    <3> QED BY <2>2, <3>1 DEF SigEngine
  <2>3. CASE SigWarnSys
    <3>1. "END" \in controlWord => "END" \in controlWord'
      BY <2>3, UpdateFlags DEF SigWarnSys, TypeOK, Sig
    <3> QED BY <2>3, <3>1 DEF SigWarnSys
  <2> QED BY <1>7, <2>1, <2>2, <2>3 DEF HandlerNext
<1>8. CASE UNCHANGED vars
  BY <1>8 DEF vars
<1> QED BY <1>1, <1>2, <1>3, <1>4, <1>5, <1>6, <1>7, <1>8 DEF Next

(* A thread that has been joined does not run again.                       *)
LEMMA JoinNext ==
  ASSUME JoinInv, [Next]_vars
  PROVE  JoinInv'
<1> USE DEF JoinInv, ring, flags, AcqOthers, ProcOthers, StoreOthers, WarnOthers,
            MainOthers, HandlerOthers, SignalProc
<1>1. CASE AcqNext
  <2>1. CASE EngineOn
    BY <2>1 DEF EngineOn
  <2>2. CASE AcqLoop
    BY <2>2 DEF AcqLoop
  <2>3. CASE Capture
    BY <2>3 DEF Capture, Ring!CaptureFrame
  <2>4. CASE TestLines
    BY <2>4 DEF TestLines
  <2>5. CASE AddLines
    BY <2>5 DEF AddLines
  <2>6. CASE Put
    BY <2>6 DEF Put, Ring!PutFrame
  <2>7. CASE Advance
    BY <2>7 DEF Advance, Ring!AdvanceWrite
  <2>8. CASE Post
    BY <2>8 DEF Post, Ring!PostFrame
  <2>9. CASE Notify
    BY <2>9 DEF Notify
  <2> QED BY <1>1, <2>1, <2>2, <2>3, <2>4, <2>5, <2>6, <2>7, <2>8, <2>9 DEF AcqNext
<1>2. CASE ProcNext
  <2>1. CASE ProcLoop
    BY <2>1 DEF ProcLoop
  <2>2. CASE ProcWait
    BY <2>2 DEF ProcWait
  <2>3. CASE TestProcFlag
    BY <2>3 DEF TestProcFlag
  <2>4. CASE Index
    BY <2>4 DEF Index, Ring!ComputeIndex
  <2>5. CASE Grab
    BY <2>5 DEF Grab, Ring!GrabFrame
  <2>6. CASE Remap
    BY <2>6 DEF Remap
  <2>7. CASE PublishLines
    BY <2>7 DEF PublishLines
  <2>8. CASE DangerDetection
    BY <2>8 DEF DangerDetection
  <2>9. CASE TestWarnFlags
    BY <2>9 DEF TestWarnFlags
  <2> QED BY <1>2, <2>1, <2>2, <2>3, <2>4, <2>5, <2>6, <2>7, <2>8, <2>9 DEF ProcNext
<1>3. CASE StoreNext
  <2>1. CASE StoreLoop
    BY <2>1 DEF StoreLoop
  <2>2. CASE StoreWait
    BY <2>2 DEF StoreWait, Ring!WaitFrame
  <2>3. CASE StoreBegin
    BY <2>3 DEF StoreBegin, Ring!BeginWrite
  <2>4. CASE StoreEnd
    BY <2>4 DEF StoreEnd, Ring!EndWrite
  <2>5. CASE StoreExit
    BY <2>5 DEF StoreExit
  <2> QED BY <1>3, <2>1, <2>2, <2>3, <2>4, <2>5 DEF StoreNext
<1>4. CASE WarnNext
  <2>1. CASE WarnWait
    BY <2>1 DEF WarnWait
  <2>2. CASE WarnOpen
    BY <2>2 DEF WarnOpen
  <2>3. CASE WarnOff
    BY <2>3 DEF WarnOff
  <2> QED BY <1>4, <2>1, <2>2, <2>3 DEF WarnNext
<1>5. CASE MainNext
  <2>1. CASE Join
    BY <2>1 DEF Join
  <2>2. CASE SendUnmount
    BY <2>2 DEF SendUnmount
  <2>3. CASE DestroyLocals
    BY <2>3 DEF DestroyLocals
  <2>4. CASE Exit
    BY <2>4 DEF Exit
  <2> QED BY <1>5, <2>1, <2>2, <2>3, <2>4 DEF MainNext
<1>6. CASE WakeSpuriously
  <2>1. CASE ProcSpuriousWakeup
    BY <2>1 DEF ProcSpuriousWakeup
  <2>2. CASE WarnSpuriousWakeup
    BY <2>2 DEF WarnSpuriousWakeup
  <2> QED BY <1>6, <2>1, <2>2 DEF WakeSpuriously
<1>7. CASE HandlerNext
  <2>1. CASE SigButton
    BY <2>1 DEF SigButton
  <2>2. CASE SigEngine
    BY <2>2 DEF SigEngine
  <2>3. CASE SigWarnSys
    BY <2>3 DEF SigWarnSys
  <2> QED BY <1>7, <2>1, <2>2, <2>3 DEF HandlerNext
<1>8. CASE UNCHANGED vars
  BY <1>8 DEF vars
<1> QED BY <1>1, <1>2, <1>3, <1>4, <1>5, <1>6, <1>7, <1>8 DEF Next

(* A step changes the video in tStoreFrame only.                           *)
LEMMA VideoStep ==
  ASSUME [Next]_vars, store = "done"
  PROVE  video' = video /\ stored' = stored
<1>1. RingStore = "wait"
  BY DEF RingStore
<1>2. [Ring!Next]_(Ring!vars)
  BY RingStep
<1> QED BY <1>1, <1>2 DEF Ring!Next, Ring!vars, Ring!CaptureFrame,
       Ring!PutFrame, Ring!AdvanceWrite, Ring!PostFrame, Ring!WaitFrame,
       Ring!BeginWrite, Ring!EndWrite, Ring!ComputeIndex, Ring!GrabFrame,
       Ring!storeVars, Ring!procVars, Ring!acqVars

(* The index lists the frames there are when it is written; that is when   *)
(* main's locals are destroyed, and main then only exits.                  *)
LEMMA IndexStep ==
  ASSUME [Next]_vars
  PROVE  \/ videoIndex' = videoIndex /\ (main = "exit" => main' = "exit")
         \/ /\ main = "return" /\ main' = "exit"
            /\ videoIndex' = Ring!Stored
<1> USE DEF AcqOthers, ProcOthers, StoreOthers, WarnOthers, MainOthers,
            HandlerOthers, SignalProc
<1>1. CASE AcqNext
  BY <1>1 DEF AcqNext, EngineOn, AcqLoop, Capture, TestLines, AddLines, Put,
     Advance, Post, Notify
<1>2. CASE ProcNext
  BY <1>2 DEF ProcNext, ProcLoop, ProcWait, TestProcFlag, Index, Grab, Remap,
     PublishLines, DangerDetection, TestWarnFlags
<1>3. CASE StoreNext
  BY <1>3 DEF StoreNext, StoreLoop, StoreWait, StoreBegin, StoreEnd, StoreExit
<1>4. CASE WarnNext
  BY <1>4 DEF WarnNext, WarnWait, WarnOpen, WarnOff
<1>5. CASE MainNext
  BY <1>5 DEF MainNext, Join, SendUnmount, DestroyLocals, Exit
<1>6. CASE WakeSpuriously
  BY <1>6 DEF WakeSpuriously, ProcSpuriousWakeup, WarnSpuriousWakeup
<1>7. CASE HandlerNext
  BY <1>7 DEF HandlerNext, SigButton, SigEngine, SigWarnSys
<1>8. CASE UNCHANGED vars
  BY <1>8 DEF vars
<1> QED BY <1>1, <1>2, <1>3, <1>4, <1>5, <1>6, <1>7, <1>8 DEF Next

(* So no frame can be stored after the index.                              *)
LEMMA IndexNext ==
  ASSUME JoinInv, IndexInv, [Next]_vars
  PROVE  IndexInv'
<1>1. main \in {"return", "exit"} => stored' = stored
  BY VideoStep DEF JoinInv
<1>2. (Ring!Stored)' = Len(stored') /\ Ring!Stored = Len(stored)
  BY DEF Ring!Stored
<1> QED BY <1>1, <1>2, IndexStep DEF IndexInv

-----------------------------------------------------------------------------
(* The laws of the ring and of the threads together.                       *)
MainInv ==
  /\ RingProofs!RingInv /\ TypeOK
  /\ LinesInv /\ WakeInv /\ JoinInv /\ IndexInv

(* They hold in every state of the process.                                *)
THEOREM MainInvariant == Spec => []MainInv
<1>1. Init => RingProofs!RingInv
  BY RingInit, SameInit, RingProofs!RingInvInit, RoadBuddyAssumption
<1>2. Init => TypeOK /\ LinesInv /\ WakeInv /\ JoinInv /\ IndexInv
  <2> SUFFICES ASSUME Init
               PROVE  TypeOK /\ LinesInv /\ WakeInv /\ JoinInv /\ IndexInv
    OBVIOUS
  <2>1. Ring!TypeOK
    BY <1>1, SameType DEF RingProofs!RingInv
  <2>2. TypeOK
    <3>1. processedFrame \in Ring!Frames /\ presses \in 0..MaxPresses
      BY RoadBuddyAssumption DEF Init, Ring!Frames, Ring!Empty, Empty
    <3>2. controlWord \subseteq Flag /\ warnPending \in BOOLEAN
      BY DEF Init, InitialWord, Flag
    <3> QED BY <2>1, <3>1, <3>2 DEF TypeOK, Init
  <2>3. Written = 0 /\ frameBeingProcessed = 0 /\ processedFrame = 0
    BY DEF Init, Ring!Init, Written, RingProofs!Written, RingAcq, Empty,
           Ring!Empty
  <2> QED BY <2>2, <2>3 DEF Init, LinesInv, WakeInv, JoinInv, IndexInv
<1>3. MainInv /\ [Next]_vars => MainInv'
  <2> SUFFICES ASSUME MainInv, [Next]_vars PROVE MainInv'
    OBVIOUS
  <2> USE DEF MainInv
  <2>1. (RingProofs!RingInv)'
    BY RingStep, SameNext, RingProofs!RingInvNext, RoadBuddyAssumption
  <2>2. TypeOK'
    BY <2>1, TypeNext
  <2> QED BY <2>1, <2>2, LinesNext, WakeNext, JoinNext, IndexNext
<1> QED BY <1>1, <1>2, <1>3, PTL DEF Spec, MainInv

(* The variables of the main process keep their types.                     *)
THEOREM MainTypes == Spec => []TypeOK
<1>1. MainInv => TypeOK
  BY DEF MainInv
<1> QED BY <1>1, MainInvariant, PTL

(* Without spurious wakeups no fresh slot is remapped before END.          *)
THEOREM FrameFirst == Spec => []FrameBeforeProcessing
<1>1. MainInv => FrameBeforeProcessing
  BY DEF MainInv, WakeInv, FrameBeforeProcessing
<1> QED BY <1>1, MainInvariant, PTL

(* Lines are merged in a later frame than the one they were found in.      *)
THEOREM LinesLater == Spec => []LinesFromEarlierFrame
<1>1. MainInv => LinesFromEarlierFrame
  BY RingFacts DEF MainInv, LinesInv, LinesFromEarlierFrame
<1> QED BY <1>1, MainInvariant, PTL

(* From a grab on, tProcessFrame has no earlier frame than before it.      *)
LEMMA ForwardStep ==
  ASSUME MainInv, [Next]_vars, ~On("END"), "proc" \notin SpuriousWakeups
  PROVE  frameBeingProcessed' >= frameBeingProcessed
<1>1. frameBeingProcessed \in Nat /\ newest \in Nat
  BY RingFacts DEF MainInv
<1>2. CASE Ring!GrabFrame
  <2>1. RingProc = "indexed" /\ frameBeingProcessed' = frameBuff[procIndex]
    BY <1>2 DEF Ring!GrabFrame
  <2>2. proc = "grab"
    BY <2>1 DEF RingProc
  <2>3. frameBuff[procIndex] \in Nat /\ frameBuff[procIndex] >= newest
    BY <2>2, RingFacts DEF MainInv
  <2>4. frameBeingProcessed <= newest
    BY <2>2 DEF MainInv, WakeInv
  <2> QED BY ONLY <1>1, <2>1, <2>3, <2>4
<1>3. CASE ~Ring!GrabFrame
  <2>1. frameBeingProcessed' = frameBeingProcessed
    BY <1>3, RingStep DEF Ring!Next, Ring!vars, Ring!CaptureFrame,
       Ring!PutFrame, Ring!AdvanceWrite, Ring!PostFrame, Ring!WaitFrame,
       Ring!BeginWrite, Ring!EndWrite, Ring!ComputeIndex, Ring!procVars
  <2> QED BY <1>1, <2>1
<1> QED BY <1>2, <1>3

(* tProcessFrame goes from frame to frame in the order of the captures.    *)
THEOREM NeverGoesBack == Spec => ProcessesForward
<1>1. MainInv /\ [Next]_vars =>
        [~On("END") /\ "proc" \notin SpuriousWakeups
           => frameBeingProcessed' >= frameBeingProcessed]_vars
  BY ForwardStep
<1> QED BY <1>1, MainInvariant, PTL DEF Spec, ProcessesForward

(* After the unmount was asked for only the index is written, and no frame *)
(* is missing in it.                                                       *)
THEOREM IndexWrittenLast == Spec => OnlyIndexAfterUnmount
<1>1. ASSUME MainInv, MainInv', [Next]_vars
      PROVE  /\ main \in {"return", "exit"} => video' = video
             /\ videoIndex' \in {videoIndex, Len(video)}
             /\ videoIndex # None => videoIndex' = Len(video')
  <2>1. Len(video) = Ring!Stored
    BY <1>1 DEF MainInv, RingProofs!RingInv, RingProofs!BegunLaw,
       RingProofs!Stored, Ring!Stored
  <2>2. main \in {"return", "exit"} => video' = video
    BY <1>1, VideoStep DEF MainInv, JoinInv
  <2>3. \/ videoIndex' = videoIndex
        \/ main = "return" /\ videoIndex' = Ring!Stored
    BY <1>1, IndexStep
  <2>4. videoIndex # None =>
          videoIndex = Len(video) /\ video' = video
    BY <1>1, <2>1, <2>2 DEF MainInv, IndexInv
  <2> QED BY <2>1, <2>2, <2>3, <2>4
<1>2. MainInv /\ MainInv' /\ [Next]_vars =>
        [/\ main \in {"return", "exit"} => video' = video
         /\ videoIndex' \in {videoIndex, Len(video)}
         /\ videoIndex # None => videoIndex' = Len(video')]_vars
  BY <1>1
<1> QED BY <1>2, MainInvariant, PTL DEF Spec, OnlyIndexAfterUnmount

(* The laws of the ring, and with them all that FrameRingProofs derives    *)
(* from them, hold in the main process.                                    *)
THEOREM RingHolds == Spec => []RingProofs!RingInv
<1>1. MainInv => RingProofs!RingInv
  BY DEF MainInv
<1> QED BY <1>1, MainInvariant, PTL

-----------------------------------------------------------------------------
(***************************************************************************)
(* The end of the process                                                  *)
(***************************************************************************)
(* The three threads end because of END only, and main joins them in turn. *)
EndedInv ==
  /\ acq = "done" \/ proc = "done" \/ store \in {"exit", "done"} => On("END")
  /\ main # "joinProc" => proc = "done"
  /\ main \notin {"joinProc", "joinAcq"} => acq = "done"
  /\ process = "exited" => main = "exit"

(* END is never cleared, and a thread that is done stays so.               *)
LEMMA EndedNext ==
  ASSUME TypeOK, EndedInv, [Next]_vars
  PROVE  EndedInv' /\ (On("END") => On("END")')
<1> USE DEF EndedInv, On, ring, flags, AcqOthers, ProcOthers, StoreOthers,
            WarnOthers, MainOthers, HandlerOthers, SignalProc
<1>1. CASE AcqNext
  BY <1>1 DEF AcqNext, EngineOn, AcqLoop, Capture, TestLines, AddLines, Put,
     Advance, Post, Notify
<1>2. CASE ProcNext
  BY <1>2 DEF ProcNext, ProcLoop, ProcWait, TestProcFlag, Index, Grab, Remap,
     PublishLines, DangerDetection, TestWarnFlags
<1>3. CASE StoreNext
  BY <1>3 DEF StoreNext, StoreLoop, StoreWait, StoreBegin, StoreEnd, StoreExit
<1>4. CASE WarnNext
  BY <1>4 DEF WarnNext, WarnWait, WarnOpen, WarnOff
<1>5. CASE MainNext
  BY <1>5 DEF MainNext, Join, SendUnmount, DestroyLocals, Exit
<1>6. CASE WakeSpuriously
  BY <1>6 DEF WakeSpuriously, ProcSpuriousWakeup, WarnSpuriousWakeup
<1>7. CASE HandlerNext
  <2>1. SigButton \/ SigEngine \/ SigWarnSys
    BY <1>7 DEF HandlerNext
  <2>2. UNCHANGED <<ring, acq, proc, store, main, process>>
    BY <2>1 DEF SigButton, SigEngine, SigWarnSys
  <2>3. controlWord \in SUBSET Flag
    BY DEF TypeOK
  <2>4. PICK s \in Sig : controlWord' = Update(controlWord, s)
    BY <2>1 DEF SigButton, SigEngine, SigWarnSys, Sig
  <2>5. On("END") => On("END")'
    BY <2>3, <2>4, UpdateFlags DEF On
  <2> QED BY <2>2, <2>5
<1>8. CASE UNCHANGED vars
  BY <1>8 DEF vars
<1> QED BY <1>1, <1>2, <1>3, <1>4, <1>5, <1>6, <1>7, <1>8 DEF Next

(* Before the pen drive is unmounted the engine has been switched off and  *)
(* every thread that uses the camera or the video has ended.               *)
UnmountsLast ==
  main \in {"unmount", "return", "exit"} \/ process = "exited" =>
    On("END") /\ acq = "done" /\ proc = "done" /\ store = "done"

(* main asks for the unmount, and the process returns, after all that.     *)
THEOREM UnmountsAfterEnd == Spec => []UnmountsLast
<1>1. Init => EndedInv
  BY DEF Init, EndedInv
<1>2. MainInv /\ EndedInv /\ [Next]_vars => EndedInv'
  BY EndedNext DEF MainInv
<1>3. MainInv /\ EndedInv => UnmountsLast
  BY DEF MainInv, JoinInv, EndedInv, UnmountsLast
<1> QED BY <1>1, <1>2, <1>3, MainInvariant, PTL DEF Spec

(* A tStoreFrame or tProcessFrame that has missed END never gets it.       *)
MissedForGood ==
  [][/\ StoreMissedEnd => StoreMissedEnd'
     /\ ProcMissedEnd /\ "proc" \notin SpuriousWakeups => ProcMissedEnd']_vars

(* The process then neither asks for the unmount nor returns from main.    *)
MissedInv ==
  StoreMissedEnd \/ ProcMissedEnd =>
    main \notin {"unmount", "return", "exit"} /\ process # "exited"

(* Nobody posts sem_frameprod or signals cond_tprocframe any more.         *)
LEMMA MissedStep ==
  ASSUME [Next]_vars
  PROVE  /\ StoreMissedEnd => StoreMissedEnd'
         /\ ProcMissedEnd /\ "proc" \notin SpuriousWakeups => ProcMissedEnd'
<1> USE DEF StoreMissedEnd, ProcMissedEnd, ring, flags, AcqOthers, ProcOthers,
            StoreOthers, WarnOthers, MainOthers, HandlerOthers, SignalProc
<1>1. CASE AcqNext
  <2>1. acq # "done"
    BY <1>1 DEF AcqNext, EngineOn, AcqLoop, Capture, TestLines, AddLines, Put,
       Advance, Post, Notify
  <2> QED BY <2>1
<1>2. CASE ProcNext
  BY <1>2 DEF ProcNext, ProcLoop, ProcWait, TestProcFlag, Index, Grab, Remap,
     PublishLines, DangerDetection, TestWarnFlags, Ring!ComputeIndex,
     Ring!GrabFrame
<1>3. CASE StoreNext
  <2>1. store # "done" /\ (store = "wait" => sem_frameprod > 0)
    BY <1>3 DEF StoreNext, StoreLoop, StoreWait, StoreBegin, StoreEnd, StoreExit,
       Ring!WaitFrame
  <2> QED BY <2>1
<1>4. CASE WarnNext
  BY <1>4 DEF WarnNext, WarnWait, WarnOpen, WarnOff
<1>5. CASE MainNext
  BY <1>5 DEF MainNext, Join, SendUnmount, DestroyLocals, Exit
<1>6. CASE WakeSpuriously
  BY <1>6 DEF WakeSpuriously, ProcSpuriousWakeup, WarnSpuriousWakeup
<1>7. CASE HandlerNext
  BY <1>7 DEF HandlerNext, SigButton, SigEngine, SigWarnSys
<1>8. CASE UNCHANGED vars
  BY <1>8 DEF vars
<1> QED BY <1>1, <1>2, <1>3, <1>4, <1>5, <1>6, <1>7, <1>8 DEF Next

(* The safety half of EndsOrMissesEnd: being stuck is for good.            *)
THEOREM StuckForGood == Spec => MissedForGood /\ []MissedInv
<1>1. [Next]_vars =>
        [/\ StoreMissedEnd => StoreMissedEnd'
         /\ ProcMissedEnd /\ "proc" \notin SpuriousWakeups => ProcMissedEnd']_vars
  BY MissedStep
<1>2. UnmountsLast => MissedInv
  BY DEF UnmountsLast, MissedInv, StoreMissedEnd, ProcMissedEnd
<1> QED BY <1>1, <1>2, UnmountsAfterEnd, PTL DEF Spec, MissedForGood

(* Each thread need not wait: the guards of its steps.                     *)
AcqCanStep ==
  /\ acq # "done"
  /\ acq = "spin" => On("ENG_STAT")
  /\ acq = "check" => On("END") \/ captured < MaxFrames
  /\ acq = "put" => store # "write"
ProcCanStep ==
  /\ proc \notin {"waiting", "done"}
  /\ proc = "grab" => store # "write"
  /\ proc = "publish" => acq # "add"
StoreCanStep == store # "done" /\ (store = "wait" => sem_frameprod > 0)
MainCanStep ==
  /\ main = "joinProc" => proc = "done"
  /\ main = "joinAcq" => acq = "done"
  /\ main = "joinStore" => store = "done"

(* After END, as long as the process runs, one of the threads that main    *)
(* joins or main need not wait, or it is one of the three missed ENDs.     *)
StopsOnlyByMissing ==
  process = "running" /\ On("END") =>
    \/ AcqCanStep \/ ProcCanStep \/ StoreCanStep \/ MainCanStep
    \/ SpinsForEngine \/ StoreMissedEnd \/ ProcMissedEnd

(* No circle of threads waits for one another: whoever holds               *)
(* mutex_framebuff or mutex_procframe waits for neither.                   *)
THEOREM StopsOnlyIfMissed == Spec => []StopsOnlyByMissing
<1>1. TypeOK => StopsOnlyByMissing
  <2> SUFFICES ASSUME TypeOK, On("END"), ~AcqCanStep, ~ProcCanStep,
                      ~StoreCanStep, ~MainCanStep, ~SpinsForEngine
               PROVE  StoreMissedEnd \/ ProcMissedEnd
    BY DEF StopsOnlyByMissing
  <2>1. store = "done" \/ (store = "wait" /\ ~(sem_frameprod > 0))
    BY DEF StoreCanStep
  <2>2. acq = "done"
    BY <2>1 DEF AcqCanStep, SpinsForEngine
  <2>3. sem_frameprod \in Nat
    BY DEF TypeOK, Ring!TypeOK
  <2>4. proc \in {"waiting", "done"}
    BY <2>1, <2>2 DEF ProcCanStep
  <2>5. ~(proc = "done" /\ store = "done")
    BY <2>2 DEF MainCanStep
  <2> QED BY <2>1, <2>2, <2>3, <2>4, <2>5 DEF StoreMissedEnd, ProcMissedEnd
<1> QED BY <1>1, MainTypes, PTL

-----------------------------------------------------------------------------
(* What FrameRingProofs proves of the ring holds of the main process.      *)
LEMMA ProcessRing == Spec => RingProofs!Spec
<1>1. RingProofs!Spec <=>
        RingProofs!Init /\ [][RingProofs!Next]_(RingProofs!vars)
  BY DEF RingProofs!Spec
<1>2. Init => RingProofs!Init
  BY RingInit, SameInit
<1>3. [Next]_vars => [RingProofs!Next]_(RingProofs!vars)
  BY RingStep, SameNext
<1> QED BY <1>1, <1>2, <1>3, PTL DEF Spec

(* Ring and RingProofs read the properties alike.                          *)
LEMMA SameProperties ==
  /\ RingProofs!NeverStoresFreshSlot <=> Ring!NeverStoresFreshSlot
  /\ RingProofs!StoresInTurn <=> Ring!StoresInTurn
  /\ RingProofs!LateByWholeLaps <=> Ring!LateByWholeLaps
  /\ RingProofs!GrabsNoOlderFrame <=> Ring!GrabsNoOlderFrame
  /\ RingProofs!TornByOne <=> Ring!TornByOne
BY DEF RingProofs!NeverStoresFreshSlot, Ring!NeverStoresFreshSlot,
       RingProofs!StoresInTurn, Ring!StoresInTurn,
       RingProofs!LateByWholeLaps, Ring!LateByWholeLaps,
       RingProofs!GrabsNoOlderFrame, Ring!GrabsNoOlderFrame,
       RingProofs!TornByOne, Ring!TornByOne,
       RingProofs!Empty, Ring!Empty, RingProofs!Written, Ring!Written,
       RingProofs!Stored, Ring!Stored

(* In the main process, too, tStoreFrame is let through to written slots   *)
(* only, in turn until it is lapped and by whole laps late after that, and *)
(* tProcessFrame copies no frame older than the one it chose; and the      *)
(* captures made into the pixels being encoded are one at most.            *)
THEOREM RingTheorems ==
  Spec => [](/\ Ring!NeverStoresFreshSlot
             /\ Ring!StoresInTurn
             /\ Ring!LateByWholeLaps
             /\ Ring!GrabsNoOlderFrame
             /\ Ring!TornByOne)
<1>1. RingProofs!Spec => []RingProofs!NeverStoresFreshSlot
  BY RingProofs!NeverFresh, RoadBuddyAssumption
<1>2. RingProofs!Spec => []RingProofs!StoresInTurn
  BY RingProofs!InTurn, RoadBuddyAssumption
<1>3. RingProofs!Spec => []RingProofs!LateByWholeLaps
  BY RingProofs!WholeLaps, RoadBuddyAssumption
<1>4. RingProofs!Spec => []RingProofs!GrabsNoOlderFrame
  BY RingProofs!GrabsNoOlder, RoadBuddyAssumption
<1>5. RingProofs!Spec => []RingProofs!TornByOne
  BY RingProofs!TornByOneCapture, RoadBuddyAssumption
<1> QED BY <1>1, <1>2, <1>3, <1>4, <1>5, ProcessRing, SameProperties, PTL

(* And tAcqnMergeFrame, the ring and tStoreFrame are together the lossy    *)
(* queue of FrameQueue: the encoder is given the Mats the queue promises.  *)
THEOREM MainIsQueue == Spec => RingProofs!QueueSpec
<1>1. RingProofs!Spec => RingProofs!QueueSpec
  BY RingProofs!RingIsQueue, RoadBuddyAssumption
<1> QED BY <1>1, ProcessRing, PTL
=============================================================================
