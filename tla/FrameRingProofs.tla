-------------------------- MODULE FrameRingProofs --------------------------
(***************************************************************************)
(* Proofs about FrameRing for every length of the ring and every number of *)
(* captures.  The index arithmetic is reduced to four facts about %, then  *)
(* RingInv is shown to be inductive, one step per action, and the          *)
(* invariants that the runs check follow from it; so does what a slow      *)
(* tStoreFrame costs the video.                                            *)
(***************************************************************************)
EXTENDS FrameRing, TLAPS

N == FrameBuffLen

-----------------------------------------------------------------------------
(* Quotient and remainder are determined by the equation they satisfy.     *)

(* What \div and % return: a quotient and a remainder below the divisor.   *)
LEMMA DivModUnique ==
  ASSUME NEW n \in Nat \ {0}, NEW q \in Int, NEW r \in 0..n - 1,
         NEW x \in Int, x = n * q + r
  PROVE  x \div n = q /\ x % n = r
  OBVIOUS

(* What \div and % return: a quotient and a remainder below the divisor.   *)
LEMMA DivMod ==
  ASSUME NEW n \in Nat \ {0}, NEW x \in Int
  PROVE  /\ x \div n \in Int
         /\ x % n \in 0..n - 1
         /\ x = n * (x \div n) + (x % n)
  OBVIOUS

(* The remainder of the successor: the next one, or 0 after the last.      *)
LEMMA ModSuccessor ==
  ASSUME NEW n \in Nat \ {0}, NEW x \in Nat
  PROVE  (x + 1) % n = IF (x % n) + 1 = n THEN 0 ELSE (x % n) + 1
<1> DEFINE q == x \div n
           r == x % n
<1>1. q \in Int /\ r \in 0..n - 1 /\ x = n * q + r
  BY DivMod
<1> HIDE DEF q, r
<1>2. CASE r + 1 = n
  <2>1. x + 1 = n * (q + 1) + 0
    BY <1>1, <1>2
  <2>2. (x + 1) % n = 0
    BY <2>1, <1>1, DivModUnique
  <2> QED BY <2>2, <1>2 DEF r
<1>3. CASE r + 1 # n
  <2>1. x + 1 = n * q + (r + 1) /\ r + 1 \in 0..n - 1
    BY <1>1, <1>3
  <2>2. (x + 1) % n = r + 1
    BY <2>1, <1>1, DivModUnique
  <2> QED BY <2>2, <1>3 DEF r
<1> QED BY <1>2, <1>3

(* A whole lap does not change the remainder.                              *)
LEMMA ModLap ==
  ASSUME NEW n \in Nat \ {0}, NEW x \in Nat
  PROVE  (x + n) % n = x % n
<1> DEFINE q == x \div n
           r == x % n
<1>1. q \in Int /\ r \in 0..n - 1 /\ x = n * q + r
  BY DivMod
<1> HIDE DEF q, r
<1>2. x + n = n * (q + 1) + r
  BY <1>1
<1>3. (x + n) % n = r
  BY <1>1, <1>2, DivModUnique
<1> QED BY <1>3 DEF r

(* Less than a lap apart, numbers with the same remainder are equal.       *)
LEMMA ModInjective ==
  ASSUME NEW n \in Nat \ {0}, NEW a \in Nat, NEW b \in Nat,
         a % n = b % n, a <= b, b - a < n
  PROVE  a = b
<1> DEFINE qa == a \div n
           qb == b \div n
           r == a % n
<1>1. qa \in Int /\ qb \in Int /\ r \in 0..n - 1 /\ a = n * qa + r /\ b = n * qb + r
  BY DivMod
<1> HIDE DEF qa, qb, r
<1>2. b - a = n * (qb - qa)
  BY <1>1
<1>3. qb - qa < 1
  <2> SUFFICES ASSUME qb - qa >= 1 PROVE FALSE
    BY <1>1
  <2>1. n * (qb - qa) >= n
    BY <1>1
  <2> QED BY <2>1, <1>2
<1>4. qb - qa > -1
  <2> SUFFICES ASSUME qb - qa <= -1 PROVE FALSE
    BY <1>1
  <2>1. n * (qb - qa) <= -n
    BY <1>1
  <2> QED BY <2>1, <1>2
<1>5. qb = qa
  BY <1>1, <1>3, <1>4
<1> QED BY <1>1, <1>5

-----------------------------------------------------------------------------
(* INCREMENT is the successor, and 0 after the last slot.                  *)
LEMMA IncrementIsSuccessor ==
  ASSUME NEW i \in Slots
  PROVE  /\ Increment(i) = IF i + 1 = N THEN 0 ELSE i + 1
         /\ Increment(i) \in Slots
<1>1. N \in Nat \ {0} /\ N \in 2..128
  BY FrameRingAssumption DEF N
<1>2. CASE i + 1 = N
  <2>1. i + 1 = N * 1 + 0
    BY <1>1, <1>2
  <2>2. (i + 1) \div N = 1
    BY <2>1, <1>1, DivModUnique DEF Slots, N
  <2> QED BY <2>2, <1>1, <1>2 DEF Increment, N, Slots
<1>3. CASE i + 1 # N
  <2>1. i + 1 = N * 0 + (i + 1) /\ i + 1 \in 0..N - 1
    BY <1>1, <1>3 DEF Slots, N
  <2>2. (i + 1) \div N = 0
    BY <2>1, <1>1, DivModUnique
  <2> QED BY <2>1, <2>2, <1>1, <1>3 DEF Increment, N, Slots
<1> QED BY <1>2, <1>3

(* An index that is a count modulo the length stays so when both advance.  *)
LEMMA IncrementCount ==
  ASSUME NEW count \in Nat
  PROVE  /\ count % N \in Slots
         /\ Increment(count % N) = (count + 1) % N
<1>1. N \in Nat \ {0}
  BY FrameRingAssumption DEF N
<1>2. count % N \in Slots
  BY <1>1, DivMod DEF Slots, N
<1>3. (count + 1) % N = IF (count % N) + 1 = N THEN 0 ELSE (count % N) + 1
  BY <1>1, ModSuccessor
<1> QED BY <1>2, <1>3, IncrementIsSuccessor

(* The slot before the one at index n is that of the n-th frame.           *)
LEMMA PreviousCount ==
  ASSUME NEW n \in Nat \ {0}
  PROVE  /\ Previous(n % N) = (n - 1) % N
         /\ Previous(n % N) \in Slots
<1>1. N \in Nat \ {0}
  BY FrameRingAssumption DEF N
<1>2. n - 1 \in Nat /\ n = (n - 1) + 1
  OBVIOUS
<1>3. (n - 1) % N \in 0..N - 1
  BY <1>1, <1>2, DivMod
<1>4. n % N = IF ((n - 1) % N) + 1 = N THEN 0 ELSE ((n - 1) % N) + 1
  BY <1>1, <1>2, ModSuccessor
<1> QED BY <1>1, <1>3, <1>4 DEF Previous, Slots, N

-----------------------------------------------------------------------------
(* The counts are numbers, and nothing is put, advanced past or posted     *)
(* that has not been captured.                                             *)
LEMMA Counts ==
  ASSUME RingInv
  PROVE  /\ captured \in Nat
         /\ Stored \in Nat
         /\ Posted \in Nat /\ Posted <= Advanced
         /\ Advanced \in Nat /\ Advanced <= Written
         /\ Written \in Nat /\ Written <= captured
         /\ captured <= Advanced + 1
<1>1. captured \in Nat /\ (acq # "capture" => captured > 0)
  BY FrameRingAssumption DEF RingInv, TypeOK, Frames
<1>2. Stored \in Nat
  BY DEF RingInv, TypeOK, Stored
<1>3. acq \in {"capture", "draw", "advance", "post"}
  BY DEF RingInv, TypeOK
<1> QED BY <1>1, <1>2, <1>3 DEF Written, Advanced, Posted

(* What the two laws say of the slot tStoreFrame has been let through to:  *)
(* the next frame to store was put, and the slot holds that one or one     *)
(* that is whole laps newer.                                               *)
LEMMA SlotInTurn ==
  ASSUME RingInv, store # "wait"
  PROVE  /\ frameBuff[readIndex] \in Nat \ {0}
         /\ Stored + 1 <= Written
         /\ frameBuff[readIndex] <= Written
         /\ frameBuff[readIndex] > Written - N
         /\ (frameBuff[readIndex] - 1) % N = Stored % N
         /\ frameBuff[readIndex] >= Stored + 1
<1> DEFINE f == frameBuff[readIndex]
<1>1. N \in Nat \ {0}
  BY FrameRingAssumption DEF N
<1>2. Stored \in Nat /\ Written \in Nat /\ Stored + 1 <= Written
  BY Counts DEF RingInv, SemaphoreLaw, TypeOK
<1>3. readIndex \in Slots /\ readIndex = Stored % N /\ f \in Nat
  BY FrameRingAssumption DEF RingInv, IndexLaw, TypeOK, Frames, N
<1>4. readIndex <= Stored
  <2>1. Stored = N * (Stored \div N) + (Stored % N) /\ Stored \div N \in Int
        /\ Stored % N \in 0..N - 1
    BY <1>1, <1>2, DivMod
  <2>2. Stored \div N >= 0
    <3> SUFFICES ASSUME Stored \div N <= -1 PROVE FALSE
      BY <2>1
    <3>1. N * (Stored \div N) <= -N
      BY <2>1, <1>1
    <3> QED BY <3>1, <2>1, <1>1, <1>2
  <2>3. N * (Stored \div N) >= 0
    BY <2>1, <2>2, <1>1
  <2> QED BY <2>1, <2>3, <1>1, <1>2, <1>3
<1>5. f # 0
  <2> SUFFICES ASSUME f = 0 PROVE FALSE
    OBVIOUS
  <2>1. Written <= readIndex
    BY <1>3 DEF RingInv, SlotLaw, Empty
  <2>2. readIndex \in Int
    BY <1>3 DEF Slots
  <2> QED BY <2>1, <2>2, <1>2, <1>4
<1>6. f <= Written /\ f > Written - N /\ (f - 1) % N = Stored % N
  BY <1>3, <1>5 DEF RingInv, SlotLaw, Empty, N
<1>7. f >= Stored + 1
  <2> SUFFICES ASSUME f - 1 < Stored PROVE FALSE
    BY <1>2, <1>3
  <2>1. f - 1 \in Nat /\ f - 1 <= Stored /\ Stored - (f - 1) < N
    BY <1>1, <1>2, <1>3, <1>5, <1>6
  <2>2. f - 1 = Stored
    BY <2>1, <1>1, <1>2, <1>6, ModInjective
  <2> QED BY <2>1, <2>2, <1>2
<1> QED BY <1>2, <1>3, <1>5, <1>6, <1>7

(* What RingInv says initially.                                            *)
LEMMA RingInvInit == Init => RingInv
<1> SUFFICES ASSUME Init PROVE RingInv
  OBVIOUS
<1>1. N \in Nat \ {0} /\ 0 \in Slots
  BY FrameRingAssumption DEF N, Slots
<1>2. TypeOK
  BY <1>1, FrameRingAssumption DEF Init, TypeOK, Frames, Empty
<1>3. Stored = 0 /\ Posted = 0 /\ Advanced = 0 /\ Written = 0
  BY DEF Init, Stored, Posted, Advanced, Written
<1>4. 0 % N = 0
  <2>1. 0 = N * 0 + 0 /\ 0 \in 0..N - 1
    BY <1>1
  <2> QED BY <2>1, <1>1, DivModUnique
<1>5. SemaphoreLaw /\ IndexLaw
  BY <1>3, <1>4 DEF Init, SemaphoreLaw, IndexLaw, N
<1>6. SlotLaw
  BY <1>3, FrameRingAssumption DEF Init, SlotLaw, Slots, Empty
<1>7. IndexedLaw
  BY DEF Init, IndexedLaw
<1>8. ShowsLaw /\ BegunLaw
  BY <1>3 DEF Init, ShowsLaw, BegunLaw, Empty
<1> QED BY <1>2, <1>5, <1>6, <1>7, <1>8 DEF Init, RingInv

(* Each action of tAcqnMergeFrame preserves RingInv.                       *)
LEMMA CapturePreserves == RingInv /\ CaptureFrame => RingInv'
<1> SUFFICES ASSUME RingInv, CaptureFrame PROVE RingInv'
  OBVIOUS
<1> USE DEF CaptureFrame, storeVars, procVars
<1>1. captured \in Nat /\ captured' = captured + 1 /\ captured + 1 \in Frames
  BY Counts, FrameRingAssumption DEF Frames
<1>2. shows \in [Frames -> Frames] /\ shows' \in [Frames -> Frames]
  BY <1>1 DEF CopyPicture, RingInv, TypeOK
<1>3. ASSUME NEW m \in Frames
      PROVE  \/ shows'[m] = shows[m]
             \/ shows'[m] = captured + 1 /\ m = captured + 1
             \/ shows'[m] = captured + 1 /\ shows[m] = captured /\ captured # Empty
  BY <1>2 DEF CopyPicture
<1>4. TypeOK'
  BY <1>1, <1>2 DEF RingInv, TypeOK
<1>5. /\ Stored' = Stored /\ Posted' = Posted
      /\ Advanced' = Advanced /\ Written' = Written
  BY <1>1 DEF Stored, Posted, Advanced, Written
<1>6. SemaphoreLaw' /\ IndexLaw' /\ SlotLaw'
  BY <1>5 DEF RingInv, SemaphoreLaw, IndexLaw, SlotLaw
<1>7. IndexedLaw'
  BY <1>1 DEF RingInv, TypeOK, Frames, IndexedLaw
<1>8. ShowsLaw'
  <2> SUFFICES ASSUME NEW m \in Frames, shows'[m] # Empty
               PROVE  m # Empty /\ shows'[m] \in m..captured'
    BY DEF ShowsLaw
  <2>1. shows[m] # Empty => m # Empty /\ shows[m] \in m..captured
    BY DEF RingInv, ShowsLaw
  <2>2. m \in Nat
    BY FrameRingAssumption DEF Frames
  <2> QED BY <1>1, <1>3, <2>1, <2>2 DEF Empty
<1>9. BegunLaw'
  <2> SUFFICES ASSUME store = "write" PROVE BegunLaw'
    BY <1>5 DEF RingInv, BegunLaw
  <2> DEFINE f == frameBuff[readIndex]
  <2>1. f \in Nat /\ f <= captured /\ f \in Frames
    <3>1. f \in Nat /\ f <= Written
      BY SlotInTurn
    <3>2. Written \in Nat /\ Written <= captured
      BY Counts
    <3>3. f \in Frames
      BY DEF RingInv, TypeOK
    <3> QED BY <1>1, <3>1, <3>2, <3>3
  <2>2. IF begun = Empty THEN shows[f] = Empty ELSE begun >= f /\ shows[f] = begun
    BY DEF RingInv, BegunLaw
  <2>3. begun \in Nat
    BY FrameRingAssumption DEF RingInv, TypeOK, Frames
  <2>4. f # captured + 1
    BY <1>1, <2>1
  <2>5. \/ shows'[f] = shows[f]
        \/ shows'[f] = captured + 1 /\ shows[f] = captured /\ captured # Empty
    BY <1>3, <2>1, <2>4
  <2> QED BY <1>1, <1>5, <2>1, <2>2, <2>3, <2>5 DEF RingInv, BegunLaw, Empty
<1> QED BY <1>1, <1>4, <1>6, <1>7, <1>8, <1>9 DEF RingInv

(* What the encoder sees does not change while tAcqnMergeFrame is neither  *)
(* capturing nor drawing.                                                  *)
LEMMA PicturesKept ==
  ASSUME RingInv, UNCHANGED <<captured, shows, storeVars>>,
         acq = "draw" => store # "write",
         store = "write" => frameBuff'[readIndex] = frameBuff[readIndex]
  PROVE  ShowsLaw' /\ BegunLaw'
<1> USE DEF storeVars
<1>1. ShowsLaw'
  BY DEF RingInv, ShowsLaw
<1>2. Stored' = Stored
  BY DEF Stored
<1>3. BegunLaw'
  BY <1>2 DEF RingInv, BegunLaw
<1> QED BY <1>1, <1>3

LEMMA PutPreserves == RingInv /\ PutFrame => RingInv'
<1> SUFFICES ASSUME RingInv, PutFrame PROVE RingInv'
  OBVIOUS
<1> USE DEF PutFrame, storeVars, procVars
<1>1. captured \in Nat /\ captured > 0 /\ N \in Nat \ {0}
  BY Counts, FrameRingAssumption DEF RingInv, N
<1>2. TypeOK'
  BY FrameRingAssumption DEF RingInv, TypeOK, Frames
<1>3. /\ Stored' = Stored /\ Posted' = Posted /\ Advanced' = Advanced
      /\ Advanced = captured - 1
      /\ Written = captured - 1 /\ Written' = captured
  BY DEF Stored, Posted, Advanced, Written
<1>4. SemaphoreLaw' /\ IndexLaw'
  BY <1>3 DEF RingInv, SemaphoreLaw, IndexLaw
<1>5. SlotLaw'
  <2> SUFFICES ASSUME NEW i \in Slots
               PROVE  IF frameBuff'[i] = Empty
                        THEN Written' <= i
                        ELSE /\ frameBuff'[i] <= Written'
                             /\ frameBuff'[i] > Written' - FrameBuffLen
                             /\ (frameBuff'[i] - 1) % FrameBuffLen = i
    BY DEF SlotLaw
  <2>1. i \in 0..N - 1 /\ i \in Nat /\ (captured - 1) % N = writeIndex
    BY <1>1, <1>3 DEF RingInv, IndexLaw, Slots, N
  <2>2. CASE i = writeIndex
    <3>1. frameBuff'[i] = captured
      BY <2>2 DEF RingInv, TypeOK
    <3> QED BY <3>1, <2>1, <2>2, <1>1, <1>3 DEF Empty, N
  <2>3. CASE i # writeIndex
    <3>1. frameBuff'[i] = frameBuff[i] /\ frameBuff[i] \in Nat
      BY <2>3, FrameRingAssumption DEF RingInv, TypeOK, Frames
    <3>2. CASE frameBuff[i] = Empty
      <4>1. captured - 1 <= i
        BY <3>2, <1>3 DEF RingInv, SlotLaw
      <4>2. captured - 1 # i
        <5> SUFFICES ASSUME captured - 1 = i PROVE FALSE
          OBVIOUS
        <5>1. i = N * 0 + i
          BY <2>1, <1>1
        <5>2. i % N = i
          BY <5>1, <2>1, <1>1, DivModUnique
        <5> QED BY <5>2, <2>1, <2>3
      <4> QED BY <4>1, <4>2, <3>1, <3>2, <2>1, <1>1, <1>3
    <3>3. CASE frameBuff[i] # Empty
      <4>1. /\ frameBuff[i] <= captured - 1
            /\ frameBuff[i] > captured - 1 - N
            /\ (frameBuff[i] - 1) % N = i
        BY <3>3, <1>3 DEF RingInv, SlotLaw, N
      <4>2. frameBuff[i] # captured - N
        <5> SUFFICES ASSUME frameBuff[i] = captured - N PROVE FALSE
          OBVIOUS
        <5>1. frameBuff[i] - 1 \in Nat /\ captured - 1 = (frameBuff[i] - 1) + N
          BY <3>1, <3>3, <1>1 DEF Empty
        <5>2. (captured - 1) % N = (frameBuff[i] - 1) % N
          BY <5>1, <1>1, ModLap
        <5> QED BY <5>2, <4>1, <2>1, <2>3
      <4> QED BY <4>1, <4>2, <3>1, <3>3, <1>1, <1>3 DEF N
    <3> QED BY <3>2, <3>3
  <2> QED BY <2>2, <2>3
<1>6. IndexedLaw'
  <2> SUFFICES ASSUME proc = "indexed" PROVE frameBuff'[procIndex] >= newest
    BY DEF RingInv, IndexedLaw
  <2>1. /\ newest <= captured /\ frameBuff[procIndex] >= newest
        /\ procIndex \in Slots /\ frameBuff \in [Slots -> Frames]
    BY DEF RingInv, IndexedLaw, TypeOK
  <2>2. frameBuff'[procIndex] \in {captured, frameBuff[procIndex]}
    BY <2>1
  <2>3. newest \in Int /\ frameBuff[procIndex] \in Int
    BY <2>1 DEF RingInv, TypeOK, Frames
  <2> QED BY <2>1, <2>2, <2>3, <1>1
<1>7. ShowsLaw' /\ BegunLaw'
  BY PicturesKept DEF MutexFrameBuffFree
<1> QED BY <1>1, <1>2, <1>4, <1>5, <1>6, <1>7 DEF RingInv

LEMMA AdvancePreserves == RingInv /\ AdvanceWrite => RingInv'
<1> SUFFICES ASSUME RingInv, AdvanceWrite PROVE RingInv'
  OBVIOUS
<1> USE DEF AdvanceWrite, storeVars, procVars
<1>1. captured \in Nat /\ captured > 0 /\ captured - 1 \in Nat
  BY Counts DEF RingInv
<1>2. writeIndex \in Slots /\ writeIndex' \in Slots
  BY IncrementIsSuccessor DEF RingInv, TypeOK
<1>3. TypeOK'
  BY <1>2 DEF RingInv, TypeOK
<1>4. /\ Stored' = Stored /\ Posted' = Posted /\ Written' = Written
      /\ Advanced = captured - 1 /\ Advanced' = captured
  BY DEF Stored, Posted, Advanced, Written
<1>5. IndexLaw'
  <2>1. writeIndex = (captured - 1) % N
    BY <1>4 DEF RingInv, IndexLaw, N
  <2>2. Increment((captured - 1) % N) = ((captured - 1) + 1) % N
    BY <1>1, IncrementCount
  <2>3. (captured - 1) + 1 = captured
    BY <1>1
  <2> QED BY <2>1, <2>2, <2>3, <1>4 DEF RingInv, IndexLaw, N
<1>6. SemaphoreLaw' /\ SlotLaw' /\ IndexedLaw'
  BY <1>4 DEF RingInv, SemaphoreLaw, SlotLaw, IndexedLaw
<1>7. ShowsLaw' /\ BegunLaw'
  BY PicturesKept
<1> QED BY <1>1, <1>3, <1>5, <1>6, <1>7 DEF RingInv

LEMMA PostPreserves == RingInv /\ PostFrame => RingInv'
<1> SUFFICES ASSUME RingInv, PostFrame PROVE RingInv'
  OBVIOUS
<1> USE DEF PostFrame, storeVars, procVars
<1>1. captured \in Nat /\ Stored \in Nat /\ sem_frameprod \in Nat
  BY Counts DEF RingInv, TypeOK
<1>2. TypeOK'
  BY <1>1 DEF RingInv, TypeOK
<1>3. /\ Stored' = Stored /\ Advanced' = Advanced /\ Written' = Written
      /\ Posted = captured - 1 /\ Posted' = captured
  BY DEF Stored, Posted, Advanced, Written
<1>4. SemaphoreLaw'
  BY <1>1, <1>3 DEF RingInv, SemaphoreLaw
<1>5. IndexLaw' /\ SlotLaw' /\ IndexedLaw'
  BY <1>3 DEF RingInv, IndexLaw, SlotLaw, IndexedLaw
<1>6. ShowsLaw' /\ BegunLaw'
  BY PicturesKept
<1> QED BY <1>2, <1>4, <1>5, <1>6 DEF RingInv

(* Each action of tStoreFrame preserves RingInv.                           *)
LEMMA WaitPreserves == RingInv /\ WaitFrame => RingInv'
<1> SUFFICES ASSUME RingInv, WaitFrame PROVE RingInv'
  OBVIOUS
<1> USE DEF WaitFrame, acqVars, procVars
<1>1. Stored \in Nat /\ Posted \in Nat /\ sem_frameprod \in Nat
  BY Counts DEF RingInv, TypeOK
<1>2. TypeOK'
  BY <1>1 DEF RingInv, TypeOK
<1>3. /\ Stored' = Stored /\ Posted' = Posted
      /\ Advanced' = Advanced /\ Written' = Written
  BY DEF Stored, Posted, Advanced, Written
<1>4. SemaphoreLaw'
  BY <1>1, <1>3 DEF RingInv, SemaphoreLaw
<1>5. IndexLaw' /\ SlotLaw' /\ IndexedLaw' /\ ShowsLaw' /\ BegunLaw'
  BY <1>3 DEF RingInv, IndexLaw, SlotLaw, IndexedLaw, ShowsLaw, BegunLaw
<1> QED BY <1>2, <1>4, <1>5 DEF RingInv

LEMMA BeginPreserves == RingInv /\ BeginWrite => RingInv'
<1> SUFFICES ASSUME RingInv, BeginWrite PROVE RingInv'
  OBVIOUS
<1> USE DEF BeginWrite, acqVars, procVars
<1>1. frameBuff[readIndex] \in Frames /\ shows[frameBuff[readIndex]] \in Frames
  BY DEF RingInv, TypeOK
<1>2. TypeOK'
  BY <1>1 DEF RingInv, TypeOK
<1>3. /\ Stored' = Stored /\ Posted' = Posted
      /\ Advanced' = Advanced /\ Written' = Written
  BY DEF Stored, Posted, Advanced, Written
<1>4. SemaphoreLaw' /\ IndexLaw' /\ SlotLaw' /\ IndexedLaw' /\ ShowsLaw'
  BY <1>3 DEF RingInv, SemaphoreLaw, IndexLaw, SlotLaw, IndexedLaw, ShowsLaw
<1>5. BegunLaw'
  BY <1>1, <1>3 DEF RingInv, BegunLaw, ShowsLaw
<1> QED BY <1>2, <1>4, <1>5 DEF RingInv

LEMMA EndPreserves == RingInv /\ EndWrite => RingInv'
<1> SUFFICES ASSUME RingInv, EndWrite PROVE RingInv'
  OBVIOUS
<1> USE DEF EndWrite, acqVars, procVars
<1> DEFINE f == frameBuff[readIndex]
           picture == [from |-> begun, to |-> shows[f]]
<1>1. readIndex \in Slots /\ readIndex' \in Slots
  BY IncrementIsSuccessor DEF RingInv, TypeOK
<1>2. f \in Frames /\ picture \in [from : Frames, to : Frames]
  BY DEF RingInv, TypeOK
<1>3. /\ stored \in Seq(Frames) /\ stored' = Append(stored, f)
      /\ video \in Seq([from : Frames, to : Frames])
      /\ video' = Append(video, picture)
  BY DEF RingInv, TypeOK
<1> HIDE DEF f, picture
<1>4. TypeOK'
  <2>1. Empty \in Frames
    BY FrameRingAssumption DEF Empty, Frames
  <2> QED BY <1>1, <1>2, <1>3, <2>1 DEF RingInv, TypeOK
<1>5. Stored \in Nat /\ Posted \in Nat /\ sem_frameprod \in Nat
  BY Counts DEF RingInv, TypeOK
<1>6. /\ Stored' = Stored + 1 /\ Posted' = Posted
      /\ Advanced' = Advanced /\ Written' = Written
  BY <1>2, <1>3 DEF Stored, Posted, Advanced, Written
<1>7. SemaphoreLaw'
  BY <1>5, <1>6 DEF RingInv, SemaphoreLaw
<1>8. IndexLaw'
  BY <1>5, <1>6, IncrementCount DEF RingInv, IndexLaw, N
<1>9. SlotLaw' /\ IndexedLaw' /\ ShowsLaw'
  BY <1>6 DEF RingInv, SlotLaw, IndexedLaw, ShowsLaw
<1>10. BegunLaw'
  <2>1. Len(video') = Len(video) + 1
    BY <1>2, <1>3
  <2> QED BY <1>6, <2>1 DEF RingInv, BegunLaw
<1> QED BY <1>4, <1>7, <1>8, <1>9, <1>10 DEF RingInv

(* Each action of tProcessFrame preserves RingInv: when the index is       *)
(* computed, the slot it names holds the newest finished frame.            *)
LEMMA IndexPreserves == RingInv /\ ComputeIndex => RingInv'
<1> SUFFICES ASSUME RingInv, ComputeIndex PROVE RingInv'
  OBVIOUS
<1> USE DEF ComputeIndex, acqVars, storeVars
<1>1. N \in 2..128 /\ N \in Nat \ {0}
  BY FrameRingAssumption DEF N
<1>2. /\ Advanced \in Nat /\ Written \in Nat /\ captured \in Nat
      /\ Advanced <= Written /\ Written <= captured /\ captured <= Advanced + 1
  BY Counts
<1>3. procIndex' \in Slots
  BY <1>1 DEF RingInv, TypeOK, Previous, Slots, N
<1>4. newest' \in Frames
  BY <1>2, FrameRingAssumption DEF RingInv, TypeOK, Frames
<1>5. TypeOK'
  BY <1>3, <1>4 DEF RingInv, TypeOK
<1>6. /\ Stored' = Stored /\ Posted' = Posted
      /\ Advanced' = Advanced /\ Written' = Written
  BY DEF Stored, Posted, Advanced, Written
<1>7. SemaphoreLaw' /\ IndexLaw' /\ SlotLaw'
  BY <1>6 DEF RingInv, SemaphoreLaw, IndexLaw, SlotLaw
<1>8. frameBuff[procIndex'] >= Advanced
  <2> DEFINE f == frameBuff[procIndex']
  <2>1. f \in Nat
    BY <1>3, FrameRingAssumption DEF RingInv, TypeOK, Frames
  <2>2. CASE Advanced = 0
    BY <2>1, <2>2
  <2>3. CASE Advanced # 0
    <3>1. Advanced \in Nat \ {0} /\ Advanced - 1 \in Nat
      BY <2>3, <1>2
    <3>2. procIndex' = (Advanced - 1) % N
      BY <3>1, PreviousCount DEF RingInv, IndexLaw, N
    <3>3. CASE f = 0
      <4>1. Written <= procIndex' /\ procIndex' \in 0..N - 1
        BY <3>3, <1>3 DEF RingInv, SlotLaw, Empty, Slots, N
      <4>2. Advanced - 1 = N * 0 + (Advanced - 1) /\ Advanced - 1 \in 0..N - 1
        BY <4>1, <3>1, <1>1, <1>2
      <4>3. (Advanced - 1) % N = Advanced - 1
        BY <4>2, <1>1, DivModUnique
      <4> QED BY <4>1, <4>3, <3>1, <3>2, <1>2
    <3>4. CASE f # 0
      <4>1. f > Written - N /\ (f - 1) % N = (Advanced - 1) % N
        BY <3>4, <3>2, <1>3 DEF RingInv, SlotLaw, Empty, N
      <4> SUFFICES ASSUME f - 1 <= Advanced - 1 PROVE f >= Advanced
        BY <2>1, <1>2
      <4>2. f - 1 \in Nat /\ (Advanced - 1) - (f - 1) < N
        BY <4>1, <3>4, <2>1, <1>1, <1>2
      <4>3. f - 1 = Advanced - 1
        BY <4>1, <4>2, <3>1, <1>1, ModInjective
      <4> QED BY <4>3, <2>1, <1>2
    <3> QED BY <3>3, <3>4
  <2> QED BY <2>2, <2>3
<1>9. IndexedLaw'
  BY <1>2, <1>8 DEF IndexedLaw
<1>10. ShowsLaw' /\ BegunLaw'
  BY <1>6 DEF RingInv, ShowsLaw, BegunLaw
<1> QED BY <1>5, <1>7, <1>9, <1>10 DEF RingInv

LEMMA GrabPreserves == RingInv /\ GrabFrame => RingInv'
<1> SUFFICES ASSUME RingInv, GrabFrame PROVE RingInv'
  OBVIOUS
<1> USE DEF GrabFrame, acqVars, storeVars
<1>1. TypeOK'
  BY DEF RingInv, TypeOK
<1>2. /\ Stored' = Stored /\ Posted' = Posted
      /\ Advanced' = Advanced /\ Written' = Written
  BY DEF Stored, Posted, Advanced, Written
<1>3. SemaphoreLaw' /\ IndexLaw' /\ SlotLaw' /\ IndexedLaw'
  BY <1>2 DEF RingInv, SemaphoreLaw, IndexLaw, SlotLaw, IndexedLaw
<1>4. ShowsLaw' /\ BegunLaw'
  BY <1>2 DEF RingInv, ShowsLaw, BegunLaw
<1> QED BY <1>1, <1>3, <1>4 DEF RingInv

LEMMA RingInvNext == RingInv /\ [Next]_vars => RingInv'
<1> SUFFICES ASSUME RingInv, [Next]_vars PROVE RingInv'
  OBVIOUS
<1>1. CASE UNCHANGED vars
  <2> USE DEF vars
  <2>1. /\ Stored' = Stored /\ Posted' = Posted
        /\ Advanced' = Advanced /\ Written' = Written
    BY <1>1 DEF Stored, Posted, Advanced, Written
  <2>2. TypeOK'
    BY <1>1 DEF RingInv, TypeOK
  <2> QED BY <1>1, <2>1, <2>2
          DEF RingInv, SemaphoreLaw, IndexLaw, SlotLaw, IndexedLaw, ShowsLaw,
              BegunLaw
<1> QED
  BY <1>1, CapturePreserves, PutPreserves, AdvancePreserves, PostPreserves,
     WaitPreserves, BeginPreserves, EndPreserves, IndexPreserves, GrabPreserves
  DEF Next

-----------------------------------------------------------------------------
(* The laws of the ring hold of every reachable state.                     *)
THEOREM RingInvariant == Spec => []RingInv
BY RingInvInit, RingInvNext, PTL DEF Spec

(* The variables keep their types: the indices stay in the ring.           *)
THEOREM TypeCorrect == Spec => []TypeOK
<1>1. RingInv => TypeOK
  BY DEF RingInv
<1> QED BY <1>1, RingInvariant, PTL

(* tStoreFrame never encodes the empty Mat of a slot not written yet.      *)
THEOREM NeverFresh == Spec => []NeverStoresFreshSlot
<1>1. RingInv => NeverStoresFreshSlot
  BY SlotInTurn DEF NeverStoresFreshSlot, Empty
<1> QED BY <1>1, RingInvariant, PTL

(* Until tStoreFrame is lapped, and again once it has caught up, the frame *)
(* it stores is the one whose turn it is.                                  *)
THEOREM InTurn == Spec => []StoresInTurn
<1>1. RingInv => StoresInTurn
  <2> SUFFICES ASSUME RingInv, store # "wait", Written - Stored <= N
               PROVE  frameBuff[readIndex] = Stored + 1
    BY DEF StoresInTurn, N
  <2> DEFINE f == frameBuff[readIndex]
  <2>1. N \in Nat \ {0} /\ Stored \in Nat /\ Written \in Nat
    BY FrameRingAssumption, Counts DEF N
  <2>2. f \in Nat \ {0} /\ f <= Written /\ (f - 1) % N = Stored % N /\ f >= Stored + 1
    BY SlotInTurn
  <2>3. f - 1 \in Nat /\ Stored <= f - 1 /\ (f - 1) - Stored < N
    BY <2>1, <2>2
  <2>4. f - 1 = Stored
    BY <2>1, <2>2, <2>3, ModInjective
  <2> QED BY <2>1, <2>2, <2>4
<1> QED BY <1>1, RingInvariant, PTL

(* Only EndWrite adds to the video: the Mat of the slot, and what it       *)
(* showed from the start of the encoding to the end.                       *)
LEMMA VideoGrows ==
  ASSUME RingInv, EndWrite
  PROVE  LET f == frameBuff[readIndex]
         IN  /\ f \in Frames /\ f >= Stored + 1 /\ f <= Written /\ f > Written - N
             /\ (f - 1) % N = Stored % N
             /\ shows[f] \in Nat /\ shows[f] <= captured /\ begun \in Nat
             /\ \/ begun = Empty /\ shows[f] = Empty
                \/ begun # Empty /\ begun >= f /\ shows[f] - begun \in {0, 1}
             /\ Stored' = Stored + 1
             /\ DOMAIN stored' = 1..Stored + 1 /\ DOMAIN video' = 1..Stored + 1
             /\ \A k \in 1..Stored : stored'[k] = stored[k] /\ video'[k] = video[k]
             /\ stored'[Stored + 1] = f
             /\ video'[Stored + 1].from = begun
             /\ video'[Stored + 1].to = shows[f]
<1> DEFINE f == frameBuff[readIndex]
           picture == [from |-> begun, to |-> shows[f]]
<1>1. /\ f \in Nat /\ f >= Stored + 1 /\ f <= Written /\ f > Written - N
      /\ (f - 1) % N = Stored % N
  BY SlotInTurn DEF EndWrite
<1>2. /\ f \in Frames /\ shows[f] \in Frames /\ begun \in Frames
      /\ stored \in Seq(Frames) /\ video \in Seq([from : Frames, to : Frames])
  BY DEF RingInv, TypeOK
<1>3. /\ shows[f] \in Nat /\ begun \in Nat /\ captured \in Nat
      /\ shows[f] <= captured
  BY <1>2, Counts, FrameRingAssumption DEF Frames, RingInv, ShowsLaw, Empty
<1>4. \/ begun = Empty /\ shows[f] = Empty
      \/ begun # Empty /\ begun >= f /\ shows[f] - begun \in {0, 1}
  BY <1>3 DEF EndWrite, RingInv, BegunLaw
<1>5. /\ stored' = Append(stored, f) /\ video' = Append(video, picture)
      /\ picture \in [from : Frames, to : Frames]
      /\ picture.from = begun /\ picture.to = shows[f]
  BY <1>2 DEF EndWrite
<1>6. Len(stored) = Stored /\ Len(video) = Stored /\ Stored \in Nat
  BY Counts DEF RingInv, BegunLaw, Stored
<1> HIDE DEF f, picture
<1>7. /\ DOMAIN stored' = 1..Stored + 1 /\ Len(stored') = Stored + 1
      /\ \A k \in 1..Stored : stored'[k] = stored[k]
      /\ stored'[Stored + 1] = f
  BY <1>2, <1>5, <1>6
<1>8. /\ DOMAIN video' = 1..Stored + 1
      /\ \A k \in 1..Stored : video'[k] = video[k]
      /\ video'[Stored + 1] = picture
  BY <1>2, <1>5, <1>6
<1> QED BY <1>1, <1>2, <1>3, <1>4, <1>5, <1>7, <1>8 DEF f, Stored

(* What the domains are between two of them.                               *)
LEMMA VideoDomains ==
  ASSUME RingInv
  PROVE  /\ DOMAIN stored = 1..Stored /\ DOMAIN video = 1..Stored /\ Stored \in Nat
         /\ \A k \in 1..Stored : /\ stored[k] \in Nat
                                 /\ video[k].from \in Nat /\ video[k].to \in Nat
<1>1. /\ stored \in Seq(Frames) /\ video \in Seq([from : Frames, to : Frames])
      /\ Len(stored) = Stored /\ Len(video) = Stored /\ Stored \in Nat
  BY Counts DEF RingInv, TypeOK, BegunLaw, Stored
<1>2. DOMAIN stored = 1..Stored /\ DOMAIN video = 1..Stored
  BY <1>1
<1>3. \A k \in 1..Stored : stored[k] \in Frames
  BY ONLY <1>1
<1>4. \A k \in 1..Stored : video[k] \in [from : Frames, to : Frames]
  <2> DEFINE P == [from : Frames, to : Frames]
  <2>1. video \in Seq(P) /\ Len(video) = Stored
    BY <1>1
  <2> HIDE DEF P
  <2>2. \A k \in 1..Stored : video[k] \in P
    BY ONLY <2>1
  <2> QED BY <2>2 DEF P
<1> QED BY <1>1, <1>2, <1>3, <1>4, FrameRingAssumption DEF Frames

LEMMA VideoKept ==
  ASSUME [Next]_vars, ~EndWrite
  PROVE  UNCHANGED <<stored, video>>
BY DEF Next, CaptureFrame, PutFrame, AdvanceWrite, PostFrame, WaitFrame,
       BeginWrite, ComputeIndex, GrabFrame, storeVars, vars

(* Captures are made into the pixels that are being encoded, but never two *)
(* of them while one picture is: a picture is whole or has parts of two    *)
(* captures that follow one another.                                       *)
THEOREM TornByOneCapture == Spec => []TornByOne
<1>1. Init => TornByOne
  BY DEF Init, TornByOne
<1>2. RingInv /\ TornByOne /\ [Next]_vars => TornByOne'
  <2> SUFFICES ASSUME RingInv, TornByOne, [Next]_vars PROVE TornByOne'
    OBVIOUS
  <2>1. CASE EndWrite
    <3> SUFFICES ASSUME NEW k \in DOMAIN video'
                 PROVE  video'[k].to - video'[k].from \in {0, 1}
      BY DEF TornByOne
    <3>1. k \in 1..Stored \/ k = Stored + 1
      BY <2>1, VideoGrows, VideoDomains
    <3>2. CASE k \in 1..Stored
      BY <2>1, <3>2, VideoGrows, VideoDomains DEF TornByOne
    <3>3. CASE k = Stored + 1
      BY <2>1, <3>3, VideoGrows DEF Empty
    <3> QED BY <3>1, <3>2, <3>3
  <2>2. CASE ~EndWrite
    BY <2>2, VideoKept DEF TornByOne
  <2> QED BY <2>1, <2>2
<1> QED BY <1>1, <1>2, RingInvariant, PTL DEF Spec

(* The k-th Mat encoded is the k-th or whole laps of the ring later, and   *)
(* its picture is no older.                                                *)
THEOREM WholeLaps == Spec => []LateByWholeLaps
<1>1. Init => LateByWholeLaps
  BY DEF Init, LateByWholeLaps
<1>2. RingInv /\ LateByWholeLaps /\ [Next]_vars => LateByWholeLaps'
  <2> SUFFICES ASSUME RingInv, LateByWholeLaps, [Next]_vars
               PROVE  LateByWholeLaps'
    OBVIOUS
  <2>1. CASE EndWrite
    <3> SUFFICES ASSUME NEW k \in DOMAIN stored'
                 PROVE  /\ stored'[k] >= k
                        /\ (stored'[k] - 1) % N = (k - 1) % N
                        /\ \/ video'[k].from = Empty
                           \/ video'[k].from >= stored'[k]
      BY DEF LateByWholeLaps, N
    <3>1. k \in 1..Stored \/ k = Stored + 1
      BY <2>1, VideoGrows, VideoDomains
    <3>2. CASE k \in 1..Stored
      BY <2>1, <3>2, VideoGrows, VideoDomains DEF LateByWholeLaps, N
    <3>3. CASE k = Stored + 1
      <4>1. Stored \in Nat /\ k - 1 = Stored
        BY <3>3, VideoDomains
      <4> QED BY <2>1, <3>3, <4>1, VideoGrows
    <3> QED BY <3>1, <3>2, <3>3
  <2>2. CASE ~EndWrite
    BY <2>2, VideoKept DEF LateByWholeLaps
  <2> QED BY <2>1, <2>2
<1> QED BY <1>1, <1>2, RingInvariant, PTL DEF Spec

(* The frame tProcessFrame copies without having held the mutex since it   *)
(* computed the index is at least as new as the newest one at that time.   *)
THEOREM GrabsNoOlder == Spec => []GrabsNoOlderFrame
<1>1. Init => GrabsNoOlderFrame
  BY DEF Init, GrabsNoOlderFrame, Empty
<1>2. RingInv /\ GrabsNoOlderFrame /\ [Next]_vars => GrabsNoOlderFrame'
  <2> SUFFICES ASSUME RingInv, GrabsNoOlderFrame, [Next]_vars
               PROVE  GrabsNoOlderFrame'
    OBVIOUS
  <2>1. CASE ComputeIndex
    BY <2>1 DEF ComputeIndex, GrabsNoOlderFrame
  <2>2. CASE GrabFrame
    BY <2>2 DEF GrabFrame, GrabsNoOlderFrame, RingInv, IndexedLaw
  <2>3. CASE UNCHANGED procVars
    BY <2>3 DEF procVars, GrabsNoOlderFrame
  <2>4. ComputeIndex \/ GrabFrame \/ UNCHANGED procVars
    BY DEF Next, CaptureFrame, PutFrame, AdvanceWrite, PostFrame, WaitFrame,
           BeginWrite, EndWrite, procVars, vars
  <2> QED BY <2>1, <2>2, <2>3, <2>4
<1> QED BY <1>1, <1>2, RingInvariant, PTL DEF Spec

-----------------------------------------------------------------------------
(* The Mats encoded are those of all captures in order, none missing.      *)
NothingLost == \A k \in DOMAIN stored : stored[k] = k

(* A tStoreFrame that is never more than FrameBuffLen frames behind loses  *)
(* none of the Mats: nothing but its pace decides.                         *)
THEOREM KeepsUpLosesNothing ==
  Spec /\ [](Written - Stored <= FrameBuffLen) => []NothingLost
<1>1. Init => NothingLost
  BY DEF Init, NothingLost
<1>2. /\ RingInv /\ StoresInTurn /\ Written - Stored <= FrameBuffLen
      /\ NothingLost /\ [Next]_vars
      => NothingLost'
  <2> SUFFICES ASSUME RingInv, StoresInTurn, Written - Stored <= FrameBuffLen,
                      NothingLost, [Next]_vars
               PROVE  NothingLost'
    OBVIOUS
  <2>1. CASE EndWrite
    <3>1. frameBuff[readIndex] = Stored + 1
      BY <2>1 DEF EndWrite, StoresInTurn
    <3>2. \A k \in DOMAIN stored' : k \in 1..Stored \/ k = Stored + 1
      BY <2>1, VideoGrows, VideoDomains
    <3> QED BY <2>1, <3>1, <3>2, VideoGrows, VideoDomains DEF NothingLost
  <2>2. CASE ~EndWrite
    BY <2>2, VideoKept DEF NothingLost
  <2> QED BY <2>1, <2>2
<1> QED BY <1>1, <1>2, RingInvariant, InTurn, PTL DEF Spec

(* The k-th picture is the k-th capture, whole, or was skipped because     *)
(* that capture failed.                                                    *)
PictureForPicture ==
  \A k \in DOMAIN video : /\ video[k].from = video[k].to
                          /\ video[k].to \in {Empty, k}

(* That nothing is lost does not make the video right, as the Mats share   *)
(* their pixels.  For the pictures to be the captures, one after another,  *)
(* tStoreFrame has to be done with each before the next is captured: of    *)
(* the FrameBuffLen slots only one is of any use to it.                    *)
THEOREM RightIfStoredFirst ==
  Spec /\ [](captured <= Stored + 1) => []PictureForPicture
<1>1. Init => PictureForPicture
  BY DEF Init, PictureForPicture
<1>2. /\ RingInv /\ captured <= Stored + 1 /\ PictureForPicture /\ [Next]_vars
      => PictureForPicture'
  <2> SUFFICES ASSUME RingInv, captured <= Stored + 1, PictureForPicture,
                      [Next]_vars
               PROVE  PictureForPicture'
    OBVIOUS
  <2>1. CASE EndWrite
    <3> SUFFICES ASSUME NEW k \in DOMAIN video'
                 PROVE  /\ video'[k].from = video'[k].to
                        /\ video'[k].to \in {Empty, k}
      BY DEF PictureForPicture
    <3>1. k \in 1..Stored \/ k = Stored + 1
      BY <2>1, VideoGrows, VideoDomains
    <3>2. CASE k \in 1..Stored
      BY <2>1, <3>2, VideoGrows, VideoDomains DEF PictureForPicture
    <3>3. CASE k = Stored + 1
      <4> DEFINE now == shows[frameBuff[readIndex]]
      <4>1. /\ now \in Nat /\ begun \in Nat /\ now <= captured
            /\ \/ begun = Empty /\ now = Empty
               \/ begun # Empty /\ begun >= Stored + 1 /\ now - begun \in {0, 1}
            /\ video'[k].from = begun /\ video'[k].to = now
        <5>1. frameBuff[readIndex] \in Nat
          BY <2>1, VideoGrows, FrameRingAssumption DEF Frames
        <5> QED BY <2>1, <3>3, <5>1, VideoGrows, VideoDomains
      <4> HIDE DEF now
      <4>2. captured \in Nat /\ Stored \in Nat
        BY Counts
      <4> QED BY <3>3, <4>1, <4>2
    <3> QED BY <3>1, <3>2, <3>3
  <2>2. CASE ~EndWrite
    BY <2>2, VideoKept DEF PictureForPicture
  <2> QED BY <2>1, <2>2
<1> QED BY <1>1, <1>2, RingInvariant, PTL DEF Spec

(* Of two Mats encoded the later one is less than a lap of the ring older, *)
(* and of two pictures the later one is at most a lap older.               *)
BackAtMostALap ==
  \A j, k \in DOMAIN stored : j < k =>
    /\ stored[k] > stored[j] - FrameBuffLen
    /\ video[k].from = Empty \/ video[k].from >= video[j].to - FrameBuffLen

(* Each Mat encoded was in the ring, and no picture is of the future.      *)
VideoWritten ==
  \A k \in DOMAIN stored : stored[k] <= Written /\ video[k].to <= captured

(* However far tStoreFrame falls behind, what it encodes can jump back,    *)
(* but by less than FrameBuffLen Mats, and the picture by FrameBuffLen     *)
(* captures at most.                                                       *)
THEOREM JumpsBack == Spec => []BackAtMostALap
<1>1. Init => VideoWritten /\ BackAtMostALap
  BY DEF Init, VideoWritten, BackAtMostALap
<1>2. RingInv /\ VideoWritten /\ BackAtMostALap /\ [Next]_vars
        => (VideoWritten /\ BackAtMostALap)'
  <2> SUFFICES ASSUME RingInv, VideoWritten, BackAtMostALap, [Next]_vars
               PROVE  VideoWritten' /\ BackAtMostALap'
    OBVIOUS
  <2>0. /\ Written \in Nat /\ N \in Nat /\ Stored \in Nat /\ captured \in Nat
        /\ captured <= Written + 1
    <3>1. captured \in Nat /\ (acq # "capture" => captured > 0)
      BY Counts DEF RingInv
    <3> QED BY <3>1, FrameRingAssumption, Counts DEF N, Written
  <2>1. CASE EndWrite
    <3> DEFINE f == frameBuff[readIndex]
               now == shows[f]
    <3>1. f \in Nat /\ f <= Written /\ f > Written - N
      BY <2>1, VideoGrows, FrameRingAssumption DEF Frames
    <3>2. /\ now \in Nat /\ now <= captured /\ begun \in Nat
          /\ begun = Empty \/ begun >= f
      BY <2>1, VideoGrows
    <3>3. Written' = Written /\ captured' = captured
      BY <2>1 DEF EndWrite, acqVars, Written
    <3>4. \A k \in DOMAIN stored' :
            \/ k \in DOMAIN stored /\ stored'[k] = stored[k] /\ video'[k] = video[k]
            \/ /\ k = Stored + 1 /\ stored'[k] = f
               /\ video'[k].from = begun /\ video'[k].to = now
      BY <2>1, VideoGrows, VideoDomains
    <3> HIDE DEF f, now
    <3>5. VideoWritten'
      BY <3>1, <3>2, <3>3, <3>4 DEF VideoWritten
    <3>6. ASSUME NEW j \in DOMAIN stored', NEW k \in DOMAIN stored', j < k
          PROVE  /\ stored'[k] > stored'[j] - N
                 /\ \/ video'[k].from = Empty
                    \/ video'[k].from >= video'[j].to - N
      <4>1. DOMAIN stored' = 1..Stored + 1 /\ DOMAIN stored = 1..Stored
        BY <2>1, VideoGrows, VideoDomains
      <4>2. j \in DOMAIN stored /\ stored'[j] = stored[j] /\ video'[j] = video[j]
        BY <2>0, <3>4, <3>6, <4>1
      <4>3. CASE k \in DOMAIN stored
        <5>1. k # Stored + 1
          BY <2>0, <4>1, <4>3
        <5> QED BY <3>4, <3>6, <4>2, <4>3, <5>1 DEF BackAtMostALap, N
      <4>4. CASE k \notin DOMAIN stored
        <5>1. /\ stored'[k] = f /\ video'[k].from = begun
              /\ stored[j] \in Nat /\ stored[j] <= Written
              /\ video[j].to \in Nat /\ video[j].to <= captured
          BY <3>4, <4>1, <4>2, <4>4, VideoDomains DEF VideoWritten
        <5> QED BY <2>0, <3>1, <3>2, <4>2, <5>1
      <4> QED BY <4>3, <4>4
    <3> QED BY <3>5, <3>6 DEF BackAtMostALap, N
  <2>2. CASE ~EndWrite
    <3>1. /\ Written' \in Nat /\ Written' >= Written
          /\ captured' \in Nat /\ captured' >= captured
      <4>1. \/ UNCHANGED <<captured, acq>>
            \/ /\ captured' = captured + 1 /\ acq = "capture" /\ acq' = "draw"
            \/ /\ captured' = captured /\ acq = "draw" /\ acq' = "advance"
            \/ /\ captured' = captured /\ {acq, acq'} \subseteq
                                            {"advance", "post", "capture"}
        BY <2>2 DEF Next, CaptureFrame, PutFrame, AdvanceWrite, PostFrame,
               WaitFrame, BeginWrite, ComputeIndex, GrabFrame, acqVars, vars
      <4> QED BY <2>0, <4>1 DEF Written
    <3>2. UNCHANGED <<stored, video>>
      BY <2>2, VideoKept
    <3> QED BY <2>0, <3>1, <3>2, VideoDomains DEF VideoWritten, BackAtMostALap
  <2> QED BY <2>1, <2>2
<1> QED BY <1>1, <1>2, RingInvariant, PTL DEF Spec

(* Numbers with the same remainder are whole multiples apart.              *)
LEMMA ModDifference ==
  ASSUME NEW n \in Nat \ {0}, NEW a \in Nat, NEW b \in Nat,
         a % n = b % n
  PROVE  (a - b) % n = 0
<1> DEFINE p == a \div n
           q == b \div n
           r == a % n
<1>1. p \in Int /\ q \in Int /\ r \in 0..n - 1 /\ a = n * p + r
  BY DivMod
<1>2. b = n * q + r
  BY DivMod
<1> HIDE DEF p, q, r
<1>3. n * (p - q) = n * p - n * q
  BY <1>1
<1>4. a - b = n * (p - q) + 0 /\ p - q \in Int /\ 0 \in 0..n - 1 /\ a - b \in Int
  BY <1>1, <1>2, <1>3
<1> QED BY <1>4, DivModUnique

(* And the other way round.                                                *)
LEMMA ModSame ==
  ASSUME NEW n \in Nat \ {0}, NEW a \in Nat, NEW b \in Nat,
         (a - b) % n = 0
  PROVE  a % n = b % n
<1> DEFINE p == (a - b) \div n
           q == b \div n
           r == b % n
<1>1. p \in Int /\ a - b = n * p + 0
  <2>1. a - b \in Int
    OBVIOUS
  <2> QED BY <2>1, DivMod
<1>2. q \in Int /\ r \in 0..n - 1 /\ b = n * q + r
  BY DivMod
<1> HIDE DEF p, q, r
<1>3. n * (p + q) = n * p + n * q /\ n * p \in Int /\ n * q \in Int
  BY <1>1, <1>2
<1>4. a = n * (p + q) + r /\ p + q \in Int
  <2>1. a = n * p + b
    BY <1>1, <1>3
  <2> QED BY <2>1, <1>1, <1>2, <1>3
<1>5. ASSUME NEW k \in Int, a = n * k + r
      PROVE  a % n = r
  BY ONLY n \in Nat \ {0}, a \in Int, <1>2, <1>5, DivModUnique
<1> QED BY <1>4, <1>5 DEF r

(* The queue has one frame at most for each turn, and for the k-th turn it *)
(* is the k-th frame while that is among the last ones put.                *)
LEMMA OneFrameForATurn ==
  ASSUME Written \in Nat, NEW k \in Nat,
         NEW f \in Queue!Turn(k), NEW g \in Queue!Turn(k)
  PROVE  f = g /\ (Written - k < FrameBuffLen => f = k)
<1>1. N \in Nat \ {0}
  BY FrameRingAssumption DEF N
<1>2. /\ f \in Nat /\ f >= k /\ f <= Written /\ f > Written - N
      /\ g \in Nat /\ g >= k /\ g <= Written /\ g > Written - N
      /\ (f - k) % N = 0 /\ (g - k) % N = 0
  BY DEF Queue!Turn, N
<1>3. f % N = k % N /\ g % N = k % N
  BY <1>1, <1>2, ModSame
<1>4. f = g
  <2>0. g - f < N /\ f - g < N
    BY <1>1, <1>2
  <2>1. CASE f <= g
    BY ONLY <1>1, <1>2, <1>3, <2>0, <2>1, ModInjective
  <2>2. CASE g <= f
    BY ONLY <1>1, <1>2, <1>3, <2>0, <2>2, ModInjective
  <2> QED BY <1>2, <2>1, <2>2
<1>5. Written - k < FrameBuffLen => f = k
  <2>1. Written - k < N => f - k < N
    BY <1>1, <1>2
  <2> QED BY <1>1, <1>2, <1>3, <2>1, ModInjective DEF N
<1> QED BY <1>4, <1>5

(* A put is a put, a Mat given to the encoder is taken from the queue,   *)
(* and the queue does not see the other steps.                             *)
LEMMA StepOfQueue ==
  ASSUME RingInv, [Next]_vars
  PROVE  [Queue!Next]_<<Written, stored>>
<1>0. /\ N \in Nat \ {0} /\ captured \in Nat /\ captured <= MaxFrames
      /\ Stored \in Nat /\ Written \in Nat /\ MaxFrames \in Nat
  <2>1. captured \in 0..MaxFrames
    BY DEF RingInv, TypeOK, Frames
  <2> QED BY <2>1, FrameRingAssumption, Counts DEF N
<1>1. CASE PutFrame
  <2>1. Written = captured - 1 /\ Written' = captured /\ stored' = stored
    BY <1>1 DEF PutFrame, Written, storeVars
  <2> QED BY <1>0, <2>1 DEF Queue!Next, Queue!Put
<1>2. CASE EndWrite
  <2> DEFINE f == frameBuff[readIndex]
  <2>1. /\ f \in Nat \ {0} /\ f <= Written /\ f >= Stored + 1
        /\ (f - 1) % N = Stored % N
    BY <1>2, SlotInTurn DEF EndWrite
  <2>2. f > Written - N
    BY <1>2, <2>1 DEF EndWrite, RingInv, SlotLaw, TypeOK, Empty, N
  <2>3. stored' = Append(stored, f) /\ Written' = Written
    BY <1>2 DEF EndWrite, acqVars, Written
  <2> HIDE DEF f
  <2>4. (f - (Stored + 1)) % N = 0
    <3>1. ((f - 1) - Stored) % N = 0
      <4>1. f - 1 \in Nat
        BY <2>1
      <4> QED BY ONLY <1>0, <2>1, <4>1, ModDifference
    <3>2. (f - 1) - Stored = f - (Stored + 1)
      BY <1>0, <2>1
    <3> QED BY <3>1, <3>2
  <2>5. f \in Queue!Turn(Stored + 1)
    BY <1>0, <2>1, <2>2, <2>4 DEF Queue!Turn, N
  <2> QED BY <2>3, <2>5 DEF Queue!Next, Queue!Take, Stored
<1>3. CASE CaptureFrame \/ AdvanceWrite \/ PostFrame
  BY <1>0, <1>3 DEF CaptureFrame, AdvanceWrite, PostFrame, storeVars, Written
<1>4. CASE WaitFrame \/ BeginWrite \/ ComputeIndex \/ GrabFrame
  BY <1>4 DEF WaitFrame, BeginWrite, ComputeIndex, GrabFrame, acqVars,
              storeVars, Written
<1>5. CASE UNCHANGED vars
  BY <1>5 DEF vars, Written
<1> QED BY <1>1, <1>2, <1>3, <1>4, <1>5 DEF Next

(* The ring, its two indices and its semaphore implement the queue.        *)
THEOREM RingIsQueue == Spec => QueueSpec
<1>1. Init => Queue!Init
  BY DEF Init, Queue!Init, Written
<1>2. RingInv /\ [Next]_vars => [Queue!Next]_<<Written, stored>>
  BY StepOfQueue
<1> QED BY <1>1, <1>2, RingInvariant, PTL DEF Spec, QueueSpec, Queue!Spec
=============================================================================
