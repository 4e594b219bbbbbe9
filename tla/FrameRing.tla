------------------------------ MODULE FrameRing ------------------------------
(***************************************************************************)
(* The ring of frames that the threads of the main process share           *)
(* (frameBuff, writeIndex, readIndex of src/cvideocam.cpp, sem_frameprod   *)
(* of main.cpp) and the three threads' accesses to it:                     *)
(*   - tAcqnMergeFrame captures a frame, draws on it, puts it in the slot  *)
(*     at writeIndex, advances writeIndex and posts sem_frameprod;         *)
(*   - tStoreFrame waits for sem_frameprod and writes the slot at          *)
(*     readIndex to the video, holding mutex_framebuff while it does;      *)
(*   - tProcessFrame computes the index of the newest slot without the     *)
(*     mutex and copies that slot later, with the mutex.                   *)
(* Nothing makes the producer wait for the consumer, so frames can be      *)
(* overwritten before they are stored.                                     *)
(*                                                                         *)
(* A Mat is a header that refers to pixels.  It is named by the number of  *)
(* the capture after which it was put in the ring; 0 is the empty Mat of a *)
(* slot nobody has written.  Assigning a Mat copies the header and shares  *)
(* the pixels, and a capture copies into the pixels lastFrame has: all the *)
(* Mats put since lastFrame last got new pixels show the same picture, the *)
(* newest.  Only a failed capture, which empties lastFrame, makes the next *)
(* one take new pixels.                                                    *)
(***************************************************************************)
EXTENDS Integers, Sequences, FiniteSets

CONSTANTS
  FrameBuffLen,   \* slots of frameBuff (128 in the code)
  MaxFrames,      \* bound: captures in one behaviour
  MaxFailures     \* bound: how many of them may fail

ASSUME FrameRingAssumption ==
  /\ FrameBuffLen \in 2..128        \* undistortFrame keeps an index in an int8_t
  /\ MaxFrames \in Nat
  /\ MaxFailures \in Nat

VARIABLES
  captured,             \* captures so far: the number of cam->lastFrame
  shows,                \* the capture whose picture each Mat shows, or Empty
  frameBuff,            \* the Mat each slot holds
  writeIndex,           \* next slot tAcqnMergeFrame writes
  readIndex,            \* next slot tStoreFrame reads
  sem_frameprod,        \* value of the semaphore
  stored,               \* the Mats given to the encoder, in order
  begun,                \* what the one being encoded showed at the start
  video,                \* what each showed, from start to end of the encoding
  frameBeingProcessed,  \* the Mat tProcessFrame last copied
  procIndex,            \* the local `index' of undistortFrame
  newest,               \* history: frames advanced past when it was computed
  acq, store, proc      \* where the three threads are

vars == <<captured, shows, frameBuff, writeIndex, readIndex, sem_frameprod,
          stored, begun, video, frameBeingProcessed, procIndex, newest,
          acq, store, proc>>

Slots == 0..FrameBuffLen - 1
Frames == 0..MaxFrames
Empty == 0

(* Mutants of Increment: no wrap; a wrap one slot too early.               *)
IncrementNoWrap(i) == i + 1
IncrementWrapsEarly(i) == IF i + 2 >= FrameBuffLen THEN 0 ELSE i + 1

(* INCREMENT: clear bit 7 of i + 1, which is set only when i is the last   *)
(* slot; of another length, take the length away at the same place.        *)
Increment(i) == IF (i + 1) \div FrameBuffLen = 1 THEN i + 1 - FrameBuffLen
                                                  ELSE i + 1

(* Mutant of Previous: the slot about to be written, not the last one.     *)
PreviousForgotten(i) == i

(* index = writeIndex-1, and the last slot when that is negative.          *)
Previous(i) == IF i - 1 < 0 THEN FrameBuffLen - 1 ELSE i - 1

(* The captures that failed.                                               *)
Failed == {m \in 1..captured : shows[m] = Empty}

(* Frames put in a slot, advanced past and posted so far.                  *)
Written  == IF acq = "draw" THEN captured - 1 ELSE captured
Advanced == IF acq \in {"draw", "advance"} THEN captured - 1 ELSE captured
Posted   == IF acq = "capture" THEN captured ELSE captured - 1
Stored   == Len(stored)

MutexFrameBuffFree == store # "write"

-----------------------------------------------------------------------------
Init ==
  /\ captured = 0
  /\ shows = [m \in Frames |-> Empty]
  /\ frameBuff = [i \in Slots |-> Empty]
  /\ writeIndex = 0
  /\ readIndex = 0
  /\ sem_frameprod = 0
  /\ stored = <<>>
  /\ begun = Empty
  /\ video = <<>>
  /\ frameBeingProcessed = Empty
  /\ procIndex = 0
  /\ newest = 0
  /\ acq = "capture"
  /\ store = "wait"
  /\ proc = "idle"

storeVars == <<readIndex, stored, begun, video, store>>
procVars  == <<frameBeingProcessed, procIndex, newest, proc>>
acqVars   == <<captured, shows, frameBuff, writeIndex, acq>>

(* cam >> lastFrame: the new picture is copied into the pixels that        *)
(* lastFrame shares with every Mat that shows the last capture; when it    *)
(* fails lastFrame is released, and shares pixels with none any more.      *)
CopyPicture ==
  \/ shows' = [m \in Frames |->
                 IF m = captured + 1 \/ (captured # Empty /\ shows[m] = captured)
                   THEN captured + 1 ELSE shows[m]]
  \/ Cardinality(Failed) < MaxFailures /\ UNCHANGED shows

(***************************************************************************)
(* tAcqnMergeFrame.  Between CaptureFrame and PutFrame it draws the time,  *)
(* the car status and the lane lines on lastFrame.                         *)
(***************************************************************************)
CaptureFrame ==
  /\ acq = "capture"
  /\ captured < MaxFrames
  /\ captured' = captured + 1
  /\ CopyPicture
  /\ acq' = "draw"
  /\ UNCHANGED <<frameBuff, writeIndex, sem_frameprod, storeVars, procVars>>

(* Mutant of PutFrame: without mutex_framebuff.                            *)
PutUnlocked ==
  /\ acq = "draw"
  /\ frameBuff' = [frameBuff EXCEPT ![writeIndex] = captured]
  /\ acq' = "advance"
  /\ UNCHANGED <<captured, shows, writeIndex, sem_frameprod, storeVars, procVars>>

PutFrame ==
  /\ acq = "draw"
  /\ MutexFrameBuffFree
  /\ frameBuff' = [frameBuff EXCEPT ![writeIndex] = captured]
  /\ acq' = "advance"
  /\ UNCHANGED <<captured, shows, writeIndex, sem_frameprod, storeVars, procVars>>

AdvanceWrite ==
  /\ acq = "advance"
  /\ writeIndex' = Increment(writeIndex)
  /\ acq' = "post"
  /\ UNCHANGED <<captured, shows, frameBuff, sem_frameprod, storeVars, procVars>>

PostFrame ==
  /\ acq = "post"
  /\ sem_frameprod' = sem_frameprod + 1
  /\ acq' = "capture"
  /\ UNCHANGED <<captured, shows, frameBuff, writeIndex, storeVars, procVars>>

(* Mutant of WaitFrame: sem_wait interrupted, its result not looked at.    *)
WaitFrameInterrupted ==
  /\ store = "wait"
  /\ sem_frameprod' = IF sem_frameprod > 0 THEN sem_frameprod - 1 ELSE 0
  /\ store' = "lock"
  /\ UNCHANGED <<acqVars, readIndex, stored, begun, video, procVars>>

(***************************************************************************)
(* tStoreFrame.  The encoder reads the pixels while the mutex is held, and *)
(* lastFrame may be captured into them meanwhile: a picture of the video   *)
(* may have parts of what they showed at the start, of what they show at   *)
(* the end and of all between.  An empty Mat is skipped by the encoder.    *)
(***************************************************************************)
WaitFrame ==
  /\ store = "wait"
  /\ sem_frameprod > 0
  /\ sem_frameprod' = sem_frameprod - 1
  /\ store' = "lock"
  /\ UNCHANGED <<acqVars, readIndex, stored, begun, video, procVars>>

BeginWrite ==
  /\ store = "lock"
  /\ begun' = shows[frameBuff[readIndex]]
  /\ store' = "write"
  /\ UNCHANGED <<acqVars, sem_frameprod, readIndex, stored, video, procVars>>

EndWrite ==
  /\ store = "write"
  /\ stored' = Append(stored, frameBuff[readIndex])
  /\ video' = Append(video, [from |-> begun, to |-> shows[frameBuff[readIndex]]])
  /\ begun' = Empty
  /\ readIndex' = Increment(readIndex)
  /\ store' = "wait"
  /\ UNCHANGED <<acqVars, sem_frameprod, procVars>>

(***************************************************************************)
(* tProcessFrame, in CFpu::undistortFrame.                                 *)
(***************************************************************************)
ComputeIndex ==
  /\ proc = "idle"
  /\ procIndex' = Previous(writeIndex)
  /\ newest' = Advanced
  /\ proc' = "indexed"
  /\ UNCHANGED <<acqVars, sem_frameprod, storeVars, frameBeingProcessed>>

GrabFrame ==
  /\ proc = "indexed"
  /\ MutexFrameBuffFree
  /\ frameBeingProcessed' = frameBuff[procIndex]
  /\ proc' = "idle"
  /\ UNCHANGED <<acqVars, sem_frameprod, storeVars, procIndex, newest>>

Next ==
  \/ CaptureFrame \/ PutFrame \/ AdvanceWrite \/ PostFrame
  \/ WaitFrame \/ BeginWrite \/ EndWrite
  \/ ComputeIndex \/ GrabFrame

Spec == Init /\ [][Next]_vars

-----------------------------------------------------------------------------
TypeOK ==
  /\ captured \in Frames
  /\ shows \in [Frames -> Frames]
  /\ frameBuff \in [Slots -> Frames]
  /\ writeIndex \in Slots
  /\ readIndex \in Slots
  /\ sem_frameprod \in Nat
  /\ stored \in Seq(Frames)
  /\ begun \in Frames
  /\ video \in Seq([from : Frames, to : Frames])
  /\ frameBeingProcessed \in Frames
  /\ procIndex \in Slots
  /\ newest \in Frames
  /\ acq \in {"capture", "draw", "advance", "post"}
  /\ store \in {"wait", "lock", "write"}
  /\ proc \in {"idle", "indexed"}

(* The slot that tStoreFrame has been let through to read has been         *)
(* written, so the encoder never gets the empty Mat of a fresh slot:       *)
(* sem_post comes after the put and the increment.                         *)
NeverStoresFreshSlot == store # "wait" => frameBuff[readIndex] # Empty

(* As long as tStoreFrame is at most FrameBuffLen frames behind, the slot  *)
(* it reads holds exactly the frame whose turn it is.  This holds again    *)
(* after a lap: the indices stay in step with the counts.                  *)
StoresInTurn ==
  store # "wait" /\ Written - Stored <= FrameBuffLen
    => frameBuff[readIndex] = Stored + 1

(* Lapped or not, the k-th Mat encoded is that of the k-th capture or late *)
(* by whole laps of the ring, and its picture is no older than the Mat.    *)
LateByWholeLaps ==
  \A k \in DOMAIN stored :
    /\ stored[k] >= k
    /\ (stored[k] - 1) % FrameBuffLen = (k - 1) % FrameBuffLen
    /\ video[k].from = Empty \/ video[k].from >= stored[k]

Queue == INSTANCE FrameQueue WITH put <- Written, taken <- stored

(* The ring is the lossy queue of Mats from tAcqnMergeFrame to tStoreFrame *)
(* that FrameQueue describes: each Mat encoded is the one of the last      *)
(* FrameBuffLen put in it that is whole laps away from the one whose turn  *)
(* it is.  What the Mat shows by then is another matter (TornByOne).       *)
QueueSpec == Queue!Spec

(* All slots share their pixels with lastFrame and mutex_framebuff does    *)
(* not cover the capture, so a picture may be torn; but by one capture at  *)
(* most: tAcqnMergeFrame has to put that capture before it makes the next, *)
(* and the put waits for the encoder.                                      *)
TornByOne == \A k \in DOMAIN video : video[k].to - video[k].from \in {0, 1}

(* The frame tProcessFrame copies is at least as new as the newest one     *)
(* finished when it computed the index, though that was done without the   *)
(* mutex and the ring may have moved on since.                             *)
GrabsNoOlderFrame == frameBeingProcessed >= newest \/ proc = "indexed"

(***************************************************************************)
(* The inductive invariant from which FrameRingProofs proves the above.    *)
(***************************************************************************)
(* Every frame posted has been taken by tStoreFrame or is still counted.   *)
SemaphoreLaw ==
  sem_frameprod + Stored + (IF store = "wait" THEN 0 ELSE 1) = Posted

(* The indices are the counts modulo the length of the ring.               *)
IndexLaw ==
  /\ writeIndex = Advanced % FrameBuffLen
  /\ readIndex = Stored % FrameBuffLen

(* A slot holds the newest of the frames written to it, if there is one.   *)
SlotLaw ==
  \A i \in Slots :
    IF frameBuff[i] = Empty
      THEN Written <= i
      ELSE /\ frameBuff[i] <= Written
           /\ frameBuff[i] > Written - FrameBuffLen
           /\ (frameBuff[i] - 1) % FrameBuffLen = i

(* The slot that tProcessFrame is about to copy only gets newer frames.    *)
IndexedLaw ==
  proc = "indexed" => newest <= captured /\ frameBuff[procIndex] >= newest

(* A Mat shows the capture it is named by or a later one, or nothing if    *)
(* that capture failed; Mats not put yet show nothing.                     *)
ShowsLaw ==
  \A m \in Frames : shows[m] # Empty => m # Empty /\ shows[m] \in m..captured

(* What the encoder has begun with is what the Mat shows, unless the one   *)
(* capture it does not keep out has been made since.                       *)
BegunLaw ==
  /\ Len(video) = Stored
  /\ store = "write" =>
       LET f == frameBuff[readIndex]
       IN  IF begun = Empty
             THEN shows[f] = Empty
             ELSE /\ begun >= f
                  /\ \/ shows[f] = begun
                     \/ shows[f] = begun + 1 /\ acq = "draw"

(* The laws together: posts, indices, slots, pictures and the copies in    *)
(* progress agree with the counts of frames captured and stored.           *)
RingInv ==
  /\ TypeOK
  /\ acq # "capture" => captured > 0
  /\ SemaphoreLaw
  /\ IndexLaw
  /\ SlotLaw
  /\ IndexedLaw
  /\ ShowsLaw
  /\ BegunLaw
=============================================================================
