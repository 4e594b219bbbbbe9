------------------------------ MODULE RoadBuddy ------------------------------
(***************************************************************************)
(* The main process (main.cpp): the threads tAcqnMergeFrame (acq),         *)
(* tProcessFrame (proc), tStoreFrame (store) and tWarningSystem (warn),    *)
(* the main thread that joins the first three, the flags of controlWord    *)
(* that the signal handler sets, and the exchange of lane lines through    *)
(* CFpu::processedFrame.  The ring of frames is module FrameRing; here its *)
(* steps happen where the threads' loops make them.                        *)
(*                                                                         *)
(* The signal handler appears as one atomic update of controlWord, which   *)
(* module SignalHandler justifies.  A test of a flag and the lock, signal  *)
(* and unlock that follow it are one step: no other thread's step tells    *)
(* the difference.  Waking from a condition variable needs no predicate in *)
(* this code, so a signal sent while nobody waits is lost.                 *)
(***************************************************************************)
EXTENDS ControlWord, Integers, Sequences

CONSTANTS
  FrameBuffLen, MaxFrames, MaxFailures,  \* as in FrameRing
  MaxPresses,        \* bound: presses of the two buttons
  SpuriousWakeups,   \* threads whose pthread_cond_wait may return unsignalled
  Dangers            \* what dangerDetection may find, a subset of BOOLEAN

ASSUME RoadBuddyAssumption ==
  /\ FrameBuffLen \in 2..128 /\ MaxFrames \in Nat /\ MaxFailures \in Nat
  /\ MaxPresses \in Nat
  /\ SpuriousWakeups \subseteq {"proc", "warn"}
  /\ Dangers \in (SUBSET BOOLEAN) \ {{}}

VARIABLES
  captured, shows, frameBuff, writeIndex, readIndex, sem_frameprod, stored,
  begun, video, frameBeingProcessed, procIndex, newest,   \* as in FrameRing
  processedFrame,    \* frame the published lane lines come from, or Empty
  controlWord,       \* the set of flags that are on
  warnPending,       \* SIG_WARN_SYS sent and not handled yet
  presses,           \* button presses so far
  videoIndex,        \* frames the index at the end of the file lists, or None
  acq, proc, store, warn, main,             \* where the threads are
  process            \* "running", "exited", "failed" or "aborted"

ring == <<captured, shows, frameBuff, writeIndex, readIndex, sem_frameprod,
          stored, begun, video, frameBeingProcessed, procIndex, newest>>
flags == <<controlWord, warnPending, presses>>
vars == <<ring, processedFrame, videoIndex, flags,
          acq, proc, store, warn, main, process>>

On(f) == f \in controlWord

(* What the ring sees of the threads.                                      *)
RingAcq == CASE acq \in {"merge", "add", "put"} -> "draw"
             [] acq \in {"advance", "post"} -> acq
             [] OTHER -> "capture"
RingStore == IF store \in {"lock", "write"} THEN store ELSE "wait"
RingProc == IF proc = "grab" THEN "indexed" ELSE "idle"

Ring == INSTANCE FrameRing
          WITH acq <- RingAcq, store <- RingStore, proc <- RingProc

Empty == Ring!Empty
None == -1

-----------------------------------------------------------------------------
(* main has set PROC_F and installed the handlers, camera and video are    *)
(* open, and the threads have just been created.                           *)
Init ==
  /\ acq = "spin" /\ proc = "check" /\ store = "check"
  /\ warn = "lock" /\ main = "joinProc"
  /\ process = "running"
  /\ Ring!Init
  /\ processedFrame = Empty
  /\ videoIndex = None
  /\ controlWord = InitialWord
  /\ warnPending = FALSE
  /\ presses = 0

(***************************************************************************)
(* tAcqnMergeFrame.  It spins until ENG_STAT is set, and only then looks   *)
(* at END.  At the bound MaxFrames it stays at its loop test until END.    *)
(***************************************************************************)
AcqOthers == UNCHANGED <<videoIndex, flags, proc, store, warn, main>>

EngineOn ==
  /\ acq = "spin" /\ On("ENG_STAT")
  /\ acq' = "check"
  /\ AcqOthers /\ UNCHANGED <<ring, processedFrame, process>>

AcqLoop ==
  /\ acq = "check"
  /\ IF On("END") THEN acq' = "done"
                  ELSE captured < MaxFrames /\ acq' = "capture"
  /\ AcqOthers /\ UNCHANGED <<ring, processedFrame, process>>

Capture ==
  /\ acq = "capture"
  /\ acq' = "merge"
  /\ AcqOthers /\ UNCHANGED <<processedFrame, process>>
  /\ Ring!CaptureFrame

(* setLaneLines, with mutex_procframe from here to the end of AddLines.    *)
TestLines ==
  /\ acq = "merge"
  /\ acq' = IF processedFrame = Empty THEN "put" ELSE "add"
  /\ AcqOthers /\ UNCHANGED <<ring, processedFrame, process>>

(* Adding two Mats of which one is empty throws cv::Exception in the       *)
(* thread, which ends the process: the lines were emptied since the test,  *)
(* or the capture failed.                                                  *)
AddLines ==
  /\ acq = "add"
  /\ IF (processedFrame = Empty) # (shows[captured] = Empty)
       THEN process' = "aborted" /\ UNCHANGED <<acq, processedFrame>>
       ELSE /\ acq' = "put"
            /\ processedFrame' = Empty
            /\ UNCHANGED process
  /\ AcqOthers /\ UNCHANGED ring

Put ==
  /\ acq = "put"
  /\ acq' = "advance"
  /\ AcqOthers /\ UNCHANGED <<processedFrame, process>>
  /\ Ring!PutFrame

Advance ==
  /\ acq = "advance"
  /\ acq' = "post"
  /\ AcqOthers /\ UNCHANGED <<processedFrame, process>>
  /\ Ring!AdvanceWrite

(* Mutant of Post: the semaphore is posted only while images are processed *)
PostIfProcessing ==
  /\ acq = "post"
  /\ acq' = "notify"
  /\ AcqOthers /\ UNCHANGED <<processedFrame, process>>
  /\ IF On("PROC_F") THEN Ring!PostFrame ELSE UNCHANGED ring

Post ==
  /\ acq = "post"
  /\ acq' = "notify"
  /\ AcqOthers /\ UNCHANGED <<processedFrame, process>>
  /\ Ring!PostFrame

(* pthread_cond_signal(&cond_tprocframe)                                   *)
SignalProc == proc' = IF proc = "waiting" THEN "woken" ELSE proc

Notify ==
  /\ acq = "notify"
  /\ IF On("PROC_F") THEN SignalProc ELSE UNCHANGED proc
  /\ acq' = "check"
  /\ UNCHANGED <<ring, processedFrame, videoIndex, flags, store, warn, main,
                 process>>

AcqNext == process = "running" /\ ( \/ EngineOn \/ AcqLoop \/ Capture
                                     \/ TestLines \/ AddLines \/ Put
                                     \/ Advance \/ Post \/ Notify )

(***************************************************************************)
(* tProcessFrame                                                           *)
(***************************************************************************)
ProcOthers == UNCHANGED <<videoIndex, controlWord, presses, acq, store, main>>

ProcLoop ==
  /\ proc = "check"
  /\ proc' = IF On("END") THEN "done" ELSE "lock"
  /\ ProcOthers /\ UNCHANGED <<ring, processedFrame, warnPending, warn, process>>

(* Mutant of ProcWait: the condition is not waited for.                    *)
ProcNoWait ==
  /\ proc = "lock"
  /\ proc' = "woken"
  /\ ProcOthers /\ UNCHANGED <<ring, processedFrame, warnPending, warn, process>>

ProcWait ==
  /\ proc = "lock"
  /\ proc' = "waiting"
  /\ ProcOthers /\ UNCHANGED <<ring, processedFrame, warnPending, warn, process>>

ProcSpuriousWakeup ==
  /\ "proc" \in SpuriousWakeups
  /\ proc = "waiting"
  /\ proc' = "woken"
  /\ ProcOthers /\ UNCHANGED <<ring, processedFrame, warnPending, warn, process>>

(* undistortFrame releases processedFrame without mutex_procframe.         *)
TestProcFlag ==
  /\ proc = "woken"
  /\ IF On("PROC_F") THEN proc' = "index" /\ processedFrame' = Empty
                     ELSE proc' = "warn" /\ UNCHANGED processedFrame
  /\ ProcOthers /\ UNCHANGED <<ring, warnPending, warn, process>>

Index ==
  /\ proc = "index"
  /\ proc' = "grab"
  /\ ProcOthers /\ UNCHANGED <<processedFrame, warnPending, warn, process>>
  /\ Ring!ComputeIndex

(* Mutant of Grab: copy the frame just captured, not the one in the ring.  *)
GrabLastFrame ==
  /\ proc = "grab"
  /\ proc' = "remap"
  /\ frameBeingProcessed' = captured
  /\ ProcOthers /\ UNCHANGED <<processedFrame, warnPending, warn, process>>
  /\ UNCHANGED <<captured, shows, frameBuff, writeIndex, readIndex,
                 sem_frameprod, stored, begun, video, procIndex, newest>>

Grab ==
  /\ proc = "grab"
  /\ proc' = "remap"
  /\ ProcOthers /\ UNCHANGED <<processedFrame, warnPending, warn, process>>
  /\ Ring!GrabFrame

(* remap asserts that its source is not empty, as a fresh slot and a       *)
(* failed capture are; the filters that follow are the thread's own.       *)
Remap ==
  /\ proc = "remap"
  /\ IF shows[frameBeingProcessed] = Empty
       THEN process' = "aborted" /\ UNCHANGED proc
       ELSE proc' = "publish" /\ UNCHANGED process
  /\ ProcOthers /\ UNCHANGED <<ring, processedFrame, warnPending, warn>>

(* drawLines stores the lines with mutex_procframe, free unless acq adds.  *)
PublishLines ==
  /\ proc = "publish"
  /\ acq # "add"
  /\ processedFrame' = frameBeingProcessed
  /\ proc' = "danger"
  /\ ProcOthers /\ UNCHANGED <<ring, warnPending, warn, process>>

DangerDetection ==
  /\ proc = "danger"
  /\ \E danger \in Dangers : warnPending' = (warnPending \/ danger)
  /\ proc' = "warn"
  /\ ProcOthers /\ UNCHANGED <<ring, processedFrame, warn, process>>

(* WARN is never cleared: from the first danger on, every pass signals.    *)
TestWarnFlags ==
  /\ proc = "warn"
  /\ warn' = IF On("BUZZ") /\ On("WARN") /\ warn = "waiting"
               THEN "open" ELSE warn
  /\ proc' = "check"
  /\ ProcOthers /\ UNCHANGED <<ring, processedFrame, warnPending, process>>

ProcNext == process = "running" /\ ( \/ ProcLoop \/ ProcWait \/ TestProcFlag
                                      \/ Index \/ Grab \/ Remap
                                      \/ PublishLines \/ DangerDetection
                                      \/ TestWarnFlags )

(***************************************************************************)
(* tStoreFrame                                                             *)
(***************************************************************************)
StoreOthers ==
  UNCHANGED <<processedFrame, videoIndex, flags, acq, warn, main, process>>

(* Mutant of StoreLoop: no wait for the semaphore.                         *)
StoreLoopNoWait ==
  /\ store = "check"
  /\ store' = IF On("END") THEN "exit" ELSE "lock"
  /\ StoreOthers /\ UNCHANGED <<ring, proc>>

StoreLoop ==
  /\ store = "check"
  /\ store' = IF On("END") THEN "exit" ELSE "wait"
  /\ StoreOthers /\ UNCHANGED <<ring, proc>>

StoreWait ==
  /\ store = "wait"
  /\ store' = "lock"
  /\ StoreOthers /\ UNCHANGED proc
  /\ Ring!WaitFrame

StoreBegin ==
  /\ store = "lock"
  /\ store' = "write"
  /\ StoreOthers /\ UNCHANGED proc
  /\ Ring!BeginWrite

StoreEnd ==
  /\ store = "write"
  /\ store' = "check"
  /\ StoreOthers /\ UNCHANGED proc
  /\ Ring!EndWrite

(* Mutant of StoreExit: nobody is woken.                                   *)
StoreExitSilent ==
  /\ store = "exit"
  /\ store' = "done"
  /\ StoreOthers /\ UNCHANGED <<ring, proc>>

(* After the loop, wake tProcessFrame if nobody else does any more.        *)
StoreExit ==
  /\ store = "exit"
  /\ IF On("PROC_F") THEN UNCHANGED proc ELSE SignalProc
  /\ store' = "done"
  /\ StoreOthers /\ UNCHANGED ring

StoreNext == process = "running" /\ ( \/ StoreLoop \/ StoreWait \/ StoreBegin
                                       \/ StoreEnd \/ StoreExit )

(***************************************************************************)
(* tWarningSystem: it never ends; when /dev/buzzer0 cannot be opened it    *)
(* ends the process.                                                       *)
(***************************************************************************)
WarnOthers ==
  UNCHANGED <<ring, processedFrame, videoIndex, flags, acq, proc, store, main>>

WarnWait ==
  /\ warn = "lock"
  /\ warn' = "waiting"
  /\ WarnOthers /\ UNCHANGED process

WarnSpuriousWakeup ==
  /\ "warn" \in SpuriousWakeups
  /\ warn = "waiting"
  /\ warn' = "open"
  /\ WarnOthers /\ UNCHANGED process

WarnOpen ==
  /\ warn = "open"
  /\ \/ warn' = "on" /\ UNCHANGED process
     \/ process' = "failed" /\ UNCHANGED warn
  /\ WarnOthers

WarnOff ==
  /\ warn = "on"
  /\ warn' = "lock"
  /\ WarnOthers /\ UNCHANGED process

WarnNext == process = "running" /\ (WarnWait \/ WarnOpen \/ WarnOff)

(***************************************************************************)
(* main: the three joins, the request to unmount, the end of its locals,   *)
(* and the exit, which ends the process with the threads it did not join.  *)
(***************************************************************************)
MainOthers == UNCHANGED <<ring, processedFrame, flags, acq, proc, store, warn>>

(* Mutants of Join: tStoreFrame is not joined; tWarningSystem is as well.  *)
JoinNotStore ==
  /\ \/ main = "joinProc"  /\ proc = "done"  /\ main' = "joinAcq"
     \/ main = "joinAcq"   /\ acq = "done"   /\ main' = "unmount"
  /\ MainOthers /\ UNCHANGED <<videoIndex, process>>

JoinWarnToo ==
  /\ \/ main = "joinProc"  /\ proc = "done" /\ warn = "done" /\ main' = "joinAcq"
     \/ main = "joinAcq"   /\ acq = "done"   /\ main' = "joinStore"
     \/ main = "joinStore" /\ store = "done" /\ main' = "unmount"
  /\ MainOthers /\ UNCHANGED <<videoIndex, process>>

Join ==
  /\ \/ main = "joinProc"  /\ proc = "done"  /\ main' = "joinAcq"
     \/ main = "joinAcq"   /\ acq = "done"   /\ main' = "joinStore"
     \/ main = "joinStore" /\ store = "done" /\ main' = "unmount"
  /\ MainOthers /\ UNCHANGED <<videoIndex, process>>

SendUnmount ==
  /\ main = "unmount"
  /\ main' = "return"
  /\ MainOthers /\ UNCHANGED <<videoIndex, process>>

(* `return 0' destroys the locals of main.  ~CVideo releases the writer,   *)
(* which only now writes the index of the file, after the unmount request. *)
DestroyLocals ==
  /\ main = "return"
  /\ videoIndex' = Ring!Stored
  /\ main' = "exit"
  /\ MainOthers /\ UNCHANGED process

Exit ==
  /\ main = "exit"
  /\ process' = "exited"
  /\ MainOthers /\ UNCHANGED <<videoIndex, main>>

MainNext == process = "running" /\ ( \/ Join \/ SendUnmount
                                      \/ DestroyLocals \/ Exit )

(***************************************************************************)
(* tSignalHandler                                                          *)
(***************************************************************************)
HandlerOthers ==
  UNCHANGED <<ring, processedFrame, videoIndex, acq, proc, store, warn, main,
              process>>

SigButton ==
  /\ presses < MaxPresses
  /\ presses' = presses + 1
  /\ \E s \in ButtonSig : controlWord' = Update(controlWord, s)
  /\ UNCHANGED warnPending /\ HandlerOthers

(* Once its flag is set, another of these signals changes nothing.         *)
SigEngine ==
  /\ \E s \in {"SIG_ENG_ON", "SIG_ENG_OFF"} :
       controlWord' = Update(controlWord, s)
  /\ controlWord' # controlWord
  /\ UNCHANGED <<presses, warnPending>> /\ HandlerOthers

SigWarnSys ==
  /\ warnPending
  /\ warnPending' = FALSE
  /\ controlWord' = Update(controlWord, "SIG_WARN_SYS")
  /\ UNCHANGED presses /\ HandlerOthers

WakeSpuriously == process = "running" /\ (ProcSpuriousWakeup \/ WarnSpuriousWakeup)
HandlerNext == process = "running" /\ (SigButton \/ SigEngine \/ SigWarnSys)

Next == \/ AcqNext \/ ProcNext \/ StoreNext \/ WarnNext \/ MainNext
        \/ WakeSpuriously \/ HandlerNext

Spec == Init /\ [][Next]_vars

(* Every thread runs under SCHED_OTHER, so one that can take a step        *)
(* eventually does, and a pending SIG_WARN_SYS is eventually handled.      *)
Fairness ==
  /\ WF_vars(AcqNext) /\ WF_vars(ProcNext) /\ WF_vars(StoreNext)
  /\ WF_vars(WarnNext) /\ WF_vars(MainNext)
  /\ WF_vars(process = "running" /\ SigWarnSys)

FairSpec == Spec /\ Fairness

-----------------------------------------------------------------------------
TypeOK ==
  /\ Ring!TypeOK
  /\ processedFrame \in Ring!Frames
  /\ videoIndex \in Nat \union {None}
  /\ controlWord \subseteq Flag
  /\ warnPending \in BOOLEAN
  /\ presses \in 0..MaxPresses
  /\ acq \in {"spin", "check", "capture", "merge", "add", "put", "advance",
              "post", "notify", "done"}
  /\ proc \in {"check", "lock", "waiting", "woken", "index", "grab", "remap",
               "publish", "danger", "warn", "done"}
  /\ store \in {"check", "wait", "lock", "write", "exit", "done"}
  /\ warn \in {"lock", "waiting", "open", "on"}
  /\ main \in {"joinProc", "joinAcq", "joinStore", "unmount", "return",
               "exit"}
  /\ process \in {"running", "exited", "failed", "aborted"}

(* The threads' accesses to the ring, as their loops make them, are those  *)
(* of FrameRing: what is proved there holds of the main process.           *)
RingSpec == Ring!Spec

(* Until the engine is switched off, tProcessFrame is woken only once      *)
(* there is a frame: it never remaps the empty Mat of a fresh slot.        *)
FrameBeforeProcessing ==
  proc = "remap" /\ ~On("END") /\ "proc" \notin SpuriousWakeups
    => frameBeingProcessed # Empty

(* Lane lines are drawn on a later frame than the one they were found in.  *)
LinesFromEarlierFrame ==
  acq \in {"merge", "add", "put"} => processedFrame < captured

(* tProcessFrame never goes back to an earlier frame, though the slot it   *)
(* chose may have been overtaken and have given it a later one than it     *)
(* chose: until the engine is switched off it is woken only once that one  *)
(* has been passed by writeIndex.                                          *)
ProcessesForward ==
  [][~On("END") /\ "proc" \notin SpuriousWakeups
       => frameBeingProcessed' >= frameBeingProcessed]_vars

(* Once main has asked the daemon to unmount the pen drive no more frames  *)
(* are written.  What is still written is the index, by ~CVideo, and no    *)
(* frame is missing in it.                                                 *)
OnlyIndexAfterUnmount ==
  [][/\ main \in {"return", "exit"} => video' = video
     /\ videoIndex' \in {videoIndex, Len(video)}
     /\ videoIndex # None => videoIndex' = Len(video')]_vars

(* As long as a frame posted has not had its turn, tStoreFrame comes to    *)
(* encode the next one, and that is the one captured next unless the ring  *)
(* has lapped it: so it goes through all frames, until the engine is       *)
(* switched off or the process ends.                                       *)
EveryFrameStored ==
  Ring!Posted > Ring!Stored
    ~> \/ /\ store = "write"
          /\ \/ frameBuff[readIndex] = Ring!Stored + 1
             \/ Ring!Written > Ring!Stored + FrameBuffLen
       \/ On("END") \/ process # "running"

(* The last thing tStoreFrame does wakes a tProcessFrame that waits while  *)
(* image processing is switched off, and it ends.                          *)
StoreReleasesProc ==
  store = "exit" /\ proc = "waiting" /\ ~On("PROC_F")
    ~> proc = "done" \/ On("PROC_F") \/ process # "running"

(* The three ways a thread can miss END: tAcqnMergeFrame still spins for   *)
(* ENG_STAT, tStoreFrame waits for a frame nobody will post, or            *)
(* tProcessFrame for a signal nobody will send.                            *)
SpinsForEngine == acq = "spin"
StoreMissedEnd == acq = "done" /\ store = "wait" /\ sem_frameprod = 0
ProcMissedEnd  == acq = "done" /\ store = "done" /\ proc = "waiting"

(* When the engine is switched off, the process asks for the unmount and   *)
(* ends, or it is stuck for good in one of those three ways and no other.  *)
EndsOrMissesEnd ==
  On("END") ~> [](\/ process # "running"
                  \/ SpinsForEngine \/ StoreMissedEnd \/ ProcMissedEnd)

(* Only setLaneLines takes published lines away, when it has drawn them.   *)
LinesReachFrame ==
  [][processedFrame # Empty /\ processedFrame' = Empty => acq = "add"]_vars
=============================================================================
