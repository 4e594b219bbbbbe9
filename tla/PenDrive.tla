------------------------------- MODULE PenDrive -------------------------------
(***************************************************************************)
(* The main process and dPendriveManager around the pen drive.  main opens *)
(* the daemon's semaphore by name, waits on it, reads the daemon's PID     *)
(* from the shared block and sends it SIG_MOUNT.  It opens the video right *)
(* after that, without an answer, so the video is made on the drive, in    *)
(* the directory the drive is about to hide, or not at all.  At the end it *)
(* sends SIG_UNMOUNT, and the video is closed as main returns.             *)
(*                                                                         *)
(* Both processes may die and be started again, and drives come and go.    *)
(***************************************************************************)
EXTENDS PendriveManager

CONSTANT MaxMainRuns   \* bound: runs of main

ASSUME PenDriveAssumption == MaxMainRuns \in Nat

VARIABLES
  mainRun, main,       \* runs of main so far, and where this one is
  mainSem, penPid,     \* the semaphore it opened, the PID it read
  video,               \* the drive the video is on, Root or NoVideo
  taken,               \* history: daemon runs whose post a run of main took
  crossed              \* history: has a run of main read the PID of another
                       \* run of the daemon than the one that posted for it?

mainVars == <<mainRun, main, mainSem, penPid, video, taken, crossed>>
vars == <<disk, pidVars, daemonVars, mainVars>>

NoVideo == -1
MainPC == {"off", "sem", "wait", "pid", "open", "run", "return"}

-----------------------------------------------------------------------------
PenInit ==
  /\ Init
  /\ mainRun = 0 /\ main = "off"
  /\ mainSem = None /\ penPid = None
  /\ video = NoVideo
  /\ taken = {} /\ crossed = FALSE

MainStarts ==
  /\ main = "off" /\ mainRun < MaxMainRuns
  /\ mainRun' = mainRun + 1 /\ main' = "sem"
  /\ UNCHANGED <<disk, pidVars, daemonVars, mainSem, penPid, video, taken,
                 crossed>>

MainEnds ==
  /\ main' = "off"
  /\ mainSem' = None /\ penPid' = None /\ video' = NoVideo
  /\ UNCHANGED <<disk, pidVars, daemonVars, mainRun, taken, crossed>>

(***************************************************************************)
(* getPenDriveDaemonPID                                                    *)
(***************************************************************************)
OpenSem ==
  /\ main = "sem" /\ semName # None
  /\ main' = "wait" /\ mainSem' = semName
  /\ UNCHANGED <<disk, pidVars, daemonVars, mainRun, penPid, video, taken,
                 crossed>>

NoSem == main = "sem" /\ semName = None /\ MainEnds

WaitPid ==
  /\ main = "wait" /\ semPid[mainSem] > 0
  /\ semPid' = [semPid EXCEPT ![mainSem] = @ - 1]
  /\ taken' = taken \cup {mainSem}
  /\ main' = "pid"
  /\ UNCHANGED <<disk, daemonRun, semName, pidBlock, daemonVars, mainRun,
                 mainSem, penPid, video, crossed>>

(* A signal to a process that is gone is lost.                             *)
Kill(pid, s) ==
  pending' = IF Up /\ pid = daemonRun THEN [pending EXCEPT ![s] = @ + 1]
             ELSE pending

SendMount ==
  /\ main = "pid"
  /\ penPid' = pidBlock
  /\ Kill(pidBlock, "SIG_MOUNT")
  /\ crossed' = (crossed \/ pidBlock # mainSem)
  /\ main' = "open"
  /\ UNCHANGED <<disk, pidVars, pc, active, target, todo, dir, failed,
                 mainRun, mainSem, video, taken>>

(***************************************************************************)
(* The video, from main's open to its destructor                           *)
(***************************************************************************)
OpenVideo ==
  /\ main = "open"
  /\ dirExists /\ Top \in plugged \cup {Root}
  /\ video' = Top
  /\ hidden' = (hidden \/ Top = Root)
  /\ main' = "run"
  /\ UNCHANGED <<plugs, plugged, events, dirExists, mounts, pidVars,
                 daemonVars, mainRun, mainSem, penPid, taken, crossed>>

NoFile ==
  /\ main = "open"
  /\ ~dirExists \/ Top \notin plugged \cup {Root}
  /\ MainEnds

(* Mutant of SendUnmount: sent while the threads still store frames.       *)
SendUnmountEarly ==
  /\ main = "run"
  /\ Kill(penPid, "SIG_UNMOUNT")
  /\ UNCHANGED <<disk, pidVars, pc, active, target, todo, dir, failed,
                 mainVars>>

SendUnmount ==
  /\ main = "run"
  /\ Kill(penPid, "SIG_UNMOUNT")
  /\ main' = "return"
  /\ UNCHANGED <<disk, pidVars, pc, active, target, todo, dir, failed,
                 mainRun, mainSem, penPid, video, taken, crossed>>

CloseVideo == main = "return" /\ MainEnds

GetPenDriveDaemonPID == OpenSem \/ NoSem \/ WaitPid \/ SendMount
MainNext ==
  \/ GetPenDriveDaemonPID
  \/ OpenVideo \/ NoFile \/ SendUnmount \/ CloseVideo

(* Ctrl-C, a crash, or the camera or the car's semaphores missing.         *)
MainDies == main # "off" /\ MainEnds

DaemonStep == (DaemonNext \/ \E s \in Sig : Deliver(s)) /\ UNCHANGED mainVars
World ==
  (DaemonDies \/ DaemonStarts \/ PlugIn \/ PullOut) /\ UNCHANGED mainVars
Next == DaemonStep \/ World \/ MainStarts \/ MainNext \/ MainDies
Spec == PenInit /\ [][Next]_vars

(* The kernel schedules both processes and delivers signals: the daemon    *)
(* does not stop while it has something to do.  Nothing makes anyone die or*)
(* start, or a drive come or go.                                           *)
Fairness == WF_vars(DaemonStep)
FairSpec == Spec /\ Fairness

-----------------------------------------------------------------------------
(***************************************************************************)
(* Properties                                                              *)
(***************************************************************************)
LoopPC == GivePC \cup
  {"setup", "poll", "look", "test", "mkdir", "mount", "down"}
MountPC == {"idle", "scan", "next", "test", "mkdir", "mount", "clean"}
UnmountPC == {"idle", "look", "test", "closedir", "umount", "rmdir"}

(* Types.  What is mounted or holds a file needs the directory.            *)
TypeOK ==
  /\ plugs \in 0..MaxPlugs /\ plugged \subseteq 1..plugs
  /\ events \in Seq(Drive) /\ mounts \in Seq(Drive)
  /\ {dirExists, hidden, failed, crossed} \subseteq BOOLEAN
  /\ (hidden \/ mounts # <<>>) => dirExists
  /\ daemonRun \in Runs
  /\ {semName, pidBlock, mainSem, penPid} \subseteq Runs \cup {None}
  /\ semPid \in [Runs -> 0..1]
  /\ DOMAIN pc = Activity /\ pc["loop"] \in LoopPC
  /\ pc["SIG_MOUNT"] \in MountPC /\ pc["SIG_UNMOUNT"] \in UnmountPC
  /\ active \in Seq(Sig) /\ IsInjective(active)
  /\ \A s \in Sig : (pc[s] # "idle") <=> (s \in ToSet(active))
  /\ pending \in [Sig -> Nat]
  /\ target \in [Activity -> Drive \cup {None}]
  /\ todo \subseteq Drive /\ dir \in {"null", "open", "closed"}
  /\ mainRun \in 0..MaxMainRuns /\ main \in MainPC
  /\ video \in Drive \cup {Root, NoVideo}
  /\ taken \subseteq Runs

(* givePID puts the PID before it posts, and posts once: the PID main reads*)
(* is that of the run whose semaphore it waited on, or of a later one; and *)
(* whoever waits on the semaphore of a daemon that has given its PID gets  *)
(* past it, unless another run of main did before.                         *)
PidCurrent == main \in {"open", "run", "return"} => penPid >= mainSem
WaitsOnlyIfTaken ==
  (main = "wait" /\ Up /\ mainSem = daemonRun /\ pc["loop"] \notin GivePC)
    => (semPid[mainSem] = 1 \/ mainSem \in taken)
PidHandedOver == PidCurrent /\ WaitsOnlyIfTaken

(* unmount closes a handle that is open, although SIG_MOUNT's handler may  *)
(* have replaced the member dir since unmount opened it.                   *)
ClosesOpenDir == pc["SIG_UNMOUNT"] = "closedir" => dir = "open"

(* While the daemon waits for events, the directory is there without a     *)
(* drive on it, so that SIG_MOUNT mounts nothing, only after a mount failed*)
(* or a video made in the directory itself kept it from being removed.     *)
StaleDirOnlyIf == (Idle /\ dirExists /\ mounts = <<>>) => failed

(* The drive main records on stays mounted until main asks for the unmount,*)
(* if main has talked to the daemon that posted for it.                    *)
VideoStaysMounted ==
  (main = "run" /\ video \in Drive /\ ~crossed) => video \in ToSet(mounts)

(* SIG_MOUNT with a drive plugged in and no directory gets it mounted,     *)
(* unless mount fails, the drive is pulled out or the daemon ends.         *)
MountServed ==
  (pending["SIG_MOUNT"] > 0 /\ ~dirExists /\ plugged # {})
    ~> (mounts # <<>> \/ failed \/ plugged = {} \/ ~Up)

(* SIG_UNMOUNT takes the one drive mounted off the directory, unless        *)
(* another is mounted over it first.                                       *)
UnmountServed ==
  (pending["SIG_UNMOUNT"] > 0 /\ Len(mounts) = 1) ~> (Len(mounts) # 1 \/ ~Up)
=============================================================================
