--------------------------- MODULE PendriveManager ---------------------------
(***************************************************************************)
(* dPendriveManager: the daemon that mounts the pen drive on /mnt/usb.     *)
(* Its loop (autoMountDevices) mounts each partition udev reports; its     *)
(* signal handlers mount what is plugged in (mountOnStartup, then          *)
(* manageSpace) and unmount (unmount).  A handler may interrupt the loop   *)
(* and the other handler between any two steps, and all of them keep the   *)
(* handle of the directory they look at in one member, dir.                *)
(*                                                                         *)
(* Mounts on one directory are a stack; umount2(MNT_DETACH) takes the top  *)
(* one away, but the drive stays in use as long as something holds it.     *)
(* Drives are numbered by insertion: a drive plugged in again is another.  *)
(* AUTO_UNMOUNT and MANAGE_SPACE1 are not defined, so the loop does        *)
(* nothing for a drive that is pulled out.                                 *)
(*                                                                         *)
(* givePID publishes the PID of the daemon and posts a named semaphore,    *)
(* a new one in each run of the daemon.                                    *)
(***************************************************************************)
EXTENDS Integers, SequencesExt

CONSTANTS MaxPlugs, MaxDaemonRuns   \* bounds: insertions, runs of the daemon

ASSUME PendriveAssumption ==
  MaxPlugs \in Nat \ {0} /\ MaxDaemonRuns \in Nat \ {0}

VARIABLES
  plugs, plugged,      \* insertions so far, and the drives plugged in now
  events,              \* partitions udev has reported as added
  dirExists, mounts,   \* the directory /mnt/usb, and what is mounted on it
  hidden,              \* is there a video in the directory itself?
  daemonRun,           \* run of the daemon: its PID
  semName, semPid,     \* run the semaphore's name refers to; value in each run
  pidBlock,            \* the PID in the shared block
  pc,                  \* where the loop and the two handlers are
  active,              \* handlers that run, the innermost first
  pending,             \* signals sent and not delivered
  target, todo,        \* drive each is about to mount; devices not yet seen
  dir,                 \* the member dir: no handle, an open or a closed one
  failed               \* history: since the directory was made, has a mount
                       \* failed, a video stopped rmdir, or a run of the daemon
                       \* ended in the middle of something?

disk == <<plugs, plugged, events, dirExists, mounts, hidden>>
pidVars == <<daemonRun, semName, semPid, pidBlock>>
daemonVars == <<pc, active, pending, target, todo, dir, failed>>

None == 0
Root == 0
Drive == 1..MaxPlugs
Runs == 1..MaxDaemonRuns
Sig == {"SIG_MOUNT", "SIG_UNMOUNT"}
Activity == Sig \cup {"loop"}

(* What opendir finds: the file system on top of the directory.            *)
Top == IF mounts = <<>> THEN Root ELSE Last(mounts)

GivePC == {"unlink", "create", "pid", "post"}
Up == pc["loop"] # "down"
Idle == active = <<>> /\ pc["loop"] = "poll"

-----------------------------------------------------------------------------
Init ==
  /\ plugs = 1 /\ plugged = {1}
  /\ events = <<>>
  /\ dirExists = FALSE /\ mounts = <<>> /\ hidden = FALSE
  /\ daemonRun = 1
  /\ semName = None /\ semPid = [r \in Runs |-> 0]
  /\ pidBlock = None
  /\ pc = [a \in Activity |-> IF a = "loop" THEN "unlink" ELSE "idle"]
  /\ active = <<>>
  /\ pending = [s \in Sig |-> 0]
  /\ target = [a \in Activity |-> None]
  /\ todo = {}
  /\ dir = "null"
  /\ failed = FALSE

(* The activity a runs now, is at `here', and goes on to `there'.          *)
Running(a) == Up /\ (IF active = <<>> THEN a = "loop" ELSE a = active[1])
At(a, here) == Running(a) /\ pc[a] = here
Goto(a, there) == pc' = [pc EXCEPT ![a] = there]
Step(a, here, there) == At(a, here) /\ Goto(a, there) /\ UNCHANGED active
Return(s) == Goto(s, "idle") /\ active' = Tail(active)

(***************************************************************************)
(* givePID and setupEvent                                                  *)
(***************************************************************************)
UnlinkSem ==
  /\ Step("loop", "unlink", "create")
  /\ semName' = None
  /\ UNCHANGED <<disk, daemonRun, semPid, pidBlock, pending, target, todo, dir,
                 failed>>

(* Mutant of CreateSem: the semaphore starts at 1.                         *)
CreateSemFull ==
  /\ Step("loop", "create", "pid")
  /\ semName' = daemonRun
  /\ semPid' = [semPid EXCEPT ![daemonRun] = 1]
  /\ UNCHANGED <<disk, daemonRun, pidBlock, pending, target, todo, dir, failed>>

CreateSem ==
  /\ Step("loop", "create", "pid")
  /\ semName' = daemonRun
  /\ UNCHANGED <<disk, daemonRun, semPid, pidBlock, pending, target, todo, dir,
                 failed>>

PutPid ==
  /\ Step("loop", "pid", "post")
  /\ pidBlock' = daemonRun
  /\ UNCHANGED <<disk, daemonRun, semName, semPid, pending, target, todo, dir,
                 failed>>

(* Mutant of PostPid: the semaphore is only closed.                        *)
PostPidForgotten ==
  /\ Step("loop", "post", "setup")
  /\ UNCHANGED <<disk, pidVars, pending, target, todo, dir, failed>>

PostPid ==
  /\ Step("loop", "post", "setup")
  /\ semPid' = [semPid EXCEPT ![daemonRun] = @ + 1]
  /\ UNCHANGED <<disk, daemonRun, semName, pidBlock, pending, target, todo, dir,
                 failed>>

SetupEvent ==
  /\ Step("loop", "setup", "poll")
  /\ UNCHANGED <<disk, pidVars, pending, target, todo, dir, failed>>

GivePID == UnlinkSem \/ CreateSem \/ PutPid \/ PostPid

(***************************************************************************)
(* Calls that the loop and the handlers make on the directory              *)
(***************************************************************************)
(* dir = opendir(path).  A handle that was in dir is not closed.           *)
OpenDir == dir' = IF dirExists THEN "open" ELSE "null"

Mkdir(a, there) ==
  /\ Step(a, "mkdir", there)
  /\ dirExists' = TRUE
  /\ failed' = (dirExists /\ failed)
  /\ UNCHANGED <<plugs, plugged, events, mounts, hidden, pidVars, pending,
                 target, todo, dir>>

(* mount fails if the directory or the drive is gone or the drive is on    *)
(* top already, and may fail for what is on the drive.  The result is      *)
(* logged.                                                                 *)
Mount(a, there) ==
  /\ Step(a, "mount", there)
  /\ \/ /\ dirExists /\ target[a] \in plugged /\ target[a] # Top
        /\ mounts' = Append(mounts, target[a])
        /\ UNCHANGED failed
     \/ failed' = TRUE /\ UNCHANGED mounts
  /\ target' = [target EXCEPT ![a] = None]
  /\ UNCHANGED <<plugs, plugged, events, dirExists, hidden, pidVars, pending,
                 todo, dir>>

(***************************************************************************)
(* autoMountDevices                                                        *)
(***************************************************************************)
ReceiveDevice ==
  /\ Step("loop", "poll", "look")
  /\ events # <<>>
  /\ events' = Tail(events)
  /\ target' = [target EXCEPT !["loop"] = Head(events)]
  /\ UNCHANGED <<plugs, plugged, dirExists, mounts, hidden, pidVars, pending,
                 todo, dir, failed>>

LookBeforeMount ==
  /\ Step("loop", "look", "test")
  /\ OpenDir
  /\ UNCHANGED <<disk, pidVars, pending, target, todo, failed>>

(* An existing directory gets the new drive on top.                        *)
TestDir ==
  /\ Step("loop", "test", IF dir = "null" THEN "mkdir" ELSE "mount")
  /\ UNCHANGED <<disk, pidVars, pending, target, todo, dir, failed>>

AutoMountDevices ==
  \/ ReceiveDevice \/ LookBeforeMount \/ TestDir
  \/ Mkdir("loop", "mount") \/ Mount("loop", "poll")

(***************************************************************************)
(* The handler of SIG_MOUNT: mountOnStartup, then manageSpace              *)
(***************************************************************************)
ScanDevices ==
  /\ Step("SIG_MOUNT", "scan", "next")
  /\ todo' = plugged
  /\ UNCHANGED <<disk, pidVars, pending, target, dir, failed>>

LookForDevice ==
  /\ Step("SIG_MOUNT", "next", "test")
  /\ \E d \in todo :
       /\ todo' = todo \ {d}
       /\ target' = [target EXCEPT !["SIG_MOUNT"] = d]
  /\ OpenDir
  /\ UNCHANGED <<disk, pidVars, pending, failed>>

(* Mutant of TestStartupDir: the handle is closed, as unmount does.        *)
TestStartupDirClosing ==
  /\ Step("SIG_MOUNT", "test", IF dir = "null" THEN "mkdir" ELSE "next")
  /\ dir' = IF dir = "null" THEN "null" ELSE "closed"
  /\ UNCHANGED <<disk, pidVars, pending, target, todo, failed>>

(* An existing directory is taken to have the drive mounted.               *)
TestStartupDir ==
  /\ Step("SIG_MOUNT", "test", IF dir = "null" THEN "mkdir" ELSE "next")
  /\ target' = IF dir = "null" THEN target
               ELSE [target EXCEPT !["SIG_MOUNT"] = None]
  /\ UNCHANGED <<disk, pidVars, pending, todo, dir, failed>>

NoMoreDevices == At("SIG_MOUNT", "next") /\ todo = {}

Exit == pc' = [a \in Activity |-> IF a = "loop" THEN "down" ELSE "idle"]

(* The kernel closes what the process had open.                            *)
ProcessEnds ==
  /\ Up /\ Exit
  /\ active' = <<>> /\ pending' = [s \in Sig |-> 0]
  /\ target' = [a \in Activity |-> None] /\ todo' = {}
  /\ dir' = "null"
  /\ failed' = (failed \/ (dirExists /\ ~Idle))
  /\ UNCHANGED <<disk, pidVars>>

(* manageSpace exits if there is no such directory.                        *)
NoFileSystem ==
  /\ NoMoreDevices /\ ~dirExists
  /\ ProcessEnds

EnoughSpace ==
  /\ NoMoreDevices /\ dirExists
  /\ Return("SIG_MOUNT")
  /\ UNCHANGED <<disk, pidVars, pending, target, todo, dir, failed>>

LittleSpace ==
  /\ NoMoreDevices /\ dirExists
  /\ Step("SIG_MOUNT", "next", "clean")
  /\ UNCHANGED <<disk, pidVars, pending, target, todo, dir, failed>>

(* It enters the directory to remove the oldest file, and stays there.     *)
(* Without a directory, or an old file in it, oldestFile has no value: the *)
(* daemon goes on, or ends (DaemonDies).                                   *)
RemoveOldest ==
  /\ At("SIG_MOUNT", "clean")
  /\ Return("SIG_MOUNT")
  /\ hidden' \in IF dirExists /\ Top = Root THEN {hidden, FALSE} ELSE {hidden}
  /\ UNCHANGED <<plugs, plugged, events, dirExists, mounts, pidVars, pending,
                 target, todo, dir, failed>>

MountOnStartup ==
  \/ ScanDevices \/ LookForDevice \/ TestStartupDir
  \/ Mkdir("SIG_MOUNT", "mount") \/ Mount("SIG_MOUNT", "next")

ManageSpace == NoFileSystem \/ EnoughSpace \/ LittleSpace \/ RemoveOldest

(***************************************************************************)
(* The handler of SIG_UNMOUNT: unmount                                     *)
(***************************************************************************)
LookBeforeUnmount ==
  /\ Step("SIG_UNMOUNT", "look", "test")
  /\ OpenDir
  /\ UNCHANGED <<disk, pidVars, pending, target, todo, failed>>

NothingToUnmount ==
  /\ At("SIG_UNMOUNT", "test") /\ dir = "null"
  /\ Return("SIG_UNMOUNT")
  /\ UNCHANGED <<disk, pidVars, pending, target, todo, dir, failed>>

DirToUnmount ==
  /\ Step("SIG_UNMOUNT", "test", "closedir") /\ dir # "null"
  /\ UNCHANGED <<disk, pidVars, pending, target, todo, dir, failed>>

CloseDir ==
  /\ Step("SIG_UNMOUNT", "closedir", "umount")
  /\ dir' = "closed"
  /\ UNCHANGED <<disk, pidVars, pending, target, todo, failed>>

(* Mutant of Umount: rmdir is forgotten.                                   *)
UmountNoRmdir ==
  /\ At("SIG_UNMOUNT", "umount")
  /\ Return("SIG_UNMOUNT")
  /\ mounts' = IF mounts = <<>> THEN <<>> ELSE Front(mounts)
  /\ UNCHANGED <<plugs, plugged, events, dirExists, hidden, pidVars, pending,
                 target, todo, dir, failed>>

Umount ==
  /\ Step("SIG_UNMOUNT", "umount", "rmdir")
  /\ mounts' = IF mounts = <<>> THEN <<>> ELSE Front(mounts)
  /\ UNCHANGED <<plugs, plugged, events, dirExists, hidden, pidVars, pending,
                 target, todo, dir, failed>>

(* rmdir fails on a directory that is mounted on or holds a file.          *)
Rmdir ==
  /\ At("SIG_UNMOUNT", "rmdir")
  /\ Return("SIG_UNMOUNT")
  /\ dirExists' = (dirExists /\ (mounts # <<>> \/ hidden))
  /\ failed' = (dirExists' /\ (failed \/ mounts = <<>>))
  /\ UNCHANGED <<plugs, plugged, events, mounts, hidden, pidVars, pending,
                 target, todo, dir>>

Unmount ==
  \/ LookBeforeUnmount \/ NothingToUnmount \/ DirToUnmount
  \/ CloseDir \/ Umount \/ Rmdir

(* Mutants of Deliver: signal_catcher does nothing for one of the signals. *)
DeliverBut(ignored, s) ==
  /\ Up
  /\ pending[s] > 0 /\ pc[s] = "idle"
  /\ pending' = [pending EXCEPT ![s] = @ - 1]
  /\ active' = IF s = ignored THEN active ELSE <<s>> \o active
  /\ Goto(s, CASE s = ignored -> "idle"
              [] s # ignored -> IF s = "SIG_MOUNT" THEN "scan" ELSE "look")
  /\ UNCHANGED <<disk, pidVars, target, todo, dir, failed>>
DeliverUnmountOnly(s) == DeliverBut("SIG_MOUNT", s)
DeliverMountOnly(s) == DeliverBut("SIG_UNMOUNT", s)

(* signal_catcher is called between two steps of whatever runs; a signal   *)
(* does not interrupt its own handler.                                     *)
Deliver(s) ==
  /\ Up
  /\ pending[s] > 0 /\ pc[s] = "idle"
  /\ pending' = [pending EXCEPT ![s] = @ - 1]
  /\ active' = <<s>> \o active
  /\ Goto(s, IF s = "SIG_MOUNT" THEN "scan" ELSE "look")
  /\ UNCHANGED <<disk, pidVars, target, todo, dir, failed>>

SignalCatcher == MountOnStartup \/ ManageSpace \/ Unmount
DaemonNext == GivePID \/ SetupEvent \/ AutoMountDevices \/ SignalCatcher

(***************************************************************************)
(* The world around the daemon.  A death stands for kill -9, for the use   *)
(* of the udev context that the loop frees (line 337), and for oldestFile. *)
(***************************************************************************)
DaemonDies == ProcessEnds

DaemonStarts ==
  /\ ~Up /\ daemonRun < MaxDaemonRuns
  /\ daemonRun' = daemonRun + 1
  /\ Goto("loop", "unlink")
  /\ events' = <<>>
  /\ UNCHANGED <<plugs, plugged, dirExists, mounts, hidden, semName, semPid,
                 pidBlock, active, pending, target, todo, dir, failed>>

(* The monitor receives what happens after setupEvent.                     *)
Listening == Up /\ pc["loop"] \notin GivePC \cup {"setup"}

PlugIn ==
  /\ plugs < MaxPlugs
  /\ plugs' = plugs + 1
  /\ plugged' = plugged \cup {plugs + 1}
  /\ events' = IF Listening THEN Append(events, plugs + 1) ELSE events
  /\ UNCHANGED <<dirExists, mounts, hidden, pidVars, daemonVars>>

PullOut ==
  /\ \E d \in plugged : plugged' = plugged \ {d}
  /\ UNCHANGED <<plugs, events, dirExists, mounts, hidden, pidVars, daemonVars>>
=============================================================================
