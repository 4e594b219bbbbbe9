---------------------------- MODULE PenDriveProofs ----------------------------
(***************************************************************************)
(* Theorems about PenDrive, for any number of drives and of runs of main   *)
(* and of the daemon.  PenInv is the inductive invariant: the parts about  *)
(* the handlers, the disk and the directory are about the daemon alone,    *)
(* the parts about the PID and the unmount about what main may ask of it.  *)
(***************************************************************************)
EXTENDS PenDrive, HandlerStack, TLAPS

(***************************************************************************)
(* The inductive invariant                                                 *)
(***************************************************************************)
(* The handlers that run are on the stack, once each, and none survives    *)
(* the daemon.                                                             *)
HandlerInv ==
  /\ pc \in [Activity -> LoopPC \cup MountPC \cup UnmountPC]
  /\ pc["loop"] \in LoopPC
  /\ pc["SIG_MOUNT"] \in MountPC /\ pc["SIG_UNMOUNT"] \in UnmountPC
  /\ active \in Seq(Sig) /\ IsInjective(active)
  /\ \A s \in Sig : (pc[s] # "idle") <=> (s \in ToSet(active))
  /\ pending \in [Sig -> Nat]
  /\ ~Up => active = <<>> /\ pending["SIG_UNMOUNT"] = 0

(* What is mounted or holds a file needs the directory.                    *)
DiskInv ==
  /\ plugs \in 0..MaxPlugs /\ plugged \subseteq 1..plugs
  /\ events \in Seq(Drive) /\ mounts \in Seq(Drive)
  /\ {dirExists, hidden, failed} \subseteq BOOLEAN
  /\ (hidden \/ mounts # <<>>) => dirExists
  /\ target \in [Activity -> Drive \cup {None}]
  /\ todo \subseteq Drive

(* From its test until it closes the handle, unmount has the directory     *)
(* open: only unmount removes the directory, so that a handler in between  *)
(* opens it again.                                                         *)
DirInv ==
  /\ dir \in {"null", "open", "closed"}
  /\ (pc["SIG_UNMOUNT"] = "test" /\ dir # "null") => dir = "open" /\ dirExists
  /\ pc["SIG_UNMOUNT"] = "closedir" => dir = "open" /\ dirExists

(* A directory with nothing mounted on it is about to be mounted on, about *)
(* to be removed, or the remains of something that failed.                 *)
StaleInv ==
  (dirExists /\ mounts = <<>>) =>
    \/ failed
    \/ pc["loop"] = "mount" \/ pc["SIG_MOUNT"] = "mount"
    \/ pc["SIG_UNMOUNT"] = "rmdir"

(* Each run of the daemon makes a semaphore and posts it once, after it has*)
(* put its PID in the block; a later run takes the semaphore's name.        *)
PidInv ==
  /\ daemonRun \in Runs /\ pidBlock \in Runs \cup {None}
  /\ {semName, pidBlock, mainSem, penPid} \subseteq 0..daemonRun
  /\ semPid \in [Runs -> 0..1] /\ taken \subseteq Runs
  /\ \A r \in Runs : semPid[r] = 1 => r \notin taken /\ pidBlock >= r
  /\ \A r \in taken : pidBlock >= r
  /\ \A r \in Runs : r > daemonRun => semPid[r] = 0 /\ r \notin taken
  /\ pc["loop"] \in GivePC => semPid[daemonRun] = 0 /\ daemonRun \notin taken
  /\ pc["loop"] = "post" => pidBlock = daemonRun
  /\ pc["loop"] \in {"pid", "post"} => semName = daemonRun
  /\ semPid[daemonRun] = 1 \/ daemonRun \in taken => semName = daemonRun
  /\ (Up /\ pc["loop"] \notin GivePC) =>
       semPid[daemonRun] = 1 \/ daemonRun \in taken
  /\ main \in {"wait", "pid", "open", "run", "return"} => mainSem \in Runs
  /\ main \in {"pid", "open", "run", "return"} => mainSem \in taken
  /\ PidCurrent

(* SIG_UNMOUNT reaches the daemon only from the run of main that took its  *)
(* one post: the next run of main waits for the next run of the daemon.    *)
Unmounting == pending["SIG_UNMOUNT"] > 0 \/ pc["SIG_UNMOUNT"] # "idle"

UnmountInv ==
  /\ mainRun \in 0..MaxMainRuns /\ main \in MainPC
  /\ video \in Drive \cup {Root, NoVideo}
  /\ crossed \in BOOLEAN
  /\ ~crossed /\ main \in {"open", "run", "return"} => penPid = mainSem
  /\ ~crossed /\ Unmounting =>
       /\ daemonRun \in taken
       /\ main \in {"off", "sem", "wait", "return"}
       /\ main = "wait" => mainSem = daemonRun
  /\ VideoStaysMounted

PenInv ==
  HandlerInv /\ DiskInv /\ DirInv /\ StaleInv /\ PidInv /\ UnmountInv

-----------------------------------------------------------------------------
(* Append puts a drive on top of those that are mounted.                   *)
LEMMA PutOnTop ==
  ASSUME NEW st \in Seq(Drive), NEW d \in Drive
  PROVE  /\ Append(st, d) \in Seq(Drive) /\ Append(st, d) # <<>>
         /\ ToSet(st) \subseteq ToSet(Append(st, d))
<1>1. /\ Len(Append(st, d)) = Len(st) + 1 /\ Append(st, d) \in Seq(Drive)
      /\ \A i \in 1..Len(st) : Append(st, d)[i] = st[i]
  OBVIOUS
<1>2. DOMAIN st = 1..Len(st) /\ DOMAIN Append(st, d) = 1..Len(st) + 1
      /\ Len(st) \in Nat
  BY <1>1
<1> QED BY <1>1, <1>2 DEF ToSet

(* Front takes away the drive on top, which was one of those mounted.      *)
LEMMA TakeTop ==
  ASSUME NEW st \in Seq(Drive), st # <<>>
  PROVE  Front(st) \in Seq(Drive) /\ Last(st) \in ToSet(st) \cap Drive
<1>1. Len(st) \in Nat \ {0} /\ DOMAIN st = 1..Len(st)
  OBVIOUS
<1>2. \A i \in 1..Len(st) - 1 : st[i] \in Drive
  BY <1>1
<1>3. Front(st) \in Seq(Drive)
  BY <1>1, <1>2 DEF Front
<1>4. Last(st) \in ToSet(st) /\ Last(st) \in Drive
  BY <1>1 DEF Last, ToSet
<1> QED BY <1>3, <1>4

-----------------------------------------------------------------------------
(* Every part of the invariant holds initially.                            *)
LEMMA PenInitial == PenInit => PenInv
<1> SUFFICES ASSUME PenInit PROVE PenInv
  OBVIOUS
<1> USE PendriveAssumption, PenDriveAssumption
        DEF PenInit, Init, Activity, Sig, None, Root, Runs, Drive, Up
<1>1. HandlerInv
  BY DEF HandlerInv, IsInjective, ToSet, LoopPC, GivePC, MountPC, UnmountPC
<1>2. DiskInv
  <2>1. 1 \in 0..MaxPlugs /\ {1} \subseteq 1..1 /\ <<>> \in Seq(Drive)
    OBVIOUS
  <2> QED BY <2>1 DEF DiskInv
<1>3. DirInv /\ StaleInv
  BY DEF DirInv, StaleInv
<1>4. PidInv
  BY DEF PidInv, PidCurrent, GivePC
<1>5. UnmountInv
  <2>1. ~Unmounting
    BY DEF Unmounting
  <2>2. main \in MainPC /\ video \in Drive \cup {Root, NoVideo}
    BY DEF MainPC, NoVideo
  <2>3. mainRun \in 0..MaxMainRuns
    OBVIOUS
  <2> QED BY <2>1, <2>2, <2>3 DEF UnmountInv, VideoStaysMounted
<1> QED BY <1>1, <1>2, <1>3, <1>4, <1>5 DEF PenInv

(* The handler that returns is the innermost one.                          *)
LEMMA Returns ==
  ASSUME HandlerInv, NEW s \in Sig, Running(s), Return(s), UNCHANGED pending
  PROVE  HandlerInv'
<1>1. active # <<>> /\ active[1] = s
  BY DEF Running, Sig
<1>2. /\ Tail(active) \in Seq(Sig) /\ IsInjective(Tail(active))
      /\ ToSet(Tail(active)) = ToSet(active) \ {s}
  BY <1>1, Pop DEF HandlerInv
<1>3. active' = Tail(active) /\ pc' = [pc EXCEPT ![s] = "idle"]
  BY DEF Return, Goto
<1> QED
  BY <1>1, <1>2, <1>3
     DEF HandlerInv, Sig, Activity, Running, Up, LoopPC, GivePC, MountPC,
         UnmountPC

(* A daemon that ends leaves no handler.                                   *)
LEMMA DeathEmpties == ASSUME HandlerInv, ProcessEnds PROVE HandlerInv'
<1>1. /\ active' = <<>> /\ IsInjective(active') /\ ToSet(active') = {}
      /\ active' \in Seq(Sig)
  BY DEF ProcessEnds, IsInjective, ToSet
<1> QED
  BY <1>1 DEF HandlerInv, ProcessEnds, Exit, Activity, Sig, Up, LoopPC,
              GivePC, MountPC, UnmountPC

(* Only signal_catcher and its returns change the stack of handlers.        *)
LEMMA HandlerNext ==
  ASSUME HandlerInv, [Next]_vars
  PROVE  HandlerInv'
<1> USE PendriveAssumption DEF Step, At, Goto, Return, Up, Exit, ProcessEnds,
         Activity, Sig, Listening, disk, pidVars, daemonVars, mainVars, Kill,
         HandlerInv, LoopPC, GivePC, MountPC, UnmountPC
<1>1. CASE DaemonStep
  <2>1. CASE GivePID
    BY <2>1 DEF GivePID, UnlinkSem, CreateSem, PutPid, PostPid
  <2>2. CASE SetupEvent
    BY <2>2 DEF SetupEvent
  <2>3. CASE AutoMountDevices
    BY <2>3 DEF AutoMountDevices, ReceiveDevice, LookBeforeMount, TestDir,
        Mkdir, Mount
  <2>4. CASE MountOnStartup
    BY <2>4 DEF MountOnStartup, ScanDevices, LookForDevice, TestStartupDir,
        Mkdir, Mount
  <2>5. CASE ManageSpace
    <3>1. CASE NoFileSystem
      <4>1. ProcessEnds
        BY <3>1 DEF NoFileSystem
      <4> QED BY <4>1, DeathEmpties
    <3>2. CASE EnoughSpace
      <4>1. /\ Running("SIG_MOUNT") /\ Return("SIG_MOUNT")
           /\ UNCHANGED pending
        BY <3>2 DEF EnoughSpace, NoMoreDevices
      <4> QED BY <4>1, Returns
    <3>3. CASE LittleSpace
      BY <3>3 DEF LittleSpace, NoMoreDevices
    <3>4. CASE RemoveOldest
      <4>1. /\ Running("SIG_MOUNT") /\ Return("SIG_MOUNT")
           /\ UNCHANGED pending
        BY <3>4 DEF RemoveOldest
      <4> QED BY <4>1, Returns
    <3> QED BY <2>5, <3>1, <3>2, <3>3, <3>4 DEF ManageSpace
  <2>6. CASE Unmount
    <3>1. CASE LookBeforeUnmount
      BY <3>1 DEF LookBeforeUnmount
    <3>2. CASE NothingToUnmount
      <4>1. /\ Running("SIG_UNMOUNT") /\ Return("SIG_UNMOUNT")
           /\ UNCHANGED pending
        BY <3>2 DEF NothingToUnmount
      <4> QED BY <4>1, Returns
    <3>3. CASE DirToUnmount
      BY <3>3 DEF DirToUnmount
    <3>4. CASE CloseDir
      BY <3>4 DEF CloseDir
    <3>5. CASE Umount
      BY <3>5 DEF Umount
    <3>6. CASE Rmdir
      <4>1. /\ Running("SIG_UNMOUNT") /\ Return("SIG_UNMOUNT")
           /\ UNCHANGED pending
        BY <3>6 DEF Rmdir
      <4> QED BY <4>1, Returns
    <3> QED BY <2>6, <3>1, <3>2, <3>3, <3>4, <3>5, <3>6 DEF Unmount
  <2>7. ASSUME NEW s \in Sig, Deliver(s) PROVE HandlerInv'
    <3>1. active' = <<s>> \o active /\ s \notin ToSet(active)
      BY <2>7 DEF Deliver
    <3>2. /\ active' \in Seq(Sig) /\ IsInjective(active')
         /\ ToSet(active') = ToSet(active) \cup {s}
      BY <3>1, Push
    <3> QED BY <2>7, <3>2 DEF Deliver
  <2> QED
    BY <1>1, <2>1, <2>2, <2>3, <2>4, <2>5, <2>6, <2>7
       DEF DaemonStep, DaemonNext, SignalCatcher
<1>2. CASE World
<2>1. CASE DaemonDies
    <3>1. ProcessEnds
      BY <2>1 DEF DaemonDies
    <3> QED BY <3>1, DeathEmpties
  <2>2. CASE DaemonStarts
    BY <1>2, <2>2 DEF World, DaemonStarts
  <2>3. CASE PlugIn
    BY <1>2, <2>3 DEF World, PlugIn
  <2>4. CASE PullOut
    BY <1>2, <2>4 DEF World, PullOut
  <2> QED BY <1>2, <2>1, <2>2, <2>3, <2>4 DEF World
<1>3. CASE MainStarts
  BY <1>3 DEF MainStarts
<1>4. CASE MainNext
  <2>1. CASE OpenSem
    BY <2>1 DEF OpenSem
  <2>2. CASE NoSem
    BY <2>2 DEF NoSem, MainEnds
  <2>3. CASE WaitPid
    BY <2>3 DEF WaitPid
  <2>4. CASE SendMount
    BY <2>4 DEF SendMount
  <2>5. CASE OpenVideo
    BY <2>5 DEF OpenVideo
  <2>6. CASE NoFile
    BY <2>6 DEF NoFile, MainEnds
  <2>7. CASE SendUnmount
    BY <2>7 DEF SendUnmount
  <2>8. CASE CloseVideo
    BY <2>8 DEF CloseVideo, MainEnds
  <2> QED
    BY <1>4, <2>1, <2>2, <2>3, <2>4, <2>5, <2>6, <2>7, <2>8
       DEF MainNext, GetPenDriveDaemonPID
<1>5. CASE MainDies
  BY <1>5 DEF MainDies, MainEnds
<1>6. CASE UNCHANGED vars
  BY <1>6 DEF vars
<1> QED BY <1>1, <1>2, <1>3, <1>4, <1>5, <1>6 DEF Next

(* mount puts the drive on top, or fails.                                  *)
LEMMA MountPushes ==
  ASSUME DiskInv, NEW a \in Activity, NEW there, Mount(a, there)
  PROVE  /\ mounts' \in Seq(Drive) /\ ToSet(mounts) \subseteq ToSet(mounts')
         /\ mounts' # <<>> \/ failed'
<1> USE DEF DiskInv
<1>1. plugged \subseteq Drive
  BY PendriveAssumption DEF Drive
<1>2. CASE target[a] \in plugged /\ mounts' = Append(mounts, target[a])
  BY <1>1, <1>2, PutOnTop
<1>3. CASE failed' = TRUE /\ mounts' = mounts
  BY <1>3
<1> QED BY <1>2, <1>3 DEF Mount

(* Only unmount removes the directory, when nothing is on it or in it.     *)
LEMMA DiskNext ==
  ASSUME DiskInv, [Next]_vars
  PROVE  DiskInv'
<1> USE PendriveAssumption DEF Step, At, Goto, Return, Up, Exit, ProcessEnds,
         Activity, Sig, Listening, disk, pidVars, daemonVars, mainVars, Kill,
         DiskInv, Drive, None, Top, Root, OpenDir
<1>1. CASE DaemonStep
  <2>1. CASE GivePID
    <3>1. CASE UnlinkSem
      BY <3>1 DEF UnlinkSem
    <3>2. CASE CreateSem
      BY <3>2 DEF CreateSem
    <3>3. CASE PutPid
      BY <3>3 DEF PutPid
    <3>4. CASE PostPid
      BY <3>4 DEF PostPid
    <3> QED BY <2>1, <3>1, <3>2, <3>3, <3>4 DEF GivePID
  <2>2. CASE SetupEvent
    BY <2>2 DEF SetupEvent
  <2>3. CASE AutoMountDevices
    <3>1. CASE ReceiveDevice
      BY <3>1 DEF ReceiveDevice
    <3>2. CASE LookBeforeMount
      BY <3>2 DEF LookBeforeMount
    <3>3. CASE TestDir
      BY <3>3 DEF TestDir
    <3>4. CASE Mkdir("loop", "mount")
      BY <3>4 DEF Mkdir
    <3>5. CASE Mount("loop", "poll")
      <4>1. mounts' \in Seq(Drive)
        BY <3>5, MountPushes DEF DiskInv
      <4> QED BY <3>5, <4>1 DEF Mount
    <3> QED BY <2>3, <3>1, <3>2, <3>3, <3>4, <3>5 DEF AutoMountDevices
  <2>4. CASE MountOnStartup
    <3>1. CASE ScanDevices
      BY <3>1 DEF ScanDevices
    <3>2. CASE LookForDevice
      BY <3>2 DEF LookForDevice
    <3>3. CASE TestStartupDir
      BY <3>3 DEF TestStartupDir
    <3>4. CASE Mkdir("SIG_MOUNT", "mount")
      BY <3>4 DEF Mkdir
    <3>5. CASE Mount("SIG_MOUNT", "next")
      <4>1. mounts' \in Seq(Drive)
        BY <3>5, MountPushes DEF DiskInv
      <4> QED BY <3>5, <4>1 DEF Mount
    <3> QED BY <2>4, <3>1, <3>2, <3>3, <3>4, <3>5 DEF MountOnStartup
  <2>5. CASE ManageSpace
    BY <2>5 DEF ManageSpace, NoFileSystem, NoMoreDevices, EnoughSpace,
        LittleSpace, RemoveOldest
  <2>6. CASE Unmount
    <3>1. CASE LookBeforeUnmount
      BY <3>1 DEF LookBeforeUnmount
    <3>2. CASE NothingToUnmount
      BY <3>2 DEF NothingToUnmount
    <3>3. CASE DirToUnmount
      BY <3>3 DEF DirToUnmount
    <3>4. CASE CloseDir
      BY <3>4 DEF CloseDir
    <3>5. CASE Umount
      <4>1. mounts' \in Seq(Drive) /\ (mounts' # <<>> => mounts # <<>>)
        BY <3>5, TakeTop DEF Umount
      <4> QED BY <3>5, <4>1 DEF Umount
    <3>6. CASE Rmdir
      BY <3>6 DEF Rmdir
    <3> QED BY <2>6, <3>1, <3>2, <3>3, <3>4, <3>5, <3>6 DEF Unmount
  <2>7. ASSUME NEW s \in Sig, Deliver(s) PROVE DiskInv'
    BY <2>7 DEF Deliver
  <2> QED
    BY <1>1, <2>1, <2>2, <2>3, <2>4, <2>5, <2>6, <2>7
       DEF DaemonStep, DaemonNext, SignalCatcher
<1>2. CASE World
  <2>1. CASE DaemonDies
    BY <1>2, <2>1 DEF World, DaemonDies
  <2>2. CASE DaemonStarts
    BY <1>2, <2>2 DEF World, DaemonStarts
<2>3. CASE PlugIn
    <3>1. plugs + 1 \in Drive
      BY <2>3 DEF PlugIn
    <3>2. Append(events, plugs + 1) \in Seq(Drive)
      BY <3>1, PutOnTop
    <3>3. plugs' \in 0..MaxPlugs /\ plugged' \subseteq 1..plugs'
      BY <2>3 DEF PlugIn
    <3> QED BY <2>3, <3>2, <3>3 DEF PlugIn
  <2>4. CASE PullOut
    BY <1>2, <2>4 DEF World, PullOut
  <2> QED BY <1>2, <2>1, <2>2, <2>3, <2>4 DEF World
<1>3. CASE MainStarts
  BY <1>3 DEF MainStarts
<1>4. CASE MainNext
  <2>1. CASE OpenSem
    BY <2>1 DEF OpenSem
  <2>2. CASE NoSem
    BY <2>2 DEF NoSem, MainEnds
  <2>3. CASE WaitPid
    BY <2>3 DEF WaitPid
  <2>4. CASE SendMount
    BY <2>4 DEF SendMount
  <2>5. CASE OpenVideo
    BY <2>5 DEF OpenVideo
  <2>6. CASE NoFile
    BY <2>6 DEF NoFile, MainEnds
  <2>7. CASE SendUnmount
    BY <2>7 DEF SendUnmount
  <2>8. CASE CloseVideo
    BY <2>8 DEF CloseVideo, MainEnds
  <2> QED
    BY <1>4, <2>1, <2>2, <2>3, <2>4, <2>5, <2>6, <2>7, <2>8
       DEF MainNext, GetPenDriveDaemonPID
<1>5. CASE MainDies
  BY <1>5 DEF MainDies, MainEnds
<1>6. CASE UNCHANGED vars
  BY <1>6 DEF vars
<1> QED BY <1>1, <1>2, <1>3, <1>4, <1>5, <1>6 DEF Next

(* Nobody but unmount removes the directory, nor closes what it opened.    *)
LEMMA DirNext ==
  ASSUME HandlerInv, DiskInv, DirInv, [Next]_vars
  PROVE  DirInv'
<1> USE PendriveAssumption DEF Step, At, Goto, Return, Up, Exit, ProcessEnds,
         Activity, Sig, Listening, disk, pidVars, daemonVars, mainVars, Kill,
         HandlerInv, LoopPC, GivePC, MountPC, UnmountPC, DiskInv, DirInv,
         OpenDir
<1>1. CASE DaemonStep
  <2>1. CASE GivePID
    BY <2>1 DEF GivePID, UnlinkSem, CreateSem, PutPid, PostPid
  <2>2. CASE SetupEvent
    BY <2>2 DEF SetupEvent
  <2>3. CASE AutoMountDevices
    BY <2>3 DEF AutoMountDevices, ReceiveDevice, LookBeforeMount, TestDir,
        Mkdir, Mount
  <2>4. CASE MountOnStartup
    BY <2>4 DEF MountOnStartup, ScanDevices, LookForDevice, TestStartupDir,
        Mkdir, Mount
  <2>5. CASE ManageSpace
    BY <2>5 DEF ManageSpace, NoFileSystem, NoMoreDevices, EnoughSpace,
        LittleSpace, RemoveOldest
  <2>6. CASE Unmount
    BY <2>6 DEF Unmount, LookBeforeUnmount, NothingToUnmount, DirToUnmount,
        CloseDir, Umount, Rmdir
  <2>7. ASSUME NEW s \in Sig, Deliver(s) PROVE DirInv'
    BY <2>7 DEF Deliver
  <2> QED
    BY <1>1, <2>1, <2>2, <2>3, <2>4, <2>5, <2>6, <2>7
       DEF DaemonStep, DaemonNext, SignalCatcher
<1>2. CASE World
  <2>1. CASE DaemonDies
    BY <1>2, <2>1 DEF World, DaemonDies
  <2>2. CASE DaemonStarts
    BY <1>2, <2>2 DEF World, DaemonStarts
  <2>3. CASE PlugIn
    BY <1>2, <2>3 DEF World, PlugIn
  <2>4. CASE PullOut
    BY <1>2, <2>4 DEF World, PullOut
  <2> QED BY <1>2, <2>1, <2>2, <2>3, <2>4 DEF World
<1>3. CASE MainStarts
  BY <1>3 DEF MainStarts
<1>4. CASE MainNext
  <2>1. CASE OpenSem
    BY <2>1 DEF OpenSem
  <2>2. CASE NoSem
    BY <2>2 DEF NoSem, MainEnds
  <2>3. CASE WaitPid
    BY <2>3 DEF WaitPid
  <2>4. CASE SendMount
    BY <2>4 DEF SendMount
  <2>5. CASE OpenVideo
    BY <2>5 DEF OpenVideo
  <2>6. CASE NoFile
    BY <2>6 DEF NoFile, MainEnds
  <2>7. CASE SendUnmount
    BY <2>7 DEF SendUnmount
  <2>8. CASE CloseVideo
    BY <2>8 DEF CloseVideo, MainEnds
  <2> QED
    BY <1>4, <2>1, <2>2, <2>3, <2>4, <2>5, <2>6, <2>7, <2>8
       DEF MainNext, GetPenDriveDaemonPID
<1>5. CASE MainDies
  BY <1>5 DEF MainDies, MainEnds
<1>6. CASE UNCHANGED vars
  BY <1>6 DEF vars
<1> QED BY <1>1, <1>2, <1>3, <1>4, <1>5, <1>6 DEF Next

(* What leaves the directory with nothing on it removes it or has failed.  *)
LEMMA StaleNext ==
  ASSUME HandlerInv, DiskInv, StaleInv, [Next]_vars
  PROVE  StaleInv'
<1> USE PendriveAssumption DEF Step, At, Goto, Return, Up, Exit, ProcessEnds,
         Activity, Sig, Listening, disk, pidVars, daemonVars, mainVars, Kill,
         HandlerInv, LoopPC, GivePC, MountPC, UnmountPC, DiskInv, StaleInv,
         Drive
<1>1. CASE DaemonStep
  <2>1. CASE GivePID
    BY <2>1 DEF GivePID, UnlinkSem, CreateSem, PutPid, PostPid
  <2>2. CASE SetupEvent
    BY <2>2 DEF SetupEvent
  <2>3. CASE AutoMountDevices
    <3>1. CASE ReceiveDevice
      BY <3>1 DEF ReceiveDevice
    <3>2. CASE LookBeforeMount
      BY <3>2 DEF LookBeforeMount
    <3>3. CASE TestDir
      BY <3>3 DEF TestDir
    <3>4. CASE Mkdir("loop", "mount")
      BY <3>4 DEF Mkdir
    <3>5. CASE Mount("loop", "poll")
      <4>1. mounts' # <<>> \/ failed'
        BY <3>5, MountPushes
      <4> QED BY <4>1
    <3> QED BY <2>3, <3>1, <3>2, <3>3, <3>4, <3>5 DEF AutoMountDevices
  <2>4. CASE MountOnStartup
    <3>1. CASE ScanDevices
      BY <3>1 DEF ScanDevices
    <3>2. CASE LookForDevice
      BY <3>2 DEF LookForDevice
    <3>3. CASE TestStartupDir
      BY <3>3 DEF TestStartupDir
    <3>4. CASE Mkdir("SIG_MOUNT", "mount")
      BY <3>4 DEF Mkdir
    <3>5. CASE Mount("SIG_MOUNT", "next")
      <4>1. mounts' # <<>> \/ failed'
        BY <3>5, MountPushes
      <4> QED BY <4>1
    <3> QED BY <2>4, <3>1, <3>2, <3>3, <3>4, <3>5 DEF MountOnStartup
  <2>5. CASE ManageSpace
    BY <2>5 DEF ManageSpace, NoFileSystem, NoMoreDevices, EnoughSpace,
        LittleSpace, RemoveOldest
  <2>6. CASE Unmount
    BY <2>6 DEF Unmount, LookBeforeUnmount, NothingToUnmount, DirToUnmount,
        CloseDir, Umount, Rmdir
  <2>7. ASSUME NEW s \in Sig, Deliver(s) PROVE StaleInv'
    BY <2>7 DEF Deliver
  <2> QED
    BY <1>1, <2>1, <2>2, <2>3, <2>4, <2>5, <2>6, <2>7
       DEF DaemonStep, DaemonNext, SignalCatcher
<1>2. CASE World
<2>1. CASE DaemonDies
    <3>1. Idle => active = <<>> /\ pc["loop"] = "poll"
      BY DEF Idle
    <3>2. Idle => \A s \in Sig : pc[s] = "idle"
      BY <3>1 DEF ToSet
    <3> QED BY <2>1, <3>2 DEF DaemonDies, Idle
  <2>2. CASE DaemonStarts
    BY <1>2, <2>2 DEF World, DaemonStarts
  <2>3. CASE PlugIn
    BY <1>2, <2>3 DEF World, PlugIn
  <2>4. CASE PullOut
    BY <1>2, <2>4 DEF World, PullOut
  <2> QED BY <1>2, <2>1, <2>2, <2>3, <2>4 DEF World
<1>3. CASE MainStarts
  BY <1>3 DEF MainStarts
<1>4. CASE MainNext
  <2>1. CASE OpenSem
    BY <2>1 DEF OpenSem
  <2>2. CASE NoSem
    BY <2>2 DEF NoSem, MainEnds
  <2>3. CASE WaitPid
    BY <2>3 DEF WaitPid
  <2>4. CASE SendMount
    BY <2>4 DEF SendMount
  <2>5. CASE OpenVideo
    BY <2>5 DEF OpenVideo
  <2>6. CASE NoFile
    BY <2>6 DEF NoFile, MainEnds
  <2>7. CASE SendUnmount
    BY <2>7 DEF SendUnmount
  <2>8. CASE CloseVideo
    BY <2>8 DEF CloseVideo, MainEnds
  <2> QED
    BY <1>4, <2>1, <2>2, <2>3, <2>4, <2>5, <2>6, <2>7, <2>8
       DEF MainNext, GetPenDriveDaemonPID
<1>5. CASE MainDies
  BY <1>5 DEF MainDies, MainEnds
<1>6. CASE UNCHANGED vars
  BY <1>6 DEF vars
<1> QED BY <1>1, <1>2, <1>3, <1>4, <1>5, <1>6 DEF Next

(* A post is taken once, and the PID is in the block before it.             *)
LEMMA PidNext ==
  ASSUME HandlerInv, PidInv, [Next]_vars
  PROVE  PidInv'
<1> USE PendriveAssumption DEF Step, At, Goto, Return, Up, Exit, ProcessEnds,
         Activity, Sig, Listening, disk, pidVars, daemonVars, mainVars, Kill,
         HandlerInv, LoopPC, GivePC, MountPC, UnmountPC, PidInv, PidCurrent,
         Runs, None
<1>1. CASE DaemonStep
  <2>0. UNCHANGED mainVars BY <1>1 DEF DaemonStep
  <2> USE <2>0
  <2>1. CASE GivePID
    <3>1. CASE UnlinkSem
      BY <3>1 DEF UnlinkSem
    <3>2. CASE CreateSem
      BY <3>2 DEF CreateSem
    <3>3. CASE PutPid
      BY <3>3 DEF PutPid
    <3>4. CASE PostPid
      BY <3>4 DEF PostPid
    <3> QED BY <2>1, <3>1, <3>2, <3>3, <3>4 DEF GivePID
  <2>2. CASE SetupEvent
    BY <2>2 DEF SetupEvent
  <2>3. CASE AutoMountDevices
    BY <2>3 DEF AutoMountDevices, ReceiveDevice, LookBeforeMount, TestDir,
        Mkdir, Mount
  <2>4. CASE MountOnStartup
    BY <2>4 DEF MountOnStartup, ScanDevices, LookForDevice, TestStartupDir,
        Mkdir, Mount
  <2>5. CASE ManageSpace
    <3>1. CASE NoFileSystem
      BY <3>1 DEF NoFileSystem, NoMoreDevices
    <3>2. CASE EnoughSpace
      BY <3>2 DEF EnoughSpace, NoMoreDevices
    <3>3. CASE LittleSpace
      BY <3>3 DEF LittleSpace, NoMoreDevices
    <3>4. CASE RemoveOldest
      BY <3>4 DEF RemoveOldest
    <3> QED BY <2>5, <3>1, <3>2, <3>3, <3>4 DEF ManageSpace
  <2>6. CASE Unmount
    BY <2>6 DEF Unmount, LookBeforeUnmount, NothingToUnmount, DirToUnmount,
        CloseDir, Umount, Rmdir
  <2>7. ASSUME NEW s \in Sig, Deliver(s) PROVE PidInv'
    BY <2>7 DEF Deliver
  <2> QED
    BY <1>1, <2>1, <2>2, <2>3, <2>4, <2>5, <2>6, <2>7
       DEF DaemonStep, DaemonNext, SignalCatcher
<1>2. CASE World
  <2>1. CASE DaemonDies
    BY <1>2, <2>1 DEF World, DaemonDies
  <2>2. CASE DaemonStarts
    BY <1>2, <2>2 DEF World, DaemonStarts
  <2>3. CASE PlugIn
    BY <1>2, <2>3 DEF World, PlugIn
  <2>4. CASE PullOut
    BY <1>2, <2>4 DEF World, PullOut
  <2> QED BY <1>2, <2>1, <2>2, <2>3, <2>4 DEF World
<1>3. CASE MainStarts
  BY <1>3 DEF MainStarts
<1>4. CASE MainNext
  <2>1. CASE OpenSem
    BY <2>1 DEF OpenSem
  <2>2. CASE NoSem
    BY <2>2 DEF NoSem, MainEnds
<2>3. CASE WaitPid
    <3>1. /\ mainSem \in Runs /\ semPid[mainSem] = 1 /\ mainSem \notin taken
         /\ pidBlock >= mainSem
      BY <2>3 DEF WaitPid
    <3>2. semPid' = [semPid EXCEPT ![mainSem] = 0]
      BY <2>3, <3>1 DEF WaitPid
    <3>3. /\ \A r \in Runs :
             semPid'[r] = IF r = mainSem THEN 0 ELSE semPid[r]
         /\ semPid' \in [Runs -> 0..1]
      BY <3>1, <3>2
    <3>4. /\ UNCHANGED <<daemonRun, semName, pidBlock, pc, active, mainSem,
                        penPid>>
         /\ taken' = taken \cup {mainSem} /\ main' = "pid"
      BY <2>3 DEF WaitPid
    <3>5. \A r \in Runs : semPid'[r] = 1 => r \notin taken' /\ pidBlock' >= r
      BY <3>1, <3>3, <3>4
    <3>6. \A r \in taken' : pidBlock' >= r
      BY <3>1, <3>4
    <3>7. mainSem <= daemonRun /\ taken' \subseteq Runs
      BY <3>1, <3>4
    <3>8. \A r \in Runs : r > daemonRun => semPid'[r] = 0 /\ r \notin taken'
      BY <3>3, <3>4, <3>7
    <3>9. pc["loop"] \in GivePC => daemonRun # mainSem
      BY <3>1
    <3>10. semPid[daemonRun] = 1 \/ daemonRun \in taken
            => semPid'[daemonRun] = 1 \/ daemonRun \in taken'
      BY <3>3, <3>4
    <3>11. mainSem = daemonRun => semName = daemonRun
      BY <3>1
    <3> QED BY <3>1, <3>3, <3>4, <3>5, <3>6, <3>7, <3>8, <3>9, <3>10, <3>11
  <2>4. CASE SendMount
    BY <2>4 DEF SendMount
  <2>5. CASE OpenVideo
    BY <2>5 DEF OpenVideo
  <2>6. CASE NoFile
    BY <2>6 DEF NoFile, MainEnds
  <2>7. CASE SendUnmount
    BY <2>7 DEF SendUnmount
  <2>8. CASE CloseVideo
    BY <2>8 DEF CloseVideo, MainEnds
  <2> QED
    BY <1>4, <2>1, <2>2, <2>3, <2>4, <2>5, <2>6, <2>7, <2>8
       DEF MainNext, GetPenDriveDaemonPID
<1>5. CASE MainDies
  BY <1>5 DEF MainDies, MainEnds
<1>6. CASE UNCHANGED vars
  BY <1>6 DEF vars
<1> QED BY <1>1, <1>2, <1>3, <1>4, <1>5, <1>6 DEF Next

(* Nobody unmounts while a run of main records.                            *)
LEMMA UnmountNext ==
  ASSUME HandlerInv, DiskInv, PidInv, UnmountInv, [Next]_vars
  PROVE  UnmountInv'
<1> USE PendriveAssumption DEF Step, At, Goto, Return, Up, Exit, ProcessEnds,
         Activity, Sig, Listening, disk, pidVars, daemonVars, mainVars, Kill,
         HandlerInv, LoopPC, GivePC, MountPC, UnmountPC, PidInv, Runs,
         UnmountInv, VideoStaysMounted, Unmounting, MainPC, Top, Drive, Root,
         NoVideo
<1>1. CASE DaemonStep
  <2>0. UNCHANGED mainVars BY <1>1 DEF DaemonStep
  <2> USE <2>0
  <2>1. CASE GivePID
    BY <2>1 DEF GivePID, UnlinkSem, CreateSem, PutPid, PostPid
  <2>2. CASE SetupEvent
    BY <2>2 DEF SetupEvent
  <2>3. CASE AutoMountDevices
    <3>1. CASE ReceiveDevice
      BY <3>1 DEF ReceiveDevice
    <3>2. CASE LookBeforeMount
      BY <3>2 DEF LookBeforeMount
    <3>3. CASE TestDir
      BY <3>3 DEF TestDir
    <3>4. CASE Mkdir("loop", "mount")
      BY <3>4 DEF Mkdir
    <3>5. CASE Mount("loop", "poll")
      <4>1. ToSet(mounts) \subseteq ToSet(mounts')
        BY <3>5, MountPushes
      <4> QED BY <3>5, <4>1 DEF Mount
    <3> QED BY <2>3, <3>1, <3>2, <3>3, <3>4, <3>5 DEF AutoMountDevices
  <2>4. CASE MountOnStartup
    <3>1. CASE ScanDevices
      BY <3>1 DEF ScanDevices
    <3>2. CASE LookForDevice
      BY <3>2 DEF LookForDevice
    <3>3. CASE TestStartupDir
      BY <3>3 DEF TestStartupDir
    <3>4. CASE Mkdir("SIG_MOUNT", "mount")
      BY <3>4 DEF Mkdir
    <3>5. CASE Mount("SIG_MOUNT", "next")
      <4>1. ToSet(mounts) \subseteq ToSet(mounts')
        BY <3>5, MountPushes
      <4> QED BY <3>5, <4>1 DEF Mount
    <3> QED BY <2>4, <3>1, <3>2, <3>3, <3>4, <3>5 DEF MountOnStartup
  <2>5. CASE ManageSpace
    <3>1. CASE NoFileSystem
      BY <3>1 DEF NoFileSystem, NoMoreDevices
    <3>2. CASE EnoughSpace
      BY <3>2 DEF EnoughSpace, NoMoreDevices
    <3>3. CASE LittleSpace
      BY <3>3 DEF LittleSpace, NoMoreDevices
    <3>4. CASE RemoveOldest
      BY <3>4 DEF RemoveOldest
    <3> QED BY <2>5, <3>1, <3>2, <3>3, <3>4 DEF ManageSpace
  <2>6. CASE Unmount
    BY <2>6 DEF Unmount, LookBeforeUnmount, NothingToUnmount, DirToUnmount,
        CloseDir, Umount, Rmdir
  <2>7. ASSUME NEW s \in Sig, Deliver(s) PROVE UnmountInv'
    BY <2>7 DEF Deliver
  <2> QED
    BY <1>1, <2>1, <2>2, <2>3, <2>4, <2>5, <2>6, <2>7
       DEF DaemonStep, DaemonNext, SignalCatcher
<1>2. CASE World
  <2>1. CASE DaemonDies
    BY <1>2, <2>1 DEF World, DaemonDies
<2>2. CASE DaemonStarts
    <3>1. active = <<>> /\ pending["SIG_UNMOUNT"] = 0
      BY <2>2 DEF DaemonStarts
    <3>2. pc["SIG_UNMOUNT"] = "idle"
      BY <3>1 DEF ToSet
    <3>3. ~Unmounting'
      BY <2>2, <3>1, <3>2 DEF DaemonStarts
    <3> QED BY <1>2, <2>2, <3>3 DEF World, DaemonStarts
  <2>3. CASE PlugIn
    BY <1>2, <2>3 DEF World, PlugIn
  <2>4. CASE PullOut
    BY <1>2, <2>4 DEF World, PullOut
  <2> QED BY <1>2, <2>1, <2>2, <2>3, <2>4 DEF World
<1>3. CASE MainStarts
  BY <1>3, PenDriveAssumption DEF MainStarts
<1>4. CASE MainNext
  <2>1. CASE OpenSem
    BY <2>1 DEF OpenSem
  <2>2. CASE NoSem
    BY <2>2 DEF NoSem, MainEnds
  <2>3. CASE WaitPid
    BY <2>3 DEF WaitPid
  <2>4. CASE SendMount
    BY <2>4 DEF SendMount
<2>5. CASE OpenVideo
    <3>1. mounts # <<>> => Last(mounts) \in ToSet(mounts) \cap Drive
      BY TakeTop DEF DiskInv
    <3>2. video' \in Drive \cup {Root}
      BY <2>5, <3>1 DEF OpenVideo
    <3>3. video' \in Drive => video' \in ToSet(mounts)
      BY <2>5, <3>1 DEF OpenVideo
    <3> QED BY <2>5, <3>2, <3>3 DEF OpenVideo
  <2>6. CASE NoFile
    BY <2>6 DEF NoFile, MainEnds
  <2>7. CASE SendUnmount
    BY <2>7 DEF SendUnmount
  <2>8. CASE CloseVideo
    BY <2>8 DEF CloseVideo, MainEnds
  <2> QED
    BY <1>4, <2>1, <2>2, <2>3, <2>4, <2>5, <2>6, <2>7, <2>8
       DEF MainNext, GetPenDriveDaemonPID
<1>5. CASE MainDies
  BY <1>5 DEF MainDies, MainEnds
<1>6. CASE UNCHANGED vars
  BY <1>6 DEF vars
<1> QED BY <1>1, <1>2, <1>3, <1>4, <1>5, <1>6 DEF Next

-----------------------------------------------------------------------------
(***************************************************************************)
(* The theorems                                                            *)
(***************************************************************************)
(* Every step of either process or of the world keeps all the laws.        *)
LEMMA PenStep == PenInv /\ [Next]_vars => PenInv'
  BY HandlerNext, DiskNext, DirNext, StaleNext, PidNext, UnmountNext DEF PenInv

(* The laws of both processes hold, whoever dies and is started again.     *)
THEOREM PenInvariant == Spec => []PenInv
<1>1. PenInit => PenInv
  BY PenInitial
<1>2. PenInv /\ [Next]_vars => PenInv'
  BY PenStep
<1> QED BY <1>1, <1>2, PTL DEF Spec

(* Every variable keeps its type, and what is mounted has its directory.   *)
THEOREM PenTypes == Spec => []TypeOK
<1>1. PenInv => TypeOK
  <2> SUFFICES ASSUME PenInv PROVE TypeOK
    OBVIOUS
  <2>1. HandlerInv /\ DiskInv /\ DirInv /\ PidInv /\ UnmountInv
    BY DEF PenInv
  <2>2. /\ {semName, pidBlock, mainSem, penPid} \subseteq Runs \cup {None}
        /\ daemonRun \in Runs /\ semPid \in [Runs -> 0..1]
        /\ taken \subseteq Runs
    BY <2>1, PendriveAssumption DEF PidInv, Runs, None
  <2>3. DOMAIN pc = Activity
    BY <2>1 DEF HandlerInv
  <2> QED
    BY <2>1, <2>2, <2>3
       DEF TypeOK, HandlerInv, DiskInv, DirInv, UnmountInv
<1> QED BY <1>1, PenInvariant, PTL

(* The PID main reads is that of the daemon that posted or of a later one, *)
(* and a run of main waits in vain only if another took the post.          *)
THEOREM PidHandover == Spec => []PidHandedOver
<1>1. PenInv => PidHandedOver
  BY DEF PenInv, PidInv, PidHandedOver, WaitsOnlyIfTaken
<1> QED BY <1>1, PenInvariant, PTL

(* unmount closes an open handle, although other handlers share dir.       *)
THEOREM ClosesWhatIsOpen == Spec => []ClosesOpenDir
<1>1. PenInv => ClosesOpenDir
  BY DEF PenInv, DirInv, ClosesOpenDir
<1> QED BY <1>1, PenInvariant, PTL

(* A directory with nothing mounted stays only after something failed.     *)
THEOREM StaleOnlyIfFailed == Spec => []StaleDirOnlyIf
<1>1. PenInv => StaleDirOnlyIf
  <2> SUFFICES ASSUME PenInv, Idle PROVE StaleDirOnlyIf
    BY DEF StaleDirOnlyIf
  <2>1. \A s \in Sig : pc[s] = "idle"
    BY DEF PenInv, HandlerInv, Idle, ToSet
  <2> QED
    BY <2>1 DEF PenInv, StaleInv, StaleDirOnlyIf, Idle, Sig
<1> QED BY <1>1, PenInvariant, PTL

(* No unmount, nor anything else, takes the drive away under a recording,  *)
(* however often main and the daemon are restarted, if main has talked to  *)
(* the daemon that posted for it.                                          *)
THEOREM RecordsOnMounted == Spec => []VideoStaysMounted
<1>1. PenInv => VideoStaysMounted
  BY DEF PenInv, UnmountInv
<1> QED BY <1>1, PenInvariant, PTL
=============================================================================
