# RoadBuddy: TLA+ models and proofs

RoadBuddy is a dash camera for a car on a Raspberry Pi: a C++ process records
the road, finds the lane on the recorded frames and sounds a buzzer when the car
leaves it; two daemons look after the pen drive and the car's OBD adapter; two
kernel drivers serve the buttons and the buzzer. This directory holds TLA+
modules of that system, configurations for TLC, and proofs for TLAPS.

Paths below are those of the repository; line numbers are given as `file:line`.

    tlc -config FrameRing.cfg FrameRing        # check a run
    tlapm FrameRingProofs.tla                  # check the proofs of a module

## 1. The system

| Part | State | Operations |
|---|---|---|
| Main process, `main.cpp` | `controlWord` (five flags), `sem_frameprod`, two mutex/condition pairs | threads `tAcqnMergeFrame`, `tProcessFrame`, `tStoreFrame`, `tWarningSystem`, `tGetCarStatus`; `tSignalHandler`; `main` joins three of the five |
| Ring of frames, `src/cvideocam.cpp` | `frameBuff[128]`, `writeIndex`, `readIndex`, `mutex_framebuff` | `captureFrame`, `setLaneLines` (put, advance), `writeFrame`, `undistortFrame` (grab) |
| Lane finder, `src/cfpu.cpp` | `processedFrame`, `mutex_procframe`, the two lane points | `undistortFrame`, `birdsEyeView`, `sobelFilter`, `drawLines`, `slidingWindow`, `dangerDetection` |
| Merge unit, `src/cfmu.cpp` | `carstatus`, `mutex_carstatus` | `getCarStatus`, `setCarStatus`, `setLaneLines`, `setFrameTime` |
| OBD daemon, `Daemons/dGetCarStatus` | a shared block, semaphores `/sem_prodcs` and `/sem_conscs` | `getStatus`, `sendStatus` |
| Pen drive daemon, `Daemons/dPendriveManager` | mount table, directory `/mnt/usb`, PID block and semaphore | `givePID`, `autoMountDevices`, handlers of `SIG_MOUNT`, `SIG_UNMOUNT`, `SIGTERM`, `manageSpace` |
| Buttons driver | `task`, `old_jiffie` | two interrupt handlers, open, close |
| Buzzer driver | a GPIO pin | write |
| Shared memory helpers, `src/sharedmemory.cpp` | System V segments | attach, detach, destroy |
| User timer, `src/cusertimer.cpp` | a POSIX timer | not used by anything |

**How they interact.** `tAcqnMergeFrame` captures a frame, prints the time, the
status and the lane lines on it, puts it in the ring, posts `sem_frameprod` and,
if processing is on, signals `tProcessFrame`. `tStoreFrame` waits for the
semaphore and encodes the slot at `readIndex`. `tProcessFrame` copies the newest
slot, looks for the lane and publishes lines in `processedFrame`, which the next
merge takes. A danger is a signal of the process to itself (`SIG_WARN_SYS`);
`tProcessFrame` then signals `tWarningSystem`, which writes to the buzzer.
Buttons arrive as signals of the driver. `SIG_ENG_ON` and `SIG_ENG_OFF` start the
capture and end the process. The OBD daemon and `tGetCarStatus` hand a block of
shared memory to each other with two semaphores. The pen drive daemon leaves its
PID in a block and posts a semaphore once; `main` reads it, asks for the mount
with a signal at the start and for the unmount at the end.

**What is hard.** Flags are read without a lock by five threads. Conditions are
signalled without a predicate, so a signal can come too early. Nothing stops the
writer of the ring. Signal handlers lock a mutex. Threads that are not joined
outlive the semaphores they use. Either side of each link between processes may
die or be restarted. `PROJECT.json` lists the hazards at their lines, each with
the properties that cover it or why none does.

### What makes each part correct

- Ring: frames are stored in turn, none is read before it was written, and a lap
  loses whole laps and nothing else; a picture that changes while it is encoded,
  as the pixels are shared, mixes two captures at most.
- Threads: every posted frame has its turn; processing goes forward; after the
  unmount is requested only the file's index is written; END ends the process.
- Handler: the flags are the effect of the signals handled, each exactly once.
- Lane finder: the window stays inside the frame, follows the line and ends at
  the top; a departure raises the warning.
- Status link: a status is printed whole; one sent is printed once the engine has
  been started; the turn to
  use the block exists once and is not lost while both processes live.
- Start-up: main gets the PID of the daemon that posted for it or of a later one,
  and waits for ever only if another run of main took the post.
- Pen drive: the drive recorded on stays mounted until main asks for the unmount;
  an empty directory stays only after something failed; each request is served,
  wherever the handler of another, or the loop, was interrupted.
- Buttons: a press is taken exactly if it is no bounce, although the clock wraps;
  its signal goes to a process that has the device open and can take it.

## 2. Modules

| Module | Models | Used by |
|---|---|---|
| `FrameRing` | the ring and the three threads' accesses to it | `RoadBuddy` (INSTANCE) |
| `FrameQueue` | what the ring promises: a queue that loses frames rather than make anyone wait | `FrameRing` (INSTANCE) |
| `FrameRingProofs` | theorems about `FrameRing` | `RoadBuddyProofs` (INSTANCE) |
| `ControlWord` | the flags, the signals and what a signal does to the flags | `AtomicSignals`, `SignalHandler`, `RoadBuddy` |
| `AtomicSignals` | what the handler promises: each signal is one update | `SignalHandler` (INSTANCE) |
| `SignalHandler`, `MCSignalHandler` | `tSignalHandler` on threads that it interrupts, itself included | |
| `SignalHandlerProofs` | theorems about `SignalHandler` | |
| `HandlerStack` | lemmas about a stack of handlers that run in one thread | `SignalHandlerProofs`, `PenDriveProofs` (EXTENDS) |
| `RoadBuddy` | the main process: four threads, `main`, the flags | |
| `LaneDetection` | `slidingWindow` on both lines, `dangerDetection` | |
| `LaneDetectionProofs` | theorems about `LaneDetection` | |
| `RoadBuddyProofs` | theorems about `RoadBuddy` | uses `FrameRingProofs` (INSTANCE) |
| `CarStatusLink` | the OBD daemon, `tGetCarStatus`, the block and the semaphores | |
| `CarStatusLinkProofs` | theorems about `CarStatusLink` | |
| `PendriveManager` | the pen drive daemon: its loop, its handlers, the mounts, `givePID` | `PenDrive` (EXTENDS) |
| `PenDrive` | that daemon with `main`: the PID, the mount, the video, the unmount | |
| `PenDriveProofs` | theorems about `PenDrive` | |
| `ButtonsDriver` | the buttons driver and the processes that open its device | |
| `ButtonsDriverProofs` | theorems about `ButtonsDriver` | |

Definitions keep the names of the source. `PROJECT.json` gives, for each
definition, the lines it stands for. Definitions called "Mutant of ..." are the
mistakes with which each property was shown to be able to fail; no
specification uses them.

### FrameRing and FrameQueue

A frame is a `cv::Mat`, a header that refers to pixels, named by the number of the
capture after which it was put in the ring; `Empty` is a slot nobody has written.
`acq`, `store` and `proc` are the places of the three threads; a step is
what a thread does between two points where another can see a difference: the
put and the advance of the index are two steps, because the advance is outside
the mutex (`cfmu.cpp:68`); the choice of the index and the copy are two, because
`undistortFrame` does not hold the mutex between them (`cfpu.cpp:44-49`); a write
to the video has a begin and an end, because the encoder reads the pixels in
between. `INCREMENT` clears bit 7, which is the wrap of a ring of 128; for other
lengths the model takes the length away at the same place. `undistortFrame`
keeps the index it chose in an `int8_t`, so the assumption bounds the length by
128.

`cam >> lastFrame` copies the picture into the pixels `lastFrame` has, and
`frameBuff[writeIndex] = lastFrame` copies the header only (`cvideocam.cpp:60`,
`cfmu.cpp:66`), so all slots show the newest picture, and a capture draws on the one
that is being encoded. `shows` gives the picture of each Mat; `stored` is the Mats in
the order they were encoded, `video` what each of them showed at the start and at the
end. A capture that fails releases `lastFrame`: its Mat is empty, which the encoder
skips, and the next capture takes new pixels, so that the Mats from before keep their
picture (`CopyPicture`). The slots, then, are right about the Mats and wrong about the
pictures: the properties say both. `StoresInTurn` and `QueueSpec` speak of Mats;
`TornByOne` bounds what sharing does to a picture (the put of the next frame waits for
the encoder, though its capture does not, so a picture mixes two captures that follow
one another and no more). What the drawing between capture and put adds to the
shared pixels is not told apart from the capture.

`FrameQueue` says the same of the ring without indices, slots or a semaphore: the
k-th frame taken is the one of the last `FrameBuffLen` put that is whole laps of the
ring away from the k-th put. `put` is `Written` and `taken` is `stored`; a put is a
`Put`, the end of a write a `Take`, all else is not seen (`QueueSpec`). That a frame
cannot be found, so that `Take` would have to wait, never happens to a
`tStoreFrame` that the semaphore let through.

### ControlWord, AtomicSignals, SignalHandler

A signal is pending until a thread takes it; a thread runs its handlers as a
stack (`active`), one per signal at most, since a handler's own signal is blocked
while it runs but no other is (`main.cpp:209`, empty mask). A handler locks,
reads, writes, unlocks. `AtomicSignals` says that handling a signal is one update
of the word; `HandlesAtomically` is the refinement.

### RoadBuddy

Each thread has a place in its loop. A test of a flag and the signal that
follows it are one step. A handled signal is one step; `SignalHandler` justifies
that, except for the self-deadlock it finds, which `RoadBuddy` leaves out. The
ring appears through `INSTANCE FrameRing` with the places of the threads mapped,
and `RingSpec` checks that the loops use it as `FrameRing` says. The wait set of
a condition variable is the place "waiting"; a signal to nobody is lost.
`drawLines`, `setLaneLines` and `undistortFrame` meet in `processedFrame`: its
release at `cfpu.cpp:40` is not under the mutex, so it can fall between the test
and the addition of `setLaneLines`; adding an empty Mat throws, and the process is
"aborted"; so does adding lines to the empty Mat of a failed capture, or remapping
one. At its end `main` asks for the unmount, and only then does the destructor of its
local `CVideo` write the file's index (`DestroyLocals`, `main.cpp:314-316`,
`cvideocam.cpp:138`): `videoIndex` is the number of frames it lists. "failed" is `handle_error_en` of the buzzer thread.

`tAcqnMergeFrame`'s `while(!(controlWord & 0x04));` on a variable that is not
volatile is well defined only in a build that does not optimise the read away;
`CMakeLists.txt` names no build type, so the compiler runs with `-O0` and the
model rereads the flag. `cfpu.cpp:49` ends in a stray `l;` that does not compile;
the model is of the function without it.

### LaneDetection

The mean column of a window is any column in it: the image decides. `Slide`
is an iteration with another below the top, `SlideLast` the one that is cut
short. The two points kept are the lowest of each line. The test
`offset >= 10 || offset <= -10` is done in integers, multiplied out; the offset
is a quotient with `laneWidth`, which is not zero for the windows used.

### CarStatusLink

A status is the number of the sample, in each of its three fields, so a mixture
shows. Each run of the daemon has semaphores of its own (a generation): it
unlinks the names and creates new ones, and a main that has opened the old ones
keeps them. A segment that is destroyed loses its key and lives on for who is
attached. Both processes may die at any point and start again. `mixed` records,
for the properties, the generations whose `sem_cons` was opened together with
another generation's `sem_prod` (main opens the two one after the other). What
`getStatus` reads is abstracted, including the bytes of `status[4]` outside its
array. A main that returns while `tGetCarStatus` runs is `MainDies`.
`acqn` is the place of `tAcqnMergeFrame`, which prints main's copy: it spins until the
engine is started (`main.cpp:131`; `EngineOn`) and then prints in each pass of its loop
until END.

### PendriveManager and PenDrive

`PendriveManager` is the daemon alone, `PenDrive` adds `main` and is what is
checked. `pc` holds a place for the loop (`autoMountDevices`) and for each of the
two handlers; `active` is the stack of handlers that run, the innermost first, and
only its head, or the loop if it is empty, can step. A signal is delivered between
any two steps, except to a handler that runs already; signals are real-time
signals, so `pending` counts them, and one sent to a PID that has gone is lost.
Each system call on the directory is a step of its own (`opendir`, `mkdir`,
`mount`, `closedir`, `umount2`, `rmdir`), since each test of `dir`, the member that
the loop and both handlers share, can be stale when it is used.

Mounts on `/mnt/usb` are a stack of drives, and drives are numbered by insertion.
`AUTO_UNMOUNT` and `MANAGE_SPACE1` are not defined, so a removal does nothing and
the loop does not call `manageSpace`. `mount` may fail and only logs; `rmdir` fails
on a directory that is mounted on or holds a file; the exit of `manageSpace`
without a file system (`event_monitor.cpp:199`) is `NoFileSystem`. `manageSpace`
can leave `oldestFile` unset (`:228`): the daemon goes on (`RemoveOldest`) or ends
(`DaemonDies`). Each event also drops a reference to udev that it did not take
(`:337`), which `DaemonDies`, possible at any step, stands for. A restarted daemon
gets a new PID, the number of its run; a PID used again is left out, and writing
and reading the PID (`sprintf`, `atoi`) are atomic.

`main` opens the video straight after `SIG_MOUNT` (`main.cpp:246`): it is made on the
drive on top, in the bare directory (then `hidden` under a mount that follows), or
not at all. Three histories serve the properties: `failed` (something failed since
the directory was made), `taken` (runs of the daemon whose post was taken) and
`crossed` (a run of main read the PID of another run of the daemon than the one
that posted for it).

### ButtonsDriver

Both pins are in one bank of the GPIO controller, so one handler runs at a time;
open and close run on other CPUs meanwhile, without a lock. The handler reads
`jiffies` twice (test, then `old_jiffie`) and `task` twice (test, then
`send_sig_info`), which are steps of their own. `jiffies` and `old_jiffie` are
unsigned and wrap at `JiffiesMod`. `request_irq` succeeds once and close frees
nothing. An open sets `task` first, then clears and sets each siginfo,
and asks for the interrupts last (`buttonmodule.c:132-161`); an open that is not the
first may meet the handler at each of these steps (`opening`, `ready`), and a process
has the device only when it returns. `main` opens the device before it installs its handlers
(`main.cpp:205`), `test_buttons.c` after; `Early` is the set of processes of the first
kind. The two handlers are one: they share `old_jiffie` and `task` and differ in the
number of the signal and in their siginfo. Driver and processes name the same numbers, although
differently: the kernel's `SIGRTMIN` is 32 and the C library's 34.

## 3. Runs

| Run | Instance | What it shows |
|---|---|---|
| `ring` | 3 slots, 6 captures of which one may fail | the ring is lapped twice; it implements the lossy queue, and all safety properties and the inductive invariant hold |
| `pipeline` | 2 slots, 3 captures of which one may fail, 1 press, dangers, spurious wakeups of `tWarningSystem` | safety of the main process; it implements `FrameRing`; only the index is written after the unmount is requested |
| `pipeline_live` | 2 slots, 3 captures, 1 press, spurious wakeups of `tProcessFrame`, no dangers | every frame posted has its turn in the encoder, though the ring may be lapped; after END the process ends or is stuck in one of three named places |
| `lines_lost` | 2 slots, 3 captures | violated: published lines are thrown away |
| `signals` | 2 threads, `SIG_PROBUT` twice, the others once | the handler refines an atomic update; it blocks only where a thread blocks itself |
| `signals_end` | the same | violated: END may never be set |
| `lane` | frame 36 x 6, window 12 x 2 | every choice of columns for both lines |
| `lane_departure` | the same | violated: a departure raises no danger |
| `status` | 3 samples, 2 runs of the daemon, 2 of main | one turn, lost only with a process; no status torn while one daemon runs; a status sent is printed once the engine is on |
| `status_block` | 2 samples, 1 run of the daemon, 2 of main | violated: main is told of a status and reads an empty block |
| `pendrive` | 2 drives, 2 runs of the daemon, 2 of main | the PID is handed over once; handlers that interrupt each other leave the directory usable; the drive stays mounted while main records; requests are served |
| `buttons` | 2 processes, one of them `Early`, debounce 3 of 8 ticks | exact debouncing across the wrap; who gets the signals, with what siginfo; when the kernel stops |

**Bounds.** `MaxFrames`, `MaxFailures`, `MaxPresses`, `MaxSamples`, `MaxDaemonRuns`,
`MaxMainRuns` and the number of signals (`Sent`) bound what the environment does;
no guard of the code depends on them. Three slots and six captures lap the ring
twice and leave the indices out of phase with the counts, which is all the
modular arithmetic can tell apart; one failure separates the pixels before it from
those after. The proofs cover every length up to 128 and
every number of captures and of failures. The pipeline needs two slots and three
captures to lap, to have lines of one frame drawn on a later one and a pass of the
lane finder in flight at END. The two spurious wakeups are in a run each, to keep
both small: `tWarningSystem`'s affects the buzzer only. A self-deadlock needs two signals on one thread and an
interleaving two threads; `SIG_PROBUT` twice shows a toggle undone. In `lane`,
three windows climb the frame and can be clamped at either border; the two
windows start at the borders and as far apart in proportion as in the code
(columns 0 and 724 of 1024, width 300). Two runs of a process are one restart; three samples are one in the
block, one waiting for its turn and one to come. In `pendrive`, one drive is there at boot
and one is plugged in later, which gives a mount over a mount, a drive plugged in
again and a drive changed under a recording; each process is restarted once. In
`buttons`, 8 ticks are more than twice the debounce time, so that a press in time,
a bounce and a clock gone round differ; the proof covers every width and time.

The type invariants of `FrameRing`, `SignalHandler` and `LaneDetection` are not
listed in their runs: the inductive invariants listed there contain them.

`CHECK_DEADLOCK FALSE` everywhere: captures, signals and samples run out, the
process exits, and the hangs are the subject of properties.

**Fairness.** Threads are created with `SCHED_OTHER` (`main.cpp:259`; the
priorities set are not used by that policy), so weak fairness of each thread's
steps: a thread that can step eventually does. A pending signal is eventually
delivered by the kernel. No fairness for presses, engine signals, dangers,
spurious wakeups, deaths or restarts. A mutex is not assumed fair: in
`SignalHandler` finitely many signals are sent, in `RoadBuddy` a mutex that is
held is released without waiting for anything, and captures are bounded.
In `PenDrive`, the daemon's steps and the delivery of its signals are weakly fair;
nothing is assumed of main, of deaths or of drives. So `MountServed` and
`UnmountServed` name their ways out: a mount that fails, a drive pulled out, a
daemon that ends, another drive mounted over the first. `ButtonsDriver` has no
liveness: nothing there has to happen.
In `CarStatusLink` the loop of `tAcqnMergeFrame` is weakly fair (`AcqnNext`) but not
`EngineOn`: nothing makes the engine start, and until it does no status is printed.

**What the violated runs say of the code.**

- `lines_lost`: `undistortFrame` releases `processedFrame` at the start of each
  pass (`cfpu.cpp:40`), before the merge unit has drawn the lines, against the
  comment at `cfpu.cpp:175`.
- `signals_end`: with an empty `sa_mask`, `SIG_ENG_OFF` inside another handler's
  critical section waits for its own thread; END is not set (`main.cpp:48`).
- `lane_departure`: the distances to the middle of the two points are compared to
  each other, so they differ by the rounding only; nothing is compared with the
  middle of the frame (`cfpu.cpp:190`).
- `status_block`: a run of main that ends destroys the block (`main.cpp:118`)
  while a status is posted in it or the daemon waits attached to it; the next run
  is let through by `sem_prod` and reads a new, empty block, against the comment
  at `GetCarStatus.cpp:80`. A second run of main has first to get past the PID
  semaphore, which the pen drive daemon posts once in each of its runs.

The three hangs of `EndsOrMissesEnd` (the engine never switched on, `tStoreFrame`
waiting for a last frame, `tProcessFrame` waiting for a last signal) contradict no
comment of the code, so they are named in a property that holds.

## 4. Proofs

All theorems hold for every value of the constants that the modules' assumptions
allow, with no bound on behaviours (`MaxFrames` and `Sent` are arbitrary).
The assumptions are sizes that the code has, names that differ and, in
`SignalHandler`, that a process has finitely many threads (to count its signals).

**FrameRing.** `RingInv` is inductive: the semaphore counts what is posted and not
yet taken (`SemaphoreLaw`), each index is its count modulo the length
(`IndexLaw`), a slot holds the newest frame of its residue among the last
`FrameBuffLen` written (`SlotLaw`), and a slot chosen by `undistortFrame` only gets
newer frames (`IndexedLaw`). None of the properties is inductive alone:
`NeverStoresFreshSlot` needs the semaphore to know that the frame was written and
the indices to know where. Lemmas state what `Increment` and `Previous` do to a
count modulo the length. `RingInvariant`, `TypeCorrect`, `NeverFresh`, `InTurn`,
`GrabsNoOlder` follow from it. `ShowsLaw` and `BegunLaw` are about the pictures: a Mat
shows its own capture or a later one, and what the encoder began with is what the
Mat shows, unless the one capture that it does not keep out has been made since;
`TornByOneCapture` and, for the Mats, `WholeLaps` add what is already in the video.
`RingIsQueue` is the refinement: for each turn the queue has one frame at most
(`OneFrameForATurn`, two numbers of one residue less than a lap apart are equal), and
by `SlotLaw` it is the one in the slot at `readIndex`. None of this assumes anything of
OpenCV, as it is about Mats. `KeepsUpLosesNothing`: if the store is never more than
`FrameBuffLen` frames behind, the Mats encoded are those of the captures in order; the
hypothesis is about a behaviour, because nothing in the code enforces it. The same
pace is not enough for the pictures: `RightIfStoredFirst` needs each frame to be stored
before the next is captured, so that sharing pixels leaves the ring one useful slot.
`JumpsBack`: however far behind the store falls, a Mat encoded is less than
`FrameBuffLen` captures older than any before it, and a picture at most that. It may
be older: a store that is lapped first takes a later frame, then goes on through
slots not yet overwritten, and after a failed capture these have older pixels.

**SignalHandler.** `MutexInv`: who is in the critical section owns the mutex, there
is one activation at most over all threads and depths, and a word that was read
is still the word. From it `MutualExclusion`, the refinement `Refinement` (each
`Store` is one `Handle`, all else a stutter) and `NothingLost`.

`Accounted`: a signal that was sent is pending, or in a handler that has not written
yet, or handled, so that `NothingMissing`: when nothing is pending and no handler
runs, the word is the effect of everything sent. The rest is about the deadlock of
a thread with itself (`main.cpp:209`). `ByInterruption`: the only step into it is the
delivery of a signal to a thread that is inside its critical section. `DeadlockStays`:
no step leads out of it, because only the innermost handler of a thread runs and it
waits for one below. `DeadlockFreezes`: from then on no thread's signal changes the
word, not only those of the thread that is stuck; END, in particular, stays as it
is. `OnlySelfDeadlocks`: nothing else stops the handlers, since an owner of
the mutex is on its thread's stack (`OwnerInv`, `StackInv`), either innermost and free
to go on, or under a handler that waits for its own thread. There "need not wait" is
`CanStep`, the guard of `Handler` written out; that it is `ENABLED Handler` was checked
with TLC. These are the safety halves of `HandledOrSelfDeadlocked`.

**LaneDetection.** `LaneInv`: the window is in the frame and the lowest point of
each line is in the window its search starts with. Then the middle of two points
of which the left is left of the right is never off by more than one column, and
the lines are further apart than ten columns: `NoDanger`. `InFrame` is the window.
`FollowsLine` needs a second invariant, `FollowInv`: while a line is followed the window
is centred on the last point found, then clamped (`Centred`). `PointsFollowLine` says
nothing of points at the borders, where clamping moves the window; `OneWindowApart`
and `ReachesTop` (the rows climb by one window's height, up to the last one, cut short)
hold of all points.

**RoadBuddy.** `ImplementsRing`: every step of the threads is a step of `FrameRing`
or leaves the ring alone, one case for each action; so `RingProofs!RingInv` holds of
the threads (`RingHolds`) and need not be proved again. `MainInv` adds the types,
`LinesInv` (the frame in the lane finder and the lines in `processedFrame` are of
frames written to the ring), `WakeInv` (before END and without spurious wakeups,
`tProcessFrame` gets past its wait only after a frame was put, and `writeIndex` has by
then passed the frame it had), `JoinInv` (main asks for the unmount only after
`tStoreFrame` has ended) and `IndexInv` (the file's index lists all that was stored).
From them `FrameFirst`, `LinesLater`, `NeverGoesBack` and `IndexWrittenLast`: after the
unmount is requested no frame is written, but the index is. `ProcessRing` says that a behaviour of the process is one of the
ring, which carries the ring's theorems over: `RingTheorems` and `MainIsQueue`, by which the threads implement the lossy queue in two refinements.

The end of the process: the three threads end because of END only and main joins
them one after the other (`EndedInv`), so the unmount, and the return from main, come
after END and after all three (`UnmountsAfterEnd`). A thread that has missed END
never gets it (`StuckForGood`): who would post the semaphore or signal the condition
has ended. And after END the process can stop short of its end in the three ways
of `EndsOrMissesEnd` only (`StopsOnlyIfMissed`): there is no circle of threads, as
`drawLines`, `setLaneLines` and `writeFrame` take no mutex while they hold one.
`AcqCanStep` and the others are the guards of the threads' actions; that they are
their `ENABLED` was checked with TLC.

**CarStatusLink.** `LinkInv` holds for any number of restarts. `GenerationInv`: the two
semaphores of a daemon are made in order, and names refer to what is made.
`TurnInv`: on each generation that no main mixed there is one turn, a value of a
semaphore or a place of a process. `SegmentInv`: a segment is made only after the
one before was destroyed, and main is attached to the one that has the key.
`BlockInv`: segments later than the daemon's are empty, and the block is whole when
the turn to read is given. `CopyInv`: main's copy agrees with the block field by
field. One turn alone is not enough for `NoTornStatus`, since the daemon may write
to a segment that main has destroyed; this is what the parts on segments are for.
`WholeUnderOneDaemon` is for a main whose semaphores both belong to the daemon that
runs, or ran last. A daemon replaced under a running main may leave half a status in
the block, and the theorem does not deny it; `NeverOlder` is what holds even then.

`LinkTypes` bounds the semaphores without a bound on restarts. A main that opened
the two semaphores in different generations takes turns from one and gives them to
the other, and a later one may do it again. But names and mains only move to later
generations (`OpenedInv`), so turns go forward only, and at most as many meet on
generation `g` as there have been generations, `g` (`PassedOnInv`, `PassedOn`). The type
of the model said 2 before, which is right for the two runs that TLC checks and for
no more. `NeverOlder`: from the daemon's sample over the block and main's copy to
what is printed, no field is ahead of the one before (`AgeInv`), so within a run of
main no field goes back, even across a death of the daemon in the middle of a status.

**PenDrive.** `PenInv`: the handlers that run are on the stack, once each
(`HandlerInv`, from lemmas on pushing and popping a sequence without repetition);
only `rmdir` in `unmount` removes the directory, so a handle opened by its test is
still open when it closes it, whatever ran in between (`DirInv`); a directory with
nothing on it is about to be mounted on, about to be removed, or something has
failed (`StaleInv`); a run posts once, after its PID (`PidInv`); a `SIG_UNMOUNT` is
outstanding only if the one post of this daemon was taken by a run of main that is
done, so no later run of main can be recording (`UnmountInv`).

**ButtonsDriver.** `TaskInv` relates `task` to who has the device open or is opening it,
and each siginfo to who has passed its set-up (`SetUpPast`); `DebounceInv`
says that until the clock has gone round, the difference of the two stamps modulo
the width is the time since the last press taken, from lemmas on `%`.

**Only model-checked.** Liveness, which is out of the prover's reach: `Finishes`,
`HandledOrSelfDeadlocked`, `EveryFrameStored`, `EndsOrMissesEnd`, `StoreReleasesProc`,
`Delivered`, `MountServed`, `UnmountServed`. Of the second and the fourth the safety
half is proved: what is stuck stays stuck, and nothing else can be stuck. That the
guards used there are `ENABLED` of the actions is also left to TLC. Every safety
property that a passing run checks is stated by a theorem.

## 5. Not modelled

- Image operations, text, encoding: data without control.
- Buzzer driver: a write sets a pin; its two writes are in `RoadBuddy` as the
  places of `tWarningSystem`. Set-up of both kernel modules, and its error paths,
  are straight-line kernel calls.
- Camera calibration and opening of the camera: before any thread exists.
- What holds a drive after `umount2(MNT_DETACH)`: the handles that `mountOnStartup`
  and `autoMountDevices` never close (`event_monitor.cpp:172`, `:322`) and the
  working directory that `manageSpace` leaves there (`:214`).
- Calls in the daemon's handlers that POSIX does not allow in a handler (`syslog`,
  `malloc` under udev): undefined in the C library.
- `SIGTERM`, whose handler in the daemon does nothing; `daemonize`.
- Use of closed or destroyed semaphores at the end of main (`main.cpp:308-310`):
  undefined in the C library.
- User timer: unused. Test programs: manual clients.

## 6. Plan

Done: all modules of section 2, and proofs for each of them that has state of its
own. What could be added:

1. The safety halves of the other liveness properties: for `MountServed` and
   `UnmountServed`, that a request which is pending or being handled is either done
   or has failed; for `Delivered`, that a status posted is in the block until it is
   read or main ends.
2. A single abstract specification of the status link (a register that main reads
   whole, at most one status behind each post) and the refinement of it by
   `CarStatusLink`, as `FrameQueue` is for the ring.
3. A run for what a press before `sigaction` does to main (`main.cpp:205`): now the
   `Early` case of `SignalsWhoExpectsThem`.
4. References to a drive after a lazy unmount, for the handles that stay open.
5. `PenDrive` with a drive that fills up, so that `manageSpace` removes a file that
   is being recorded.
6. Composition of `ButtonsDriver` with `SignalHandler`, so that presses, not an
   arbitrary sender, are the source of the signals.
