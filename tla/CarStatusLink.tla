---------------------------- MODULE CarStatusLink ----------------------------
(***************************************************************************)
(* How the car's status travels from dGetCarStatus to the frames: the      *)
(* daemon puts it in a shared memory block (sendStatus), tGetCarStatus of  *)
(* main.cpp copies it out (getCarStatus), and tAcqnMergeFrame, once the    *)
(* engine is on, prints the copy in every pass (setCarStatus).  Two named semaphores pass the turn: sem_cons      *)
(* starts at 1 and lets the daemon write, sem_prod starts at 0 and lets    *)
(* main read.  mutex_carstatus covers the copy inside main.                *)
(*                                                                         *)
(* Either process may die at any moment and be started again.  Each run of *)
(* the daemon unlinks the semaphores and creates new ones (generation r in *)
(* run r); who has opened the old ones keeps them.  main opens the two one *)
(* after the other.  tGetCarStatus destroys the block when END is set; who *)
(* is attached to it keeps it, the next to ask for it gets a new one.      *)
(*                                                                         *)
(* A status is the number of the sample it was read in, in each of its     *)
(* three fields.  getStatus that fails changes nothing.                    *)
(***************************************************************************)
EXTENDS Integers

CONSTANTS MaxSamples, MaxDaemonRuns, MaxMainRuns   \* bounds

ASSUME CarStatusAssumption ==
  MaxSamples \in Nat /\ MaxDaemonRuns \in Nat \ {0} /\ MaxMainRuns \in Nat

VARIABLES
  prodName, consName,    \* generation each name refers to, or None
  prod, cons,            \* value of the semaphores of each generation
  key, segments,         \* segment the key refers to, or None; how many made
  block,                 \* what each segment holds
  daemonRun, daemon,     \* run of the daemon, and where it is
  sample, daemonSeg,     \* the sample it has read, the segment it is attached to
  mainRun, main,         \* run of main, and how far it has opened
  mainProd, mainCons, mainSeg,  \* the objects this run of main uses
  mixed,                 \* generations whose sem_cons was opened with another's
                         \* sem_prod, by this run of main or an earlier one
  consumer,              \* where tGetCarStatus is
  end,                   \* has END been set?
  acqn,                  \* where tAcqnMergeFrame is
  carstatus, shown       \* main's copy, and what was last printed on a frame

names  == <<prodName, consName>>
memory == <<key, segments, block>>
daemonVars == <<daemonRun, daemon, sample, daemonSeg>>
opened == <<mainRun, main, mainProd, mainCons, mixed>>
local  == <<acqn, carstatus, shown>>
vars == <<names, prod, cons, memory, daemonVars, opened, mainSeg, consumer,
          end, local>>

None == 0
Runs == 1..MaxDaemonRuns
Segments == 1..MaxMainRuns + 1
Samples == 0..MaxSamples
Status(n) == [carSpeed |-> n, engineSpeed |-> n, distance |-> n]
DaemonPC == {"unlink", "createProd", "createCons", "get", "attach", "wait",
             "speed", "engine", "distance", "post", "down"}
ConsumerPC == {"attach", "check", "wait", "lock", "speed", "engine",
               "distance", "unlock", "post", "destroy", "done"}
AcqnPC == {"spin", "check", "pass", "done"}

(* Who is between its sem_wait and its sem_post, on generation g.          *)
Writing(g) == daemonRun = g /\ daemon \in {"speed", "engine", "distance", "post"}
Reading(g) ==
  /\ main = "running" /\ mainProd = g
  /\ consumer \in {"lock", "speed", "engine", "distance", "unlock", "post"}

-----------------------------------------------------------------------------
Init ==
  /\ prodName = None /\ consName = None
  /\ prod = [g \in Runs |-> 0] /\ cons = [g \in Runs |-> 0]
  /\ key = None /\ segments = 0
  /\ block = [s \in Segments |-> Status(0)]
  /\ daemonRun = 1 /\ daemon = "unlink"
  /\ sample = 0 /\ daemonSeg = None
  /\ mainRun = 0 /\ main = "off"
  /\ mainProd = None /\ mainCons = None /\ mainSeg = None /\ mixed = {}
  /\ consumer = "done" /\ end = FALSE /\ acqn = "done"
  /\ carstatus = Status(0) /\ shown = Status(0)

(* attach_memory_block makes the segment if the key has none.              *)
AttachedSeg == IF key = None THEN segments + 1 ELSE key
Attach ==
  /\ key' = AttachedSeg
  /\ segments' = IF key = None THEN segments + 1 ELSE segments
  /\ UNCHANGED block

(***************************************************************************)
(* The daemon                                                              *)
(***************************************************************************)
MainSide == <<opened, mainSeg, consumer, end, local>>
DaemonAt(here, there) == daemon = here /\ daemon' = there

UnlinkSems ==
  /\ DaemonAt("unlink", "createProd")
  /\ prodName' = None /\ consName' = None
  /\ UNCHANGED <<prod, cons, memory, daemonRun, sample, daemonSeg, MainSide>>

(* Mutant of CreateProd: created with the value of sem_cons.             *)
CreateProdFull ==
  /\ DaemonAt("createProd", "createCons")
  /\ prodName' = daemonRun
  /\ prod' = [prod EXCEPT ![daemonRun] = 1]
  /\ UNCHANGED <<consName, cons, memory, daemonRun, sample, daemonSeg, MainSide>>

CreateProd ==
  /\ DaemonAt("createProd", "createCons")
  /\ prodName' = daemonRun
  /\ prod' = [prod EXCEPT ![daemonRun] = 0]
  /\ UNCHANGED <<consName, cons, memory, daemonRun, sample, daemonSeg, MainSide>>

CreateCons ==
  /\ DaemonAt("createCons", "get")
  /\ consName' = daemonRun
  /\ cons' = [cons EXCEPT ![daemonRun] = 1]
  /\ UNCHANGED <<prodName, prod, memory, daemonRun, sample, daemonSeg, MainSide>>

GetStatus ==
  /\ DaemonAt("get", "attach")
  /\ sample < MaxSamples
  /\ sample' = sample + 1
  /\ UNCHANGED <<names, prod, cons, memory, daemonRun, daemonSeg, MainSide>>

DaemonAttach ==
  /\ DaemonAt("attach", "wait")
  /\ daemonSeg' = AttachedSeg
  /\ Attach
  /\ UNCHANGED <<names, prod, cons, daemonRun, sample, MainSide>>

(* Mutant of WaitCons: sendStatus does not wait for its turn.            *)
WaitConsNot ==
  /\ DaemonAt("wait", "speed")
  /\ UNCHANGED <<names, prod, cons, memory, daemonRun, sample, daemonSeg, MainSide>>

WaitCons ==
  /\ DaemonAt("wait", "speed")
  /\ cons[daemonRun] > 0
  /\ cons' = [cons EXCEPT ![daemonRun] = @ - 1]
  /\ UNCHANGED <<names, prod, memory, daemonRun, sample, daemonSeg, MainSide>>

PutStatus ==
  /\ \/ DaemonAt("speed", "engine")
        /\ block' = [block EXCEPT ![daemonSeg].carSpeed = sample]
     \/ DaemonAt("engine", "distance")
        /\ block' = [block EXCEPT ![daemonSeg].engineSpeed = sample]
     \/ DaemonAt("distance", "post")
        /\ block' = [block EXCEPT ![daemonSeg].distance = sample]
  /\ UNCHANGED <<names, prod, cons, key, segments, daemonRun, sample, daemonSeg,
                 MainSide>>

(* Mutant of PostProd: sendStatus gives the turn back to itself.         *)
PostProdSwapped ==
  /\ DaemonAt("post", "get")
  /\ cons' = [cons EXCEPT ![daemonRun] = @ + 1]
  /\ daemonSeg' = None
  /\ UNCHANGED <<names, prod, memory, daemonRun, sample, MainSide>>

(* sem_post, detach, and sleep until the next getStatus.                   *)
PostProd ==
  /\ DaemonAt("post", "get")
  /\ prod' = [prod EXCEPT ![daemonRun] = @ + 1]
  /\ daemonSeg' = None
  /\ UNCHANGED <<names, cons, memory, daemonRun, sample, MainSide>>

DaemonNext ==
  \/ UnlinkSems \/ CreateProd \/ CreateCons \/ GetStatus \/ DaemonAttach
  \/ WaitCons \/ PutStatus \/ PostProd

DaemonDies ==
  /\ daemon # "down"
  /\ daemon' = "down" /\ daemonSeg' = None
  /\ UNCHANGED <<names, prod, cons, memory, daemonRun, sample, MainSide>>

DaemonStarts ==
  /\ daemon = "down" /\ daemonRun < MaxDaemonRuns
  /\ daemonRun' = daemonRun + 1
  /\ daemon' = "unlink"
  /\ UNCHANGED <<names, prod, cons, memory, sample, daemonSeg, MainSide>>

(***************************************************************************)
(* main: opening the semaphores, and dying                                 *)
(***************************************************************************)
Objects == <<names, prod, cons, memory, daemonVars>>

OpenProd ==
  /\ main = "off" /\ mainRun < MaxMainRuns
  /\ mainRun' = mainRun + 1
  /\ IF prodName = None THEN UNCHANGED <<main, mainProd>>   \* exits
                        ELSE main' = "opening" /\ mainProd' = prodName
  /\ UNCHANGED <<Objects, mainCons, mixed, mainSeg, consumer, end, local>>

OpenCons ==
  /\ main = "opening"
  /\ IF consName = None
       THEN /\ main' = "off"                                \* exits
            /\ UNCHANGED <<mainCons, mixed, consumer, end, local>>
       ELSE /\ main' = "running"
            /\ mainCons' = consName
            /\ mixed' = IF consName = mainProd THEN mixed ELSE mixed \cup {consName}
            /\ consumer' = "attach" /\ acqn' = "spin"
            /\ end' = FALSE
            /\ carstatus' = Status(0) /\ shown' = Status(0)
  /\ UNCHANGED <<Objects, mainRun, mainProd, mainSeg>>

(* main returns without joining tGetCarStatus, exits or is killed.         *)
MainDies ==
  /\ main # "off"
  /\ main' = "off"
  /\ consumer' = "done" /\ acqn' = "done" /\ mainSeg' = None
  /\ UNCHANGED <<Objects, mainRun, mainProd, mainCons, mixed, end, carstatus,
                 shown>>

SigEngOff ==
  /\ main = "running" /\ ~end
  /\ end' = TRUE
  /\ UNCHANGED <<Objects, opened, mainSeg, consumer, local>>

(***************************************************************************)
(* tGetCarStatus                                                           *)
(***************************************************************************)
ConsumerAt(here, there) ==
  main = "running" /\ consumer = here /\ consumer' = there

ConsumerAttach ==
  /\ ConsumerAt("attach", "check")
  /\ mainSeg' = AttachedSeg
  /\ Attach
  /\ UNCHANGED <<names, prod, cons, daemonVars, opened, end, local>>

ConsumerLoop ==
  /\ ConsumerAt("check", IF end THEN "destroy" ELSE "wait")
  /\ UNCHANGED <<Objects, opened, mainSeg, end, local>>

WaitProd ==
  /\ ConsumerAt("wait", "lock")
  /\ prod[mainProd] > 0
  /\ prod' = [prod EXCEPT ![mainProd] = @ - 1]
  /\ UNCHANGED <<names, cons, memory, daemonVars, opened, mainSeg, end, local>>

(* tAcqnMergeFrame holds the mutex only within ShowStatus.                 *)
LockStatus ==
  /\ ConsumerAt("lock", "speed")
  /\ UNCHANGED <<Objects, opened, mainSeg, end, local>>

TakeStatus ==
  /\ \/ ConsumerAt("speed", "engine")
        /\ carstatus' = [carstatus EXCEPT !.carSpeed = block[mainSeg].carSpeed]
     \/ ConsumerAt("engine", "distance")
        /\ carstatus' = [carstatus EXCEPT !.engineSpeed = block[mainSeg].engineSpeed]
     \/ ConsumerAt("distance", "unlock")
        /\ carstatus' = [carstatus EXCEPT !.distance = block[mainSeg].distance]
  /\ UNCHANGED <<Objects, opened, mainSeg, end, acqn, shown>>

UnlockStatus ==
  /\ ConsumerAt("unlock", "post")
  /\ UNCHANGED <<Objects, opened, mainSeg, end, local>>

(* Mutant of PostCons: only if getCarStatus returned true.               *)
PostConsIfEngineOn ==
  /\ ConsumerAt("post", "check")
  /\ cons' = [cons EXCEPT ![mainCons] = IF carstatus.engineSpeed > 0 THEN @ + 1 ELSE @]
  /\ UNCHANGED <<names, prod, memory, daemonVars, opened, mainSeg, end, local>>

PostCons ==
  /\ ConsumerAt("post", "check")
  /\ cons' = [cons EXCEPT ![mainCons] = @ + 1]
  /\ UNCHANGED <<names, prod, memory, daemonVars, opened, mainSeg, end, local>>

(* detach_memory_block and destroy_memory_block                            *)
DestroyBlock ==
  /\ ConsumerAt("destroy", "done")
  /\ key' = None /\ mainSeg' = None
  /\ UNCHANGED <<names, prod, cons, segments, block, daemonVars, opened, end, local>>

ConsumerNext ==
  \/ ConsumerAttach \/ ConsumerLoop \/ WaitProd \/ LockStatus \/ TakeStatus
  \/ UnlockStatus \/ PostCons \/ DestroyBlock

(***************************************************************************)
(* tAcqnMergeFrame: it spins for ENG_STAT, which SIG_ENG_ON sets and       *)
(* nothing clears, and then prints the copy in each pass until END.        *)
(***************************************************************************)
MutexCarstatusFree == consumer \notin {"speed", "engine", "distance", "unlock"}

EngineOn ==
  /\ main = "running" /\ acqn = "spin"
  /\ acqn' = "check"
  /\ UNCHANGED <<Objects, opened, mainSeg, consumer, end, carstatus, shown>>

AcqnLoop ==
  /\ main = "running" /\ acqn = "check"
  /\ acqn' = IF end THEN "done" ELSE "pass"
  /\ UNCHANGED <<Objects, opened, mainSeg, consumer, end, carstatus, shown>>

(* Mutant of ShowStatus: without mutex_carstatus.                          *)
ShowUnlocked ==
  /\ main = "running" /\ acqn = "pass"
  /\ shown' = carstatus
  /\ acqn' = "check"
  /\ UNCHANGED <<Objects, opened, mainSeg, consumer, end, carstatus>>

ShowStatus ==
  /\ main = "running" /\ acqn = "pass" /\ MutexCarstatusFree
  /\ shown' = carstatus
  /\ acqn' = "check"
  /\ UNCHANGED <<Objects, opened, mainSeg, consumer, end, carstatus>>

AcqnNext == AcqnLoop \/ ShowStatus

Next ==
  \/ DaemonNext \/ DaemonDies \/ DaemonStarts
  \/ OpenProd \/ OpenCons \/ MainDies \/ SigEngOff \/ ConsumerNext
  \/ EngineOn \/ AcqnNext

Spec == Init /\ [][Next]_vars

(* Processes that live are scheduled; nothing makes anyone die or start,   *)
(* or the engine be switched on or off.                                    *)
Fairness == WF_vars(DaemonNext) /\ WF_vars(ConsumerNext) /\ WF_vars(AcqnNext)
FairSpec == Spec /\ Fairness

-----------------------------------------------------------------------------
(***************************************************************************)
(* Properties                                                              *)
(***************************************************************************)
Fields == [carSpeed : Samples, engineSpeed : Samples, distance : Samples]

(* Every variable has its type.  A main that mixed two generations passes  *)
(* the turns of the earlier on to the later one, so that a semaphore can   *)
(* collect those of all generations up to its own, and no more.            *)
TypeOK ==
  /\ prodName \in Runs \cup {None} /\ consName \in Runs \cup {None}
  /\ prod \in [Runs -> Nat] /\ cons \in [Runs -> Nat]
  /\ \A g \in Runs : prod[g] <= g /\ cons[g] <= g
  /\ key \in Segments \cup {None} /\ segments \in 0..MaxMainRuns + 1
  /\ block \in [Segments -> Fields]
  /\ daemonRun \in Runs /\ daemon \in DaemonPC
  /\ sample \in Samples /\ daemonSeg \in Segments \cup {None}
  /\ mainRun \in 0..MaxMainRuns /\ main \in {"off", "opening", "running"}
  /\ mainProd \in Runs \cup {None} /\ mainCons \in Runs \cup {None}
  /\ mixed \in SUBSET Runs /\ mainSeg \in Segments \cup {None}
  /\ consumer \in ConsumerPC /\ end \in BOOLEAN /\ acqn \in AcqnPC
  /\ carstatus \in Fields /\ shown \in Fields

(* How many turns there are on generation g: in its two semaphores and in  *)
(* the hands of the two processes.                                         *)
Turns(g) ==
  prod[g] + cons[g] + (IF Writing(g) THEN 1 ELSE 0) + (IF Reading(g) THEN 1 ELSE 0)

(* The daemon (between the sem_wait and sem_post of sendStatus) and main   *)
(* (between those of tGetCarStatus) never have the turn together, and there *)
(* is never a second turn, however often either dies and is started again. *)
(* Generations that main mixed are left out: there it posts a sem_cons for *)
(* a sem_prod of an earlier daemon, which does make a second turn.         *)
OneTurn == \A g \in Runs \ mixed : Turns(g) <= 1

(* The turn is lost only with a process that dies holding it, or by a main *)
(* that mixed two generations: no path through sendStatus or the loop of   *)
(* tGetCarStatus keeps it.                                                 *)
TurnLostOnlyByDeath ==
  [][\A g \in Runs : Turns(g)' < Turns(g) =>
       \/ Writing(g) /\ daemon' = "down"
       \/ Reading(g) /\ (main' = "off" \/ mainCons # g)]_vars

(* Main uses the semaphores of the daemon that runs, or ran last.          *)
SameDaemon ==
  main = "running" /\ mainProd = daemonRun /\ mainCons = daemonRun

Whole(st) == st.carSpeed = st.engineSpeed /\ st.engineSpeed = st.distance

(* As long as the daemon has not been replaced under a running main, what  *)
(* getCarStatus copied and what setCarStatus prints are the three fields   *)
(* of one status, never a mixture of two.                                  *)
NoTornStatus ==
  SameDaemon /\ daemonRun \notin mixed =>
    /\ MutexCarstatusFree => Whole(carstatus)
    /\ Whole(shown)

(* A status that the daemon is about to send is printed on the frames, it  *)
(* or a later one, if the engine is on and not switched off, both          *)
(* processes live on, the turn was not lost before, and both are attached  *)
(* to the same block.                                                      *)
Delivered ==
  \A n \in Samples :
    (/\ daemon = "wait" /\ sample = n /\ acqn # "spin"
     /\ SameDaemon /\ Turns(daemonRun) > 0 /\ daemonSeg = mainSeg)
      ~> (shown.carSpeed >= n \/ ~SameDaemon \/ daemon = "down" \/ end)

(* sendStatus posts sem_prod "to let know status are available" (line 80   *)
(* of GetCarStatus.cpp): when tGetCarStatus has waited for it, the block   *)
(* it reads holds a status.                                                *)
StatusAvailable ==
  Reading(daemonRun) /\ consumer = "lock" => block[mainSeg] # Status(0)
=============================================================================
