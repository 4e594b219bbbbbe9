-------------------------- MODULE CarStatusLinkProofs --------------------------
(***************************************************************************)
(* Proofs about CarStatusLink for any number of samples and of runs of     *)
(* either process.  LinkInv says which generation of semaphores and which  *)
(* segment each process can have in hand; it is inductive, and that there  *)
(* is one turn, that it is lost only with a process, and that no torn      *)
(* status is printed follow from it.  Two more invariants bound the turns  *)
(* a mixed main brings together and order the statuses by age.             *)
(***************************************************************************)
EXTENDS CarStatusLink, TLAPS

(***************************************************************************)
(* The inductive invariant                                                 *)
(***************************************************************************)
(* The daemon's semaphores are made one after the other: a generation that *)
(* is not made has no value, no name and no user.                          *)
BeforeProd == daemon \in {"unlink", "createProd"}
BeforeCons == daemon \in {"unlink", "createProd", "createCons"}
ProdMade(g) == g \in Runs /\ (g < daemonRun \/ (g = daemonRun /\ ~BeforeProd))
ConsMade(g) == g \in Runs /\ (g < daemonRun \/ (g = daemonRun /\ ~BeforeCons))

GenerationInv ==
  /\ daemonRun \in Runs /\ daemon \in DaemonPC
  /\ main \in {"off", "opening", "running"} /\ consumer \in ConsumerPC
  /\ prodName # None => ProdMade(prodName)
  /\ consName # None => ConsMade(consName)
  /\ daemon \in {"createProd", "createCons"} => consName = None
  /\ main = "opening" => ProdMade(mainProd)
  /\ main = "running" => ConsMade(mainProd) /\ ConsMade(mainCons)

(* One turn at most on a generation that main did not mix, none on one     *)
(* that is not made; a main that mixed two is remembered.                  *)
TurnInv ==
  /\ prod \in [Runs -> Nat] /\ cons \in [Runs -> Nat]
  /\ \A g \in Runs : ~ConsMade(g) => prod[g] = 0 /\ cons[g] = 0
  /\ (main = "running" /\ mainCons # mainProd) => mainCons \in mixed
  /\ OneTurn

(* A segment is made if the one before was destroyed, and each run of main *)
(* destroys one at most, the one it is attached to.                        *)
Active == main = "opening" \/ (main = "running" /\ consumer # "done")
Made == segments + (IF key = None THEN 1 ELSE 0)

SegmentInv ==
  /\ mainRun \in 0..MaxMainRuns
  /\ segments \in Nat /\ key \in {None, segments}
  /\ segments = 0 => key = None
  /\ Made <= mainRun + (IF Active THEN 0 ELSE 1)
  /\ mainSeg = IF main = "running" /\ consumer \notin {"attach", "done"}
               THEN key ELSE None
  /\ mainSeg = None => main # "running" \/ consumer \in {"attach", "done"}
  /\ daemonSeg \in 0..segments
  /\ daemonSeg = None => daemon \notin {"wait", "speed", "engine", "distance", "post"}

(* The daemon fills the segment it is attached to field by field, and later*)
(* segments are empty.  Whoever has the turn to read finds a whole status. *)
BlockInv ==
  /\ sample \in Samples
  /\ block \in [Segments -> Fields]
  /\ daemonSeg # None =>
       \A s \in Segments : s > daemonSeg => block[s] = Status(0)
  /\ \A s \in Segments : s > segments => block[s] = Status(0)
  /\ daemon \in {"engine", "distance", "post"} => block[daemonSeg].carSpeed = sample
  /\ daemon \in {"distance", "post"} => block[daemonSeg].engineSpeed = sample
  /\ daemon = "post" => block[daemonSeg].distance = sample
  /\ (/\ daemonRun \notin mixed /\ key # None
      /\ prod[daemonRun] > 0 \/ Reading(daemonRun))
     => Whole(block[key])

(* tGetCarStatus copies the block field by field.                          *)
CopyInv ==
  /\ carstatus \in Fields /\ shown \in Fields
  /\ SameDaemon /\ daemonRun \notin mixed =>
       /\ consumer \in {"engine", "distance"} =>
            carstatus.carSpeed = block[mainSeg].carSpeed
       /\ consumer = "distance" =>
            carstatus.engineSpeed = block[mainSeg].engineSpeed
       /\ consumer \notin {"engine", "distance"} => Whole(carstatus)
       /\ Whole(shown)

LinkInv == GenerationInv /\ TurnInv /\ SegmentInv /\ BlockInv /\ CopyInv

-----------------------------------------------------------------------------
(* Every part of the invariant holds initially.                            *)
LEMMA LinkInit == Init => LinkInv
<1> SUFFICES ASSUME Init PROVE LinkInv
  OBVIOUS
<1> USE CarStatusAssumption DEF Init, None, Runs, Segments, Samples
<1>1. GenerationInv
  BY DEF GenerationInv, DaemonPC, ConsumerPC
<1>2. TurnInv
  BY DEF TurnInv, OneTurn, Turns, Writing, Reading
<1>3. SegmentInv
  BY DEF SegmentInv, Made, Active
<1>4. BlockInv
  BY DEF BlockInv, Fields, Status, Reading
<1>5. CopyInv
  BY DEF CopyInv, Fields, Status, SameDaemon
<1> QED BY <1>1, <1>2, <1>3, <1>4, <1>5 DEF LinkInv

(* Names and semaphores are those of generations that are made.            *)
LEMMA GenerationNext ==
  GenerationInv /\ [Next]_vars => GenerationInv'
<1> SUFFICES ASSUME GenerationInv, [Next]_vars PROVE GenerationInv'
  OBVIOUS
<1> USE DEF GenerationInv, ProdMade, ConsMade, BeforeProd, BeforeCons,
           DaemonPC, ConsumerPC, Runs, names, memory, daemonVars, opened,
           local, MainSide, Objects, DaemonAt, ConsumerAt, Attach, None
<1> USE CarStatusAssumption
<1>1. CASE UnlinkSems
  BY <1>1 DEF UnlinkSems
<1>2. CASE CreateProd
  BY <1>2 DEF CreateProd
<1>3. CASE CreateCons
  BY <1>3 DEF CreateCons
<1>4. CASE GetStatus
  BY <1>4 DEF GetStatus
<1>5. CASE DaemonAttach
  BY <1>5 DEF DaemonAttach
<1>6. CASE WaitCons
  BY <1>6 DEF WaitCons
<1>7. CASE PutStatus
  BY <1>7 DEF PutStatus
<1>8. CASE PostProd
  BY <1>8 DEF PostProd
<1>9. CASE DaemonDies
  BY <1>9 DEF DaemonDies
<1>10. CASE DaemonStarts
  BY <1>10 DEF DaemonStarts
<1>11. CASE OpenProd
  BY <1>11 DEF OpenProd
<1>12. CASE OpenCons
  BY <1>12 DEF OpenCons
<1>13. CASE MainDies
  BY <1>13 DEF MainDies
<1>14. CASE SigEngOff
  BY <1>14 DEF SigEngOff
<1>15. CASE ConsumerAttach
  BY <1>15 DEF ConsumerAttach
<1>16. CASE ConsumerLoop
  BY <1>16 DEF ConsumerLoop
<1>17. CASE WaitProd
  BY <1>17 DEF WaitProd
<1>18. CASE LockStatus
  BY <1>18 DEF LockStatus
<1>19. CASE TakeStatus
  BY <1>19 DEF TakeStatus
<1>20. CASE UnlockStatus
  BY <1>20 DEF UnlockStatus
<1>21. CASE PostCons
  BY <1>21 DEF PostCons
<1>22. CASE DestroyBlock
  BY <1>22 DEF DestroyBlock
<1>23. CASE EngineOn \/ AcqnNext
  BY <1>23 DEF EngineOn, AcqnNext, AcqnLoop, ShowStatus
<1>24. CASE UNCHANGED vars
  BY <1>24 DEF vars
<1> QED BY <1>1, <1>2, <1>3, <1>4, <1>5, <1>6, <1>7, <1>8, <1>9, <1>10,
           <1>11, <1>12, <1>13, <1>14, <1>15, <1>16, <1>17,
           <1>18, <1>19, <1>20, <1>21, <1>22, <1>23, <1>24
        DEF Next, DaemonNext, ConsumerNext

(* Every action keeps the number of turns of each generation, except that  *)
(* creating sem_cons makes the one of a new generation, deaths lose theirs *)
(* and a main that mixed two takes from one and gives to the other.        *)
LEMMA TurnNext ==
  GenerationInv /\ TurnInv /\ [Next]_vars => TurnInv'
<1> SUFFICES ASSUME GenerationInv /\ TurnInv, [Next]_vars PROVE TurnInv'
  OBVIOUS
<1> USE DEF TurnInv, OneTurn, Turns, Writing, Reading, ConsMade, BeforeCons,
           Runs, names, memory, daemonVars, opened, local, MainSide, Objects,
           DaemonAt, ConsumerAt, Attach, None
<1> USE CarStatusAssumption
<1>0. daemonRun \in Runs /\ Runs \subseteq Nat
  BY DEF GenerationInv
<1>1. CASE UnlinkSems
  BY <1>1 DEF UnlinkSems
<1>2. CASE CreateProd
  <2> USE <1>2 DEF CreateProd, GenerationInv, BeforeProd, DaemonPC, ConsumerPC
  <2>1. prod' \in [Runs -> Nat] /\ cons' \in [Runs -> Nat]
    BY <1>0
  <2>2. \A g \in Runs : (~ConsMade(g) => prod[g] = 0 /\ cons[g] = 0)'
    BY <1>0
  <2>3. ((main = "running" /\ mainCons # mainProd) => mainCons \in mixed)'
    BY <1>0
  <2>4. ASSUME NEW g \in Runs, g \notin mixed' PROVE Turns(g)' <= 1
    <3>1. Turns(g) <= 1 /\ prod[g] \in Nat /\ cons[g] \in Nat
      BY <2>4
    <3>2. CASE g = daemonRun
      BY <1>0, <3>1, <3>2
    <3>3. CASE g # daemonRun
      BY <1>0, <3>1, <3>3
    <3> QED BY <3>2, <3>3
  <2> QED BY <2>1, <2>2, <2>3, <2>4
<1>3. CASE CreateCons
  <2> USE <1>3 DEF CreateCons, GenerationInv, BeforeProd, DaemonPC, ConsumerPC
  <2>1. prod' \in [Runs -> Nat] /\ cons' \in [Runs -> Nat]
    BY <1>0
  <2>2. \A g \in Runs : (~ConsMade(g) => prod[g] = 0 /\ cons[g] = 0)'
    BY <1>0
  <2>3. ((main = "running" /\ mainCons # mainProd) => mainCons \in mixed)'
    BY <1>0
  <2>4. ASSUME NEW g \in Runs, g \notin mixed' PROVE Turns(g)' <= 1
    <3>1. Turns(g) <= 1 /\ prod[g] \in Nat /\ cons[g] \in Nat
      BY <2>4
    <3>2. CASE g = daemonRun
      <4>1. prod[g] = 0 /\ ~ConsMade(g)
        BY <1>0, <3>2
      <4>2. ~Reading(g)' /\ ~Writing(g)' /\ cons'[g] = 1
        BY <1>0, <3>2, <4>1
      <4>3. prod'[g] = 0
        BY <4>1
      <4> QED BY ONLY <4>2, <4>3 DEF Turns
    <3>3. CASE g # daemonRun
      BY <1>0, <3>1, <3>3
    <3> QED BY <3>2, <3>3
  <2> QED BY <2>1, <2>2, <2>3, <2>4
<1>4. CASE GetStatus
  BY <1>4 DEF GetStatus
<1>5. CASE DaemonAttach
  BY <1>5 DEF DaemonAttach
<1>6. CASE WaitCons
  <2> USE <1>6 DEF WaitCons, GenerationInv, BeforeProd, DaemonPC, ConsumerPC
  <2>1. prod' \in [Runs -> Nat] /\ cons' \in [Runs -> Nat]
    BY <1>0
  <2>2. \A g \in Runs : (~ConsMade(g) => prod[g] = 0 /\ cons[g] = 0)'
    BY <1>0
  <2>3. ((main = "running" /\ mainCons # mainProd) => mainCons \in mixed)'
    BY <1>0
  <2>4. ASSUME NEW g \in Runs, g \notin mixed' PROVE Turns(g)' <= 1
    <3>1. Turns(g) <= 1 /\ prod[g] \in Nat /\ cons[g] \in Nat
      BY <2>4
    <3>2. CASE g = daemonRun
      BY <1>0, <3>1, <3>2
    <3>3. CASE g # daemonRun
      BY <1>0, <3>1, <3>3
    <3> QED BY <3>2, <3>3
  <2> QED BY <2>1, <2>2, <2>3, <2>4
<1>7. CASE PutStatus
  BY <1>7 DEF PutStatus
<1>8. CASE PostProd
  <2> USE <1>8 DEF PostProd, GenerationInv, BeforeProd, DaemonPC, ConsumerPC
  <2>1. prod' \in [Runs -> Nat] /\ cons' \in [Runs -> Nat]
    BY <1>0
  <2>2. \A g \in Runs : (~ConsMade(g) => prod[g] = 0 /\ cons[g] = 0)'
    BY <1>0
  <2>3. ((main = "running" /\ mainCons # mainProd) => mainCons \in mixed)'
    BY <1>0
  <2>4. ASSUME NEW g \in Runs, g \notin mixed' PROVE Turns(g)' <= 1
    <3>1. Turns(g) <= 1 /\ prod[g] \in Nat /\ cons[g] \in Nat
      BY <2>4
    <3>2. CASE g = daemonRun
      BY <1>0, <3>1, <3>2
    <3>3. CASE g # daemonRun
      BY <1>0, <3>1, <3>3
    <3> QED BY <3>2, <3>3
  <2> QED BY <2>1, <2>2, <2>3, <2>4
<1>9. CASE DaemonDies
  <2> USE <1>9 DEF DaemonDies, GenerationInv, BeforeProd, DaemonPC, ConsumerPC
  <2>1. prod' \in [Runs -> Nat] /\ cons' \in [Runs -> Nat]
    BY <1>0
  <2>2. \A g \in Runs : (~ConsMade(g) => prod[g] = 0 /\ cons[g] = 0)'
    BY <1>0
  <2>3. ((main = "running" /\ mainCons # mainProd) => mainCons \in mixed)'
    BY <1>0
  <2>4. ASSUME NEW g \in Runs, g \notin mixed' PROVE Turns(g)' <= 1
    <3>1. Turns(g) <= 1 /\ prod[g] \in Nat /\ cons[g] \in Nat
      BY <2>4
    <3>2. CASE g = daemonRun
      BY <1>0, <3>1, <3>2
    <3>3. CASE g # daemonRun
      BY <1>0, <3>1, <3>3
    <3> QED BY <3>2, <3>3
  <2> QED BY <2>1, <2>2, <2>3, <2>4
<1>10. CASE DaemonStarts
  <2> USE <1>10 DEF DaemonStarts, GenerationInv, BeforeProd, DaemonPC, ConsumerPC
  <2>1. prod' \in [Runs -> Nat] /\ cons' \in [Runs -> Nat]
    BY <1>0
  <2>2. \A g \in Runs : (~ConsMade(g) => prod[g] = 0 /\ cons[g] = 0)'
    BY <1>0
  <2>3. ((main = "running" /\ mainCons # mainProd) => mainCons \in mixed)'
    BY <1>0
  <2>4. ASSUME NEW g \in Runs, g \notin mixed' PROVE Turns(g)' <= 1
    <3>1. Turns(g) <= 1 /\ prod[g] \in Nat /\ cons[g] \in Nat
      BY <2>4
    <3>2. CASE g = daemonRun
      BY <1>0, <3>1, <3>2
    <3>3. CASE g # daemonRun
      BY <1>0, <3>1, <3>3
    <3> QED BY <3>2, <3>3
  <2> QED BY <2>1, <2>2, <2>3, <2>4
<1>11. CASE OpenProd
  BY <1>11 DEF OpenProd
<1>12. CASE OpenCons
  BY <1>12 DEF OpenCons
<1>13. CASE MainDies
  BY <1>13 DEF MainDies
<1>14. CASE SigEngOff
  BY <1>14 DEF SigEngOff
<1>15. CASE ConsumerAttach
  BY <1>15 DEF ConsumerAttach
<1>16. CASE ConsumerLoop
  BY <1>16 DEF ConsumerLoop
<1>17. CASE WaitProd
  <2> USE <1>17 DEF WaitProd, GenerationInv, BeforeProd, DaemonPC, ConsumerPC
  <2>1. prod' \in [Runs -> Nat] /\ cons' \in [Runs -> Nat]
    BY <1>0
  <2>2. \A g \in Runs : (~ConsMade(g) => prod[g] = 0 /\ cons[g] = 0)'
    BY <1>0
  <2>3. ((main = "running" /\ mainCons # mainProd) => mainCons \in mixed)'
    BY <1>0
  <2>4. ASSUME NEW g \in Runs, g \notin mixed' PROVE Turns(g)' <= 1
    <3>1. Turns(g) <= 1 /\ prod[g] \in Nat /\ cons[g] \in Nat
      BY <2>4
    <3>2. CASE g = daemonRun
      BY <1>0, <3>1, <3>2
    <3>3. CASE g # daemonRun
      BY <1>0, <3>1, <3>3
    <3> QED BY <3>2, <3>3
  <2> QED BY <2>1, <2>2, <2>3, <2>4
<1>18. CASE LockStatus
  BY <1>18 DEF LockStatus
<1>19. CASE TakeStatus
  BY <1>19 DEF TakeStatus
<1>20. CASE UnlockStatus
  BY <1>20 DEF UnlockStatus
<1>21. CASE PostCons
  <2> USE <1>21 DEF PostCons, GenerationInv, BeforeProd, DaemonPC, ConsumerPC
  <2>1. prod' \in [Runs -> Nat] /\ cons' \in [Runs -> Nat]
    <3>1. prod' = prod /\ cons' = [cons EXCEPT ![mainCons] = @ + 1]
      BY ONLY <1>21 DEF PostCons
    <3>2. prod \in [Runs -> Nat] /\ cons \in [Runs -> Nat]
      OBVIOUS
    <3>3. mainCons \in Runs
      BY DEF ConsumerAt
    <3> QED BY ONLY <3>1, <3>2, <3>3
  <2>2. \A g \in Runs : (~ConsMade(g) => prod[g] = 0 /\ cons[g] = 0)'
    <3>1. /\ prod' = prod /\ UNCHANGED <<daemonRun, daemon>>
          /\ main = "running"
      OBVIOUS
    <3>2. \A g \in Runs : g # mainCons => cons'[g] = cons[g]
      BY <1>0
    <3>3. ConsMade(mainCons)
      BY <1>0, <3>1
    <3> QED BY <3>1, <3>2, <3>3
  <2>3. ((main = "running" /\ mainCons # mainProd) => mainCons \in mixed)'
    BY <1>0
  <2>4. ASSUME NEW g \in Runs, g \notin mixed' PROVE Turns(g)' <= 1
    <3>1. Turns(g) <= 1 /\ prod[g] \in Nat /\ cons[g] \in Nat
      BY <2>4
    <3>2. CASE g = mainCons
      <4>1. mainProd = mainCons
        BY <2>4, <3>2
      <4> QED BY <1>0, <3>1, <3>2, <4>1
    <3>3. CASE g # mainCons
      BY <1>0, <3>1, <3>3
    <3> QED BY <3>2, <3>3
  <2> QED BY <2>1, <2>2, <2>3, <2>4
<1>22. CASE DestroyBlock
  BY <1>22 DEF DestroyBlock
<1>23. CASE EngineOn \/ AcqnNext
  BY <1>23 DEF EngineOn, AcqnNext, AcqnLoop, ShowStatus
<1>24. CASE UNCHANGED vars
  BY <1>24 DEF vars
<1> QED BY <1>1, <1>2, <1>3, <1>4, <1>5, <1>6, <1>7, <1>8, <1>9, <1>10,
           <1>11, <1>12, <1>13, <1>14, <1>15, <1>16, <1>17,
           <1>18, <1>19, <1>20, <1>21, <1>22, <1>23, <1>24
        DEF Next, DaemonNext, ConsumerNext

(* A new segment is made only if the key has none, and only a run of main  *)
(* that is attached destroys the key's.                                    *)
LEMMA SegmentNext ==
  GenerationInv /\ SegmentInv /\ [Next]_vars => SegmentInv'
<1> SUFFICES ASSUME GenerationInv /\ SegmentInv, [Next]_vars PROVE SegmentInv'
  OBVIOUS
<1> USE DEF SegmentInv, Made, Active, AttachedSeg, DaemonPC, ConsumerPC, names,
           memory, daemonVars, opened, local, MainSide, Objects, DaemonAt,
           ConsumerAt, Attach, None
<1> USE CarStatusAssumption
<1>0. daemon \in DaemonPC /\ consumer \in ConsumerPC
      /\ main \in {"off", "opening", "running"}
  BY DEF GenerationInv
<1>1. CASE UnlinkSems
  BY <1>1 DEF UnlinkSems
<1>2. CASE CreateProd
  BY <1>2 DEF CreateProd
<1>3. CASE CreateCons
  BY <1>3 DEF CreateCons
<1>4. CASE GetStatus
  BY <1>4 DEF GetStatus
<1>5. CASE DaemonAttach
  BY <1>5 DEF DaemonAttach
<1>6. CASE WaitCons
  BY <1>6 DEF WaitCons
<1>7. CASE PutStatus
  BY <1>7 DEF PutStatus
<1>8. CASE PostProd
  BY <1>8 DEF PostProd
<1>9. CASE DaemonDies
  BY <1>9 DEF DaemonDies
<1>10. CASE DaemonStarts
  BY <1>10 DEF DaemonStarts
<1>11. CASE OpenProd
  BY <1>11 DEF OpenProd
<1>12. CASE OpenCons
  BY <1>12 DEF OpenCons
<1>13. CASE MainDies
  BY <1>13 DEF MainDies
<1>14. CASE SigEngOff
  BY <1>14 DEF SigEngOff
<1>15. CASE ConsumerAttach
  BY <1>15 DEF ConsumerAttach
<1>16. CASE ConsumerLoop
  BY <1>16 DEF ConsumerLoop
<1>17. CASE WaitProd
  BY <1>17 DEF WaitProd
<1>18. CASE LockStatus
  BY <1>18 DEF LockStatus
<1>19. CASE TakeStatus
  BY <1>19 DEF TakeStatus
<1>20. CASE UnlockStatus
  BY <1>20 DEF UnlockStatus
<1>21. CASE PostCons
  BY <1>21 DEF PostCons
<1>22. CASE DestroyBlock
  BY <1>22 DEF DestroyBlock
<1>23. CASE EngineOn \/ AcqnNext
  BY <1>23 DEF EngineOn, AcqnNext, AcqnLoop, ShowStatus
<1>24. CASE UNCHANGED vars
  BY <1>24 DEF vars
<1> QED BY <1>1, <1>2, <1>3, <1>4, <1>5, <1>6, <1>7, <1>8, <1>9, <1>10,
           <1>11, <1>12, <1>13, <1>14, <1>15, <1>16, <1>17,
           <1>18, <1>19, <1>20, <1>21, <1>22, <1>23, <1>24
        DEF Next, DaemonNext, ConsumerNext

(* Only a daemon that has the turn writes a block, and to its own segment. *)
LEMMA BlockNext ==
  GenerationInv /\ TurnInv /\ SegmentInv /\ BlockInv /\ [Next]_vars => BlockInv'
<1> SUFFICES ASSUME GenerationInv /\ TurnInv /\ SegmentInv /\ BlockInv,
                    [Next]_vars
             PROVE  BlockInv'
  OBVIOUS
<1> USE DEF BlockInv, SegmentInv, Reading, Whole, AttachedSeg, Status, Fields,
           Samples, Segments, names, memory, daemonVars, opened, local,
           MainSide, Objects, DaemonAt, ConsumerAt, Attach, None
<1> USE CarStatusAssumption
<1>0. daemonRun \in Runs /\ Runs \subseteq Nat
  BY DEF GenerationInv, Runs
(* The segment that is made next is in range, and empty.                   *)
<1>a. key = None => segments + 1 \in Segments
  BY DEF Made, Active
<1>b. segments \in 0..MaxMainRuns + 1
  BY DEF Made, Active
<1>1. CASE UnlinkSems
  BY <1>1 DEF UnlinkSems
<1>2. CASE CreateProd
  BY <1>2 DEF CreateProd
<1>3. CASE CreateCons
  BY <1>3 DEF CreateCons
<1>4. CASE GetStatus
  BY <1>4 DEF GetStatus
<1>5. CASE DaemonAttach
  <2>1. key' # None => Whole(block[key']) \/ (key' = key /\ UNCHANGED Whole(block[key]))
    BY <1>5, <1>a DEF DaemonAttach
  <2>2. daemonSeg' = key' /\ key' >= segments' /\ segments' >= segments
    BY <1>5 DEF DaemonAttach
  <2> QED BY <1>5, <2>1, <2>2 DEF DaemonAttach
<1>6. CASE WaitCons
  BY <1>6 DEF WaitCons
<1>7. CASE PutStatus
  <2>0. block \in [Segments -> Fields] /\ sample \in Samples
    OBVIOUS
  <2>1. daemonSeg \in Segments /\ Writing(daemonRun)
    BY <1>7, <1>b DEF PutStatus, Writing
  <2>2. daemonRun \notin mixed => prod[daemonRun] = 0 /\ ~Reading(daemonRun)
    BY <1>0, <2>1 DEF TurnInv, OneTurn, Turns
  <2>3. \A s \in Segments : s # daemonSeg => block'[s] = block[s]
    BY <1>7, <2>1 DEF PutStatus
  <2>4. UNCHANGED <<prod, sample, key, segments, daemonRun, daemonSeg, mixed>>
        /\ (Reading(daemonRun)' <=> Reading(daemonRun))
    BY <1>7 DEF PutStatus
  <2>5. /\ (daemonSeg # None =>
               \A s \in Segments : s > daemonSeg => block[s] = Status(0))'
        /\ (\A s \in Segments : s > segments => block[s] = Status(0))'
    BY <2>1, <2>3, <2>4
  <2>6. ~(daemonRun \notin mixed /\ key # None
            /\ (prod[daemonRun] > 0 \/ Reading(daemonRun)))'
    BY <2>2, <2>4
  <2>7. CASE daemon = "speed"
    <3>1. block' = [block EXCEPT ![daemonSeg].carSpeed = sample]
      BY <1>7, <2>7, Zenon DEF PutStatus
    <3>2. block' \in [Segments -> Fields] /\ block'[daemonSeg].carSpeed = sample
      BY ONLY <2>0, <2>1, <3>1 DEF Fields
    <3>3. daemon' = "engine"
      BY <1>7, <2>7, Zenon DEF PutStatus
    <3> QED BY <2>0, <2>4, <2>5, <2>6, <3>2, <3>3
  <2>8. CASE daemon = "engine"
    <3>1. block' = [block EXCEPT ![daemonSeg].engineSpeed = sample]
      BY <1>7, <2>8, Zenon DEF PutStatus
    <3>2. block' \in [Segments -> Fields] /\ block'[daemonSeg].engineSpeed = sample
      BY ONLY <2>0, <2>1, <3>1 DEF Fields
    <3>3. block'[daemonSeg].carSpeed = block[daemonSeg].carSpeed
      BY ONLY <2>0, <2>1, <3>1 DEF Fields
    <3>4. daemon' = "distance"
      BY <1>7, <2>8, Zenon DEF PutStatus
    <3> QED BY <2>0, <2>4, <2>5, <2>6, <2>8, <3>2, <3>3, <3>4
  <2>9. CASE daemon = "distance"
    <3>1. block' = [block EXCEPT ![daemonSeg].distance = sample]
      BY <1>7, <2>9, Zenon DEF PutStatus
    <3>2. block' \in [Segments -> Fields] /\ block'[daemonSeg].distance = sample
      BY ONLY <2>0, <2>1, <3>1 DEF Fields
    <3>3. block'[daemonSeg].carSpeed = block[daemonSeg].carSpeed
      BY ONLY <2>0, <2>1, <3>1 DEF Fields
    <3>4. block'[daemonSeg].engineSpeed = block[daemonSeg].engineSpeed
      BY ONLY <2>0, <2>1, <3>1 DEF Fields
    <3>5. daemon' = "post"
      BY <1>7, <2>9, Zenon DEF PutStatus
    <3> QED BY <2>0, <2>4, <2>5, <2>6, <2>9, <3>2, <3>3, <3>4, <3>5
  <2> QED BY <1>7, <2>7, <2>8, <2>9 DEF PutStatus
<1>8. CASE PostProd
  <2>1. daemonSeg \in Segments /\ Whole(block[daemonSeg])
    BY <1>8, <1>b DEF PostProd
  <2>2. key # None => key \in Segments /\ (key = daemonSeg \/ key > daemonSeg)
    BY <1>b, <2>1
  <2>3. key # None => Whole(block[key])
    BY <2>1, <2>2
  <2> QED BY <1>8, <2>3 DEF PostProd
<1>9. CASE DaemonDies
  BY <1>9 DEF DaemonDies
<1>10. CASE DaemonStarts
  <2>1. ~ConsMade(daemonRun') /\ daemonRun' \in Runs
    BY <1>0, <1>10 DEF DaemonStarts, ConsMade, BeforeCons, Runs
  <2>2. prod'[daemonRun'] = 0
    BY <1>10, <2>1 DEF DaemonStarts, TurnInv
  <2>3. ~Reading(daemonRun)'
    BY <1>10, <2>1 DEF DaemonStarts, GenerationInv
  <2> QED BY <1>10, <2>2, <2>3 DEF DaemonStarts
<1>11. CASE OpenProd
  BY <1>11 DEF OpenProd
<1>12. CASE OpenCons
  BY <1>12 DEF OpenCons
<1>13. CASE MainDies
  BY <1>13 DEF MainDies
<1>14. CASE SigEngOff
  BY <1>14 DEF SigEngOff
<1>15. CASE ConsumerAttach
  <2>1. key = None => Whole(block[key'])
    BY <1>15, <1>a DEF ConsumerAttach
  <2>2. ~Reading(daemonRun)'
    BY <1>15 DEF ConsumerAttach
  <2> QED BY <1>15, <2>1, <2>2 DEF ConsumerAttach
<1>16. CASE ConsumerLoop
  BY <1>16 DEF ConsumerLoop
<1>17. CASE WaitProd
  BY <1>17 DEF WaitProd
<1>18. CASE LockStatus
  BY <1>18 DEF LockStatus
<1>19. CASE TakeStatus
  BY <1>19 DEF TakeStatus
<1>20. CASE UnlockStatus
  BY <1>20 DEF UnlockStatus
<1>21. CASE PostCons
  BY <1>21 DEF PostCons
<1>22. CASE DestroyBlock
  BY <1>22 DEF DestroyBlock
<1>23. CASE EngineOn \/ AcqnNext
  BY <1>23 DEF EngineOn, AcqnNext, AcqnLoop, ShowStatus
<1>24. CASE UNCHANGED vars
  BY <1>24 DEF vars
<1> QED BY <1>1, <1>2, <1>3, <1>4, <1>5, <1>6, <1>7, <1>8, <1>9, <1>10,
           <1>11, <1>12, <1>13, <1>14, <1>15, <1>16, <1>17,
           <1>18, <1>19, <1>20, <1>21, <1>22, <1>23, <1>24
        DEF Next, DaemonNext, ConsumerNext

(* While main has the turn, the block it copies does not change.           *)
LEMMA CopyNext ==
  GenerationInv /\ TurnInv /\ SegmentInv /\ BlockInv /\ CopyInv
  /\ [Next]_vars => CopyInv'
<1> SUFFICES ASSUME GenerationInv /\ TurnInv /\ SegmentInv /\ BlockInv /\ CopyInv,
                    [Next]_vars
             PROVE  CopyInv'
  OBVIOUS
<1> USE DEF CopyInv, SegmentInv, SameDaemon, Whole, Status, Fields, Samples,
           names, memory, daemonVars, opened, local, MainSide, Objects,
           DaemonAt, ConsumerAt, Attach, None
<1> USE CarStatusAssumption
<1>1. CASE UnlinkSems
  BY <1>1 DEF UnlinkSems
<1>2. CASE CreateProd
  BY <1>2 DEF CreateProd
<1>3. CASE CreateCons
  BY <1>3 DEF CreateCons
<1>4. CASE GetStatus
  BY <1>4 DEF GetStatus
<1>5. CASE DaemonAttach
  BY <1>5 DEF DaemonAttach
<1>6. CASE WaitCons
  BY <1>6 DEF WaitCons
<1>7. CASE PutStatus
  <2>1. Writing(daemonRun)
    BY <1>7 DEF PutStatus, Writing
  <2>2. daemonRun \notin mixed => ~Reading(daemonRun)
    BY <2>1 DEF GenerationInv, TurnInv, OneTurn, Turns
  <2>3. SameDaemon /\ daemonRun \notin mixed => consumer \notin {"engine", "distance"}
    BY <2>2 DEF Reading
  <2> QED BY <1>7, <2>3 DEF PutStatus
<1>8. CASE PostProd
  BY <1>8 DEF PostProd
<1>9. CASE DaemonDies
  BY <1>9 DEF DaemonDies
<1>10. CASE DaemonStarts
  <2>1. ~SameDaemon'
    BY <1>10 DEF DaemonStarts, GenerationInv, ConsMade, Runs
  <2> QED BY <1>10, <2>1 DEF DaemonStarts
<1>11. CASE OpenProd
  BY <1>11 DEF OpenProd
<1>12. CASE OpenCons
  BY <1>12 DEF OpenCons
<1>13. CASE MainDies
  BY <1>13 DEF MainDies
<1>14. CASE SigEngOff
  BY <1>14 DEF SigEngOff
<1>15. CASE ConsumerAttach
  BY <1>15 DEF ConsumerAttach
<1>16. CASE ConsumerLoop
  BY <1>16 DEF ConsumerLoop
<1>17. CASE WaitProd
  BY <1>17 DEF WaitProd
<1>18. CASE LockStatus
  BY <1>18 DEF LockStatus
<1>19. CASE TakeStatus
  <2>0. carstatus \in Fields
    OBVIOUS
  <2>1. UNCHANGED <<block, daemonRun, mixed, main, mainProd, mainCons, mainSeg, shown>>
    BY <1>19 DEF TakeStatus
  <2>2. mainSeg = key /\ key # None /\ block[mainSeg] \in Fields
    BY <1>19 DEF TakeStatus, BlockInv, Segments, Made, Active
  <2>3. SameDaemon /\ daemonRun \notin mixed => Whole(block[mainSeg])
    BY <1>19, <2>2 DEF TakeStatus, BlockInv, Reading
  <2>4. CASE consumer = "speed"
    <3>1. carstatus' = [carstatus EXCEPT !.carSpeed = block[mainSeg].carSpeed]
      BY <1>19, <2>4, Zenon DEF TakeStatus
    <3>2. consumer' = "engine"
      BY <1>19, <2>4, Zenon DEF TakeStatus
    <3>3. carstatus' \in Fields /\ carstatus'.carSpeed = block[mainSeg].carSpeed
      BY ONLY <2>0, <2>2, <3>1 DEF Fields
    <3> QED BY <2>1, <2>3, <2>4, <3>2, <3>3
  <2>5. CASE consumer = "engine"
    <3>1. carstatus' = [carstatus EXCEPT !.engineSpeed = block[mainSeg].engineSpeed]
      BY <1>19, <2>5, Zenon DEF TakeStatus
    <3>2. consumer' = "distance"
      BY <1>19, <2>5, Zenon DEF TakeStatus
    <3>3. carstatus' \in Fields /\ carstatus'.engineSpeed = block[mainSeg].engineSpeed
      BY ONLY <2>0, <2>2, <3>1 DEF Fields
    <3>4. carstatus'.carSpeed = carstatus.carSpeed
      BY ONLY <2>0, <2>2, <3>1 DEF Fields
    <3> QED BY <2>1, <2>3, <2>5, <3>2, <3>3, <3>4
  <2>6. CASE consumer = "distance"
    <3>1. carstatus' = [carstatus EXCEPT !.distance = block[mainSeg].distance]
      BY <1>19, <2>6, Zenon DEF TakeStatus
    <3>2. consumer' = "unlock"
      BY <1>19, <2>6, Zenon DEF TakeStatus
    <3>3. carstatus' \in Fields /\ carstatus'.distance = block[mainSeg].distance
      BY ONLY <2>0, <2>2, <3>1 DEF Fields
    <3>4. carstatus'.carSpeed = carstatus.carSpeed
      BY ONLY <2>0, <2>2, <3>1 DEF Fields
    <3>5. carstatus'.engineSpeed = carstatus.engineSpeed
      BY ONLY <2>0, <2>2, <3>1 DEF Fields
    <3> QED BY <2>1, <2>3, <2>6, <3>2, <3>3, <3>4, <3>5
  <2> QED BY <1>19, <2>4, <2>5, <2>6 DEF TakeStatus
<1>20. CASE UnlockStatus
  BY <1>20 DEF UnlockStatus
<1>21. CASE PostCons
  BY <1>21 DEF PostCons
<1>22. CASE DestroyBlock
  BY <1>22 DEF DestroyBlock
<1>23. CASE EngineOn \/ AcqnNext
  <2>1. CASE ShowStatus
    <3>1. consumer \notin {"engine", "distance"}
      BY <2>1 DEF ShowStatus, MutexCarstatusFree
    <3> QED BY <2>1, <3>1 DEF ShowStatus
  <2>2. CASE EngineOn \/ AcqnLoop
    BY <2>2 DEF EngineOn, AcqnLoop
  <2> QED BY <1>23, <2>1, <2>2 DEF AcqnNext
<1>24. CASE UNCHANGED vars
  BY <1>24 DEF vars
<1> QED BY <1>1, <1>2, <1>3, <1>4, <1>5, <1>6, <1>7, <1>8, <1>9, <1>10,
           <1>11, <1>12, <1>13, <1>14, <1>15, <1>16, <1>17,
           <1>18, <1>19, <1>20, <1>21, <1>22, <1>23, <1>24
        DEF Next, DaemonNext, ConsumerNext

(* LinkInv is inductive, so it always holds.                               *)
THEOREM LinkInvariant == Spec => []LinkInv
<1>1. LinkInv /\ [Next]_vars => LinkInv'
  BY GenerationNext, TurnNext, SegmentNext, BlockNext, CopyNext DEF LinkInv
<1> QED BY <1>1, LinkInit, PTL DEF Spec

(* Never a second turn on a generation that main did not mix.              *)
THEOREM AtMostOneTurn == Spec => []OneTurn
<1>1. LinkInv => OneTurn
  BY DEF LinkInv, TurnInv
<1> QED BY <1>1, LinkInvariant, PTL

(* Deaths at any point tear nothing as long as main has the semaphores of  *)
(* the daemon that runs and none of them was mixed: a torn status in       *)
(* main's copy or on a frame needs a daemon started since main opened its  *)
(* semaphores, or a main that opened those of two daemons.                 *)
THEOREM WholeUnderOneDaemon == Spec => []NoTornStatus
<1>1. LinkInv => NoTornStatus
  BY DEF LinkInv, CopyInv, NoTornStatus, MutexCarstatusFree
<1> QED BY <1>1, LinkInvariant, PTL

(* tAcqnMergeFrame moves no turn.                                          *)
LEMMA AcqnStep ==
  ASSUME EngineOn \/ AcqnNext
  PROVE  UNCHANGED <<prod, cons, daemonRun, daemon, main, mainProd, mainCons,
                     consumer>>
BY DEF EngineOn, AcqnNext, AcqnLoop, ShowStatus, Objects, opened, daemonVars

(* A step after which a generation has a turn less is a death of whoever   *)
(* had it, or main posting the sem_cons of another generation.             *)
LEMMA TurnLost ==
  ASSUME LinkInv, [Next]_vars, NEW g \in Runs, Turns(g)' < Turns(g)
  PROVE  \/ Writing(g) /\ daemon' = "down"
         \/ Reading(g) /\ (main' = "off" \/ mainCons # g)
<1> USE CarStatusAssumption DEF Turns, Writing, Reading, Runs,
  names, memory, daemonVars, opened, local, MainSide, Objects,
  DaemonAt, ConsumerAt, Attach, None
<1>0. /\ prod \in [Runs -> Nat] /\ cons \in [Runs -> Nat]
      /\ \A h \in Runs : ~ConsMade(h) => prod[h] = 0 /\ cons[h] = 0
      /\ daemonRun \in Runs /\ daemon \in DaemonPC
      /\ main = "running" => mainProd \in Runs /\ mainCons \in Runs
  BY DEF LinkInv, TurnInv, GenerationInv, ConsMade
<1>a. daemon \in {"createProd", "createCons"} => prod[daemonRun] = 0 /\ cons[daemonRun] = 0
  BY <1>0 DEF ConsMade, BeforeCons
<1>1. CASE UnlinkSems
  BY <1>0, <1>1 DEF UnlinkSems
<1>2. CASE CreateProd
  BY <1>0, <1>a, <1>2 DEF CreateProd
<1>3. CASE CreateCons
  BY <1>0, <1>a, <1>3 DEF CreateCons
<1>4. CASE GetStatus
  BY <1>0, <1>4 DEF GetStatus
<1>5. CASE DaemonAttach
  BY <1>0, <1>5 DEF DaemonAttach
<1>6. CASE WaitCons
  BY <1>0, <1>6 DEF WaitCons
<1>7. CASE PutStatus
  BY <1>0, <1>7 DEF PutStatus
<1>8. CASE PostProd
  BY <1>0, <1>8 DEF PostProd
<1>9. CASE DaemonDies
  BY <1>0, <1>9 DEF DaemonDies
<1>10. CASE DaemonStarts
  BY <1>0, <1>10 DEF DaemonStarts
<1>11. CASE OpenProd
  BY <1>0, <1>11 DEF OpenProd
<1>12. CASE OpenCons
  BY <1>0, <1>12 DEF OpenCons
<1>13. CASE MainDies
  BY <1>0, <1>13 DEF MainDies
<1>14. CASE SigEngOff
  BY <1>0, <1>14 DEF SigEngOff
<1>15. CASE ConsumerAttach
  BY <1>0, <1>15 DEF ConsumerAttach
<1>16. CASE ConsumerLoop
  BY <1>0, <1>16 DEF ConsumerLoop
<1>17. CASE WaitProd
  BY <1>0, <1>17 DEF WaitProd
<1>18. CASE LockStatus
  BY <1>0, <1>18 DEF LockStatus
<1>19. CASE TakeStatus
  BY <1>0, <1>19 DEF TakeStatus
<1>20. CASE UnlockStatus
  BY <1>0, <1>20 DEF UnlockStatus
<1>21. CASE PostCons
  BY <1>0, <1>21 DEF PostCons
<1>22. CASE DestroyBlock
  BY <1>0, <1>22 DEF DestroyBlock
<1>23. CASE EngineOn \/ AcqnNext
  BY <1>0, <1>23, AcqnStep
<1>24. CASE UNCHANGED vars
  BY <1>0, <1>24 DEF vars
<1> QED BY <1>1, <1>2, <1>3, <1>4, <1>5, <1>6, <1>7, <1>8, <1>9, <1>10,
           <1>11, <1>12, <1>13, <1>14, <1>15, <1>16, <1>17,
           <1>18, <1>19, <1>20, <1>21, <1>22, <1>23, <1>24
        DEF Next, DaemonNext, ConsumerNext

(* Turns are lost only with a process, or by a main that mixed.            *)
THEOREM LostOnlyByDeath == Spec => TurnLostOnlyByDeath
<1>1. LinkInv /\ [Next]_vars =>
        [\A g \in Runs : Turns(g)' < Turns(g) =>
           \/ Writing(g) /\ daemon' = "down"
           \/ Reading(g) /\ (main' = "off" \/ mainCons # g)]_vars
  BY TurnLost
<1> QED BY <1>1, LinkInvariant, PTL DEF Spec, TurnLostOnlyByDeath

-----------------------------------------------------------------------------
(***************************************************************************)
(* What main's mixing can do                                               *)
(***************************************************************************)
(* The two names move on together, from one generation to the next, and    *)
(* main opens what they refer to: the generations it uses never go back.   *)
OpenedInv ==
  /\ prodName \in Runs \cup {None} /\ consName \in Runs \cup {None}
  /\ mainProd \in Runs \cup {None} /\ mainCons \in Runs \cup {None}
  /\ mixed \subseteq Runs /\ end \in BOOLEAN /\ acqn \in AcqnPC
  /\ \A g \in mixed : ConsMade(g)
  /\ consName # None => prodName = consName
  /\ daemon = "createCons" => prodName = daemonRun
  /\ prodName # None => \A g \in mixed : g <= prodName
  /\ prodName # None /\ main # "off" => mainProd <= prodName
  /\ main = "opening" => \A g \in mixed : g <= mainProd
  /\ main = "running" => mainProd <= mainCons /\ \A g \in mixed : g <= mainCons

(* Turns go from one generation to a later one only, and from there on     *)
(* only if a main opens the later one first: no more come together than    *)
(* there have been generations.                                            *)
PassedOnInv ==
  /\ \A g \in Runs : Turns(g) <= g
  /\ main = "running" /\ mainProd # mainCons =>
       Turns(mainProd) + Turns(mainCons) <= mainCons

(* A new daemon unlinks both names before it makes either semaphore, and   *)
(* main opens sem_prod before sem_cons.                                    *)
LEMMA OpenedNext ==
  GenerationInv /\ OpenedInv /\ [Next]_vars => OpenedInv'
<1> SUFFICES ASSUME GenerationInv, OpenedInv, [Next]_vars PROVE OpenedInv'
  OBVIOUS
<1> USE DEF OpenedInv, AcqnPC, ConsMade, ProdMade, BeforeProd, BeforeCons, DaemonPC, Runs, names,
           memory, daemonVars, opened, local, MainSide, Objects, DaemonAt,
           ConsumerAt, Attach, None
<1> USE CarStatusAssumption
<1>0. daemonRun \in Runs /\ Runs \subseteq Nat /\ daemon \in DaemonPC
      /\ main \in {"off", "opening", "running"}
  BY DEF GenerationInv
<1>1. CASE UnlinkSems
  BY <1>0, <1>1 DEF UnlinkSems, GenerationInv
<1>2. CASE CreateProd
  BY <1>0, <1>2 DEF CreateProd, GenerationInv
<1>3. CASE CreateCons
  BY <1>0, <1>3 DEF CreateCons, GenerationInv
<1>4. CASE GetStatus \/ DaemonAttach \/ WaitCons \/ PutStatus \/ PostProd
  BY <1>0, <1>4 DEF GetStatus, DaemonAttach, WaitCons, PutStatus, PostProd
<1>5. CASE DaemonDies
  BY <1>0, <1>5 DEF DaemonDies
<1>6. CASE DaemonStarts
  BY <1>0, <1>6 DEF DaemonStarts
<1>7. CASE OpenProd
  BY <1>0, <1>7 DEF OpenProd, GenerationInv
<1>8. CASE OpenCons
  <2>1. CASE consName = None
    BY <1>0, <1>8, <2>1 DEF OpenCons
  <2>2. CASE consName # None
    <3>1. /\ main' = "running" /\ mainProd' = mainProd /\ mainCons' = consName
          /\ mixed' \subseteq mixed \cup {consName} /\ end' \in BOOLEAN
          /\ acqn' \in AcqnPC /\ UNCHANGED <<names, daemonVars>>
      BY <1>8, <2>2 DEF OpenCons
    <3>2. ConsMade(consName) /\ consName \in Runs /\ mainProd \in Runs
      BY <2>2, <1>8 DEF GenerationInv, OpenCons
    <3>3. mainProd <= consName /\ \A g \in mixed : g <= consName
      BY <1>8, <2>2 DEF OpenCons
    <3> QED BY <2>2, <3>1, <3>2, <3>3, <1>0
  <2> QED BY <2>1, <2>2
<1>9. CASE MainDies
  BY <1>0, <1>9 DEF MainDies
<1>10. CASE SigEngOff \/ EngineOn \/ AcqnNext
  BY <1>0, <1>10 DEF SigEngOff, EngineOn, AcqnNext, AcqnLoop, ShowStatus
<1>11. CASE ConsumerNext
  BY <1>0, <1>11 DEF ConsumerNext, ConsumerAttach, ConsumerLoop, WaitProd,
     LockStatus, TakeStatus, UnlockStatus, PostCons, DestroyBlock
<1>12. CASE UNCHANGED vars
  BY <1>12 DEF vars
<1> QED BY <1>1, <1>2, <1>3, <1>4, <1>5, <1>6, <1>7, <1>8, <1>9, <1>10, <1>11,
           <1>12
        DEF Next, DaemonNext

(* A turn is made with the semaphores of a new daemon; otherwise it comes  *)
(* from the sem_prod of an earlier daemon, through a main that mixed.      *)
LEMMA TurnGained ==
  ASSUME LinkInv, [Next]_vars, NEW g \in Runs, Turns(g)' > Turns(g)
  PROVE  \/ daemon = "createCons" /\ g = daemonRun /\ Turns(g)' = 1
         \/ /\ main = "running" /\ mainProd # mainCons /\ g = mainCons
            /\ Turns(g)' = Turns(g) + 1
            /\ \A p \in Runs : p = mainProd => Turns(p)' = Turns(p) - 1
<1> USE CarStatusAssumption DEF Turns, Writing, Reading, Runs,
  names, memory, daemonVars, opened, local, MainSide, Objects,
  DaemonAt, ConsumerAt, Attach, None
<1>0. /\ prod \in [Runs -> Nat] /\ cons \in [Runs -> Nat]
      /\ \A h \in Runs : ~ConsMade(h) => prod[h] = 0 /\ cons[h] = 0
      /\ daemonRun \in Runs /\ daemon \in DaemonPC
      /\ main = "running" => mainProd \in Runs /\ mainCons \in Runs
  BY DEF LinkInv, TurnInv, GenerationInv, ConsMade
<1>a. daemon \in {"createProd", "createCons"} =>
        prod[daemonRun] = 0 /\ cons[daemonRun] = 0 /\ ~Reading(daemonRun)
  BY <1>0 DEF ConsMade, BeforeCons, LinkInv, GenerationInv
<1>1. CASE UnlinkSems
  BY <1>0, <1>1 DEF UnlinkSems
<1>2. CASE CreateProd
  BY <1>0, <1>a, <1>2 DEF CreateProd
<1>3. CASE CreateCons
  BY <1>0, <1>a, <1>3 DEF CreateCons
<1>4. CASE GetStatus
  BY <1>0, <1>4 DEF GetStatus
<1>5. CASE DaemonAttach
  BY <1>0, <1>5 DEF DaemonAttach
<1>6. CASE WaitCons
  <2>1. /\ UNCHANGED prod /\ UNCHANGED Reading(g)
        /\ cons'[g] = IF g = daemonRun THEN cons[g] - 1 ELSE cons[g]
        /\ ~Writing(g) /\ (Writing(g)' => g = daemonRun)
    BY <1>0, <1>6 DEF WaitCons
  <2> QED BY ONLY <2>1, Turns(g)' > Turns(g), <1>0 DEF Turns
<1>7. CASE PutStatus
  BY <1>0, <1>7 DEF PutStatus
<1>8. CASE PostProd
  BY <1>0, <1>8 DEF PostProd
<1>9. CASE DaemonDies
  BY <1>0, <1>9 DEF DaemonDies
<1>10. CASE DaemonStarts
  BY <1>0, <1>10 DEF DaemonStarts
<1>11. CASE OpenProd
  BY <1>0, <1>11 DEF OpenProd
<1>12. CASE OpenCons
  BY <1>0, <1>12 DEF OpenCons
<1>13. CASE MainDies
  BY <1>0, <1>13 DEF MainDies
<1>14. CASE SigEngOff
  BY <1>0, <1>14 DEF SigEngOff
<1>15. CASE ConsumerAttach
  <2>1. UNCHANGED <<prod, cons>> /\ UNCHANGED Writing(g) /\ UNCHANGED Reading(g)
    BY <1>15 DEF ConsumerAttach
  <2> QED BY ONLY <2>1, Turns(g)' > Turns(g), <1>0 DEF Turns
<1>16. CASE ConsumerLoop
  BY <1>0, <1>16 DEF ConsumerLoop
<1>17. CASE WaitProd
  <2>1. /\ UNCHANGED cons /\ UNCHANGED Writing(g)
        /\ prod'[g] = IF g = mainProd THEN prod[g] - 1 ELSE prod[g]
        /\ ~Reading(g) /\ (Reading(g)' => g = mainProd)
    BY <1>0, <1>17 DEF WaitProd
  <2> QED BY ONLY <2>1, Turns(g)' > Turns(g), <1>0 DEF Turns
<1>18. CASE LockStatus
  <2>1. UNCHANGED <<prod, cons>> /\ UNCHANGED Writing(g) /\ UNCHANGED Reading(g)
    BY <1>18 DEF LockStatus
  <2> QED BY ONLY <2>1, Turns(g)' > Turns(g), <1>0 DEF Turns
<1>19. CASE TakeStatus
  BY <1>0, <1>19 DEF TakeStatus
<1>20. CASE UnlockStatus
  <2>1. UNCHANGED <<prod, cons>> /\ UNCHANGED Writing(g) /\ UNCHANGED Reading(g)
    BY <1>20 DEF UnlockStatus
  <2> QED BY ONLY <2>1, Turns(g)' > Turns(g), <1>0 DEF Turns
<1>21. CASE PostCons
  <2>1. /\ UNCHANGED prod /\ \A h \in Runs : UNCHANGED Writing(h)
        /\ \A h \in Runs : cons'[h] = IF h = mainCons THEN cons[h] + 1 ELSE cons[h]
        /\ \A h \in Runs : ~Reading(h)' /\ (Reading(h) <=> h = mainProd)
        /\ main = "running" /\ mainProd \in Runs /\ mainCons \in Runs
    BY <1>0, <1>21 DEF PostCons
  <2> HIDE DEF Writing, Reading
  <2>2. \A h \in Runs :
          Turns(h)' = Turns(h) + (IF h = mainCons THEN 1 ELSE 0)
                              - (IF h = mainProd THEN 1 ELSE 0)
    <3> SUFFICES ASSUME NEW h \in Runs
                 PROVE  Turns(h)' = Turns(h) + (IF h = mainCons THEN 1 ELSE 0)
                                             - (IF h = mainProd THEN 1 ELSE 0)
      OBVIOUS
    <3>1. /\ prod'[h] = prod[h] /\ prod[h] \in Nat /\ cons[h] \in Nat
          /\ cons'[h] = IF h = mainCons THEN cons[h] + 1 ELSE cons[h]
          /\ ~Reading(h)' /\ (Reading(h) <=> h = mainProd)
          /\ Writing(h)' <=> Writing(h)
      BY <1>0, <2>1
    <3> QED BY ONLY <3>1 DEF Turns
  <2>3. Turns(g) \in Nat /\ Turns(mainProd) \in Nat
    BY <1>0, <2>1
  <2>4. g = mainCons /\ mainProd # mainCons
    BY ONLY <2>2, <2>3, Turns(g)' > Turns(g)
  <2> QED BY ONLY <2>1, <2>2, <2>3, <2>4
<1>22. CASE DestroyBlock
  BY <1>0, <1>22 DEF DestroyBlock
<1>23. CASE EngineOn \/ AcqnNext
  BY <1>0, <1>23, AcqnStep
<1>24. CASE UNCHANGED vars
  BY <1>0, <1>24 DEF vars
<1> QED BY <1>1, <1>2, <1>3, <1>4, <1>5, <1>6, <1>7, <1>8, <1>9, <1>10,
           <1>11, <1>12, <1>13, <1>14, <1>15, <1>16, <1>17,
           <1>18, <1>19, <1>20, <1>21, <1>22, <1>23, <1>24
        DEF Next, DaemonNext, ConsumerNext

(* What a main that mixes brings together is at most what the generations  *)
(* up to the later one began with.                                         *)
LEMMA PassedOnNext ==
  LinkInv /\ LinkInv' /\ OpenedInv /\ PassedOnInv /\ [Next]_vars => PassedOnInv'
<1> SUFFICES ASSUME LinkInv, LinkInv', OpenedInv, PassedOnInv, [Next]_vars
             PROVE  PassedOnInv'
  OBVIOUS
<1>0. Runs \subseteq Nat \ {0} /\ daemonRun \in Runs
  BY CarStatusAssumption DEF LinkInv, GenerationInv, Runs
<1>a. \A g \in Runs : Turns(g) \in Nat
  BY <1>0 DEF LinkInv, TurnInv, Turns
<1>b. \A g \in Runs : Turns(g)' \in Nat
  BY <1>0 DEF LinkInv, TurnInv, Turns
<1>c. main = "running" => mainProd \in Runs /\ mainCons \in Runs
  BY DEF LinkInv, GenerationInv, ConsMade
<1>1. ASSUME NEW g \in Runs PROVE Turns(g)' <= g
  <2>0. Turns(g) <= g /\ g \in Nat \ {0} /\ Turns(g) \in Nat /\ Turns(g)' \in Nat
    BY <1>0, <1>a, <1>b DEF PassedOnInv
  <2>1. CASE ~(Turns(g)' > Turns(g))
    BY <2>0, <2>1
  <2>2. CASE Turns(g)' = 1
    BY <2>0, <2>2
  <2>3. CASE main = "running" /\ mainProd # mainCons /\ g = mainCons
             /\ Turns(g)' = Turns(g) + 1
             /\ \A p \in Runs : p = mainProd => Turns(p)' = Turns(p) - 1
    <3> DEFINE p == mainProd
    <3>1. Turns(p) + Turns(g) <= g
      BY <2>3 DEF PassedOnInv
    <3>2. PICK q \in Runs : q = mainProd
      BY <1>c, <2>3
    <3>3. Turns(q) \in Nat /\ Turns(q)' \in Nat /\ Turns(q)' = Turns(q) - 1
      BY <1>a, <1>b, <2>3, <3>2
    <3>4. Turns(q) + Turns(g) <= g
      BY <3>1, <3>2
    <3> QED BY ONLY <2>0, <2>3, <3>3, <3>4
  <2> QED BY <2>1, <2>2, <2>3, TurnGained
<1>2. ASSUME NEW p \in Runs, NEW c \in Runs, main' = "running", p = mainProd',
             c = mainCons', p # c
      PROVE  Turns(p)' + Turns(c)' <= c
  <2>0. /\ p \in Nat /\ c \in Nat /\ Turns(p) \in Nat /\ Turns(c) \in Nat
        /\ Turns(p)' \in Nat /\ Turns(c)' \in Nat
    BY <1>0, <1>a, <1>b
  <2>1. CASE OpenCons
    <3>1. main = "opening" /\ p = mainProd /\ c = consName /\ c # None
      BY <1>0, <1>2, <2>1 DEF OpenCons, None
    <3>2. p <= c /\ \A g \in mixed : g <= p
      BY <3>1 DEF OpenedInv
    <3>3. p < c /\ c \notin mixed
      BY <1>2, <2>0, <3>2
    <3>4. Turns(c) <= 1 /\ Turns(p) <= p
      BY <3>3 DEF LinkInv, TurnInv, OneTurn, PassedOnInv
    <3>5. ~(Turns(p)' > Turns(p)) /\ ~(Turns(c)' > Turns(c))
      <4>1. daemon = "createCons" => p # daemonRun /\ c # daemonRun
        BY <3>1 DEF LinkInv, GenerationInv
      <4> QED BY <3>1, <4>1, TurnGained
    <3> QED BY ONLY <2>0, <3>3, <3>4, <3>5
  <2>2. CASE ~OpenCons
    <3>1. main = "running" /\ mainProd = p /\ mainCons = c
      BY <1>2, <2>2
      DEF Next, DaemonNext, ConsumerNext, vars, names, memory, daemonVars,
          opened, local, MainSide, Objects, DaemonAt, ConsumerAt, UnlinkSems,
          CreateProd, CreateCons, GetStatus, DaemonAttach, WaitCons, PutStatus,
          PostProd, DaemonDies, DaemonStarts, OpenProd, MainDies, SigEngOff,
          ConsumerAttach, ConsumerLoop, WaitProd, LockStatus, TakeStatus,
          UnlockStatus, PostCons, DestroyBlock,
          EngineOn, AcqnNext, AcqnLoop, ShowStatus
    <3>2. Turns(p) + Turns(c) <= c
      BY <1>2, <3>1 DEF PassedOnInv
    <3>3. daemon = "createCons" => p # daemonRun /\ c # daemonRun
      BY <1>0, <3>1 DEF LinkInv, GenerationInv, ConsMade, BeforeCons, Runs
    <3>4. \/ ~(Turns(c)' > Turns(c))
          \/ Turns(c)' = Turns(c) + 1 /\ Turns(p)' = Turns(p) - 1
      BY <3>1, <3>3, TurnGained
    <3>5. ~(Turns(p)' > Turns(p))
      BY <1>2, <3>1, <3>3, TurnGained
    <3> QED BY ONLY <2>0, <3>2, <3>4, <3>5
  <2> QED BY <2>1, <2>2
<1>3. main' = "running" => mainProd' \in Runs /\ mainCons' \in Runs
  BY DEF LinkInv, GenerationInv, ConsMade
<1>4. (main = "running" /\ mainProd # mainCons =>
         Turns(mainProd) + Turns(mainCons) <= mainCons)'
  <2> SUFFICES ASSUME main' = "running", mainProd' # mainCons'
               PROVE  (Turns(mainProd) + Turns(mainCons) <= mainCons)'
    OBVIOUS
  <2>1. PICK p \in Runs, c \in Runs : p = mainProd' /\ c = mainCons'
    BY <1>3
  <2>2. Turns(p)' + Turns(c)' <= c
    BY <1>2, <2>1
  <2> QED BY <2>1, <2>2 DEF Turns, Writing, Reading
<1> QED BY <1>1, <1>4 DEF PassedOnInv

(* No semaphore is made yet.                                               *)
LEMMA PassedOnInit == Init => OpenedInv /\ PassedOnInv
<1> SUFFICES ASSUME Init PROVE OpenedInv /\ PassedOnInv
  OBVIOUS
<1>1. end \in BOOLEAN
  BY Zenon DEF Init
<1> QED BY <1>1, CarStatusAssumption
        DEF Init, OpenedInv, AcqnPC, PassedOnInv, Turns, Writing, Reading, None, Runs

(* However many daemons and runs of main follow each other, no more turns  *)
(* come together on a generation than there have been generations.         *)
THEOREM PassedOn == Spec => [](OpenedInv /\ PassedOnInv)
<1>1. LinkInv /\ LinkInv' /\ OpenedInv /\ PassedOnInv /\ [Next]_vars
        => (OpenedInv /\ PassedOnInv)'
  BY OpenedNext, PassedOnNext DEF LinkInv
<1> QED BY <1>1, PassedOnInit, LinkInvariant, PTL DEF Spec

(* Every variable of the link keeps its type, and no semaphore is ever     *)
(* above the number of its generation.                                     *)
THEOREM LinkTypes == Spec => []TypeOK
<1>1. LinkInv /\ OpenedInv /\ PassedOnInv => TypeOK
  <2> SUFFICES ASSUME LinkInv, OpenedInv, PassedOnInv PROVE TypeOK
    OBVIOUS
  <2>1. /\ prod \in [Runs -> Nat] /\ cons \in [Runs -> Nat]
        /\ \A g \in Runs : prod[g] <= g /\ cons[g] <= g
    BY DEF LinkInv, TurnInv, PassedOnInv, Turns, Runs
  <2>2. /\ key \in Segments \cup {None} /\ segments \in 0..MaxMainRuns + 1
        /\ mainRun \in 0..MaxMainRuns
        /\ daemonSeg \in Segments \cup {None} /\ mainSeg \in Segments \cup {None}
    BY CarStatusAssumption DEF LinkInv, SegmentInv, Segments, Made, None
  <2>3. /\ daemonRun \in Runs /\ daemon \in DaemonPC
        /\ main \in {"off", "opening", "running"} /\ consumer \in ConsumerPC
    BY DEF LinkInv, GenerationInv
  <2>4. /\ block \in [Segments -> Fields] /\ sample \in Samples
        /\ carstatus \in Fields /\ shown \in Fields
    BY DEF LinkInv, BlockInv, CopyInv
  <2>5. /\ prodName \in Runs \cup {None} /\ consName \in Runs \cup {None}
        /\ mainProd \in Runs \cup {None} /\ mainCons \in Runs \cup {None}
        /\ mixed \in SUBSET Runs /\ end \in BOOLEAN
    BY DEF OpenedInv
  <2>6. acqn \in AcqnPC
    BY DEF OpenedInv
  <2> QED BY <2>1, <2>2, <2>3, <2>4, <2>5, <2>6 DEF TypeOK
<1> QED BY <1>1, LinkInvariant, PassedOn, PTL

-----------------------------------------------------------------------------
(* The fields of a status, as their names.                                 *)
Field == {"carSpeed", "engineSpeed", "distance"}

(* Along the way of a status, from the daemon to the block main reads, to  *)
(* main's copy, to what is printed, each field is never ahead.             *)
AgeInv ==
  /\ \A s \in Segments, f \in Field : block[s][f] <= sample
  /\ mainSeg # None => \A f \in Field : carstatus[f] <= block[mainSeg][f]
  /\ main = "running" /\ consumer = "attach" => carstatus = Status(0)
  /\ \A f \in Field : shown[f] <= carstatus[f]

(* Within a run of main, what getCarStatus copies and setCarStatus prints  *)
(* never goes back to an earlier sample, in no field, whatever happens to  *)
(* the daemon or to the block meanwhile.                                   *)
NoOlderStatus ==
  [][main = "running" /\ main' = "running" =>
       \A f \in Field :
         carstatus'[f] >= carstatus[f] /\ shown'[f] >= shown[f]]_vars

(* The types of what AgeInv compares.                                      *)
LEMMA FieldTypes ==
  ASSUME LinkInv
  PROVE  /\ sample \in Nat
         /\ \A s \in Segments, f \in Field : block[s][f] \in Nat
         /\ \A f \in Field : carstatus[f] \in Nat /\ shown[f] \in Nat
         /\ mainSeg # None => mainSeg \in Segments
         /\ daemon \in {"speed", "engine", "distance", "post"} =>
              daemonSeg \in Segments
         /\ AttachedSeg \in Segments
BY CarStatusAssumption
DEF LinkInv, BlockInv, CopyInv, SegmentInv, GenerationInv, Fields, Field,
    Samples, Segments, Made, Active, AttachedSeg, None

(* The daemon writes its newest sample, main copies a field of the block,  *)
(* and what is printed is the copy.                                        *)
LEMMA AgeNext ==
  LinkInv /\ LinkInv' /\ AgeInv /\ [Next]_vars =>
    /\ AgeInv'
    /\ main = "running" /\ main' = "running" =>
         \A f \in Field : carstatus'[f] >= carstatus[f] /\ shown'[f] >= shown[f]
<1> SUFFICES ASSUME LinkInv, LinkInv', AgeInv, [Next]_vars
             PROVE  /\ AgeInv'
                    /\ main = "running" /\ main' = "running" =>
                         \A f \in Field :
                           carstatus'[f] >= carstatus[f] /\ shown'[f] >= shown[f]
  OBVIOUS
<1> USE DEF AgeInv, names, memory, daemonVars, opened, local, MainSide, Objects,
           DaemonAt, ConsumerAt, Attach
<1>0. /\ sample \in Nat
      /\ \A s \in Segments, f \in Field : block[s][f] \in Nat
      /\ \A f \in Field : carstatus[f] \in Nat /\ shown[f] \in Nat
      /\ mainSeg # None => mainSeg \in Segments
  BY FieldTypes
<1>1. CASE GetStatus
  BY <1>0, <1>1 DEF GetStatus
<1>2. CASE PutStatus
  <2>1. /\ daemonSeg \in Segments /\ block \in [Segments -> Fields]
        /\ UNCHANGED <<sample, main, mainSeg, consumer, carstatus, shown>>
    BY <1>2, FieldTypes DEF PutStatus, LinkInv, BlockInv
  <2>2. \E f \in Field :
          \A s \in Segments, h \in Field :
            block'[s][h] = IF s = daemonSeg /\ h = f THEN sample ELSE block[s][h]
    <3>1. CASE block' = [block EXCEPT ![daemonSeg].carSpeed = sample]
      BY ONLY <2>1, <3>1 DEF Fields, Field
    <3>2. CASE block' = [block EXCEPT ![daemonSeg].engineSpeed = sample]
      BY ONLY <2>1, <3>2 DEF Fields, Field
    <3>3. CASE block' = [block EXCEPT ![daemonSeg].distance = sample]
      BY ONLY <2>1, <3>3 DEF Fields, Field
    <3> QED BY <1>2, <3>1, <3>2, <3>3 DEF PutStatus
  <2>3. \A s \in Segments, f \in Field :
          block'[s][f] <= sample /\ block'[s][f] >= block[s][f]
    BY <1>0, <2>2
  <2>4. \A f \in Field : \A s \in Segments :
          s = mainSeg => carstatus[f] <= block'[s][f]
    <3> SUFFICES ASSUME NEW f \in Field, NEW s \in Segments, s = mainSeg
                 PROVE  carstatus[f] <= block'[s][f]
      OBVIOUS
    <3>1. /\ carstatus[f] \in Nat /\ block[s][f] \in Nat /\ block'[s][f] \in Nat
          /\ block'[s][f] >= block[s][f] /\ carstatus[f] <= block[s][f]
      BY <1>0, <2>2, <2>3 DEF Segments, None
    <3> QED BY ONLY <3>1
  <2> QED BY <1>0, <2>1, <2>3, <2>4
<1>3. CASE TakeStatus
  <2>1. /\ mainSeg # None /\ carstatus \in Fields
        /\ main = "running" /\ consumer' # "attach"
        /\ UNCHANGED <<sample, block, main, mainSeg, shown>>
    BY <1>3 DEF TakeStatus, LinkInv, SegmentInv, CopyInv
  <2>2. \E f \in Field : \A h \in Field :
          carstatus'[h] = IF h = f THEN block[mainSeg][h] ELSE carstatus[h]
    <3>1. CASE carstatus' = [carstatus EXCEPT !.carSpeed = block[mainSeg].carSpeed]
      BY ONLY <2>1, <3>1 DEF Fields, Field
    <3>2. CASE carstatus' = [carstatus EXCEPT !.engineSpeed = block[mainSeg].engineSpeed]
      BY ONLY <2>1, <3>2 DEF Fields, Field
    <3>3. CASE carstatus' = [carstatus EXCEPT !.distance = block[mainSeg].distance]
      BY ONLY <2>1, <3>3 DEF Fields, Field
    <3> QED BY <1>3, <3>1, <3>2, <3>3 DEF TakeStatus
  <2>3. \A h \in Field :
          carstatus'[h] >= carstatus[h] /\ carstatus'[h] <= block[mainSeg][h]
    BY <1>0, <2>1, <2>2
  <2>4. \A h \in Field : shown[h] <= carstatus'[h]
    <3> SUFFICES ASSUME NEW h \in Field PROVE shown[h] <= carstatus'[h]
      OBVIOUS
    <3>1. /\ carstatus[h] \in Nat /\ shown[h] \in Nat /\ carstatus'[h] \in Nat
          /\ shown[h] <= carstatus[h]
      BY <1>0, <2>1, <2>2
    <3> QED BY ONLY <3>1, <2>3
  <2> QED BY <1>0, <2>1, <2>3, <2>4
<1>4. CASE ConsumerAttach
  <2>1. /\ mainSeg' \in Segments /\ carstatus = Status(0)
        /\ consumer' = "check"
        /\ UNCHANGED <<sample, block, carstatus, shown>>
    BY <1>4, FieldTypes DEF ConsumerAttach
  <2>2. \A f \in Field : carstatus[f] = 0
    BY <2>1 DEF Status, Field
  <2> QED BY <1>0, <2>1, <2>2
<1>5. CASE OpenCons
  <2>1. \A f \in Field : Status(0)[f] = 0
    BY DEF Status, Field
  <2>2. mainSeg = None
    BY <1>5 DEF OpenCons, LinkInv, SegmentInv
  <2> QED BY <1>0, <1>5, <2>1, <2>2 DEF OpenCons
<1>6. CASE EngineOn \/ AcqnNext
  BY <1>0, <1>6 DEF EngineOn, AcqnNext, AcqnLoop, ShowStatus
<1>7. CASE MainDies \/ DestroyBlock
  BY <1>0, <1>7 DEF MainDies, DestroyBlock
<1>8. CASE \/ UnlinkSems \/ CreateProd \/ CreateCons \/ DaemonAttach
           \/ WaitCons \/ PostProd \/ DaemonDies \/ DaemonStarts
  BY <1>0, <1>8
  DEF UnlinkSems, CreateProd, CreateCons, DaemonAttach, WaitCons, PostProd,
      DaemonDies, DaemonStarts
<1>9. CASE OpenProd \/ SigEngOff
  BY <1>0, <1>9 DEF OpenProd, SigEngOff
<1>10. CASE ConsumerLoop \/ WaitProd \/ LockStatus \/ UnlockStatus \/ PostCons
  BY <1>0, <1>10 DEF ConsumerLoop, WaitProd, LockStatus, UnlockStatus, PostCons
<1>11. CASE UNCHANGED vars
  BY <1>0, <1>11 DEF vars
<1> QED BY <1>1, <1>2, <1>3, <1>4, <1>5, <1>6, <1>7, <1>8, <1>9, <1>10, <1>11
        DEF Next, DaemonNext, ConsumerNext

(* The driver never sees an earlier distance or speed again in one run.    *)
THEOREM NeverOlder == Spec => NoOlderStatus
<1>1. Init => AgeInv
  BY DEF Init, AgeInv, Field, Status, None
<1>2. LinkInv /\ LinkInv' /\ AgeInv /\ [Next]_vars => AgeInv'
  BY AgeNext
<1>3. LinkInv /\ LinkInv' /\ AgeInv /\ [Next]_vars =>
        [main = "running" /\ main' = "running" =>
           \A f \in Field :
             carstatus'[f] >= carstatus[f] /\ shown'[f] >= shown[f]]_vars
  BY AgeNext
<1> QED BY <1>1, <1>2, <1>3, LinkInvariant, PTL DEF Spec, NoOlderStatus
=============================================================================
