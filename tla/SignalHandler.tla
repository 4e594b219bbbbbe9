---------------------------- MODULE SignalHandler ----------------------------
(***************************************************************************)
(* tSignalHandler (main.cpp) as it runs: a signal interrupts a thread,     *)
(* which locks mutex_sighandler, reads controlWord, writes it back changed *)
(* and unlocks.  The handler is installed with an empty sa_mask and        *)
(* without SA_NODEFER, so while a thread handles a signal only that same   *)
(* signal is blocked in it: another one can interrupt the handler itself,  *)
(* and the nested handler then waits for a mutex its own thread may hold.  *)
(*                                                                         *)
(* The button driver sends its signals to the main thread; the others are  *)
(* sent to the process and interrupt any of its threads.  They are all     *)
(* real-time signals: each one sent is queued.                             *)
(***************************************************************************)
EXTENDS ControlWord, Integers, Sequences, FiniteSets

CONSTANTS
  Thread, Main,   \* the threads of the process, and the main one
  Sent            \* bound: how often each signal is sent in one behaviour

None == "none"

ASSUME SignalHandlerAssumption ==
  /\ Main \in Thread /\ IsFiniteSet(Thread)
  /\ None \notin Thread
  /\ Sent \in [Sig -> Nat]

VARIABLES
  controlWord,
  sent,        \* how often each signal has been sent
  pending,     \* how many of them are queued, not delivered yet
  active,      \* the signals each thread is handling, innermost first
  pc,          \* where the handler of a signal is, in each thread
  read,        \* the value of controlWord it has read
  owner,       \* the thread that holds mutex_sighandler, or None
  handled      \* history: how often each signal's update was written

vars == <<controlWord, sent, pending, active, pc, read, owner, handled>>

PC == {"idle", "lock", "load", "store", "unlock"}

(* The handler that thread t is executing is that of signal s.             *)
Runs(t, s) == active[t] # <<>> /\ Head(active[t]) = s

-----------------------------------------------------------------------------
Init ==
  /\ controlWord = InitialWord
  /\ sent = [s \in Sig |-> 0]
  /\ pending = [s \in Sig |-> 0]
  /\ active = [t \in Thread |-> <<>>]
  /\ pc = [t \in Thread |-> [s \in Sig |-> "idle"]]
  /\ read = [t \in Thread |-> [s \in Sig |-> {}]]
  /\ owner = None
  /\ handled = [s \in Sig |-> 0]

Send(s) ==
  /\ sent[s] < Sent[s]
  /\ sent' = [sent EXCEPT ![s] = @ + 1]
  /\ pending' = [pending EXCEPT ![s] = @ + 1]
  /\ UNCHANGED <<controlWord, active, pc, read, owner, handled>>

(* A thread that already handles s has it blocked.                         *)
Deliver(t, s) ==
  /\ pending[s] > 0
  /\ pc[t][s] = "idle"
  /\ s \in ButtonSig => t = Main
  /\ pending' = [pending EXCEPT ![s] = @ - 1]
  /\ active' = [active EXCEPT ![t] = <<s>> \o @]
  /\ pc' = [pc EXCEPT ![t][s] = "lock"]
  /\ UNCHANGED <<controlWord, sent, read, owner, handled>>

(* Mutants of Lock: no mutex at all; a recursive one.                      *)
LockNothing(t, s) ==
  /\ Runs(t, s) /\ pc[t][s] = "lock"
  /\ pc' = [pc EXCEPT ![t][s] = "load"]
  /\ UNCHANGED <<controlWord, sent, pending, active, read, owner, handled>>

LockRecursively(t, s) ==
  /\ Runs(t, s) /\ pc[t][s] = "lock"
  /\ owner \in {None, t}
  /\ owner' = t
  /\ pc' = [pc EXCEPT ![t][s] = "load"]
  /\ UNCHANGED <<controlWord, sent, pending, active, read, handled>>

Lock(t, s) ==
  /\ Runs(t, s) /\ pc[t][s] = "lock"
  /\ owner = None
  /\ owner' = t
  /\ pc' = [pc EXCEPT ![t][s] = "load"]
  /\ UNCHANGED <<controlWord, sent, pending, active, read, handled>>

Load(t, s) ==
  /\ Runs(t, s) /\ pc[t][s] = "load"
  /\ read' = [read EXCEPT ![t][s] = controlWord]
  /\ pc' = [pc EXCEPT ![t][s] = "store"]
  /\ UNCHANGED <<controlWord, sent, pending, active, owner, handled>>

Store(t, s) ==
  /\ Runs(t, s) /\ pc[t][s] = "store"
  /\ controlWord' = Update(read[t][s], s)
  /\ handled' = [handled EXCEPT ![s] = @ + 1]
  /\ read' = [read EXCEPT ![t][s] = {}]
  /\ pc' = [pc EXCEPT ![t][s] = "unlock"]
  /\ UNCHANGED <<sent, pending, active, owner>>

(* Mutant of Unlock: a return that skips the unlock.                       *)
ReturnLocked(t, s) ==
  /\ Runs(t, s) /\ pc[t][s] = "unlock"
  /\ active' = [active EXCEPT ![t] = Tail(@)]
  /\ pc' = [pc EXCEPT ![t][s] = "idle"]
  /\ UNCHANGED <<controlWord, sent, pending, read, owner, handled>>

(* Unlock and return to what the signal interrupted.                       *)
Unlock(t, s) ==
  /\ Runs(t, s) /\ pc[t][s] = "unlock"
  /\ owner' = None
  /\ active' = [active EXCEPT ![t] = Tail(@)]
  /\ pc' = [pc EXCEPT ![t][s] = "idle"]
  /\ UNCHANGED <<controlWord, sent, pending, read, handled>>

Handler(t) ==
  \E s \in Sig : Lock(t, s) \/ Load(t, s) \/ Store(t, s) \/ Unlock(t, s)

Next ==
  \/ \E s \in Sig : Send(s)
  \/ \E t \in Thread, s \in Sig : Deliver(t, s)
  \/ \E t \in Thread : Handler(t)

Spec == Init /\ [][Next]_vars

(* The threads run under SCHED_OTHER, so a handler that can take a step    *)
(* eventually does, and a pending signal that some thread does not block   *)
(* is eventually delivered.  The mutex need not be fair to its waiters:    *)
(* finitely many signals are sent.                                         *)
Fairness ==
  /\ \A s \in Sig : WF_vars(\E t \in Thread : Deliver(t, s))
  /\ \A t \in Thread : WF_vars(Handler(t))

FairSpec == Spec /\ Fairness

-----------------------------------------------------------------------------
TypeOK ==
  /\ controlWord \subseteq Flag
  /\ sent \in [Sig -> Nat] /\ pending \in [Sig -> Nat]
  /\ active \in [Thread -> Seq(Sig)]
  /\ pc \in [Thread -> [Sig -> PC]]
  /\ read \in [Thread -> [Sig -> SUBSET Flag]]
  /\ owner \in Thread \cup {None}
  /\ handled \in [Sig -> Nat]

Atomic == INSTANCE AtomicSignals

(* However handlers interleave and nest, each is one atomic update of      *)
(* controlWord, at the moment it writes: mutex_sighandler covers both the  *)
(* read and the write.                                                     *)
HandlesAtomically == Atomic!Spec

(* No update is lost: the flags tell exactly which signals were handled.   *)
NoLostUpdate == Atomic!WordIsEffect

(* A thread whose handler waits for the mutex that the handler it          *)
(* interrupted holds.                                                      *)
SelfDeadlocked ==
  \E t \in Thread : owner = t /\ \E s \in Sig : Runs(t, s) /\ pc[t][s] = "lock"

(* Nothing gets a thread out of that.                                      *)
DeadlockIsForEver == [][SelfDeadlocked => SelfDeadlocked']_vars

(* It is the only way for the handlers to block: every signal sent is      *)
(* handled unless some thread deadlocks itself.                            *)
HandledOrSelfDeadlocked ==
  \A s \in Sig : \A n \in 1..Sent[s] :
    sent[s] >= n ~> handled[s] >= n \/ SelfDeadlocked

(* A signal sent when the engine is switched off sets END (main.cpp:48).   *)
EngOffSetsEnd == sent["SIG_ENG_OFF"] > 0 ~> "END" \in controlWord

(***************************************************************************)
(* The inductive invariant from which SignalHandlerProofs proves that no   *)
(* update is lost.                                                         *)
(***************************************************************************)
Critical(t, s) == pc[t][s] \in {"load", "store", "unlock"}

(* A handler between its lock and its unlock is alone there, in whatever   *)
(* thread and at whatever depth, and a value it has read is still current. *)
MutexInv ==
  /\ TypeOK
  /\ \A t \in Thread, s \in Sig : Critical(t, s) => owner = t
  /\ \A t \in Thread, s1, s2 \in Sig :
       Critical(t, s1) /\ Critical(t, s2) => s1 = s2
  /\ \A t \in Thread, s \in Sig :
       pc[t][s] = "store" => read[t][s] = controlWord
=============================================================================
