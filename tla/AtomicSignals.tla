---------------------------- MODULE AtomicSignals ----------------------------
(***************************************************************************)
(* What the rest of main.cpp relies on: a signal is handled in one step    *)
(* that updates controlWord, and no update is lost.                        *)
(***************************************************************************)
EXTENDS ControlWord, Integers

VARIABLES
  controlWord,   \* the flags that are on
  handled        \* how often each signal has been handled

Init ==
  /\ controlWord = InitialWord
  /\ handled = [s \in Sig |-> 0]

Handle(s) ==
  /\ controlWord' = Update(controlWord, s)
  /\ handled' = [handled EXCEPT ![s] = @ + 1]

Next == \E s \in Sig : Handle(s)

Spec == Init /\ [][Next]_<<controlWord, handled>>

-----------------------------------------------------------------------------
(* The flags are the effect of all the signals handled: a button's flag    *)
(* has been toggled once per press, the others are set by the first one.   *)
WordIsEffect ==
  controlWord = {f \in Flag :
    CASE f = "PROC_F"   -> handled["SIG_PROBUT"] % 2 = 0
      [] f = "BUZZ"     -> handled["SIG_BUZZBUT"] % 2 = 1
      [] f = "ENG_STAT" -> handled["SIG_ENG_ON"] > 0
      [] f = "END"      -> handled["SIG_ENG_OFF"] > 0
      [] f = "WARN"     -> handled["SIG_WARN_SYS"] > 0}
=============================================================================
