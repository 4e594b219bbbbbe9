----------------------------- MODULE ControlWord -----------------------------
(***************************************************************************)
(* The flags of controlWord and what tSignalHandler (main.cpp) does to     *)
(* them for each signal.  controlWord is the set of the flags that are on. *)
(***************************************************************************)

Flag == {"BUZZ", "PROC_F", "ENG_STAT", "END", "WARN"}

ButtonSig == {"SIG_PROBUT", "SIG_BUZZBUT"}
Sig == ButtonSig \cup {"SIG_ENG_ON", "SIG_ENG_OFF", "SIG_WARN_SYS"}

(* main sets PROC_F before it installs the handlers.                       *)
InitialWord == {"PROC_F"}

Toggle(word, flag) == IF flag \in word THEN word \ {flag} ELSE word \cup {flag}

(* The value of controlWord after the handler's read-modify-write.         *)
Update(word, sig) ==
  CASE sig = "SIG_WARN_SYS" -> word \cup {"WARN"}
    [] sig = "SIG_PROBUT"   -> Toggle(word, "PROC_F")
    [] sig = "SIG_BUZZBUT"  -> Toggle(word, "BUZZ")
    [] sig = "SIG_ENG_ON"   -> word \cup {"ENG_STAT"}
    [] sig = "SIG_ENG_OFF"  -> word \cup {"END"}
=============================================================================
