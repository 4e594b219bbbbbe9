------------------------------ MODULE FrameQueue ------------------------------
(***************************************************************************)
(* What the ring of frames promises: a queue from tAcqnMergeFrame to       *)
(* tStoreFrame that never makes the one wait for the other and loses       *)
(* frames instead.  The k-th frame to be encoded is one of the last        *)
(* FrameBuffLen frames put in the queue, and it is the one among them that *)
(* is whole laps of the ring away from the k-th capture: the k-th capture  *)
(* itself as long as that is among them.                                   *)
(***************************************************************************)
EXTENDS Integers, Sequences

CONSTANTS FrameBuffLen, MaxFrames   \* as in FrameRing

VARIABLES
  put,     \* frames put in the queue so far
  taken    \* the frames taken out of it, in order

Init == put = 0 /\ taken = <<>>

Put == put < MaxFrames /\ put' = put + 1 /\ UNCHANGED taken

(* The frames the k-th one taken out may be: at most one.                  *)
Turn(k) == {f \in k..put : f > put - FrameBuffLen
                            /\ (f - k) % FrameBuffLen = 0}

Take ==
  /\ \E f \in Turn(Len(taken) + 1) : taken' = Append(taken, f)
  /\ UNCHANGED put

Next == Put \/ Take

Spec == Init /\ [][Next]_<<put, taken>>
=============================================================================
