----------------------------- MODULE HandlerStack -----------------------------
(***************************************************************************)
(* Lemmas about the stack of signal handlers that run in one thread, a     *)
(* sequence with the innermost one first.  A handler blocks its own signal *)
(* while it runs, so no signal is on the stack twice.                      *)
(***************************************************************************)
EXTENDS Integers, SequencesExt, TLAPS

(* A handler that does not run yet becomes the innermost one.              *)
LEMMA Push ==
  ASSUME NEW S, NEW st \in Seq(S), IsInjective(st), NEW s \in S,
         s \notin ToSet(st)
  PROVE  /\ <<s>> \o st \in Seq(S) /\ IsInjective(<<s>> \o st)
         /\ ToSet(<<s>> \o st) = ToSet(st) \cup {s}
<1> DEFINE new == <<s>> \o st
<1>1. /\ new \in Seq(S) /\ Len(new) = Len(st) + 1
      /\ new[1] = s /\ \A i \in 1..Len(st) : new[i + 1] = st[i]
  OBVIOUS
<1>2. DOMAIN new = 1..Len(st) + 1 /\ DOMAIN st = 1..Len(st) /\ Len(st) \in Nat
  BY <1>1
<1>3. \A i \in DOMAIN new : i # 1 => i - 1 \in DOMAIN st /\ new[i] = st[i - 1]
  BY <1>1, <1>2
<1>4. \A j \in DOMAIN st : j + 1 \in DOMAIN new /\ new[j + 1] = st[j]
  BY <1>1, <1>2
<1>5. IsInjective(new)
  BY <1>1, <1>2, <1>3 DEF IsInjective, ToSet
<1>6. ToSet(new) = ToSet(st) \cup {s}
  <2>1. ToSet(new) \subseteq ToSet(st) \cup {s}
    BY <1>1, <1>3 DEF ToSet
  <2>2. 1 \in DOMAIN new
    BY <1>2
  <2>3. s \in ToSet(new)
    BY <1>1, <2>2 DEF ToSet
  <2>4. ToSet(st) \subseteq ToSet(new)
    BY <1>4 DEF ToSet
  <2> QED BY <2>1, <2>3, <2>4
<1> QED BY <1>1, <1>5, <1>6

(* Tail takes the innermost handler away, and only it.                     *)
LEMMA Pop ==
  ASSUME NEW S, NEW st \in Seq(S), IsInjective(st), st # <<>>
  PROVE  /\ Tail(st) \in Seq(S) /\ IsInjective(Tail(st))
         /\ ToSet(Tail(st)) = ToSet(st) \ {st[1]}
<1> DEFINE new == Tail(st)
<1>1. /\ new \in Seq(S) /\ Len(new) = Len(st) - 1 /\ Len(st) \in Nat \ {0}
      /\ \A i \in 1..Len(st) - 1 : new[i] = st[i + 1]
  OBVIOUS
<1>2. DOMAIN new = 1..Len(st) - 1 /\ DOMAIN st = 1..Len(st)
  BY <1>1
<1>3. \A i \in DOMAIN new :
        i + 1 \in DOMAIN st /\ i + 1 # 1 /\ new[i] = st[i + 1]
  BY <1>1, <1>2
<1>4. \A j \in DOMAIN st : j # 1 => j - 1 \in DOMAIN new /\ new[j - 1] = st[j]
  BY <1>1, <1>2
<1>5. IsInjective(new)
  BY <1>1, <1>2, <1>3 DEF IsInjective
<1>6. ToSet(new) = ToSet(st) \ {st[1]}
  <2>1. ToSet(new) \subseteq ToSet(st) \ {st[1]}
    BY <1>1, <1>2, <1>3 DEF ToSet, IsInjective
  <2>2. ToSet(st) \ {st[1]} \subseteq ToSet(new)
    BY <1>4 DEF ToSet
  <2> QED BY <2>1, <2>2
<1> QED BY <1>1, <1>5, <1>6
=============================================================================
