----------------------------- MODULE EffectOnce -----------------------------
(***************************************************************************)
(* What every receipt of this system promises about an effect on the world *)
(* outside: it is admitted before it happens, it happens at most once, a   *)
(* confirmation is never wrong, and an effect nobody can vouch for stays   *)
(* visibly unknown instead of being tried again.                           *)
(***************************************************************************)
EXTENDS Naturals

CONSTANT Op                 \* the identities of the effects

VARIABLES
  state,                    \* what the records say of each effect
  times                     \* how often the world has seen it

effectVars == <<state, times>>

EffectInit ==
  /\ state = [o \in Op |-> "new"]
  /\ times = [o \in Op |-> 0]

Admit(o) ==
  /\ state[o] = "new"
  /\ state' = [state EXCEPT ![o] = "admitted"]
  /\ UNCHANGED times

\* A request that left may still arrive after its sender gave it up.
Happen(o) ==
  /\ state[o] \in {"admitted", "unknown"}
  /\ times[o] = 0
  /\ times' = [times EXCEPT ![o] = 1]
  /\ UNCHANGED state

Confirm(o) ==
  /\ state[o] = "admitted"
  /\ times[o] = 1
  /\ state' = [state EXCEPT ![o] = "confirmed"]
  /\ UNCHANGED times

\* A restart may give up several at once.
GiveUp(O) ==
  /\ \A o \in O : state[o] = "admitted"
  /\ state' = [o \in Op |-> IF o \in O THEN "unknown" ELSE state[o]]
  /\ UNCHANGED times

\* Somebody looks and finds the effect after all.
Discover(o) ==
  /\ state[o] = "unknown"
  /\ times[o] = 1
  /\ state' = [state EXCEPT ![o] = "confirmed"]
  /\ UNCHANGED times

\* Refused for good before anything left.
Refuse(o) ==
  /\ state[o] \in {"new", "admitted"}
  /\ times[o] = 0
  /\ state' = [state EXCEPT ![o] = "refused"]
  /\ UNCHANGED times

EffectNext ==
  \/ \E o \in Op : Admit(o) \/ Happen(o) \/ Confirm(o) \/ Discover(o) \/ Refuse(o)
  \/ \E O \in SUBSET Op : GiveUp(O)

EffectSpec == EffectInit /\ [][EffectNext]_effectVars
=============================================================================
