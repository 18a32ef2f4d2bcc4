--------------------------- MODULE DurableEffects ---------------------------
(***************************************************************************)
(* What the durable runtime promises about non-replayable effects,         *)
(* whatever crashes (crates/runtime/src/lib.rs, module text): each         *)
(* idempotency key reaches the world at most once, its outcome is fixed    *)
(* from then on, and everything the program is ever told about the key is  *)
(* that outcome.                                                           *)
(***************************************************************************)

VARIABLES
  outcome,    \* key -> the one outcome it will ever have
  performed,  \* the occasions <<when, key>> on which an effect reached the world
  told        \* the <<key, outcome>> pairs the program has been given

vars == <<outcome, performed, told>>

Init ==
  /\ DOMAIN outcome = {}
  /\ performed = {}
  /\ told = {}

\* A key gets its outcome, any value, and every other key keeps its own.
Decide(k) ==
  /\ k \notin DOMAIN outcome
  /\ DOMAIN outcome' = DOMAIN outcome \cup {k}
  /\ \A x \in DOMAIN outcome : outcome'[x] = outcome[x]

\* The effect happens and its outcome is decided, in one step.
Perform(k) ==
  /\ Decide(k)
  /\ \E occasion \in performed' \ performed :
       occasion[2] = k /\ performed' = performed \cup {occasion}
  /\ UNCHANGED told

\* The key is used up by an attempt that failed.
Abandon(k) ==
  /\ Decide(k)
  /\ UNCHANGED <<performed, told>>

\* The program learns the outcome, any number of times.
Tell(k) ==
  /\ k \in DOMAIN outcome
  /\ told' = told \cup {<<k, outcome[k]>>}
  /\ UNCHANGED <<outcome, performed>>

Next ==
  \/ \E k \in DOMAIN outcome' : Perform(k) \/ Abandon(k)
  \/ \E k \in DOMAIN outcome : Tell(k)

Spec == Init /\ [][Next]_vars
=============================================================================
