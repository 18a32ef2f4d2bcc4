------------------------------- MODULE Effect -------------------------------
(***************************************************************************)
(* The effect algebra every other part reasons with (crates/ir-core        *)
(* effect.rs): five classes, three of them with a scope.                   *)
(***************************************************************************)
CONSTANT AnyScope   \* Scope(None), the scope that overlaps every other

IsPure(effect) == effect.class = "pure"
IsReplayable(effect) == effect.class \in {"pure", "read_external"}
IsWrite(effect) == effect.class \in {"write_external", "irreversible"}
IsIrreversible(effect) == effect.class = "irreversible"

HasScope(effect) == effect.class \notin {"pure", "stochastic"}
Overlap(s, t) == s = t \/ AnyScope \in {s, t}

\* Two effects conflict when one writes a scope that the other touches.
ConflictsWith(a, b) ==
  HasScope(a) /\ HasScope(b) /\ (IsWrite(a) \/ IsWrite(b)) /\ Overlap(a.scope, b.scope)
=============================================================================
