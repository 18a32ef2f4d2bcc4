---------------------------- MODULE MCScheduler ----------------------------
(***************************************************************************)
(* Every program of three operations, flat or nested, with every choice of *)
(* effects and every choice of operands that dominance allows, and an      *)
(* agent.return at the end; perhaps a return inside operation 2 as well.   *)
(***************************************************************************)
EXTENDS Scheduler

CONSTANTS
  a, b,      \* scopes
  Effects    \* the effects to choose from, as <<class, scope>>

Size == 3
Last == Size + 1     \* the closing agent.return
Early == Size + 2    \* the return in operation 2's region

\* parent[i] is the operation whose region holds i, or 0; ids are in text order.
Ancestors(parent, i) ==
  {k \in 1..i - 1 :
     \/ parent[i] = k
     \/ parent[i] # 0 /\ parent[parent[i]] = k}
Trees ==
  {parent \in [1..Size -> 0..Size - 1] :
     /\ parent[1] = 0
     /\ \A i \in 2..Size : parent[i] \in {0, i - 1} \cup Ancestors(parent, i - 1)}

\* An operation whose region ends in a return yields nothing and has no result.
Results(early, i) == IF early /\ i = 2 THEN {} ELSE {i}

\* Values that dominate an operation: results of earlier ones in the blocks
\* around it.  The result of operation i is called i.
Visible(parent, early, i) ==
  UNION {Results(early, k) : k \in {k \in 1..i - 1 :
    /\ k \notin Ancestors(parent, i)
    /\ parent[k] \in {0} \cup Ancestors(parent, i)}}

MCEffects == {<<"pure", AnyScope>>, <<"stochastic", AnyScope>>, <<"read_external", a>>,
              <<"write_external", a>>, <<"read_external", AnyScope>>, <<"irreversible", b>>}

Operation(name, effect, operands, results, nested) ==
  [name |-> name, effect |-> [class |-> effect[1], scope |-> effect[2]],
   operands |-> operands, results |-> results, nested |-> nested]

Nested(parent, early, i) ==
  {k \in 1..Size : parent[k] = i} \cup (IF early /\ i = 2 THEN {Early} ELSE {})

\* The closing return gives back every value of its block, or none.
MCProgram(parent, early, effects, operands, returned) ==
  [ op |-> [ i \in 1..Early |->
      CASE i = Last -> Operation("agent.return", <<"pure", AnyScope>>, returned, {}, {})
        [] i = Early -> Operation("agent.return", <<"pure", AnyScope>>, {}, {}, {})
        [] Nested(parent, early, i) # {} ->
             Operation("control.if", <<"pure", AnyScope>>, operands[i], Results(early, i),
                       Nested(parent, early, i))
        [] OTHER -> Operation("tool.call", effects[i], operands[i], {i}, {}) ],
    block |-> SelectSeq([i \in 1..Last |-> i], LAMBDA i : i = Last \/ parent[i] = 0) ]

MCPrograms ==
  UNION { { MCProgram(parent, early, <<e1, e2, e3>>, <<{}, o2, o3>>, returned) :
              e1 \in Effects, e2 \in Effects, e3 \in Effects,
              o2 \in SUBSET Visible(parent, early, 2), o3 \in SUBSET Visible(parent, early, 3),
              returned \in {{}, UNION {Results(early, k) : k \in {k \in 1..Size : parent[k] = 0}}} }
          : parent \in Trees, early \in BOOLEAN }
=============================================================================
