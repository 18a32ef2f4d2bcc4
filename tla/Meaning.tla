------------------------------ MODULE Meaning ------------------------------
(***************************************************************************)
(* What a program computes and in which order, so that a program can be    *)
(* compared with what the passes have made of it: which computation a      *)
(* value names, under which decisions an operation runs, and which         *)
(* operations have certainly run before it.  Execution is that of the      *)
(* Executor module: a block in order, the operations of a control.parallel *)
(* in any order.                                                           *)
(***************************************************************************)
EXTENDS Verifier

\* p's place comes before o's in a block around both, and the code runs the
\* operations of that block in order.
InOrder(m, b) ==
  LET owner == m.region[m.block[b].region].owner
  IN owner = 0 \/ NameOf(m, owner) # Parallel
Before(m, p, o) ==
  \E f \in EnclosingChain(m, p), g \in EnclosingChain(m, o) :
    f.block = g.block /\ f.position < g.position
Ahead(m, p, o) ==
  \E f \in EnclosingChain(m, p), g \in EnclosingChain(m, o) :
    f.block = g.block /\ f.position < g.position /\ InOrder(m, f.block)

\* The branches and loop bodies that o is part of.
Decisions(m, o) ==
  {m.block[m.op[x].parent].region : x \in {o} \cup Above(m)[o]}
  \ {r \in DOMAIN m.region : m.region[r].owner # 0 /\ NameOf(m, m.region[r].owner) = Parallel}

\* The earlier writes whose effect o may see.
Sees(m, o) ==
  {w \in Live(m) : ConflictsWith(m.op[w].effect, m.op[o].effect) /\ Before(m, w, o)}

Given(kind, of, args, sees, index) ==
  [kind |-> kind, of |-> of, args |-> args, sees |-> sees, index |-> index]

\* The computation a value stands for.  Two calls that may be answered by one
\* another are the same computation; any other operation is one of its own.
Term(m) ==
  LET index(v) == CHOOSE i \in DOMAIN m.op[m.value[v].producer].results :
                    m.op[m.value[v].producer].results[i] = v
      t[v \in DOMAIN m.value] ==
        LET o == m.value[v].producer IN
        IF o = 0 THEN Given("argument", <<v>>, <<>>, {}, 0)
        ELSE IF NameOf(m, o) = Parallel
        THEN LET inner == m.block[m.region[m.op[o].regions[1]].blocks[1]].ops
             IN t[m.op[Last(inner)].operands[index(v)]]
        ELSE IF m.op[o].regions = <<>> /\ IsReplayable(m.op[o].effect)
        THEN Given("call",
                   <<m.op[o].name, m.op[o].literal, m.op[o].effect, m.op[o].attrs>>,
                   [i \in DOMAIN m.op[o].operands |-> t[m.op[o].operands[i]]],
                   Sees(m, o), index(v))
        ELSE Given("result", <<o>>, <<>>, {}, index(v))
  IN t

\* All that decides what an operation does when it runs.
Computation(m, o) ==
  [ name |-> m.op[o].name, literal |-> m.op[o].literal, attrs |-> m.op[o].attrs,
    effect |-> m.op[o].effect, decisions |-> Decisions(m, o),
    operands |-> [i \in DOMAIN m.op[o].operands |-> Term(m)[m.op[o].operands[i]]] ]

\* o finds each value that it reads: the argument of a block around it, or what
\* an operation produced that has certainly run.
FindsOperands(m, o) ==
  \A v \in Operands(m, o) :
    /\ v \in DOMAIN m.value /\ Dominates(m, v, o)
    /\ m.value[v].producer # 0 => InOrder(m, m.op[m.value[v].producer].parent)
=============================================================================
