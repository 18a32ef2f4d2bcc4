------------------------------ MODULE IRModule ------------------------------
(***************************************************************************)
(* A module of the IR: arenas of operations, values, blocks and regions    *)
(* that name each other by index, the edits passes and the parser make to  *)
(* them, and the questions the analyses ask (crates/ir-core module.rs,     *)
(* crates/analysis uses.rs, dominance.rs, effects.rs and dependency.rs).   *)
(*                                                                         *)
(* A module m is a record: m.op, m.value, m.block and m.region are         *)
(* sequences, an id is an index, and 0 stands for None.  Region 1 is the   *)
(* body and block 1 its block.                                             *)
(***************************************************************************)
EXTENDS Effect, Integers, Sequences, FiniteSets, SequencesExt

BodyBlock == 1

\* Module::new, with the capabilities the text declares in name order.
NewModule(capabilities, approved) ==
  [ op |-> <<>>, value |-> <<>>,
    block |-> << [args |-> <<>>, ops |-> <<>>, region |-> 1] >>,
    region |-> << [blocks |-> <<BodyBlock>>, owner |-> 0] >>,
    capabilities |-> capabilities, approved |-> approved ]

-----------------------------------------------------------------------------
(* Creation: a new entity takes the next slot of its arena.                *)

NewOp(m) == Len(m.op) + 1
NewBlock(m) == Len(m.block) + 1

\* An operation in no block yet, and a value for each of its results.
WithOp(m, head, outs) ==
  [m EXCEPT
     !.op = Append(@, [ name |-> head.name, literal |-> head.literal,
                        operands |-> head.operands, attrs |-> head.attrs,
                        effect |-> head.effect,
                        results |-> [i \in 1..Len(outs) |-> Len(m.value) + i],
                        regions |-> <<>>, parent |-> 0, erased |-> FALSE ]),
     !.value = @ \o [i \in 1..Len(outs) |->
                       [ name |-> outs[i].name, type |-> outs[i].type,
                         source |-> outs[i].source, confidence |-> outs[i].confidence,
                         producer |-> NewOp(m), home |-> 0 ]]]

WithRegion(m, o) ==
  [m EXCEPT !.region = Append(@, [blocks |-> <<>>, owner |-> o]),
            !.op[o].regions = Append(@, Len(m.region) + 1)]

WithBlock(m, r) ==
  [m EXCEPT !.block = Append(@, [args |-> <<>>, ops |-> <<>>, region |-> r]),
            !.region[r].blocks = Append(@, NewBlock(m))]

WithArgs(m, b, args, provenance) ==
  [m EXCEPT !.value = @ \o [i \in 1..Len(args) |->
                              [ name |-> args[i].name, type |-> args[i].type,
                                source |-> provenance.source, confidence |-> provenance.confidence,
                                producer |-> 0, home |-> b ]],
            !.block[b].args = @ \o [i \in 1..Len(args) |-> Len(m.value) + i]]

-----------------------------------------------------------------------------
(* Edits.                                                                  *)

Position(m, o) == CHOOSE i \in DOMAIN m.block[m.op[o].parent].ops :
                    m.block[m.op[o].parent].ops[i] = o

Inserted(m, b, i, o) ==
  [m EXCEPT !.op[o].parent = b, !.block[b].ops = InsertAt(@, i, o)]

Appended(m, b, o) ==
  [m EXCEPT !.op[o].parent = b, !.block[b].ops = Append(@, o)]

StillListed(m, o) == [m EXCEPT !.op[o].parent = 0]  \* mutant: the block keeps it
Detached(m, o) ==
  IF m.op[o].parent = 0 THEN m
  ELSE [m EXCEPT !.op[o].parent = 0,
                 !.block[m.op[o].parent].ops = RemoveAt(@, Position(m, o))]

\* The slot of an erased operation stays, with its operands and its regions.
Erased(m, o) == [Detached(m, o) EXCEPT !.op[o].erased = TRUE]

MovedToEnd(m, o, b) == Appended(Detached(m, o), b, o)

\* Every operation that is not erased, in a block or not, reads to[v] for v.
Redirected(operands, to) ==
  [i \in DOMAIN operands |-> IF operands[i] \in DOMAIN to THEN to[operands[i]] ELSE operands[i]]
UsesReplaced(m, to) ==
  [m EXCEPT !.op = [o \in DOMAIN m.op |->
     IF m.op[o].erased THEN m.op[o]
     ELSE [m.op[o] EXCEPT !.operands = Redirected(@, to)]]]

-----------------------------------------------------------------------------
(* Where an operation is.                                                  *)

\* parent_op: the operation whose region holds o, or 0.
Owner(m, o) ==
  IF m.op[o].parent = 0 THEN 0 ELSE m.region[m.block[m.op[o].parent].region].owner

\* ancestors, for every operation.
Above(m) ==
  LET up[o \in DOMAIN m.op] ==
        IF Owner(m, o) = 0 THEN {} ELSE {Owner(m, o)} \cup up[Owner(m, o)]
  IN up

\* The blocks around o with the position where each holds o, or what holds o.
EnclosingChain(m, o) ==
  {[block |-> m.op[x].parent, position |-> Position(m, x)] :
     x \in {x \in {o} \cup Above(m)[o] : m.op[x].parent # 0}}

\* walk: the operations a walk from the body visits.
Live(m) ==
  {o \in DOMAIN m.op :
     /\ ~m.op[o].erased
     /\ \E x \in {o} \cup Above(m)[o] : m.op[x].parent = BodyBlock}

\* An operation and all that its regions hold.
Inside(m, o) == {n \in DOMAIN m.op : ~m.op[n].erased /\ (n = o \/ o \in Above(m)[n])}

\* The code skips an erased operation wherever it goes through a block, and
\* never meets one: ArenaAgrees.
OpsIn(m, b) == m.block[b].ops

Operands(m, o) == ToSet(m.op[o].operands)
Results(m, o) == ToSet(m.op[o].results)

-----------------------------------------------------------------------------
(* The analyses.                                                           *)

\* UseMap: who reads a value, in the live program.
Readers(m, v) == {o \in Live(m) : v \in Operands(m, o)}

Dominates(m, v, o) ==
  LET p == m.value[v].producer
      chain == EnclosingChain(m, o)
  IN IF p = 0 THEN \E f \in chain : f.block = m.value[v].home
     ELSE /\ m.op[p].parent # 0
          /\ \E f \in chain : f.block = m.op[p].parent /\ Position(m, p) < f.position

\* What certainly runs before o: earlier operations of its own block and of
\* every block around it.
Preceding(m, o) ==
  UNION {{m.block[f.block].ops[i] : i \in 1..f.position - 1} : f \in EnclosingChain(m, o)}

\* EffectSummary: empty for an operation a walk does not reach.
Summary(m, o) ==
  IF o \in Live(m) THEN {m.op[n].effect : n \in Inside(m, o)} ELSE {}

OwnReplayable(m, o) == IsReplayable(m.op[o].effect)  \* mutant: not what its regions do
Replayable(m, o) == \A e \in Summary(m, o) : IsReplayable(e)
Pure(m, o) == \A e \in Summary(m, o) : IsPure(e)
Conflict(m, o, p) == \E e \in Summary(m, o), f \in Summary(m, p) : ConflictsWith(e, f)

\* collect_produced and collect_reads: the regions of o included.
Produced(m, o) ==
  (UNION {Results(m, n) : n \in Inside(m, o)})
  \cup {v \in DOMAIN m.value : /\ m.value[v].home # 0
                               /\ m.region[m.block[m.value[v].home].region].owner \in Inside(m, o)}
Reads(m, o) == UNION {Operands(m, n) : n \in Inside(m, o)}

\* DependencyGraph::reason, for an earlier and a later operation of a block.
Edge(m, earlier, later) ==
  Reads(m, later) \cap Produced(m, earlier) # {} \/ Conflict(m, earlier, later)

-----------------------------------------------------------------------------
(* The shape of a module: what matters here of its arenas' fields.         *)

IsName(name) == name = <<name[1], name[2]>>   \* OpName: a dialect and an operation
IsFunction(f) == f = [x \in DOMAIN f |-> f[x]]
IntsAreInts(attrs) == \A k \in DOMAIN attrs : attrs[k].kind = "int" => attrs[k].value \in Int
IsOp(op) ==
  /\ IsFunction(op)
  /\ DOMAIN op = { "name", "literal", "operands", "attrs", "effect", "results",
                   "regions", "parent", "erased" }
  /\ IsName(op.name)
  /\ IsFunction(op.operands)
  /\ op.results \in Seq(Nat)
  /\ op.regions \in Seq(Nat)
  /\ op.parent \in Nat
  /\ op.erased \in BOOLEAN
  /\ IntsAreInts(op.attrs)
IsValue(value) ==
  /\ DOMAIN value = {"name", "type", "source", "confidence", "producer", "home"}
  /\ value.producer \in Nat /\ value.home \in Nat
IsBlock(block) ==
  /\ DOMAIN block = {"args", "ops", "region"}
  /\ block.ops \in Seq(Nat)
IsRegion(region) ==
  /\ DOMAIN region = {"blocks", "owner"}
  /\ region.blocks \in Seq(Nat)

IsModule(m) ==
  /\ IsFunction(m)
  /\ DOMAIN m = {"op", "value", "block", "region", "capabilities", "approved"}
  /\ m.op \in Seq(ToSet(m.op)) /\ \A o \in DOMAIN m.op : IsOp(m.op[o])
  /\ m.value \in Seq(ToSet(m.value)) /\ \A v \in DOMAIN m.value : IsValue(m.value[v])
  /\ m.block \in Seq(ToSet(m.block)) /\ \A b \in DOMAIN m.block : IsBlock(m.block[b])
  /\ m.region \in Seq(ToSet(m.region)) /\ \A r \in DOMAIN m.region : IsRegion(m.region[r])

-----------------------------------------------------------------------------
(* The two ways of storing the program agree: an operation names the block *)
(* that lists it, a block lists an operation once, an operation that is    *)
(* erased is in no block, and a region belongs to the operation that       *)
(* names it.                                                               *)

ListedWhereNamed(m) ==
  \A b \in DOMAIN m.block : \A i \in DOMAIN m.block[b].ops :
    m.block[b].ops[i] \in DOMAIN m.op /\ m.op[m.block[b].ops[i]].parent = b

NamedWhereListed(m) ==
  \A o \in DOMAIN m.op :
    m.op[o].parent # 0 =>
      /\ m.op[o].parent \in DOMAIN m.block
      /\ o \in ToSet(m.block[m.op[o].parent].ops)

ListedOnce(m) ==
  \A b \in DOMAIN m.block : \A i, j \in DOMAIN m.block[b].ops :
    m.block[b].ops[i] = m.block[b].ops[j] => i = j

ErasedIsNowhere(m) == \A o \in DOMAIN m.op : m.op[o].erased => m.op[o].parent = 0

RegionsOwned(m) ==
  \A o \in DOMAIN m.op : \A i \in DOMAIN m.op[o].regions :
    /\ m.op[o].regions[i] \in DOMAIN m.region
    /\ m.region[m.op[o].regions[i]].owner = o

ArenaAgrees(m) ==
  /\ ListedWhereNamed(m)
  /\ NamedWhereListed(m)
  /\ ListedOnce(m)
  /\ ErasedIsNowhere(m)
  /\ RegionsOwned(m)

\* So do the answers to whose something is: a region lists the blocks that are
\* placed in it, an operation has the regions that it owns and the results it
\* produces, and a value is a result or a block's argument.  Region 1 and its
\* block are nobody's.
BlocksPlaced(m) ==
  /\ \A r \in DOMAIN m.region : \A b \in ToSet(m.region[r].blocks) :
       b \in DOMAIN m.block /\ m.block[b].region = r
  /\ \A b \in DOMAIN m.block :
       /\ m.block[b].region \in DOMAIN m.region
       /\ b \in ToSet(m.region[m.block[b].region].blocks)

RegionsClaimed(m) ==
  \A r \in DOMAIN m.region :
    m.region[r].owner # 0 =>
      m.region[r].owner \in DOMAIN m.op /\ r \in ToSet(m.op[m.region[r].owner].regions)

HasProducer(m, v) ==
  IF m.value[v].producer = 0 THEN m.value[v].home \in DOMAIN m.block
  ELSE /\ m.value[v].home = 0
       /\ m.value[v].producer \in DOMAIN m.op
       /\ v \in Results(m, m.value[v].producer)

ResultsProduced(m) ==
  /\ \A o \in DOMAIN m.op : \A v \in Results(m, o) :
       v \in DOMAIN m.value /\ m.value[v].producer = o
  /\ \A v \in DOMAIN m.value : HasProducer(m, v)

BodyIsFree(m) ==
  /\ BodyBlock \in DOMAIN m.block
  /\ m.region[m.block[BodyBlock].region].owner = 0

OwnersAgree(m) ==
  /\ BlocksPlaced(m)
  /\ RegionsClaimed(m)
  /\ ResultsProduced(m)
  /\ BodyIsFree(m)

\* A region has a block.
RegionsFilled(m) == \A r \in DOMAIN m.region : m.region[r].blocks # <<>>

\* What holds an operation was there before it.
OuterFirst(m) == \A o \in DOMAIN m.op : Owner(m, o) < o
=============================================================================
