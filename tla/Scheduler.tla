------------------------------ MODULE Scheduler ------------------------------
(***************************************************************************)
(* From the operations of one block to batches, and from batches to a run  *)
(* (crates/analysis dependency.rs and effects.rs, crates/ir-core effect.rs,*)
(* crates/lowering scheduler.rs and plan.rs).                              *)
(*                                                                         *)
(* The scheduler levels the dependency graph of a block and puts each      *)
(* level in a batch; a plan promises that the steps of a batch may run at  *)
(* the same time and that the batches run in order.  The run modelled here *)
(* uses all of that freedom; the order the reference executor takes is one *)
(* of its behaviours.  Nested blocks are scheduled by the same function,   *)
(* each on its own: to its block an operation is all that its regions hold.*)
(***************************************************************************)
EXTENDS Effect, Integers, Sequences, FiniteSets

CONSTANT Programs   \* verified programs: [op |-> id -> operation, block |-> ids in order]

Terminators == {"agent.return", "control.yield"}

\* What the verifier guarantees of a block: a terminator is its last operation.
ASSUME ProgramAssumption ==
  \A p \in Programs :
    /\ Len(p.block) \in Nat
    /\ DOMAIN p.block = 1..Len(p.block)
    /\ \A j \in DOMAIN p.block :
         p.op[p.block[j]].name \in Terminators => j = Len(p.block)

\* An operation of a program and everything its regions hold.
SubtreeOf(p) ==
  LET subtree[o \in DOMAIN p.op] == {o} \cup UNION {subtree[n] : n \in p.op[o].nested}
  IN subtree
InsideOf(p, j) == {p.op[o] : o \in SubtreeOf(p)[p.block[j]]}

\* Nor does an operation, or one nested in it, read what a later one of the
\* block produces: definitions dominate their uses.
ASSUME DominanceAssumption ==
  \A p \in Programs : \A i, j \in DOMAIN p.block :
    i < j => \A o \in InsideOf(p, i), q \in InsideOf(p, j) : o.operands \cap q.results = {}

VARIABLES
  program,   \* the program being scheduled and run
  depth,     \* DependencyGraph::levels: the level of each operation so far
  phase,
  batch,     \* the rank of the batch being run
  started, ended,   \* positions in the block
  seen,      \* position -> the earlier writes it found in the world
  returner   \* the position that returned early, or 0

vars == <<program, depth, phase, batch, started, ended, seen, returner>>

-----------------------------------------------------------------------------
(* The dependency graph of the block.                                      *)

Positions == 1..Len(program.block)

Inside(j) == InsideOf(program, j)

\* The EffectSummary of the operation at a position.
Declared(j) == {program.op[program.block[j]].effect}  \* mutant: the declaration only
Summary(j) == {o.effect : o \in Inside(j)}

Produced(j) == UNION {o.results : o \in Inside(j)}
OwnOperands(j) == program.op[program.block[j]].operands  \* mutant: nested reads ignored
Reads(j) == UNION {o.operands : o \in Inside(j)}

Conflict(i, j) == \E a \in Summary(i), b \in Summary(j) : ConflictsWith(a, b)

Edge(i, j) == i < j /\ (Reads(j) \cap Produced(i) # {} \/ Conflict(i, j))
Predecessors(j) == {i \in Positions : Edge(i, j)}

-----------------------------------------------------------------------------
(* Batches.                                                                *)

\* The level of the next operation is one more than its predecessors'.
LevelFromOne(j) ==  \* mutant: off by one
  {n \in 1..j : /\ \A i \in Predecessors(j) : depth[i] < n
                /\ n = 1 \/ \E i \in Predecessors(j) : n = depth[i] + 1}
LevelAfterLast(j) ==  \* mutant: the last predecessor's, not the deepest one's
  {n \in 0..j - 1 :
     IF Predecessors(j) = {} THEN n = 0
     ELSE \E i \in Predecessors(j) : /\ \A k \in Predecessors(j) : k =< i
                                     /\ n = depth[i] + 1}
LevelOf(j) ==
  {n \in 0..j - 1 : /\ \A i \in Predecessors(j) : depth[i] < n
                    /\ n = 0 \/ \E i \in Predecessors(j) : n = depth[i] + 1}

IsTerminator(j) == program.op[program.block[j]].name \in Terminators

\* A level's batch comes at its level; a terminator's own batch after them all.
RankByLevel(j) == depth[j]  \* mutant: the terminator beside what shares its level
Rank(j) == IF IsTerminator(j) THEN Len(program.block) + j ELSE depth[j]

ClosedEarly == Positions \cap ended # {}  \* mutant: one step is waited for
Closed == \A j \in Positions : Rank(j) = batch => j \in ended

-----------------------------------------------------------------------------

Init ==
  /\ program \in Programs
  /\ depth = <<>>
  /\ phase = "leveling"
  /\ batch = 0
  /\ started = {} /\ ended = {}
  /\ seen = [j \in Positions |-> {}]
  /\ returner = 0

\* One iteration of the loop of levels.
Level ==
  /\ phase = "leveling"
  /\ Len(depth) < Len(program.block)
  /\ \E n \in LevelOf(Len(depth) + 1) : depth' = Append(depth, n)
  /\ UNCHANGED <<program, phase, batch, started, ended, seen, returner>>

Launch ==
  /\ phase = "leveling"
  /\ Len(depth) = Len(program.block)
  /\ phase' = "running"
  /\ UNCHANGED <<program, depth, batch, started, ended, seen, returner>>

\* A write reaches whatever overlaps its scope.
Reaches(i, j) ==
  \E o \in Inside(i), p \in Inside(j) :
    IsWrite(o.effect) /\ HasScope(p.effect) /\ Overlap(o.effect.scope, p.effect.scope)

Start(j) ==
  /\ phase = "running"
  /\ j \notin started
  /\ Rank(j) = batch
  /\ started' = started \cup {j}
  /\ seen' = [seen EXCEPT ![j] = {i \in ended : Reaches(i, j)}]
  /\ UNCHANGED <<program, depth, phase, batch, ended, returner>>

End(j) ==
  /\ phase = "running"
  /\ j \in started \ ended
  /\ ended' = ended \cup {j}
  /\ UNCHANGED <<program, depth, phase, batch, started, seen, returner>>

\* A return nested in the regions of a step ends the function (Flow::Return).
MayReturn(j) == ~IsTerminator(j) /\ \E o \in Inside(j) : o.name = "agent.return"

EarlyReturn(j) ==
  /\ phase = "running"
  /\ j \in started \ ended
  /\ MayReturn(j)
  /\ ended' = ended \cup {j}
  /\ returner' = j
  /\ phase' = "done"
  /\ UNCHANGED <<program, depth, batch, started, seen>>

\* Batches that came out empty are dropped.
Later == {Rank(j) : j \in Positions} \cap {n \in 0..2 * Len(program.block) : n > batch}

NextBatch ==
  /\ phase = "running"
  /\ Closed
  /\ \E n \in Later : (\A m \in Later : n =< m) /\ batch' = n
  /\ UNCHANGED <<program, depth, phase, started, ended, seen, returner>>

Finish ==
  /\ phase = "running"
  /\ Closed
  /\ Later = {}
  /\ phase' = "done"
  /\ UNCHANGED <<program, depth, batch, started, ended, seen, returner>>

Terminated == phase = "done" /\ UNCHANGED vars

Next ==
  \/ Level \/ Launch \/ NextBatch \/ Finish
  \/ \E j \in Positions : Start(j) \/ End(j) \/ EarlyReturn(j)
  \/ Terminated

Spec == Init /\ [][Next]_vars

-----------------------------------------------------------------------------
(* Properties.                                                             *)

\* Shape of the variables: an operation's level is below its position, steps
\* end after they start, and running begins when every level is known.
TypeOK ==
  /\ Len(depth) =< Len(program.block)
  /\ \A j \in DOMAIN depth : depth[j] \in 0..j - 1
  /\ phase \in {"leveling", "running", "done"}
  /\ phase # "leveling" => Len(depth) = Len(program.block)
  /\ batch \in 0..2 * Len(program.block)
  /\ ended \subseteq started
  /\ started \subseteq Positions
  /\ seen \in [Positions -> SUBSET Positions]
  /\ returner \in Positions \cup {0}

\* Serializability: whatever runs beside it, a step finds in the world exactly
\* the writes that the program has before it (scheduler.rs: "nothing observable
\* moves"; plan.rs: the steps of a batch "may run at the same time").
SeesWhatTheProgramSays ==
  \A j \in started : seen[j] = {i \in 1..j - 1 : Reaches(i, j)}

\* A step starts when every value that it or anything in its regions reads is
\* bound, by a step that has ended or by itself.
OperandsAreBound ==
  \A j \in started :
    (UNION {o.operands : o \in Inside(j)}) \cap (UNION {Produced(i) : i \in Positions})
      \subseteq UNION {Produced(i) : i \in ended \cup {j}}

Chain(s) == \A i, j \in s : i < j /\ (\A m \in s : m =< i \/ m >= j) => Edge(i, j)

\* Level n holds every operation whose longest dependency chain is n long
\* (dependency.rs, levels): no batch could run earlier.
LevelsAreLongestChains ==
  \A j \in DOMAIN depth :
    LET lengths == {Cardinality(s) - 1 : s \in {s \in SUBSET (1..j) : j \in s /\ Chain(s)}}
    IN depth[j] \in lengths /\ \A n \in lengths : n =< depth[j]

\* No step falls between the batches: a run that did not return early has run
\* them all.
NothingIsDropped == phase = "done" /\ returner = 0 => ended = Positions

\* "A terminator always runs last, on its own": nothing is still running, or
\* yet to run, when it starts (scheduler.rs, schedule_block).
TerminatorRunsAlone ==
  \A t \in started : IsTerminator(t) => Positions \ {t} \subseteq ended

\* A return in front of a write keeps the write from happening, even where the
\* steps of a batch run one by one: no write of an earlier batch is one that the
\* program has behind the return (scheduler.rs: "batch order is a valid
\* topological order and nothing observable moves").
EarlyReturnStopsTheRest ==
  returner # 0 =>
    \A j \in ended :
      Rank(j) < batch /\ (\E o \in Inside(j) : IsWrite(o.effect)) => j < returner
=============================================================================
