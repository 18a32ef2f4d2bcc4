------------------------------- MODULE Passes -------------------------------
(***************************************************************************)
(* The optimizer (crates/passes): deduplication, dead action elimination   *)
(* and parallelization over one module, round after round until a round    *)
(* changes nothing or the cap is met.  A step is one operation examined,   *)
(* or one edit of the module; nothing else runs between the steps of a     *)
(* pass, and the results of an analysis are recomputed where no edit that  *)
(* they depend on has happened since the code took them.                   *)
(***************************************************************************)
EXTENDS Meaning

CONSTANTS
  Modules,     \* the modules a pipeline may be given
  MaxRounds    \* PassManager::max_rounds

ASSUME RoundsAssumption == MaxRounds \in Nat \ {0}

\* What the parser makes: the arenas agree, what holds an operation comes before
\* it, and a region has a block.
Sound(m) ==
  /\ IsModule(m)
  /\ ArenaAgrees(m) /\ OwnersAgree(m)
  /\ RegionsFilled(m)
  /\ OuterFirst(m)
ASSUME ModulesAssumption == \A m \in Modules : Sound(m)

VARIABLES
  ir,        \* the module
  before,    \* the module as the pipeline was given it
  pass,      \* the pass that runs
  round,
  changed,   \* whether a pass of this round has changed anything
  capped,    \* PipelineReport::hit_iteration_cap
  todo,      \* the blocks the pass has yet to visit
  position,  \* deduplication: the next operation of the block
  cached,    \* deduplication: cache key -> the last operation to enter it
  dead,      \* elimination: found dead and not erased yet
  group,     \* parallelization: the operations yet to be moved
  wrapper,   \* parallelization: the region's operation, or 0
  escaping   \* parallelization: the values read outside the group

local == <<todo, position, cached, dead, group, wrapper, escaping>>
passesVars == <<ir, before, pass, round, changed, capped, local>>

passVars == <<pass, round, changed, capped>>

-----------------------------------------------------------------------------
(* Deduplication.                                                          *)

AllBlocks(m) == FlattenSeq([r \in DOMAIN m.region |-> m.region[r].blocks])

CacheKey(m, o) ==
  [ name |-> m.op[o].name, literal |-> m.op[o].literal, operands |-> m.op[o].operands,
    scope |-> IF HasScope(m.op[o].effect) THEN <<m.op[o].effect.scope>> ELSE <<>>,
    attrs |-> m.op[o].attrs ]

NoCache(m, o) ==
  /\ "no_cache" \in DOMAIN m.op[o].attrs
  /\ m.op[o].attrs["no_cache"] = [kind |-> "bool", value |-> TRUE]
Cacheable(m, o) ==
  /\ m.op[o].results # <<>>
  /\ ~NoCache(m, o)
  /\ m.op[o].regions = <<>>
  /\ Replayable(m, o)

Between(m, earlier, o) ==
  {p \in ToSet(m.block[m.op[o].parent].ops) :
     Position(m, earlier) < Position(m, p) /\ Position(m, p) < Position(m, o)}
NeverInterfered(m, earlier, o) == FALSE  \* mutant: whatever happens in between
Interfered(m, earlier, o) == \E p \in Between(m, earlier, o) : Conflict(m, p, o)

\* The results of o that give way to those of the earlier call.
Reusable(m, earlier, o) ==
  IF Len(m.op[o].results) # Len(m.op[earlier].results) THEN {}
  ELSE {i \in DOMAIN m.op[o].results :
          m.value[m.op[o].results[i]].type = m.value[m.op[earlier].results[i]].type}

Reuse(m, earlier, o) ==
  [v \in {m.op[o].results[i] : i \in Reusable(m, earlier, o)} |->
     m.op[earlier].results[CHOOSE i \in DOMAIN m.op[o].results : m.op[o].results[i] = v]]

-----------------------------------------------------------------------------
(* Elimination.                                                            *)

Unread(m, o) == \A v \in Results(m, o) : Readers(m, v) = {}
IsDead(m, o) ==
  /\ m.op[o].results # <<>> /\ NameOf(m, o) # Func
  /\ Unread(m, o)
  /\ Replayable(m, o)
Dead(m) == {o \in Live(m) : IsDead(m, o)}

-----------------------------------------------------------------------------
(* Parallelization.                                                        *)

\* The body of a control.parallel is not visited.
IsParallel(m, r) == m.region[r].owner # 0 /\ NameOf(m, m.region[r].owner) = Parallel
Schedulable(m) ==
  FlattenSeq([r \in DOMAIN m.region |-> IF IsParallel(m, r) THEN <<>> ELSE m.region[r].blocks])

Groupable(m, o) ==
  NameOf(m, o) \notin {<<"agent", "return">>, Yield, Parallel, Func, Verify}

\* A run of neighbours without a dependency between any two.
NeighboursApart(m, ops, first, last) ==  \* mutant: only neighbours are compared
  /\ \A i \in first..last : Groupable(m, ops[i])
  /\ \A i \in first..last - 1 : ~Edge(m, ops[i], ops[i + 1])
IsRun(m, ops, first, last) ==
  /\ \A i \in first..last : Groupable(m, ops[i])
  /\ \A i, j \in first..last : i < j => ~Edge(m, ops[i], ops[j])

\* The first run of two or more, and all of it.
Runs(m, b) ==
  LET ops == OpsIn(m, b)
      pairs == {i \in 1..Len(ops) - 1 : IsRun(m, ops, i, i + 1)}
  IN {r \in (1..Len(ops)) \X (1..Len(ops)) :
        /\ r[1] \in pairs /\ \A i \in pairs : r[1] =< i
        /\ r[2] > r[1] /\ IsRun(m, ops, r[1], r[2])
        /\ r[2] = Len(ops) \/ ~IsRun(m, ops, r[1], r[2] + 1)}
Group(m, b, r) == SubSeq(OpsIn(m, b), r[1], r[2])

\* The results read by an operation that is neither in the group nor nested in it.
InsideGroup(m, o, ops) == \E p \in ToSet(ops) : o = p \/ p \in Above(m)[o]
Escapes(m, ops, v) == \E o \in Readers(m, v) : ~InsideGroup(m, o, ops)
Escaping(m, ops) ==
  LET results == FlattenSeq([i \in DOMAIN ops |-> m.op[ops[i]].results])
  IN FlattenSeq([i \in DOMAIN results |->
       IF Escapes(m, ops, results[i]) THEN <<results[i]>> ELSE <<>>])

Head0(name, operands) ==
  [ name |-> name, literal |-> "", operands |-> operands, attrs |-> <<>>,
    effect |-> [class |-> "pure", scope |-> AnyScope] ]

\* The control.parallel, in the place of the group's first member, with its
\* region and an empty block.
WithParallel(m, b, ops) ==
  LET outs == [i \in DOMAIN Escaping(m, ops) |-> m.value[Escaping(m, ops)[i]]]
      made == WithOp(m, Head0(Parallel, <<>>), outs)
      placed == Inserted(made, b, Position(m, ops[1]), NewOp(m))
      owning == WithRegion(placed, NewOp(m))
  IN WithBlock(owning, Len(owning.region))

InnerBlock(m, o) == m.region[m.op[o].regions[1]].blocks[1]

\* The outside reads the region's results; then the yield names what it gives.
Outputs(m, o, values) == [v \in ToSet(values) |-> m.op[o].results[CHOOSE i \in DOMAIN values : values[i] = v]]
Renamed(m, values) ==
  [m EXCEPT !.value = [v \in DOMAIN m.value |->
     IF v \in ToSet(values) THEN [m.value[v] EXCEPT !.name = Append(@, "local")] ELSE m.value[v]]]
YieldRedirected(m, o, values) ==  \* mutant: the yield is there when uses are replaced
  LET made == WithOp(Renamed(m, values), Head0(Yield, values), <<>>)
      placed == Appended(made, InnerBlock(m, o), NewOp(m))
  IN IF values = <<>> THEN m ELSE UsesReplaced(placed, Outputs(m, o, values))
Routed(m, o, values) ==
  LET redirected == UsesReplaced(Renamed(m, values), Outputs(m, o, values))
      made == WithOp(redirected, Head0(Yield, values), <<>>)
  IN IF values = <<>> THEN m ELSE Appended(made, InnerBlock(m, o), NewOp(m))

-----------------------------------------------------------------------------
(* The steps.                                                              *)

Start(p, blocks) ==
  /\ pass' = p
  /\ todo' = blocks
  /\ position' = 1 /\ cached' = <<>>
  /\ dead' = {}
  /\ group' = <<>> /\ wrapper' = 0 /\ escaping' = <<>>

Loaded(m) ==
  /\ ir = m /\ before = m
  /\ pass = "deduplication" /\ round = 1 /\ changed = FALSE /\ capped = FALSE
  /\ todo = AllBlocks(m)
  /\ position = 1 /\ cached = <<>>
  /\ dead = {}
  /\ group = <<>> /\ wrapper = 0 /\ escaping = <<>>

PassesInit == \E m \in Modules : Loaded(m)

Here == OpsIn(ir, Head(todo))
Current == Here[position]
Deduplicating == pass = "deduplication" /\ todo # <<>>
Examining == Deduplicating /\ position =< Len(Here)

LeaveBlock ==
  /\ \/ Deduplicating /\ position > Len(Here)
     \/ /\ pass = "parallelization" /\ todo # <<>>
        /\ group = <<>> /\ wrapper = 0
        /\ Runs(ir, Head(todo)) = {}
  /\ Start(pass, Tail(todo))
  /\ UNCHANGED <<ir, before, round, changed, capped>>

Skip ==
  /\ Examining /\ ~Cacheable(ir, Current)
  /\ position' = position + 1
  /\ UNCHANGED <<ir, before, passVars, todo, cached, dead, group, wrapper, escaping>>

Hit == CacheKey(ir, Current) \in DOMAIN cached
Stale == Interfered(ir, cached[CacheKey(ir, Current)], Current)

\* A new key, or one whose result something in between may have changed.
Remember ==
  /\ Examining /\ Cacheable(ir, Current)
  /\ Hit => Stale
  /\ cached' = [k \in DOMAIN cached \cup {CacheKey(ir, Current)} |->
                  IF k = CacheKey(ir, Current) THEN Current ELSE cached[k]]
  /\ position' = position + 1
  /\ UNCHANGED <<ir, before, passVars, todo, dead, group, wrapper, escaping>>

ReuseEarlier ==
  /\ Examining /\ Cacheable(ir, Current)
  /\ Hit /\ ~Stale
  /\ LET earlier == cached[CacheKey(ir, Current)] IN
       /\ ir' = UsesReplaced(ir, Reuse(ir, earlier, Current))
       /\ changed' = (changed \/ Reusable(ir, earlier, Current) # {})
  /\ position' = position + 1
  /\ UNCHANGED <<before, pass, round, capped, todo, cached, dead, group, wrapper, escaping>>

EndDeduplication ==
  /\ pass = "deduplication" /\ todo = <<>>
  /\ Start("elimination", <<>>)
  /\ UNCHANGED <<ir, before, round, changed, capped>>

\* What is dead is found by one walk, and erased before the next; in which
\* order makes no difference to what is left.
Scan ==
  /\ pass = "elimination" /\ dead = {}
  /\ Dead(ir) # {}
  /\ dead' = Dead(ir)
  /\ UNCHANGED <<ir, before, passVars, todo, position, cached, group, wrapper, escaping>>

EraseUnreported ==  \* mutant: the report does not say that anything changed
  /\ pass = "elimination" /\ dead # {}
  /\ \E o \in dead :
       /\ \A d \in dead : o =< d
       /\ ir' = Erased(ir, o)
       /\ dead' = dead \ {o}
  /\ UNCHANGED <<before, passVars, todo, position, cached, group, wrapper, escaping>>
EraseOne ==
  /\ pass = "elimination" /\ dead # {}
  /\ \E o \in dead :
       /\ \A d \in dead : o =< d
       /\ ir' = Erased(ir, o)
       /\ dead' = dead \ {o}
  /\ changed' = TRUE
  /\ UNCHANGED <<before, pass, round, capped, todo, position, cached, group, wrapper, escaping>>

EndElimination ==
  /\ pass = "elimination" /\ dead = {}
  /\ Dead(ir) = {}
  /\ Start("parallelization", Schedulable(ir))
  /\ UNCHANGED <<ir, before, round, changed, capped>>

Wrap ==
  /\ pass = "parallelization" /\ todo # <<>>
  /\ group = <<>> /\ wrapper = 0
  /\ \E b \in DOMAIN ir.block : b = Head(todo) /\ \E r \in Runs(ir, b) :
       LET ops == Group(ir, b, r) IN
         /\ ir' = WithParallel(ir, b, ops)
         /\ group' = ops
         /\ escaping' = Escaping(ir, ops)
  /\ wrapper' = NewOp(ir)
  /\ changed' = TRUE
  /\ UNCHANGED <<before, pass, round, capped, todo, position, cached, dead>>

Move ==
  /\ group # <<>>
  /\ ir' = MovedToEnd(ir, Head(group), InnerBlock(ir, wrapper))
  /\ group' = Tail(group)
  /\ UNCHANGED <<before, passVars, todo, position, cached, dead, wrapper, escaping>>

Route ==
  /\ group = <<>> /\ wrapper # 0
  /\ ir' = Routed(ir, wrapper, escaping)
  /\ wrapper' = 0 /\ escaping' = <<>>
  /\ UNCHANGED <<before, passVars, todo, position, cached, dead, group>>

RoundEnds == pass = "parallelization" /\ todo = <<>>

Converge ==
  /\ RoundEnds /\ ~changed
  /\ Start("done", <<>>)
  /\ UNCHANGED <<ir, before, round, changed, capped>>

HitCap ==
  /\ RoundEnds /\ changed /\ round = MaxRounds
  /\ Start("done", <<>>)
  /\ capped' = TRUE
  /\ UNCHANGED <<ir, before, round, changed>>

AnotherRoundUncounted ==  \* mutant: the cap is never met
  /\ RoundEnds /\ changed
  /\ Start("deduplication", AllBlocks(ir))
  /\ changed' = FALSE
  /\ UNCHANGED <<ir, before, round, capped>>

AnotherRound ==
  /\ RoundEnds /\ changed /\ round < MaxRounds
  /\ Start("deduplication", AllBlocks(ir))
  /\ round' = round + 1
  /\ changed' = FALSE
  /\ UNCHANGED <<ir, before, capped>>

Deduplicate == Skip \/ Remember \/ ReuseEarlier \/ EndDeduplication
Eliminate == Scan \/ EraseOne \/ EndElimination
Parallelize == Wrap \/ Move \/ Route
PassesNext ==
  \/ LeaveBlock \/ Deduplicate \/ Eliminate \/ Parallelize
  \/ Converge \/ HitCap \/ AnotherRound

PassesSpec == PassesInit /\ [][PassesNext]_passesVars

-----------------------------------------------------------------------------
(* Properties.                                                             *)

\* The arenas agree in every state, the states within an edit of a pass
\* included: an operation is listed once, by the block it names; an erased one
\* by none; a region belongs to the operation that has it, a block to the region
\* that lists it, a result to the operation that produces it (module.rs).
ArenaHolds == ArenaAgrees(ir) /\ OwnersAgree(ir)

Survivors == Live(ir) \cap DOMAIN before.op

\* An operation that is still in the program does what it did: the same call,
\* under the same decisions, on operands that stand for the same computations
\* over the same earlier writes (dedup.rs: "when nothing in between could have
\* invalidated it"; parallelize.rs routes what escapes through the yield).
SurvivorsUnchanged ==
  pass = "done" =>
    \A o \in Survivors : o \in Live(before) /\ Computation(ir, o) = Computation(before, o)

\* What certainly ran before an operation that depends on it still does: the
\* order of two conflicting effects is not given up to a control.parallel, nor
\* is a guard's, and an operation still finds what it reads, wherever that comes
\* from now (parallelize.rs, I1, I3 and I4).
OrderKept ==
  pass = "done" =>
    \A o \in Survivors :
      /\ \A p \in Survivors :
           Ahead(before, p, o) =>
             /\ ConflictsWith(before.op[p].effect, before.op[o].effect) => Ahead(ir, p, o)
             /\ p \in Guards(before, o) => p \in Guards(ir, o) /\ Ahead(ir, p, o)
      /\ FindsOperands(before, o) => FindsOperands(ir, o)

\* No write, inference or irreversible action disappears, however deep in a
\* region: what is gone is a computation or a read that has been erased, or has
\* gone with an operation around it that had results and has been erased
\* (dead_action.rs, condition 2).  It is a promise about effects: a statement
\* that has none may go with what holds it, see StatementsSurvive.
OnlyReplayableVanishes ==
  pass = "done" =>
    \A o \in Live(before) \ Live(ir) :
      /\ IsReplayable(before.op[o].effect)
      /\ \E a \in {o} \cup Above(ir)[o] : ir.op[a].erased /\ ir.op[a].results # <<>>

\* An operation that produces nothing exists for what it does or says, and stays
\* in the program (dead_action.rs: "`agent.verify` and `agent.reject` produce
\* nothing and must survive"; condition 1 "keeps the pass from deleting
\* `agent.return`, `agent.verify`, `memory.write`").
IsStatement(m, o) ==
  m.op[o].results = <<>> /\ m.op[o].regions = <<>> /\ NameOf(m, o) # Yield
StatementsSurvive ==
  pass = "done" => \A o \in Live(before) : IsStatement(before, o) => o \in Live(ir)

\* A pipeline that ends without the note that it was stopped has converged: each
\* pass, run once more, would find nothing to do, in what the other two have left
\* (manager.rs: "repeatedly until a full round changes nothing", hit_iteration_cap
\* "instead of converging").  Of several calls under one key it is the first of
\* its block that the others are compared with.
FirstAsked(m, b, p) ==
  /\ Cacheable(m, p)
  /\ \A q \in ToSet(OpsIn(m, b)) :
       Position(m, q) < Position(m, p) /\ Cacheable(m, q) => CacheKey(m, q) # CacheKey(m, p)
Repeats(m, b, p, o) ==
  /\ FirstAsked(m, b, p)
  /\ Cacheable(m, o) /\ CacheKey(m, o) = CacheKey(m, p) /\ Position(m, p) < Position(m, o)
  /\ ~Interfered(m, p, o)
Settled(m, b) ==
  \A p, o \in ToSet(OpsIn(m, b)) : Repeats(m, b, p, o) => Reusable(m, p, o) = {}
Converged(m) ==
  /\ \A b \in ToSet(AllBlocks(m)) : Settled(m, b)
  /\ Dead(m) = {}
  /\ \A b \in ToSet(Schedulable(m)) : Runs(m, b) = {}
UncappedMeansConverged == pass = "done" /\ ~capped => Converged(ir)

\* Every step brings the pipeline closer to its end: in the order of rounds, of
\* passes, and of what the pass has left to do (manager.rs, run; "the pass
\* iterates until nothing more is removable", dead_action.rs).
PassesLeft == CASE pass = "deduplication" -> 3 [] pass = "elimination" -> 2
                [] pass = "parallelization" -> 1 [] pass = "done" -> 0
Remaining ==
  CASE pass = "deduplication" -> <<Len(todo), IF todo = <<>> THEN 0 ELSE Len(Here) + 1 - position, 0>>
    [] pass = "elimination" ->
         <<Cardinality({o \in DOMAIN ir.op : ~ir.op[o].erased}), IF dead = {} THEN 1 ELSE 0, 0>>
    [] pass = "parallelization" ->
         <<Len(todo),
           IF todo = <<>> THEN 0
           ELSE Cardinality({o \in ToSet(Here) : Groupable(ir, o)} \ ToSet(group)),
           Len(group) + IF wrapper = 0 THEN 0 ELSE 1>>
    [] OTHER -> <<0, 0, 0>>
Variant == <<MaxRounds - round, PassesLeft, Remaining[1], Remaining[2], Remaining[3]>>

Smaller(s, t) ==
  \E k \in DOMAIN t : s[k] \in 0..t[k] - 1 /\ \A j \in 1..k - 1 : s[j] = t[j]
=============================================================================
