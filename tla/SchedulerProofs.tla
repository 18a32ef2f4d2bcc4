--------------------------- MODULE SchedulerProofs ---------------------------
(***************************************************************************)
(* Batches are sound for every program: dependent steps never share a      *)
(* batch, and whatever order the steps of a batch run in, each finds the   *)
(* world the program order would have shown it.                            *)
(***************************************************************************)
EXTENDS Scheduler, NaturalSets, FiniteSetTheorems

-----------------------------------------------------------------------------
(* The inductive invariant.                                                *)

LevelsSound ==
  /\ depth \in Seq(Nat)
  /\ Len(depth) =< Len(program.block)
  /\ \A j \in 1..Len(depth) : depth[j] < j
  /\ \A i, j \in 1..Len(depth) : Edge(i, j) => depth[i] < depth[j]

Phased ==
  /\ phase \in {"leveling", "running", "done"}
  /\ phase = "leveling" => started = {} /\ batch = 0
  /\ phase # "leveling" => Len(depth) = Len(program.block)

\* Batches are opened in order, each when all below it have ended.
BatchesInOrder ==
  /\ batch \in 0..2 * Len(program.block)
  /\ ended \subseteq started
  /\ started \subseteq Positions
  /\ \A j \in started : Rank(j) =< batch
  /\ phase # "leveling" => \A j \in Positions : Rank(j) < batch => j \in ended

Outcome ==
  /\ seen \in [Positions -> SUBSET Positions]
  /\ returner \in Positions \cup {0}

Sound ==
  /\ program \in Programs
  /\ LevelsSound
  /\ Phased
  /\ BatchesInOrder
  /\ Outcome
  /\ SeesWhatTheProgramSays
  /\ NothingIsDropped

-----------------------------------------------------------------------------
(* The operators of the graph depend on the program alone.                 *)

LEMMA InsideFixed ==
  ASSUME program' = program, NEW j
  PROVE  Inside(j)' = Inside(j)
BY Zenon DEF Inside

LEMMA ReachesFixed ==
  ASSUME program' = program, NEW i, NEW j
  PROVE  Reaches(i, j)' <=> Reaches(i, j)
<1>1. Inside(i)' = Inside(i) /\ Inside(j)' = Inside(j)
  BY InsideFixed
<1> QED
  BY <1>1, Zenon DEF Reaches

LEMMA EdgeFixed ==
  ASSUME program' = program, NEW i, NEW j
  PROVE  Edge(i, j)' <=> Edge(i, j)
<1>1. Inside(i)' = Inside(i) /\ Inside(j)' = Inside(j)
  BY InsideFixed
<1>2. Conflict(i, j)' <=> Conflict(i, j)
  BY <1>1, Zenon DEF Conflict, Summary
<1>3. Produced(i)' = Produced(i) /\ Reads(j)' = Reads(j)
  BY <1>1, Zenon DEF Produced, Reads
<1> QED
  BY <1>2, <1>3, Zenon DEF Edge

LEMMA PositionsFixed ==
  ASSUME program' = program
  PROVE  Positions' = Positions
BY DEF Positions

LEMMA RankFixed ==
  ASSUME program' = program, depth' = depth, NEW j
  PROVE  Rank(j)' = Rank(j)
BY Zenon DEF Rank, IsTerminator

-----------------------------------------------------------------------------
(* Facts about the graph and the batches in one state.                     *)

\* The block is a sequence and only its last operation may be a terminator.
LEMMA BlockShape ==
  ASSUME program \in Programs
  PROVE  /\ Len(program.block) \in Nat
         /\ \A j \in Positions : IsTerminator(j) => j = Len(program.block)
BY ProgramAssumption DEF Positions, IsTerminator

\* Of a write and what it reaches, the later one depends on the earlier one.
LEMMA ReachIsEdge ==
  ASSUME NEW i, NEW j, Reaches(i, j)
  PROVE  /\ i < j => Edge(i, j)
         /\ j < i => Edge(j, i)
<1>1. PICK o \in Inside(i), p \in Inside(j) :
        IsWrite(o.effect) /\ HasScope(p.effect) /\ Overlap(o.effect.scope, p.effect.scope)
  BY Zenon DEF Reaches
<1>2. HasScope(o.effect)
  BY <1>1 DEF IsWrite, HasScope
<1>3. Overlap(p.effect.scope, o.effect.scope)
  BY <1>1 DEF Overlap
<1>4. ConflictsWith(o.effect, p.effect) /\ ConflictsWith(p.effect, o.effect)
  BY <1>1, <1>2, <1>3, Zenon DEF ConflictsWith
<1>5. Conflict(i, j) /\ Conflict(j, i)
  BY <1>1, <1>4, Zenon DEF Conflict, Summary
<1> QED
  BY <1>5, Zenon DEF Edge

LEMMA RankRange ==
  ASSUME program \in Programs, LevelsSound, Len(depth) = Len(program.block),
         NEW j \in Positions
  PROVE  /\ Rank(j) \in 0..2 * Len(program.block)
         /\ ~IsTerminator(j) => Rank(j) < Len(program.block)
         /\ IsTerminator(j) => Rank(j) = Len(program.block) + j
<1>1. Len(program.block) \in Nat
  BY BlockShape
<1>2. depth[j] \in Nat /\ depth[j] < j
  BY <1>1 DEF LevelsSound, Positions
<1> QED
  BY <1>1, <1>2 DEF Rank, Positions

\* Every edge runs from a lower batch to a higher one (scheduler.rs).
LEMMA EdgesAscend ==
  ASSUME program \in Programs, LevelsSound, Len(depth) = Len(program.block),
         NEW i \in Positions, NEW j \in Positions, Edge(i, j)
  PROVE  Rank(i) < Rank(j)
<1>1. Len(program.block) \in Nat /\ i < j
  BY BlockShape DEF Edge
<1>2. ~IsTerminator(i)
  BY <1>1, BlockShape DEF Positions
<1>3. CASE IsTerminator(j)
  BY <1>1, <1>2, <1>3, RankRange DEF Positions
<1>4. CASE ~IsTerminator(j)
  <2>1. depth[i] < depth[j]
    BY <1>1 DEF LevelsSound, Positions
  <2> QED
    BY <1>2, <1>4, <2>1 DEF Rank
<1> QED
  BY <1>3, <1>4

-----------------------------------------------------------------------------
(* Each action preserves the invariant.                                    *)

LEMMA InitSound == Init => Sound
<1> SUFFICES ASSUME Init PROVE Sound
  OBVIOUS
<1>1. Len(program.block) \in Nat
  BY BlockShape DEF Init
<1>2. depth \in Seq(Nat) /\ Len(depth) = 0
  BY DEF Init
<1> QED
  BY <1>1, <1>2
  DEF Init, Sound, LevelsSound, Phased, BatchesInOrder, Outcome,
      SeesWhatTheProgramSays, NothingIsDropped

LEMMA LevelKeepsSound == Sound /\ Level => Sound'
<1> SUFFICES ASSUME Sound, Level PROVE Sound'
  OBVIOUS
<1> DEFINE l == Len(depth) + 1
<1>1. PICK n \in LevelOf(l) : depth' = Append(depth, n)
  BY Zenon DEF Level
<1>2. /\ program' = program /\ phase' = phase /\ batch' = batch /\ started' = started
      /\ ended' = ended /\ seen' = seen /\ returner' = returner
      /\ phase = "leveling" /\ Len(depth) < Len(program.block)
      /\ started = {} /\ ended = {} /\ batch = 0
  BY DEF Level, Sound, Phased, BatchesInOrder
<1>3. Len(program.block) \in Nat /\ Len(depth) \in Nat /\ Positions = 1..Len(program.block)
  BY BlockShape DEF Sound, LevelsSound, Positions
<1>4. n \in 0..Len(depth) /\ \A i \in Positions : Edge(i, l) => depth[i] < n
  BY <1>3 DEF LevelOf, Predecessors
<1>5. /\ depth' \in Seq(Nat)
      /\ Len(depth') = l
      /\ depth'[l] = n
      /\ \A j \in 1..Len(depth) : depth'[j] = depth[j]
  BY <1>1, <1>3, <1>4 DEF Sound, LevelsSound
<1>6. LevelsSound'
  <2>1. \A j \in 1..l : depth'[j] < j
    <3>1. \A j \in 1..l : j = l \/ j \in 1..Len(depth)
      BY <1>3
    <3>2. \A j \in 1..Len(depth) : depth'[j] < j
      BY <1>5 DEF Sound, LevelsSound
    <3>3. depth'[l] < l
      BY <1>3, <1>4, <1>5
    <3> QED
      BY <3>1, <3>2, <3>3
  <2>2. ASSUME NEW i \in 1..l, NEW j \in 1..l, Edge(i, j)
        PROVE  depth'[i] < depth'[j]
    <3>1. i < j /\ i \in 1..Len(depth) /\ i \in Positions
      BY <1>2, <1>3, <2>2 DEF Edge
    <3>2. CASE j = l
      BY <1>4, <1>5, <2>2, <3>1, <3>2
    <3>3. CASE j # l
      <4>1. j \in 1..Len(depth)
        BY <1>3, <3>3
      <4> QED
        BY <1>5, <2>2, <3>1, <4>1 DEF Sound, LevelsSound
    <3> QED
      BY <3>2, <3>3
  <2>3. \A i, j \in 1..l : Edge(i, j)' => depth'[i] < depth'[j]
    BY <1>2, <2>2, EdgeFixed
  <2> QED
    BY <1>2, <1>3, <1>5, <2>1, <2>3 DEF LevelsSound
<1>7. Phased' /\ Outcome'
  BY <1>2, PositionsFixed DEF Sound, Phased, Outcome
<1>8. BatchesInOrder'
  BY <1>2, <1>3 DEF BatchesInOrder, Positions
<1>9. SeesWhatTheProgramSays' /\ NothingIsDropped'
  BY <1>2 DEF SeesWhatTheProgramSays, NothingIsDropped
<1> QED
  BY <1>2, <1>6, <1>7, <1>8, <1>9 DEF Sound

\* What holds of the levels and of the views survives every step that changes
\* neither the levels nor, for the second, the views.
LEMMA LevelsKept ==
  ASSUME Sound, program' = program, depth' = depth
  PROVE  LevelsSound' /\ program' \in Programs /\ Positions' = Positions
<1>1. \A i, j : Edge(i, j)' <=> Edge(i, j)
  BY EdgeFixed
<1> QED
  BY <1>1, PositionsFixed DEF Sound, LevelsSound

LEMMA ViewsKept ==
  ASSUME Sound, program' = program, started' = started, seen' = seen
  PROVE  SeesWhatTheProgramSays'
<1>1. \A i, j : Reaches(i, j)' <=> Reaches(i, j)
  BY ReachesFixed
<1> QED
  BY <1>1 DEF Sound, SeesWhatTheProgramSays

LEMMA LaunchKeepsSound == Sound /\ Launch => Sound'
<1> SUFFICES ASSUME Sound, Launch PROVE Sound'
  OBVIOUS
<1>1. /\ program' = program /\ depth' = depth /\ batch' = batch /\ started' = started
      /\ ended' = ended /\ seen' = seen /\ returner' = returner
      /\ phase' = "running" /\ Len(depth) = Len(program.block) /\ batch = 0 /\ started = {}
  BY DEF Launch, Sound, Phased
<1>2. LevelsSound' /\ program' \in Programs /\ Positions' = Positions
      /\ SeesWhatTheProgramSays'
  BY <1>1, LevelsKept, ViewsKept
<1>3. \A j \in Positions : Rank(j)' = Rank(j) /\ Rank(j) >= 0
  <2> SUFFICES ASSUME NEW j \in Positions PROVE Rank(j)' = Rank(j) /\ Rank(j) >= 0
    OBVIOUS
  <2>1. Rank(j) \in 0..2 * Len(program.block)
    BY <1>1, RankRange DEF Sound
  <2> QED
    BY <1>1, <2>1, RankFixed, BlockShape DEF Sound
<1>4. BatchesInOrder'
  <2>1. \A j \in Positions : Rank(j) \in Int
    BY <1>1, RankRange DEF Sound
  <2> QED
    BY <1>1, <1>2, <1>3, <2>1 DEF Sound, BatchesInOrder
<1> QED
  BY <1>1, <1>2, <1>4 DEF Sound, Phased, Outcome, NothingIsDropped

LEMMA StartKeepsSound == ASSUME NEW j \in Positions PROVE Sound /\ Start(j) => Sound'
<1> SUFFICES ASSUME Sound, Start(j) PROVE Sound'
  OBVIOUS
<1>1. /\ program' = program /\ depth' = depth /\ phase' = phase /\ batch' = batch
      /\ started' = started \cup {j} /\ ended' = ended /\ returner' = returner
      /\ seen' = [seen EXCEPT ![j] = {i \in ended : Reaches(i, j)}]
      /\ phase = "running" /\ j \notin started /\ Rank(j) = batch
      /\ Len(depth) = Len(program.block)
  BY DEF Start, Sound, Phased
<1>2. LevelsSound' /\ program' \in Programs /\ Positions' = Positions
  BY <1>1, LevelsKept
<1>3. \A i : (Rank(i)' = Rank(i)) /\ (Reaches(i, j)' <=> Reaches(i, j))
  BY <1>1, RankFixed, ReachesFixed
<1>4. \A i \in Positions : Rank(i) \in Int
  BY <1>1, RankRange DEF Sound
<1>5. BatchesInOrder'
  BY <1>1, <1>2, <1>3, <1>4 DEF Sound, BatchesInOrder
<1>6. Outcome'
  BY <1>1, <1>2 DEF Sound, Outcome, BatchesInOrder
<1>7. {i \in ended : Reaches(i, j)} = {i \in 1..j - 1 : Reaches(i, j)}
  <2>1. Len(program.block) \in Nat /\ ended \subseteq Positions /\ j \in 1..Len(program.block)
    BY BlockShape DEF Sound, BatchesInOrder, Positions
  <2>2. ASSUME NEW i \in ended, Reaches(i, j) PROVE i \in 1..j - 1
    <3>1. i \in Positions /\ i # j /\ Rank(i) =< batch
      BY <1>1, <2>1 DEF Sound, BatchesInOrder
    <3>2. CASE j < i
      <4>1. Rank(j) < Rank(i)
        BY <1>1, <2>2, <3>1, <3>2, ReachIsEdge, EdgesAscend DEF Sound
      <4> QED
        BY <1>1, <1>4, <3>1, <4>1
    <3> QED
      BY <2>1, <3>1, <3>2 DEF Positions
  <2>3. ASSUME NEW i \in 1..j - 1, Reaches(i, j) PROVE i \in ended
    <3>1. i \in Positions /\ i < j
      BY <2>1 DEF Positions
    <3>2. Rank(i) < Rank(j)
      BY <1>1, <2>3, <3>1, ReachIsEdge, EdgesAscend DEF Sound
    <3> QED
      BY <1>1, <3>1, <3>2 DEF Sound, BatchesInOrder
  <2> QED
    BY <2>2, <2>3
<1>8. SeesWhatTheProgramSays'
  <2> SUFFICES ASSUME NEW k \in started'
               PROVE  seen'[k] = {i \in 1..k - 1 : Reaches(i, k)'}
    BY DEF SeesWhatTheProgramSays
  <2>1. \A i : Reaches(i, k)' <=> Reaches(i, k)
    BY <1>1, ReachesFixed
  <2>2. k \in Positions
    BY <1>1 DEF Sound, BatchesInOrder
  <2>3. seen'[k] = {i \in 1..k - 1 : Reaches(i, k)}
    BY <1>1, <1>7, <2>2 DEF Sound, Outcome, SeesWhatTheProgramSays
  <2> QED
    BY <2>1, <2>3
<1> QED
  BY <1>1, <1>2, <1>5, <1>6, <1>8 DEF Sound, Phased, NothingIsDropped

LEMMA EndKeepsSound ==
  ASSUME NEW j \in Positions PROVE Sound /\ (End(j) \/ EarlyReturn(j)) => Sound'
<1> SUFFICES ASSUME Sound, End(j) \/ EarlyReturn(j) PROVE Sound'
  OBVIOUS
<1>1. /\ program' = program /\ depth' = depth /\ batch' = batch /\ started' = started
      /\ ended' = ended \cup {j} /\ seen' = seen
      /\ phase = "running" /\ j \in started
      /\ \/ phase' = phase /\ returner' = returner
         \/ phase' = "done" /\ returner' = j
  BY DEF End, EarlyReturn
<1>2. LevelsSound' /\ program' \in Programs /\ Positions' = Positions
      /\ SeesWhatTheProgramSays'
  BY <1>1, LevelsKept, ViewsKept
<1>3. \A i : Rank(i)' = Rank(i)
  BY <1>1, RankFixed
<1>4. BatchesInOrder'
  BY <1>1, <1>2, <1>3 DEF Sound, BatchesInOrder
<1>5. Phased' /\ Outcome'
  BY <1>1, <1>2 DEF Sound, Phased, Outcome
<1>6. NothingIsDropped'
  BY <1>1, <1>2, BlockShape DEF Sound, NothingIsDropped, Positions
<1> QED
  BY <1>2, <1>4, <1>5, <1>6 DEF Sound

\* The next batch is the lowest one left, so nothing below it is passed over.
LEMMA NextBatchKeepsSound == Sound /\ NextBatch => Sound'
<1> SUFFICES ASSUME Sound, NextBatch PROVE Sound'
  OBVIOUS
<1>1. /\ program' = program /\ depth' = depth /\ phase' = phase /\ started' = started
      /\ ended' = ended /\ seen' = seen /\ returner' = returner
      /\ phase = "running" /\ Len(depth) = Len(program.block) /\ Closed
  BY DEF NextBatch, Sound, Phased
<1>2. batch' \in Later /\ \A m \in Later : batch' =< m
  BY DEF NextBatch
<1>3. LevelsSound' /\ program' \in Programs /\ Positions' = Positions
      /\ SeesWhatTheProgramSays'
  BY <1>1, LevelsKept, ViewsKept
<1>4. \A i : Rank(i)' = Rank(i)
  BY <1>1, RankFixed
<1>5. \A i \in Positions : Rank(i) \in 0..2 * Len(program.block)
  BY <1>1, RankRange DEF Sound
<1>6. Len(program.block) \in Nat /\ batch \in Int
  BY BlockShape DEF Sound, BatchesInOrder
<1>7. batch' \in 0..2 * Len(program.block) /\ batch' > batch
  BY <1>2, <1>6 DEF Later
<1>8. ASSUME NEW i \in Positions, Rank(i) < batch' PROVE i \in ended
  <2>1. Rank(i) =< batch
    BY <1>2, <1>5, <1>6, <1>7, <1>8 DEF Later
  <2>2. CASE Rank(i) = batch
    BY <1>1, <2>2 DEF Closed
  <2>3. CASE Rank(i) < batch
    BY <1>1, <2>3 DEF Sound, BatchesInOrder
  <2> QED
    BY <1>5, <1>6, <2>1, <2>2, <2>3
<1>9. BatchesInOrder'
  <2>1. \A i \in started : Rank(i) =< batch'
    BY <1>5, <1>6, <1>7 DEF Sound, BatchesInOrder
  <2> QED
    BY <1>1, <1>3, <1>4, <1>7, <1>8, <2>1 DEF Sound, BatchesInOrder
<1> QED
  BY <1>1, <1>3, <1>9 DEF Sound, Phased, Outcome, NothingIsDropped

LEMMA FinishKeepsSound == Sound /\ Finish => Sound'
<1> SUFFICES ASSUME Sound, Finish PROVE Sound'
  OBVIOUS
<1>1. /\ program' = program /\ depth' = depth /\ phase' = "done" /\ started' = started
      /\ ended' = ended /\ batch' = batch /\ seen' = seen /\ returner' = returner
      /\ phase = "running" /\ Len(depth) = Len(program.block) /\ Closed /\ Later = {}
  BY DEF Finish, Sound, Phased
<1>2. LevelsSound' /\ program' \in Programs /\ Positions' = Positions
      /\ SeesWhatTheProgramSays'
  BY <1>1, LevelsKept, ViewsKept
<1>3. \A i : Rank(i)' = Rank(i)
  BY <1>1, RankFixed
<1>4. ASSUME NEW i \in Positions PROVE i \in ended
  <2>1. Rank(i) \in 0..2 * Len(program.block) /\ batch \in Int
    BY <1>1, RankRange, BlockShape DEF Sound, BatchesInOrder
  <2>2. ~(Rank(i) > batch)
    BY <1>1, <2>1 DEF Later
  <2>3. CASE Rank(i) = batch
    BY <1>1, <2>3 DEF Closed
  <2>4. CASE Rank(i) < batch
    BY <1>1, <2>4 DEF Sound, BatchesInOrder
  <2> QED
    BY <2>1, <2>2, <2>3, <2>4, BlockShape DEF Sound
<1>5. NothingIsDropped'
  BY <1>1, <1>2, <1>4 DEF Sound, BatchesInOrder, NothingIsDropped
<1> QED
  BY <1>1, <1>2, <1>3, <1>5 DEF Sound, Phased, Outcome, BatchesInOrder

LEMMA StutterKeepsSound == Sound /\ UNCHANGED vars => Sound'
<1> SUFFICES ASSUME Sound, UNCHANGED vars PROVE Sound'
  OBVIOUS
<1>1. UNCHANGED <<program, depth, phase, batch, started, ended, seen, returner>>
  BY DEF vars
<1>2. LevelsSound' /\ program' \in Programs /\ Positions' = Positions
      /\ SeesWhatTheProgramSays'
  BY <1>1, LevelsKept, ViewsKept
<1>3. \A i : Rank(i)' = Rank(i)
  BY <1>1, RankFixed
<1> QED
  BY <1>1, <1>2, <1>3 DEF Sound, Phased, Outcome, BatchesInOrder, NothingIsDropped

LEMMA NextKeepsSound == Sound /\ [Next]_vars => Sound'
<1> SUFFICES ASSUME Sound, [Next]_vars PROVE Sound'
  OBVIOUS
<1>1. CASE Level
  BY <1>1, LevelKeepsSound
<1>2. CASE Launch
  BY <1>2, LaunchKeepsSound
<1>3. CASE NextBatch
  BY <1>3, NextBatchKeepsSound
<1>4. CASE Finish
  BY <1>4, FinishKeepsSound
<1>5. ASSUME NEW j \in Positions, Start(j) \/ End(j) \/ EarlyReturn(j) PROVE Sound'
  BY <1>5, StartKeepsSound, EndKeepsSound
<1>6. CASE UNCHANGED vars
  BY <1>6, StutterKeepsSound
<1> QED
  BY <1>1, <1>2, <1>3, <1>4, <1>5, <1>6 DEF Next, Terminated

THEOREM AlwaysSound == Spec => []Sound
BY InitSound, NextKeepsSound, PTL DEF Spec

-----------------------------------------------------------------------------
(* What follows.                                                           *)

\* Type correctness of the scheduler and the run, for every program.
THEOREM TypeCorrect == Spec => []TypeOK
<1>1. Sound => TypeOK
  <2> SUFFICES ASSUME Sound PROVE TypeOK
    OBVIOUS
  <2>1. \A j \in DOMAIN depth : depth[j] \in 0..j - 1
    BY DEF Sound, LevelsSound
  <2> QED
    BY <2>1 DEF Sound, LevelsSound, Phased, BatchesInOrder, Outcome, TypeOK
<1> QED
  BY <1>1, AlwaysSound, PTL

\* Serializability of batches: in every program and every interleaving of the
\* steps of a batch, a step finds exactly the writes the program puts before it.
THEOREM BatchesAreSerializable == Spec => []SeesWhatTheProgramSays
<1>1. Sound => SeesWhatTheProgramSays
  BY DEF Sound
<1> QED
  BY <1>1, AlwaysSound, PTL

\* A run that reaches its end ran every operation of the block.
THEOREM EveryStepRuns == Spec => []NothingIsDropped
<1>1. Sound => NothingIsDropped
  BY DEF Sound
<1> QED
  BY <1>1, AlwaysSound, PTL

\* A terminator runs last and on its own, whatever its level.
THEOREM TerminatorsRunLast == Spec => []TerminatorRunsAlone
<1>1. Sound => TerminatorRunsAlone
  <2> SUFFICES ASSUME Sound, NEW t \in started, IsTerminator(t), NEW j \in Positions \ {t}
               PROVE  j \in ended
    BY Zenon DEF TerminatorRunsAlone
  <2>1. t \in Positions /\ phase # "leveling" /\ Len(depth) = Len(program.block)
    BY DEF Sound, Phased, BatchesInOrder
  <2>2. ~IsTerminator(j)
    BY <2>1, BlockShape DEF Sound
  <2>3. Rank(j) < Rank(t)
    BY <2>1, <2>2, RankRange, BlockShape DEF Sound, Positions
  <2>4. Rank(t) =< batch /\ Rank(j) \in Int /\ Rank(t) \in Int /\ batch \in Int
    BY <2>1, RankRange DEF Sound, BatchesInOrder
  <2> QED
    BY <2>1, <2>3, <2>4 DEF Sound, BatchesInOrder
<1> QED
  BY <1>1, AlwaysSound, PTL

\* A producer before a step in the block is in an earlier batch, and there is
\* none behind it.
LEMMA ProducersHaveEnded ==
  ASSUME Sound, NEW j \in started, NEW i \in Positions, NEW v \in Reads(j), v \in Produced(i)
  PROVE  i \in ended \cup {j}
<1>1. /\ j \in Positions /\ Rank(j) =< batch /\ phase # "leveling"
      /\ Len(depth) = Len(program.block) /\ Len(program.block) \in Nat
  BY BlockShape DEF Sound, Phased, BatchesInOrder
<1>2. ~(j < i)
  <2>1. PICK o \in Inside(j), q \in Inside(i) : v \in o.operands /\ v \in q.results
    BY Zenon DEF Reads, Produced
  <2>2. program \in Programs /\ i \in DOMAIN program.block /\ j \in DOMAIN program.block
    BY <1>1, ProgramAssumption DEF Sound, Positions
  <2> QED
    BY <2>1, <2>2, DominanceAssumption, Zenon DEF Inside
<1>3. CASE i < j
  <2>1. Edge(i, j)
    BY <1>3, Zenon DEF Edge
  <2>2. Rank(i) < Rank(j)
    BY <1>1, <2>1, EdgesAscend DEF Sound
  <2>3. Rank(i) \in Int /\ Rank(j) \in Int /\ batch \in Int
    BY <1>1, RankRange DEF Sound, BatchesInOrder
  <2> QED
    BY <1>1, <2>2, <2>3 DEF Sound, BatchesInOrder
<1> QED
  BY <1>1, <1>2, <1>3 DEF Positions

\* Whatever a started step reads, itself or in its regions, is bound.
THEOREM ValuesAreBound == Spec => []OperandsAreBound
<1>1. ASSUME Sound, NEW j \in started
      PROVE  Reads(j) \cap (UNION {Produced(i) : i \in Positions})
               \subseteq UNION {Produced(i) : i \in ended \cup {j}}
  <2>1. \A i \in Positions : \A v \in Reads(j) : v \in Produced(i) => i \in ended \cup {j}
    BY <1>1, ProducersHaveEnded
  <2> QED
    BY <2>1, SMT
<1>2. ASSUME Sound PROVE OperandsAreBound
  <2>1. \A j \in started : Reads(j) \cap (UNION {Produced(i) : i \in Positions})
                             \subseteq UNION {Produced(i) : i \in ended \cup {j}}
    BY <1>1, <1>2
  <2> QED
    BY <2>1, Zenon DEF OperandsAreBound, Reads
<1> QED
  BY <1>2, AlwaysSound, PTL
-----------------------------------------------------------------------------
(* Levels are longest chains.                                              *)

\* The chains of dependencies that end in an operation.
ChainsTo(j) == {s \in SUBSET (1..j) : j \in s /\ Chain(s)}

Longest(j, n) ==
  /\ \E s \in ChainsTo(j) : Cardinality(s) - 1 = n
  /\ \A s \in ChainsTo(j) : Cardinality(s) - 1 =< n

LEMMA ChainFinite ==
  ASSUME NEW j \in Nat, NEW s \in ChainsTo(j)
  PROVE  IsFiniteSet(s) /\ Cardinality(s) \in Nat
<1>1. IsFiniteSet(1..j)
  BY FS_Interval
<1> QED
  BY <1>1, FS_Subset, FS_CardinalityType DEF ChainsTo

\* An operation by itself.
LEMMA ShortestChain ==
  ASSUME NEW j \in Nat \ {0}
  PROVE  {j} \in ChainsTo(j) /\ Cardinality({j}) = 1
<1>1. \A i, k \in {j} : ~ (i < k)
  OBVIOUS
<1>2. Chain({j})
  BY <1>1, Zenon DEF Chain
<1>3. {j} \in SUBSET (1..j) /\ j \in {j}
  OBVIOUS
<1>4. Cardinality({j}) = 1
  BY FS_Singleton, Zenon
<1> QED
  BY <1>2, <1>3, <1>4, Zenon DEF ChainsTo

\* A chain to a predecessor goes on to the operation.
LEMMA ChainGrows ==
  ASSUME NEW i \in Nat, NEW j \in Nat, Edge(i, j), NEW s \in ChainsTo(i)
  PROVE  /\ s \cup {j} \in ChainsTo(j)
         /\ Cardinality(s \cup {j}) = Cardinality(s) + 1
<1>1. i < j /\ s \subseteq 1..i /\ i \in s
  BY DEF Edge, ChainsTo
<1>2. ASSUME NEW a \in s \cup {j}, NEW b \in s \cup {j}, a < b,
             \A m \in s \cup {j} : m =< a \/ m >= b
      PROVE  Edge(a, b)
  <2>1. a \in s /\ a =< i /\ a \in Nat
    BY <1>1, <1>2
  <2>2. CASE b = j
    <3>1. i =< a
      BY <1>1, <1>2, <2>2
    <3>2. a = i
      BY <2>1, <3>1
    <3> QED
      BY <2>2, <3>2
  <2>3. CASE b \in s
    <3>1. Chain(s) /\ \A m \in s : m =< a \/ m >= b
      BY <1>2 DEF ChainsTo
    <3> QED
      BY <1>2, <2>1, <2>3, <3>1, Zenon DEF Chain
  <2> QED
    BY <2>2, <2>3
<1>3. Chain(s \cup {j})
  BY <1>2, Zenon DEF Chain
<1>4. s \cup {j} \in SUBSET (1..j) /\ j \notin s
  BY <1>1
<1> QED
  BY <1>3, <1>4, ChainFinite, FS_AddElement DEF ChainsTo

\* A chain of more than the operation itself comes from a predecessor.
LEMMA ChainShrinks ==
  ASSUME NEW j \in Nat, NEW s \in ChainsTo(j), s # {j}
  PROVE  \E i \in 1..j - 1 : /\ Edge(i, j)
                             /\ s \ {j} \in ChainsTo(i)
                             /\ Cardinality(s) = Cardinality(s \ {j}) + 1
<1>1. s \subseteq 1..j /\ j \in s /\ Chain(s)
  BY DEF ChainsTo
<1>2. j - 1 \in Nat /\ s \ {j} \subseteq 1..j - 1 /\ s \ {j} # {}
  BY <1>1
<1>3. PICK i \in s \ {j} : \A y \in s \ {j} : y =< i
  BY <1>2, GreatestElement
<1>4. i \in 1..j - 1 /\ i < j /\ i \in s
  BY <1>2
<1>5. Edge(i, j)
  <2>1. \A m \in s : m =< i \/ m >= j
    BY <1>1, <1>3
  <2> QED
    BY <1>1, <1>4, <2>1, Zenon DEF Chain
<1>6. ASSUME NEW a \in s \ {j}, NEW b \in s \ {j}, a < b,
             \A m \in s \ {j} : m =< a \/ m >= b
      PROVE  Edge(a, b)
  <2>1. \A m \in s : m =< a \/ m >= b
    BY <1>1, <1>2, <1>6
  <2> QED
    BY <1>1, <1>6, <2>1, Zenon DEF Chain
<1>7. Chain(s \ {j})
  BY <1>6, Zenon DEF Chain
<1>8. s \ {j} \in SUBSET (1..i)
  BY <1>2, <1>3, <1>4
<1>9. Cardinality(s) = Cardinality(s \ {j}) + 1
  <2>1. IsFiniteSet(s) /\ Cardinality(s) \in Nat
    BY ChainFinite
  <2>2. Cardinality(s \ {j}) = Cardinality(s) - 1
    BY <1>1, <2>1, FS_RemoveElement
  <2> QED
    BY <2>1, <2>2
<1> QED
  BY <1>3, <1>4, <1>5, <1>7, <1>8, <1>9 DEF ChainsTo

LEMMA LongestFixed ==
  ASSUME program' = program, NEW j, NEW n
  PROVE  Longest(j, n)' <=> Longest(j, n)
<1>1. \A a, b : Edge(a, b)' <=> Edge(a, b)
  BY EdgeFixed
<1>2. \A s : Chain(s)' <=> Chain(s)
  BY <1>1, Zenon DEF Chain
<1>3. ChainsTo(j)' = ChainsTo(j)
  BY <1>2 DEF ChainsTo
<1> QED
  BY <1>3, Zenon DEF Longest

LevelsLongest == \A j \in 1..Len(depth) : Longest(j, depth[j])

LEMMA LevelIsLongest ==
  ASSUME Sound, LevelsLongest, NEW j \in Nat, j = Len(depth) + 1, j \in Positions,
         NEW n \in LevelOf(j)
  PROVE  Longest(j, n)
<1>1. \A i \in Nat : Edge(i, j) /\ i # 0 =>
         i \in 1..Len(depth) /\ i \in Predecessors(j) /\ depth[i] < n
  <2>1. \A i \in Nat : Edge(i, j) /\ i # 0 => i \in 1..Len(depth) /\ i \in Positions
    BY BlockShape DEF Sound, LevelsSound, Positions, Edge
  <2> QED
    BY <2>1 DEF LevelOf, Predecessors
<1>2. n \in Nat /\ (n = 0 \/ \E i \in Predecessors(j) : n = depth[i] + 1)
  <2>1. n \in Nat
    BY DEF LevelOf
  <2>2. n = 0 \/ \E i \in Predecessors(j) : n = depth[i] + 1
    BY Zenon DEF LevelOf
  <2> QED
    BY <2>1, <2>2
<1>3. \E s \in ChainsTo(j) : Cardinality(s) - 1 = n
  <2>1. CASE n = 0
    <3>1. j \in Nat \ {0}
      BY DEF Sound, LevelsSound
    <3>2. {j} \in ChainsTo(j) /\ Cardinality({j}) = 1
      BY <3>1, ShortestChain
    <3>3. Cardinality({j}) - 1 = n
      BY <2>1, <3>2
    <3> QED
      BY <3>2, <3>3
  <2>2. CASE n # 0
    <3>1. PICK i \in Predecessors(j) : n = depth[i] + 1
      BY <1>2, <2>2
    <3>2. i \in Nat /\ Edge(i, j) /\ i \in 1..Len(depth)
      BY <1>1, BlockShape DEF Sound, Predecessors, Positions
    <3>3. PICK s \in ChainsTo(i) : Cardinality(s) - 1 = depth[i]
      BY <3>2 DEF LevelsLongest, Longest
    <3>4. /\ s \cup {j} \in ChainsTo(j)
          /\ Cardinality(s \cup {j}) = Cardinality(s) + 1
          /\ Cardinality(s) \in Nat
      BY <3>2, ChainGrows, ChainFinite
    <3>5. Cardinality(s \cup {j}) - 1 = n
      BY <3>1, <3>3, <3>4
    <3> QED
      BY <3>4, <3>5
  <2> QED
    BY <2>1, <2>2
<1>4. ASSUME NEW s \in ChainsTo(j) PROVE Cardinality(s) - 1 =< n
  <2>1. CASE s = {j}
    BY <1>2, <2>1, ShortestChain
  <2>2. CASE s # {j}
    <3>1. PICK i \in 1..j - 1 : /\ Edge(i, j)
                                /\ s \ {j} \in ChainsTo(i)
                                /\ Cardinality(s) = Cardinality(s \ {j}) + 1
      BY <2>2, ChainShrinks
    <3>2. i \in 1..Len(depth) /\ depth[i] < n /\ i \in Nat
      BY <1>1, <3>1
    <3>3. Cardinality(s \ {j}) - 1 =< depth[i] /\ Cardinality(s \ {j}) \in Nat
      BY <3>1, <3>2, ChainFinite DEF LevelsLongest, Longest
    <3>4. depth[i] \in Nat
      BY <3>2 DEF Sound, LevelsSound
    <3> QED
      BY <1>2, <3>1, <3>2, <3>3, <3>4
  <2> QED
    BY <2>1, <2>2
<1> QED
  BY <1>3, <1>4, Zenon DEF Longest

LEMMA NextKeepsLongest ==
  ASSUME Sound, LevelsLongest, [Next]_vars
  PROVE  LevelsLongest'
<1>1. CASE program' = program /\ depth' = depth
  BY <1>1, LongestFixed DEF LevelsLongest
<1>2. CASE Level
  <2> DEFINE l == Len(depth) + 1
  <2>1. PICK n \in LevelOf(l) : depth' = Append(depth, n)
    BY <1>2, Zenon DEF Level
  <2>2. program' = program /\ l \in Nat /\ l \in Positions /\ n \in Nat
    BY <1>2, <2>1, BlockShape DEF Level, Sound, LevelsSound, Positions, LevelOf
  <2>3. /\ Len(depth') = l /\ depth'[l] = n
        /\ \A j \in 1..Len(depth) : depth'[j] = depth[j]
    BY <2>1, <2>2 DEF Sound, LevelsSound
  <2>4. Longest(l, n)
    BY <2>1, <2>2, LevelIsLongest
  <2>5. \A j \in 1..l : Longest(j, depth'[j])
    <3>1. \A j \in 1..l : j = l \/ j \in 1..Len(depth)
      BY <2>2
    <3> QED
      BY <2>3, <2>4, <3>1 DEF LevelsLongest
  <2>6. \A j \in 1..l : Longest(j, depth[j])'
    BY <2>2, <2>5, LongestFixed
  <2> QED
    BY <2>3, <2>6 DEF LevelsLongest
<1>3. (program' = program /\ depth' = depth) \/ Level
  BY DEF Next, Launch, NextBatch, Finish, Start, End, EarlyReturn, Terminated, vars
<1> QED
  BY <1>1, <1>2, <1>3

\* Level n holds exactly the operations whose longest dependency chain has n
\* edges: the scheduler wastes no batch, whatever the program.
THEOREM LevelsAreExact == Spec => []LevelsAreLongestChains
<1>1. Init => LevelsLongest
  <2> SUFFICES ASSUME Init PROVE LevelsLongest
    OBVIOUS
  <2>1. 1..Len(depth) = {}
    BY DEF Init
  <2> QED
    BY <2>1 DEF LevelsLongest
<1>2. Sound /\ LevelsLongest /\ [Next]_vars => LevelsLongest'
  BY NextKeepsLongest
<1>3. Sound /\ LevelsLongest => LevelsAreLongestChains
  <2> SUFFICES ASSUME Sound, LevelsLongest, NEW j \in DOMAIN depth
               PROVE  LET lengths == {Cardinality(s) - 1 : s \in ChainsTo(j)}
                      IN depth[j] \in lengths /\ \A n \in lengths : n =< depth[j]
    BY Zenon DEF LevelsAreLongestChains, ChainsTo
  <2>1. Longest(j, depth[j])
    BY DEF Sound, LevelsSound, LevelsLongest
  <2> QED
    BY <2>1, Zenon DEF Longest
<1> QED
  BY <1>1, <1>2, <1>3, AlwaysSound, PTL DEF Spec
=============================================================================
