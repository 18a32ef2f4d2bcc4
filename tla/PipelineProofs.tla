--------------------------- MODULE PipelineProofs ---------------------------
(***************************************************************************)
(* What holds of every pipeline besides the agreement of the arenas: each  *)
(* step brings it closer to its end, what holds an operation stands above  *)
(* it, what is lost may be lost, and what is not capped has converged.     *)
(***************************************************************************)
EXTENDS ArenaProofs, FiniteSetTheorems

-----------------------------------------------------------------------------
(* The blocks a pass has yet to visit are blocks of the module.            *)

LEMMA BlocksOfRegions ==
  ASSUME NEW m, Arena(m), OwnersAgree(m)
  PROVE  /\ \A r \in DOMAIN m.region : m.region[r].blocks \in Seq(DOMAIN m.block)
         /\ AllBlocks(m) \in Seq(DOMAIN m.block)
         /\ Schedulable(m) \in Seq(DOMAIN m.block)
<1> DEFINE B == DOMAIN m.block
           all == [r \in DOMAIN m.region |-> m.region[r].blocks]
           some == [r \in DOMAIN m.region |-> IF IsParallel(m, r) THEN <<>> ELSE m.region[r].blocks]
<1>1. ASSUME NEW r \in DOMAIN m.region PROVE m.region[r].blocks \in Seq(B)
  <2>1. m.region[r].blocks \in Seq(Nat)
    BY DEF Arena, IsModule, IsRegion
  <2>2. \A i \in DOMAIN m.region[r].blocks : m.region[r].blocks[i] \in B
    BY DEF OwnersAgree, BlocksPlaced, ToSet
  <2> HIDE DEF B
  <2> QED
    BY <2>1, <2>2
<1>2. DOMAIN m.region = 1..Len(m.region) /\ Len(m.region) \in Nat
  BY ArenaShape DEF Arena
<1> HIDE DEF B
<1>3. all \in Seq(Seq(B))
  <2>1. all \in [1..Len(m.region) -> Seq(B)]
    BY <1>1, <1>2
  <2> HIDE DEF all
  <2> QED
    BY <1>2, <2>1, ListedFunction
<1>4. some \in Seq(Seq(B))
  <2>1. <<>> \in Seq(B)
    OBVIOUS
  <2>2. some \in [1..Len(m.region) -> Seq(B)]
    BY <1>1, <1>2, <2>1
  <2> HIDE DEF some
  <2> QED
    BY <1>2, <2>2, ListedFunction
<1>5. AllBlocks(m) = FlattenSeq(all) /\ Schedulable(m) = FlattenSeq(some)
  BY DEF AllBlocks, Schedulable
<1> HIDE DEF all, some
<1>6. AllBlocks(m) \in Seq(B) /\ Schedulable(m) \in Seq(B)
  BY <1>3, <1>4, <1>5, Flattening
<1> QED
  BY <1>1, <1>6 DEF B

-----------------------------------------------------------------------------
(* Progress.                                                               *)

\* The measures are natural numbers: the pass is one of the four, a round is one
\* of those allowed, what is to be visited are blocks, what is to be erased is
\* not erased yet, and the wrapper's block is not the block it stands in.
ProgressInv ==
  /\ ArenaInv
  /\ round \in 1..MaxRounds
  /\ pass \in {"deduplication", "elimination", "parallelization", "done"}
  /\ position \in Nat
  /\ todo \in Seq(DOMAIN ir.block)
  /\ \A o \in dead : ~ir.op[o].erased
  /\ wrapper # 0 => todo # <<>> /\ InnerBlock(ir, wrapper) # Head(todo)

LEMMA ProgressInvInit ==
  ASSUME NEW m, Loaded(m), Arena(m), OwnersAgree(m), RegionsFilled(m)
  PROVE  ProgressInv
<1>1. ArenaInv
  BY SequencesAreLists DEF Loaded, ArenaInv
<1>2. todo \in Seq(DOMAIN ir.block)
  BY BlocksOfRegions DEF Loaded
<1> QED
  BY <1>1, <1>2, RoundsAssumption DEF Loaded, ProgressInv

\* A step that starts anew, on a part of what is there.
LEMMA StartsAfresh ==
  ASSUME NEW p, NEW blocks \in Seq(DOMAIN ir.block), Start(p, blocks),
         p \in {"deduplication", "elimination", "parallelization", "done"},
         ir' = ir, round' \in 1..MaxRounds, ArenaInv'
  PROVE  ProgressInv'
BY DEF Start, ProgressInv

LEMMA ProgressInvStep == ProgressInv /\ [PassesNext]_passesVars => ProgressInv'
<1> SUFFICES ASSUME ProgressInv, [PassesNext]_passesVars PROVE ProgressInv'
  OBVIOUS
<1>a. ArenaInv /\ ArenaInv'
  <2>1. ArenaInv
    BY DEF ProgressInv
  <2> QED
    BY <2>1, ArenaInvStep
<1>b. Arena(ir) /\ OwnersAgree(ir)
  BY <1>a DEF ArenaInv
<1>c. round \in 1..MaxRounds /\ MaxRounds \in Nat
  BY RoundsAssumption DEF ProgressInv
<1>d. /\ <<>> \in Seq(DOMAIN ir.block)
      /\ AllBlocks(ir) \in Seq(DOMAIN ir.block) /\ Schedulable(ir) \in Seq(DOMAIN ir.block)
  BY <1>b, BlocksOfRegions
<1>1. CASE UNCHANGED passesVars
  BY <1>1, <1>a DEF passesVars, local, ProgressInv, InnerBlock
<1>2. CASE LeaveBlock
  <2>1. /\ Start(pass, Tail(todo)) /\ ir' = ir /\ round' = round
        /\ todo \in Seq(DOMAIN ir.block) /\ todo # <<>>
        /\ pass \in {"deduplication", "elimination", "parallelization", "done"}
    BY <1>2 DEF LeaveBlock, Deduplicating, ProgressInv
  <2>2. Tail(todo) \in Seq(DOMAIN ir.block)
    BY <2>1
  <2> QED
    BY <1>a, <1>c, <2>1, <2>2, StartsAfresh
<1>3. CASE Skip
  BY <1>3, <1>a DEF Skip, passVars, ProgressInv
<1>4. CASE Remember
  BY <1>4, <1>a DEF Remember, passVars, ProgressInv
<1>5. CASE ReuseEarlier
  <2>1. PICK to : ir' = UsesReplaced(ir, to)
    BY <1>5 DEF ReuseEarlier
  <2>2. /\ \A o \in DOMAIN ir.op : /\ ir'.op[o].erased = ir.op[o].erased
                                   /\ ir'.op[o].regions = ir.op[o].regions
        /\ ir'.block = ir.block /\ ir'.region = ir.region
    BY <1>b, <2>1, RedirectingKeepsArena
  <2>3. /\ UNCHANGED <<pass, round, todo, dead, wrapper>> /\ position' = position + 1
    BY <1>5 DEF ReuseEarlier
  <2>4. \A o \in dead' : ~ir'.op[o].erased
    BY <1>a, <2>2, <2>3 DEF ArenaInv, ProgressInv
  <2>5. wrapper' = 0
    BY <1>5, <1>a, <2>3 DEF ReuseEarlier, Examining, Deduplicating, ArenaInv
  <2> QED
    BY <1>a, <2>2, <2>3, <2>4, <2>5 DEF ProgressInv
<1>6. CASE EndDeduplication
  <2>1. Start("elimination", <<>>) /\ ir' = ir /\ round' = round
    BY <1>6 DEF EndDeduplication
  <2> QED
    BY <1>a, <1>c, <1>d, <2>1, StartsAfresh
<1>7. CASE Scan
  <2>1. \A o \in dead' : ~ir.op[o].erased
    BY <1>7 DEF Scan, Dead, Live
  <2> QED
    BY <1>7, <1>a, <2>1 DEF Scan, passVars, ProgressInv
<1>8. CASE EraseOne
  <2>1. PICK o \in dead : ir' = Erased(ir, o) /\ dead' = dead \ {o}
    BY <1>8 DEF EraseOne
  <2>2. o \in DOMAIN ir.op /\ dead \subseteq DOMAIN ir.op
    BY <1>a, <2>1 DEF ArenaInv
  <2>3. /\ DOMAIN ir'.block = DOMAIN ir.block
        /\ \A x \in DOMAIN ir.op : x # o => ir'.op[x].erased = ir.op[x].erased
    BY <1>b, <2>1, <2>2, ErasingKeepsArena
  <2>4. UNCHANGED <<pass, round, todo, position, wrapper>> /\ wrapper = 0
    BY <1>8, <1>a DEF EraseOne, ArenaInv
  <2>5. \A x \in dead' : ~ir'.op[x].erased
    BY <2>1, <2>2, <2>3 DEF ProgressInv
  <2> QED
    BY <1>a, <2>3, <2>4, <2>5 DEF ProgressInv
<1>9. CASE EndElimination
  <2>1. Start("parallelization", Schedulable(ir)) /\ ir' = ir /\ round' = round
    BY <1>9 DEF EndElimination
  <2> QED
    BY <1>a, <1>c, <1>d, <2>1, StartsAfresh
<1>10. CASE Wrap
  <2>1. PICK b \in DOMAIN ir.block : b = Head(todo) /\ \E r \in Runs(ir, b) :
          ir' = WithParallel(ir, b, Group(ir, b, r)) /\ group' = Group(ir, b, r)
    BY <1>10 DEF Wrap
  <2>2. PICK r \in Runs(ir, b) :
          ir' = WithParallel(ir, b, Group(ir, b, r)) /\ group' = Group(ir, b, r)
    BY <2>1
  <2>3. Grows(ir, ir') /\ InnerBlock(ir', NewOp(ir)) \notin DOMAIN ir.block
    <3>1. group' \in Seq(DOMAIN ir.op) /\ group'[1] \in ToSet(ir.block[b].ops)
      BY <1>b, <2>2, RunIsListed, ListedOperations
    <3> QED
      BY <1>a, <2>2, <3>1, WrappingKeepsArena DEF ArenaInv
  <2>4. /\ UNCHANGED <<pass, round, todo, position, dead>> /\ todo # <<>>
        /\ wrapper' = NewOp(ir) /\ pass = "parallelization"
    BY <1>10 DEF Wrap
  <2>5. todo' \in Seq(DOMAIN ir'.block)
    BY <2>3, <2>4 DEF Grows, ProgressInv
  <2>6. dead' = {}
    BY <1>a, <2>4 DEF ArenaInv
  <2>7. InnerBlock(ir', wrapper') # Head(todo')
    BY <2>1, <2>3, <2>4
  <2> QED
    BY <1>a, <2>4, <2>5, <2>6, <2>7 DEF ProgressInv
<1>11. CASE Move
  <2> DEFINE o == Head(group)
             b == InnerBlock(ir, wrapper)
  <2>1. /\ group # <<>> /\ ir' = MovedToEnd(ir, o, b)
        /\ UNCHANGED <<dead, wrapper, pass, round, todo, position>>
    BY <1>11 DEF Move, passVars
  <2>2. wrapper # 0 /\ IsWrapper(ir, wrapper) /\ dead = {}
    BY <1>a, <2>1 DEF ArenaInv
  <2>3. o \in DOMAIN ir.op /\ ~ir.op[o].erased /\ b \in DOMAIN ir.block
    <3>1. 1 \in DOMAIN group /\ o = group[1]
      BY <1>a, <2>1 DEF ArenaInv
    <3> QED
      BY <1>a, <2>2, <3>1 DEF ArenaInv, IsWrapper
  <2>4. SameNesting(ir, ir')
    BY <1>b, <2>1, <2>3, MovingKeepsArena
  <2>5. InnerBlock(ir', wrapper) = b
    BY <2>2, <2>4 DEF SameNesting, IsWrapper, InnerBlock
  <2> QED
    BY <1>a, <2>1, <2>2, <2>4, <2>5 DEF ProgressInv, SameNesting
<1>12. CASE Route
  <2>1. /\ ir' = Routed(ir, wrapper, escaping) /\ wrapper # 0
        /\ wrapper' = 0 /\ UNCHANGED <<dead, pass, round, todo, position>>
    BY <1>12 DEF Route, passVars
  <2>2. DOMAIN ir'.block = DOMAIN ir.block
    BY <1>a, <2>1, RoutingKeepsArena DEF ArenaInv
  <2>3. dead' = {}
    BY <1>a, <2>1 DEF ArenaInv
  <2> QED
    BY <1>a, <2>1, <2>2, <2>3 DEF ProgressInv
<1>13. CASE Converge
  <2>1. Start("done", <<>>) /\ ir' = ir /\ round' = round
    BY <1>13 DEF Converge
  <2> QED
    BY <1>a, <1>c, <1>d, <2>1, StartsAfresh
<1>14. CASE HitCap
  <2>1. Start("done", <<>>) /\ ir' = ir /\ round' = round
    BY <1>14 DEF HitCap
  <2> QED
    BY <1>a, <1>c, <1>d, <2>1, StartsAfresh
<1>15. CASE AnotherRound
  <2>1. Start("deduplication", AllBlocks(ir)) /\ ir' = ir /\ round' \in 1..MaxRounds
    BY <1>15, <1>c DEF AnotherRound
  <2> QED
    BY <1>a, <1>d, <2>1, StartsAfresh
<1> QED
  BY <1>1, <1>2, <1>3, <1>4, <1>5, <1>6, <1>7, <1>8, <1>9, <1>10, <1>11, <1>12, <1>13,
     <1>14, <1>15 DEF PassesNext, Deduplicate, Eliminate, Parallelize

\* One measure that falls, when those before it stay, makes the five smaller.
LEMMA FiveSmaller ==
  ASSUME NEW a, NEW b, NEW c, NEW d, NEW e, NEW a1, NEW b1, NEW c1, NEW d1, NEW e1,
         \/ a1 \in 0..a - 1
         \/ a1 = a /\ b1 \in 0..b - 1
         \/ a1 = a /\ b1 = b /\ c1 \in 0..c - 1
         \/ a1 = a /\ b1 = b /\ c1 = c /\ d1 \in 0..d - 1
         \/ a1 = a /\ b1 = b /\ c1 = c /\ d1 = d /\ e1 \in 0..e - 1
  PROVE  Smaller(<<a1, b1, c1, d1, e1>>, <<a, b, c, d, e>>)
<1> DEFINE s == <<a1, b1, c1, d1, e1>>
           t == <<a, b, c, d, e>>
<1>1. CASE a1 \in 0..a - 1
  <2>1. 1 \in DOMAIN t /\ s[1] \in 0..t[1] - 1 /\ \A j \in 1..1 - 1 : s[j] = t[j]
    BY <1>1
  <2> QED
    BY <2>1 DEF Smaller
<1>2. CASE a1 = a /\ b1 \in 0..b - 1
  <2>1. 2 \in DOMAIN t /\ s[2] \in 0..t[2] - 1 /\ \A j \in 1..2 - 1 : s[j] = t[j]
    BY <1>2
  <2> QED
    BY <2>1 DEF Smaller
<1>3. CASE a1 = a /\ b1 = b /\ c1 \in 0..c - 1
  <2>1. 3 \in DOMAIN t /\ s[3] \in 0..t[3] - 1 /\ \A j \in 1..3 - 1 : s[j] = t[j]
    BY <1>3
  <2> QED
    BY <2>1 DEF Smaller
<1>4. CASE a1 = a /\ b1 = b /\ c1 = c /\ d1 \in 0..d - 1
  <2>1. 4 \in DOMAIN t /\ s[4] \in 0..t[4] - 1 /\ \A j \in 1..4 - 1 : s[j] = t[j]
    BY <1>4
  <2> QED
    BY <2>1 DEF Smaller
<1>5. CASE a1 = a /\ b1 = b /\ c1 = c /\ d1 = d /\ e1 \in 0..e - 1
  <2>1. 5 \in DOMAIN t /\ s[5] \in 0..t[5] - 1 /\ \A j \in 1..5 - 1 : s[j] = t[j]
    BY <1>5
  <2> QED
    BY <2>1 DEF Smaller
<1> QED
  BY <1>1, <1>2, <1>3, <1>4, <1>5

\* Some of a finite set are no more than all, and fewer when one is missing.
LEMMA Fewer ==
  ASSUME NEW S, IsFiniteSet(S), NEW T \in SUBSET S
  PROVE  /\ Cardinality(T) \in 0..Cardinality(S)
         /\ \A x \in S \ T : Cardinality(T) \in 0..Cardinality(S) - 1
<1>1. /\ IsFiniteSet(T) /\ Cardinality(T) \in Nat /\ Cardinality(S) \in Nat
      /\ Cardinality(T) <= Cardinality(S)
  BY FS_Subset, FS_CardinalityType
<1>2. ASSUME NEW x \in S \ T PROVE Cardinality(T) # Cardinality(S)
  BY <1>2, FS_Subset
<1> QED
  BY <1>1, <1>2

\* What the current block holds that may still join a group.
Waiting(m, b, moving) == {o \in ToSet(OpsIn(m, b)) : Groupable(m, o)} \ ToSet(moving)

LEMMA WaitingIsFinite ==
  ASSUME NEW m, Arena(m), NEW b \in DOMAIN m.block, NEW moving
  PROVE  IsFiniteSet(Waiting(m, b, moving))
<1>1. Waiting(m, b, moving) \in SUBSET (DOMAIN m.op)
  BY ListedOperations DEF Waiting, OpsIn
<1>2. DOMAIN m.op = 1..Len(m.op) /\ Len(m.op) \in Nat
  BY ArenaShape DEF Arena
<1>3. IsFiniteSet(DOMAIN m.op)
  BY <1>2, FS_Interval
<1> QED
  BY <1>1, <1>3, FS_Subset

\* A block in which nothing arrives but what cannot join a group.
LEMMA FewerWaiting ==
  ASSUME NEW m, NEW n, Arena(m), Arena(n),
         NEW b \in DOMAIN m.block, b \in DOMAIN n.block, NEW moving, NEW left,
         \A x \in DOMAIN n.op : n.op[x].parent = b /\ Groupable(n, x) /\ x \notin ToSet(left) =>
            x \in DOMAIN m.op /\ m.op[x].parent = b /\ Groupable(m, x) /\ x \notin ToSet(moving)
  PROVE  Waiting(n, b, left) \in SUBSET Waiting(m, b, moving)
<1> SUFFICES ASSUME NEW x \in Waiting(n, b, left) PROVE x \in Waiting(m, b, moving)
  OBVIOUS
<1>1. x \in DOMAIN n.op /\ n.op[x].parent = b /\ Groupable(n, x) /\ x \notin ToSet(left)
  BY ListedOperations DEF Waiting, OpsIn
<1>2. x \in DOMAIN m.op /\ m.op[x].parent = b /\ Groupable(m, x) /\ x \notin ToSet(moving)
  BY <1>1
<1>3. b # 0
  BY ListedOperations
<1>4. x \in ToSet(m.block[b].ops)
  BY <1>2, <1>3 DEF Arena, ArenaAgrees, NamedWhereListed
<1> QED
  BY <1>2, <1>4 DEF Waiting, OpsIn

\* A group is not empty, and its first member may be in one.
LEMMA FirstOfRun ==
  ASSUME NEW m, Arena(m), NEW b \in DOMAIN m.block, NEW r \in Runs(m, b)
  PROVE  /\ Group(m, b, r)[1] \in ToSet(Group(m, b, r))
         /\ Groupable(m, Group(m, b, r)[1])
<1> DEFINE s == m.block[b].ops
           first == r[1]
           last == r[2]
           ops == Group(m, b, r)
<1>1. s \in Seq(Nat)
  BY ListedOperations
<1>2. first \in 1..Len(s) /\ last \in 1..Len(s) /\ last > first /\ IsRun(m, s, first, last)
  BY DEF Runs, OpsIn
<1>3. ops = SubSeq(s, first, last)
  BY DEF Group, OpsIn
<1> HIDE DEF s, first, last, ops
<1>4. Len(ops) \in Nat /\ 1 \in DOMAIN ops /\ ops[1] = s[first]
  BY <1>1, <1>2, <1>3
<1>5. Groupable(m, s[first])
  BY <1>1, <1>2 DEF IsRun
<1> QED
  BY <1>4, <1>5 DEF ToSet, ops

LEMMA HeadAndTail ==
  ASSUME NEW S, NEW s \in Seq(S), s # <<>>
  PROVE  ToSet(s) \subseteq ToSet(Tail(s)) \cup {Head(s)}
<1> SUFFICES ASSUME NEW i \in DOMAIN s, i # 1 PROVE \E j \in DOMAIN Tail(s) : Tail(s)[j] = s[i]
  BY DEF ToSet
<1>1. i - 1 \in DOMAIN Tail(s) /\ Tail(s)[i - 1] = s[i]
  OBVIOUS
<1> QED
  BY <1>1

\* The measures, pass by pass.
Unerased(m) == {o \in DOMAIN m.op : ~m.op[o].erased}
MeasuredByPass ==
  /\ pass = "deduplication" =>
       Variant = <<MaxRounds - round, 3, Len(todo),
                   IF todo = <<>> THEN 0 ELSE Len(OpsIn(ir, Head(todo))) + 1 - position, 0>>
  /\ pass = "elimination" =>
       Variant = <<MaxRounds - round, 2, Cardinality(Unerased(ir)), IF dead = {} THEN 1 ELSE 0, 0>>
  /\ pass = "parallelization" =>
       Variant = <<MaxRounds - round, 1, Len(todo),
                   IF todo = <<>> THEN 0 ELSE Cardinality(Waiting(ir, Head(todo), group)),
                   Len(group) + IF wrapper = 0 THEN 0 ELSE 1>>
  /\ pass = "done" => Variant = <<MaxRounds - round, 0, 0, 0, 0>>

LEMMA Measures == MeasuredByPass
BY DEF MeasuredByPass, Variant, PassesLeft, Remaining, Here, Waiting, Unerased

LEMMA MeasuresAfter == MeasuredByPass'
BY Measures, PTL

\* Each step of a pipeline brings it closer to its end.
LEMMA StepAdvances == ProgressInv /\ PassesNext => Smaller(Variant', Variant)
<1> SUFFICES ASSUME ProgressInv, PassesNext PROVE Smaller(Variant', Variant)
  OBVIOUS
<1>a. ProgressInv'
  BY ProgressInvStep
<1>b. Arena(ir) /\ OwnersAgree(ir) /\ RegionsFilled(ir) /\ Arena(ir')
  BY <1>a DEF ProgressInv, ArenaInv
<1>c. /\ round \in Nat /\ round' \in Nat /\ MaxRounds \in Nat
      /\ round =< MaxRounds /\ round' =< MaxRounds
  BY <1>a, RoundsAssumption DEF ProgressInv
<1>d. MeasuredByPass
  BY Measures
<1>e. /\ pass' = "deduplication" =>
           Variant' = <<MaxRounds - round', 3, Len(todo'),
                        IF todo' = <<>> THEN 0
                        ELSE Len(OpsIn(ir', Head(todo'))) + 1 - position', 0>>
      /\ pass' = "elimination" =>
           Variant' = <<MaxRounds - round', 2, Cardinality(Unerased(ir')),
                        IF dead' = {} THEN 1 ELSE 0, 0>>
      /\ pass' = "parallelization" =>
           Variant' = <<MaxRounds - round', 1, Len(todo'),
                        IF todo' = <<>> THEN 0
                        ELSE Cardinality(Waiting(ir', Head(todo'), group')),
                        Len(group') + IF wrapper' = 0 THEN 0 ELSE 1>>
      /\ pass' = "done" => Variant' = <<MaxRounds - round', 0, 0, 0, 0>>
  BY MeasuresAfter DEF MeasuredByPass, Waiting, Unerased, OpsIn, Groupable, NameOf
<1>2. CASE LeaveBlock
  <2>1. /\ todo # <<>> /\ todo' = Tail(todo) /\ pass' = pass /\ round' = round
        /\ pass \in {"deduplication", "parallelization"}
    BY <1>2 DEF LeaveBlock, Deduplicating, Start
  <2>2. Len(todo') \in 0..Len(todo) - 1
    BY <2>1 DEF ProgressInv
  <2> QED
    BY <1>d, <1>e, <2>1, <2>2, FiveSmaller DEF MeasuredByPass
<1>3. CASE Skip \/ Remember \/ ReuseEarlier
  <2>1. /\ todo # <<>> /\ todo' = todo /\ pass' = pass /\ round' = round
        /\ pass = "deduplication" /\ position =< Len(Here) /\ position' = position + 1
    BY <1>3 DEF Skip, Remember, ReuseEarlier, Examining, Deduplicating, passVars
  <2>2. ir'.block = ir.block
    <3>1. CASE ReuseEarlier
      <4>1. PICK to : ir' = UsesReplaced(ir, to)
        BY <3>1 DEF ReuseEarlier
      <4> QED
        BY <1>b, <4>1, RedirectingKeepsArena
    <3>2. CASE Skip \/ Remember
      BY <3>2 DEF Skip, Remember
    <3> QED
      BY <1>3, <3>1, <3>2
  <2>3. Head(todo) \in DOMAIN ir.block
    BY <2>1 DEF ProgressInv
  <2>4. Len(OpsIn(ir, Head(todo))) \in Nat
    BY <1>b, <2>3, ListedOperations DEF OpsIn
  <2>5. OpsIn(ir', Head(todo')) = OpsIn(ir, Head(todo)) /\ Here = OpsIn(ir, Head(todo))
    BY <2>1, <2>2 DEF OpsIn, Here
  <2>6. Len(OpsIn(ir', Head(todo'))) + 1 - position'
          \in 0..(Len(OpsIn(ir, Head(todo))) + 1 - position) - 1
    BY <2>1, <2>4, <2>5 DEF ProgressInv
  <2> QED
    BY <1>d, <1>e, <2>1, <2>6, FiveSmaller DEF MeasuredByPass
<1>4. CASE EndDeduplication
  <2>1. pass = "deduplication" /\ pass' = "elimination" /\ round' = round
    BY <1>4 DEF EndDeduplication, Start
  <2> QED
    BY <1>d, <1>e, <2>1, FiveSmaller DEF MeasuredByPass
<1>5. CASE Scan
  <2>1. /\ pass = "elimination" /\ pass' = pass /\ round' = round /\ ir' = ir
        /\ dead = {} /\ dead' # {}
    BY <1>5 DEF Scan, passVars
  <2> QED
    BY <1>d, <1>e, <2>1, FiveSmaller DEF MeasuredByPass
<1>6. CASE EraseOne
  <2>1. PICK o \in dead : ir' = Erased(ir, o)
    BY <1>6 DEF EraseOne
  <2>2. pass = "elimination" /\ pass' = pass /\ round' = round
    BY <1>6 DEF EraseOne
  <2>3. o \in DOMAIN ir.op /\ ~ir.op[o].erased
    BY <2>1 DEF ProgressInv, ArenaInv
  <2>4. Unerased(ir') \in SUBSET Unerased(ir) /\ o \in Unerased(ir) \ Unerased(ir')
    BY <1>b, <2>1, <2>3, ErasingKeepsArena DEF Unerased
  <2>5. IsFiniteSet(Unerased(ir))
    <3>1. PICK n \in Nat : DOMAIN ir.op = 1..n
      BY <1>b, ArenaShape DEF Arena
    <3>2. IsFiniteSet(DOMAIN ir.op)
      <4>1. 1 \in Int /\ n \in Int
        OBVIOUS
      <4>2. IsFiniteSet(1..n)
        BY <4>1, FS_Interval
      <4> QED
        BY <3>1, <4>2
    <3>3. Unerased(ir) \in SUBSET (DOMAIN ir.op)
      BY DEF Unerased
    <3> QED
      BY <3>2, <3>3, FS_Subset
  <2>6. Cardinality(Unerased(ir')) \in 0..Cardinality(Unerased(ir)) - 1
    BY <2>4, <2>5, Fewer
  <2> QED
    BY <1>d, <1>e, <2>2, <2>6, FiveSmaller DEF MeasuredByPass
<1>7. CASE EndElimination
  <2>1. pass = "elimination" /\ pass' = "parallelization" /\ round' = round
    BY <1>7 DEF EndElimination, Start
  <2> QED
    BY <1>d, <1>e, <2>1, FiveSmaller DEF MeasuredByPass
<1>8. CASE Wrap
  <2>1. PICK b \in DOMAIN ir.block : b = Head(todo) /\ \E r \in Runs(ir, b) :
          ir' = WithParallel(ir, b, Group(ir, b, r)) /\ group' = Group(ir, b, r)
    BY <1>8 DEF Wrap
  <2>2. PICK r \in Runs(ir, b) :
          ir' = WithParallel(ir, b, Group(ir, b, r)) /\ group' = Group(ir, b, r)
    BY <2>1
  <2>3. /\ pass = "parallelization" /\ pass' = pass /\ round' = round
        /\ todo # <<>> /\ todo' = todo /\ group = <<>> /\ wrapper = 0
    BY <1>8 DEF Wrap
  <2>4. group' \in Seq(DOMAIN ir.op) /\ group'[1] \in ToSet(ir.block[b].ops)
    BY <1>b, <2>2, RunIsListed, ListedOperations
  <2>5. /\ Grows(ir, ir')
        /\ \A x \in DOMAIN ir'.op : x \in DOMAIN ir.op \/ x = NewOp(ir)
        /\ ir'.op[NewOp(ir)].name = Parallel
    BY <1>b, <2>2, <2>4, WrappingKeepsArena
  <2>6. group'[1] \in ToSet(group') /\ Groupable(ir, group'[1])
    BY <1>b, <2>2, FirstOfRun
  <2>7. Waiting(ir', b, group') \in SUBSET Waiting(ir, b, <<>>)
    <3>1. b \in DOMAIN ir'.block /\ ToSet(<<>>) = {}
      BY <2>5 DEF Grows, ToSet
    <3>2. ASSUME NEW x \in DOMAIN ir'.op, ir'.op[x].parent = b, Groupable(ir', x)
          PROVE  x \in DOMAIN ir.op /\ ir.op[x].parent = b /\ Groupable(ir, x)
      <4>1. x # NewOp(ir)
        BY <2>5, <3>2 DEF Groupable, NameOf
      <4> QED
        BY <2>5, <3>2, <4>1 DEF Groupable, NameOf, Grows, SameHead
    <3> QED
      BY <1>b, <3>1, <3>2, FewerWaiting
  <2>8. group'[1] \in Waiting(ir, b, <<>>) \ Waiting(ir', b, group')
    <3>1. ToSet(<<>>) = {}
      BY DEF ToSet
    <3> QED
      BY <2>4, <2>6, <3>1 DEF Waiting, OpsIn
  <2>9. Cardinality(Waiting(ir', b, group')) \in 0..Cardinality(Waiting(ir, b, <<>>)) - 1
    BY <1>b, <2>7, <2>8, Fewer, WaitingIsFinite
  <2> QED
    BY <1>d, <1>e, <2>1, <2>3, <2>9, FiveSmaller DEF MeasuredByPass
<1>9. CASE Move
  <2> DEFINE o == Head(group)
             b == InnerBlock(ir, wrapper)
             here == Head(todo)
  <2>1. /\ group # <<>> /\ ir' = MovedToEnd(ir, o, b) /\ group' = Tail(group)
        /\ UNCHANGED <<wrapper, pass, round, todo>>
    BY <1>9 DEF Move, passVars
  <2>2. /\ wrapper # 0 /\ IsWrapper(ir, wrapper) /\ pass = "parallelization"
        /\ todo # <<>> /\ b # here /\ group \in Seq(Nat)
    BY <2>1 DEF ProgressInv, ArenaInv
  <2>3. o \in DOMAIN ir.op /\ ~ir.op[o].erased /\ b \in DOMAIN ir.block
    <3>1. 1 \in DOMAIN group /\ o = group[1]
      BY <2>1, <2>2
    <3> QED
      BY <2>2, <3>1 DEF ProgressInv, ArenaInv, IsWrapper
  <2>4. SameNesting(ir, ir') /\ SamePlacesBut(o, ir, ir') /\ ir'.op[o].parent = b
    BY <1>b, <2>1, <2>3, MovingKeepsArena
  <2>5. here \in DOMAIN ir.block /\ here \in DOMAIN ir'.block
    BY <2>2, <2>4 DEF ProgressInv, SameNesting
  <2>6. Waiting(ir', here, group') \in SUBSET Waiting(ir, here, group)
    <3>1. ASSUME NEW x \in DOMAIN ir'.op, ir'.op[x].parent = here, Groupable(ir', x),
                 x \notin ToSet(group')
          PROVE  /\ x \in DOMAIN ir.op /\ ir.op[x].parent = here /\ Groupable(ir, x)
                 /\ x \notin ToSet(group)
      <4>1. x \in DOMAIN ir.op /\ x # o
        BY <2>2, <2>4, <3>1 DEF SameNesting
      <4>2. ir.op[x].parent = here /\ ir'.op[x].name = ir.op[x].name
        BY <2>4, <3>1, <4>1 DEF SameNesting, SamePlacesBut, SameHead
      <4>3. ToSet(group) \subseteq ToSet(group') \cup {o}
        BY <2>1, <2>2, HeadAndTail
      <4> QED
        BY <3>1, <4>1, <4>2, <4>3 DEF Groupable, NameOf
    <3> QED
      BY <1>b, <2>5, <3>1, FewerWaiting
  <2>7. Cardinality(Waiting(ir', here, group')) \in 0..Cardinality(Waiting(ir, here, group))
    BY <1>b, <2>5, <2>6, Fewer, WaitingIsFinite
  <2>8. Cardinality(Waiting(ir, here, group)) \in Nat
    BY <1>b, <2>5, WaitingIsFinite, FS_CardinalityType
  <2>9. Len(group') + 1 \in 0..(Len(group) + 1) - 1
    BY <2>1, <2>2
  <2>10. \/ Cardinality(Waiting(ir', here, group')) = Cardinality(Waiting(ir, here, group))
         \/ Cardinality(Waiting(ir', here, group'))
               \in 0..Cardinality(Waiting(ir, here, group)) - 1
    BY <2>7, <2>8
  <2>11. /\ Variant = <<MaxRounds - round, 1, Len(todo), Cardinality(Waiting(ir, here, group)),
                         Len(group) + 1>>
         /\ Variant' = <<MaxRounds - round, 1, Len(todo), Cardinality(Waiting(ir', here, group')),
                          Len(group') + 1>>
    BY <1>d, <1>e, <2>1, <2>2 DEF MeasuredByPass
  <2> HIDE DEF here
  <2> QED
    BY <2>9, <2>10, <2>11, FiveSmaller
<1>10. CASE Route
  <2> DEFINE here == Head(todo)
  <2>1. /\ ir' = Routed(ir, wrapper, escaping) /\ group = <<>> /\ wrapper # 0
        /\ wrapper' = 0 /\ UNCHANGED <<group, pass, round, todo>>
    BY <1>10 DEF Route, passVars
  <2>2. /\ IsWrapper(ir, wrapper) /\ pass = "parallelization"
        /\ todo # <<>> /\ InnerBlock(ir, wrapper) # here
        /\ IsFunction(escaping)
    BY <2>1 DEF ProgressInv, ArenaInv
  <2>3. /\ Grows(ir, ir')
        /\ \A x \in DOMAIN ir'.op : x \in DOMAIN ir.op \/ ir'.op[x].parent = InnerBlock(ir, wrapper)
    BY <1>b, <2>1, <2>2, RoutingKeepsArena
  <2>4. here \in DOMAIN ir.block /\ here \in DOMAIN ir'.block
    BY <2>2, <2>3 DEF ProgressInv, Grows
  <2>5. Waiting(ir', here, group') \in SUBSET Waiting(ir, here, group)
    <3>1. ASSUME NEW x \in DOMAIN ir'.op, ir'.op[x].parent = here, Groupable(ir', x)
          PROVE  x \in DOMAIN ir.op /\ ir.op[x].parent = here /\ Groupable(ir, x)
      <4>1. x \in DOMAIN ir.op
        BY <2>2, <2>3, <3>1
      <4> QED
        BY <2>3, <3>1, <4>1 DEF Groupable, NameOf, Grows, SameHead
    <3> QED
      BY <1>b, <2>1, <2>4, <3>1, FewerWaiting
  <2>6. Cardinality(Waiting(ir', here, group')) \in 0..Cardinality(Waiting(ir, here, group))
    BY <1>b, <2>4, <2>5, Fewer, WaitingIsFinite
  <2>7. Cardinality(Waiting(ir, here, group)) \in Nat
    BY <1>b, <2>4, WaitingIsFinite, FS_CardinalityType
  <2>8. Len(group') + 0 \in 0..(Len(group) + 1) - 1
    BY <2>1
  <2>9. \/ Cardinality(Waiting(ir', here, group')) = Cardinality(Waiting(ir, here, group))
        \/ Cardinality(Waiting(ir', here, group'))
              \in 0..Cardinality(Waiting(ir, here, group)) - 1
    BY <2>6, <2>7
  <2> QED
    BY <1>d, <1>e, <2>1, <2>2, <2>8, <2>9, FiveSmaller DEF MeasuredByPass
<1>11. CASE Converge \/ HitCap
  <2>1. pass = "parallelization" /\ pass' = "done" /\ round' = round
    BY <1>11 DEF Converge, HitCap, RoundEnds, Start
  <2> QED
    BY <1>d, <1>e, <2>1, FiveSmaller DEF MeasuredByPass
<1>12. CASE AnotherRound
  <2>1. /\ pass = "parallelization" /\ pass' = "deduplication"
        /\ MaxRounds - round' \in 0..(MaxRounds - round) - 1
    BY <1>12, <1>c DEF AnotherRound, RoundEnds, Start
  <2> QED
    BY <1>d, <1>e, <2>1, FiveSmaller DEF MeasuredByPass
<1> QED
  BY <1>2, <1>3, <1>4, <1>5, <1>6, <1>7, <1>8, <1>9, <1>10, <1>11, <1>12
     DEF PassesNext, Deduplicate, Eliminate, Parallelize

-----------------------------------------------------------------------------
(* Nesting.  The operations of a module form a forest: each can be given a *)
(* rank above that of the operation whose region holds it.                 *)

Ranked(m, N, rank) ==
  /\ N \in Nat /\ rank \in [DOMAIN m.op -> 0..N]
  /\ \A o \in DOMAIN m.op :
       Owner(m, o) # 0 => Owner(m, o) \in DOMAIN m.op /\ rank[Owner(m, o)] < rank[o]
Nested(m) == \E N, rank : Ranked(m, N, rank)

\* While a group moves, the wrapper ranks below what is to move into it.
NestingInv ==
  /\ ProgressInv
  /\ \E N, rank :
       Ranked(ir, N, rank) /\ \A i \in DOMAIN group : rank[wrapper] < rank[group[i]]

BlockOwner(m, b) == m.region[m.block[b].region].owner

LEMMA OwnerByBlock ==
  ASSUME NEW m, Arena(m), OwnersAgree(m), NEW o \in DOMAIN m.op
  PROVE  /\ m.op[o].parent # 0 =>
              m.op[o].parent \in DOMAIN m.block /\ Owner(m, o) = BlockOwner(m, m.op[o].parent)
         /\ m.op[o].parent = 0 => Owner(m, o) = 0
         /\ Owner(m, o) # 0 => Owner(m, o) \in DOMAIN m.op
<1>1. m.op[o].parent # 0 => m.op[o].parent \in DOMAIN m.block
  BY DEF Arena, ArenaAgrees, NamedWhereListed
<1>2. \A b \in DOMAIN m.block : m.block[b].region \in DOMAIN m.region
  BY DEF OwnersAgree, BlocksPlaced
<1>3. \A r \in DOMAIN m.region : m.region[r].owner # 0 => m.region[r].owner \in DOMAIN m.op
  BY DEF OwnersAgree, RegionsClaimed
<1> QED
  BY <1>1, <1>2, <1>3 DEF Owner, BlockOwner

\* Blocks do not change hands.
SameBlockOwners(m, n) ==
  \A b \in DOMAIN m.block : b \in DOMAIN n.block /\ BlockOwner(n, b) = BlockOwner(m, b)

LEMMA GrowingKeepsOwners ==
  ASSUME NEW m, NEW n, OwnersAgree(m), Grows(m, n)
  PROVE  SameBlockOwners(m, n)
BY DEF Grows, OwnersAgree, BlocksPlaced, SameBlockOwners, BlockOwner

LEMMA SameNestingOwners ==
  ASSUME NEW m, NEW n, SameNesting(m, n)
  PROVE  SameBlockOwners(m, n)
BY DEF SameNesting, SameBlockOwners, BlockOwner

\* An operation that stays where it was, or is nowhere any more.
LEMMA OwnerStays ==
  ASSUME NEW m, NEW n, Arena(m), OwnersAgree(m), Arena(n), OwnersAgree(n),
         SameBlockOwners(m, n), NEW o \in DOMAIN m.op, o \in DOMAIN n.op
  PROVE  n.op[o].parent \in {m.op[o].parent, 0} => Owner(n, o) \in {Owner(m, o), 0}
<1>1. CASE n.op[o].parent = 0
  BY <1>1, OwnerByBlock
<1>2. CASE n.op[o].parent # 0 /\ n.op[o].parent = m.op[o].parent
  <2>1. /\ m.op[o].parent \in DOMAIN m.block
        /\ Owner(m, o) = BlockOwner(m, m.op[o].parent) /\ Owner(n, o) = BlockOwner(n, m.op[o].parent)
    BY <1>2, OwnerByBlock
  <2> QED
    BY <2>1 DEF SameBlockOwners
<1> QED
  BY <1>1, <1>2

LEMMA RankedStays ==
  ASSUME NEW m, NEW n, Arena(m), OwnersAgree(m), Arena(n), OwnersAgree(n),
         SameBlockOwners(m, n), DOMAIN n.op = DOMAIN m.op,
         NEW N, NEW rank, Ranked(m, N, rank),
         \A o \in DOMAIN m.op :
           \/ n.op[o].parent \in {m.op[o].parent, 0}
           \/ Owner(n, o) # 0 /\ rank[Owner(n, o)] < rank[o]
  PROVE  Ranked(n, N, rank)
<1> SUFFICES ASSUME NEW o \in DOMAIN n.op, Owner(n, o) # 0
             PROVE  Owner(n, o) \in DOMAIN n.op /\ rank[Owner(n, o)] < rank[o]
  BY DEF Ranked
<1>1. Owner(n, o) \in DOMAIN n.op
  BY OwnerByBlock
<1>2. CASE n.op[o].parent \in {m.op[o].parent, 0}
  <2>1. Owner(n, o) = Owner(m, o)
    BY <1>2, OwnerStays
  <2> QED
    BY <1>1, <2>1 DEF Ranked
<1> QED
  BY <1>1, <1>2

LEMMA OuterFirstIsNested ==
  ASSUME NEW m, Arena(m), OwnersAgree(m), OuterFirst(m)
  PROVE  \E N, rank : Ranked(m, N, rank)
<1> DEFINE rank == [o \in DOMAIN m.op |-> o]
<1>1. DOMAIN m.op = 1..Len(m.op) /\ Len(m.op) \in Nat
  BY ArenaShape DEF Arena
<1>2. rank \in [DOMAIN m.op -> 0..Len(m.op)]
  BY <1>1
<1>3. Ranked(m, Len(m.op), rank)
  <2> SUFFICES ASSUME NEW o \in DOMAIN m.op, Owner(m, o) # 0
               PROVE  Owner(m, o) \in DOMAIN m.op /\ rank[Owner(m, o)] < rank[o]
    BY <1>1, <1>2 DEF Ranked
  <2>1. Owner(m, o) \in DOMAIN m.op
    BY OwnerByBlock
  <2> QED
    BY <2>1 DEF OuterFirst
<1> QED
  BY <1>1, <1>2, <1>3

\* A ranking has room for the operations below a wrapper.
HasRoom(m, w, ops) ==
  \E N, rank :
    Ranked(m, N, rank) /\ \A i \in DOMAIN ops : rank[w] < rank[ops[i]]

\* The wrapper comes between the operation around the block and the group.
LEMMA WrappingKeepsRanks ==
  ASSUME NEW m, NEW n, Arena(m), OwnersAgree(m), Arena(n), OwnersAgree(n), Grows(m, n),
         NEW new, new \notin DOMAIN m.op, DOMAIN n.op = DOMAIN m.op \cup {new},
         NEW b \in DOMAIN m.block, n.op[new].parent = b,
         NEW ops, \A i \in DOMAIN ops : ops[i] \in DOMAIN m.op /\ m.op[ops[i]].parent = b,
         NEW N0, NEW rank0, Ranked(m, N0, rank0)
  PROVE  HasRoom(n, new, ops)
<1> DEFINE N == 2 * N0 + 3
           above == BlockOwner(m, b)
           rank == [x \in DOMAIN n.op |->
                      IF x = new THEN IF above = 0 THEN 1 ELSE 2 * rank0[above] + 3
                      ELSE 2 * rank0[x] + 2]
<1>1. /\ N0 \in Nat /\ rank0 \in [DOMAIN m.op -> 0..N0]
      /\ \A o \in DOMAIN m.op :
           Owner(m, o) # 0 => Owner(m, o) \in DOMAIN m.op /\ rank0[Owner(m, o)] < rank0[o]
  BY DEF Ranked
<1>2. SameBlockOwners(m, n)
  BY GrowingKeepsOwners
<1>3. above # 0 => above \in DOMAIN m.op
  BY DEF OwnersAgree, BlocksPlaced, RegionsClaimed, BlockOwner
<1>4. b # 0
  BY ListedOperations
<1>5. Owner(n, new) = above
  <2>1. Owner(n, new) = BlockOwner(n, b)
    BY <1>4, OwnerByBlock
  <2> QED
    BY <1>2, <2>1 DEF SameBlockOwners
<1>6. \A x \in DOMAIN m.op : Owner(n, x) \in {Owner(m, x), 0}
  BY <1>2, OwnerStays DEF Grows
<1>7. \A i \in DOMAIN ops : Owner(m, ops[i]) = above
  BY <1>4, OwnerByBlock
<1> HIDE DEF above
<1>8. N \in Nat
  BY <1>1
<1>9. \A x \in DOMAIN m.op : x \in DOMAIN n.op /\ rank[x] = 2 * rank0[x] + 2 /\ rank0[x] \in 0..N0
  BY <1>1
<1>10. /\ new \in DOMAIN n.op /\ above = 0 => rank[new] = 1
       /\ above # 0 => above \in DOMAIN m.op /\ rank[new] = 2 * rank0[above] + 3
  BY <1>3
<1>11. rank \in [DOMAIN n.op -> 0..N]
  <2>1. ASSUME NEW x \in DOMAIN n.op PROVE rank[x] \in 0..N
    <3>1. CASE x = new
      BY <1>1, <1>3, <3>1
    <3>2. CASE x # new
      BY <1>1, <1>9, <3>2
    <3> QED
      BY <3>1, <3>2
  <2>2. rank = [x \in DOMAIN n.op |-> rank[x]]
    OBVIOUS
  <2> HIDE DEF rank, N
  <2> QED
    BY <2>1, <2>2
<1> HIDE DEF rank
<1>12. ASSUME NEW x \in DOMAIN n.op, Owner(n, x) # 0
       PROVE  Owner(n, x) \in DOMAIN n.op /\ rank[Owner(n, x)] < rank[x]
  <2>1. CASE x = new
    BY <1>1, <1>5, <1>9, <1>10, <1>12, <2>1
  <2>2. CASE x # new
    <3>1. x \in DOMAIN m.op /\ Owner(n, x) = Owner(m, x)
      BY <1>6, <1>12, <2>2
    <3>2. Owner(m, x) \in DOMAIN m.op /\ rank0[Owner(m, x)] < rank0[x]
      BY <1>1, <1>12, <3>1
    <3> QED
      BY <1>9, <3>1, <3>2
  <2> QED
    BY <2>1, <2>2
<1>13. ASSUME NEW i \in DOMAIN ops PROVE rank[new] < rank[ops[i]]
  <2>1. ops[i] \in DOMAIN m.op /\ Owner(m, ops[i]) = above
    BY <1>7
  <2>2. rank[ops[i]] = 2 * rank0[ops[i]] + 2 /\ rank0[ops[i]] \in 0..N0
    BY <1>9, <2>1
  <2>3. CASE above = 0
    BY <1>10, <2>2, <2>3
  <2>4. CASE above # 0
    <3>1. rank0[above] < rank0[ops[i]] /\ rank0[above] \in 0..N0
      BY <1>1, <1>9, <1>10, <2>1, <2>4
    <3> QED
      BY <1>10, <2>2, <2>4, <3>1
  <2> QED
    BY <2>3, <2>4
<1>14. Ranked(n, N, rank)
  BY <1>8, <1>11, <1>12 DEF Ranked
<1> HIDE DEF N
<1> QED
  BY <1>8, <1>11, <1>13, <1>14 DEF HasRoom

\* What is added in the wrapper's block ranks above everything.
LEMMA RoutingKeepsRanks ==
  ASSUME NEW m, NEW n, Arena(m), OwnersAgree(m), Arena(n), OwnersAgree(n), Grows(m, n),
         NEW w, IsWrapper(m, w),
         \A x \in DOMAIN n.op : x \in DOMAIN m.op \/ n.op[x].parent = InnerBlock(m, w),
         NEW N0, NEW rank0, Ranked(m, N0, rank0)
  PROVE  \E N, rank : Ranked(n, N, rank)
<1> DEFINE N == N0 + 1
           rank == [x \in DOMAIN n.op |-> IF x \in DOMAIN m.op THEN rank0[x] ELSE N]
           b == InnerBlock(m, w)
<1>1. /\ N0 \in Nat /\ rank0 \in [DOMAIN m.op -> 0..N0]
      /\ \A o \in DOMAIN m.op :
           Owner(m, o) # 0 => Owner(m, o) \in DOMAIN m.op /\ rank0[Owner(m, o)] < rank0[o]
  BY DEF Ranked
<1>2. SameBlockOwners(m, n)
  BY GrowingKeepsOwners
<1>3. b \in DOMAIN m.block /\ BlockOwner(m, b) = w /\ w \in DOMAIN m.op /\ b # 0
  BY ListedOperations DEF IsWrapper, BlockOwner
<1> HIDE DEF b
<1>4. N \in Nat
  BY <1>1
<1>5. rank \in [DOMAIN n.op -> 0..N]
  BY <1>1
<1>6. DOMAIN m.op \subseteq DOMAIN n.op /\ \A x \in DOMAIN m.op : n.op[x].parent = m.op[x].parent
  BY DEF Grows
<1>7. ASSUME NEW x \in DOMAIN n.op, Owner(n, x) # 0
      PROVE  Owner(n, x) \in DOMAIN n.op /\ rank[Owner(n, x)] < rank[x]
  <2>1. CASE x \in DOMAIN m.op
    <3>1. Owner(n, x) = Owner(m, x)
      BY <1>2, <1>6, <1>7, <2>1, OwnerStays
    <3>2. Owner(m, x) \in DOMAIN m.op /\ rank0[Owner(m, x)] < rank0[x]
      BY <1>1, <1>7, <2>1, <3>1
    <3> QED
      BY <1>6, <2>1, <3>1, <3>2
  <2>2. CASE x \notin DOMAIN m.op
    <3>1. Owner(n, x) = BlockOwner(n, b)
      BY <1>3, <2>2, OwnerByBlock DEF b
    <3>2. Owner(n, x) = w
      BY <1>2, <1>3, <3>1 DEF SameBlockOwners
    <3> QED
      BY <1>1, <1>3, <1>6, <2>2, <3>2
  <2> QED
    BY <2>1, <2>2
<1>8. Ranked(n, N, rank)
  BY <1>4, <1>5, <1>7 DEF Ranked
<1> HIDE DEF N, rank
<1> QED
  BY <1>4, <1>5, <1>8

LEMMA NestingInvInit ==
  ASSUME NEW m, Loaded(m), Arena(m), OwnersAgree(m), RegionsFilled(m), OuterFirst(m)
  PROVE  NestingInv
<1>1. ProgressInv
  BY ProgressInvInit
<1>2. ir = m /\ group = <<>>
  BY DEF Loaded
<1>3. PICK N : \E rank : Ranked(m, N, rank)
  BY OuterFirstIsNested
<1> QED
  BY <1>1, <1>2, <1>3 DEF NestingInv

LEMMA NestingInvStep == NestingInv /\ [PassesNext]_passesVars => NestingInv'
<1> SUFFICES ASSUME ProgressInv, [PassesNext]_passesVars,
                    NEW N, NEW rank, Ranked(ir, N, rank),
                    \A i \in DOMAIN group : rank[wrapper] < rank[group[i]]
             PROVE  NestingInv'
  BY DEF NestingInv
<1>a. ProgressInv'
  BY ProgressInvStep
<1>b. /\ Arena(ir) /\ OwnersAgree(ir) /\ RegionsFilled(ir)
      /\ Arena(ir') /\ OwnersAgree(ir')
  BY <1>a DEF ProgressInv, ArenaInv
<1>c. ASSUME NEW M, NEW above, Ranked(ir', M, above),
             \A i \in DOMAIN group' : above[wrapper'] < above[group'[i]]
      PROVE  NestingInv'
  BY <1>a, <1>c DEF NestingInv, Ranked, Owner
<1>1. ASSUME ir' = ir, group' = <<>> \/ (group' = group /\ wrapper' = wrapper) PROVE NestingInv'
  BY <1>1, <1>c
<1>2. CASE ReuseEarlier
  <2>1. PICK to : ir' = UsesReplaced(ir, to)
    BY <1>2 DEF ReuseEarlier
  <2>2. /\ DOMAIN ir'.op = DOMAIN ir.op
        /\ \A o \in DOMAIN ir.op : ir'.op[o].parent = ir.op[o].parent
        /\ ir'.block = ir.block /\ ir'.region = ir.region
    BY <1>b, <2>1, RedirectingKeepsArena
  <2>3. SameBlockOwners(ir, ir')
    BY <2>2 DEF SameBlockOwners, BlockOwner
  <2>4. Ranked(ir', N, rank)
    BY <1>b, <2>2, <2>3, RankedStays
  <2>5. group' = group /\ wrapper' = wrapper
    BY <1>2 DEF ReuseEarlier
  <2> QED
    BY <1>c, <2>2, <2>4, <2>5
<1>3. CASE EraseOne
  <2>1. PICK o \in dead : ir' = Erased(ir, o)
    BY <1>3 DEF EraseOne
  <2>2. o \in DOMAIN ir.op
    BY <2>1 DEF ProgressInv, ArenaInv
  <2>3. /\ DOMAIN ir'.op = DOMAIN ir.op /\ DOMAIN ir'.block = DOMAIN ir.block
        /\ ir'.region = ir.region /\ ir'.op[o].parent = 0
        /\ \A x \in DOMAIN ir.op : x # o => ir'.op[x].parent = ir.op[x].parent
        /\ \A x \in DOMAIN ir.block : ir'.block[x].region = ir.block[x].region
    BY <1>b, <2>1, <2>2, ErasingKeepsArena
  <2>4. SameBlockOwners(ir, ir')
    BY <2>3 DEF SameBlockOwners, BlockOwner
  <2>5. \A x \in DOMAIN ir.op : ir'.op[x].parent \in {ir.op[x].parent, 0}
    BY <2>3
  <2>6. Ranked(ir', N, rank)
    BY <1>b, <2>3, <2>4, <2>5, RankedStays
  <2>7. group' = group /\ wrapper' = wrapper
    BY <1>3 DEF EraseOne
  <2> QED
    BY <1>c, <2>3, <2>6, <2>7
<1>4. CASE Wrap
  <2>1. PICK b \in DOMAIN ir.block : b = Head(todo) /\ \E r \in Runs(ir, b) :
          ir' = WithParallel(ir, b, Group(ir, b, r)) /\ group' = Group(ir, b, r)
    BY <1>4 DEF Wrap
  <2>2. PICK r \in Runs(ir, b) :
          ir' = WithParallel(ir, b, Group(ir, b, r)) /\ group' = Group(ir, b, r)
    BY <2>1
  <2>3. wrapper' = NewOp(ir)
    BY <1>4 DEF Wrap
  <2>4. /\ group' \in Seq(DOMAIN ir.op) /\ group'[1] \in ToSet(ir.block[b].ops)
        /\ \A i \in DOMAIN group' : group'[i] \in ToSet(ir.block[b].ops)
    BY <1>b, <2>2, RunIsListed, ListedOperations
  <2>5. /\ Grows(ir, ir') /\ wrapper' \notin DOMAIN ir.op
        /\ \A x \in DOMAIN ir'.op : x \in DOMAIN ir.op \/ x = wrapper'
        /\ ir'.op[wrapper'].parent = b /\ wrapper' \in DOMAIN ir'.op
    BY <1>b, <2>2, <2>3, <2>4, WrappingKeepsArena DEF IsWrapper
  <2>6. DOMAIN ir'.op = DOMAIN ir.op \cup {wrapper'}
    BY <2>5 DEF Grows
  <2>7. \A i \in DOMAIN group' : group'[i] \in DOMAIN ir.op /\ ir.op[group'[i]].parent = b
    BY <1>b, <2>4, ListedOperations
  <2>8. HasRoom(ir', wrapper', group')
    BY <1>b, <2>5, <2>6, <2>7, WrappingKeepsRanks
  <2> QED
    BY <1>c, <2>8 DEF HasRoom
<1>5. CASE Move
  <2> DEFINE o == Head(group)
             b == InnerBlock(ir, wrapper)
  <2>1. /\ group # <<>> /\ ir' = MovedToEnd(ir, o, b) /\ group' = Tail(group)
        /\ wrapper' = wrapper
    BY <1>5 DEF Move, passVars
  <2>2. wrapper # 0 /\ IsWrapper(ir, wrapper) /\ group \in Seq(Nat)
    BY <2>1 DEF ProgressInv, ArenaInv
  <2>3. 1 \in DOMAIN group /\ o = group[1]
    BY <2>1, <2>2
  <2>4. o \in DOMAIN ir.op /\ ~ir.op[o].erased /\ b \in DOMAIN ir.block
    BY <2>2, <2>3 DEF ProgressInv, ArenaInv, IsWrapper
  <2>5. SameNesting(ir, ir') /\ SamePlacesBut(o, ir, ir') /\ ir'.op[o].parent = b
    BY <1>b, <2>1, <2>4, MovingKeepsArena
  <2>6. SameBlockOwners(ir, ir')
    BY <2>5, SameNestingOwners
  <2>7. Owner(ir', o) = wrapper
    <3>1. b # 0 /\ BlockOwner(ir, b) = wrapper
      BY <1>b, <2>2, <2>4, ListedOperations DEF IsWrapper, BlockOwner
    <3>2. Owner(ir', o) = BlockOwner(ir', b)
      BY <1>b, <2>4, <2>5, <3>1, OwnerByBlock DEF SameNesting
    <3> QED
      BY <2>4, <2>6, <3>1, <3>2 DEF SameBlockOwners
  <2>8. rank[wrapper] < rank[o]
    BY <2>3
  <2>9. DOMAIN ir'.op = DOMAIN ir.op
    BY <2>5 DEF SameNesting
  <2>10. \A x \in DOMAIN ir.op : \/ ir'.op[x].parent \in {ir.op[x].parent, 0}
                                 \/ Owner(ir', x) # 0 /\ rank[Owner(ir', x)] < rank[x]
    BY <2>2, <2>5, <2>7, <2>8 DEF SamePlacesBut
  <2>11. Ranked(ir', N, rank)
    BY <1>b, <2>6, <2>9, <2>10, RankedStays
  <2>12. \A i \in DOMAIN group' : i + 1 \in DOMAIN group /\ group'[i] = group[i + 1]
    BY <2>1, <2>2
  <2> HIDE DEF o, b
  <2> QED
    BY <1>c, <2>1, <2>9, <2>11, <2>12
<1>6. CASE Route
  <2>1. /\ ir' = Routed(ir, wrapper, escaping) /\ group' = <<>> /\ IsWrapper(ir, wrapper)
        /\ IsFunction(escaping)
    BY <1>6 DEF Route, ProgressInv, ArenaInv
  <2>2. /\ Grows(ir, ir')
        /\ \A x \in DOMAIN ir'.op : x \in DOMAIN ir.op \/ ir'.op[x].parent = InnerBlock(ir, wrapper)
    BY <1>b, <2>1, RoutingKeepsArena
  <2>3. \E M, above : Ranked(ir', M, above)
    BY <1>b, <2>1, <2>2, RoutingKeepsRanks
  <2> QED
    BY <1>c, <2>1, <2>3
<1>7. Skip \/ Remember \/ Scan \/ UNCHANGED passesVars
      => ir' = ir /\ group' = group /\ wrapper' = wrapper
  BY DEF Skip, Remember, Scan, passesVars, local
<1>8. LeaveBlock \/ EndDeduplication \/ EndElimination \/ Converge \/ HitCap \/ AnotherRound
      => ir' = ir /\ group' = <<>>
  BY DEF LeaveBlock, EndDeduplication, EndElimination, Converge, HitCap, AnotherRound, Start
<1> QED
  BY <1>1, <1>2, <1>3, <1>4, <1>5, <1>6, <1>7, <1>8
     DEF PassesNext, Deduplicate, Eliminate, Parallelize

-----------------------------------------------------------------------------
(* What is above an operation.                                             *)

Forest(m) == Arena(m) /\ OwnersAgree(m) /\ Nested(m)

\* ancestors: the walk up ends, and gives the operations around o.
LEMMA AboveIs ==
  ASSUME NEW m, Forest(m)
  PROVE  /\ DOMAIN Above(m) = DOMAIN m.op
         /\ \A o \in DOMAIN m.op :
              /\ Above(m)[o] \subseteq DOMAIN m.op
              /\ Above(m)[o] = IF Owner(m, o) = 0 THEN {}
                               ELSE {Owner(m, o)} \cup Above(m)[Owner(m, o)]
<1> DEFINE D == DOMAIN m.op
           X == SUBSET D
           step == [p \in D \X [D -> X] |->
                      IF Owner(m, p[1]) = 0 THEN {} ELSE {Owner(m, p[1])} \cup p[2][Owner(m, p[1])]]
           up == CHOOSE f : f = [o \in D |-> IF Owner(m, o) = 0 THEN {}
                                             ELSE {Owner(m, o)} \cup f[Owner(m, o)]]
<1>1. PICK N, rank : Ranked(m, N, rank)
  BY DEF Forest, Nested
<1>2. /\ N \in Nat /\ rank \in [D -> 0..N]
      /\ \A o \in D : Owner(m, o) # 0 => Owner(m, o) \in D /\ rank[Owner(m, o)] < rank[o]
  BY <1>1 DEF Ranked
<1>3. X # {}
  OBVIOUS
<1>4. step \in [D \X [D -> X] -> X]
  <2> SUFFICES ASSUME NEW o \in D, NEW f \in [D -> X], Owner(m, o) # 0
               PROVE  {Owner(m, o)} \cup f[Owner(m, o)] \in X
    OBVIOUS
  <2>1. Owner(m, o) \in D
    BY <1>2
  <2>2. f[Owner(m, o)] \in X
    <3> HIDE DEF D, X
    <3> QED
      BY <2>1
  <2> QED
    BY <2>1, <2>2
<1>5. Recursive(D, X, N, rank, step)
  <2>1. ASSUME NEW o \in D, NEW f \in [D -> X], NEW g \in [D -> X],
               \A x \in D : rank[x] < rank[o] => f[x] = g[x]
        PROVE  step[<<o, f>>] = step[<<o, g>>]
    <3>1. Owner(m, o) # 0 => f[Owner(m, o)] = g[Owner(m, o)]
      BY <1>2, <2>1
    <3> HIDE DEF D, X
    <3> QED
      BY <3>1
  <2> HIDE DEF D, X, step
  <2> QED
    BY <1>2, <1>3, <1>4, <2>1 DEF Recursive
<1>6. PICK f \in [D -> X] : \A o \in D : f[o] = step[<<o, f>>]
  <2> HIDE DEF D, X, step
  <2> QED
    BY <1>5, Recursion
<1>7. f = [o \in D |-> IF Owner(m, o) = 0 THEN {} ELSE {Owner(m, o)} \cup f[Owner(m, o)]]
  <2>1. \A o \in D : step[<<o, f>>] = IF Owner(m, o) = 0 THEN {} ELSE {Owner(m, o)} \cup f[Owner(m, o)]
    <3> HIDE DEF D, X
    <3> QED
      OBVIOUS
  <2> HIDE DEF D, X, step
  <2> QED
    BY <1>6, <2>1
<1>8. up = [o \in D |-> IF Owner(m, o) = 0 THEN {} ELSE {Owner(m, o)} \cup up[Owner(m, o)]]
  BY <1>7
<1>9. Above(m) = up
  BY DEF Above
<1> HIDE DEF up
<1>10. \A o \in D : up[o] = IF Owner(m, o) = 0 THEN {} ELSE {Owner(m, o)} \cup up[Owner(m, o)]
  <2> HIDE DEF D
  <2> QED
    BY <1>8
<1>11. D \subseteq {o \in D : up[o] \subseteq D}
  <2> DEFINE Good == {o \in D : up[o] \subseteq D}
  <2>1. ASSUME NEW o \in D, \A x \in D : rank[x] < rank[o] => x \in Good
        PROVE  o \in Good
    <3>1. Owner(m, o) # 0 => Owner(m, o) \in D /\ up[Owner(m, o)] \subseteq D
      BY <1>2, <2>1
    <3> HIDE DEF D
    <3> QED
      BY <1>10, <3>1
  <2>2. rank \in [D -> Nat]
    BY <1>2
  <2> HIDE DEF D, Good
  <2>3. D \subseteq Good
    BY <2>1, <2>2, RankInduction
  <2> QED
    BY <2>3 DEF Good
<1>12. DOMAIN up = D
  <2> HIDE DEF D
  <2> QED
    BY <1>8
<1> QED
  BY <1>9, <1>10, <1>11, <1>12

\* The operation around o is above it, and what is above that.
LEMMA AboveOwner ==
  ASSUME NEW m, Forest(m), NEW o \in DOMAIN m.op
  PROVE  /\ Owner(m, o) = 0 => Above(m)[o] = {}
         /\ Owner(m, o) # 0 =>
              Owner(m, o) \in DOMAIN m.op /\ Above(m)[o] = {Owner(m, o)} \cup Above(m)[Owner(m, o)]
BY AboveIs, OwnerByBlock DEF Forest

\* What is proved of an operation from the one around it holds of all.
LEMMA OwnerInduction ==
  ASSUME NEW m, Forest(m), NEW Good,
         \A o \in DOMAIN m.op : (Owner(m, o) # 0 => Owner(m, o) \in Good) => o \in Good
  PROVE  DOMAIN m.op \subseteq Good
<1>1. PICK N, rank : Ranked(m, N, rank)
  BY DEF Forest, Nested
<1>2. rank \in [DOMAIN m.op -> Nat]
  BY <1>1 DEF Ranked
<1>3. ASSUME NEW o \in DOMAIN m.op, \A x \in DOMAIN m.op : rank[x] < rank[o] => x \in Good
      PROVE  o \in Good
  <2>1. Owner(m, o) # 0 => Owner(m, o) \in DOMAIN m.op /\ rank[Owner(m, o)] < rank[o]
    BY <1>1 DEF Ranked
  <2> QED
    BY <1>3, <2>1
<1> QED
  BY <1>2, <1>3, RankInduction

\* Nothing is above itself, and what is above something above o is above o.
LEMMA AboveIsAnOrder ==
  ASSUME NEW m, Forest(m)
  PROVE  /\ \A o \in DOMAIN m.op : o \notin Above(m)[o]
         /\ \A o \in DOMAIN m.op : \A x \in Above(m)[o] : Above(m)[x] \subseteq Above(m)[o]
<1>1. PICK N, rank : Ranked(m, N, rank)
  BY DEF Forest, Nested
<1>a. /\ rank \in [DOMAIN m.op -> 0..N] /\ N \in Nat
      /\ \A o \in DOMAIN m.op : Owner(m, o) # 0 => rank[Owner(m, o)] < rank[o]
  BY <1>1 DEF Ranked
<1> DEFINE Lower == {o \in DOMAIN m.op : \A x \in Above(m)[o] : rank[x] < rank[o]}
           Closed == {o \in DOMAIN m.op : \A x \in Above(m)[o] : Above(m)[x] \subseteq Above(m)[o]}
<1>2. ASSUME NEW o \in DOMAIN m.op, Owner(m, o) # 0 => Owner(m, o) \in Lower
      PROVE  o \in Lower
  <2> SUFFICES ASSUME NEW x \in Above(m)[o] PROVE rank[x] < rank[o]
    OBVIOUS
  <2>1. Owner(m, o) # 0 /\ x \in {Owner(m, o)} \cup Above(m)[Owner(m, o)]
    BY AboveOwner
  <2>2. rank[Owner(m, o)] < rank[o] /\ Owner(m, o) \in DOMAIN m.op
    BY <1>a, <2>1, AboveOwner
  <2>3. CASE x = Owner(m, o)
    BY <2>2, <2>3
  <2>4. CASE x \in Above(m)[Owner(m, o)]
    <3>1. rank[x] < rank[Owner(m, o)] /\ x \in DOMAIN m.op
      BY <1>2, <2>1, <2>2, <2>4, AboveIs
    <3> QED
      BY <1>a, <2>2, <3>1
  <2> QED
    BY <2>1, <2>3, <2>4
<1>3. DOMAIN m.op \subseteq Lower
  <2> HIDE DEF Lower
  <2> QED
    BY <1>2, OwnerInduction
<1>4. ASSUME NEW o \in DOMAIN m.op, o \in Above(m)[o] PROVE FALSE
  <2>1. rank[o] < rank[o] /\ rank[o] \in 0..N
    BY <1>a, <1>3, <1>4
  <2> QED
    BY <2>1
<1>5. ASSUME NEW o \in DOMAIN m.op, Owner(m, o) # 0 => Owner(m, o) \in Closed
      PROVE  o \in Closed
  <2> SUFFICES ASSUME NEW x \in Above(m)[o] PROVE Above(m)[x] \subseteq Above(m)[o]
    OBVIOUS
  <2>1. Owner(m, o) # 0 /\ Above(m)[o] = {Owner(m, o)} \cup Above(m)[Owner(m, o)]
    BY AboveOwner
  <2> QED
    BY <1>5, <2>1
<1>6. DOMAIN m.op \subseteq Closed
  <2> HIDE DEF Closed
  <2> QED
    BY <1>5, OwnerInduction
<1> QED
  BY <1>3, <1>4, <1>6

\* Of two operations around one, either is above the other.
LEMMA AboveIsAChain ==
  ASSUME NEW m, Forest(m), NEW o \in DOMAIN m.op,
         NEW x \in {o} \cup Above(m)[o], NEW y \in {o} \cup Above(m)[o]
  PROVE  x = y \/ x \in Above(m)[y] \/ y \in Above(m)[x]
<1> DEFINE Chain(p) == \A u, v \in {p} \cup Above(m)[p] :
                          u = v \/ u \in Above(m)[v] \/ v \in Above(m)[u]
           Good == {p \in DOMAIN m.op : Chain(p)}
<1>1. ASSUME NEW p \in DOMAIN m.op, Owner(m, p) # 0 => Owner(m, p) \in Good
      PROVE  p \in Good
  <2>1. Owner(m, p) = 0 => Above(m)[p] = {}
    BY AboveOwner
  <2>2. Owner(m, p) # 0 => Above(m)[p] = {Owner(m, p)} \cup Above(m)[Owner(m, p)]
    BY AboveOwner
  <2> QED
    BY <1>1, <2>1, <2>2
<1>2. DOMAIN m.op \subseteq Good
  <2> HIDE DEF Good
  <2> QED
    BY <1>1, OwnerInduction
<1> QED
  BY <1>2

\* No two operations around one are in the same block.
LEMMA OnePerBlock ==
  ASSUME NEW m, Forest(m), NEW o \in DOMAIN m.op,
         NEW x \in {o} \cup Above(m)[o], NEW y \in {o} \cup Above(m)[o],
         m.op[x].parent = m.op[y].parent
  PROVE  x = y
<1>1. x \in DOMAIN m.op /\ y \in DOMAIN m.op
  BY AboveIs
<1>2. Owner(m, x) = Owner(m, y)
  BY DEF Owner
<1>3. ASSUME NEW u \in DOMAIN m.op, NEW v \in DOMAIN m.op, Owner(m, u) = Owner(m, v)
      PROVE  u \notin Above(m)[v]
  <2> SUFFICES ASSUME u \in Above(m)[v] PROVE FALSE
    OBVIOUS
  <2>1. Owner(m, v) # 0 /\ u \in {Owner(m, v)} \cup Above(m)[Owner(m, v)]
    BY AboveOwner
  <2>2. Above(m)[u] = {Owner(m, v)} \cup Above(m)[Owner(m, v)]
    BY <1>3, <2>1, AboveOwner
  <2> QED
    BY <2>1, <2>2, AboveIsAnOrder
<1> QED
  BY <1>1, <1>2, <1>3, AboveIsAChain

-----------------------------------------------------------------------------
(* The live program.                                                       *)

\* An operation of the program is in the body, or in a region of one that is.
LEMMA LiveOwner ==
  ASSUME NEW m, Forest(m), NEW o \in Live(m)
  PROVE  /\ o \in DOMAIN m.op /\ ~m.op[o].erased /\ m.op[o].parent \in DOMAIN m.block
         /\ \/ m.op[o].parent = BodyBlock /\ Owner(m, o) = 0
            \/ m.op[o].parent # BodyBlock /\ Owner(m, o) # 0 /\ Owner(m, o) \in Live(m)
<1>1. o \in DOMAIN m.op /\ ~m.op[o].erased
  BY DEF Live
<1>2. PICK x \in {o} \cup Above(m)[o] : m.op[x].parent = BodyBlock
  BY DEF Live
<1>3. Owner(m, o) # 0 \/ x = o
  BY <1>1, <1>2, AboveOwner
<1>4. ASSUME NEW p \in DOMAIN m.op, m.op[p].parent = BodyBlock PROVE Owner(m, p) = 0
  BY <1>4 DEF Forest, OwnersAgree, BodyIsFree, Owner, BodyBlock
<1>5. CASE m.op[o].parent = BodyBlock
  BY <1>1, <1>4, <1>5 DEF Forest, OwnersAgree, BodyIsFree
<1>6. CASE m.op[o].parent # BodyBlock
  <2>1. Owner(m, o) # 0 /\ x \in {Owner(m, o)} \cup Above(m)[Owner(m, o)]
    BY <1>1, <1>2, <1>6, AboveOwner
  <2>2. Owner(m, o) \in DOMAIN m.op
    BY <1>1, <2>1, AboveOwner
  <2>3. m.op[o].parent \in DOMAIN m.block
    BY <1>1, <2>1, OwnerByBlock DEF Forest, Owner
  <2>4. m.op[Owner(m, o)].erased => m.op[Owner(m, o)].parent = 0
    BY <2>2 DEF Forest, Arena, ArenaAgrees, ErasedIsNowhere
  <2>5. m.op[Owner(m, o)].parent # 0
    <3> SUFFICES ASSUME m.op[Owner(m, o)].parent = 0 PROVE FALSE
      OBVIOUS
    <3>1. Above(m)[Owner(m, o)] = {}
      BY <2>2, AboveOwner, OwnerByBlock DEF Forest
    <3> QED
      BY <1>2, <2>1, <3>1 DEF BodyBlock
  <2>6. Owner(m, o) \in Live(m)
    BY <1>2, <2>1, <2>2, <2>4, <2>5 DEF Live
  <2> QED
    BY <1>1, <1>6, <2>1, <2>3, <2>6
<1> QED
  BY <1>5, <1>6

\* So is what is above it, and what is inside it.
LEMMA LiveAbove ==
  ASSUME NEW m, Forest(m), NEW o \in Live(m)
  PROVE  Above(m)[o] \subseteq Live(m)
<1> DEFINE Good == {p \in DOMAIN m.op : p \in Live(m) => Above(m)[p] \subseteq Live(m)}
<1>1. ASSUME NEW p \in DOMAIN m.op, Owner(m, p) # 0 => Owner(m, p) \in Good
      PROVE  p \in Good
  <2> SUFFICES ASSUME p \in Live(m) PROVE Above(m)[p] \subseteq Live(m)
    OBVIOUS
  <2>1. CASE Owner(m, p) = 0
    BY <2>1, AboveOwner
  <2>2. CASE Owner(m, p) # 0
    <3>1. Owner(m, p) \in Live(m) /\ Above(m)[p] = {Owner(m, p)} \cup Above(m)[Owner(m, p)]
      BY <2>2, LiveOwner, AboveOwner
    <3> QED
      BY <1>1, <2>2, <3>1
  <2> QED
    BY <2>1, <2>2
<1>2. DOMAIN m.op \subseteq Good
  <2> HIDE DEF Good
  <2> QED
    BY <1>1, OwnerInduction
<1> QED
  BY <1>2 DEF Live

LEMMA LiveInside ==
  ASSUME NEW m, Forest(m), NEW o \in Live(m)
  PROVE  o \in Inside(m, o) /\ Inside(m, o) \subseteq Live(m)
<1>1. o \in Inside(m, o)
  BY DEF Live, Inside
<1>2. ASSUME NEW n \in Inside(m, o), n # o PROVE n \in Live(m)
  <2>1. n \in DOMAIN m.op /\ ~m.op[n].erased /\ o \in Above(m)[n]
    BY <1>2 DEF Inside
  <2>2. {o} \cup Above(m)[o] \subseteq Above(m)[n]
    BY <2>1, AboveIsAnOrder
  <2> QED
    BY <2>1, <2>2 DEF Live
<1> QED
  BY <1>1, <1>2

\* The block an operation is in belongs to the operation around it.
LEMMA BlockOfOwner ==
  ASSUME NEW m, Forest(m), NEW o \in DOMAIN m.op, m.op[o].parent # 0
  PROVE  /\ m.op[o].parent \in DOMAIN m.block
         /\ BlockOwner(m, m.op[o].parent) = Owner(m, o)
         /\ Owner(m, o) # 0 => m.op[o].parent \in BlocksOf(m, Owner(m, o))
<1> DEFINE b == m.op[o].parent
           r == m.block[b].region
<1>1. b \in DOMAIN m.block /\ Owner(m, o) = BlockOwner(m, b)
  BY OwnerByBlock DEF Forest
<1>2. r \in DOMAIN m.region /\ b \in ToSet(m.region[r].blocks) /\ BlockOwner(m, b) = m.region[r].owner
  BY <1>1 DEF Forest, OwnersAgree, BlocksPlaced, BlockOwner
<1> HIDE DEF b, r
<1>3. Owner(m, o) # 0 => r \in ToSet(m.op[Owner(m, o)].regions)
  BY <1>1, <1>2 DEF Forest, OwnersAgree, RegionsClaimed
<1>4. Owner(m, o) # 0 => b \in BlocksOf(m, Owner(m, o))
  BY <1>2, <1>3 DEF BlocksOf
<1> QED
  BY <1>1, <1>4 DEF b

\* An operation is at its position.
LEMMA AtItsPosition ==
  ASSUME NEW m, Arena(m), NEW b \in DOMAIN m.block, NEW i \in DOMAIN m.block[b].ops
  PROVE  Position(m, m.block[b].ops[i]) = i
<1>1. m.block[b].ops[i] \in DOMAIN m.op /\ m.op[m.block[b].ops[i]].parent = b
  BY DEF Arena, ArenaAgrees, ListedWhereNamed
<1>2. \A j \in DOMAIN m.block[b].ops : m.block[b].ops[j] = m.block[b].ops[i] => j = i
  BY DEF Arena, ArenaAgrees, ListedOnce
<1> QED
  BY <1>1, <1>2 DEF Position

\* What an operation produces is read in its block and below, later than it.
LEMMA DominatedReads ==
  ASSUME NEW m, Forest(m), NEW v, NEW o \in DOMAIN m.op, Dominates(m, v, o)
  PROVE  LET p == m.value[v].producer IN
         \/ /\ p # 0 /\ m.op[p].parent # 0
            /\ \E x \in {o} \cup Above(m)[o] :
                 m.op[x].parent = m.op[p].parent /\ Position(m, p) < Position(m, x)
         \/ /\ p = 0
            /\ \E x \in {o} \cup Above(m)[o] : m.op[x].parent # 0 /\ m.op[x].parent = m.value[v].home
BY DEF Dominates, EnclosingChain

-----------------------------------------------------------------------------
(* What disappears.                                                        *)

\* What is above an operation depends on who is around whom.
LEMMA SameAbove ==
  ASSUME NEW m, NEW n, Forest(m), Forest(n),
         \A x \in DOMAIN m.op : x \in DOMAIN n.op /\ Owner(n, x) = Owner(m, x)
  PROVE  \A x \in DOMAIN m.op : Above(n)[x] = Above(m)[x]
<1> DEFINE Good == {x \in DOMAIN m.op : Above(n)[x] = Above(m)[x]}
<1>1. ASSUME NEW x \in DOMAIN m.op, Owner(m, x) # 0 => Owner(m, x) \in Good
      PROVE  x \in Good
  <2> DEFINE w == Owner(m, x)
  <2>1. Owner(n, x) = w /\ x \in DOMAIN n.op
    OBVIOUS
  <2>2. CASE w = 0
    <3>1. Above(m)[x] = {} /\ Above(n)[x] = {}
      BY <2>1, <2>2, AboveOwner
    <3> QED
      BY <3>1
  <2>3. CASE w # 0
    <3>1. Above(m)[x] = {w} \cup Above(m)[w]
      BY <2>3, AboveOwner
    <3>2. Above(n)[x] = {w} \cup Above(n)[w]
      BY <2>1, <2>3, AboveOwner
    <3>3. Above(n)[w] = Above(m)[w]
      BY <1>1, <2>3
    <3> HIDE DEF w
    <3> QED
      BY <3>1, <3>2, <3>3
  <2> QED
    BY <2>2, <2>3
<1>2. DOMAIN m.op \subseteq Good
  <2> HIDE DEF Good
  <2> QED
    BY <1>1, OwnerInduction
<1> QED
  BY <1>2

\* An edit that leaves what each operation does, and takes nothing out of the
\* program.
Preserves(m, n) ==
  \A x \in DOMAIN m.op :
    /\ x \in DOMAIN n.op
    /\ SameHead(m.op[x], n.op[x]) /\ n.op[x].erased = m.op[x].erased
    /\ Above(m)[x] \subseteq Above(n)[x]
    /\ x \in Live(m) => x \in Live(n)

LEMMA StayingPreserves ==
  ASSUME NEW m, NEW n, Forest(m), Forest(n), SameBlockOwners(m, n),
         \A x \in DOMAIN m.op :
           /\ x \in DOMAIN n.op
           /\ SameHead(m.op[x], n.op[x]) /\ n.op[x].erased = m.op[x].erased
           /\ n.op[x].parent = m.op[x].parent
  PROVE  Preserves(m, n)
<1>1. \A x \in DOMAIN m.op : Owner(n, x) = Owner(m, x)
  <2> SUFFICES ASSUME NEW x \in DOMAIN m.op PROVE Owner(n, x) = Owner(m, x)
    OBVIOUS
  <2>1. CASE m.op[x].parent = 0
    BY <2>1 DEF Owner
  <2>2. CASE m.op[x].parent # 0
    <3>1. m.op[x].parent \in DOMAIN m.block /\ Owner(m, x) = BlockOwner(m, m.op[x].parent)
      BY <2>2, OwnerByBlock DEF Forest
    <3>2. Owner(n, x) = BlockOwner(n, m.op[x].parent)
      BY <2>2, OwnerByBlock DEF Forest
    <3> QED
      BY <3>1, <3>2 DEF SameBlockOwners
  <2> QED
    BY <2>1, <2>2
<1>2. \A x \in DOMAIN m.op : Above(n)[x] = Above(m)[x]
  BY <1>1, SameAbove
<1>3. \A x \in Live(m) : x \in Live(n)
  <2> SUFFICES ASSUME NEW x \in Live(m) PROVE x \in Live(n)
    OBVIOUS
  <2>1. x \in DOMAIN m.op /\ ~m.op[x].erased
    BY DEF Live
  <2>2. PICK a \in {x} \cup Above(m)[x] : m.op[a].parent = BodyBlock
    BY DEF Live
  <2>3. a \in DOMAIN m.op /\ a \in {x} \cup Above(n)[x]
    BY <1>2, <2>1, <2>2, AboveIs
  <2>4. n.op[a].parent = BodyBlock /\ x \in DOMAIN n.op /\ ~n.op[x].erased
    BY <2>1, <2>2, <2>3
  <2> QED
    BY <2>3, <2>4 DEF Live
<1>4. \A x \in DOMAIN m.op : Above(m)[x] \subseteq Above(n)[x]
  BY <1>2
<1> QED
  BY <1>3, <1>4 DEF Preserves

\* An operation moves into one that stands in the same block.
LEMMA MovingPreserves ==
  ASSUME NEW m, NEW n, Forest(m), Forest(n), SameNesting(m, n),
         NEW o \in DOMAIN m.op, SamePlacesBut(o, m, n),
         NEW w \in DOMAIN m.op, w # o, w # 0, Owner(n, o) = w, m.op[w].parent = m.op[o].parent
  PROVE  Preserves(m, n)
<1> DEFINE Good == {x \in DOMAIN n.op : Above(m)[x] \subseteq Above(n)[x]}
<1>a. DOMAIN n.op = DOMAIN m.op /\ Owner(m, w) = Owner(m, o)
  BY DEF SameNesting, Owner
<1>b. \A x \in DOMAIN m.op : x # o => Owner(n, x) = Owner(m, x)
  <2> SUFFICES ASSUME NEW x \in DOMAIN m.op, x # o PROVE Owner(n, x) = Owner(m, x)
    OBVIOUS
  <2>1. n.op[x].parent = m.op[x].parent
    BY DEF SamePlacesBut
  <2>2. CASE m.op[x].parent = 0
    BY <2>1, <2>2 DEF Owner
  <2>3. CASE m.op[x].parent # 0
    <3>1. m.op[x].parent \in DOMAIN m.block /\ Owner(m, x) = BlockOwner(m, m.op[x].parent)
      BY <2>3, OwnerByBlock DEF Forest
    <3>2. Owner(n, x) = BlockOwner(n, m.op[x].parent)
      BY <1>a, <2>1, <2>3, OwnerByBlock DEF Forest
    <3>3. SameBlockOwners(m, n)
      BY SameNestingOwners
    <3> QED
      BY <3>1, <3>2, <3>3 DEF SameBlockOwners
  <2> QED
    BY <2>2, <2>3
<1>1. ASSUME NEW x \in DOMAIN n.op, Owner(n, x) # 0 => Owner(n, x) \in Good
      PROVE  x \in Good
  <2>1. CASE x = o
    <3>1. Above(n)[o] = {w} \cup Above(n)[w]
      BY <2>1, AboveOwner
    <3>2. Above(m)[o] = Above(m)[w]
      <4>1. CASE Owner(m, o) = 0
        <5>1. Above(m)[o] = {} /\ Above(m)[w] = {}
          BY <1>a, <4>1, AboveOwner
        <5> QED
          BY <5>1
      <4>2. CASE Owner(m, o) # 0
        <5>1. Above(m)[o] = {Owner(m, o)} \cup Above(m)[Owner(m, o)]
          BY <4>2, AboveOwner
        <5>2. Above(m)[w] = {Owner(m, w)} \cup Above(m)[Owner(m, w)]
          BY <1>a, <4>2, AboveOwner
        <5> QED
          BY <1>a, <5>1, <5>2, Zenon
      <4> QED
        BY <4>1, <4>2
    <3>3. Above(m)[w] \subseteq Above(n)[w]
      BY <1>1, <2>1
    <3> QED
      BY <1>1, <2>1, <3>1, <3>2, <3>3
  <2>2. CASE x # o
    <3> DEFINE u == Owner(m, x)
    <3>1. Owner(n, x) = u /\ x \in DOMAIN m.op
      BY <1>a, <1>b, <2>2
    <3>2. CASE u = 0
      <4>1. Above(m)[x] = {}
        BY <3>1, <3>2, AboveOwner
      <4> QED
        BY <4>1
    <3>3. CASE u # 0
      <4>1. Above(m)[x] = {u} \cup Above(m)[u]
        BY <3>1, <3>3, AboveOwner
      <4>2. Above(n)[x] = {u} \cup Above(n)[u]
        BY <3>1, <3>3, AboveOwner
      <4>3. Above(m)[u] \subseteq Above(n)[u]
        BY <1>1, <3>1, <3>3
      <4> HIDE DEF u
      <4> QED
        BY <4>1, <4>2, <4>3
    <3> QED
      BY <3>2, <3>3
  <2> QED
    BY <2>1, <2>2
<1>2. DOMAIN n.op \subseteq Good
  <2> HIDE DEF Good
  <2> QED
    BY <1>1, OwnerInduction
<1>3. \A x \in Live(m) : x \in Live(n)
  <2> SUFFICES ASSUME NEW x \in Live(m) PROVE x \in Live(n)
    OBVIOUS
  <2>1. x \in DOMAIN m.op /\ ~m.op[x].erased
    BY DEF Live
  <2>2. PICK a \in {x} \cup Above(m)[x] : m.op[a].parent = BodyBlock
    BY DEF Live
  <2>3. a \in DOMAIN m.op /\ a \in {x} \cup Above(n)[x]
    BY <1>2, <1>a, <2>1, <2>2, AboveIs
  <2>4. CASE a # o
    <3>1. n.op[a].parent = BodyBlock
      BY <2>2, <2>3, <2>4 DEF SamePlacesBut
    <3> QED
      BY <2>1, <2>3, <3>1 DEF Live, SameNesting
  <2>5. CASE a = o
    <3>1. n.op[w].parent = BodyBlock
      BY <2>2, <2>5 DEF SamePlacesBut
    <3>2. w \in Above(n)[o]
      BY <1>a, AboveOwner
    <3>3. w \in Above(n)[x]
      BY <1>a, <2>1, <2>3, <2>5, <3>2, AboveIsAnOrder
    <3> QED
      BY <2>1, <3>1, <3>3 DEF Live, SameNesting
  <2> QED
    BY <2>4, <2>5
<1> QED
  BY <1>2, <1>3 DEF Preserves, SameNesting

\* Detaching d cuts what was above it from what it holds, and nothing else.
LEMMA AboveAfterErasing ==
  ASSUME NEW m, NEW n, Forest(m), Forest(n), SameBlockOwners(m, n), DOMAIN n.op = DOMAIN m.op,
         NEW d \in DOMAIN m.op, n.op[d].parent = 0, SamePlacesBut(d, m, n)
  PROVE  \A x \in DOMAIN m.op :
           /\ Above(n)[x] \subseteq Above(m)[x]
           /\ d \in Above(m)[x] => d \in Above(n)[x]
           /\ d \notin {x} \cup Above(m)[x] => Above(n)[x] = Above(m)[x]
<1> DEFINE Cut(x) == /\ Above(n)[x] \subseteq Above(m)[x]
                     /\ d \in Above(m)[x] => d = x \/ d \in Above(n)[x]
                     /\ d \notin {x} \cup Above(m)[x] => Above(n)[x] = Above(m)[x]
           Good == {x \in DOMAIN m.op : Cut(x)}
<1>1. ASSUME NEW x \in DOMAIN m.op, Owner(m, x) # 0 => Owner(m, x) \in Good
      PROVE  x \in Good
  <2>1. CASE x = d
    <3>1. Owner(n, d) = 0
      BY DEF Owner
    <3>2. Above(n)[d] = {}
      BY <3>1, AboveOwner
    <3> QED
      BY <2>1, <3>2
  <2>2. CASE x # d
    <3> DEFINE u == Owner(m, x)
    <3>1. Owner(n, x) = u
      <4>1. n.op[x].parent = m.op[x].parent
        BY <2>2 DEF SamePlacesBut
      <4>2. CASE m.op[x].parent = 0
        BY <4>1, <4>2 DEF Owner
      <4>3. CASE m.op[x].parent # 0
        <5>1. m.op[x].parent \in DOMAIN m.block /\ Owner(m, x) = BlockOwner(m, m.op[x].parent)
          BY <4>3, OwnerByBlock DEF Forest
        <5>2. Owner(n, x) = BlockOwner(n, m.op[x].parent)
          BY <4>1, <4>3, OwnerByBlock DEF Forest
        <5> QED
          BY <5>1, <5>2 DEF SameBlockOwners
      <4> QED
        BY <4>2, <4>3
    <3>2. CASE u = 0
      <4>1. Above(m)[x] = {} /\ Above(n)[x] = {}
        BY <3>1, <3>2, AboveOwner
      <4> QED
        BY <4>1
    <3>3. CASE u # 0
      <4>1. Above(m)[x] = {u} \cup Above(m)[u]
        BY <3>3, AboveOwner
      <4>2. Above(n)[x] = {u} \cup Above(n)[u]
        BY <3>1, <3>3, AboveOwner
      <4>3. Cut(u)
        BY <1>1, <3>3
      <4> HIDE DEF u
      <4> QED
        BY <4>1, <4>2, <4>3
    <3> QED
      BY <3>2, <3>3
  <2> QED
    BY <2>1, <2>2
<1>2. DOMAIN m.op \subseteq Good
  <2> HIDE DEF Good
  <2> QED
    BY <1>1, OwnerInduction
<1>3. \A x \in DOMAIN m.op : x \notin Above(m)[x]
  BY AboveIsAnOrder
<1> QED
  BY <1>2, <1>3

\* What was in the program and is not, is gone with something that had results
\* and that has been erased, and did nothing that cannot be repeated.
Gone(m, o) ==
  /\ IsReplayable(m.op[o].effect)
  /\ \E a \in {o} \cup Above(m)[o] : m.op[a].erased /\ m.op[a].results # <<>>

\* Nothing inside d does what cannot be repeated.
Removable(m, d) ==
  /\ m.op[d].results # <<>>
  /\ \A x \in Inside(m, d) : IsReplayable(m.op[x].effect)

LEMMA PreservedOrGone ==
  ASSUME NEW m, NEW n, Preserves(m, n), NEW o \in DOMAIN m.op, o \in Live(m) \/ Gone(m, o),
         Above(m)[o] \subseteq DOMAIN m.op
  PROVE  o \in Live(n) \/ Gone(n, o)
BY DEF Preserves, Gone, SameHead

\* An erasure takes what is inside the operation out of the program.
LEMMA ErasedOrGone ==
  ASSUME NEW m, Forest(m), NEW d \in DOMAIN m.op, Removable(m, d),
         Forest(Erased(m, d)), NEW o \in DOMAIN m.op, o \in Live(m) \/ Gone(m, o)
  PROVE  o \in Live(Erased(m, d)) \/ Gone(Erased(m, d), o)
<1> DEFINE n == Erased(m, d)
<1>1. /\ DOMAIN n.op = DOMAIN m.op /\ n.op[d].erased /\ n.op[d].parent = 0
      /\ DOMAIN n.block = DOMAIN m.block /\ n.region = m.region
      /\ \A x \in DOMAIN m.op : SameHead(m.op[x], n.op[x])
      /\ \A x \in DOMAIN m.op : x # d => n.op[x].erased = m.op[x].erased
                                         /\ n.op[x].parent = m.op[x].parent
      /\ \A x \in DOMAIN m.block : n.block[x].region = m.block[x].region
  BY ErasingKeepsArena DEF Forest
<1> HIDE DEF n
<1>2. SameBlockOwners(m, n) /\ SamePlacesBut(d, m, n)
  BY <1>1 DEF SameBlockOwners, BlockOwner, SamePlacesBut
<1>3. /\ d \in Above(m)[o] => d \in Above(n)[o]
      /\ d \notin {o} \cup Above(m)[o] => Above(n)[o] = Above(m)[o]
  BY <1>1, <1>2, AboveAfterErasing DEF n
<1>4. n.op[o].effect = m.op[o].effect
  BY <1>1 DEF SameHead
<1>5. CASE d \in {o} \cup Above(m)[o]
  <2>1. d \in {o} \cup Above(n)[o] /\ n.op[d].erased /\ n.op[d].results # <<>>
    BY <1>1, <1>3, <1>5 DEF Removable, SameHead
  <2>2. IsReplayable(m.op[o].effect)
    <3>1. CASE o \in Live(m)
      <4>1. o \in Inside(m, d)
        BY <1>5, <3>1 DEF Live, Inside
      <4> QED
        BY <4>1 DEF Removable
    <3>2. CASE Gone(m, o)
      BY <3>2 DEF Gone
    <3> QED
      BY <3>1, <3>2
  <2> QED
    BY <1>4, <2>1, <2>2 DEF Gone, n
<1>6. CASE d \notin {o} \cup Above(m)[o]
  <2>1. Above(n)[o] = Above(m)[o] /\ Above(m)[o] \subseteq DOMAIN m.op
    BY <1>3, <1>6, AboveIs
  <2>2. \A a \in {o} \cup Above(m)[o] : /\ n.op[a].erased = m.op[a].erased
                                        /\ n.op[a].parent = m.op[a].parent
                                        /\ n.op[a].results = m.op[a].results
    BY <1>1, <1>6, <2>1 DEF SameHead
  <2>3. CASE o \in Live(m)
    BY <1>1, <2>1, <2>2, <2>3 DEF Live, n
  <2>4. CASE Gone(m, o)
    BY <1>4, <2>1, <2>2, <2>4 DEF Gone, n
  <2> QED
    BY <2>3, <2>4
<1> QED
  BY <1>5, <1>6

\* What is to be erased stays so while the rest is.
LEMMA ErasingKeepsRemovable ==
  ASSUME NEW m, Forest(m), NEW d \in DOMAIN m.op, Forest(Erased(m, d)),
         NEW e \in DOMAIN m.op, Removable(m, e)
  PROVE  Removable(Erased(m, d), e)
<1> DEFINE n == Erased(m, d)
<1>1. /\ DOMAIN n.op = DOMAIN m.op /\ n.op[d].erased /\ n.op[d].parent = 0
      /\ DOMAIN n.block = DOMAIN m.block /\ n.region = m.region
      /\ \A x \in DOMAIN m.op : SameHead(m.op[x], n.op[x])
      /\ \A x \in DOMAIN m.op : x # d => n.op[x].erased = m.op[x].erased
                                         /\ n.op[x].parent = m.op[x].parent
      /\ \A x \in DOMAIN m.block : n.block[x].region = m.block[x].region
  BY ErasingKeepsArena DEF Forest
<1> HIDE DEF n
<1>2. SameBlockOwners(m, n) /\ SamePlacesBut(d, m, n)
  BY <1>1 DEF SameBlockOwners, BlockOwner, SamePlacesBut
<1>3. \A x \in DOMAIN m.op : Above(n)[x] \subseteq Above(m)[x]
  BY <1>1, <1>2, AboveAfterErasing DEF n
<1>4. \A x \in DOMAIN m.op : ~n.op[x].erased => ~m.op[x].erased
  BY <1>1
<1>5. Inside(n, e) \subseteq Inside(m, e)
  BY <1>1, <1>3, <1>4 DEF Inside
<1>6. \A x \in Inside(m, e) : x \in DOMAIN m.op
  BY DEF Inside
<1> QED
  BY <1>1, <1>5, <1>6 DEF Removable, SameHead, n

\* Of what was in the program b, nothing but such operations is missing in m.
NothingLost(b, m) ==
  \A o \in Live(b) : /\ o \in DOMAIN m.op /\ m.op[o].effect = b.op[o].effect
                     /\ o \in Live(m) \/ Gone(m, o)

LEMMA PreservingLosesNothing ==
  ASSUME NEW b, NEW m, NEW n, Forest(m), Preserves(m, n), NothingLost(b, m)
  PROVE  NothingLost(b, n)
<1> SUFFICES ASSUME NEW o \in Live(b)
             PROVE  /\ o \in DOMAIN n.op /\ n.op[o].effect = b.op[o].effect
                    /\ o \in Live(n) \/ Gone(n, o)
  BY DEF NothingLost
<1>1. o \in DOMAIN m.op /\ m.op[o].effect = b.op[o].effect /\ (o \in Live(m) \/ Gone(m, o))
  BY DEF NothingLost
<1>2. Above(m)[o] \subseteq DOMAIN m.op
  BY <1>1, AboveIs
<1>3. o \in Live(n) \/ Gone(n, o)
  BY <1>1, <1>2, PreservedOrGone
<1> QED
  BY <1>1, <1>3 DEF Preserves, SameHead

LEMMA ErasingLosesNothing ==
  ASSUME NEW b, NEW m, Forest(m), NEW d \in DOMAIN m.op, Removable(m, d),
         Forest(Erased(m, d)), NothingLost(b, m)
  PROVE  NothingLost(b, Erased(m, d))
<1> SUFFICES ASSUME NEW o \in Live(b)
             PROVE  /\ o \in DOMAIN Erased(m, d).op
                    /\ Erased(m, d).op[o].effect = b.op[o].effect
                    /\ o \in Live(Erased(m, d)) \/ Gone(Erased(m, d), o)
  BY DEF NothingLost
<1>1. o \in DOMAIN m.op /\ m.op[o].effect = b.op[o].effect /\ (o \in Live(m) \/ Gone(m, o))
  BY DEF NothingLost
<1>2. o \in Live(Erased(m, d)) \/ Gone(Erased(m, d), o)
  BY <1>1, ErasedOrGone
<1>3. DOMAIN Erased(m, d).op = DOMAIN m.op /\ Erased(m, d).op[o].effect = m.op[o].effect
  BY <1>1, ErasingKeepsArena DEF Forest, SameHead
<1> QED
  BY <1>1, <1>2, <1>3

\* What a walk finds dead may go.
LEMMA DeadIsRemovable ==
  ASSUME NEW m, NEW d \in Dead(m)
  PROVE  Removable(m, d)
<1>1. d \in Live(m) /\ m.op[d].results # <<>> /\ Replayable(m, d)
  BY DEF Dead, IsDead
<1>2. \A x \in Inside(m, d) : m.op[x].effect \in Summary(m, d)
  BY <1>1 DEF Summary
<1> QED
  BY <1>1, <1>2 DEF Replayable, Removable

\* The operations of a group stand beside their wrapper, each named once.
Together(m, w, ops) ==
  \A i \in DOMAIN ops :
    /\ m.op[ops[i]].parent = m.op[w].parent
    /\ \A j \in DOMAIN ops : ops[i] = ops[j] => i = j

LEMMA RunHasNoRepeats ==
  ASSUME NEW m, Arena(m), NEW b \in DOMAIN m.block, NEW r \in Runs(m, b),
         NEW i \in DOMAIN Group(m, b, r), NEW j \in DOMAIN Group(m, b, r),
         Group(m, b, r)[i] = Group(m, b, r)[j]
  PROVE  i = j
<1> DEFINE s == m.block[b].ops
           first == r[1]
           last == r[2]
           ops == Group(m, b, r)
<1>1. s \in Seq(Nat)
  BY ListedOperations
<1>2. first \in 1..Len(s) /\ last \in 1..Len(s) /\ last > first
  BY DEF Runs, OpsIn
<1>3. ops = SubSeq(s, first, last)
  BY DEF Group, OpsIn
<1>4. \A k, l \in DOMAIN s : s[k] = s[l] => k = l
  BY DEF Arena, ArenaAgrees, ListedOnce
<1> HIDE DEF s, first, last, ops
<1>5. \A k \in DOMAIN ops : k \in Nat /\ first + k - 1 \in DOMAIN s /\ ops[k] = s[first + k - 1]
  BY <1>1, <1>2, <1>3
<1>6. first + i - 1 = first + j - 1
  BY <1>4, <1>5 DEF ops
<1> QED
  BY <1>2, <1>5, <1>6 DEF ops

VanishInv ==
  /\ NestingInv
  /\ pass # "elimination" => dead = {}
  /\ \A d \in dead : Removable(ir, d)
  /\ Together(ir, wrapper, group)
  /\ NothingLost(before, ir)

Untouched == NestingInv /\ before = ir /\ dead = {} /\ group = <<>>

LEMMA VanishInvStart == Untouched => VanishInv
BY DEF Untouched, VanishInv, Together, NothingLost, Live

LEMMA VanishInvStartAfter == Untouched' => VanishInv'
BY VanishInvStart, PTL

LEMMA NestedForest ==
  ASSUME NestingInv
  PROVE  Forest(ir)
BY DEF NestingInv, ProgressInv, ArenaInv, Forest, Nested

LEMMA NestedForestAfter ==
  ASSUME NestingInv'
  PROVE  Forest(ir')
BY DEF NestingInv, ProgressInv, ArenaInv, Forest, Nested, Ranked, Owner

\* An operation is moved into one beside it.
MovesInto(m, n, g, w) ==
  /\ SameNesting(m, n) /\ SamePlacesBut(g, m, n) /\ SameOrderBut(g, m, n)
  /\ g \in DOMAIN m.op /\ w \in DOMAIN m.op /\ w # g /\ w # 0
  /\ Owner(n, g) = w /\ m.op[w].parent = m.op[g].parent

LEMMA MoveMovesInto ==
  ASSUME NestingInv, VanishInv, Move
  PROVE  MovesInto(ir, ir', group[1], wrapper)
<1> DEFINE o == Head(group)
           b == InnerBlock(ir, wrapper)
<1>b. Forest(ir) /\ Arena(ir) /\ OwnersAgree(ir) /\ ArenaInv
  BY NestedForest DEF NestingInv, ProgressInv, ArenaInv
<1>c. Forest(ir')
  BY NestingInvStep, NestedForestAfter DEF PassesNext, Parallelize
<1>1. /\ group # <<>> /\ ir' = MovedToEnd(ir, o, b)
  BY DEF Move
<1>2. wrapper # 0 /\ IsWrapper(ir, wrapper) /\ group \in Seq(Nat)
  BY <1>b, <1>1 DEF ArenaInv
<1>3. 1 \in DOMAIN group /\ o = group[1]
  BY <1>1, <1>2
<1>4. o \in DOMAIN ir.op /\ ~ir.op[o].erased /\ b \in DOMAIN ir.block /\ wrapper \in DOMAIN ir.op
  BY <1>b, <1>2, <1>3 DEF ArenaInv, IsWrapper
<1>5. /\ SameNesting(ir, ir') /\ SamePlacesBut(o, ir, ir') /\ SameOrderBut(o, ir, ir')
      /\ ir'.op[o].parent = b
  BY <1>b, <1>1, <1>4, MovingKeepsArena
<1>6. Owner(ir', o) = wrapper
  <2>1. b # 0 /\ BlockOwner(ir, b) = wrapper
    BY <1>b, <1>2, <1>4, ListedOperations DEF IsWrapper, BlockOwner
  <2>2. Owner(ir', o) = BlockOwner(ir', b)
    BY <1>b, <1>c, <1>4, <1>5, <2>1, OwnerByBlock DEF SameNesting, Forest
  <2> QED
    BY <1>4, <1>5, <2>1, <2>2, SameNestingOwners DEF SameBlockOwners
<1>7. wrapper # o
  <2>1. PICK N, rank : Ranked(ir, N, rank) /\ \A i \in DOMAIN group : rank[wrapper] < rank[group[i]]
    BY DEF NestingInv
  <2>2. rank[wrapper] < rank[o] /\ rank[o] \in Int
    BY <1>3, <1>4, <2>1 DEF Ranked
  <2> QED
    BY <2>2
<1>8. ir.op[wrapper].parent = ir.op[o].parent
  BY <1>3 DEF VanishInv, Together
<1> HIDE DEF o, b
<1> QED
  BY <1>2, <1>3, <1>4, <1>5, <1>6, <1>7, <1>8 DEF MovesInto

LEMMA VanishInvStep == VanishInv /\ [PassesNext]_passesVars => VanishInv'
<1> SUFFICES ASSUME VanishInv, [PassesNext]_passesVars PROVE VanishInv'
  OBVIOUS
<1>a. NestingInv /\ NestingInv'
  BY NestingInvStep DEF VanishInv
<1>b. Forest(ir) /\ Forest(ir') /\ Arena(ir) /\ OwnersAgree(ir) /\ RegionsFilled(ir)
  BY <1>a, NestedForest, NestedForestAfter DEF NestingInv, ProgressInv, ArenaInv
<1>c. before' = before
  BY DEF PassesNext, Deduplicate, Eliminate, Parallelize, LeaveBlock, Skip, Remember,
     ReuseEarlier, EndDeduplication, Scan, EraseOne, EndElimination, Wrap, Move, Route,
     Converge, HitCap, AnotherRound, passesVars
<1>d. ASSUME pass' # "elimination" => dead' = {},
             \A d \in dead' : Removable(ir', d),
             Together(ir', wrapper', group'),
             NothingLost(before, ir')
      PROVE  VanishInv'
  <2>1. (\A d \in dead : Removable(ir, d))'
    BY <1>d DEF Removable, Inside, Above, Owner
  <2>2. Together(ir, wrapper, group)'
    BY <1>d DEF Together
  <2>3. NothingLost(before, ir)'
    <3>1. Live(before)' = Live(before')
      BY DEF Live, Above, Owner
    <3>2. Live(ir)' = Live(ir')
      BY DEF Live, Above, Owner
    <3>3. \A o : Gone(ir, o)' <=> Gone(ir', o)
      BY DEF Gone, Above, Owner
    <3> QED
      BY <1>c, <1>d, <3>1, <3>2, <3>3 DEF NothingLost
  <2> QED
    BY <1>a, <1>d, <2>1, <2>2, <2>3 DEF VanishInv
<1>e. ASSUME Preserves(ir, ir') PROVE NothingLost(before, ir')
  BY <1>b, <1>e, PreservingLosesNothing DEF VanishInv
<1>1. CASE ir' = ir /\ dead' = {} /\ group' = <<>>
  BY <1>1, <1>d DEF Together, VanishInv
<1>2. CASE Skip \/ Remember \/ UNCHANGED passesVars
  <2>1. ir' = ir /\ dead' = dead /\ group' = group /\ wrapper' = wrapper /\ pass' = pass
    BY <1>2 DEF Skip, Remember, passesVars, passVars, local
  <2> QED
    BY <1>d, <2>1 DEF VanishInv
<1>3. CASE Scan
  <2>1. /\ ir' = ir /\ dead' = Dead(ir) /\ group' = group /\ wrapper' = wrapper
        /\ pass' = "elimination"
    BY <1>3 DEF Scan, passVars
  <2>2. \A d \in dead' : Removable(ir', d)
    BY <2>1, DeadIsRemovable
  <2> QED
    BY <1>d, <2>1, <2>2 DEF VanishInv
<1>4. CASE ReuseEarlier
  <2>1. /\ \E to : ir' = UsesReplaced(ir, to)
        /\ pass' = pass /\ pass # "elimination"
        /\ dead' = dead /\ group' = group /\ wrapper' = wrapper
    BY <1>4 DEF ReuseEarlier, Examining, Deduplicating
  <2>2. PICK to : ir' = UsesReplaced(ir, to)
    BY <2>1
  <2>3. /\ DOMAIN ir'.op = DOMAIN ir.op /\ ir'.block = ir.block /\ ir'.region = ir.region
        /\ \A x \in DOMAIN ir.op : /\ ir'.op[x].parent = ir.op[x].parent
                                   /\ ir'.op[x].erased = ir.op[x].erased
                                   /\ SameHead(ir.op[x], ir'.op[x])
    BY <1>b, <2>2, RedirectingKeepsArena
  <2>4. SameBlockOwners(ir, ir')
    BY <2>3 DEF SameBlockOwners, BlockOwner
  <2>5. Preserves(ir, ir')
    BY <1>b, <2>3, <2>4, StayingPreserves
  <2>6. Together(ir', wrapper', group')
    <3>1. group = <<>>
      <4>1. pass # "parallelization"
        BY <1>4 DEF ReuseEarlier, Examining, Deduplicating
      <4> QED
        BY <1>a, <4>1 DEF NestingInv, ProgressInv, ArenaInv
    <3> QED
      BY <2>1, <3>1 DEF Together
  <2> QED
    BY <1>d, <1>e, <2>1, <2>5, <2>6 DEF VanishInv
<1>5. CASE EraseOne
  <2>1. PICK o \in dead : ir' = Erased(ir, o) /\ dead' = dead \ {o}
    BY <1>5 DEF EraseOne
  <2>2. /\ pass' = "elimination" /\ group' = group /\ wrapper' = wrapper
        /\ pass # "parallelization"
    BY <1>5 DEF EraseOne
  <2>3. dead \subseteq DOMAIN ir.op /\ group = <<>>
    BY <1>a, <2>2 DEF NestingInv, ProgressInv, ArenaInv
  <2>4. \A d \in dead' : Removable(ir', d)
    BY <1>b, <2>1, <2>3, ErasingKeepsRemovable DEF VanishInv
  <2>5. NothingLost(before, ir')
    BY <1>b, <2>1, <2>3, ErasingLosesNothing DEF VanishInv
  <2> QED
    BY <1>d, <2>2, <2>3, <2>4, <2>5 DEF Together
<1>6. CASE Wrap
  <2>a. PICK b \in DOMAIN ir.block : \E r \in Runs(ir, b) :
          ir' = WithParallel(ir, b, Group(ir, b, r)) /\ group' = Group(ir, b, r)
    BY <1>6 DEF Wrap
  <2>1. PICK r \in Runs(ir, b) :
          ir' = WithParallel(ir, b, Group(ir, b, r)) /\ group' = Group(ir, b, r)
    BY <2>a
  <2>2. wrapper' = NewOp(ir) /\ dead' = dead /\ pass' = pass /\ pass = "parallelization"
    BY <1>6 DEF Wrap
  <2>3. /\ group' \in Seq(Nat) /\ group'[1] \in ToSet(ir.block[b].ops)
        /\ \A i \in DOMAIN group' : group'[i] \in ToSet(ir.block[b].ops)
    BY <1>b, <2>1, RunIsListed
  <2>4. \A i \in DOMAIN group' : group'[i] \in DOMAIN ir.op /\ ir.op[group'[i]].parent = b
    BY <1>b, <2>3, ListedOperations
  <2>5. group' \in Seq(DOMAIN ir.op)
    BY <2>3, <2>4
  <2>6. Grows(ir, ir') /\ ir'.op[wrapper'].parent = b
    BY <1>b, <2>1, <2>2, <2>3, <2>5, WrappingKeepsArena
  <2>7. Preserves(ir, ir')
    BY <1>b, <2>6, GrowingKeepsOwners, StayingPreserves DEF Grows
  <2>8. \A i, j \in DOMAIN group' : group'[i] = group'[j] => i = j
    BY <1>b, <2>1, RunHasNoRepeats
  <2>9. Together(ir', wrapper', group')
    BY <2>4, <2>6, <2>8 DEF Together, Grows
  <2>10. dead = {}
    BY <2>2 DEF VanishInv
  <2> QED
    BY <1>d, <1>e, <2>2, <2>7, <2>9, <2>10
<1>7. CASE Move
  <2> DEFINE o == Head(group)
             b == InnerBlock(ir, wrapper)
  <2>1. /\ group # <<>> /\ ir' = MovedToEnd(ir, o, b) /\ group' = Tail(group)
        /\ wrapper' = wrapper /\ dead' = dead /\ pass' = pass
    BY <1>7 DEF Move, passVars
  <2>2. /\ wrapper # 0 /\ IsWrapper(ir, wrapper) /\ group \in Seq(Nat)
        /\ pass = "parallelization"
    BY <1>a, <2>1 DEF NestingInv, ProgressInv, ArenaInv
  <2>3. 1 \in DOMAIN group /\ o = group[1]
    BY <2>1, <2>2
  <2>4. o \in DOMAIN ir.op /\ ~ir.op[o].erased /\ b \in DOMAIN ir.block /\ wrapper \in DOMAIN ir.op
    BY <1>a, <2>2, <2>3 DEF NestingInv, ProgressInv, ArenaInv, IsWrapper
  <2>5. MovesInto(ir, ir', group[1], wrapper)
    BY <1>7, <1>a, MoveMovesInto
  <2>6. /\ SameNesting(ir, ir') /\ SamePlacesBut(o, ir, ir')
        /\ Owner(ir', o) = wrapper /\ wrapper # o /\ ir.op[wrapper].parent = ir.op[o].parent
    BY <2>3, <2>5 DEF MovesInto
  <2> HIDE DEF o, b
  <2>9. Preserves(ir, ir')
    BY <1>b, <2>2, <2>4, <2>6, MovingPreserves
  <2>10. \A i \in DOMAIN group' : i \in Nat /\ i + 1 \in DOMAIN group /\ group'[i] = group[i + 1] /\ i + 1 # 1
    BY <2>1, <2>2
  <2>11. \A i \in DOMAIN group' : /\ group'[i] \in DOMAIN ir.op /\ group'[i] # o
                                  /\ ir.op[group'[i]].parent = ir.op[wrapper].parent
    <3>1. /\ \A i \in DOMAIN group : group[i] \in DOMAIN ir.op
          /\ \A i \in DOMAIN group : ir.op[group[i]].parent = ir.op[wrapper].parent
          /\ \A i, j \in DOMAIN group : group[i] = group[j] => i = j
      BY <1>a DEF VanishInv, Together, NestingInv, ProgressInv, ArenaInv
    <3> QED
      BY ONLY <2>3, <2>10, <3>1
  <2>12. \A i, j \in DOMAIN group' : group'[i] = group'[j] => i = j
    <3> SUFFICES ASSUME NEW i \in DOMAIN group', NEW j \in DOMAIN group', group'[i] = group'[j]
                 PROVE  i = j
      OBVIOUS
    <3>1. i + 1 = j + 1
      BY <2>10 DEF VanishInv, Together
    <3> QED
      BY <2>10, <3>1
  <2>13. Together(ir', wrapper', group')
    BY <2>1, <2>4, <2>6, <2>11, <2>12 DEF Together, SamePlacesBut
  <2>14. dead = {}
    BY <2>2 DEF VanishInv
  <2> QED
    BY <1>d, <1>e, <2>1, <2>9, <2>13, <2>14
<1>8. CASE Route
  <2>1. /\ ir' = Routed(ir, wrapper, escaping) /\ group' = <<>> /\ IsWrapper(ir, wrapper)
        /\ IsFunction(escaping)
        /\ pass = "parallelization" /\ pass' = pass /\ dead' = dead
    BY <1>8, <1>a DEF Route, NestingInv, ProgressInv, ArenaInv, passVars
  <2>2. Grows(ir, ir')
    BY <1>b, <2>1, RoutingKeepsArena
  <2>3. Preserves(ir, ir')
    BY <1>b, <2>2, GrowingKeepsOwners, StayingPreserves DEF Grows
  <2>4. dead = {}
    BY <2>1 DEF VanishInv
  <2> QED
    BY <1>d, <1>e, <2>1, <2>3, <2>4 DEF Together
<1>9. LeaveBlock \/ EndDeduplication \/ EndElimination \/ Converge \/ HitCap \/ AnotherRound
      => ir' = ir /\ dead' = {} /\ group' = <<>>
  BY DEF LeaveBlock, EndDeduplication, EndElimination, Converge, HitCap, AnotherRound, Start
<1> QED
  BY <1>1, <1>2, <1>3, <1>4, <1>5, <1>6, <1>7, <1>8, <1>9
     DEF PassesNext, Deduplicate, Eliminate, Parallelize

LEMMA VanishInvHolds == VanishInv => OnlyReplayableVanishes
<1> SUFFICES ASSUME VanishInv, NEW o \in Live(before) \ Live(ir)
             PROVE  /\ IsReplayable(before.op[o].effect)
                    /\ \E a \in {o} \cup Above(ir)[o] : ir.op[a].erased /\ ir.op[a].results # <<>>
  BY DEF OnlyReplayableVanishes
<1>1. ir.op[o].effect = before.op[o].effect /\ Gone(ir, o)
  BY DEF VanishInv, NothingLost
<1> QED
  BY <1>1 DEF Gone

-----------------------------------------------------------------------------
(* A pipeline that is not capped has converged.                            *)

\* What a block lists is in it, each operation at its position.
LEMMA ListedInPlace ==
  ASSUME NEW m, Arena(m), NEW b \in DOMAIN m.block, NEW o \in ToSet(OpsIn(m, b))
  PROVE  /\ o \in DOMAIN m.op /\ m.op[o].parent = b /\ ~m.op[o].erased /\ b # 0
         /\ Position(m, o) \in 1..Len(OpsIn(m, b)) /\ Len(OpsIn(m, b)) \in Nat
         /\ OpsIn(m, b)[Position(m, o)] = o
<1>1. PICK i \in DOMAIN m.block[b].ops : m.block[b].ops[i] = o
  BY DEF OpsIn, ToSet
<1>2. o \in DOMAIN m.op /\ m.op[o].parent = b /\ b # 0 /\ ~m.op[o].erased
  BY ListedOperations DEF OpsIn
<1>3. m.block[b].ops \in Seq(Nat)
  BY DEF Arena, IsModule, IsBlock
<1>4. Position(m, o) = i
  BY <1>1, AtItsPosition
<1> QED
  BY <1>1, <1>2, <1>3, <1>4 DEF OpsIn

\* A call that may be answered by another holds nothing: its effects are its own.
LEMMA CallsHoldNothing ==
  ASSUME NEW m, Forest(m), NEW o \in DOMAIN m.op, m.op[o].regions = <<>>
  PROVE  Summary(m, o) \subseteq {m.op[o].effect}
<1> DEFINE Good == {n \in DOMAIN m.op : o \notin Above(m)[n]}
<1>1. ASSUME NEW n \in DOMAIN m.op PROVE Owner(m, n) # o
  <2> SUFFICES ASSUME Owner(m, n) = o PROVE FALSE
    OBVIOUS
  <2>1. o # 0
    <3>1. DOMAIN m.op = 1..Len(m.op) /\ Len(m.op) \in Nat
      BY ArenaShape DEF Forest, Arena
    <3> QED
      BY <3>1
  <2>2. m.op[n].parent \in DOMAIN m.block /\ m.region[m.block[m.op[n].parent].region].owner = o
    BY <2>1 DEF Owner, Forest, Arena, ArenaAgrees, NamedWhereListed
  <2>3. m.block[m.op[n].parent].region \in DOMAIN m.region
    BY <2>2 DEF Forest, OwnersAgree, BlocksPlaced
  <2>4. m.block[m.op[n].parent].region \in ToSet(m.op[o].regions)
    BY <2>1, <2>2, <2>3 DEF Forest, OwnersAgree, RegionsClaimed
  <2> QED
    BY <2>4 DEF ToSet
<1>2. ASSUME NEW n \in DOMAIN m.op, Owner(m, n) # 0 => Owner(m, n) \in Good
      PROVE  n \in Good
  BY <1>1, <1>2, AboveOwner
<1>3. DOMAIN m.op \subseteq Good
  <2> HIDE DEF Good
  <2> QED
    BY <1>2, OwnerInduction
<1>4. \A n \in Inside(m, o) : n = o
  BY <1>3 DEF Inside
<1> QED
  BY <1>4 DEF Summary

\* Two calls of a block under one key conflict with the same operations.
LEMMA SameCallsConflict ==
  ASSUME NEW m, Forest(m), NEW b \in DOMAIN m.block,
         NEW x \in ToSet(OpsIn(m, b)), NEW y \in ToSet(OpsIn(m, b)),
         Cacheable(m, x), Cacheable(m, y), CacheKey(m, x) = CacheKey(m, y),
         NEW r, Conflict(m, r, x)
  PROVE  Conflict(m, r, y)
<1> DEFINE f == m.op[x].effect
           g == m.op[y].effect
<1>1. /\ x \in DOMAIN m.op /\ m.op[x].parent = b /\ ~m.op[x].erased
      /\ y \in DOMAIN m.op /\ m.op[y].parent = b /\ ~m.op[y].erased
  BY ListedInPlace DEF Forest
<1>2. PICK e \in Summary(m, r), h \in Summary(m, x) : ConflictsWith(e, h)
  BY DEF Conflict
<1>3. h = f
  BY <1>1, <1>2, CallsHoldNothing DEF Cacheable
<1>4. x \in Live(m)
  BY <1>2 DEF Summary
<1>5. y \in Live(m)
  <2>1. Owner(m, x) = Owner(m, y)
    BY <1>1 DEF Owner
  <2>2. Above(m)[x] = Above(m)[y]
    BY <1>1, <2>1, AboveOwner
  <2> QED
    BY <1>1, <1>4, <2>2 DEF Live
<1>6. g \in Summary(m, y)
  BY <1>1, <1>5 DEF Summary, Inside
<1>7. IsReplayable(f)
  BY <1>2, <1>3 DEF Cacheable, Replayable
<1>8. (IF HasScope(f) THEN <<f.scope>> ELSE <<>>) = (IF HasScope(g) THEN <<g.scope>> ELSE <<>>)
  BY DEF CacheKey
<1>9. HasScope(f) /\ ~IsWrite(f)
  BY <1>2, <1>3, <1>7 DEF ConflictsWith, IsReplayable, IsWrite
<1>10. HasScope(g) /\ g.scope = f.scope
  <2> HIDE DEF f, g
  <2> QED
    BY <1>8, <1>9
<1>11. ConflictsWith(e, g)
  <2> HIDE DEF f, g
  <2> QED
    BY <1>2, <1>3, <1>9, <1>10 DEF ConflictsWith
<1> QED
  BY <1>2, <1>6, <1>11 DEF Conflict

\* What may have changed the answer of a call may have changed that of a later one.
LEMMA InterferedSince ==
  ASSUME NEW m, Forest(m), NEW b \in DOMAIN m.block, NEW p \in ToSet(OpsIn(m, b)),
         NEW x \in ToSet(OpsIn(m, b)), NEW y \in ToSet(OpsIn(m, b)),
         Cacheable(m, x), Cacheable(m, y), CacheKey(m, x) = CacheKey(m, y),
         Position(m, x) < Position(m, y), Interfered(m, p, x)
  PROVE  Interfered(m, p, y)
<1>1. PICK r \in Between(m, p, x) : Conflict(m, r, x)
  BY DEF Interfered
<1>2. Conflict(m, r, y)
  BY <1>1, SameCallsConflict
<1>3. /\ m.op[x].parent = b /\ m.op[y].parent = b
      /\ Position(m, x) \in Int /\ Position(m, y) \in Int
  BY ListedInPlace DEF Forest
<1>4. r \in ToSet(OpsIn(m, b)) /\ Position(m, p) < Position(m, r) /\ Position(m, r) < Position(m, x)
  BY <1>1, <1>3 DEF Between, OpsIn
<1>5. Position(m, r) \in Int
  BY <1>4, ListedInPlace DEF Forest
<1>6. Position(m, r) < Position(m, y)
  BY <1>3, <1>4, <1>5
<1>7. r \in Between(m, p, y)
  BY <1>3, <1>4, <1>6 DEF Between, OpsIn
<1> QED
  BY <1>2, <1>7 DEF Interfered

\* What deduplication has made of a block up to a position, as long as it has
\* replaced nothing: of the calls it has seen the repeated ones have no result to
\* give, and the first under each key is remembered, unless something has come
\* between it and a later one.
FirstKept(m, b, at, known, p) ==
  /\ CacheKey(m, p) \in DOMAIN known
  /\ \/ known[CacheKey(m, p)] = p
     \/ \E x \in ToSet(OpsIn(m, b)) :
          /\ Position(m, x) < at
          /\ Cacheable(m, x) /\ CacheKey(m, x) = CacheKey(m, p)
          /\ Interfered(m, p, x)
Visited(m, b, at) == {x \in ToSet(OpsIn(m, b)) : Position(m, x) < at}
Examined(m, b, at, known) ==
  /\ \A p \in ToSet(OpsIn(m, b)), o \in Visited(m, b, at) :
       Repeats(m, b, p, o) => Reusable(m, p, o) = {}
  /\ \A p \in Visited(m, b, at) : FirstAsked(m, b, p) => FirstKept(m, b, at, known, p)
  /\ \A k \in DOMAIN known : \E x \in Visited(m, b, at) : Cacheable(m, x) /\ CacheKey(m, x) = k

LEMMA ExaminedAtFirst ==
  ASSUME NEW m, Arena(m), NEW b \in DOMAIN m.block
  PROVE  Examined(m, b, 1, <<>>)
<1>1. Visited(m, b, 1) = {}
  <2> SUFFICES ASSUME NEW x \in ToSet(OpsIn(m, b)), Position(m, x) < 1 PROVE FALSE
    BY DEF Visited
  <2>1. Position(m, x) \in 1..Len(OpsIn(m, b))
    BY ListedInPlace
  <2> QED
    BY <2>1
<1>2. DOMAIN <<>> = {}
  OBVIOUS
<1> QED
  BY <1>1, <1>2 DEF Examined

LEMMA ExaminedAtLast ==
  ASSUME NEW m, Arena(m), NEW b \in DOMAIN m.block, NEW at \in Nat, at > Len(OpsIn(m, b)),
         NEW known, Examined(m, b, at, known)
  PROVE  Settled(m, b)
<1>1. ASSUME NEW o \in ToSet(OpsIn(m, b)) PROVE o \in Visited(m, b, at)
  <2>1. Position(m, o) \in 1..Len(OpsIn(m, b)) /\ Len(OpsIn(m, b)) \in Nat
    BY ListedInPlace
  <2>2. Position(m, o) < at
    BY <2>1
  <2> QED
    BY <2>2 DEF Visited
<1> QED
  BY <1>1 DEF Examined, Settled

LEMMA VisitedNext ==
  ASSUME NEW m, Arena(m), NEW b \in DOMAIN m.block, NEW at \in 1..Len(OpsIn(m, b))
  PROVE  /\ OpsIn(m, b)[at] \in ToSet(OpsIn(m, b)) /\ Position(m, OpsIn(m, b)[at]) = at
         /\ \A x : x \in Visited(m, b, at + 1) <=> x \in Visited(m, b, at) \/ x = OpsIn(m, b)[at]
         /\ \A x \in Visited(m, b, at) : /\ x \in ToSet(OpsIn(m, b))
                                      /\ Position(m, x) < Position(m, OpsIn(m, b)[at])
<1> DEFINE ops == OpsIn(m, b)
           o == ops[at]
<1>1. ops \in Seq(Nat)
  BY DEF Arena, IsModule, IsBlock, OpsIn
<1>2. at \in DOMAIN ops /\ o \in ToSet(ops)
  BY <1>1 DEF ToSet
<1>3. Position(m, o) = at
  BY <1>2, AtItsPosition DEF OpsIn
<1>4. ASSUME NEW x \in ToSet(ops)
      PROVE  Position(m, x) < at + 1 <=> Position(m, x) < at \/ x = o
  <2>1. Position(m, x) \in 1..Len(ops) /\ ops[Position(m, x)] = x
    BY ListedInPlace
  <2>2. Position(m, x) < at + 1 <=> Position(m, x) < at \/ Position(m, x) = at
    BY <2>1
  <2>3. x = o <=> Position(m, x) = at
    BY <1>3, <2>1
  <2> QED
    BY <2>2, <2>3
<1> HIDE DEF ops, o
<1>5. \A x : x \in Visited(m, b, at + 1) <=> x \in Visited(m, b, at) \/ x = o
  BY <1>2, <1>3, <1>4 DEF Visited, ops
<1> QED
  BY <1>2, <1>3, <1>5 DEF Visited, ops, o

\* Of the calls seen before, what is remembered stays so when the next one is.
LEMMA StillKeptFirst ==
  ASSUME NEW m, Arena(m), NEW b \in DOMAIN m.block, NEW at \in 1..Len(OpsIn(m, b)),
         NEW known, NEW p, FirstKept(m, b, at, known, p)
  PROVE  FirstKept(m, b, at + 1, known, p)
<1>1. \A x \in ToSet(OpsIn(m, b)) : Position(m, x) < at => Position(m, x) < at + 1
  BY ListedInPlace
<1> QED
  BY <1>1 DEF FirstKept

\* A call that is not compared with the first of its key has been interfered with.
LEMMA RepeatedIsCompared ==
  ASSUME NEW m, Forest(m), NEW b \in DOMAIN m.block, NEW at \in 1..Len(OpsIn(m, b)),
         NEW known, Examined(m, b, at, known),
         NEW p \in ToSet(OpsIn(m, b)), Repeats(m, b, p, OpsIn(m, b)[at])
  PROVE  /\ CacheKey(m, OpsIn(m, b)[at]) \in DOMAIN known
         /\ known[CacheKey(m, OpsIn(m, b)[at])] = p
<1> DEFINE o == OpsIn(m, b)[at]
<1>1. o \in ToSet(OpsIn(m, b)) /\ Position(m, o) = at
  BY VisitedNext DEF Forest
<1> HIDE DEF o
<1>2. /\ FirstAsked(m, b, p) /\ Cacheable(m, o) /\ CacheKey(m, o) = CacheKey(m, p)
      /\ Position(m, p) < Position(m, o) /\ ~Interfered(m, p, o)
  BY DEF Repeats, o
<1>3. FirstKept(m, b, at, known, p)
  BY <1>1, <1>2 DEF Examined, Visited
<1>4. CASE known[CacheKey(m, p)] = p
  BY <1>2, <1>3, <1>4 DEF FirstKept, o
<1>5. ASSUME NEW x \in ToSet(OpsIn(m, b)), Position(m, x) < at,
             Cacheable(m, x), CacheKey(m, x) = CacheKey(m, p), Interfered(m, p, x)
      PROVE  FALSE
  BY <1>1, <1>2, <1>5, InterferedSince
<1> QED
  BY <1>3, <1>4, <1>5 DEF FirstKept

\* Deduplication goes on: by an operation that is no call, by one it remembers,
\* or by one that it compares and finds to have no result to give.
LEMMA SkippingExamines ==
  ASSUME NEW m, Forest(m), NEW b \in DOMAIN m.block, NEW at \in 1..Len(OpsIn(m, b)),
         NEW known, Examined(m, b, at, known),
         \/ ~Cacheable(m, OpsIn(m, b)[at])
         \/ LET o == OpsIn(m, b)[at] IN
              /\ CacheKey(m, o) \in DOMAIN known
              /\ Reusable(m, known[CacheKey(m, o)], o) = {}
  PROVE  Examined(m, b, at + 1, known)
<1> DEFINE o == OpsIn(m, b)[at]
<1>1. /\ o \in ToSet(OpsIn(m, b)) /\ Position(m, o) = at
      /\ \A x : x \in Visited(m, b, at + 1) <=> x \in Visited(m, b, at) \/ x = o
      /\ \A x \in Visited(m, b, at) : x \in ToSet(OpsIn(m, b)) /\ Position(m, x) < Position(m, o)
  BY VisitedNext DEF Forest
<1>2. ASSUME NEW p \in ToSet(OpsIn(m, b)), NEW q \in Visited(m, b, at + 1), Repeats(m, b, p, q)
      PROVE  Reusable(m, p, q) = {}
  <2>1. CASE q \in Visited(m, b, at)
    BY <1>2, <2>1 DEF Examined
  <2>2. CASE q = o
    <3>1. Cacheable(m, o) /\ known[CacheKey(m, o)] = p
      BY <1>2, <2>2, RepeatedIsCompared DEF Repeats
    <3> QED
      BY <2>2, <3>1
  <2> QED
    BY <1>1, <2>1, <2>2
<1>3. ASSUME NEW p \in Visited(m, b, at + 1), FirstAsked(m, b, p)
      PROVE  FirstKept(m, b, at + 1, known, p)
  <2>1. CASE p \in Visited(m, b, at)
    BY <1>3, <2>1, StillKeptFirst DEF Examined, Forest
  <2>2. CASE p = o
    <3>1. CacheKey(m, o) \in DOMAIN known
      BY <1>3, <2>2 DEF FirstAsked
    <3>2. PICK x \in Visited(m, b, at) : Cacheable(m, x) /\ CacheKey(m, x) = CacheKey(m, o)
      BY <3>1 DEF Examined
    <3> QED
      BY <1>1, <1>3, <2>2, <3>2 DEF FirstAsked
  <2> QED
    BY <1>1, <2>1, <2>2
<1>4. \A k \in DOMAIN known : \E x \in Visited(m, b, at + 1) : Cacheable(m, x) /\ CacheKey(m, x) = k
  BY <1>1 DEF Examined
<1> QED
  BY <1>2, <1>3, <1>4 DEF Examined

LEMMA RememberingExamines ==
  ASSUME NEW m, Forest(m), NEW b \in DOMAIN m.block, NEW at \in 1..Len(OpsIn(m, b)),
         NEW known, Examined(m, b, at, known),
         NEW o, o = OpsIn(m, b)[at], Cacheable(m, o),
         CacheKey(m, o) \in DOMAIN known => Interfered(m, known[CacheKey(m, o)], o),
         NEW next, DOMAIN next = DOMAIN known \cup {CacheKey(m, o)}, next[CacheKey(m, o)] = o,
         \A k \in DOMAIN known : k # CacheKey(m, o) => next[k] = known[k]
  PROVE  Examined(m, b, at + 1, next)
<1> DEFINE key == CacheKey(m, o)
<1>a. /\ DOMAIN next = DOMAIN known \cup {key} /\ next[key] = o
      /\ \A k \in DOMAIN known : k # key => next[k] = known[k]
  OBVIOUS
<1>1. /\ o \in ToSet(OpsIn(m, b)) /\ Position(m, o) = at
      /\ \A x : x \in Visited(m, b, at + 1) <=> x \in Visited(m, b, at) \/ x = o
      /\ \A x \in Visited(m, b, at) : x \in ToSet(OpsIn(m, b)) /\ Position(m, x) < Position(m, o)
  BY VisitedNext DEF Forest
<1>2. ASSUME NEW p \in ToSet(OpsIn(m, b)), NEW q \in Visited(m, b, at + 1), Repeats(m, b, p, q)
      PROVE  Reusable(m, p, q) = {}
  <2>1. CASE q \in Visited(m, b, at)
    BY <1>2, <2>1 DEF Examined
  <2>2. CASE q = o
    <3>1. key \in DOMAIN known /\ known[key] = p
      BY <1>2, <2>2, RepeatedIsCompared
    <3>2. ~Interfered(m, p, o)
      BY <1>2, <2>2 DEF Repeats
    <3> QED
      BY <3>1, <3>2
  <2> QED
    BY <1>1, <2>1, <2>2
<1>3. ASSUME NEW p \in Visited(m, b, at + 1), FirstAsked(m, b, p)
      PROVE  FirstKept(m, b, at + 1, next, p)
  <2>1. CASE p = o
    BY <1>a, <2>1 DEF FirstKept
  <2>2. CASE p \in Visited(m, b, at) /\ CacheKey(m, p) # key
    <3>1. FirstKept(m, b, at + 1, known, p)
      BY <1>3, <2>2, StillKeptFirst DEF Examined, Forest
    <3> QED
      BY <1>a, <2>2, <3>1 DEF FirstKept
  <2>3. CASE p \in Visited(m, b, at) /\ CacheKey(m, p) = key
    <3>1. FirstKept(m, b, at, known, p)
      BY <1>3, <2>3 DEF Examined
    <3>2. FirstKept(m, b, at + 1, known, p)
      BY <3>1, StillKeptFirst DEF Forest
    <3>3. CASE known[key] = p
      <4>1. Interfered(m, p, o)
        BY <2>3, <3>1, <3>3 DEF FirstKept
      <4>2. Position(m, o) < at + 1
        BY <1>1
      <4> QED
        BY <1>a, <1>1, <2>3, <4>1, <4>2 DEF FirstKept
    <3>4. CASE known[key] # p
      BY <1>a, <2>3, <3>2, <3>4 DEF FirstKept
    <3> QED
      BY <3>3, <3>4
  <2> QED
    BY <1>1, <2>1, <2>2, <2>3
<1>4. \A k \in DOMAIN next : \E x \in Visited(m, b, at + 1) : Cacheable(m, x) /\ CacheKey(m, x) = k
  BY <1>a, <1>1 DEF Examined
<1> QED
  BY <1>2, <1>3, <1>4 DEF Examined

\* Replacing nothing changes nothing.
LEMMA ReplacingNothing ==
  ASSUME NEW m, Arena(m), NEW to, DOMAIN to = {}
  PROVE  UsesReplaced(m, to) = m
<1> DEFINE ops == [o \in DOMAIN m.op |->
                     IF m.op[o].erased THEN m.op[o]
                     ELSE [m.op[o] EXCEPT !.operands = Redirected(@, to)]]
<1>1. ASSUME NEW o \in DOMAIN m.op
      PROVE  [m.op[o] EXCEPT !.operands = Redirected(@, to)] = m.op[o]
  <2> DEFINE op == m.op[o]
  <2>1. IsFunction(op) /\ IsFunction(op.operands)
    BY DEF Arena, IsModule, IsOp
  <2>2. Redirected(op.operands, to) = op.operands
    BY <2>1 DEF Redirected, IsFunction
  <2> HIDE DEF op
  <2>3. [op EXCEPT !.operands = Redirected(@, to)] = [op EXCEPT !.operands = op.operands]
    BY <2>2
  <2>4. [op EXCEPT !.operands = op.operands] = op
    BY <2>1 DEF IsFunction
  <2> QED
    BY <2>3, <2>4 DEF op
<1>2. m.op = [o \in DOMAIN m.op |-> m.op[o]]
  BY DEF Arena, IsModule
<1>3. ops = m.op
  BY <1>1, <1>2
<1>4. UsesReplaced(m, to) = [m EXCEPT !.op = ops]
  BY DEF UsesReplaced
<1>5. IsFunction(m)
  BY DEF Arena, IsModule
<1> HIDE DEF ops
<1>6. [m EXCEPT !.op = ops] = [m EXCEPT !.op = m.op]
  BY <1>3
<1>7. [m EXCEPT !.op = m.op] = m
  BY <1>5 DEF IsFunction
<1> QED
  BY <1>4, <1>6, <1>7

\* While a round has changed nothing, what its passes have looked at is as they
\* would leave it; and a round that has changed something is the last only if the
\* pipeline is stopped there.
Quieted(m, p, blocks, at, known) ==
  /\ p = "deduplication" =>
       /\ \A b \in ToSet(AllBlocks(m)) : b \in ToSet(blocks) \/ Settled(m, b)
       /\ blocks # <<>> => Examined(m, Head(blocks), at, known)
  /\ p # "deduplication" => \A b \in ToSet(AllBlocks(m)) : Settled(m, b)
  /\ p \in {"parallelization", "done"} => Dead(m) = {}
  /\ p = "parallelization" =>
       \A b \in ToSet(Schedulable(m)) : b \in ToSet(blocks) \/ Runs(m, b) = {}
  /\ p = "done" => \A b \in ToSet(Schedulable(m)) : Runs(m, b) = {}

ConvergeInv ==
  /\ NestingInv
  /\ position # 0
  /\ pass = "done" /\ changed => capped
  /\ ~changed => wrapper = 0 /\ group = <<>> /\ Quieted(ir, pass, todo, position, cached)

LEMMA StartsQuiet ==
  ASSUME NEW m, Arena(m), NEW blocks \in Seq(DOMAIN m.block), blocks = AllBlocks(m)
  PROVE  Quieted(m, "deduplication", blocks, 1, <<>>)
<1>1. blocks # <<>> => Head(blocks) \in DOMAIN m.block
  OBVIOUS
<1>2. blocks # <<>> => Examined(m, Head(blocks), 1, <<>>)
  BY <1>1, ExaminedAtFirst
<1> QED
  BY <1>2 DEF Quieted

LEMMA ConvergeInvStart ==
  ASSUME NestingInv, pass = "deduplication", todo = AllBlocks(ir),
         position = 1, cached = <<>>, wrapper = 0, group = <<>>
  PROVE  ConvergeInv
<1>1. Arena(ir) /\ todo \in Seq(DOMAIN ir.block)
  BY DEF NestingInv, ProgressInv, ArenaInv
<1>2. Quieted(ir, pass, todo, position, cached)
  BY <1>1, StartsQuiet
<1> QED
  BY <1>2 DEF ConvergeInv

LEMMA ConvergeInvStartAfter ==
  (/\ NestingInv /\ pass = "deduplication" /\ todo = AllBlocks(ir)
   /\ position = 1 /\ cached = <<>> /\ wrapper = 0 /\ group = <<>>)' => ConvergeInv'
BY ConvergeInvStart, PTL

\* A block is left: nothing was found to do in it.
LEMMA LeavingQuietly ==
  ASSUME NEW m, Arena(m), NEW blocks \in Seq(DOMAIN m.block), blocks # <<>>,
         NEW p, NEW at \in Nat, NEW known, Quieted(m, p, blocks, at, known),
         \/ p = "deduplication" /\ at > Len(OpsIn(m, Head(blocks)))
         \/ p = "parallelization" /\ Runs(m, Head(blocks)) = {}
  PROVE  Quieted(m, p, Tail(blocks), 1, <<>>)
<1>1. /\ Head(blocks) \in DOMAIN m.block /\ Tail(blocks) \in Seq(DOMAIN m.block)
      /\ Tail(blocks) # <<>> => Head(Tail(blocks)) \in DOMAIN m.block
  OBVIOUS
<1>2. \A b : b \in ToSet(blocks) => b \in ToSet(Tail(blocks)) \/ b = Head(blocks)
  BY HeadAndTail
<1>3. p = "deduplication" => Settled(m, Head(blocks))
  BY <1>1, ExaminedAtLast DEF Quieted
<1>4. Tail(blocks) # <<>> => Examined(m, Head(Tail(blocks)), 1, <<>>)
  BY <1>1, ExaminedAtFirst
<1> DEFINE rest == Tail(blocks)
<1> HIDE DEF rest
<1>5. CASE p = "deduplication"
  <2>1. \A b \in ToSet(AllBlocks(m)) : b \in ToSet(rest) \/ Settled(m, b)
    BY <1>2, <1>3, <1>5 DEF Quieted, rest
  <2>2. rest # <<>> => Examined(m, Head(rest), 1, <<>>)
    BY <1>4 DEF rest
  <2>3. Quieted(m, p, rest, 1, <<>>)
    BY <1>5, <2>1, <2>2 DEF Quieted
  <2> QED
    BY <2>3 DEF rest
<1>6. CASE p = "parallelization" /\ Runs(m, Head(blocks)) = {}
  <2>1. \A b \in ToSet(Schedulable(m)) : b \in ToSet(rest) \/ Runs(m, b) = {}
    BY <1>2, <1>6 DEF Quieted, rest
  <2>2. Quieted(m, p, rest, 1, <<>>)
    BY <1>6, <2>1 DEF Quieted
  <2> QED
    BY <2>2 DEF rest
<1> QED
  BY <1>5, <1>6

\* A pass is over, or a round.
LEMMA EndingQuietly ==
  ASSUME NEW m, NEW at, NEW known
  PROVE  /\ Quieted(m, "deduplication", <<>>, at, known)
              => Quieted(m, "elimination", <<>>, 1, <<>>)
         /\ Quieted(m, "elimination", <<>>, at, known) /\ Dead(m) = {}
              => Quieted(m, "parallelization", Schedulable(m), 1, <<>>)
         /\ Quieted(m, "parallelization", <<>>, at, known)
              => Quieted(m, "done", <<>>, 1, <<>>)
<1>1. ToSet(<<>>) = {}
  BY DEF ToSet
<1> QED
  BY <1>1 DEF Quieted

LEMMA EliminatingQuietly ==
  ASSUME NEW m, NEW blocks, NEW at, NEW known, Quieted(m, "elimination", blocks, at, known),
         NEW others, NEW there, NEW calls
  PROVE  Quieted(m, "elimination", others, there, calls)
BY DEF Quieted

LEMMA ConvergeInvStep == ConvergeInv /\ [PassesNext]_passesVars => ConvergeInv'
<1> SUFFICES ASSUME ConvergeInv, [PassesNext]_passesVars PROVE ConvergeInv'
  OBVIOUS
<1>a. NestingInv /\ NestingInv'
  BY NestingInvStep DEF ConvergeInv
<1>b. /\ Forest(ir) /\ Arena(ir) /\ todo \in Seq(DOMAIN ir.block)
      /\ position \in Nat /\ position # 0
      /\ wrapper # 0 => pass = "parallelization"
      /\ group # <<>> => wrapper # 0
  BY <1>a, NestedForest DEF ConvergeInv, NestingInv, ProgressInv, ArenaInv
<1>c. ~changed => wrapper = 0 /\ group = <<>> /\ Quieted(ir, pass, todo, position, cached)
  BY DEF ConvergeInv
<1>d. ASSUME position' # 0, pass' = "done" /\ changed' => capped',
             ~changed' => /\ wrapper' = 0 /\ group' = <<>>
                          /\ Quieted(ir', pass', todo', position', cached')
      PROVE  ConvergeInv'
  BY <1>a, <1>d DEF ConvergeInv
<1>e. Deduplicating => todo # <<>> /\ Head(todo) \in DOMAIN ir.block /\ pass = "deduplication"
  BY <1>b DEF Deduplicating
<1>f. Examining => position \in 1..Len(Here)
  <2>1. Examining => Len(Here) \in Nat
    BY <1>b, <1>e DEF Examining, Here, OpsIn, Arena, IsModule, IsBlock
  <2> QED
    BY <1>b, <2>1 DEF Examining
<1>1. CASE UNCHANGED passesVars
  <2>1. /\ ir' = ir /\ pass' = pass /\ changed' = changed /\ capped' = capped /\ todo' = todo
        /\ position' = position /\ cached' = cached /\ wrapper' = wrapper /\ group' = group
    BY <1>1 DEF passesVars, local
  <2> QED
    BY <1>d, <2>1 DEF ConvergeInv
<1>2. CASE LeaveBlock
  <2>1. /\ ir' = ir /\ pass' = pass /\ changed' = changed /\ todo' = Tail(todo)
        /\ position' = 1 /\ cached' = <<>> /\ wrapper' = 0 /\ group' = <<>>
        /\ pass # "done" /\ todo # <<>>
        /\ \/ pass = "deduplication" /\ position > Len(OpsIn(ir, Head(todo)))
           \/ pass = "parallelization" /\ Runs(ir, Head(todo)) = {}
    BY <1>2 DEF LeaveBlock, Start, Deduplicating, Here
  <2>2. ~changed => Quieted(ir, pass, Tail(todo), 1, <<>>)
    BY <1>b, <1>c, <2>1, LeavingQuietly
  <2> QED
    BY <1>d, <2>1, <2>2
<1>3. ASSUME Examining, ir' = ir, ~changed,
             Examined(ir, Head(todo), position', cached'),
             UNCHANGED <<pass, todo, wrapper, group>>
      PROVE  Quieted(ir', pass', todo', position', cached')
  BY <1>c, <1>e, <1>3 DEF Quieted, Examining
<1>4. ASSUME Examining, ~changed PROVE Examined(ir, Head(todo), position, cached)
  BY <1>c, <1>e, <1>4 DEF Quieted, Examining
<1>5. CASE Skip
  <2>1. /\ Examining /\ ~Cacheable(ir, OpsIn(ir, Head(todo))[position])
        /\ position' = position + 1 /\ cached' = cached /\ ir' = ir
        /\ UNCHANGED <<pass, changed, todo, wrapper, group>>
    BY <1>5 DEF Skip, passVars, Current, Here
  <2>2. ~changed => Examined(ir, Head(todo), position + 1, cached)
    BY <1>4, <1>b, <1>e, <1>f, <2>1, SkippingExamines DEF Examining, Here
  <2>3. pass # "done"
    BY <1>e, <2>1 DEF Examining
  <2>4. position + 1 # 0
    BY <1>b
  <2> QED
    BY <1>3, <1>c, <1>d, <2>1, <2>2, <2>3, <2>4
<1>6. CASE Remember
  <2> DEFINE o == OpsIn(ir, Head(todo))[position]
  <2>1. /\ Examining /\ Cacheable(ir, o)
        /\ CacheKey(ir, o) \in DOMAIN cached => Interfered(ir, cached[CacheKey(ir, o)], o)
        /\ cached' = [k \in DOMAIN cached \cup {CacheKey(ir, o)} |->
                        IF k = CacheKey(ir, o) THEN o ELSE cached[k]]
        /\ position' = position + 1 /\ ir' = ir
        /\ UNCHANGED <<pass, changed, todo, wrapper, group>>
    BY <1>6 DEF Remember, passVars, Current, Here, Hit, Stale
  <2>2. ASSUME ~changed PROVE Examined(ir, Head(todo), position + 1, cached')
    <3> DEFINE b == Head(todo)
    <3>1. /\ b \in DOMAIN ir.block /\ o = OpsIn(ir, b)[position]
          /\ position \in 1..Len(OpsIn(ir, b)) /\ Examined(ir, b, position, cached)
      BY <1>4, <1>e, <1>f, <2>1, <2>2 DEF Examining, Here
    <3> HIDE DEF o, b
    <3>2. /\ Forest(ir) /\ Cacheable(ir, o)
          /\ CacheKey(ir, o) \in DOMAIN cached => Interfered(ir, cached[CacheKey(ir, o)], o)
      BY <1>b, <2>1
    <3>3. /\ DOMAIN cached' = DOMAIN cached \cup {CacheKey(ir, o)}
          /\ cached'[CacheKey(ir, o)] = o
          /\ \A k \in DOMAIN cached : k # CacheKey(ir, o) => cached'[k] = cached[k]
      BY <2>1
    <3> QED
      BY ONLY <3>1, <3>2, <3>3, RememberingExamines DEF b
  <2>3. pass # "done"
    BY <1>e, <2>1 DEF Examining
  <2>4. position + 1 # 0
    BY <1>b
  <2> HIDE DEF o
  <2> QED
    BY <1>3, <1>c, <1>d, <2>1, <2>2, <2>3, <2>4
<1>7. CASE ReuseEarlier
  <2> DEFINE o == OpsIn(ir, Head(todo))[position]
             earlier == cached[CacheKey(ir, o)]
  <2>1. /\ Examining /\ CacheKey(ir, o) \in DOMAIN cached
        /\ ir' = UsesReplaced(ir, Reuse(ir, earlier, o))
        /\ changed' = (changed \/ Reusable(ir, earlier, o) # {})
        /\ cached' = cached /\ position' = position + 1
        /\ UNCHANGED <<pass, todo, wrapper, group>>
    BY <1>7 DEF ReuseEarlier, Current, Here, Hit
  <2>2. ~changed' => ~changed /\ Reusable(ir, earlier, o) = {}
    BY <2>1
  <2>3. ~changed' => Examined(ir, Head(todo), position + 1, cached)
    BY <1>4, <1>b, <1>e, <1>f, <2>1, <2>2, SkippingExamines DEF Examining, Here
  <2>4. ~changed' => ir' = ir
    <3>1. Reusable(ir, earlier, o) = {} => DOMAIN Reuse(ir, earlier, o) = {}
      BY DEF Reuse
    <3> HIDE DEF o, earlier
    <3> QED
      BY <1>b, <2>1, <2>2, <3>1, ReplacingNothing
  <2>5. pass # "done"
    BY <1>e, <2>1 DEF Examining
  <2>6. position + 1 # 0
    BY <1>b
  <2> HIDE DEF o, earlier
  <2> QED
    BY <1>3, <1>c, <1>d, <2>1, <2>2, <2>3, <2>4, <2>5, <2>6
<1>8. CASE EndDeduplication
  <2>1. /\ pass = "deduplication" /\ todo = <<>> /\ ir' = ir /\ changed' = changed
        /\ pass' = "elimination" /\ todo' = <<>> /\ position' = 1 /\ cached' = <<>>
        /\ wrapper' = 0 /\ group' = <<>>
    BY <1>8 DEF EndDeduplication, Start
  <2>2. ~changed => Quieted(ir, "elimination", <<>>, 1, <<>>)
    BY <1>c, <2>1, EndingQuietly
  <2> QED
    BY <1>d, <2>1, <2>2
<1>9. CASE Scan
  <2>1. /\ pass = "elimination" /\ pass' = pass /\ ir' = ir /\ changed' = changed
        /\ UNCHANGED <<todo, position, cached, wrapper, group>>
    BY <1>9 DEF Scan, passVars
  <2> QED
    BY <1>b, <1>c, <1>d, <2>1
<1>10. CASE EraseOne \/ Wrap
  <2>1. changed' = TRUE /\ pass' = pass /\ pass # "done" /\ position' = position
    BY <1>10 DEF EraseOne, Wrap
  <2> QED
    BY <1>b, <1>d, <2>1
<1>11. CASE EndElimination
  <2>1. /\ pass = "elimination" /\ Dead(ir) = {} /\ ir' = ir /\ changed' = changed
        /\ pass' = "parallelization" /\ todo' = Schedulable(ir)
        /\ position' = 1 /\ cached' = <<>> /\ wrapper' = 0 /\ group' = <<>>
    BY <1>11 DEF EndElimination, Start
  <2>2. ~changed => Quieted(ir, "elimination", <<>>, 1, <<>>)
    BY <1>c, <2>1, EliminatingQuietly
  <2>3. ~changed => Quieted(ir, "parallelization", Schedulable(ir), 1, <<>>)
    BY <2>1, <2>2, EndingQuietly
  <2> QED
    BY <1>d, <2>1, <2>3
<1>12. CASE Move \/ Route
  <2>1. wrapper # 0 /\ changed' = changed /\ pass' = pass /\ position' = position
    BY <1>12, <1>b DEF Move, Route, passVars
  <2> QED
    BY <1>b, <1>c, <1>d, <2>1
<1>13. CASE Converge
  <2>1. /\ pass = "parallelization" /\ todo = <<>> /\ ~changed /\ ir' = ir /\ changed' = changed
        /\ pass' = "done" /\ todo' = <<>> /\ position' = 1 /\ cached' = <<>>
        /\ wrapper' = 0 /\ group' = <<>>
    BY <1>13 DEF Converge, RoundEnds, Start
  <2>2. Quieted(ir, "done", <<>>, 1, <<>>)
    BY <1>c, <2>1, EndingQuietly
  <2> QED
    BY <1>d, <2>1, <2>2
<1>14. CASE HitCap
  <2>1. changed /\ changed' = changed /\ capped' /\ position' = 1
    BY <1>14 DEF HitCap, RoundEnds, Start
  <2> QED
    BY <1>d, <2>1
<1>15. CASE AnotherRound
  <2>1. /\ ir' = ir /\ pass' = "deduplication" /\ todo' = AllBlocks(ir) /\ position' = 1
        /\ cached' = <<>> /\ wrapper' = 0 /\ group' = <<>>
    BY <1>15 DEF AnotherRound, Start
  <2>2. AllBlocks(ir)' = AllBlocks(ir)
    BY <2>1 DEF AllBlocks
  <2> QED
    BY <1>a, <2>1, <2>2, ConvergeInvStartAfter
<1> QED
  BY <1>1, <1>2, <1>5, <1>6, <1>7, <1>8, <1>9, <1>10, <1>11, <1>12, <1>13, <1>14, <1>15
     DEF PassesNext, Deduplicate, Eliminate, Parallelize

LEMMA ConvergeInvHolds == ConvergeInv => UncappedMeansConverged
<1> SUFFICES ASSUME ConvergeInv, pass = "done", ~capped PROVE Converged(ir)
  BY DEF UncappedMeansConverged
<1>1. Quieted(ir, "done", todo, position, cached)
  BY DEF ConvergeInv
<1> QED
  BY <1>1 DEF Quieted, Converged
=============================================================================
