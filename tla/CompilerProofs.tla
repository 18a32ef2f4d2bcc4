--------------------------- MODULE CompilerProofs ---------------------------
(***************************************************************************)
(* What holds of every compilation, whatever is compiled: the arenas agree *)
(* from the empty module to the plan, nothing is lost that does more than  *)
(* compute or read, every step is progress, what is scheduled can be and   *)
(* is all in the plan, and halving the bounds of the loops shortens the    *)
(* plan, whose estimate stays that of a program with its bounds.           *)
(***************************************************************************)
EXTENDS Compiler, SyntaxProofs

-----------------------------------------------------------------------------
(* The arenas.                                                             *)

CompilerInv == NestingInv /\ source \in Sources

LEMMA CompilerInvInit == Init => CompilerInv
<1> SUFFICES ASSUME Init PROVE NestingInv /\ source \in Sources
  BY DEF CompilerInv
<1>1. Loaded(NewModule(source.capabilities, source.approved)) /\ source \in Sources
  BY DEF Init
<1> QED
  BY <1>1, NewModuleArena, NestingInvInit

\* A step of the compiler is the parser's, one of the pipeline, or none that
\* touches the module.
LEMMA CompilerSteps == [Next]_vars => Parse \/ Optimize \/ UNCHANGED <<passesVars, source>>
<1>1. Next => Parse \/ Optimize \/ UNCHANGED <<passesVars, source>>
  BY DEF Next, Reject, Accept, Optimized, AcceptAgain, Lower, Degrade, GiveUp, Plan, Ended,
     vars
<1>2. UNCHANGED vars => UNCHANGED <<passesVars, source>>
  BY DEF vars
<1> QED
  BY <1>1, <1>2

\* What the parser has read is sound, whatever the text.
LEMMA ParsingIsSound ==
  ASSUME Parse, source \in Sources
  PROVE  Sound(ir')
<1>1. IsText(source.text) /\ ReadSource.ok /\ ir' = ReadSource.m
  BY SourcesAssumption DEF Parse
<1> QED
  BY <1>1, WhatIsReadIsSound DEF ReadSource

LEMMA CompilerInvStep == CompilerInv /\ [Next]_vars => CompilerInv'
<1> SUFFICES ASSUME NestingInv, source \in Sources, [Next]_vars
             PROVE  NestingInv' /\ source' \in Sources
  BY DEF CompilerInv
<1>1. CASE Parse
  <2>1. /\ Start("deduplication", AllBlocks(ReadSource.m)) /\ ir' = ReadSource.m
        /\ source' = source /\ round' = round
    BY <1>1 DEF Parse
  <2>2. Arena(ir') /\ OwnersAgree(ir') /\ RegionsFilled(ir') /\ OuterFirst(ir')
    BY <1>1, ParsingIsSound DEF Sound, Arena
  <2>3. /\ pass' = "deduplication" /\ dead' = {} /\ group' = <<>> /\ wrapper' = 0
        /\ todo' = AllBlocks(ir') /\ position' = 1 /\ escaping' = <<>>
    BY <2>1 DEF Start
  <2>4. ArenaInv'
    BY <2>2, <2>3, SequencesAreLists DEF ArenaInv
  <2>5. todo' \in Seq(DOMAIN ir'.block)
    BY <2>2, <2>3, BlocksOfRegions
  <2>6. ProgressInv'
    BY <2>1, <2>3, <2>4, <2>5 DEF NestingInv, ProgressInv
  <2>7. PICK N, rank : Ranked(ir', N, rank)
    BY <2>2, OuterFirstIsNested
  <2>8. NestingInv'
    <3>1. \A i \in DOMAIN group' : rank[wrapper'] < rank[group'[i]]
      BY <2>3
    <3> QED
      BY <2>6, <2>7, <3>1 DEF NestingInv, Ranked, Owner
  <2> QED
    BY <2>1, <2>8
<1>2. CASE Optimize
  <2>1. [PassesNext]_passesVars /\ source' = source
    BY <1>2 DEF Optimize
  <2> QED
    BY <2>1, NestingInvStep
<1>3. CASE UNCHANGED <<passesVars, source>>
  <2>1. NestingInv'
    BY <1>3, NestingInvStep
  <2> QED
    BY <1>3, <2>1
<1> QED
  BY <1>1, <1>2, <1>3, CompilerSteps

\* The arenas agree in every state of a compilation, the states within an edit
\* of a pass included.
THEOREM CompilerKeepsArenas == Spec => []ArenaHolds
<1>1. CompilerInv => ArenaHolds
  BY DEF CompilerInv, NestingInv, ProgressInv, ArenaInv, Arena, ArenaHolds
<1> QED
  BY <1>1, CompilerInvInit, CompilerInvStep, PTL DEF Spec

\* Between the parser and the verifier nothing touches the module.
JustRead == stage = "verifying" => ReadSource.ok /\ ir = ReadSource.m

\* The names the parser lets an operation use are those of values that dominate it,
\* in any text whose regions have one block each (parser.rs, use_value: "every value
\* must have a dominating producer (invariant I1)"); and what it makes of any text,
\* with more blocks or fewer, is a module whose arenas agree.
THEOREM LexicalScope == Spec => []LexicalScopeIsDominance
<1>1. Init => JustRead
  BY DEF Init, JustRead
<1>2. JustRead /\ [Next]_vars => JustRead'
  <2> SUFFICES ASSUME JustRead, [Next]_vars, stage' = "verifying" PROVE ReadSource'.ok /\ ir' = ReadSource'.m
    BY DEF JustRead
  <2>1. CASE Parse
    <3>1. source' = source /\ ReadSource.ok /\ ir' = ReadSource.m
      BY <2>1 DEF Parse
    <3> QED
      BY <3>1 DEF ReadSource
  <2>2. CASE UNCHANGED vars
    BY <2>2 DEF JustRead, ReadSource, vars, passesVars
  <2>3. CASE Next /\ ~Parse
    <3>1. UNCHANGED vars
      BY <2>3 DEF Next, Reject, Accept, Optimize, Optimized, AcceptAgain, Lower, Degrade,
         GiveUp, Plan, Ended
    <3> QED
      BY <2>2, <3>1
  <2> QED
    BY <2>1, <2>2, <2>3
<1>3. CompilerInv /\ JustRead => LexicalScopeIsDominance
  <2> SUFFICES ASSUME CompilerInv, JustRead, stage = "verifying", SingleBlocks(ir) PROVE Undominated(ir) = {}
    BY DEF LexicalScopeIsDominance
  <2>1. IsText(source.text) /\ ReadSource.ok /\ ir = ReadSource.m
    BY SourcesAssumption DEF CompilerInv, JustRead
  <2>2. Single(ir)
    <3>1. \A n : n = 1 => ~(n > 1)
      OBVIOUS
    <3> QED
      BY <3>1, Zenon DEF SingleBlocks, Single
  <2> QED
    BY <2>1, <2>2, WhatIsReadIsSound DEF ReadSource
<1> QED
  BY <1>1, <1>2, <1>3, CompilerInvInit, CompilerInvStep, PTL DEF Spec

\* Of every program, before and after every pass: what is missing has been erased
\* with something that had results, or is in a region of what has been, and did
\* nothing but compute or read.
THEOREM OnlyReplayableIsLost == Spec => []OnlyReplayableVanishes
<1>1. Init => VanishInv
  <2>1. Init => before = ir /\ dead = {} /\ group = <<>>
    BY DEF Init, Loaded
  <2> QED
    BY <2>1, CompilerInvInit, VanishInvStart DEF CompilerInv, Untouched
<1>2. CompilerInv /\ VanishInv /\ [Next]_vars => VanishInv'
  <2> SUFFICES ASSUME CompilerInv, VanishInv, [Next]_vars PROVE VanishInv'
    OBVIOUS
  <2>1. CASE Parse
    <3>1. before' = ir' /\ dead' = {} /\ group' = <<>>
      BY <2>1 DEF Parse, Start
    <3>2. NestingInv'
      BY CompilerInvStep DEF CompilerInv
    <3> QED
      BY <3>1, <3>2, VanishInvStartAfter DEF Untouched
  <2>2. CASE Optimize
    BY <2>2, VanishInvStep DEF Optimize
  <2>3. CASE UNCHANGED <<passesVars, source>>
    BY <2>3, VanishInvStep
  <2> QED
    BY <2>1, <2>2, <2>3, CompilerSteps
<1> QED
  BY <1>1, <1>2, CompilerInvInit, CompilerInvStep, VanishInvHolds, PTL DEF Spec

\* Of every program, what certainly ran before an operation whose effect it
\* conflicts with, or that it guards, still does when the passes are done, and
\* what found its operands still finds them (parallelize.rs, I1, I3 and I4).
THEOREM OrderIsKept == Spec => []OrderKept
<1>1. Init => OrderInv
  <2>1. Init => /\ before = ir /\ dead = {} /\ group = <<>>
                /\ wrapper = 0 /\ escaping = <<>> /\ cached = <<>> /\ position = 1
    BY DEF Init, Loaded
  <2> QED
    BY <2>1, CompilerInvInit, OrderInvStart DEF CompilerInv, Untouched
<1>2. CompilerInv /\ OrderInv /\ [Next]_vars => OrderInv'
  <2> SUFFICES ASSUME CompilerInv, OrderInv, [Next]_vars PROVE OrderInv'
    OBVIOUS
  <2>1. CASE Parse
    <3>1. /\ before' = ir' /\ dead' = {} /\ group' = <<>>
          /\ wrapper' = 0 /\ escaping' = <<>> /\ cached' = <<>> /\ position' = 1
      BY <2>1 DEF Parse, Start
    <3>2. NestingInv'
      BY CompilerInvStep DEF CompilerInv
    <3> QED
      BY <3>1, <3>2, OrderInvStartAfter DEF Untouched
  <2>2. CASE Optimize
    BY <2>2, OrderInvStep DEF Optimize
  <2>3. CASE UNCHANGED <<passesVars, source>>
    BY <2>3, OrderInvStep
  <2> QED
    BY <2>1, <2>2, <2>3, CompilerSteps
<1> QED
  BY <1>1, <1>2, CompilerInvInit, CompilerInvStep, OrderInvHolds, PTL DEF Spec

\* Of every program, however many rounds it takes: a pipeline that does not say
\* that it was stopped has left nothing that any of its passes would still do
\* (manager.rs, run and hit_iteration_cap).
THEOREM UncappedHasConverged == Spec => []UncappedMeansConverged
<1>1. Init => ConvergeInv
  <2> SUFFICES ASSUME Init PROVE ConvergeInv
    OBVIOUS
  <2>1. /\ pass = "deduplication" /\ todo = AllBlocks(ir)
        /\ position = 1 /\ cached = <<>> /\ wrapper = 0 /\ group = <<>>
    BY DEF Init, Loaded
  <2> QED
    BY <2>1, CompilerInvInit, ConvergeInvStart DEF CompilerInv
<1>2. CompilerInv /\ ConvergeInv /\ [Next]_vars => ConvergeInv'
  <2> SUFFICES ASSUME CompilerInv, ConvergeInv, [Next]_vars PROVE ConvergeInv'
    OBVIOUS
  <2>1. CASE Parse
    <3>1. /\ pass' = "deduplication" /\ todo' = AllBlocks(ReadSource.m) /\ ir' = ReadSource.m
          /\ position' = 1 /\ cached' = <<>> /\ wrapper' = 0 /\ group' = <<>>
      BY <2>1 DEF Parse, Start
    <3>2. NestingInv'
      BY CompilerInvStep DEF CompilerInv
    <3>3. todo' = AllBlocks(ir)'
      BY <3>1 DEF AllBlocks
    <3> QED
      BY <3>1, <3>2, <3>3, ConvergeInvStartAfter
  <2>2. CASE Optimize
    BY <2>2, ConvergeInvStep DEF Optimize
  <2>3. CASE UNCHANGED <<passesVars, source>>
    BY <2>3, ConvergeInvStep
  <2> QED
    BY <2>1, <2>2, <2>3, CompilerSteps
<1> QED
  BY <1>1, <1>2, CompilerInvInit, CompilerInvStep, ConvergeInvHolds, PTL DEF Spec

-----------------------------------------------------------------------------
(* Progress.                                                               *)

LEMMA PhaseOf ==
  /\ stage = "parsing" => PhasesLeft = {6}
  /\ stage = "verifying" => PhasesLeft = {5}
  /\ stage = "optimizing" => PhasesLeft = {4}
  /\ stage = "reverifying" => PhasesLeft = {3}
  /\ stage = "scheduling" => PhasesLeft = {2}
  /\ stage = "degrading" => PhasesLeft = {1}
  /\ stage \in Outcomes => PhasesLeft = {}
<1>1. PhasesLeft = {n \in 1..6 : Phases[n] = stage}
  BY DEF PhasesLeft, Phases
<1>2. /\ Phases[1] = "degrading" /\ Phases[2] = "scheduling" /\ Phases[3] = "reverifying"
      /\ Phases[4] = "optimizing" /\ Phases[5] = "verifying" /\ Phases[6] = "parsing"
  BY DEF Phases
<1>3. 1..6 = {1, 2, 3, 4, 5, 6}
  OBVIOUS
<1> HIDE DEF Phases
<1> QED
  BY <1>1, <1>2, <1>3 DEF Outcomes

LEMMA MaxOfOne == ASSUME NEW n \in Nat PROVE Max({n}) = n
BY DEF Max

LEMMA CompilerMeasures ==
  /\ stage = "optimizing" =>
       CompilerVariant = <<4, Variant[1], Variant[2], Variant[3], Variant[4], Variant[5],
                           MaxDegradations - halvings>>
  /\ \A n \in {6, 5, 3, 2, 1} : PhasesLeft = {n} /\ stage # "optimizing" =>
       CompilerVariant = <<n, 0, 0, 0, 0, 0, MaxDegradations - halvings>>
  /\ PhasesLeft = {} /\ stage # "optimizing" =>
       CompilerVariant = <<0, 0, 0, 0, 0, 0, MaxDegradations - halvings>>
<1>1. ASSUME stage = "optimizing"
      PROVE  CompilerVariant = <<4, Variant[1], Variant[2], Variant[3], Variant[4], Variant[5],
                                 MaxDegradations - halvings>>
  <2>1. PhasesLeft = {4} /\ Max({4}) = 4
    BY <1>1, PhaseOf, MaxOfOne
  <2> QED
    BY <1>1, <2>1 DEF CompilerVariant
<1>2. ASSUME NEW n \in {6, 5, 3, 2, 1}, PhasesLeft = {n}, stage # "optimizing"
      PROVE  CompilerVariant = <<n, 0, 0, 0, 0, 0, MaxDegradations - halvings>>
  <2>1. Max({n}) = n /\ {n} # {}
    BY MaxOfOne
  <2> QED
    BY <1>2, <2>1 DEF CompilerVariant
<1>3. ASSUME PhasesLeft = {}, stage # "optimizing"
      PROVE  CompilerVariant = <<0, 0, 0, 0, 0, 0, MaxDegradations - halvings>>
  BY <1>3 DEF CompilerVariant
<1> QED
  BY <1>1, <1>2, <1>3

MeasuredByPhase ==
  /\ stage = "optimizing" =>
       CompilerVariant = <<4, Variant[1], Variant[2], Variant[3], Variant[4], Variant[5],
                           MaxDegradations - halvings>>
  /\ stage = "parsing" => CompilerVariant = <<6, 0, 0, 0, 0, 0, MaxDegradations - halvings>>
  /\ stage = "verifying" => CompilerVariant = <<5, 0, 0, 0, 0, 0, MaxDegradations - halvings>>
  /\ stage = "reverifying" => CompilerVariant = <<3, 0, 0, 0, 0, 0, MaxDegradations - halvings>>
  /\ stage = "scheduling" => CompilerVariant = <<2, 0, 0, 0, 0, 0, MaxDegradations - halvings>>
  /\ stage = "degrading" => CompilerVariant = <<1, 0, 0, 0, 0, 0, MaxDegradations - halvings>>
  /\ stage \in Outcomes => CompilerVariant = <<0, 0, 0, 0, 0, 0, MaxDegradations - halvings>>

LEMMA PhaseMeasures == MeasuredByPhase
BY PhaseOf, CompilerMeasures DEF MeasuredByPhase, Outcomes

LEMMA PhaseMeasuresAfter == MeasuredByPhase'
BY PhaseMeasures, PTL

\* One phase less.
LEMMA FewerPhases ==
  ASSUME NEW n \in Nat, NEW k \in 0..n - 1, NEW a, NEW b, NEW c, NEW d, NEW e, NEW f,
         NEW a1, NEW b1, NEW c1, NEW d1, NEW e1, NEW f1
  PROVE  Smaller(<<k, a1, b1, c1, d1, e1, f1>>, <<n, a, b, c, d, e, f>>)
<1> DEFINE s == <<k, a1, b1, c1, d1, e1, f1>>
           t == <<n, a, b, c, d, e, f>>
<1>1. 1 \in DOMAIN t /\ s[1] \in 0..t[1] - 1 /\ \A j \in 1..1 - 1 : s[j] = t[j]
  OBVIOUS
<1> QED
  BY <1>1 DEF Smaller

LEMMA CompilationAdvances ==
  CompilerInv /\ halvings \in Nat /\ Next => Smaller(CompilerVariant', CompilerVariant) \/ UNCHANGED vars
<1> SUFFICES ASSUME ProgressInv, halvings \in Nat, Next
             PROVE  Smaller(CompilerVariant', CompilerVariant) \/ UNCHANGED vars
  BY DEF CompilerInv, NestingInv
<1>a. /\ stage = "optimizing" =>
           CompilerVariant = <<4, Variant[1], Variant[2], Variant[3], Variant[4], Variant[5],
                               MaxDegradations - halvings>>
      /\ MeasuredByPhase
  BY PhaseMeasures DEF MeasuredByPhase
<1>b. /\ stage' = "optimizing" =>
           CompilerVariant' = <<4, Variant'[1], Variant'[2], Variant'[3], Variant'[4], Variant'[5],
                                MaxDegradations - halvings'>>
      /\ stage' = "verifying" => CompilerVariant' = <<5, 0, 0, 0, 0, 0, MaxDegradations - halvings'>>
      /\ stage' = "reverifying" => CompilerVariant' = <<3, 0, 0, 0, 0, 0, MaxDegradations - halvings'>>
      /\ stage' = "scheduling" => CompilerVariant' = <<2, 0, 0, 0, 0, 0, MaxDegradations - halvings'>>
      /\ stage' = "degrading" => CompilerVariant' = <<1, 0, 0, 0, 0, 0, MaxDegradations - halvings'>>
      /\ stage' \in Outcomes => CompilerVariant' = <<0, 0, 0, 0, 0, 0, MaxDegradations - halvings'>>
  BY PhaseMeasuresAfter DEF MeasuredByPhase, Outcomes
<1>1. CASE Parse
  <2>1. stage = "parsing" /\ stage' = "verifying"
    BY <1>1 DEF Parse
  <2> QED
    BY <1>a, <1>b, <2>1, FewerPhases DEF MeasuredByPhase
<1>2. CASE Reject
  <2>1. stage \in {"parsing", "verifying", "reverifying"} /\ stage' \in Outcomes
    BY <1>2 DEF Reject, Outcomes
  <2> QED
    BY <1>a, <1>b, <2>1, FewerPhases DEF MeasuredByPhase
<1>3. CASE Accept
  <2>1. stage = "verifying" /\ stage' = "optimizing"
    BY <1>3 DEF Accept
  <2> QED
    BY <1>a, <1>b, <2>1, FewerPhases DEF MeasuredByPhase
<1>4. CASE Optimize
  <2>1. stage = "optimizing" /\ stage' = "optimizing" /\ halvings' = halvings /\ PassesNext
    BY <1>4 DEF Optimize, planVars
  <2>2. Smaller(Variant', Variant)
    BY <2>1, StepAdvances
  <2>3. DOMAIN Variant = 1..5
    BY DEF Variant
  <2>4. PICK k \in 1..5 : Variant'[k] \in 0..Variant[k] - 1
                          /\ \A j \in 1..k - 1 : Variant'[j] = Variant[j]
    BY <2>2, <2>3 DEF Smaller
  <2> DEFINE s == CompilerVariant'
             t == CompilerVariant
  <2>5. DOMAIN t = 1..7 /\ s[1] = t[1] /\ \A i \in 1..5 : s[i + 1] = Variant'[i] /\ t[i + 1] = Variant[i]
    BY <1>a, <1>b, <2>1
  <2> HIDE DEF s, t
  <2>6. k + 1 \in DOMAIN t /\ s[k + 1] \in 0..t[k + 1] - 1
    BY <2>4, <2>5
  <2>7. ASSUME NEW j \in 1..(k + 1) - 1 PROVE s[j] = t[j]
    <3>1. CASE j = 1
      BY <2>5, <3>1
    <3>2. CASE j # 1
      <4>1. j - 1 \in 1..k - 1 /\ j - 1 \in 1..5 /\ (j - 1) + 1 = j
        BY <3>2
      <4> QED
        BY <2>4, <2>5, <4>1
    <3> QED
      BY <3>1, <3>2
  <2>8. Smaller(s, t)
    BY <2>6, <2>7 DEF Smaller
  <2> QED
    BY <2>8 DEF s, t
<1>5. CASE Optimized
  <2>1. stage = "optimizing" /\ stage' = "reverifying"
    BY <1>5 DEF Optimized
  <2> QED
    BY <1>a, <1>b, <2>1, FewerPhases
<1>6. CASE AcceptAgain
  <2>1. stage = "reverifying" /\ stage' = "scheduling"
    BY <1>6 DEF AcceptAgain
  <2> QED
    BY <1>a, <1>b, <2>1, FewerPhases DEF MeasuredByPhase
<1>7. CASE Lower
  <2>1. stage = "scheduling" /\ stage' \in {"unscheduled", "degrading"}
    BY <1>7 DEF Lower
  <2> QED
    BY <1>a, <1>b, <2>1, FewerPhases DEF MeasuredByPhase, Outcomes
<1>8. CASE Degrade
  <2>1. stage = "degrading" /\ stage' = stage /\ halvings' = halvings + 1 /\ halvings < MaxDegradations
    BY <1>8 DEF Degrade
  <2> DEFINE s == <<1, 0, 0, 0, 0, 0, MaxDegradations - halvings'>>
             t == <<1, 0, 0, 0, 0, 0, MaxDegradations - halvings>>
  <2>2. CompilerVariant' = s /\ CompilerVariant = t
    BY <1>a, <1>b, <2>1 DEF MeasuredByPhase
  <2>3. /\ 7 \in DOMAIN t /\ s[7] \in 0..t[7] - 1
        /\ \A j \in 1..7 - 1 : s[j] = t[j]
    BY <2>1, DegradationsAssumption
  <2> HIDE DEF s, t
  <2> QED
    BY <2>2, <2>3 DEF Smaller
<1>9. CASE GiveUp \/ Plan
  <2>1. stage = "degrading" /\ stage' \in Outcomes
    BY <1>9 DEF GiveUp, Plan, Outcomes
  <2> QED
    BY <1>a, <1>b, <2>1, FewerPhases DEF MeasuredByPhase
<1>10. CASE Ended
  BY <1>10 DEF Ended
<1> QED
  BY <1>1, <1>2, <1>3, <1>4, <1>5, <1>6, <1>7, <1>8, <1>9, <1>10 DEF Next

\* Halvings are counted from none.
LEMMA HalvingsCounted == halvings \in Nat /\ [Next]_vars => halvings' \in Nat
BY DEF Next, Parse, Reject, Accept, Optimize, Optimized, AcceptAgain, Lower, Degrade, GiveUp,
   Plan, Ended, vars, planVars

\* Whatever is compiled, with however many rounds and halvings, every step brings
\* the compilation closer to an outcome in an order without infinite descents.
THEOREM CompilationProgresses == Spec => EveryStepIsProgress
<1>1. Init => CompilerInv /\ halvings \in Nat
  BY CompilerInvInit DEF Init
<1>2. CompilerInv /\ halvings \in Nat /\ [Next]_vars => (CompilerInv /\ halvings \in Nat)'
  BY CompilerInvStep, HalvingsCounted
<1>3. CompilerInv /\ halvings \in Nat /\ [Next]_vars => [Smaller(CompilerVariant', CompilerVariant)]_vars
  BY CompilationAdvances
<1> QED
  BY <1>1, <1>2, <1>3, PTL DEF Spec, EveryStepIsProgress

-----------------------------------------------------------------------------
(* Giving up.                                                              *)

\* While a plan is degraded it has a bound for every loop, and an over budget
\* plan has nothing left to halve.
DegradeInv ==
  /\ stage = "degrading" => DOMAIN plan.bound = LoopsIn(ir)
  /\ GivesUpAtTheEnd

\* A plan of which nothing can be halved stays so when it is halved.
LEMMA HalvingIrreducible ==
  ASSUME NEW m, NEW p, NEW b, DOMAIN p.bound = LoopsIn(m), Reducible(m, p, b) = {}
  PROVE  Reducible(m, Halved(m, p, b), b) = {}
<1>1. Halved(m, p, b).bound
        = [o \in DOMAIN p.bound |-> IF o \in Reducible(m, p, b) THEN p.bound[o] \div 2 ELSE p.bound[o]]
  BY DEF Halved
<1>2. \A o \in LoopsIn(m) : Halved(m, p, b).bound[o] = p.bound[o]
  BY <1>1
<1> QED
  BY <1>2 DEF Reducible

LEMMA DegradeInvStep == DegradeInv /\ [Next]_vars => DegradeInv'
<1> SUFFICES ASSUME DegradeInv, [Next]_vars PROVE DegradeInv'
  OBVIOUS
<1> USE DEF DegradeInv, GivesUpAtTheEnd
<1>1. CASE Lower
  <2>1. stage' \in {"unscheduled", "degrading"} /\ ir' = ir
    BY <1>1 DEF Lower, passesVars
  <2>2. stage' = "degrading" => plan' = Lowered(ir)
    BY <1>1 DEF Lower
  <2>3. DOMAIN Lowered(ir).bound = LoopsIn(ir)
    BY DEF Lowered
  <2> QED
    BY <2>1, <2>2, <2>3
<1>2. CASE Degrade
  <2>1. /\ stage = "degrading" /\ stage' = "degrading" /\ ir' = ir
        /\ plan' = Halved(ir, plan, entry)
    BY <1>2 DEF Degrade, passesVars
  <2>2. DOMAIN Halved(ir, plan, entry).bound = DOMAIN plan.bound
    BY DEF Halved
  <2> QED
    BY <2>1, <2>2
<1>3. CASE GiveUp
  <2>1. /\ stage = "degrading" /\ stage' = "planned" /\ ir' = ir /\ entry' = entry
        /\ plan' = Halved(ir, plan, entry)
        /\ Reducible(ir, plan, entry) = {}
    BY <1>3 DEF GiveUp, passesVars
  <2>2. Reducible(ir', plan', entry') = {}
    BY <2>1, HalvingIrreducible
  <2> QED
    BY <2>1, <2>2
<1>4. CASE Plan
  BY <1>4 DEF Plan, passesVars
<1>5. CASE /\ stage' \notin {"degrading", "planned"}
           /\ stage \notin {"degrading", "planned"}
  BY <1>5
<1>6. CASE UNCHANGED vars
  BY <1>6 DEF vars, passesVars, planVars
<1>7. Parse \/ Reject \/ Accept \/ Optimize \/ Optimized \/ AcceptAgain
      => /\ stage' \notin {"degrading", "planned"}
         /\ stage \notin {"degrading", "planned"}
  BY DEF Parse, Reject, Accept, Optimize, Optimized, AcceptAgain
<1> QED
  BY <1>1, <1>2, <1>3, <1>4, <1>5, <1>6, <1>7 DEF Next, Ended

\* For every program, budget and number of halvings: a plan is reported over its
\* budget only when no bound that halving reaches is above one, or when the
\* halvings are used up.
THEOREM CompilerGivesUpAtTheEnd == Spec => []GivesUpAtTheEnd
<1>1. Init => DegradeInv
  BY DEF Init, DegradeInv, GivesUpAtTheEnd
<1>2. DegradeInv => GivesUpAtTheEnd
  BY DEF DegradeInv
<1> QED
  BY <1>1, <1>2, DegradeInvStep, PTL DEF Spec

-----------------------------------------------------------------------------
(* What the scheduler is given.                                            *)

\* The signatures of what has regions.
LEMMA FuncSignature ==
  SignatureOf(Func).regions = {1} /\ SignatureOf(Func).terminator = FALSE
BY DEF Func, SignatureOf, Registry, Agent, Named, Signature

LEMMA ControlSignatures ==
  /\ SignatureOf(If).regions = 1..2
  /\ SignatureOf(While).regions = {2}
  /\ SignatureOf(<<"control", "loop">>).regions = {1}
  /\ SignatureOf(Parallel).regions = {1}
BY DEF If, While, Parallel, SignatureOf, Registry, Control, Bounded, With, Signature

\* An accepted block has no terminator but at its end.
LEMMA TerminatorsAreLast ==
  ASSUME NEW m, Forest(m), Accepts(m), NEW b \in DOMAIN m.block,
         ToSet(m.block[b].ops) \subseteq Live(m), NEW i \in 1..Len(m.block[b].ops) - 1
  PROVE  ~IsTerminator(NameOf(m, m.block[b].ops[i]))
<1> DEFINE o == m.block[b].ops[i]
<1>1. o \in ToSet(m.block[b].ops)
  BY ListedOperations DEF Forest, ToSet
<1>2. o \in Live(m) /\ o \in DOMAIN m.op /\ m.op[o].parent = b /\ b # 0
  BY <1>1, ListedOperations DEF Forest
<1>3. CASE b = BodyBlock
  <2>1. NameOf(m, o) = Func
    BY <1>1, <1>3 DEF Accepts, WellFormed, NotAFunction, OpsIn
  <2>2. ~IsTerminator(Func)
    BY FuncSignature DEF IsTerminator
  <2> QED
    BY <2>1, <2>2
<1>4. CASE b # BodyBlock
  <2>1. Owner(m, o) # 0 /\ Owner(m, o) \in Live(m)
    BY <1>2, <1>4, LiveOwner
  <2>2. b \in BlocksOf(m, Owner(m, o))
    BY <1>2, <2>1, BlockOfOwner
  <2> QED
    BY <2>1, <2>2 DEF Accepts, WellFormed, BadlyTerminated, OpsIn
<1> QED
  BY <1>3, <1>4

\* An accepted operation does not read what comes later in a block around it.
LEMMA NothingReadBefore ==
  ASSUME NEW m, Forest(m), Accepts(m), NEW b \in DOMAIN m.block,
         ToSet(m.block[b].ops) \subseteq Live(m),
         NEW i \in DOMAIN m.block[b].ops, NEW j \in DOMAIN m.block[b].ops, i < j
  PROVE  Reads(m, m.block[b].ops[i]) \cap Produced(m, m.block[b].ops[j]) = {}
<1> DEFINE a == m.block[b].ops[i]
           c == m.block[b].ops[j]
<1> SUFFICES ASSUME NEW v \in Reads(m, a), v \in Produced(m, c) PROVE FALSE
  OBVIOUS
<1>1. a \in Live(m) /\ c \in Live(m) /\ m.op[a].parent = b /\ m.op[c].parent = b /\ b # 0
  BY ListedOperations DEF Forest, ToSet
<1>2. Position(m, a) = i /\ Position(m, c) = j /\ i \in Nat /\ j \in Nat
  BY AtItsPosition, ListedOperations DEF Forest
<1> HIDE DEF a, c
<1>3. PICK n \in Inside(m, a) : v \in Operands(m, n)
  BY DEF Reads
<1>4. n \in Live(m) /\ n \in DOMAIN m.op /\ a \in {n} \cup Above(m)[n]
  BY <1>1, LiveInside DEF Inside
<1>5. Dominates(m, v, n)
  BY <1>3, <1>4 DEF Accepts, WellFormed, Undominated
<1>6. c \notin Above(m)[n]
  <2>1. a # c
    BY <1>2
  <2> QED
    BY <1>1, <1>4, <2>1, OnePerBlock
<1>7. ASSUME NEW x \in {n} \cup Above(m)[n], c \in Above(m)[x] PROVE FALSE
  BY <1>4, <1>6, <1>7, AboveIsAnOrder
<1> DEFINE p == m.value[v].producer
<1>8. CASE \E q \in Inside(m, c) : v \in Results(m, q)
  <2>1. PICK q \in Inside(m, c) : v \in Results(m, q)
    BY <1>8
  <2>2. q \in DOMAIN m.op /\ q # 0 /\ (q = c \/ c \in Above(m)[q])
    BY <2>1, ArenaShape DEF Inside, Forest, Arena
  <2>3. p = q
    BY <2>1, <2>2 DEF Forest, OwnersAgree, ResultsProduced
  <2>4. PICK x \in {n} \cup Above(m)[n] :
          m.op[x].parent = m.op[q].parent /\ Position(m, q) < Position(m, x)
    BY <1>4, <1>5, <2>2, <2>3, DominatedReads
  <2>5. x \in DOMAIN m.op
    BY <1>4, AboveIs
  <2>6. CASE q = c
    <3>1. x = a
      BY <1>1, <1>4, <2>4, <2>6, OnePerBlock
    <3> QED
      BY <1>2, <2>4, <2>6, <3>1, ListedOperations DEF Forest
  <2>7. CASE c \in Above(m)[q]
    <3>1. Above(m)[x] = Above(m)[q]
      <4>1. Owner(m, x) = Owner(m, q)
        BY <2>4 DEF Owner
      <4>2. CASE Owner(m, q) = 0
        <5>1. Above(m)[x] = {}
          BY <2>5, <4>1, <4>2, AboveOwner
        <5>2. Above(m)[q] = {}
          BY <2>2, <4>2, AboveOwner
        <5> QED
          BY <5>1, <5>2
      <4>3. CASE Owner(m, q) # 0
        <5>1. Above(m)[x] = {Owner(m, x)} \cup Above(m)[Owner(m, x)]
          BY <2>5, <4>1, <4>3, AboveOwner
        <5>2. Above(m)[q] = {Owner(m, q)} \cup Above(m)[Owner(m, q)]
          BY <2>2, <4>3, AboveOwner
        <5> QED
          BY <4>1, <5>1, <5>2, Zenon
      <4> QED
        BY <4>2, <4>3
    <3> QED
      BY <1>7, <2>7, <3>1
  <2> QED
    BY <2>2, <2>6, <2>7
<1>9. CASE /\ v \in DOMAIN m.value /\ m.value[v].home # 0
           /\ BlockOwner(m, m.value[v].home) \in Inside(m, c)
  <2> DEFINE w == BlockOwner(m, m.value[v].home)
  <2>1. p = 0
    BY <1>9 DEF Forest, OwnersAgree, ResultsProduced, HasProducer
  <2>2. PICK x \in {n} \cup Above(m)[n] : m.op[x].parent # 0 /\ m.op[x].parent = m.value[v].home
    BY <1>4, <1>5, <2>1, DominatedReads
  <2>3. x \in DOMAIN m.op
    BY <1>4, AboveIs
  <2>4. w \in DOMAIN m.op /\ w # 0 /\ c \in {w} \cup Above(m)[w]
    BY <1>9, ArenaShape DEF Inside, Forest, Arena
  <2>5. Owner(m, x) = w
    BY <2>2, <2>3, BlockOfOwner
  <2>6. c \in Above(m)[x]
    BY <2>3, <2>4, <2>5, AboveOwner
  <2> QED
    BY <1>7, <2>6
<1> QED
  BY <1>8, <1>9 DEF Produced, BlockOwner

\* Once the second verification has passed, the module stays as it was accepted.
Verified == {"scheduling", "unscheduled", "degrading", "planned"}
VerifiedInv == CompilerInv /\ (stage \in Verified => Accepts(ir))

LEMMA VerifiedInvInit == Init => VerifiedInv
<1>1. Init => stage \notin Verified
  BY DEF Init, Verified
<1> QED
  BY <1>1, CompilerInvInit DEF VerifiedInv

LEMMA VerifiedInvStep == VerifiedInv /\ [Next]_vars => VerifiedInv'
<1> SUFFICES ASSUME VerifiedInv, [Next]_vars, stage' \in Verified PROVE Accepts(ir)'
  BY CompilerInvStep DEF VerifiedInv
<1>1. ir' = ir /\ (stage \in Verified \/ Accepts(ir))
  <2>1. CASE AcceptAgain
    BY <2>1 DEF AcceptAgain, passesVars
  <2>2. CASE Lower \/ Degrade \/ GiveUp \/ Plan
    BY <2>2 DEF Lower, Degrade, GiveUp, Plan, passesVars, Verified
  <2>3. CASE UNCHANGED vars
    BY <2>3 DEF vars, passesVars
  <2>4. CASE Ended
    BY <2>4 DEF Ended, vars, passesVars
  <2>5. Parse \/ Reject \/ Accept \/ Optimize \/ Optimized => FALSE
    BY DEF Parse, Reject, Accept, Optimize, Optimized, Verified
  <2> QED
    BY <2>1, <2>2, <2>3, <2>4, <2>5 DEF Next
<1>2. Accepts(ir)
  BY <1>1 DEF VerifiedInv
<1> QED
  BY <1>1, <1>2

\* What is scheduled is a forest that is accepted.
LEMMA ScheduledForest ==
  ASSUME VerifiedInv, stage \in Verified
  PROVE  Forest(ir) /\ RegionsFilled(ir) /\ Accepts(ir)
<1>1. Nested(ir)
  BY DEF VerifiedInv, CompilerInv, NestingInv, Nested
<1> QED
  BY <1>1 DEF VerifiedInv, CompilerInv, NestingInv, ProgressInv, ArenaInv, Forest

\* Of every program: a block that is scheduled ends with its terminator, and no
\* operation in it reads what a later one produces.
THEOREM AcceptedBlocksSchedulable == Spec => []AcceptedBlocksAreSchedulable
<1>1. VerifiedInv => AcceptedBlocksAreSchedulable
  <2> SUFFICES ASSUME VerifiedInv, stage = "scheduling", NEW b \in DOMAIN ir.block,
                      ToSet(OpsIn(ir, b)) \subseteq Live(ir)
               PROVE  /\ \A i \in 1..Len(OpsIn(ir, b)) - 1 : ~IsTerminator(NameOf(ir, OpsIn(ir, b)[i]))
                      /\ \A i, j \in DOMAIN OpsIn(ir, b) :
                           i < j => Reads(ir, OpsIn(ir, b)[i]) \cap Produced(ir, OpsIn(ir, b)[j]) = {}
    BY DEF AcceptedBlocksAreSchedulable
  <2>1. Forest(ir) /\ Accepts(ir)
    BY ScheduledForest DEF Verified
  <2>2. ToSet(ir.block[b].ops) \subseteq Live(ir)
    BY DEF OpsIn
  <2>3. \A i \in 1..Len(ir.block[b].ops) - 1 : ~IsTerminator(NameOf(ir, ir.block[b].ops[i]))
    BY <2>1, <2>2, TerminatorsAreLast
  <2>4. \A i, j \in DOMAIN ir.block[b].ops :
          i < j => Reads(ir, ir.block[b].ops[i]) \cap Produced(ir, ir.block[b].ops[j]) = {}
    BY <2>1, <2>2, NothingReadBefore
  <2> QED
    BY <2>3, <2>4 DEF OpsIn
<1> QED
  BY <1>1, VerifiedInvInit, VerifiedInvStep, PTL DEF Spec

\* An accepted control operation has the regions the executor will ask for.
LEMMA RegionsAreThere ==
  ASSUME NEW m, Accepts(m), NEW o \in Live(m), IsControl(m, o)
  PROVE  Len(m.op[o].regions) \in RegionsNeeded(NameOf(m, o))
<1>1. Len(m.op[o].regions) \in SignatureOf(m.op[o].name).regions
  BY DEF Accepts, WellFormed, Misdeclared
<1>2. NameOf(m, o) \in {If, While, <<"control", "loop">>, Parallel}
  BY DEF IsControl, Controls, Loops, While
<1>3. /\ If # While /\ While # <<"control", "loop">> /\ If # <<"control", "loop">>
      /\ If # Parallel /\ While # Parallel
  BY DEF If, While, Parallel
<1> QED
  BY <1>1, <1>2, <1>3, ControlSignatures DEF RegionsNeeded, NameOf

\* An accepted loop may run at least once.
LEMMA BoundsArePositive ==
  ASSUME NEW m, Arena(m), Accepts(m), NEW o \in Live(m) \cap LoopsIn(m)
  PROVE  Lowered(m).bound[o] \in Nat \ {0}
<1>1. o \in DOMAIN m.op /\ NameOf(m, o) \in Loops
  BY DEF LoopsIn
<1>2. HasBound(m, o)
  BY <1>1 DEF Accepts, WellFormed, Unbounded
<1>3. m.op[o].attrs["max_iterations"].value \in Int
  BY <1>1, <1>2 DEF HasBound, Arena, IsModule, IsOp, IntsAreInts
<1>4. ReadInt(m, o, "max_iterations", 1) = m.op[o].attrs["max_iterations"].value
  BY <1>2, <1>3 DEF HasBound, ReadInt
<1>5. Lowered(m).bound[o] = ReadInt(m, o, "max_iterations", 1)
  BY DEF Lowered
<1> QED
  BY <1>2, <1>3, <1>4, <1>5 DEF HasBound

\* Of every program: a control step has the plans that the executor asks for,
\* each of a block that is there, and a loop may run at least once.
THEOREM CompletePlans == Spec => []PlansAreComplete
<1>1. VerifiedInv => PlansAreComplete
  <2> SUFFICES ASSUME VerifiedInv, stage = "scheduling", NEW o \in Live(ir), IsControl(ir, o)
               PROVE  /\ Len(ir.op[o].regions) \in RegionsNeeded(NameOf(ir, o))
                      /\ \A r \in ToSet(ir.op[o].regions) : ir.region[r].blocks # <<>>
                      /\ o \in LoopsIn(ir) => Lowered(ir).bound[o] > 0
    BY DEF PlansAreComplete
  <2>1. Forest(ir) /\ RegionsFilled(ir) /\ Accepts(ir)
    BY ScheduledForest DEF Verified
  <2>2. \A r \in ToSet(ir.op[o].regions) : r \in DOMAIN ir.region
    <3>1. o \in DOMAIN ir.op
      BY DEF Live
    <3> QED
      BY <2>1, <3>1 DEF Forest, Arena, ArenaAgrees, RegionsOwned, ToSet
  <2>3. o \in LoopsIn(ir) => Lowered(ir).bound[o] > 0
    BY <2>1, BoundsArePositive DEF Forest
  <2> QED
    BY <2>1, <2>2, <2>3, RegionsAreThere DEF RegionsFilled
<1> QED
  BY <1>1, VerifiedInvInit, VerifiedInvStep, PTL DEF Spec

-----------------------------------------------------------------------------
(* Degrading.                                                              *)

\* The powers of two that are needed.
LEMMA PowersOfTwo ==
  /\ TwoTo[0] = 1
  /\ \A n \in 0..MaxDegradations :
       TwoTo[n] \in Nat \ {0} /\ (n # MaxDegradations => TwoTo[n + 1] = 2 * TwoTo[n])
<1> DEFINE D == 0..MaxDegradations
           step == [p \in D \X [D -> Nat] |-> IF p[1] = 0 THEN 1 ELSE 2 * p[2][p[1] - 1]]
           rank == [n \in D |-> n]
           power == CHOOSE f : f = [n \in D |-> IF n = 0 THEN 1 ELSE 2 * f[n - 1]]
<1>1. MaxDegradations \in Nat /\ D \subseteq Nat /\ \A n \in D : n # 0 => n - 1 \in D
  BY DegradationsAssumption
<1>2. step \in [D \X [D -> Nat] -> Nat]
  <2> SUFFICES ASSUME NEW n \in D, NEW f \in [D -> Nat], n # 0 PROVE 2 * f[n - 1] \in Nat
    OBVIOUS
  <2> QED
    BY <1>1
<1>3. \A x \in D : \A f, g \in [D -> Nat] :
        (\A y \in D : rank[y] < rank[x] => f[y] = g[y]) => step[<<x, f>>] = step[<<x, g>>]
  BY <1>1
<1>4. Recursive(D, Nat, MaxDegradations, rank, step)
  <2>1. rank \in [D -> 0..MaxDegradations]
    OBVIOUS
  <2> HIDE DEF step, rank
  <2> QED
    BY <1>1, <1>2, <1>3, <2>1 DEF Recursive
<1>5. PICK f \in [D -> Nat] : \A x \in D : f[x] = step[<<x, f>>]
  <2> HIDE DEF D, step, rank
  <2> QED
    BY <1>4, Recursion
<1>6. f = [n \in D |-> IF n = 0 THEN 1 ELSE 2 * f[n - 1]]
  BY <1>5
<1>7. power = [n \in D |-> IF n = 0 THEN 1 ELSE 2 * power[n - 1]]
  <2> HIDE DEF D
  <2> QED
    BY <1>6
<1>8. TwoTo = power
  BY DEF TwoTo
<1> HIDE DEF power, step, rank
<1>9. \A n \in D : TwoTo[n] = IF n = 0 THEN 1 ELSE 2 * TwoTo[n - 1]
  BY <1>7, <1>8
<1>10. \A n \in D : TwoTo[n] \in Nat \ {0}
  <2> DEFINE Good == {n \in D : TwoTo[n] \in Nat \ {0}}
             id == [n \in D |-> n]
  <2>1. ASSUME NEW n \in D, \A k \in D : id[k] < id[n] => k \in Good PROVE n \in Good
    <3>1. n # 0 => n - 1 \in D /\ n - 1 \in Good
      BY <1>1, <2>1
    <3> QED
      BY <1>9, <3>1
  <2>2. id \in [D -> Nat]
    BY <1>1
  <2>3. D \subseteq Good
    <3> HIDE DEF Good, id, D
    <3> QED
      BY <2>1, <2>2, RankInduction
  <2> QED
    BY <2>3
<1>11. ASSUME NEW n \in D, n # MaxDegradations PROVE TwoTo[n + 1] = 2 * TwoTo[n]
  <2>1. n + 1 \in D /\ n + 1 # 0 /\ (n + 1) - 1 = n
    BY <1>1, <1>11
  <2> QED
    BY <1>9, <2>1
<1>12. 0 \in D
  BY <1>1
<1> QED
  BY <1>9, <1>10, <1>11, <1>12

LEMMA MaxWithOne == ASSUME NEW n \in Nat PROVE Max({1, n}) = IF n = 0 THEN 1 ELSE n
<1>1. CASE n = 0
  <2>1. \A x \in {1, n} : (\A y \in {1, n} : x >= y) <=> x = 1
    BY <1>1
  <2> QED
    BY <1>1, <2>1 DEF Max
<1>2. CASE n # 0
  <2>1. \A x \in {1, n} : (\A y \in {1, n} : x >= y) <=> x = n
    BY <1>2
  <2> QED
    BY <1>2, <2>1 DEF Max
<1> QED
  BY <1>1, <1>2

\* Halving once more what a power of two has divided.
Shortened(bound, n) == Max({1, bound \div TwoTo[n]})

LEMMA OnceMore ==
  ASSUME NEW n \in Nat, n < MaxDegradations, NEW bound \in Nat \ {0}
  PROVE  LET left == Shortened(bound, n) IN
         Shortened(bound, n + 1) = IF left > 1 THEN left \div 2 ELSE left
<1> DEFINE p == TwoTo[n]
           q == bound \div p
<1>1. p \in Nat \ {0} /\ TwoTo[n + 1] = 2 * p
  BY PowersOfTwo, DegradationsAssumption
<1> HIDE DEF p
<1>2. q \in Nat /\ bound \div (2 * p) = q \div 2 /\ q \div 2 \in Nat
  BY <1>1
<1> HIDE DEF q
<1>3. Shortened(bound, n) = (IF q = 0 THEN 1 ELSE q)
  BY <1>2, MaxWithOne DEF Shortened, p, q
<1>4. Shortened(bound, n + 1) = (IF q \div 2 = 0 THEN 1 ELSE q \div 2)
  BY <1>1, <1>2, MaxWithOne DEF Shortened
<1> QED
  BY <1>2, <1>3, <1>4

\* Where no halving has happened.
LEMMA NotYetHalved == ASSUME NEW bound \in Nat \ {0} PROVE Shortened(bound, 0) = bound
<1>1. bound \div TwoTo[0] = bound
  BY PowersOfTwo
<1> QED
  BY <1>1, MaxWithOne DEF Shortened

\* Every bound of the plan is that of the program, halved as often as halving has
\* reached it.
HalvedBounds(bound, m, b, n) ==
  /\ DOMAIN bound = LoopsIn(m)
  /\ \A o \in LoopsIn(m) :
       bound[o] = IF o \in Reached(m, b) THEN Shortened(Lowered(m).bound[o], n)
                  ELSE Lowered(m).bound[o]

BoundsInv ==
  /\ halvings \in Nat
  /\ stage \notin {"degrading", "planned"} => halvings = 0
  /\ stage \in {"degrading", "planned"} => HalvedBounds(plan.bound, ir, entry, halvings)

\* What is reached is in the program.
LEMMA ReachedIsLive ==
  ASSUME NEW m, NEW b
  PROVE  Reached(m, b) \subseteq Live(m)
BY DEF Reached, Steps

LEMMA LoweringHalvesNothing ==
  ASSUME NEW m, Arena(m), Accepts(m), NEW b
  PROVE  HalvedBounds(Lowered(m).bound, m, b, 0)
<1>1. DOMAIN Lowered(m).bound = LoopsIn(m)
  BY DEF Lowered
<1>2. ASSUME NEW o \in LoopsIn(m), o \in Reached(m, b)
      PROVE  Shortened(Lowered(m).bound[o], 0) = Lowered(m).bound[o]
  BY <1>2, ReachedIsLive, BoundsArePositive, NotYetHalved
<1> QED
  BY <1>1, <1>2 DEF HalvedBounds

LEMMA HalvingHalvesOnce ==
  ASSUME NEW m, Arena(m), Accepts(m), NEW p, NEW b, NEW n \in Nat, n < MaxDegradations,
         HalvedBounds(p.bound, m, b, n)
  PROVE  HalvedBounds(Halved(m, p, b).bound, m, b, n + 1)
<1> DEFINE new == Halved(m, p, b).bound
<1>1. /\ DOMAIN new = DOMAIN p.bound
      /\ \A o \in DOMAIN p.bound :
           new[o] = IF o \in Reducible(m, p, b) THEN p.bound[o] \div 2 ELSE p.bound[o]
  BY DEF Halved
<1> HIDE DEF new
<1>2. DOMAIN p.bound = LoopsIn(m)
  BY DEF HalvedBounds
<1>3. ASSUME NEW o \in LoopsIn(m), o \in Reached(m, b)
      PROVE  new[o] = Shortened(Lowered(m).bound[o], n + 1)
  <2>1. p.bound[o] = Shortened(Lowered(m).bound[o], n)
    BY <1>3 DEF HalvedBounds
  <2>2. Lowered(m).bound[o] \in Nat \ {0}
    BY <1>3, ReachedIsLive, BoundsArePositive
  <2>3. o \in Reducible(m, p, b) <=> p.bound[o] > 1
    BY <1>3 DEF Reducible
  <2>4. Shortened(Lowered(m).bound[o], n + 1)
          = IF p.bound[o] > 1 THEN p.bound[o] \div 2 ELSE p.bound[o]
    BY <2>1, <2>2, OnceMore
  <2> QED
    BY <1>1, <1>2, <2>3, <2>4
<1>4. ASSUME NEW o \in LoopsIn(m), o \notin Reached(m, b) PROVE new[o] = Lowered(m).bound[o]
  <2>1. o \notin Reducible(m, p, b)
    BY <1>4 DEF Reducible
  <2> QED
    BY <1>1, <1>2, <1>4, <2>1 DEF HalvedBounds
<1> QED
  BY <1>1, <1>2, <1>3, <1>4 DEF HalvedBounds, new

LEMMA BoundsInvInit == Init => BoundsInv
BY DEF Init, BoundsInv

LEMMA BoundsInvStep == VerifiedInv /\ BoundsInv /\ [Next]_vars => BoundsInv'
<1> SUFFICES ASSUME VerifiedInv, BoundsInv, [Next]_vars PROVE BoundsInv'
  OBVIOUS
<1>1. stage \in Verified => Arena(ir) /\ Accepts(ir)
  BY ScheduledForest DEF Forest
<1>2. CASE Lower
  <2>1. stage = "scheduling" /\ ir' = ir /\ halvings' = halvings
    BY <1>2 DEF Lower, passesVars
  <2>2. /\ halvings = 0
        /\ \/ stage' = "unscheduled"
           \/ stage' = "degrading" /\ plan'.bound = Lowered(ir).bound
    BY <1>2, <2>1 DEF BoundsInv, Lower
  <2>3. HalvedBounds(Lowered(ir).bound, ir, entry', 0)
    BY <1>1, <2>1, LoweringHalvesNothing DEF Verified
  <2> QED
    BY <2>1, <2>2, <2>3 DEF BoundsInv
<1>3. CASE Degrade
  <2>1. /\ stage = "degrading" /\ stage' = stage /\ ir' = ir /\ entry' = entry
        /\ halvings < MaxDegradations /\ halvings' = halvings + 1
        /\ plan' = Halved(ir, plan, entry)
    BY <1>3 DEF Degrade, passesVars
  <2>2. halvings \in Nat /\ HalvedBounds(plan.bound, ir, entry, halvings)
    BY <2>1 DEF BoundsInv
  <2>3. HalvedBounds(plan'.bound, ir, entry, halvings')
    BY <1>1, <2>1, <2>2, HalvingHalvesOnce DEF Verified
  <2> QED
    BY <2>1, <2>2, <2>3 DEF BoundsInv
<1>4. CASE GiveUp
  <2>1. /\ stage = "degrading" /\ stage' = "planned" /\ ir' = ir /\ entry' = entry
        /\ halvings' = halvings /\ plan' = Halved(ir, plan, entry)
        /\ Reducible(ir, plan, entry) = {}
    BY <1>4 DEF GiveUp, passesVars
  <2>2. DOMAIN plan.bound = LoopsIn(ir) /\ HalvedBounds(plan.bound, ir, entry, halvings)
    BY <2>1 DEF BoundsInv, HalvedBounds
  <2>3. DOMAIN plan'.bound = LoopsIn(ir) /\ \A o \in LoopsIn(ir) : plan'.bound[o] = plan.bound[o]
    BY <2>1, <2>2 DEF Halved
  <2> QED
    BY <2>1, <2>2, <2>3 DEF BoundsInv, HalvedBounds
<1>5. CASE Plan
  BY <1>5 DEF Plan, passesVars, BoundsInv
<1>6. CASE Ended \/ UNCHANGED vars
  BY <1>6 DEF Ended, vars, passesVars, planVars, BoundsInv
<1>7. CASE Parse \/ Reject \/ Accept \/ Optimize \/ Optimized \/ AcceptAgain
  <2>1. /\ halvings' = halvings
        /\ stage \notin {"degrading", "planned"} /\ stage' \notin {"degrading", "planned"}
    BY <1>7 DEF Parse, Reject, Accept, Optimize, Optimized, AcceptAgain, planVars
  <2> QED
    BY <2>1 DEF BoundsInv
<1> QED
  BY <1>2, <1>3, <1>4, <1>5, <1>6, <1>7 DEF Next

\* Of every program, with whatever number of halvings: the bound of a loop is
\* what the program gives it, divided by two once for each halving that reached
\* it, and never less than one.
THEOREM BoundsAreHalved == Spec => []BoundsHalve
<1>1. BoundsInv => BoundsHalve
  BY DEF BoundsInv, HalvedBounds, BoundsHalve, HalvedFrom, Shortened
<1>2. VerifiedInv /\ BoundsInv /\ [Next]_vars => (VerifiedInv /\ BoundsInv)'
  BY VerifiedInvStep, BoundsInvStep
<1> QED
  BY <1>1, <1>2, VerifiedInvInit, BoundsInvInit, PTL DEF Spec

-----------------------------------------------------------------------------
(* What a plan holds.                                                      *)

\* The control operation around o plans the block that o is in.
PlannedByOwner(m, o) ==
  Owner(m, o) # 0 /\ m.op[o].parent \in ToSet(PlannedBlocks(m, Owner(m, o)))

\* An operation is in the plan of a block when it is in that block, or when what
\* is around it is in the plan and plans the block it is in.
LEMMA StepsAre ==
  ASSUME NEW m, Forest(m), NEW b
  PROVE  \A o \in Live(m) :
           o \in Steps(m, b)
             <=> \/ m.op[o].parent = b
                 \/ PlannedByOwner(m, o) /\ Owner(m, o) \in Steps(m, b)
<1> DEFINE D == DOMAIN m.op
           Listed == {o \in D : m.op[o].parent = b}
           Onward == {o \in D : PlannedByOwner(m, o)}
           step == [p \in D \X [D -> BOOLEAN] |->
                      p[1] \in Listed \/ (p[1] \in Onward /\ p[2][Owner(m, p[1])])]
           within == CHOOSE f : f = [o \in D |->
                       \/ m.op[o].parent = b
                       \/ /\ Owner(m, o) # 0
                          /\ m.op[o].parent \in ToSet(PlannedBlocks(m, Owner(m, o)))
                          /\ f[Owner(m, o)]]
<1>1. PICK N, rank : Ranked(m, N, rank)
  BY DEF Forest, Nested
<1>2. /\ N \in Nat /\ rank \in [D -> 0..N]
      /\ \A o \in Onward : o \in D /\ Owner(m, o) \in D /\ rank[Owner(m, o)] < rank[o]
  BY <1>1 DEF Ranked, PlannedByOwner
<1>3. step \in [D \X [D -> BOOLEAN] -> BOOLEAN]
  <2> HIDE DEF D, Listed, Onward
  <2> QED
    BY Zenon
<1>4. Recursive(D, BOOLEAN, N, rank, step)
  <2>1. ASSUME NEW o \in D, NEW f \in [D -> BOOLEAN], NEW g \in [D -> BOOLEAN],
               \A x \in D : rank[x] < rank[o] => f[x] = g[x]
        PROVE  step[<<o, f>>] = step[<<o, g>>]
    <3>1. o \in Onward => f[Owner(m, o)] = g[Owner(m, o)]
      BY <1>2, <2>1
    <3> HIDE DEF D, Listed, Onward
    <3>2. /\ step[<<o, f>>] = (o \in Listed \/ (o \in Onward /\ f[Owner(m, o)]))
          /\ step[<<o, g>>] = (o \in Listed \/ (o \in Onward /\ g[Owner(m, o)]))
      OBVIOUS
    <3> HIDE DEF step
    <3> QED
      BY <3>1, <3>2, Zenon
  <2> HIDE DEF D, step
  <2> QED
    BY <1>2, <1>3, <2>1 DEF Recursive
<1>5. PICK f \in [D -> BOOLEAN] : \A o \in D : f[o] = step[<<o, f>>]
  <2> HIDE DEF D, step
  <2> QED
    BY <1>4, Recursion
<1> DEFINE rule(f0) == [o \in D |->
                         \/ m.op[o].parent = b
                         \/ /\ Owner(m, o) # 0
                            /\ m.op[o].parent \in ToSet(PlannedBlocks(m, Owner(m, o)))
                            /\ f0[Owner(m, o)]]
<1>6. f = rule(f)
  <2>1. ASSUME NEW o \in D PROVE f[o] = rule(f)[o]
    <3>1. step[<<o, f>>] = (o \in Listed \/ (o \in Onward /\ f[Owner(m, o)]))
      <4> HIDE DEF D, Listed, Onward
      <4> QED
        OBVIOUS
    <3>2. /\ o \in Listed <=> m.op[o].parent = b
          /\ o \in Onward <=> /\ Owner(m, o) # 0
                              /\ m.op[o].parent \in ToSet(PlannedBlocks(m, Owner(m, o)))
      BY DEF PlannedByOwner
    <3> HIDE DEF step, Listed, Onward, D
    <3> QED
      BY <1>5, <3>1, <3>2, Zenon
  <2> DEFINE g == rule(f)
  <2>2. g = [o \in D |-> g[o]] /\ DOMAIN g = D
    BY Zenon
  <2> HIDE DEF D, step, g
  <2> QED
    BY <1>5, <2>1, <2>2 DEF g
<1>7. within = rule(within)
  <2> HIDE DEF D
  <2> QED
    BY <1>6, Zenon
<1>8. Steps(m, b) = {o \in Live(m) : within[o]}
  BY DEF Steps
<1> HIDE DEF within
<1>9. ASSUME NEW o \in D
      PROVE  within[o] = (m.op[o].parent = b \/ (PlannedByOwner(m, o) /\ within[Owner(m, o)]))
  <2> HIDE DEF D
  <2>1. rule(within)[o]
          = \/ m.op[o].parent = b
            \/ /\ Owner(m, o) # 0
               /\ m.op[o].parent \in ToSet(PlannedBlocks(m, Owner(m, o)))
               /\ within[Owner(m, o)]
    BY Zenon
  <2> QED
    BY <1>7, <2>1, Zenon DEF PlannedByOwner
<1> SUFFICES ASSUME NEW o \in Live(m)
             PROVE  o \in Steps(m, b)
                      <=> \/ m.op[o].parent = b
                          \/ PlannedByOwner(m, o) /\ Owner(m, o) \in Steps(m, b)
  OBVIOUS
<1>10. o \in D /\ (PlannedByOwner(m, o) => Owner(m, o) \in Live(m))
  BY LiveOwner DEF PlannedByOwner
<1> QED
  BY <1>8, <1>9, <1>10, Zenon

\* What changes in a signature is never how many regions there may be.
LEMMA RegionsStay ==
  ASSUME NEW operands, NEW results, NEW regions, NEW attrs, NEW effects
  PROVE  LET s == Signature(operands, results, regions) IN
         /\ s.regions = regions /\ Named(s).regions = regions
         /\ With(s, attrs).regions = regions /\ Declaring(s, effects).regions = regions
         /\ Terminating(s).regions = regions
         /\ Named(Declaring(s, effects)).regions = regions
         /\ Declaring(With(s, attrs), effects).regions = regions
BY DEF Signature, Named, With, Declaring, Terminating

LEMMA ToolHasNoRegions == \A c \in DOMAIN Tool : Tool[c].regions = {0}
<1>1. /\ DOMAIN Tool = {"call", "result", "capability"}
      /\ Tool["call"] = Named(Declaring(Signature(Number, Number, {0}), External))
      /\ Tool["result"] = With(Signature({1}, {1}, {0}), {Field("field", "str")})
      /\ Tool["capability"] = With(Signature({0}, {1}, {0}), {Field("capability", "str")})
  BY DEF Tool
<1> QED
  BY <1>1, RegionsStay

LEMMA MemoryHasNoRegions == \A c \in DOMAIN Memory : Memory[c].regions = {0}
<1>1. /\ DOMAIN Memory = {"read", "write", "search"}
      /\ Memory["read"] = Keyed(Signature(Number, {1}, {0}), "read_external")
      /\ Memory["write"] = Keyed(Signature({1}, {0}, {0}), "write_external")
      /\ Memory["search"] = Declaring(Signature(Number, {1}, {0}), {"read_external"})
  BY DEF Memory
<1> QED
  BY <1>1, RegionsStay DEF Keyed

LEMMA AgentRegions ==
  \A c \in DOMAIN Agent : c \in {"func", "plan"} \/ Agent[c].regions = {0}
<1>1. DOMAIN Agent = {"func", "input", "context", "action", "plan", "budget", "verify",
                      "reject", "return"}
  BY DEF Agent
<1>2. Agent["input"].regions = {0} /\ Agent["context"].regions = {0}
  BY RegionsStay DEF Agent
<1>3. Agent["action"].regions = {0} /\ Agent["budget"].regions = {0}
  BY RegionsStay DEF Agent
<1>4. Agent["verify"].regions = {0} /\ Agent["reject"].regions = {0}
  BY RegionsStay DEF Agent
<1>5. Agent["return"].regions = {0}
  BY RegionsStay DEF Agent
<1> QED
  BY <1>1, <1>2, <1>3, <1>4, <1>5

\* Only functions, agent.plan and the control operations may have a region.
LEMMA RegionHolders ==
  ASSUME NEW name, IsName(name), Known(name), NEW n \in Nat \ {0}, n \in SignatureOf(name).regions
  PROVE  name = Func \/ name = <<"agent", "plan">> \/ name \in Controls
<1> DEFINE d == name[1]
           k == name[2]
<1>1. name = <<d, k>> /\ d \in DOMAIN Registry /\ k \in DOMAIN Registry[d] /\ n \in Registry[d][k].regions
  BY DEF IsName, Known, SignatureOf
<1> HIDE DEF d, k
<1>2. d \in {"core", "agent", "control", "tool", "memory", "observation"}
  BY <1>1 DEF Registry
<1>3. n \notin {0} /\ n # 0
  OBVIOUS
<1>4. d # "core"
  <2> SUFFICES ASSUME d = "core" PROVE FALSE
    OBVIOUS
  <2>1. k \in DOMAIN Core /\ n \in Core[k].regions
    BY <1>1 DEF Registry
  <2> QED
    BY <1>3, <2>1 DEF Core, With, Named, Signature
<1>5. d # "tool"
  <2> SUFFICES ASSUME d = "tool" PROVE FALSE
    OBVIOUS
  <2>1. k \in DOMAIN Tool /\ n \in Tool[k].regions
    BY <1>1 DEF Registry
  <2> QED
    BY <1>3, <2>1, ToolHasNoRegions
<1>6. d # "memory"
  <2> SUFFICES ASSUME d = "memory" PROVE FALSE
    OBVIOUS
  <2>1. k \in DOMAIN Memory /\ n \in Memory[k].regions
    BY <1>1 DEF Registry
  <2> QED
    BY <1>3, <2>1, MemoryHasNoRegions
<1>7. d # "observation"
  <2> SUFFICES ASSUME d = "observation" PROVE FALSE
    OBVIOUS
  <2>1. k \in DOMAIN Observation /\ n \in Observation[k].regions
    BY <1>1 DEF Registry
  <2> QED
    BY <1>3, <2>1 DEF Observation, With, Named, Signature
<1>8. CASE d = "agent"
  <2>1. k \in DOMAIN Agent /\ n \in Agent[k].regions
    BY <1>1, <1>8 DEF Registry
  <2>2. k \in {"func", "plan"}
    BY <1>3, <2>1, AgentRegions
  <2> QED
    BY <1>1, <1>8, <2>2 DEF Func
<1>9. CASE d = "control"
  <2>1. k \in DOMAIN Control /\ n \in Control[k].regions
    BY <1>1, <1>9 DEF Registry
  <2>2. k \in {"if", "while", "loop", "parallel"}
    BY <1>3, <2>1 DEF Control, Bounded, With, Terminating, Signature
  <2> QED
    BY <1>1, <1>9, <2>2 DEF Controls, Loops, If, Parallel
<1> QED
  BY <1>2, <1>4, <1>5, <1>6, <1>7, <1>8, <1>9

\* A block is planned with its control operation when it is the first of its
\* region.
LEMMA FirstBlocksArePlanned ==
  ASSUME NEW m, Forest(m), NEW o \in Live(m), Owner(m, o) # 0, IsControl(m, Owner(m, o)),
         m.op[o].parent = FirstBlock(m, m.op[o].parent)
  PROVE  PlannedByOwner(m, o)
<1> DEFINE b == m.op[o].parent
           r == m.block[b].region
           w == Owner(m, o)
<1>1. b \in DOMAIN m.block /\ BlockOwner(m, b) = w
  BY LiveOwner, BlockOfOwner, ListedOperations DEF Forest
<1>2. r \in DOMAIN m.region /\ m.region[r].owner = w /\ b = m.region[r].blocks[1]
  BY <1>1 DEF Forest, OwnersAgree, BlocksPlaced, BlockOwner, FirstBlock
<1>3. r \in ToSet(m.op[w].regions)
  BY <1>2 DEF Forest, OwnersAgree, RegionsClaimed
<1> HIDE DEF b, r
<1>4. PICK i \in DOMAIN m.op[w].regions : m.op[w].regions[i] = r
  BY <1>3 DEF ToSet
<1>5. /\ PlannedBlocks(m, w)
           = [k \in DOMAIN m.op[w].regions |-> m.region[m.op[w].regions[k]].blocks[1]]
  BY DEF PlannedBlocks
<1> HIDE DEF w
<1>6. i \in DOMAIN PlannedBlocks(m, w) /\ PlannedBlocks(m, w)[i] = b
  BY <1>2, <1>4, <1>5
<1> QED
  BY <1>6 DEF ToSet, PlannedByOwner, b, w

\* A function that is scheduled, and the block its plan is of.
IsScheduled(m, f, b) ==
  /\ f \in ToSet(OpsIn(m, BodyBlock))
  /\ b = m.region[m.op[f].regions[1]].blocks[1]

\* A function has one region, and what is in its first block is the plan's.
LEMMA OneRegion ==
  ASSUME NEW m, Forest(m), Accepts(m), RegionsFilled(m), NEW f, NEW b, IsScheduled(m, f, b)
  PROVE  /\ f \in Live(m) /\ f # 0
         /\ b \in DOMAIN m.block /\ BlockOwner(m, b) = f
         /\ \A c \in DOMAIN m.block : BlockOwner(m, c) = f => FirstBlock(m, c) = b
<1>1. f \in DOMAIN m.op /\ m.op[f].parent = BodyBlock /\ f # 0 /\ NameOf(m, f) = Func
  <2>1. PICK i \in DOMAIN m.block[BodyBlock].ops : f = m.block[BodyBlock].ops[i]
    BY DEF IsScheduled, OpsIn, ToSet
  <2>2. f \in DOMAIN m.op /\ m.op[f].parent = BodyBlock
    BY <2>1 DEF Forest, OwnersAgree, BodyIsFree, Arena, ArenaAgrees, ListedWhereNamed
  <2>3. NameOf(m, f) = Func
    BY DEF IsScheduled, Accepts, WellFormed, NotAFunction
  <2> QED
    BY <2>2, <2>3, ArenaShape DEF Forest, Arena
<1>2. f \in Live(m)
  BY <1>1 DEF Live, Forest, Arena, ArenaAgrees, ErasedIsNowhere, BodyBlock
<1>3. m.op[f].regions \in Seq(Nat) /\ Len(m.op[f].regions) = 1
  <2>1. m.op[f].name = Func
    BY <1>1 DEF NameOf
  <2>2. Len(m.op[f].regions) \in SignatureOf(m.op[f].name).regions
    BY <1>2 DEF Accepts, WellFormed, Misdeclared
  <2> QED
    BY <1>1, <2>1, <2>2, FuncSignature DEF Forest, Arena, IsModule, IsOp
<1> DEFINE r == m.op[f].regions[1]
<1>4. ToSet(m.op[f].regions) = {r}
  BY <1>3 DEF ToSet
<1>5. r \in DOMAIN m.region /\ m.region[r].owner = f
  BY <1>1, <1>3 DEF Forest, Arena, ArenaAgrees, RegionsOwned
<1>6. b = m.region[r].blocks[1]
  BY DEF IsScheduled
<1> HIDE DEF r
<1>7. b \in DOMAIN m.block /\ m.block[b].region = r
  <2>1. m.region[r].blocks # <<>> /\ m.region[r].blocks \in Seq(Nat)
    BY <1>5 DEF RegionsFilled, Forest, Arena, IsModule, IsRegion
  <2>2. b \in ToSet(m.region[r].blocks)
    BY <1>6, <2>1 DEF ToSet
  <2> QED
    BY <1>5, <2>2 DEF Forest, OwnersAgree, BlocksPlaced
<1>8. ASSUME NEW c \in DOMAIN m.block, BlockOwner(m, c) = f PROVE FirstBlock(m, c) = b
  <2>1. m.block[c].region \in DOMAIN m.region /\ m.region[m.block[c].region].owner = f
    BY <1>8 DEF Forest, OwnersAgree, BlocksPlaced, BlockOwner
  <2>2. m.block[c].region = r
    BY <1>1, <1>4, <2>1 DEF Forest, OwnersAgree, RegionsClaimed
  <2> QED
    BY <1>6, <2>2 DEF FirstBlock
<1> QED
  BY <1>1, <1>2, <1>5, <1>7, <1>8 DEF BlockOwner

\* Where everything around an operation is the first block of its region.
InFirstBlocks(m, o) ==
  /\ \A a \in {o} \cup Above(m)[o] : m.op[a].parent = FirstBlock(m, m.op[a].parent)
  /\ \A a \in Above(m)[o] : NameOf(m, a) # <<"agent", "plan">>

LEMMA PlanHoldsAll ==
  ASSUME NEW m, Forest(m), Accepts(m), RegionsFilled(m), NEW f, NEW b, IsScheduled(m, f, b),
         \A o \in Steps(m, b) : NameOf(m, o) # Func
  PROVE  \A o \in Live(m) : f \in Above(m)[o] /\ InFirstBlocks(m, o) => o \in Steps(m, b)
<1> DEFINE Good == {o \in DOMAIN m.op :
                      o \in Live(m) /\ f \in Above(m)[o] /\ InFirstBlocks(m, o) => o \in Steps(m, b)}
<1>1. ASSUME NEW o \in DOMAIN m.op, Owner(m, o) # 0 => Owner(m, o) \in Good
      PROVE  o \in Good
  <2> SUFFICES ASSUME o \in Live(m), f \in Above(m)[o], InFirstBlocks(m, o)
               PROVE  o \in Steps(m, b)
    OBVIOUS
  <2> DEFINE w == Owner(m, o)
  <2>1. /\ w # 0 /\ w \in DOMAIN m.op /\ w \in Live(m)
        /\ Above(m)[o] = {w} \cup Above(m)[w]
    BY LiveOwner, AboveOwner
  <2>2. /\ m.op[o].parent \in DOMAIN m.block /\ BlockOwner(m, m.op[o].parent) = w
        /\ m.op[o].parent = FirstBlock(m, m.op[o].parent)
    <3>1. m.op[o].parent # 0 /\ m.op[o].parent \in DOMAIN m.block
      BY LiveOwner, ListedOperations DEF Forest
    <3> QED
      BY <3>1, BlockOfOwner DEF InFirstBlocks
  <2> HIDE DEF w
  <2>3. CASE w = f
    <3>1. m.op[o].parent = b
      BY <2>2, <2>3, OneRegion
    <3> QED
      BY <3>1, StepsAre
  <2>4. CASE w # f
    <3>1. f \in Above(m)[w] /\ InFirstBlocks(m, w)
      BY <2>1, <2>4 DEF InFirstBlocks
    <3>2. w \in Steps(m, b)
      BY <1>1, <2>1, <3>1 DEF w
    <3>3. NameOf(m, w) # Func /\ NameOf(m, w) # <<"agent", "plan">>
      BY <2>1, <3>2 DEF InFirstBlocks
    <3>4. IsControl(m, w)
      <4>1. Known(NameOf(m, w)) /\ Len(m.op[w].regions) \in SignatureOf(NameOf(m, w)).regions
        BY <2>1 DEF Accepts, WellFormed, Misdeclared, NameOf
      <4>2. IsName(NameOf(m, w)) /\ m.op[w].regions \in Seq(Nat)
        BY <2>1 DEF Forest, Arena, IsModule, IsOp, NameOf
      <4>3. m.op[o].parent \in BlocksOf(m, w)
        BY <2>1, <2>2, BlockOfOwner, ListedOperations DEF Forest, w
      <4>4. Len(m.op[w].regions) # 0
        BY <4>2, <4>3 DEF BlocksOf, ToSet
      <4>5. Len(m.op[w].regions) \in Nat \ {0}
        BY <4>2, <4>4
      <4> QED
        BY <3>3, <4>1, <4>2, <4>5, RegionHolders DEF IsControl
    <3>5. PlannedByOwner(m, o)
      BY <2>1, <2>2, <3>4, FirstBlocksArePlanned DEF w
    <3> QED
      BY <3>2, <3>5, StepsAre DEF w
  <2> QED
    BY <2>3, <2>4
<1>2. DOMAIN m.op \subseteq Good
  <2> HIDE DEF Good
  <2> QED
    BY <1>1, OwnerInduction
<1> QED
  BY <1>2 DEF Live

\* The plan is of the first block of a function, and no function is in it.
EntryInv ==
  stage \in {"degrading", "planned"} =>
    /\ \E f \in ToSet(OpsIn(ir, BodyBlock)) : entry = EntryOf(f)
    /\ Unlowered(entry) = {}

LEMMA EntryInvStep == EntryInv /\ [Next]_vars => EntryInv'
<1> SUFFICES ASSUME EntryInv, [Next]_vars, stage' \in {"degrading", "planned"}
             PROVE  /\ \E f \in ToSet(OpsIn(ir', BodyBlock)) :
                         entry' = ir'.region[ir'.op[f].regions[1]].blocks[1]
                    /\ {o \in Steps(ir', entry') : NameOf(ir', o) = Func} = {}
  BY DEF EntryInv, EntryOf, Unlowered
<1>1. CASE Lower
  <2>1. ir' = ir
    BY <1>1 DEF Lower, passesVars
  <2>2. PICK f \in ToSet(OpsIn(ir, BodyBlock)) :
          /\ entry' = EntryOf(f)
          /\ IF Unlowered(EntryOf(f)) # {} THEN stage' = "unscheduled" ELSE TRUE
    BY <1>1 DEF Lower
  <2>3. Unlowered(EntryOf(f)) = {}
    BY <2>2
  <2> QED
    BY <2>1, <2>2, <2>3 DEF EntryOf, Unlowered
<1>2. ASSUME ir' = ir, entry' = entry, stage \in {"degrading", "planned"}
      PROVE  /\ \E f \in ToSet(OpsIn(ir', BodyBlock)) :
                  entry' = ir'.region[ir'.op[f].regions[1]].blocks[1]
             /\ {o \in Steps(ir', entry') : NameOf(ir', o) = Func} = {}
  BY <1>2 DEF EntryInv, EntryOf, Unlowered
<1>3. Degrade \/ GiveUp \/ Plan \/ Ended \/ UNCHANGED vars
      => ir' = ir /\ entry' = entry /\ stage \in {"degrading", "planned"}
  BY DEF Degrade, GiveUp, Plan, Ended, vars, passesVars, planVars
<1>4. Parse \/ Reject \/ Accept \/ Optimize \/ Optimized \/ AcceptAgain => FALSE
  BY DEF Parse, Reject, Accept, Optimize, Optimized, AcceptAgain
<1> QED
  BY <1>1, <1>2, <1>3, <1>4 DEF Next

\* Of every program: what was accepted of the function that is scheduled is in
\* its plan, unless it is in a block that is not the first of its region or below
\* an agent.plan.
THEOREM NothingLeftOut == Spec => []NothingIsLeftOut
<1>1. Init => EntryInv
  BY DEF Init, EntryInv
<1>2. VerifiedInv /\ EntryInv => NothingIsLeftOut
  <2> SUFFICES ASSUME VerifiedInv, EntryInv, stage = "planned", NEW o \in Live(ir),
                      BlockOwner(ir, entry) \in Above(ir)[o], InFirstBlocks(ir, o)
               PROVE  o \in Steps(ir, entry)
    BY DEF NothingIsLeftOut, BlockOwner, InFirstBlocks
  <2>1. Forest(ir) /\ RegionsFilled(ir) /\ Accepts(ir)
    BY ScheduledForest DEF Verified
  <2>2. PICK f : IsScheduled(ir, f, entry)
    BY DEF EntryInv, IsScheduled, EntryOf
  <2>3. BlockOwner(ir, entry) = f
    BY <2>1, <2>2, OneRegion
  <2>4. \A x \in Steps(ir, entry) : NameOf(ir, x) # Func
    BY DEF EntryInv, Unlowered
  <2> QED
    BY <2>1, <2>2, <2>3, <2>4, PlanHoldsAll
<1>3. VerifiedInv /\ EntryInv /\ [Next]_vars => (VerifiedInv /\ EntryInv)'
  BY VerifiedInvStep, EntryInvStep
<1> QED
  BY <1>1, <1>2, <1>3, VerifiedInvInit, PTL DEF Spec

-----------------------------------------------------------------------------
(* What a plan costs.                                                      *)

Costs == [DOMAIN Zero -> Nat]

LEMMA MaxOfTwo ==
  ASSUME NEW a \in Nat, NEW b \in Nat
  PROVE  Max({a, b}) = IF a >= b THEN a ELSE b
<1>1. CASE a >= b
  <2>1. \A x \in {a, b} : (\A y \in {a, b} : x >= y) <=> x = a
    BY <1>1
  <2> QED
    BY <1>1, <2>1 DEF Max
<1>2. CASE ~(a >= b)
  <2>1. \A x \in {a, b} : (\A y \in {a, b} : x >= y) <=> x = b
    BY <1>2
  <2> QED
    BY <1>2, <2>1 DEF Max
<1> QED
  BY <1>1, <1>2

LEMMA CostFields == DOMAIN Zero = {"input", "output", "llm", "tool", "latency"}
BY DEF Zero

LEMMA ZeroCost == Zero \in Costs /\ Zero.latency = 0
BY CostFields DEF Zero, Costs

LEMMA CostArithmetic ==
  /\ Zero \in Costs /\ Zero.latency = 0
  /\ \A a, b \in Costs :
       /\ a.latency \in Nat
       /\ Then(a, b) \in Costs /\ Then(a, b).latency = a.latency + b.latency
       /\ Alongside(a, b) \in Costs
       /\ Alongside(a, b).latency = IF a.latency >= b.latency THEN a.latency ELSE b.latency
       /\ Slower(a, b) \in Costs
       /\ Slower(a, b).latency = IF a.latency >= b.latency THEN a.latency ELSE b.latency
  /\ \A a \in Costs, n \in Nat : Repeated(a, n) \in Costs /\ Repeated(a, n).latency = a.latency * n
<1>1. Zero \in Costs /\ Zero.latency = 0
  BY ZeroCost
<1>2. ASSUME NEW a \in Costs, NEW b \in Costs
      PROVE  /\ a.latency \in Nat /\ b.latency \in Nat
             /\ Then(a, b) \in Costs /\ Then(a, b).latency = a.latency + b.latency
  BY CostFields DEF Costs, Then
<1>3. ASSUME NEW a \in Costs, NEW b \in Costs
      PROVE  /\ Alongside(a, b) \in Costs
             /\ Alongside(a, b).latency = IF a.latency >= b.latency THEN a.latency ELSE b.latency
  <2> DEFINE l == Max({a.latency, b.latency})
  <2>1. l = IF a.latency >= b.latency THEN a.latency ELSE b.latency
    BY <1>2, MaxOfTwo
  <2>2. l \in Nat
    BY <1>2, <2>1
  <2>3. Alongside(a, b) = [Then(a, b) EXCEPT !.latency = l]
    BY DEF Alongside
  <2> HIDE DEF l
  <2>4. Then(a, b) \in Costs
    BY <1>2
  <2> QED
    BY <2>1, <2>2, <2>3, <2>4, CostFields DEF Costs
<1>4. ASSUME NEW a \in Costs, NEW b \in Costs
      PROVE  /\ Slower(a, b) \in Costs
             /\ Slower(a, b).latency = IF a.latency >= b.latency THEN a.latency ELSE b.latency
  BY DEF Slower
<1>5. ASSUME NEW a \in Costs, NEW n \in Nat
      PROVE  Repeated(a, n) \in Costs /\ Repeated(a, n).latency = a.latency * n
  BY CostFields DEF Costs, Repeated
<1> QED
  BY <1>1, <1>2, <1>3, <1>4, <1>5

LEMMA NothingTakesNoTime == Zero \in Costs /\ Zero.latency =< Zero.latency
BY CostFields DEF Zero, Costs

\* What is made of costs that take no longer takes no longer.
NotSlower(a, c) == a.latency =< c.latency

LEMMA Slowing ==
  ASSUME NEW a \in Costs, NEW b \in Costs, NEW c \in Costs, NEW d \in Costs,
         NotSlower(a, c), NotSlower(b, d)
  PROVE  /\ NotSlower(Then(a, b), Then(c, d))
         /\ NotSlower(Alongside(a, b), Alongside(c, d))
         /\ NotSlower(Slower(a, b), Slower(c, d))
<1>1. /\ a.latency \in Nat /\ b.latency \in Nat /\ c.latency \in Nat /\ d.latency \in Nat
      /\ a.latency =< c.latency /\ b.latency =< d.latency
  BY CostArithmetic DEF NotSlower
<1>2. /\ Then(a, b).latency = a.latency + b.latency
      /\ Alongside(a, b).latency = IF a.latency >= b.latency THEN a.latency ELSE b.latency
      /\ Slower(a, b).latency = IF a.latency >= b.latency THEN a.latency ELSE b.latency
  BY CostArithmetic
<1>3. /\ Then(c, d).latency = c.latency + d.latency
      /\ Alongside(c, d).latency = IF c.latency >= d.latency THEN c.latency ELSE d.latency
      /\ Slower(c, d).latency = IF c.latency >= d.latency THEN c.latency ELSE d.latency
  BY CostArithmetic
<1> QED
  BY <1>1, <1>2, <1>3 DEF NotSlower

LEMMA ProductsGrow ==
  ASSUME NEW x \in Nat, NEW y \in Nat, NEW n \in Nat, NEW k \in Nat, x =< y, n =< k
  PROVE  x * n =< y * k
<1>1. x * n =< y * n
  OBVIOUS
<1>2. y * n =< y * k
  OBVIOUS
<1>3. x * n \in Nat /\ y * n \in Nat /\ y * k \in Nat
  OBVIOUS
<1> QED
  BY <1>1, <1>2, <1>3

LEMMA RepeatingSlows ==
  ASSUME NEW a \in Costs, NEW c \in Costs, NEW n \in Nat, NEW k \in Nat, NotSlower(a, c), n =< k
  PROVE  NotSlower(Repeated(a, n), Repeated(c, k))
<1>1. /\ a.latency \in Nat /\ c.latency \in Nat
      /\ Repeated(a, n).latency = a.latency * n /\ Repeated(c, k).latency = c.latency * k
  BY CostArithmetic
<1> QED
  BY <1>1, ProductsGrow DEF NotSlower

\* The sums of a batch's costs, one step after the other.
BatchSum(ranks, costs, r, f) ==
  /\ f \in [0..Len(costs) -> Costs] /\ f[0] = Zero
  /\ \A n \in 1..Len(costs) :
       f[n] = IF ranks[n] = r THEN Alongside(f[n - 1], costs[n]) ELSE f[n - 1]

LEMMA InBatchIs ==
  ASSUME NEW ranks, NEW costs \in Seq(Costs), NEW r
  PROVE  \E f : BatchSum(ranks, costs, r, f) /\ InBatch(ranks, costs, r) = f[Len(costs)]
<1> DEFINE L == Len(costs)
           more(n, c) == IF ranks[n] = r THEN Alongside(c, costs[n]) ELSE c
           rule(f) == [n \in 0..L |-> IF n = 0 THEN Zero ELSE more(n, f[n - 1])]
           step == [p \in (1..L) \X Costs |-> more(p[1], p[2])]
           upto == CHOOSE f : f = rule(f)
<1>1. L \in Nat /\ \A n \in 1..L : costs[n] \in Costs
  OBVIOUS
<1>2. \A n \in 1..L, c \in Costs : more(n, c) \in Costs
  BY <1>1, CostArithmetic
<1>3. step \in [(1..L) \X Costs -> Costs] /\ \A n \in 1..L, c \in Costs : step[<<n, c>>] = more(n, c)
  <2> HIDE DEF more, L
  <2> QED
    BY <1>2
<1>4. Zero \in Costs
  BY CostArithmetic
<1>5. PICK f \in [0..L -> Costs] : Accumulates(f, L, Zero, step)
  <2> HIDE DEF L, step
  <2> QED
    BY <1>1, <1>3, <1>4, Accumulation
<1>6. \A n \in 1..L : f[n] = more(n, f[n - 1])
  <2> SUFFICES ASSUME NEW n \in 1..L PROVE f[n] = more(n, f[n - 1])
    OBVIOUS
  <2>1. f[n - 1] \in Costs
    BY <1>1
  <2> HIDE DEF L, step, more
  <2> QED
    BY <1>3, <1>5, <2>1 DEF Accumulates
<1>7. f = rule(f)
  <2> HIDE DEF step, more
  <2> QED
    BY <1>1, <1>5, <1>6 DEF Accumulates
<1>8. upto = rule(upto)
  <2> HIDE DEF L, more
  <2> QED
    BY <1>7, Zenon
<1>9. InBatch(ranks, costs, r) = upto[L]
  BY DEF InBatch
<1> HIDE DEF upto
<1>10. upto[0] = Zero /\ \A n \in 1..L : upto[n] = more(n, upto[n - 1])
  <2> HIDE DEF more
  <2> QED
    BY <1>1, <1>8
<1>11. 0..L \subseteq {n \in 0..L : upto[n] \in Costs}
  <2> DEFINE Good == {n \in 0..L : upto[n] \in Costs}
  <2>1. 0 \in Good
    BY <1>1, <1>4, <1>10
  <2>2. ASSUME NEW n \in 1..L, n - 1 \in Good PROVE n \in Good
    <3>1. upto[n - 1] \in Costs /\ n \in 0..L
      BY <2>2
    <3> HIDE DEF more
    <3> QED
      BY <1>2, <1>10, <3>1
  <2> HIDE DEF Good
  <2> QED
    BY <1>1, <2>1, <2>2, Upward DEF Good
<1>12. upto \in [0..L -> Costs]
  <2> HIDE DEF more
  <2> QED
    BY <1>8, <1>11
<1> QED
  BY <1>9, <1>10, <1>12 DEF BatchSum

\* The sums of the costs of batches, one batch after the other.
SequenceSum(costs, f) ==
  /\ f \in [0..Len(costs) -> Costs] /\ f[0] = Zero
  /\ \A n \in 1..Len(costs) : f[n] = Then(f[n - 1], costs[n])

LEMMA InSequenceIs ==
  ASSUME NEW costs \in Seq(Costs)
  PROVE  \E f : SequenceSum(costs, f) /\ InSequence(costs) = f[Len(costs)]
<1> DEFINE L == Len(costs)
           more(n, c) == Then(c, costs[n])
           rule(f) == [n \in 0..L |-> IF n = 0 THEN Zero ELSE more(n, f[n - 1])]
           step == [p \in (1..L) \X Costs |-> more(p[1], p[2])]
           upto == CHOOSE f : f = rule(f)
<1>1. L \in Nat /\ \A n \in 1..L : costs[n] \in Costs
  OBVIOUS
<1>2. \A n \in 1..L, c \in Costs : more(n, c) \in Costs
  BY <1>1, CostArithmetic
<1>3. step \in [(1..L) \X Costs -> Costs] /\ \A n \in 1..L, c \in Costs : step[<<n, c>>] = more(n, c)
  <2> HIDE DEF more, L
  <2> QED
    BY <1>2
<1>4. Zero \in Costs
  BY CostArithmetic
<1>5. PICK f \in [0..L -> Costs] : Accumulates(f, L, Zero, step)
  <2> HIDE DEF L, step
  <2> QED
    BY <1>1, <1>3, <1>4, Accumulation
<1>6. \A n \in 1..L : f[n] = more(n, f[n - 1])
  <2> SUFFICES ASSUME NEW n \in 1..L PROVE f[n] = more(n, f[n - 1])
    OBVIOUS
  <2>1. f[n - 1] \in Costs
    BY <1>1
  <2> HIDE DEF L, step, more
  <2> QED
    BY <1>3, <1>5, <2>1 DEF Accumulates
<1>7. f = rule(f)
  <2> HIDE DEF step, more
  <2> QED
    BY <1>1, <1>5, <1>6 DEF Accumulates
<1>8. upto = rule(upto)
  <2> HIDE DEF L, more
  <2> QED
    BY <1>7, Zenon
<1>9. InSequence(costs) = upto[L]
  BY DEF InSequence
<1> HIDE DEF upto
<1>10. upto[0] = Zero /\ \A n \in 1..L : upto[n] = more(n, upto[n - 1])
  <2> HIDE DEF more
  <2> QED
    BY <1>1, <1>8
<1>11. 0..L \subseteq {n \in 0..L : upto[n] \in Costs}
  <2> DEFINE Good == {n \in 0..L : upto[n] \in Costs}
  <2>1. 0 \in Good
    BY <1>1, <1>4, <1>10
  <2>2. ASSUME NEW n \in 1..L, n - 1 \in Good PROVE n \in Good
    <3>1. upto[n - 1] \in Costs /\ n \in 0..L
      BY <2>2
    <3> HIDE DEF more
    <3> QED
      BY <1>2, <1>10, <3>1
  <2> HIDE DEF Good
  <2> QED
    BY <1>1, <2>1, <2>2, Upward DEF Good
<1>12. upto \in [0..L -> Costs]
  <2> HIDE DEF more
  <2> QED
    BY <1>8, <1>11
<1> QED
  BY <1>9, <1>10, <1>12 DEF SequenceSum

\* Where a batch or a sequence of costs takes no longer, their sum does not.
LEMMA BatchGrows ==
  ASSUME NEW ranks, NEW r, NEW costs \in Seq(Costs), NEW dearer \in Seq(Costs),
         Len(dearer) = Len(costs), \A n \in 1..Len(costs) : costs[n].latency =< dearer[n].latency
  PROVE  InBatch(ranks, costs, r).latency =< InBatch(ranks, dearer, r).latency
<1> DEFINE L == Len(costs)
<1>1. PICK f : BatchSum(ranks, costs, r, f) /\ InBatch(ranks, costs, r) = f[L]
  BY InBatchIs
<1>2. PICK g : BatchSum(ranks, dearer, r, g) /\ InBatch(ranks, dearer, r) = g[L]
  BY InBatchIs
<1>3. L \in Nat /\ \A n \in 1..L : costs[n] \in Costs /\ dearer[n] \in Costs
  OBVIOUS
<1>4. f \in [0..L -> Costs] /\ g \in [0..L -> Costs] /\ f[0] = Zero /\ g[0] = Zero
  BY <1>1, <1>2 DEF BatchSum
<1>5. \A n \in 1..L :
        /\ f[n] = IF ranks[n] = r THEN Alongside(f[n - 1], costs[n]) ELSE f[n - 1]
        /\ g[n] = IF ranks[n] = r THEN Alongside(g[n - 1], dearer[n]) ELSE g[n - 1]
  BY <1>1, <1>2 DEF BatchSum
<1> DEFINE Good == {n \in 0..L : f[n].latency =< g[n].latency}
<1> HIDE DEF L
<1>6. 0 \in Good
  BY <1>3, <1>4, NothingTakesNoTime
<1>7. ASSUME NEW n \in 1..L, n - 1 \in Good PROVE n \in Good
  <2>1. /\ n \in 0..L /\ f[n - 1] \in Costs /\ g[n - 1] \in Costs
        /\ f[n - 1].latency =< g[n - 1].latency
    BY <1>4, <1>7
  <2>2. CASE ranks[n] # r
    BY <1>5, <2>1, <2>2
  <2>3. CASE ranks[n] = r
    <3>1. costs[n] \in Costs /\ dearer[n] \in Costs /\ costs[n].latency =< dearer[n].latency
      BY <1>3 DEF L
    <3>2. f[n] = Alongside(f[n - 1], costs[n]) /\ g[n] = Alongside(g[n - 1], dearer[n])
      BY <1>5, <2>3
    <3> HIDE DEF Good
    <3>3. f[n].latency =< g[n].latency
      BY <2>1, <3>1, <3>2, Slowing DEF NotSlower
    <3> QED
      BY <2>1, <3>3 DEF Good
  <2> QED
    BY <2>2, <2>3
<1>8. L \in Good
  <2> HIDE DEF Good
  <2>1. 0..L \subseteq Good
    BY <1>3, <1>6, <1>7, Upward
  <2> QED
    BY <1>3, <2>1
<1> QED
  BY <1>1, <1>2, <1>8

LEMMA SequenceGrows ==
  ASSUME NEW costs \in Seq(Costs), NEW dearer \in Seq(Costs),
         Len(dearer) = Len(costs), \A n \in 1..Len(costs) : costs[n].latency =< dearer[n].latency
  PROVE  InSequence(costs).latency =< InSequence(dearer).latency
<1> DEFINE L == Len(costs)
<1>1. PICK f : SequenceSum(costs, f) /\ InSequence(costs) = f[L]
  BY InSequenceIs
<1>2. PICK g : SequenceSum(dearer, g) /\ InSequence(dearer) = g[L]
  BY InSequenceIs
<1>3. L \in Nat /\ \A n \in 1..L : costs[n] \in Costs /\ dearer[n] \in Costs
  OBVIOUS
<1>4. f \in [0..L -> Costs] /\ g \in [0..L -> Costs] /\ f[0] = Zero /\ g[0] = Zero
  BY <1>1, <1>2 DEF SequenceSum
<1>5. \A n \in 1..L : f[n] = Then(f[n - 1], costs[n]) /\ g[n] = Then(g[n - 1], dearer[n])
  BY <1>1, <1>2 DEF SequenceSum
<1> DEFINE Good == {n \in 0..L : f[n].latency =< g[n].latency}
<1> HIDE DEF L
<1>6. 0 \in Good
  BY <1>3, <1>4, NothingTakesNoTime
<1>7. ASSUME NEW n \in 1..L, n - 1 \in Good PROVE n \in Good
  <2>1. /\ n \in 0..L /\ f[n - 1] \in Costs /\ g[n - 1] \in Costs
        /\ f[n - 1].latency =< g[n - 1].latency
    BY <1>4, <1>7
  <2>2. costs[n] \in Costs /\ dearer[n] \in Costs /\ costs[n].latency =< dearer[n].latency
    BY <1>3 DEF L
  <2>3. f[n] = Then(f[n - 1], costs[n]) /\ g[n] = Then(g[n - 1], dearer[n])
    BY <1>5
  <2> HIDE DEF Good
  <2>4. f[n].latency =< g[n].latency
    BY <2>1, <2>2, <2>3, Slowing DEF NotSlower
  <2> QED
    BY <2>1, <2>4 DEF Good
<1>8. L \in Good
  <2> HIDE DEF Good
  <2>1. 0..L \subseteq Good
    BY <1>3, <1>6, <1>7, Upward
  <2> QED
    BY <1>3, <2>1
<1> QED
  BY <1>1, <1>2, <1>8

LEMMA SumsAreCosts ==
  ASSUME NEW costs \in Seq(Costs)
  PROVE  InSequence(costs) \in Costs /\ \A ranks, r : InBatch(ranks, costs, r) \in Costs
<1>1. InSequence(costs) \in Costs
  <2>1. PICK f : SequenceSum(costs, f) /\ InSequence(costs) = f[Len(costs)]
    BY InSequenceIs
  <2>2. f \in [0..Len(costs) -> Costs] /\ Len(costs) \in Nat
    BY <2>1 DEF SequenceSum
  <2> QED
    BY <2>1, <2>2
<1>2. ASSUME NEW ranks, NEW r PROVE InBatch(ranks, costs, r) \in Costs
  <2>1. PICK f : BatchSum(ranks, costs, r, f) /\ InBatch(ranks, costs, r) = f[Len(costs)]
    BY InBatchIs
  <2>2. f \in [0..Len(costs) -> Costs] /\ Len(costs) \in Nat
    BY <2>1 DEF BatchSum
  <2> QED
    BY <2>1, <2>2
<1> QED
  BY <1>1, <1>2

\* No step in the block takes longer with one estimate than with the other.
NoSlower(m, b, f, g) == \A x \in ToSet(m.block[b].ops) : f[x].latency =< g[x].latency

\* The cost of a block is that of what is in it.
LEMMA SameBlockCost ==
  ASSUME NEW m, NEW b, NEW D, m.block[b].ops \in Seq(D), NEW f, NEW g,
         \A x \in ToSet(m.block[b].ops) : f[x] = g[x]
  PROVE  BlockCost(m, b, f) = BlockCost(m, b, g)
<1> DEFINE ops == m.block[b].ops
           costs(e) == [i \in 1..Len(ops) |-> e[ops[i]]]
<1>1. costs(f) = costs(g)
  <2>1. \A i \in 1..Len(ops) : f[ops[i]] = g[ops[i]]
    BY DEF ToSet
  <2> QED
    BY <2>1
<1> QED
  BY <1>1 DEF BlockCost, OpsIn

LEMMA BlockCosts ==
  ASSUME NEW m, NEW b, NEW D, m.block[b].ops \in Seq(D), NEW f \in [D -> Costs], NEW g \in [D -> Costs]
  PROVE  /\ BlockCost(m, b, f) \in Costs
         /\ NoSlower(m, b, f, g) => BlockCost(m, b, f).latency =< BlockCost(m, b, g).latency
<1> DEFINE ops == m.block[b].ops
           L == Len(ops)
           costs(e) == [i \in 1..L |-> e[ops[i]]]
           batches(e) == [r \in 1..2 * L + 1 |-> InBatch(Ranks(m, b), costs(e), r - 1)]
<1>1. L \in Nat /\ \A i \in 1..L : ops[i] \in D /\ ops[i] \in ToSet(ops)
  BY DEF ToSet
<1>2. BlockCost(m, b, f) = InSequence(batches(f)) /\ BlockCost(m, b, g) = InSequence(batches(g))
  BY DEF BlockCost, OpsIn
<1>3. ASSUME NEW e \in [D -> Costs]
      PROVE  /\ costs(e) \in Seq(Costs) /\ Len(costs(e)) = L
             /\ \A i \in 1..L : costs(e)[i] = e[ops[i]]
  <2>1. \A i \in 1..L : e[ops[i]] \in Costs
    BY <1>1
  <2> HIDE DEF L, ops
  <2> QED
    BY <1>1, <2>1
<1>4. ASSUME NEW e \in [D -> Costs]
      PROVE  /\ batches(e) \in Seq(Costs) /\ Len(batches(e)) = 2 * L + 1
             /\ \A r \in 1..2 * L + 1 : batches(e)[r] = InBatch(Ranks(m, b), costs(e), r - 1)
  <2>1. \A r : InBatch(Ranks(m, b), costs(e), r) \in Costs
    BY <1>3, SumsAreCosts
  <2>2. 2 * L + 1 \in Nat
    BY <1>1
  <2> HIDE DEF L, costs
  <2> QED
    BY <2>1, <2>2
<1>5. BlockCost(m, b, f) \in Costs
  <2> HIDE DEF batches
  <2> QED
    BY <1>2, <1>4, SumsAreCosts
<1>6. ASSUME NoSlower(m, b, f, g) PROVE BlockCost(m, b, f).latency =< BlockCost(m, b, g).latency
  <2>1. \A i \in 1..L : costs(f)[i].latency =< costs(g)[i].latency
    <3> HIDE DEF costs, L, ops
    <3> QED
      BY <1>1, <1>3, <1>6 DEF NoSlower, ops
  <2>2. \A r : InBatch(Ranks(m, b), costs(f), r).latency =< InBatch(Ranks(m, b), costs(g), r).latency
    <3> HIDE DEF costs, L
    <3> QED
      BY <1>3, <2>1, BatchGrows
  <2>3. \A r \in 1..2 * L + 1 : batches(f)[r].latency =< batches(g)[r].latency
    <3> HIDE DEF costs, batches, L
    <3> QED
      BY <1>4, <2>2
  <2> HIDE DEF batches, L
  <2> QED
    BY <1>2, <1>4, <2>3, SequenceGrows
<1> QED
  BY <1>5, <1>6

\* What an attribute states is a number, and what a control operation costs by
\* itself is one millisecond unless it states something.
LEMMA NumbersRead ==
  ASSUME NEW m, Arena(m), NEW o \in DOMAIN m.op, NEW key, NEW default
  PROVE  /\ ReadInt(m, o, key, default) \in Nat \cup {default}
         /\ key \notin DOMAIN m.op[o].attrs => ReadInt(m, o, key, default) = default
<1>1. \A k \in DOMAIN m.op[o].attrs :
        m.op[o].attrs[k].kind = "int" => m.op[o].attrs[k].value \in Int
  BY DEF Arena, IsModule, IsOp, IntsAreInts
<1> QED
  BY <1>1 DEF ReadInt

LEMMA TargetsAreCosts == ASSUME NEW m, NEW o PROVE Target(m, o) \in Costs
<1>1. Inference \in Costs
  BY CostFields DEF Inference, Costs
<1>2. \A c \in Costs, f \in DOMAIN Zero, n \in Nat : [c EXCEPT ![f] = n] \in Costs
  BY DEF Costs
<1>3. "tool" \in DOMAIN Zero /\ "latency" \in DOMAIN Zero
  BY CostFields
<1>4. \A l \in Nat : [Zero EXCEPT !.latency = l] \in Costs
  BY <1>2, <1>3, ZeroCost
<1>5. \A n, l \in Nat : [[Zero EXCEPT !.tool = n] EXCEPT !.latency = l] \in Costs
  BY <1>2, <1>3, ZeroCost
<1>6. ToolCost = [[Zero EXCEPT !.tool = 1] EXCEPT !.latency = 250]
  BY DEF ToolCost
<1>7. MemoryCost = [[Zero EXCEPT !.tool = 1] EXCEPT !.latency = 20]
  BY DEF MemoryCost
<1>8. BuiltinCost = [Zero EXCEPT !.latency = 1]
  BY DEF BuiltinCost
<1>9. ToolCost \in Costs /\ MemoryCost \in Costs /\ BuiltinCost \in Costs
  <2>1. 1 \in Nat /\ 20 \in Nat /\ 250 \in Nat
    OBVIOUS
  <2> QED
    BY <1>4, <1>5, <1>6, <1>7, <1>8, <2>1, Zenon
<1> QED
  BY <1>1, <1>9 DEF Target

LEMMA OwnCosts ==
  ASSUME NEW m, Arena(m), NEW o \in DOMAIN m.op
  PROVE  /\ OwnCost(m, o) \in Costs
         /\ IsControl(m, o) /\ ~StatesItsCost(m, o) => OwnCost(m, o) = BuiltinCost
<1> DEFINE c == Target(m, o)
           latency == ReadInt(m, o, "est_latency_ms", c.latency)
           input == ReadInt(m, o, "est_input_tokens", c.input)
           output == ReadInt(m, o, "est_output_tokens", c.output)
<1>1. c \in Costs /\ c.latency \in Nat /\ c.input \in Nat /\ c.output \in Nat
  BY TargetsAreCosts, CostFields DEF Costs
<1>2. OwnCost(m, o) = [c EXCEPT !.latency = latency, !.input = input, !.output = output]
  BY DEF OwnCost
<1>3. latency \in Nat /\ input \in Nat /\ output \in Nat
  BY <1>1, NumbersRead
<1>4. ASSUME IsControl(m, o), ~StatesItsCost(m, o)
      PROVE  c = BuiltinCost /\ latency = c.latency /\ input = c.input /\ output = c.output
  <2>1. NameOf(m, o) \in {<<"control", "loop">>, While, If, Parallel}
    BY <1>4 DEF IsControl, Controls, Loops, While
  <2>2. NameOf(m, o)[1] # "memory" /\ NameOf(m, o) # <<"agent", "plan">> /\ NameOf(m, o) \notin Invoked
    BY <2>1 DEF While, If, Parallel, Invoked
  <2>3. c = BuiltinCost
    BY <2>2 DEF Target
  <2>4. /\ "est_latency_ms" \notin DOMAIN m.op[o].attrs /\ "est_input_tokens" \notin DOMAIN m.op[o].attrs
        /\ "est_output_tokens" \notin DOMAIN m.op[o].attrs
    BY <1>4 DEF StatesItsCost
  <2> HIDE DEF c
  <2> QED
    BY <2>3, <2>4, NumbersRead
<1> HIDE DEF c, latency, input, output
<1>5. OwnCost(m, o) \in Costs
  BY <1>1, <1>2, <1>3, CostFields DEF Costs
<1>6. ASSUME latency = c.latency, input = c.input, output = c.output PROVE OwnCost(m, o) = c
  BY <1>1, <1>2, <1>6, CostFields DEF Costs
<1> QED
  BY <1>4, <1>5, <1>6

\* A plan has a cost for every operation and a bound for every loop.
IsPlan(m, p) ==
  /\ p = [bound |-> p.bound, own |-> p.own]
  /\ p.bound \in [LoopsIn(m) -> Nat]
  /\ p.own \in [DOMAIN m.op -> Costs]

LEMMA LoweredIsPlan == ASSUME NEW m, Arena(m) PROVE IsPlan(m, Lowered(m))
<1>1. \A o \in DOMAIN m.op : OwnCost(m, o) \in Costs /\ ReadInt(m, o, "max_iterations", 1) \in Nat
  BY OwnCosts, NumbersRead
<1>2. LoopsIn(m) \subseteq DOMAIN m.op
  BY DEF LoopsIn
<1> QED
  BY <1>1, <1>2 DEF Lowered, IsPlan

\* A planned block is there, and the operation it is planned with is around what
\* is in it.
LEMMA PlannedIsBelow ==
  ASSUME NEW m, Forest(m), RegionsFilled(m), NEW o \in DOMAIN m.op,
         NEW i \in DOMAIN PlannedBlocks(m, o)
  PROVE  LET b == PlannedBlocks(m, o)[i] IN
         /\ b \in DOMAIN m.block /\ m.block[b].ops \in Seq(DOMAIN m.op)
         /\ \A x \in ToSet(m.block[b].ops) : x \in DOMAIN m.op /\ Owner(m, x) = o
<1> DEFINE r == m.op[o].regions[i]
           b == PlannedBlocks(m, o)[i]
<1>1. i \in DOMAIN m.op[o].regions /\ b = m.region[r].blocks[1]
  <2>1. CASE IsControl(m, o)
    BY <2>1 DEF PlannedBlocks
  <2>2. CASE ~IsControl(m, o)
    <3>1. PlannedBlocks(m, o) = <<>>
      BY <2>2 DEF PlannedBlocks
    <3>2. DOMAIN PlannedBlocks(m, o) = {}
      BY <3>1
    <3> QED
      BY <3>2
  <2> QED
    BY <2>1, <2>2
<1>2. r \in DOMAIN m.region /\ m.region[r].owner = o
  BY <1>1 DEF Forest, Arena, ArenaAgrees, RegionsOwned
<1> HIDE DEF r
<1>3. b \in ToSet(m.region[r].blocks)
  <2>1. m.region[r].blocks # <<>> /\ m.region[r].blocks \in Seq(Nat)
    BY <1>2 DEF RegionsFilled, Forest, Arena, IsModule, IsRegion
  <2> QED
    BY <1>1, <2>1 DEF ToSet
<1>4. b \in DOMAIN m.block /\ m.block[b].region = r
  BY <1>2, <1>3 DEF Forest, OwnersAgree, BlocksPlaced
<1> HIDE DEF b
<1>5. ASSUME NEW x \in ToSet(m.block[b].ops) PROVE x \in DOMAIN m.op /\ Owner(m, x) = o
  <2>1. x \in DOMAIN m.op /\ m.op[x].parent = b /\ b # 0
    BY <1>4, ListedOperations DEF Forest
  <2>2. Owner(m, x) = BlockOwner(m, b)
    BY <2>1, BlockOfOwner
  <2> QED
    BY <1>2, <1>4, <2>1, <2>2 DEF BlockOwner
<1>6. m.block[b].ops \in Seq(DOMAIN m.op)
  <2>1. m.block[b].ops \in Seq(Nat)
    BY <1>4, ListedOperations DEF Forest
  <2>2. \A j \in DOMAIN m.block[b].ops : m.block[b].ops[j] \in DOMAIN m.op
    BY <1>5 DEF ToSet
  <2> QED
    BY <2>1, <2>2
<1> QED
  BY <1>4, <1>5, <1>6 DEF b

\* The cost of a control operation's i-th plan, nothing where it has none.
PlannedCost(m, o, i, estimate) ==
  IF i \in DOMAIN PlannedBlocks(m, o) THEN BlockCost(m, PlannedBlocks(m, o)[i], estimate) ELSE Zero

LEMMA SamePlannedCost ==
  ASSUME NEW m, Forest(m), RegionsFilled(m), NEW o \in DOMAIN m.op, NEW i, NEW f, NEW g,
         \A x \in DOMAIN m.op : Owner(m, x) = o => f[x] = g[x]
  PROVE  PlannedCost(m, o, i, f) = PlannedCost(m, o, i, g)
<1> SUFFICES ASSUME i \in DOMAIN PlannedBlocks(m, o)
             PROVE  BlockCost(m, PlannedBlocks(m, o)[i], f) = BlockCost(m, PlannedBlocks(m, o)[i], g)
  BY DEF PlannedCost
<1> DEFINE b == PlannedBlocks(m, o)[i]
<1>1. /\ m.block[b].ops \in Seq(DOMAIN m.op)
      /\ \A x \in ToSet(m.block[b].ops) : x \in DOMAIN m.op /\ Owner(m, x) = o
  BY PlannedIsBelow
<1> HIDE DEF b
<1>2. BlockCost(m, b, f) = BlockCost(m, b, g)
  BY <1>1, SameBlockCost
<1> QED
  BY <1>2 DEF b

LEMMA PlannedCosts ==
  ASSUME NEW m, Forest(m), RegionsFilled(m), NEW o \in DOMAIN m.op, NEW i,
         NEW f \in [DOMAIN m.op -> Costs], NEW g \in [DOMAIN m.op -> Costs]
  PROVE  /\ PlannedCost(m, o, i, f) \in Costs
         /\ (\A x \in DOMAIN m.op : Owner(m, x) = o => NotSlower(f[x], g[x]))
              => NotSlower(PlannedCost(m, o, i, f), PlannedCost(m, o, i, g))
<1>1. CASE i \notin DOMAIN PlannedBlocks(m, o)
  BY <1>1, NothingTakesNoTime DEF PlannedCost, NotSlower
<1>2. CASE i \in DOMAIN PlannedBlocks(m, o)
  <2> DEFINE b == PlannedBlocks(m, o)[i]
  <2>1. /\ m.block[b].ops \in Seq(DOMAIN m.op)
        /\ \A x \in ToSet(m.block[b].ops) : x \in DOMAIN m.op /\ Owner(m, x) = o
    BY <1>2, PlannedIsBelow
  <2>2. PlannedCost(m, o, i, f) = BlockCost(m, b, f) /\ PlannedCost(m, o, i, g) = BlockCost(m, b, g)
    BY <1>2 DEF PlannedCost
  <2> HIDE DEF b
  <2>3. BlockCost(m, b, f) \in Costs
    BY <2>1, BlockCosts
  <2>4. ASSUME \A x \in DOMAIN m.op : Owner(m, x) = o => NotSlower(f[x], g[x])
        PROVE  NotSlower(BlockCost(m, b, f), BlockCost(m, b, g))
    <3>1. NoSlower(m, b, f, g)
      BY <2>1, <2>4 DEF NoSlower, NotSlower
    <3> QED
      BY <2>1, <3>1, BlockCosts DEF NotSlower
  <2> QED
    BY <2>2, <2>3, <2>4
<1> QED
  BY <1>1, <1>2

\* What the plans of a control operation cost, by its name.
NestedCost(m, p, o, estimate) ==
  IF NameOf(m, o) = If THEN Slower(PlannedCost(m, o, 1, estimate), PlannedCost(m, o, 2, estimate))
  ELSE IF NameOf(m, o) = While
       THEN Repeated(Then(PlannedCost(m, o, 1, estimate), PlannedCost(m, o, 2, estimate)), p.bound[o])
  ELSE IF NameOf(m, o) \in Loops THEN Repeated(PlannedCost(m, o, 1, estimate), p.bound[o])
  ELSE IF NameOf(m, o) = Parallel THEN PlannedCost(m, o, 1, estimate)
  ELSE Zero

LEMMA ControlCostIs ==
  ASSUME NEW m, NEW p, NEW o, NEW f
  PROVE  ControlCost(m, p, o, f) = Then(p.own[o], NestedCost(m, p, o, f))
<1> DEFINE one == PlannedCost(m, o, 1, f)
           two == PlannedCost(m, o, 2, f)
           nested == CASE NameOf(m, o) = If -> Slower(one, two)
                       [] NameOf(m, o) = While -> Repeated(Then(one, two), p.bound[o])
                       [] NameOf(m, o) \in Loops \ {While} -> Repeated(one, p.bound[o])
                       [] NameOf(m, o) = Parallel -> one
                       [] OTHER -> Zero
<1>1. ControlCost(m, p, o, f) = Then(p.own[o], nested)
  BY DEF ControlCost, PlannedCost
<1>2. /\ If # While /\ If \notin Loops /\ Parallel \notin Loops /\ If # Parallel
      /\ While \in Loops /\ While # Parallel
  BY DEF If, While, Loops, Parallel
<1> HIDE DEF one, two
<1>3. nested = NestedCost(m, p, o, f)
  BY <1>2 DEF NestedCost, one, two
<1> QED
  BY <1>1, <1>3

LEMMA SameControlCost ==
  ASSUME NEW m, Forest(m), RegionsFilled(m), NEW p, NEW o \in DOMAIN m.op, NEW f, NEW g,
         \A x \in DOMAIN m.op : Owner(m, x) = o => f[x] = g[x]
  PROVE  ControlCost(m, p, o, f) = ControlCost(m, p, o, g)
<1>1. /\ PlannedCost(m, o, 1, f) = PlannedCost(m, o, 1, g)
      /\ PlannedCost(m, o, 2, f) = PlannedCost(m, o, 2, g)
  BY SamePlannedCost
<1>2. NestedCost(m, p, o, f) = NestedCost(m, p, o, g)
  BY <1>1 DEF NestedCost
<1> QED
  BY <1>2, ControlCostIs

LEMMA NestedCosts ==
  ASSUME NEW m, Forest(m), RegionsFilled(m), NEW p, NEW q, IsPlan(m, p), IsPlan(m, q),
         NEW o \in DOMAIN m.op,
         NEW f \in [DOMAIN m.op -> Costs], NEW g \in [DOMAIN m.op -> Costs]
  PROVE  /\ NestedCost(m, p, o, f) \in Costs
         /\ (/\ \A l \in LoopsIn(m) : p.bound[l] =< q.bound[l]
             /\ \A x \in DOMAIN m.op : Owner(m, x) = o => NotSlower(f[x], g[x]))
              => NotSlower(NestedCost(m, p, o, f), NestedCost(m, q, o, g))
<1> DEFINE a == PlannedCost(m, o, 1, f)
           b == PlannedCost(m, o, 2, f)
           c == PlannedCost(m, o, 1, g)
           d == PlannedCost(m, o, 2, g)
<1>1. a \in Costs /\ b \in Costs /\ c \in Costs /\ d \in Costs
  BY PlannedCosts
<1>2. NameOf(m, o) \in Loops => p.bound[o] \in Nat /\ q.bound[o] \in Nat /\ o \in LoopsIn(m)
  BY DEF IsPlan, LoopsIn
<1>3. While \in Loops
  BY DEF While, Loops
<1>4. NestedCost(m, p, o, f) \in Costs
  <2> HIDE DEF a, b
  <2>1. Then(a, b) \in Costs /\ Slower(a, b) \in Costs /\ Zero \in Costs
    BY <1>1, CostArithmetic
  <2>2. NameOf(m, o) \in Loops =>
          Repeated(Then(a, b), p.bound[o]) \in Costs /\ Repeated(a, p.bound[o]) \in Costs
    BY <1>1, <1>2, <2>1, CostArithmetic
  <2> QED
    BY <1>1, <1>3, <2>1, <2>2 DEF NestedCost, a, b
<1>5. ASSUME \A l \in LoopsIn(m) : p.bound[l] =< q.bound[l],
             \A x \in DOMAIN m.op : Owner(m, x) = o => NotSlower(f[x], g[x])
      PROVE  NotSlower(NestedCost(m, p, o, f), NestedCost(m, q, o, g))
  <2>1. NotSlower(a, c) /\ NotSlower(b, d)
    BY <1>5, PlannedCosts
  <2> HIDE DEF a, b, c, d
  <2>2. /\ NotSlower(Slower(a, b), Slower(c, d)) /\ NotSlower(Then(a, b), Then(c, d))
        /\ Then(a, b) \in Costs /\ Then(c, d) \in Costs
    BY <1>1, <2>1, Slowing, CostArithmetic
  <2>3. NameOf(m, o) \in Loops =>
          /\ NotSlower(Repeated(Then(a, b), p.bound[o]), Repeated(Then(c, d), q.bound[o]))
          /\ NotSlower(Repeated(a, p.bound[o]), Repeated(c, q.bound[o]))
    BY <1>1, <1>2, <1>5, <2>1, <2>2, RepeatingSlows
  <2>4. NotSlower(Zero, Zero)
    BY NothingTakesNoTime DEF NotSlower
  <2> QED
    BY <1>3, <2>1, <2>2, <2>3, <2>4 DEF NestedCost, a, b, c, d
<1> QED
  BY <1>4, <1>5

\* Estimates: what an operation costs with its regions, from what is in them.
LEMMA EstimatesAre ==
  ASSUME NEW m, Forest(m), RegionsFilled(m), NEW p, IsPlan(m, p)
  PROVE  /\ Estimates(m, p) \in [DOMAIN m.op -> Costs]
         /\ \A o \in DOMAIN m.op :
              Estimates(m, p)[o] = Then(p.own[o], NestedCost(m, p, o, Estimates(m, p)))
<1> DEFINE D == DOMAIN m.op
           step == [x \in D \X [D -> Costs] |-> ControlCost(m, p, x[1], x[2])]
           estimate == CHOOSE f : f = [o \in D |-> ControlCost(m, p, o, f)]
<1>1. PICK N, rank : Ranked(m, N, rank)
  BY DEF Forest, Nested
<1> DEFINE depth == [o \in D |-> N - rank[o]]
<1>2. /\ N \in Nat /\ rank \in [D -> 0..N]
      /\ \A x \in D : Owner(m, x) # 0 => Owner(m, x) \in D /\ rank[Owner(m, x)] < rank[x]
  BY <1>1 DEF Ranked
<1>3. /\ depth \in [D -> 0..N]
      /\ \A o, x \in D : Owner(m, x) = o => depth[x] < depth[o]
  <2>1. 0 \notin D
    BY ArenaShape DEF Forest, Arena
  <2> HIDE DEF D
  <2> QED
    BY <1>2, <2>1
<1>4. ASSUME NEW o \in D, NEW f \in [D -> Costs] PROVE ControlCost(m, p, o, f) \in Costs
  <2>1. NestedCost(m, p, o, f) \in Costs /\ p.own[o] \in Costs
    BY NestedCosts DEF IsPlan
  <2> QED
    BY <2>1, ControlCostIs, CostArithmetic
<1>5. step \in [D \X [D -> Costs] -> Costs]
  <2> HIDE DEF D
  <2> QED
    BY <1>4
<1>6. Recursive(D, Costs, N, depth, step)
  <2>1. ASSUME NEW o \in D, NEW f \in [D -> Costs], NEW g \in [D -> Costs],
               \A x \in D : depth[x] < depth[o] => f[x] = g[x]
        PROVE  step[<<o, f>>] = step[<<o, g>>]
    <3>1. \A x \in D : Owner(m, x) = o => f[x] = g[x]
      <4> HIDE DEF depth
      <4> QED
        BY <1>3, <2>1
    <3>2. ControlCost(m, p, o, f) = ControlCost(m, p, o, g)
      BY <3>1, SameControlCost
    <3> HIDE DEF D
    <3> QED
      BY <3>2
  <2>2. Costs # {}
    BY CostArithmetic
  <2> HIDE DEF D, step, depth
  <2> QED
    BY <1>2, <1>3, <1>5, <2>1, <2>2 DEF Recursive
<1>7. PICK f \in [D -> Costs] : \A o \in D : f[o] = step[<<o, f>>]
  <2> HIDE DEF D, step, depth
  <2> QED
    BY <1>6, Recursion
<1>8. f = [o \in D |-> ControlCost(m, p, o, f)]
  <2>1. \A o \in D : step[<<o, f>>] = ControlCost(m, p, o, f)
    <3> HIDE DEF D
    <3> QED
      OBVIOUS
  <2> HIDE DEF D, step
  <2> QED
    BY <1>7, <2>1
<1>9. estimate = [o \in D |-> ControlCost(m, p, o, estimate)]
  <2> HIDE DEF D
  <2> QED
    BY <1>8, Zenon
<1>10. Estimates(m, p) = estimate
  BY DEF Estimates
<1> HIDE DEF estimate
<1>11. DOMAIN estimate = D /\ \A o \in D : estimate[o] = ControlCost(m, p, o, estimate)
  <2> HIDE DEF D
  <2> QED
    BY <1>9
<1>12. D \subseteq {o \in D : estimate[o] = f[o]}
  <2> DEFINE Good == {o \in D : estimate[o] = f[o]}
  <2>1. ASSUME NEW o \in D, \A x \in D : depth[x] < depth[o] => x \in Good
        PROVE  o \in Good
    <3>1. \A x \in D : Owner(m, x) = o => estimate[x] = f[x]
      <4> HIDE DEF depth
      <4> QED
        BY <1>3, <2>1
    <3>2. ControlCost(m, p, o, estimate) = ControlCost(m, p, o, f)
      BY <3>1, SameControlCost
    <3>3. f[o] = ControlCost(m, p, o, f)
      <4> HIDE DEF D
      <4> QED
        BY <1>8
    <3> QED
      BY <1>11, <3>2, <3>3
  <2>2. depth \in [D -> Nat]
    BY <1>3
  <2> HIDE DEF D, depth, Good
  <2>3. D \subseteq Good
    BY <2>1, <2>2, RankInduction
  <2> QED
    BY <2>3 DEF Good
<1>13. estimate = f
  <2> HIDE DEF D
  <2> QED
    BY <1>9, <1>11, <1>12
<1>14. estimate \in [D -> Costs]
  BY <1>13
<1>15. \A o \in D : estimate[o] = Then(p.own[o], NestedCost(m, p, o, estimate))
  BY <1>11, ControlCostIs
<1> QED
  BY <1>10, <1>14, <1>15

\* Where nothing is dearer and no bound is larger, no operation takes longer.
LEMMA EstimatesGrow ==
  ASSUME NEW m, Forest(m), RegionsFilled(m), NEW p, NEW q, IsPlan(m, p), IsPlan(m, q),
         \A o \in LoopsIn(m) : p.bound[o] =< q.bound[o],
         \A o \in DOMAIN m.op : NotSlower(p.own[o], q.own[o])
  PROVE  \A o \in DOMAIN m.op : NotSlower(Estimates(m, p)[o], Estimates(m, q)[o])
<1> DEFINE D == DOMAIN m.op
           e == Estimates(m, p)
           f == Estimates(m, q)
           Good == {o \in D : NotSlower(e[o], f[o])}
<1>1. PICK N, rank : Ranked(m, N, rank)
  BY DEF Forest, Nested
<1> DEFINE depth == [o \in D |-> N - rank[o]]
<1>2. /\ N \in Nat /\ rank \in [D -> 0..N]
      /\ \A x \in D : Owner(m, x) # 0 => Owner(m, x) \in D /\ rank[Owner(m, x)] < rank[x]
  BY <1>1 DEF Ranked
<1>3. /\ depth \in [D -> Nat]
      /\ \A o, x \in D : Owner(m, x) = o => depth[x] < depth[o]
  <2>1. 0 \notin D
    BY ArenaShape DEF Forest, Arena
  <2> HIDE DEF D
  <2> QED
    BY <1>2, <2>1
<1>4. /\ e \in [D -> Costs] /\ f \in [D -> Costs]
      /\ \A o \in D : /\ e[o] = Then(p.own[o], NestedCost(m, p, o, e))
                      /\ f[o] = Then(q.own[o], NestedCost(m, q, o, f))
  BY EstimatesAre
<1> HIDE DEF e, f
<1>5. ASSUME NEW o \in D, \A x \in D : depth[x] < depth[o] => x \in Good
      PROVE  o \in Good
  <2>1. \A x \in D : Owner(m, x) = o => NotSlower(e[x], f[x])
    <3> HIDE DEF depth
    <3> QED
      BY <1>3, <1>5
  <2>2. /\ NotSlower(NestedCost(m, p, o, e), NestedCost(m, q, o, f))
        /\ NestedCost(m, p, o, e) \in Costs /\ NestedCost(m, q, o, f) \in Costs
    BY <1>4, <2>1, NestedCosts
  <2>3. p.own[o] \in Costs /\ q.own[o] \in Costs /\ NotSlower(p.own[o], q.own[o])
    BY DEF IsPlan
  <2>4. NotSlower(Then(p.own[o], NestedCost(m, p, o, e)), Then(q.own[o], NestedCost(m, q, o, f)))
    BY <2>2, <2>3, Slowing
  <2> QED
    BY <1>4, <2>4
<1>6. D \subseteq Good
  <2> HIDE DEF D, depth, Good
  <2> QED
    BY <1>3, <1>5, RankInduction
<1> QED
  BY <1>6 DEF e, f

LEMMA TakingTime ==
  ASSUME NEW a \in Costs, NEW b \in Costs
  PROVE  /\ a.latency \in Nat /\ Then(a, b).latency \in Nat
         /\ a.latency =< Then(a, b).latency
<1>1. a.latency \in Nat /\ b.latency \in Nat /\ Then(a, b).latency = a.latency + b.latency
  BY CostArithmetic
<1> QED
  BY <1>1

\* What halving makes of a step's own cost.
LEMMA MinOfTwo == ASSUME NEW n \in Nat PROVE Min({n, 1}) = IF n = 0 THEN 0 ELSE 1
<1>1. CASE n = 0
  <2>1. \A x \in {n, 1} : (\A y \in {n, 1} : x =< y) <=> x = 0
    BY <1>1
  <2> QED
    BY <1>1, <2>1 DEF Min
<1>2. CASE n # 0
  <2>1. \A x \in {n, 1} : (\A y \in {n, 1} : x =< y) <=> x = 1
    BY <1>2
  <2> QED
    BY <1>2, <2>1 DEF Min
<1> QED
  BY <1>1, <1>2

LEMMA Rebuilt ==
  ASSUME NEW n \in Nat
  PROVE  /\ [Zero EXCEPT !.latency = n] \in Costs
         /\ [Zero EXCEPT !.latency = n].latency = n
BY NothingTakesNoTime, CostFields DEF Costs

LEMMA HalvedIs ==
  ASSUME NEW m, Forest(m), RegionsFilled(m), NEW p, IsPlan(m, p), NEW b
  PROVE  /\ IsPlan(m, Halved(m, p, b))
         /\ \A o \in LoopsIn(m) :
              Halved(m, p, b).bound[o]
                = IF o \in Reducible(m, p, b) THEN p.bound[o] \div 2 ELSE p.bound[o]
         /\ \A o \in DOMAIN m.op :
              Halved(m, p, b).own[o]
                = IF o \in Reached(m, b)
                  THEN [Zero EXCEPT !.latency = IF Estimates(m, p)[o].latency = 0 THEN 0 ELSE 1]
                  ELSE p.own[o]
<1> DEFINE h == Halved(m, p, b)
           bound(o) == IF o \in Reducible(m, p, b) THEN p.bound[o] \div 2 ELSE p.bound[o]
           rebuilt(o) == [Zero EXCEPT !.latency = Min({Estimates(m, p)[o].latency, 1})]
           own(o) == IF o \in Reached(m, b) THEN rebuilt(o) ELSE p.own[o]
<1>1. h = [bound |-> [o \in LoopsIn(m) |-> bound(o)], own |-> [o \in DOMAIN m.op |-> own(o)]]
  <2>1. DOMAIN p.bound = LoopsIn(m) /\ DOMAIN p.own = DOMAIN m.op
    BY DEF IsPlan
  <2> QED
    BY <2>1 DEF Halved
<1>2. \A o \in LoopsIn(m) : bound(o) \in Nat
  BY DEF IsPlan
<1>3. ASSUME NEW o \in DOMAIN m.op
      PROVE  /\ rebuilt(o) = [Zero EXCEPT !.latency = IF Estimates(m, p)[o].latency = 0 THEN 0 ELSE 1]
             /\ rebuilt(o) \in Costs /\ p.own[o] \in Costs
  <2>1. Estimates(m, p)[o].latency \in Nat
    <3>1. Estimates(m, p)[o] \in Costs
      BY EstimatesAre
    <3> QED
      BY <3>1, TakingTime
  <2>2. Min({Estimates(m, p)[o].latency, 1}) = IF Estimates(m, p)[o].latency = 0 THEN 0 ELSE 1
    BY <2>1, MinOfTwo
  <2>3. Min({Estimates(m, p)[o].latency, 1}) \in Nat
    BY <2>2
  <2>4. rebuilt(o) \in Costs
    BY <2>3, Rebuilt
  <2> QED
    BY <2>2, <2>4 DEF IsPlan
<1>4. \A o \in DOMAIN m.op : own(o) \in Costs
  BY <1>3
<1>5. h.bound = [o \in LoopsIn(m) |-> bound(o)] /\ h.own = [o \in DOMAIN m.op |-> own(o)]
  BY <1>1
<1>6. IsPlan(m, h)
  <2> HIDE DEF bound, own
  <2>1. h = [bound |-> h.bound, own |-> h.own]
    BY <1>1, <1>5
  <2>2. h.bound \in [LoopsIn(m) -> Nat] /\ h.own \in [DOMAIN m.op -> Costs]
    <3> HIDE DEF h
    <3> QED
      BY <1>2, <1>4, <1>5
  <2> HIDE DEF h
  <2> QED
    BY <2>1, <2>2 DEF IsPlan
<1>7. \A o \in LoopsIn(m) : h.bound[o] = bound(o)
  BY <1>5
<1>8. \A o \in DOMAIN m.op :
        h.own[o] = IF o \in Reached(m, b)
                   THEN [Zero EXCEPT !.latency = IF Estimates(m, p)[o].latency = 0 THEN 0 ELSE 1]
                   ELSE p.own[o]
  <2> HIDE DEF rebuilt, h
  <2> QED
    BY <1>3, <1>5
<1> QED
  BY <1>6, <1>7, <1>8

\* The costs of a plan that is degraded: the control operations of which take time,
\* or state nothing of what they cost.
TakeTime(m, b) == \A o \in Steps(m, b) : IsControl(m, o) => TakesTime(m, o)
StateNothing(m, b) == \A o \in Steps(m, b) : IsControl(m, o) => ~StatesItsCost(m, o)
KeepTakingTime(m, p, b) == \A o \in Reached(m, b) : p.own[o].latency >= 1

LEMMA ReachedAre ==
  ASSUME NEW m, NEW b, NEW o \in Reached(m, b)
  PROVE  o \in DOMAIN m.op /\ o \in Steps(m, b) /\ IsControl(m, o)
BY DEF Reached, Steps, Live

LEMMA EstimateHoldsOwn ==
  ASSUME NEW m, Forest(m), RegionsFilled(m), NEW p, IsPlan(m, p), NEW o \in DOMAIN m.op
  PROVE  /\ p.own[o].latency \in Nat /\ Estimates(m, p)[o].latency \in Nat
         /\ p.own[o].latency =< Estimates(m, p)[o].latency
<1>1. /\ Estimates(m, p) \in [DOMAIN m.op -> Costs]
      /\ Estimates(m, p)[o] = Then(p.own[o], NestedCost(m, p, o, Estimates(m, p)))
  BY EstimatesAre
<1>2. NestedCost(m, p, o, Estimates(m, p)) \in Costs /\ p.own[o] \in Costs
  BY <1>1, NestedCosts DEF IsPlan
<1> QED
  BY <1>1, <1>2, TakingTime

LEMMA LoweredTakesTime ==
  ASSUME NEW m, Arena(m), NEW b, TakeTime(m, b)
  PROVE  KeepTakingTime(m, Lowered(m), b)
<1>1. ASSUME NEW o \in Reached(m, b) PROVE Lowered(m).own[o].latency >= 1
  <2>1. o \in DOMAIN m.op /\ OwnCost(m, o).latency > 0
    BY <1>1, ReachedAre DEF TakeTime, TakesTime
  <2>2. OwnCost(m, o).latency \in Nat
    BY <2>1, OwnCosts, CostArithmetic
  <2>3. Lowered(m).own[o] = OwnCost(m, o)
    BY <2>1 DEF Lowered
  <2> QED
    BY <2>1, <2>2, <2>3
<1> QED
  BY <1>1 DEF KeepTakingTime

\* Halving keeps the time its control operations take, and makes nothing slower.
LEMMA HalvingKeepsTime ==
  ASSUME NEW m, Forest(m), RegionsFilled(m), NEW p, IsPlan(m, p), NEW b, KeepTakingTime(m, p, b)
  PROVE  /\ KeepTakingTime(m, Halved(m, p, b), b)
         /\ \A o \in LoopsIn(m) : Halved(m, p, b).bound[o] =< p.bound[o]
         /\ \A o \in DOMAIN m.op : NotSlower(Halved(m, p, b).own[o], p.own[o])
<1> DEFINE h == Halved(m, p, b)
<1>1. ASSUME NEW o \in Reached(m, b)
      PROVE  o \in DOMAIN m.op /\ h.own[o].latency = 1 /\ p.own[o].latency \in Nat /\ p.own[o].latency >= 1
  <2>1. o \in DOMAIN m.op
    BY ReachedAre
  <2>2. /\ p.own[o].latency \in Nat /\ Estimates(m, p)[o].latency \in Nat
        /\ p.own[o].latency =< Estimates(m, p)[o].latency /\ p.own[o].latency >= 1
    BY <2>1, EstimateHoldsOwn DEF KeepTakingTime
  <2>3. h.own[o] = [Zero EXCEPT !.latency = IF Estimates(m, p)[o].latency = 0 THEN 0 ELSE 1]
    BY <2>1, HalvedIs
  <2>4. h.own[o] = [Zero EXCEPT !.latency = 1]
    BY <2>2, <2>3
  <2> QED
    BY <2>1, <2>2, <2>4, Rebuilt
<1>2. ASSUME NEW o \in DOMAIN m.op PROVE NotSlower(h.own[o], p.own[o])
  <2>1. CASE o \in Reached(m, b)
    BY <1>1, <2>1 DEF NotSlower
  <2>2. CASE o \notin Reached(m, b)
    <3>1. h.own[o] = IF o \in Reached(m, b)
                     THEN [Zero EXCEPT !.latency = IF Estimates(m, p)[o].latency = 0 THEN 0 ELSE 1]
                     ELSE p.own[o]
      BY HalvedIs
    <3>2. p.own[o].latency \in Nat
      BY EstimateHoldsOwn
    <3> QED
      BY <2>2, <3>1, <3>2 DEF NotSlower
  <2> QED
    BY <2>1, <2>2
<1>3. ASSUME NEW o \in LoopsIn(m) PROVE h.bound[o] =< p.bound[o]
  <2>1. p.bound[o] \in Nat
    BY DEF IsPlan
  <2>2. h.bound[o] = IF o \in Reducible(m, p, b) THEN p.bound[o] \div 2 ELSE p.bound[o]
    BY HalvedIs
  <2> HIDE DEF h
  <2> QED
    BY <2>1, <2>2
<1> QED
  BY <1>1, <1>2, <1>3 DEF KeepTakingTime

LEMMA HalvingIsNoSlower ==
  ASSUME NEW m, Forest(m), RegionsFilled(m), NEW b \in DOMAIN m.block,
         NEW p, IsPlan(m, p), KeepTakingTime(m, p, b)
  PROVE  PlanCost(m, Halved(m, p, b), b).latency =< PlanCost(m, p, b).latency
<1> DEFINE h == Halved(m, p, b)
           e == Estimates(m, h)
           f == Estimates(m, p)
           D == DOMAIN m.op
<1>1. IsPlan(m, h)
  BY HalvedIs
<1>2. /\ \A o \in LoopsIn(m) : h.bound[o] =< p.bound[o]
      /\ \A o \in D : NotSlower(h.own[o], p.own[o])
  BY HalvingKeepsTime
<1> HIDE DEF h
<1>3. \A o \in D : NotSlower(e[o], f[o])
  BY <1>1, <1>2, EstimatesGrow
<1>4. e \in [D -> Costs] /\ f \in [D -> Costs]
  BY <1>1, EstimatesAre
<1>5. m.block[b].ops \in Seq(D) /\ \A x \in ToSet(m.block[b].ops) : x \in D
  <2>1. m.block[b].ops \in Seq(Nat) /\ \A x \in ToSet(m.block[b].ops) : x \in D
    BY ListedOperations DEF Forest
  <2>2. \A j \in DOMAIN m.block[b].ops : m.block[b].ops[j] \in D
    BY <2>1 DEF ToSet
  <2> QED
    BY <2>1, <2>2
<1> HIDE DEF e, f, D
<1>6. NoSlower(m, b, e, f)
  BY <1>3, <1>5 DEF NoSlower, NotSlower
<1>7. BlockCost(m, b, e).latency =< BlockCost(m, b, f).latency
  BY <1>4, <1>5, <1>6, BlockCosts
<1> QED
  BY <1>7 DEF PlanCost, e, f, h

\* Halving a plan of which no control operation states its cost gives each of them
\* the cost it had.
LEMMA HalvingKeepsCosts ==
  ASSUME NEW m, Forest(m), RegionsFilled(m), NEW b, StateNothing(m, b),
         NEW p, IsPlan(m, p), p.own = Lowered(m).own
  PROVE  Halved(m, p, b).own = p.own
<1> DEFINE h == Halved(m, p, b)
<1>1. IsPlan(m, h)
  BY HalvedIs
<1>2. ASSUME NEW o \in DOMAIN m.op, o \in Reached(m, b) PROVE h.own[o] = p.own[o]
  <2>1. IsControl(m, o) /\ ~StatesItsCost(m, o)
    BY <1>2, ReachedAre DEF StateNothing
  <2>2. p.own[o] = BuiltinCost
    <3>1. OwnCost(m, o) = BuiltinCost
      BY <2>1, OwnCosts DEF Forest
    <3> QED
      BY <3>1 DEF Lowered
  <2>3. BuiltinCost.latency = 1
    BY Rebuilt DEF BuiltinCost
  <2>4. Estimates(m, p)[o].latency \in Nat /\ Estimates(m, p)[o].latency >= 1
    BY <2>2, <2>3, EstimateHoldsOwn
  <2>5. h.own[o] = IF o \in Reached(m, b)
                   THEN [Zero EXCEPT !.latency = IF Estimates(m, p)[o].latency = 0 THEN 0 ELSE 1]
                   ELSE p.own[o]
    BY HalvedIs
  <2>6. h.own[o] = [Zero EXCEPT !.latency = 1]
    BY <1>2, <2>4, <2>5
  <2> QED
    BY <2>2, <2>6 DEF BuiltinCost
<1>3. ASSUME NEW o \in DOMAIN m.op, o \notin Reached(m, b) PROVE h.own[o] = p.own[o]
  <2>1. h.own[o] = IF o \in Reached(m, b)
                   THEN [Zero EXCEPT !.latency = IF Estimates(m, p)[o].latency = 0 THEN 0 ELSE 1]
                   ELSE p.own[o]
    BY HalvedIs
  <2> QED
    BY <1>3, <2>1
<1>4. h.own \in [DOMAIN m.op -> Costs] /\ p.own \in [DOMAIN m.op -> Costs]
  BY <1>1 DEF IsPlan
<1> HIDE DEF h
<1> QED
  BY <1>2, <1>3, <1>4 DEF h

\* Halving a plan that has nothing to halve leaves its bounds.
LEMMA HalvingNothing ==
  ASSUME NEW m, Forest(m), RegionsFilled(m), NEW b, NEW p, IsPlan(m, p), Reducible(m, p, b) = {}
  PROVE  Halved(m, p, b).bound = p.bound
<1>1. /\ Halved(m, p, b).bound \in [LoopsIn(m) -> Nat] /\ p.bound \in [LoopsIn(m) -> Nat]
  BY HalvedIs DEF IsPlan
<1>2. \A o \in LoopsIn(m) :
        Halved(m, p, b).bound[o] = IF o \in Reducible(m, p, b) THEN p.bound[o] \div 2 ELSE p.bound[o]
  BY HalvedIs
<1> QED
  BY <1>1, <1>2

\* What is known of the costs of a plan and of its estimate, until a plan that is
\* given up has its costs rebuilt.
Estimated(m, b, p, e, s) ==
  /\ IsPlan(m, p)
  /\ s = "degrading" => e = PlanCost(m, p, b)
  /\ TakeTime(m, b) => KeepTakingTime(m, p, b)
  /\ StateNothing(m, b) => p.own = Lowered(m).own /\ e = PlanCost(m, p, b)
CostInv == stage \in {"degrading", "planned"} => Estimated(ir, entry, plan, estimated, stage)

LEMMA HalvedEstimate ==
  ASSUME NEW m, Forest(m), RegionsFilled(m), NEW b, NEW p, NEW e, NEW s, Estimated(m, b, p, e, s)
  PROVE  /\ Estimated(m, b, Halved(m, p, b), PlanCost(m, Halved(m, p, b), b), "degrading")
         /\ Reducible(m, p, b) = {} => Estimated(m, b, Halved(m, p, b), e, "planned")
<1> DEFINE h == Halved(m, p, b)
<1>1. IsPlan(m, p) /\ IsPlan(m, h)
  BY HalvedIs DEF Estimated
<1>2. TakeTime(m, b) => KeepTakingTime(m, h, b)
  BY <1>1, HalvingKeepsTime DEF Estimated
<1>3. StateNothing(m, b) => h.own = Lowered(m).own /\ p.own = Lowered(m).own /\ e = PlanCost(m, p, b)
  BY <1>1, HalvingKeepsCosts DEF Estimated
<1>4. ASSUME StateNothing(m, b), Reducible(m, p, b) = {} PROVE h = p
  <2>1. h.bound = p.bound /\ h.own = p.own
    BY <1>1, <1>3, <1>4, HalvingNothing
  <2> HIDE DEF h
  <2> QED
    BY <1>1, <2>1 DEF IsPlan
<1> HIDE DEF h
<1>5. Estimated(m, b, h, PlanCost(m, h, b), "degrading")
  BY <1>1, <1>2, <1>3 DEF Estimated
<1>6. Reducible(m, p, b) = {} => Estimated(m, b, h, e, "planned")
  BY <1>1, <1>2, <1>3, <1>4 DEF Estimated
<1> QED
  BY <1>5, <1>6 DEF h

LEMMA LoweredEstimate ==
  ASSUME NEW m, Arena(m), NEW b
  PROVE  Estimated(m, b, Lowered(m), PlanCost(m, Lowered(m), b), "degrading")
BY LoweredIsPlan, LoweredTakesTime DEF Estimated

LEMMA CostInvInit == Init => CostInv
BY DEF Init, CostInv

LEMMA CostInvStep == VerifiedInv /\ CostInv /\ [Next]_vars => CostInv'
<1> SUFFICES ASSUME VerifiedInv, CostInv, [Next]_vars PROVE CostInv'
  OBVIOUS
<1>1. stage \in Verified => Forest(ir) /\ RegionsFilled(ir)
  BY ScheduledForest
<1>2. CASE Lower
  <2>1. stage = "scheduling" /\ ir' = ir
    BY <1>2 DEF Lower, passesVars
  <2>2. \/ stage' = "unscheduled"
        \/ /\ stage' = "degrading" /\ plan' = Lowered(ir)
           /\ estimated' = PlanCost(ir, plan', entry')
    BY <1>2 DEF Lower
  <2>3. Estimated(ir, entry', Lowered(ir), PlanCost(ir, Lowered(ir), entry'), "degrading")
    BY <1>1, <2>1, LoweredEstimate DEF Verified, Forest
  <2> QED
    BY <2>1, <2>2, <2>3 DEF CostInv
<1>3. CASE Degrade
  <2>1. /\ stage = "degrading" /\ stage' = stage /\ ir' = ir /\ entry' = entry
        /\ plan' = Halved(ir, plan, entry) /\ estimated' = PlanCost(ir, plan', entry)
    BY <1>3 DEF Degrade, passesVars
  <2>2. Estimated(ir, entry, plan', estimated', "degrading")
    BY <1>1, <2>1, HalvedEstimate DEF Verified, CostInv
  <2> QED
    BY <2>1, <2>2 DEF CostInv
<1>4. CASE GiveUp
  <2>1. /\ stage = "degrading" /\ stage' = "planned" /\ ir' = ir /\ entry' = entry
        /\ plan' = Halved(ir, plan, entry) /\ estimated' = estimated
        /\ Reducible(ir, plan, entry) = {}
    BY <1>4 DEF GiveUp, passesVars
  <2>2. Estimated(ir, entry, plan', estimated, "planned")
    BY <1>1, <2>1, HalvedEstimate DEF Verified, CostInv
  <2> QED
    BY <2>1, <2>2 DEF CostInv
<1>5. CASE Plan
  <2>1. /\ stage = "degrading" /\ stage' = "planned" /\ ir' = ir /\ entry' = entry
        /\ plan' = plan /\ estimated' = estimated
    BY <1>5 DEF Plan, passesVars
  <2>2. Estimated(ir, entry, plan, estimated, "planned")
    BY <2>1 DEF CostInv, Estimated
  <2> QED
    BY <2>1, <2>2 DEF CostInv
<1>6. CASE Ended \/ UNCHANGED vars
  BY <1>6 DEF Ended, vars, passesVars, planVars, CostInv
<1>7. CASE Parse \/ Reject \/ Accept \/ Optimize \/ Optimized \/ AcceptAgain
  <2>1. stage' \notin {"degrading", "planned"}
    BY <1>7 DEF Parse, Reject, Accept, Optimize, Optimized, AcceptAgain
  <2> QED
    BY <2>1 DEF CostInv
<1> QED
  BY <1>2, <1>3, <1>4, <1>5, <1>6, <1>7 DEF Next

\* Of every program and with whatever number of halvings: the estimate of a plan is
\* what the program would cost if it were written with the plan's bounds, unless a
\* control operation states what it costs.
THEOREM EstimatesAreFresh == Spec => []EstimateIsFresh
<1>1. CostInv => EstimateIsFresh
  <2> SUFFICES ASSUME stage \in {"degrading", "planned"}, StateNothing(ir, entry),
                      Estimated(ir, entry, plan, estimated, stage)
               PROVE  estimated = PlanCost(ir, [plan EXCEPT !.own = Lowered(ir).own], entry)
    BY DEF CostInv, EstimateIsFresh, StateNothing
  <2>1. /\ plan = [bound |-> plan.bound, own |-> plan.own] /\ plan.own = Lowered(ir).own
        /\ estimated = PlanCost(ir, plan, entry)
    BY DEF Estimated, IsPlan
  <2>2. [plan EXCEPT !.own = Lowered(ir).own] = plan
    BY <2>1
  <2> QED
    BY <2>1, <2>2
<1>2. VerifiedInv /\ CostInv /\ [Next]_vars => (VerifiedInv /\ CostInv)'
  BY VerifiedInvStep, CostInvStep
<1> QED
  BY <1>1, <1>2, VerifiedInvInit, CostInvInit, PTL DEF Spec

\* So does no halving ever make a plan slower, when its control operations take
\* time.
LEMMA HalvingsOnlyDegrade ==
  BoundsInv /\ [Next]_vars /\ halvings' > halvings => Degrade
BY DEF BoundsInv, Next, Parse, Reject, Accept, Optimize, Optimized, AcceptAgain, Lower, GiveUp,
   Plan, Ended, vars, planVars

THEOREM DegradingNeverSlower == Spec => DegradingIsFaster
<1>1. VerifiedInv /\ BoundsInv /\ EntryInv /\ CostInv /\ [Next]_vars
        => [/\ \A o \in Steps(ir, entry) : IsControl(ir, o) => TakesTime(ir, o)
            /\ halvings' > halvings
            => estimated'.latency =< estimated.latency]_vars
  <2> SUFFICES ASSUME VerifiedInv, BoundsInv, EntryInv, CostInv, [Next]_vars,
                      TakeTime(ir, entry), halvings' > halvings
               PROVE  estimated'.latency =< estimated.latency
    BY DEF TakeTime
  <2>1. Degrade
    BY HalvingsOnlyDegrade
  <2>2. stage = "degrading" /\ estimated' = PlanCost(ir, Halved(ir, plan, entry), entry)
    BY <2>1 DEF Degrade
  <2>3. Estimated(ir, entry, plan, estimated, "degrading")
    BY <2>2 DEF CostInv
  <2>4. Forest(ir) /\ RegionsFilled(ir) /\ Accepts(ir)
    BY <2>2, ScheduledForest DEF Verified
  <2>5. entry \in DOMAIN ir.block
    <3>1. PICK f : IsScheduled(ir, f, entry)
      BY <2>2 DEF EntryInv, IsScheduled, EntryOf
    <3> QED
      BY <2>4, <3>1, OneRegion
  <2>6. /\ IsPlan(ir, plan) /\ KeepTakingTime(ir, plan, entry)
        /\ estimated = PlanCost(ir, plan, entry)
    BY <2>3 DEF Estimated
  <2> QED
    BY <2>2, <2>4, <2>5, <2>6, HalvingIsNoSlower
<1>2. VerifiedInv /\ BoundsInv /\ EntryInv /\ CostInv /\ [Next]_vars
        => (VerifiedInv /\ BoundsInv /\ EntryInv /\ CostInv)'
  BY VerifiedInvStep, BoundsInvStep, EntryInvStep, CostInvStep
<1>3. Init => VerifiedInv /\ BoundsInv /\ EntryInv /\ CostInv
  BY VerifiedInvInit, BoundsInvInit, CostInvInit DEF Init, EntryInv
<1> QED
  BY <1>1, <1>2, <1>3, PTL DEF Spec, DegradingIsFaster
=============================================================================
