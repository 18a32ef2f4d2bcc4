------------------------------ MODULE Compiler ------------------------------
(***************************************************************************)
(* The path from a text to an execution plan (crates/agent-ir lib.rs:      *)
(* compile, compile_optimized, compile_and_schedule): parse, verify,       *)
(* optimize, verify again, lower one function, shorten its loops until it  *)
(* fits its budget.                                                        *)
(***************************************************************************)
EXTENDS Passes, Syntax, Budget

CONSTANT Sources   \* what may be compiled: [text, capabilities, approved]

VARIABLES
  source,
  stage,      \* the phase that comes next, or the outcome
  entry,      \* the entry block of the function being scheduled
  plan,       \* its plan, as Budget has it
  estimated,  \* ExecutionPlan::estimated
  halvings,   \* degradations so far
  over        \* whether the plan carries the error that its budget cannot be met

planVars == <<entry, plan, estimated, halvings, over>>
vars == <<passesVars, source, stage, planVars>>

ASSUME SourcesAssumption == \A s \in Sources : IsText(s.text)

NoPlan == [bound |-> <<>>, own |-> <<>>]

Init ==
  /\ source \in Sources
  /\ Loaded(NewModule(source.capabilities, source.approved))
  /\ stage = "parsing"
  /\ entry = 0 /\ plan = NoPlan /\ estimated = Zero /\ halvings = 0 /\ over = FALSE

ReadSource == Parsed(source.capabilities, source.approved, source.text)

Parse ==
  /\ stage = "parsing"
  /\ ReadSource.ok
  /\ ir' = ReadSource.m /\ before' = ReadSource.m
  /\ Start("deduplication", AllBlocks(ReadSource.m))
  /\ stage' = "verifying"
  /\ UNCHANGED <<round, changed, capped, source, planVars>>

\* A syntax error, or an error of the verifier before or after the passes.
Reject ==
  /\ \/ stage = "parsing" /\ ~ReadSource.ok
     \/ stage \in {"verifying", "reverifying"} /\ ~Accepts(ir)
  /\ stage' = (CASE stage = "parsing" -> "unreadable" [] stage = "verifying" -> "rejected"
                 [] stage = "reverifying" -> "broken")
  /\ UNCHANGED <<passesVars, source, planVars>>

Accept ==
  /\ stage = "verifying" /\ Accepts(ir)
  /\ stage' = "optimizing"
  /\ UNCHANGED <<passesVars, source, planVars>>

Optimize ==
  /\ stage = "optimizing"
  /\ PassesNext
  /\ UNCHANGED <<source, stage, planVars>>

Optimized ==
  /\ stage = "optimizing" /\ pass = "done"
  /\ stage' = "reverifying"
  /\ UNCHANGED <<passesVars, source, planVars>>

AcceptAgain ==
  /\ stage = "reverifying" /\ Accepts(ir)
  /\ stage' = "scheduling"
  /\ UNCHANGED <<passesVars, source, planVars>>

\* A function has no lowering, except as the function that is scheduled.
Unlowered(b) == {o \in Steps(ir, b) : NameOf(ir, o) = Func}
EntryOf(f) == ir.region[ir.op[f].regions[1]].blocks[1]

Lower ==
  /\ stage = "scheduling"
  /\ \E f \in ToSet(OpsIn(ir, BodyBlock)) :
       /\ entry' = EntryOf(f)
       /\ IF Unlowered(EntryOf(f)) # {}
          THEN stage' = "unscheduled" /\ UNCHANGED <<plan, estimated>>
          ELSE /\ stage' = "degrading"
               /\ plan' = Lowered(ir)
               /\ estimated' = PlanCost(ir, plan', EntryOf(f))
  /\ UNCHANGED <<passesVars, source, halvings, over>>

Overruns == Overrun(DeclaredBudget(ir, entry), estimated) # {}

Degrade ==
  /\ stage = "degrading" /\ halvings < MaxDegradations
  /\ Overruns
  /\ Reducible(ir, plan, entry) # {}
  /\ plan' = Halved(ir, plan, entry)
  /\ estimated' = PlanCost(ir, plan', entry)
  /\ halvings' = halvings + 1
  /\ UNCHANGED <<passesVars, source, stage, entry, over>>

GiveUpAtOnce ==  \* mutant: without trying to halve
  /\ stage = "degrading" /\ halvings < MaxDegradations
  /\ Overruns
  /\ over' = TRUE
  /\ stage' = "planned"
  /\ UNCHANGED <<passesVars, source, entry, plan, estimated, halvings>>

\* The bounds cannot be reduced, but the steps' own costs have been rebuilt.
GiveUp ==
  /\ stage = "degrading" /\ halvings < MaxDegradations
  /\ Overruns
  /\ Reducible(ir, plan, entry) = {}
  /\ plan' = Halved(ir, plan, entry)
  /\ over' = TRUE
  /\ stage' = "planned"
  /\ UNCHANGED <<passesVars, source, entry, estimated, halvings>>

Plan ==
  /\ stage = "degrading"
  /\ ~Overruns \/ halvings = MaxDegradations
  /\ over' = Overruns
  /\ stage' = "planned"
  /\ UNCHANGED <<passesVars, source, entry, plan, estimated, halvings>>

Outcomes == {"unreadable", "rejected", "broken", "unscheduled", "planned"}
Ended == stage \in Outcomes /\ UNCHANGED vars

Next ==
  \/ Parse \/ Reject \/ Accept \/ Optimize \/ Optimized \/ AcceptAgain
  \/ Lower \/ Degrade \/ GiveUp \/ Plan
  \/ Ended

Spec == Init /\ [][Next]_vars

-----------------------------------------------------------------------------
(* Properties.                                                             *)

\* The second verification finds nothing: an accepted program is accepted when
\* the passes are done with it, unless they have put a model's value in place of
\* one that is trusted (agent-ir lib.rs: "a pass that broke an invariant would
\* otherwise hand the runtime a program the compiler already promised was safe").
MixedTrust(m) ==
  \E v, u \in DOMAIN m.value :
    /\ Term(m)[v] = Term(m)[u]
    /\ NeedsVerification(m.value[v]) /\ ~NeedsVerification(m.value[u])
PassesKeepAcceptance == stage = "broken" => MixedTrust(before)

\* What is printed reads back as the same program, each operation on the same
\* values, and prints the same again (printer.rs: "uniqueness is what makes the
\* printed form re-parseable"), unless a region prints as an empty pair of braces.
Printed == stage \in {"verifying", "reverifying"}
Reread == Parsed(source.capabilities, source.approved, Written(ir))
RoundTrip ==
  Printed /\ PrintsEmpty(ir) = {} =>
    Reread.ok /\ Anonymous(Reread.m) = Anonymous(ir) /\ Written(Reread.m) = Written(ir)

\* The names the parser lets an operation use are those of values that dominate
\* it, in a text whose regions have one block each (parser.rs, use_value:
\* "every value must have a dominating producer (invariant I1)").
SingleBlocks(m) == \A r \in DOMAIN m.region : Len(m.region[r].blocks) = 1
LexicalScopeIsDominance ==
  stage = "verifying" /\ SingleBlocks(ir) => Undominated(ir) = {}

\* The budget a function declares is the budget its plan is held to
\* (scheduler.rs: "a budget that cannot be met degrades the strategy and reports
\* it rather than refusing").
BudgetSurvives ==
  stage \in {"degrading", "planned"} =>
    DeclaredBudget(ir, entry) = DeclaredBudget(before, entry)

\* Where g's batch, or that of what holds it, comes no later than o's in a block
\* around both.
NoLater(m, g, o) ==
  \E f \in EnclosingChain(m, g), h \in EnclosingChain(m, o) :
    /\ f.block = h.block /\ f # h
    /\ Ranks(m, f.block)[f.position] =< Ranks(m, f.block)[h.position]

\* An irreversible action of a plan is still behind a guard that authorizes it
\* (verifier lib.rs, I2: "every operation that certainly runs before").
GuardRunsFirst ==
  stage = "planned" =>
    \A o \in Steps(ir, entry) :
      IsIrreversible(ir.op[o].effect) =>
        \E g \in Authorizing(ir, o) : NoLater(ir, g, o)

\* What the scheduler takes for granted of a block it is given: its terminator
\* is the last operation, and no operation reads, itself or in its regions, what
\* a later one produces (the assumptions of the Scheduler module).
AcceptedBlocksAreSchedulable ==
  stage = "scheduling" =>
    \A b \in DOMAIN ir.block :
      LET ops == OpsIn(ir, b) IN
      ToSet(ops) \subseteq Live(ir) =>
        /\ \A i \in 1..Len(ops) - 1 : ~IsTerminator(NameOf(ir, ops[i]))
        /\ \A i, j \in DOMAIN ops : i < j => Reads(ir, ops[i]) \cap Produced(ir, ops[j]) = {}

\* A control step has every plan the executor will ask for (PlanAssumption of the
\* Executor module), each of a block that is there (scheduler.rs, lower_control:
\* blocks[0]), and a loop may run at least once; and so has the region of a
\* control.parallel that a pass has made.
RegionsNeeded(name) == CASE name = If -> 1..2 [] name = While -> {2} [] OTHER -> {1}
PlansAreComplete ==
  stage = "scheduling" =>
    \A o \in Live(ir) : IsControl(ir, o) =>
      /\ Len(ir.op[o].regions) \in RegionsNeeded(NameOf(ir, o))
      /\ \A r \in ToSet(ir.op[o].regions) : ir.region[r].blocks # <<>>
      /\ o \in LoopsIn(ir) => Lowered(ir).bound[o] > 0

\* Whatever the verifier accepted of the function is in its plan, except what is
\* in a block that is not the first of its region, and what the region of an
\* agent.plan holds (scheduler.rs, lower_control: blocks[0]).
FirstBlock(m, b) == m.region[m.block[b].region].blocks[1]
NothingIsLeftOut ==
  stage = "planned" =>
    \A o \in Live(ir) :
      \/ o \in Steps(ir, entry)
      \/ ir.region[ir.block[entry].region].owner \notin Above(ir)[o]
      \/ \E a \in {o} \cup Above(ir)[o] : ir.op[a].parent # FirstBlock(ir, ir.op[a].parent)
      \/ \E a \in Above(ir)[o] : NameOf(ir, a) = <<"agent", "plan">>

\* Degrading halves a bound and keeps at least one iteration (scheduler.rs: "fewer
\* benchmark runs rather than none"); a bound in a condition it leaves alone.
TwoTo[n \in 0..MaxDegradations] == IF n = 0 THEN 1 ELSE 2 * TwoTo[n - 1]
HalvedFrom(bound) == Max({1, bound \div TwoTo[halvings]})
BoundsHalve ==
  stage \in {"degrading", "planned"} =>
    \A o \in Steps(ir, entry) \cap LoopsIn(ir) :
      plan.bound[o] = IF o \in Reached(ir, entry) THEN HalvedFrom(Lowered(ir).bound[o])
                      ELSE Lowered(ir).bound[o]

\* The estimate of a degraded plan is that of a program written with its bounds
\* (scheduler.rs: the base cost "which the builtin estimate supplies unchanged").
StatesItsCost(m, o) ==
  DOMAIN m.op[o].attrs \cap {"est_latency_ms", "est_input_tokens", "est_output_tokens"} # {}
EstimateIsFresh ==
  stage \in {"degrading", "planned"}
  /\ (\A o \in Steps(ir, entry) : IsControl(ir, o) => ~StatesItsCost(ir, o)) =>
    estimated = PlanCost(ir, [plan EXCEPT !.own = Lowered(ir).own], entry)

\* A plan is reported over its budget only when nothing is left to halve, or after
\* the last halving.
GivesUpAtTheEnd ==
  stage = "planned" /\ over =>
    halvings = MaxDegradations \/ Reducible(ir, plan, entry) = {}

\* A halving never makes the plan slower, unless a control operation is said to take
\* no time: its own cost is rebuilt as one millisecond (scheduler.rs: "fewer
\* benchmark runs rather than none").
TakesTime(m, o) == OwnCost(m, o).latency > 0
DegradingIsFaster ==
  [][/\ \A o \in Steps(ir, entry) : IsControl(ir, o) => TakesTime(ir, o)
     /\ halvings' > halvings
     => estimated'.latency =< estimated.latency]_vars

\* Every step brings the compilation closer to an outcome, so that it ends: in
\* the order of its phases, then of the passes, then of the halvings.
Phases == <<"degrading", "scheduling", "reverifying", "optimizing", "verifying", "parsing">>
PhasesLeft == {n \in DOMAIN Phases : Phases[n] = stage}
CompilerVariant ==
  LET left == IF stage = "optimizing" THEN Variant ELSE <<0, 0, 0, 0, 0>>
  IN <<IF PhasesLeft = {} THEN 0 ELSE Max(PhasesLeft),
       left[1], left[2], left[3], left[4], left[5],
       MaxDegradations - halvings>>
EveryStepIsProgress == [][Smaller(CompilerVariant', CompilerVariant)]_vars
=============================================================================
