------------------------------- MODULE Budget -------------------------------
(***************************************************************************)
(* What a plan is expected to cost and how its loops are shortened until   *)
(* it fits a budget (crates/lowering scheduler.rs, cost.rs, and the        *)
(* targets of plan.rs).  A plan is the bound each loop has left and the    *)
(* cost each step has without its regions; the batches of a block are      *)
(* those of the Scheduler module.                                          *)
(***************************************************************************)
EXTENDS Verifier

CONSTANT MaxDegradations   \* Scheduler::max_degradations

ASSUME DegradationsAssumption == MaxDegradations \in Nat

-----------------------------------------------------------------------------
(* Costs.                                                                  *)

Zero == [input |-> 0, output |-> 0, llm |-> 0, tool |-> 0, latency |-> 0]
Then(a, b) == [f \in DOMAIN Zero |-> a[f] + b[f]]
Alongside(a, b) == [Then(a, b) EXCEPT !.latency = Max({a.latency, b.latency})]
Repeated(a, n) == [f \in DOMAIN Zero |-> a[f] * n]
Slower(a, b) == IF a.latency >= b.latency THEN a ELSE b

Inference == [input |-> 1000, output |-> 250, llm |-> 1, tool |-> 0, latency |-> 2000]
ToolCost == [Zero EXCEPT !.tool = 1, !.latency = 250]
MemoryCost == [Zero EXCEPT !.tool = 1, !.latency = 20]
BuiltinCost == [Zero EXCEPT !.latency = 1]

Invoked == {<<"agent", "action">>, <<"tool", "call">>}
Target(m, o) ==
  LET name == NameOf(m, o) IN
  IF name[1] = "memory" THEN MemoryCost
  ELSE IF name = <<"agent", "plan">> THEN Inference
  ELSE IF name \notin Invoked THEN BuiltinCost
  ELSE IF m.op[o].effect.class = "stochastic" THEN Inference ELSE ToolCost

\* int_attr, where the number is not negative.
ReadInt(m, o, key, default) ==
  IF /\ key \in DOMAIN m.op[o].attrs
     /\ m.op[o].attrs[key].kind = "int" /\ m.op[o].attrs[key].value >= 0
  THEN m.op[o].attrs[key].value ELSE default

OwnCost(m, o) ==
  LET cost == Target(m, o) IN
  [cost EXCEPT !.latency = ReadInt(m, o, "est_latency_ms", @),
               !.input = ReadInt(m, o, "est_input_tokens", @),
               !.output = ReadInt(m, o, "est_output_tokens", @)]

-----------------------------------------------------------------------------
(* Plans.                                                                  *)

If == <<"control", "if">>
While == <<"control", "while">>
Controls == Loops \cup {If, Parallel}
IsControl(m, o) == NameOf(m, o) \in Controls

\* Only the first block of a region is scheduled.
FirstRegion(m, o) ==  \* mutant: the else branch is not lowered
  IF IsControl(m, o) THEN <<m.region[m.op[o].regions[1]].blocks[1]>> ELSE <<>>
PlannedBlocks(m, o) ==
  IF IsControl(m, o)
  THEN [i \in DOMAIN m.op[o].regions |-> m.region[m.op[o].regions[i]].blocks[1]]
  ELSE <<>>

\* The operations of the plan of a block, those of its nested plans included.
Steps(m, b) ==
  LET within[o \in DOMAIN m.op] ==
        \/ m.op[o].parent = b
        \/ /\ Owner(m, o) # 0
           /\ m.op[o].parent \in ToSet(PlannedBlocks(m, Owner(m, o)))
           /\ within[Owner(m, o)]
  IN {o \in Live(m) : within[o]}

\* The batch of each operation: its level, or its own after all levels.
Ranks(m, b) ==
  LET ops == OpsIn(m, b)
      levels == FoldLeft(
        LAMBDA known, i :
          Append(known, Max({0} \cup {known[j] + 1 : j \in {j \in 1..i - 1 : Edge(m, ops[j], ops[i])}})),
        <<>>, [i \in DOMAIN ops |-> i])
  IN [i \in DOMAIN ops |-> IF IsTerminator(NameOf(m, ops[i])) THEN Len(ops) + i ELSE levels[i]]

\* estimate: batches run in sequence, the steps of a batch alongside each other.
InBatch(ranks, costs, r) ==
  LET upto[n \in 0..Len(costs)] ==
        IF n = 0 THEN Zero
        ELSE IF ranks[n] = r THEN Alongside(upto[n - 1], costs[n]) ELSE upto[n - 1]
  IN upto[Len(costs)]
InSequence(costs) ==
  LET upto[n \in 0..Len(costs)] == IF n = 0 THEN Zero ELSE Then(upto[n - 1], costs[n])
  IN upto[Len(costs)]
BlockCost(m, b, estimate) ==
  LET ops == OpsIn(m, b)
      ranks == Ranks(m, b)
      costs == [i \in 1..Len(ops) |-> estimate[ops[i]]]
  IN InSequence([r \in 1..2 * Len(ops) + 1 |-> InBatch(ranks, costs, r - 1)])

\* control_cost, for every operation of a plan.
ControlCost(m, plan, o, estimate) ==
  LET inner == PlannedBlocks(m, o)
      of(i) == IF i \in DOMAIN inner THEN BlockCost(m, inner[i], estimate) ELSE Zero
  IN Then(plan.own[o],
          CASE NameOf(m, o) = If -> Slower(of(1), of(2))
            [] NameOf(m, o) = While -> Repeated(Then(of(1), of(2)), plan.bound[o])
            [] NameOf(m, o) \in Loops \ {While} -> Repeated(of(1), plan.bound[o])
            [] NameOf(m, o) = Parallel -> of(1)
            [] OTHER -> Zero)
Estimates(m, plan) ==
  LET estimate[o \in DOMAIN m.op] == ControlCost(m, plan, o, estimate) IN estimate
PlanCost(m, plan, entry) == BlockCost(m, entry, Estimates(m, plan))

LoopsIn(m) == {o \in DOMAIN m.op : NameOf(m, o) \in Loops}
Lowered(m) ==
  [ bound |-> [o \in LoopsIn(m) |-> ReadInt(m, o, "max_iterations", 1)],
    own |-> [o \in DOMAIN m.op |-> OwnCost(m, o)] ]

-----------------------------------------------------------------------------
(* Degrading.                                                              *)

\* What halving reaches: not the condition of a while, nor anything in it.
InCondition(m, o) ==
  \E w \in Above(m)[o] :
    NameOf(m, w) = While /\ o \in UNION {Inside(m, p) : p \in ToSet(m.block[PlannedBlocks(m, w)[1]].ops)}
Reached(m, entry) == {o \in Steps(m, entry) : IsControl(m, o) /\ ~InCondition(m, o)}

AllLoops(m, plan, entry) == Reached(m, entry) \cap LoopsIn(m)  \* mutant: a bound of one too
Reducible(m, plan, entry) == {o \in Reached(m, entry) \cap LoopsIn(m) : plan.bound[o] > 1}

\* reduce_iterations: bounds are halved, and the cost of a step without its
\* regions is rebuilt from what it cost with them.
FoldedTwice(m, plan, entry) ==  \* mutant: the new own cost holds the old nested one
  LET estimates == Estimates(m, plan) IN
  [ bound |-> [o \in DOMAIN plan.bound |->
      IF o \in Reducible(m, plan, entry) THEN plan.bound[o] \div 2 ELSE plan.bound[o]],
    own |-> [o \in DOMAIN plan.own |->
      IF o \in Reached(m, entry) THEN estimates[o] ELSE plan.own[o]] ]
Halved(m, plan, entry) ==
  LET estimates == Estimates(m, plan) IN
  [ bound |-> [o \in DOMAIN plan.bound |->
      IF o \in Reducible(m, plan, entry) THEN plan.bound[o] \div 2 ELSE plan.bound[o]],
    own |-> [o \in DOMAIN plan.own |->
      IF o \in Reached(m, entry)
      THEN [Zero EXCEPT !.latency = Min({estimates[o].latency, 1})]
      ELSE plan.own[o]] ]

-----------------------------------------------------------------------------
(* Budgets.                                                                *)

Unlimited == 0 - 1
Limit(m, o, key) == ReadInt(m, o, key, Unlimited)
Limits(m, o) ==
  [ tokens |-> Limit(m, o, "token_budget"), latency |-> Limit(m, o, "latency_budget_ms"),
    llm |-> Limit(m, o, "llm_call_budget"), tool |-> Limit(m, o, "tool_call_budget") ]
NoLimits == [f \in {"tokens", "latency", "llm", "tool"} |-> Unlimited]

\* declared_budget: the first agent.budget of the entry block itself.
Budgets(m, b) == SelectSeq(OpsIn(m, b), LAMBDA o : NameOf(m, o) = <<"agent", "budget">>)
DeclaredBudget(m, b) ==
  IF Budgets(m, b) = <<>> THEN NoLimits ELSE Limits(m, Head(Budgets(m, b)))

Spent(cost) ==
  [tokens |-> cost.input + cost.output, latency |-> cost.latency,
   llm |-> cost.llm, tool |-> cost.tool]
Overrun(limits, cost) ==
  {f \in DOMAIN limits : limits[f] # Unlimited /\ Spent(cost)[f] > limits[f]}
=============================================================================
