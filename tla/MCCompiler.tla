---------------------------- MODULE MCCompiler ----------------------------
(***************************************************************************)
(* Texts to compile: functions of three statements in every combination of *)
(* a dozen kinds, with all or none of their values returned; functions     *)
(* with nested loops and branches under a budget; and a text for each of   *)
(* the rare cases that no combination reaches.                             *)
(***************************************************************************)
EXTENDS Compiler

-----------------------------------------------------------------------------
(* Writing texts.                                                          *)

NoEffect == [class |-> "pure", scope |-> AnyScope]
Stochastic == [class |-> "stochastic", scope |-> AnyScope]
ReadOf(scope) == [class |-> "read_external", scope |-> scope]
WriteOf(scope) == [class |-> "write_external", scope |-> scope]
IrreversibleOf(scope) == [class |-> "irreversible", scope |-> scope]

IntAttr(n) == [kind |-> "int", value |-> n]
StrAttr(s) == [kind |-> "str", value |-> s]

Statement(results, name, literal, operands, regions, attrs, effect) ==
  << [item |-> "head", results |-> results, name |-> name, literal |-> literal,
      operands |-> operands] >>
  \o FlattenSeq([i \in DOMAIN regions |->
       <<[item |-> "open"]>> \o regions[i] \o <<[item |-> "close"]>>])
  \o << [item |-> "tail", attrs |-> attrs, effect |-> effect,
         types |-> [i \in DOMAIN results |-> "text"], provenance |-> <<>>] >>

\* What the model proposed, with a confidence in percent.
FromModel(text, name, confidence) ==
  [text EXCEPT ![Len(text)].provenance =
     <<[name |-> name, source |-> "llm", confidence |-> confidence]>>]

Label(names) == <<[item |-> "label", args |-> [i \in DOMAIN names |-> [name |-> names[i], type |-> "text"]]]>>

Tool1(results, literal, operands, effect) ==
  Statement(results, <<"tool", "call">>, literal, operands, <<>>, <<>>, effect)
Ask(results, operands) ==
  Statement(results, <<"agent", "action">>, "ask", operands, <<>>, <<>>, Stochastic)
Return(values) == Statement(<<>>, <<"agent", "return">>, "", values, <<>>, <<>>, NoEffect)
Yields(values) == Statement(<<>>, Yield, "", values, <<>>, <<>>, NoEffect)
Branches(results, condition, regions) == Statement(results, If, "", <<condition>>, regions, <<>>, NoEffect)
Loop(list, bound, body) ==
  Statement(<<>>, <<"control", "loop">>, "", <<list>>, <<Label(<<<<"i">>>>) \o body>>,
            [max_iterations |-> IntAttr(bound)], NoEffect)
WhileLoop(condition, bound, body) ==
  Statement(<<>>, While, "", <<>>, <<condition, body>>, [max_iterations |-> IntAttr(bound)], NoEffect)
InParallel(results, body) == Statement(results, Parallel, "", <<>>, <<body>>, <<>>, NoEffect)
Guarding(value, capability) ==
  Statement(<<>>, Verify, "", <<value>>, <<>>, [capability |-> StrAttr(capability)], NoEffect)
BudgetOf(attrs) == Statement(<<>>, <<"agent", "budget">>, "", <<>>, <<>>, attrs, NoEffect)
FunctionOf(args, body) == Statement(<<>>, Func, "f", <<>>, <<Label(args) \o body>>, <<>>, NoEffect)

x == <<"x">>
w == <<"w">>

-----------------------------------------------------------------------------
(* Three statements.                                                       *)

Own(i) == <<"v", ToString(i)>>
Kinds == { "read", "chain", "write", "ask", "branch", "choose", "guarded", "limit",
           "loop", "leave", "beside" }
HasValue == {"read", "chain", "ask", "choose", "leave", "beside"}

\* The nearest earlier value, or the argument.
Nearest(kinds, i) ==
  LET earlier == {j \in 1..i - 1 : kinds[j] \in HasValue}
  IN IF earlier = {} THEN x ELSE Own(Max(earlier))

Slot(kinds, i) ==
  LET v == Own(i)
      near == Nearest(kinds, i)
  IN CASE kinds[i] = "read" -> Tool1(<<v>>, "get", <<x>>, ReadOf("a"))
       [] kinds[i] = "chain" -> Tool1(<<v>>, "get", <<near>>, ReadOf("a"))
       [] kinds[i] = "write" -> Tool1(<<>>, "put", <<x>>, WriteOf("a"))
       [] kinds[i] = "ask" -> FromModel(Ask(<<v>>, <<near>>), v, 95)
       [] kinds[i] = "branch" ->
            Branches(<<>>, x, <<Tool1(<<w>>, "get", <<near>>, ReadOf("a"))
                                \o Tool1(<<>>, "put", <<w>>, WriteOf("a"))>>)
       [] kinds[i] = "choose" ->
            Branches(<<v>>, near, <<Tool1(<<w>>, "get", <<x>>, ReadOf("a")) \o Yields(<<w>>),
                                    Yields(<<near>>)>>)
       [] kinds[i] = "guarded" ->
            Guarding(near, "wipe") \o Tool1(<<>>, "drop", <<x>>, IrreversibleOf("b"))
       [] kinds[i] = "limit" -> BudgetOf([latency_budget_ms |-> IntAttr(300)])
       [] kinds[i] = "loop" -> Loop(near, 4, Tool1(<<w>>, "get", <<<<"i">>>>, ReadOf("a")))
       [] kinds[i] = "leave" ->
            Branches(<<v>>, x, <<Branches(<<>>, x, <<Return(<<>>)>>) \o Yields(<<near>>),
                                 Yields(<<x>>)>>)
       [] kinds[i] = "beside" ->
            InParallel(<<v>>, Tool1(<<w>>, "get", <<near>>, ReadOf("b"))
                              \o Tool1(<<>>, "put", <<x>>, WriteOf("a")) \o Yields(<<w>>))

All == << [name |-> "all", gated |-> FALSE, scope |-> AnyScope,
           grants |-> {"stochastic", "read_external", "write_external", "irreversible"}],
          [name |-> "wipe", gated |-> TRUE, scope |-> "b", grants |-> {"irreversible"}] >>
Compiled(text) == [text |-> text, capabilities |-> All, approved |-> {"wipe"}]

Values(kinds) == SelectSeq([i \in DOMAIN kinds |-> Own(i)],
                           LAMBDA v : \E i \in DOMAIN kinds : v = Own(i) /\ kinds[i] \in HasValue)
Combination(kinds, returned) ==
  Compiled(FunctionOf(<<x>>, Slot(kinds, 1) \o Slot(kinds, 2) \o Slot(kinds, 3)
                              \o Return(IF returned THEN Values(kinds) ELSE <<>>)))

MCCombinations == {Combination(kinds, returned) : kinds \in [1..3 -> Kinds], returned \in BOOLEAN}

-----------------------------------------------------------------------------
(* Loops and branches under a budget.                                      *)

Get(result, value) == Tool1(<<result>>, "get", <<value>>, ReadOf("a"))
i == <<"i">>
Costing(text, attrs) == [text EXCEPT ![Len(text)].attrs = attrs @@ @]
Asked(result, operand, latency) ==
  Costing(Ask(<<result>>, <<operand>>), [est_latency_ms |-> IntAttr(latency)])

Shapes(n, k) ==
  { Loop(x, n, Get(w, i)),
    Loop(x, n, Loop(i, k, Get(w, i) \o Tool1(<<>>, "put", <<w>>, WriteOf("b")))),
    Loop(x, n, Branches(<<>>, i, <<Asked(w, i, 100), Loop(i, k, Get(w, i))>>)),
    Branches(<<>>, x, <<Loop(x, n, Asked(w, x, 10)), Loop(x, k, Get(w, i))>>),
    WhileLoop(Loop(x, n, Get(w, i)) \o Get(<<"c">>, x) \o Yields(<<<<"c">>>>), k, Get(w, x)),
    InParallel(<<>>, Loop(x, n, Get(w, i)) \o Loop(x, k, Asked(w, i, 5))),
    Costing(Loop(x, n, Get(w, i)), [est_latency_ms |-> IntAttr(0)]),
    Loop(x, n, Get(w, i) \o Costing(Loop(x, k, Get(w, i)), [est_latency_ms |-> IntAttr(500)])) }

MCLimits == { [latency_budget_ms |-> IntAttr(1500)], [tool_call_budget |-> IntAttr(5)],
              [tool_call_budget |-> IntAttr(0)], [llm_call_budget |-> IntAttr(2)],
              [token_budget |-> IntAttr(4000), latency_budget_ms |-> IntAttr(9000)] }

\* The guards keep the budget from being grouped with its neighbours.
Budgeted(limits, shape) ==
  Compiled(FunctionOf(<<x>>, Guarding(x, "wipe") \o BudgetOf(limits) \o Guarding(x, "wipe")
                              \o shape \o Return(<<>>)))
MCBudgeted ==
  UNION {{Budgeted(limits, shape) : shape \in Shapes(n, k)} :
           limits \in MCLimits, n \in {1, 3, 200}, k \in {2, 7}}

-----------------------------------------------------------------------------
(* Rare cases.                                                             *)

y == <<"y">>
z == <<"z">>
Body(text) == FunctionOf(<<x>>, text)
Typed(text, types) == [text EXCEPT ![Len(text)].types = types]
Pair(types) == Typed(Tool1(<<y, z>>, "two", <<x>>, ReadOf("a")), types)
Pair2(types) == Typed(Tool1(<<<<"p">>, <<"q">>>>, "two", <<x>>, ReadOf("a")), types)
Put(value) == Tool1(<<>>, "put", <<value>>, WriteOf("a"))
Drop(value) == Tool1(<<>>, "drop", <<value>>, IrreversibleOf("b"))
Constant(result, attrs) == Statement(<<result>>, <<"core", "constant">>, "", <<>>, <<>>, attrs, NoEffect)

MCTexts ==
  { \* a repeated call whose results agree in number, not in type
    Body(Pair(<<"text", "text">>) \o Pair2(<<"text", "count">>) \o Return(<<y, z, <<"p">>, <<"q">>>>)),
    Body(Pair(<<"count", "text">>) \o Pair2(<<"text", "count">>) \o Return(<<y, z, <<"p">>, <<"q">>>>)),
    Body(Get(y, x) \o Pair(<<"text", "text">>) \o Pair2(<<"text", "text">>) \o Return(<<<<"p">>, <<"q">>>>)),
    Body(Pair(<<"text", "text">>) \o Guarding(x, "wipe") \o Pair2(<<"text", "count">>)
         \o Get(<<"r">>, <<"p">>) \o Return(<<y, z, <<"q">>, <<"r">>>>)),
    \* such a call in a branch that nobody reads the result of, which is erased around it
    Body(Branches(<<<<"v">>>>, x, <<Pair(<<"text", "text">>) \o Pair2(<<"text", "count">>) \o Yields(<<<<"q">>>>),
                                    Yields(<<x>>)>>) \o Return(<<>>)),
    \* a guard, a rejection and a return in branches that nobody reads the result of
    Body(Branches(<<y>>, x, <<Guarding(x, "all") \o Statement(<<>>, <<"agent", "reject">>, "", <<x>>, <<>>, <<>>, NoEffect)
                                \o Yields(<<x>>), Yields(<<x>>)>>) \o Put(x) \o Return(<<>>)),
    Body(Branches(<<y>>, x, <<Branches(<<>>, x, <<Return(<<>>)>>) \o Yields(<<x>>), Yields(<<x>>)>>)
         \o Put(x) \o Return(<<>>)),
    \* three calls alike: the second and the third agree, and are compared once the first is gone
    Body(Typed(Get(<<"r">>, x), <<"count">>) \o Get(y, x) \o Guarding(x, "all") \o Get(z, x)
         \o Return(<<y, z>>)),
    Body(Typed(Get(<<"r">>, x), <<"count">>) \o Get(y, x) \o Get(z, x) \o Return(<<<<"r">>, y, z>>)),
    \* a read that must not be cached
    Body(Costing(Get(y, x), [no_cache |-> [kind |-> "bool", value |-> TRUE]])
         \o Costing(Get(z, x), [no_cache |-> [kind |-> "bool", value |-> TRUE]]) \o Return(<<y, z>>)),
    \* blocks side by side in a region, and a value of one read in the other
    Body(Branches(<<>>, x, <<Label(<<>>) \o Get(y, x) \o Put(y) \o Label(<<>>) \o Put(x)>>) \o Return(<<>>)),
    Body(Branches(<<>>, x, <<Label(<<>>) \o Get(y, x) \o Label(<<>>) \o Put(y)>>) \o Return(<<>>)),
    \* names: used outside their region, by themselves, twice, and made of another's
    Body(Branches(<<>>, x, <<Get(y, x) \o Put(y)>>) \o Put(y) \o Return(<<>>)),
    Body(Get(y, y) \o Return(<<>>)),
    Body(Get(y, x) \o Get(z, x) \o Get(y, y) \o Return(<<z, y>>)),
    Body(Get(y, x) \o Get(y, y) \o Get(<<"y", "1">>, y) \o Return(<<y, <<"y", "1">>>>)),
    Body(Get(x, x) \o Branches(<<>>, x, <<Get(x, x) \o Put(x)>>) \o Put(x) \o Return(<<x>>)),
    Body(FromModel(Get(y, x), z, 90) \o Return(<<y>>)),
    Body(Typed(Get(y, x), <<"text", "text">>) \o Return(<<y>>)),
    Body(Branches(<<>>, x, <<<<>>>>) \o Return(<<>>)),
    \* a text that stops too early, and a label where there was none
    Front(Body(Return(<<>>))),
    Body(Branches(<<>>, x, <<Get(y, x) \o Label(<<>>) \o Put(x)>>) \o Return(<<>>)),
    \* the verifier's objections
    Body(Tool1(<<y>>, "ask", <<x>>, Stochastic) \o Return(<<y>>)),
    Body(Statement(<<>>, <<"tool", "cast">>, "", <<>>, <<>>, <<>>, NoEffect) \o Return(<<>>)),
    Body(Statement(<<>>, <<"tool", "call">>, "", <<>>, <<>>, <<>>, NoEffect) \o Return(<<>>)),
    Body(Constant(y, [value |-> IntAttr(1)]) \o Return(<<y>>)),
    Body(Constant(y, <<>>) \o Return(<<y>>)),
    Body(Return(<<>>) \o Put(x)),
    Get(y, y), Put(x), Return(<<>>),
    Body(Branches(<<y>>, x, <<Yields(<<x, x>>), Yields(<<x>>)>>) \o Return(<<y>>)),
    Body(Typed(Get(y, x), <<"unknown">>) \o Put(y) \o Return(<<>>)),
    Body(Typed(Get(y, x), <<"unknown">>) \o Return(<<y>>)),
    Body(Drop(x) \o Return(<<>>)),
    Body(Guarding(x, "all") \o Drop(x) \o Return(<<>>)),
    Body(Branches(<<>>, x, <<Guarding(x, "wipe")>>) \o Drop(x) \o Return(<<>>)),
    Body(InParallel(<<>>, Put(x) \o Get(y, x)) \o Return(<<>>)),
    Body(WhileLoop(Get(y, x) \o Yields(<<y>>), 0, Put(x)) \o Return(<<>>)),
    Body(Statement(<<>>, While, "", <<>>, <<Put(x)>>, [max_iterations |-> IntAttr(2)], NoEffect)
         \o Return(<<>>)),
    Body(Branches(<<>>, x, <<Put(x), Put(x), Put(x)>>) \o Return(<<>>)),
    \* what a model proposed, guarded and not
    Body(FromModel(Ask(<<y>>, <<x>>), y, 50) \o Put(y) \o Return(<<>>)),
    Body(FromModel(Ask(<<y>>, <<x>>), y, 50) \o Guarding(y, "all") \o Put(y) \o Return(<<>>)),
    Body(Ask(<<z>>, <<x>>) \o FromModel(Ask(<<y>>, <<x>>), y, 50) \o Guarding(y, "wipe") \o Drop(y)
         \o Return(<<>>)),
    Body(FromModel(Get(y, x), y, 50) \o Get(z, x) \o Put(z) \o Return(<<>>)),
    \* a function in a function, and two functions
    Body(Body(Return(<<>>)) \o Return(<<>>)),
    Body(Put(x) \o Return(<<>>)) \o Body(Get(y, x) \o Get(z, x) \o Return(<<y, z>>)) }

Denied == { << [All[1] EXCEPT !.grants = {"read_external"}] >>, << [All[1] EXCEPT !.scope = "c"] >>,
            << [All[1] EXCEPT !.gated = TRUE], [All[1] EXCEPT !.name = "open"] >> }

MCRare ==
  {Compiled(text) : text \in MCTexts}
  \cup {[Combination(<<"read", "write", "guarded">>, TRUE) EXCEPT !.capabilities = denied] : denied \in Denied}
  \cup {[Combination(<<"guarded", "read", "write">>, TRUE) EXCEPT !.approved = {}]}

MCSources == MCCombinations \cup MCBudgeted \cup MCRare

\* What the parser makes of them: the modules the passes are proved about.
MCRead == {Parsed(s.capabilities, s.approved, s.text) : s \in MCSources}
MCModules == {read.m : read \in {read \in MCRead : read.ok}}
=============================================================================
