----------------------------- MODULE MCExecutor -----------------------------
(***************************************************************************)
(* Small programs for Executor: the shapes of examples/*.air and of the    *)
(* runtime's tests, as the scheduler lowers them, with two or three        *)
(* iterations per loop.  A cfg picks among them with Entries.              *)
(***************************************************************************)
EXTENDS Executor

CONSTANTS c1, c2, fast, slow, url   \* values

MCScalar == {Null, True, False, c1, c2, fast, slow, url}
MCNumber == [v \in {fast, slow} |-> IF v = fast THEN 1 ELSE 2]
MCField == [f \in {<<fast, "latency">>, <<slow, "latency">>} |-> f[1]]

MCValueId == {"list", "item", "result", "latency", "bad", "x", "y", "z", "more"}
MCOperationId == 1..8
MCMemoryKeys == <<"best", "todo">>

\* A step, and the fields each kind of step sets.
Blank == [op |-> 0, kind |-> "verify", target |-> "", effect |-> "pure",
          operands |-> <<>>, results |-> <<>>, literal |-> Null,
          regions |-> <<>>, binding |-> NoBinding, limit |-> 0]
Outside(op, kind, target, effect, operands, results) ==
  [Blank EXCEPT !.op = op, !.kind = kind, !.target = target, !.effect = effect,
                !.operands = operands, !.results = results]
Inside(op, kind, operands, results, literal) ==
  [Blank EXCEPT !.op = op, !.kind = kind, !.operands = operands,
                !.results = results, !.literal = literal]
Nesting(op, kind, operands, results, regions) ==
  [Blank EXCEPT !.op = op, !.kind = kind, !.operands = operands, !.results = results,
                !.regions = regions]
Loop(op, operand, binding, limit, body) ==
  [Nesting(op, "loop", <<operand>>, <<>>, <<body>>) EXCEPT !.binding = binding, !.limit = limit]
While(op, limit, condition, body) ==
  [Nesting(op, "while", <<>>, <<>>, <<condition, body>>) EXCEPT !.limit = limit]

MCPlan ==
  [ p \in {"durable", "durable.body", "durable.then", "nested", "nested.body", "nested.inner",
           "infer", "infer.body", "store", "store.region", "store.then",
           "poll", "poll.cond", "poll.body", "ask", "ask.cond", "ask.body",
           "worklist", "worklist.body", "judge", "judge.then", "stuck", "stuck.body"} |->
    CASE \* examples/durable_benchmark.air: read, derive, reject the bad, write.
         p = "durable" ->
           << Loop(1, "list", "item", 2, "durable.body"),
              Inside(8, "return", <<>>, <<>>, Null) >>
      [] p = "durable.body" ->
           << Outside(2, "tool", "benchmark", "read_external", <<"item">>, <<"result">>),
              Inside(3, "metric", <<"result">>, <<"latency">>, "latency"),
              Inside(4, "compare", <<"latency", "x">>, <<"bad">>, "gt"),
              Nesting(5, "if", <<"bad">>, <<>>, <<"durable.then">>),
              Outside(7, "tool", "record_result", "write_external", <<"item", "latency">>, <<>>) >>
      [] p = "durable.then" -> << Inside(6, "reject", <<"item">>, <<>>, Null) >>
         \* A write two loops deep, the same write with the same item each time.
      [] p = "nested" ->
           << Loop(1, "list", "item", 2, "nested.body"),
              Inside(4, "return", <<"item">>, <<>>, Null) >>
      [] p = "nested.body" -> << Loop(2, "list", NoBinding, 2, "nested.inner") >>
      [] p = "nested.inner" ->
           << Outside(3, "tool", "record_result", "write_external", <<"item">>, <<"x">>),
              Inside(5, "yield", <<"x">>, <<>>, Null) >>
         \* examples/optimize_inference.air: a list a model proposed, acted upon.
      [] p = "infer" ->
           << Outside(1, "inference", "generate", "stochastic", <<>>, <<"y">>),
              Inside(2, "verify", <<"y">>, <<>>, Null),
              Loop(3, "y", "item", 2, "infer.body"),
              Outside(4, "tool", "send", "irreversible", <<"y">>, <<"z">>),
              Inside(6, "return", <<"z">>, <<>>, Null) >>
      [] p = "infer.body" ->
           << Outside(5, "tool", "record_result", "write_external", <<"item">>, <<>>) >>
         \* Memory, a parallel region, an if with a result, two results of one call.
      [] p = "store" ->
           << Inside(1, "constant", <<>>, <<"x">>, url),
              Outside(2, "memory.write", "best", "write_external", <<"x">>, <<>>),
              Nesting(3, "parallel", <<>>, <<"y">>, <<"store.region">>),
              Inside(4, "compare", <<"y", "x">>, <<"bad">>, "ne"),
              Nesting(5, "if", <<"bad">>, <<"z">>, <<"store.region", "store.then">>),
              Outside(6, "tool", "publish", "irreversible", <<"z">>, <<"x", "y">>),
              Outside(7, "memory.search", "", "read_external", <<"y">>, <<"result">>),
              Inside(8, "return", <<"result", "y">>, <<>>, Null) >>
      [] p = "store.region" ->
           << Outside(1, "memory.read", "best", "read_external", <<>>, <<"z">>),
              Inside(2, "yield", <<"z">>, <<>>, Null) >>
      [] p = "store.then" ->
           << Inside(1, "record_error", <<>>, <<>>, Null),
              Inside(2, "project", <<"y">>, <<"x">>, "latency"),
              Inside(3, "copy", <<"x">>, <<"y">>, Null),
              Inside(4, "yield", <<"y">>, <<>>, Null) >>
         \* A loop driven by a read; it may run into its bound.
      [] p = "poll" -> << While(1, 2, "poll.cond", "poll.body") >>
      [] p = "poll.cond" ->
           << Outside(2, "tool", "has_more", "read_external", <<>>, <<"more">>),
              Inside(3, "yield", <<"more">>, <<>>, Null) >>
      [] p = "poll.body" ->
           << Outside(4, "inference", "generate", "stochastic", <<>>, <<"y">>),
              Outside(5, "tool", "record_result", "write_external", <<"y">>, <<>>) >>
         \* A loop driven by a model.
      [] p = "ask" -> << While(1, 2, "ask.cond", "ask.body") >>
      [] p = "ask.cond" ->
           << Outside(2, "inference", "has_more", "stochastic", <<>>, <<"more">>),
              Inside(3, "yield", <<"more">>, <<>>, Null) >>
      [] p = "ask.body" ->
           << Outside(4, "tool", "record_result", "write_external", <<>>, <<>>) >>
         \* A list kept in memory: read, worked off, then replaced.
      [] p = "worklist" ->
           << Outside(1, "inference", "generate", "stochastic", <<>>, <<"x">>),
              Outside(2, "memory.write", "todo", "write_external", <<"x">>, <<>>),
              Outside(3, "memory.read", "todo", "read_external", <<>>, <<"list">>),
              Loop(4, "list", "item", 2, "worklist.body"),
              Outside(5, "inference", "generate", "stochastic", <<>>, <<"y">>),
              Outside(6, "memory.write", "todo", "write_external", <<"y">>, <<>>) >>
      [] p = "worklist.body" ->
           << Outside(7, "tool", "record_result", "write_external", <<"item">>, <<>>) >>
         \* A branch on what a tool answers, and a metric of what is no record.
      [] p = "judge" ->
           << Outside(1, "tool", "has_more", "read_external", <<>>, <<"more">>),
              Nesting(2, "if", <<"more">>, <<>>, <<"judge.then">>),
              Outside(3, "tool", "record_result", "write_external", <<"more">>, <<>>) >>
      [] p = "judge.then" -> << Inside(4, "metric", <<"more">>, <<"x">>, "latency") >>
         \* The runtime's test of the loop guard: one page fetched again and again.
      [] p = "stuck" -> << Loop(1, "list", "item", 3, "stuck.body") >>
      [] p = "stuck.body" ->
           << Outside(2, "tool", "fetch", "read_external", <<"item">>, <<"x">>) >> ]

MCPlanId == DOMAIN MCPlan

MCArguments ==
  [ e \in Entries |->
    CASE e = "durable" -> [v \in {"list", "x"} |-> IF v = "list" THEN <<c1, c2>> ELSE fast]
      [] e = "stuck" -> [v \in {"list"} |-> <<url, url, url>>]
      [] e = "nested" -> [v \in {"list"} |-> <<c1, c2>>]
      [] OTHER -> [v \in {} |-> Null] ]

MCAnswers ==
  [ t \in {"benchmark", "record_result", "generate", "publish", "send", "fetch", "has_more"} |->
    CASE t = "benchmark" -> {fast, slow}
      [] t = "generate" -> {<<c1>>, <<c2, c1>>}
      [] t = "publish" -> {<<c1, c2>>, url}
      [] t = "has_more" -> {True, False, Null}
      [] OTHER -> {Null} ]

RECURSIVE Below(_)
Below(p) ==
  {p} \cup UNION {Below(r) : r \in UNION {ToSet(Plan[p][i].regions) : i \in DOMAIN Plan[p]}}
MCKeys ==
  [ p \in UNION {Below(e) : e \in Entries} |->
      {Plan[q][i].op : <<q, i>> \in {s \in Below(p) \X (1..8) : s[2] \in DOMAIN Plan[s[1]]
                                                             /\ IsKeyed(Plan[s[1]][s[2]])}} ]

\* All the programs but the one whose while asks a model are of those in which a
\* key is known to name an invocation.
ASSUME ProgramsAssumption == "ask" \notin Entries => UniqueKeys(MCKeys)
=============================================================================
