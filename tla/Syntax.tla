------------------------------- MODULE Syntax -------------------------------
(***************************************************************************)
(* The textual form of a module, read (crates/parser parser.rs) and        *)
(* written (crates/ir-core printer.rs).  A text is the sequence of what    *)
(* the grammar brings in turn:                                             *)
(*   [item |-> "head", results, name, literal, operands]                   *)
(*   [item |-> "open"], [item |-> "label", args], [item |-> "close"]       *)
(*   [item |-> "tail", attrs, effect, types, provenance]                   *)
(* with names of values where the program has names; the capabilities that *)
(* come first are given apart.  A name is the tuple of its parts, which    *)
(* the text joins with "_".  Lexing, spelling and layout are left out.     *)
(***************************************************************************)
EXTENDS IRModule

Derived == [source |-> "derived", confidence |-> 100]
FromTool == [source |-> "tool", confidence |-> 100]

-----------------------------------------------------------------------------
(* Reading.  scopes holds the names visible so far, the innermost last;    *)
(* frames the operations being read: the names their results will have,    *)
(* whether the text is inside a region of theirs, and then which region,   *)
(* which block of it (0 before the first), and whether it has labels.      *)

Frame(o, names) ==
  [op |-> o, names |-> names, inside |-> FALSE, region |-> 0, block |-> 0, labelled |-> FALSE]
BodyFrame == [Frame(0, <<>>) EXCEPT !.inside = TRUE, !.region = 1, !.block = BodyBlock]

Reading(capabilities, approved) ==
  [ m |-> NewModule(capabilities, approved), scopes |-> << <<>> >>,
    frames |-> <<BodyFrame>>, ok |-> TRUE ]

Failed(p) == [p EXCEPT !.ok = FALSE]

\* What the grammar allows next.  "{" and "}" with nothing between them are an
\* attribute dictionary, not a region.
Expected(p, item) ==
  LET frame == Last(p.frames) IN
  CASE item.item = "head" -> frame.inside
    [] item.item = "open" -> ~frame.inside
    [] item.item = "label" -> frame.inside /\ frame.op # 0 /\ (frame.block = 0 \/ frame.labelled)
    [] item.item = "close" -> frame.inside /\ frame.op # 0 /\ frame.block # 0
    [] item.item = "tail" -> ~frame.inside

Binding(scopes, name) == {i \in DOMAIN scopes : name \in DOMAIN scopes[i]}
Bound(p, name) == Binding(p.scopes, name) # {}
Lookup(p, name) == p.scopes[Max(Binding(p.scopes, name))][name]

Binds(scope, names, values) ==
  [n \in DOMAIN scope \cup ToSet(names) |->
     IF n \in ToSet(names) THEN values[Max({i \in DOMAIN names : names[i] = n})] ELSE scope[n]]
Defined(p, names, values) == [p EXCEPT !.scopes[Len(p.scopes)] = Binds(@, names, values)]

\* A region without a label has one block, made for its first operation.
Placed(p) ==
  IF Last(p.frames).block # 0 THEN p
  ELSE [p EXCEPT !.m = WithBlock(@, Last(p.frames).region),
                 !.frames[Len(p.frames)].block = NewBlock(p.m)]

\* The operation is made when its operands are read, with results of no type yet.
Untyped(name) ==
  [ name |-> name, type |-> "unknown",
    source |-> Derived.source, confidence |-> Derived.confidence ]
ReadHead(p, item) ==
  IF \E i \in DOMAIN item.operands : ~Bound(p, item.operands[i]) THEN Failed(p)
  ELSE LET q == Placed(p)
           head == [ name |-> item.name, literal |-> item.literal,
                     operands |-> [i \in DOMAIN item.operands |-> Lookup(p, item.operands[i])],
                     attrs |-> <<>>, effect |-> [class |-> "pure", scope |-> AnyScope] ]
           outs == [i \in DOMAIN item.results |-> Untyped(item.results[i])]
       IN [q EXCEPT !.m = Appended(WithOp(@, head, outs), Last(q.frames).block, NewOp(@)),
                    !.frames = Append(@, Frame(NewOp(q.m), item.results))]

ReadOpen(p) ==
  LET o == Last(p.frames).op IN
  [p EXCEPT !.m = WithRegion(@, o),
            !.frames[Len(p.frames)] = [@ EXCEPT !.inside = TRUE, !.region = Len(p.m.region) + 1],
            !.scopes = Append(@, <<>>)]

ReadLabel(p, item) ==
  LET b == NewBlock(p.m)
      opened == [p EXCEPT !.m = WithArgs(WithBlock(@, Last(p.frames).region), b, item.args, FromTool),
                          !.frames[Len(p.frames)] = [@ EXCEPT !.block = b, !.labelled = TRUE]]
  IN Defined(opened, [i \in DOMAIN item.args |-> item.args[i].name], opened.m.block[b].args)

Closed(frame) == Frame(frame.op, frame.names)
RegionScopeKept(p) ==  \* mutant: the scope stays
  [p EXCEPT !.frames[Len(p.frames)] = Closed(@)]
ReadClose(p) ==
  [p EXCEPT !.frames[Len(p.frames)] = Closed(@), !.scopes = Front(@)]

\* A clause that states where a result comes from is about the first result of
\* that name; of two clauses the last one holds.
Origin(m, o, item, v) ==
  LET at(w) == CHOOSE i \in DOMAIN m.op[o].results : m.op[o].results[i] = w
      first == \A w \in Results(m, o) : m.value[w].name = m.value[v].name => at(v) =< at(w)
      stated == {i \in DOMAIN item.provenance : item.provenance[i].name = m.value[v].name}
  IN IF first /\ stated # {} THEN item.provenance[Max(stated)] ELSE Derived

\* The clauses that follow the regions; only now are the results visible.
CompletedValue(m, o, item, v) ==
  LET at == CHOOSE i \in DOMAIN m.op[o].results : m.op[o].results[i] = v
      origin == Origin(m, o, item, v)
  IN [m.value[v] EXCEPT !.type = item.types[at],
                        !.source = origin.source, !.confidence = origin.confidence]
Completed(m, o, item) ==
  [m EXCEPT !.op[o].attrs = item.attrs, !.op[o].effect = item.effect,
            !.value = [v \in DOMAIN @ |->
               IF v \in Results(m, o) THEN CompletedValue(m, o, item, v) ELSE @[v]]]
ReadTail(p, item) ==
  LET frame == Last(p.frames) IN
  IF \/ Len(item.types) # Len(frame.names)
     \/ \E i \in DOMAIN item.provenance : item.provenance[i].name \notin ToSet(frame.names)
  THEN Failed(p)
  ELSE Defined([p EXCEPT !.m = Completed(@, frame.op, item), !.frames = Front(@)],
               frame.names, p.m.op[frame.op].results)

Read(p, item) ==
  IF ~p.ok \/ ~Expected(p, item) THEN Failed(p)
  ELSE CASE item.item = "head" -> ReadHead(p, item)
         [] item.item = "open" -> ReadOpen(p)
         [] item.item = "label" -> ReadLabel(p, item)
         [] item.item = "close" -> ReadClose(p)
         [] item.item = "tail" -> ReadTail(p, item)

\* A text that stops within an operation is no module.
Parsed(capabilities, approved, text) ==
  LET read[n \in 0..Len(text)] ==
        IF n = 0 THEN Reading(capabilities, approved) ELSE Read(read[n - 1], text[n])
      last == read[Len(text)]
  IN IF Len(last.frames) = 1 THEN last ELSE Failed(last)

\* What the lexer makes of a text: a name has two parts, an integer is one.
IsItem(item) ==
  \/ /\ item.item = "head"
     /\ IsName(item.name) /\ item.results \in Seq(ToSet(item.results))
  \/ item.item \in {"open", "close"}
  \/ item.item = "label" /\ item.args \in Seq(ToSet(item.args))
  \/ item.item = "tail" /\ IntsAreInts(item.attrs)
IsText(text) == text \in Seq(ToSet(text)) /\ \A i \in DOMAIN text : IsItem(text[i])

-----------------------------------------------------------------------------
(* Writing.                                                                *)

\* The name a value carries, with the first number that makes it unique.
Carried(name, taken) == name  \* mutant: names as they are
Unique(name, taken) ==
  IF name \notin taken THEN name
  ELSE LET numbered(n) == Append(name, ToString(n))
       IN numbered(CHOOSE n \in 1..Cardinality(taken) :
                     numbered(n) \notin taken /\ \A k \in 1..n - 1 : numbered(k) \in taken)

\* NameTable: over all values, those of erased operations included.
NameTable(m) ==
  FoldLeft(LAMBDA names, value : Append(names, Unique(value.name, ToSet(names))),
           <<>>, m.value)

Labelled(m, r) ==
  LET blocks == m.region[r].blocks
  IN Len(blocks) > 1 \/ (blocks # <<>> /\ m.block[blocks[1]].args # <<>>)

WrittenHead(m, names, o) ==
  [ item |-> "head", name |-> m.op[o].name, literal |-> m.op[o].literal,
    results |-> [i \in DOMAIN m.op[o].results |-> names[m.op[o].results[i]]],
    operands |-> [i \in DOMAIN m.op[o].operands |-> names[m.op[o].operands[i]]] ]

Interesting(m, o) ==
  SelectSeq(m.op[o].results,
            LAMBDA v : m.value[v].source # "derived" \/ m.value[v].confidence # 100)
WrittenTail(m, names, o) ==
  [ item |-> "tail", attrs |-> m.op[o].attrs, effect |-> m.op[o].effect,
    types |-> [i \in DOMAIN m.op[o].results |-> m.value[m.op[o].results[i]].type],
    provenance |-> [i \in DOMAIN Interesting(m, o) |->
      LET v == Interesting(m, o)[i]
      IN [name |-> names[v], source |-> m.value[v].source,
          confidence |-> m.value[v].confidence]] ]

WrittenLabel(m, names, b) ==
  [ item |-> "label",
    args |-> [i \in DOMAIN m.block[b].args |->
      [name |-> names[m.block[b].args[i]], type |-> m.value[m.block[b].args[i]].type]] ]

Joined(Text(_), parts) == FoldLeft(LAMBDA text, part : text \o Text(part), <<>>, parts)

\* print_region_body: the blocks of a region, each operation as in operations.
WrittenBody(m, names, operations, r) ==
  LET label(b) == IF Labelled(m, r) THEN <<WrittenLabel(m, names, b)>> ELSE <<>>
      block(b) == label(b) \o Joined(LAMBDA o : operations[o], OpsIn(m, b))
  IN Joined(block, m.region[r].blocks)

WrittenWith(m, names) ==
  LET written[o \in DOMAIN m.op] ==
        <<WrittenHead(m, names, o)>>
        \o Joined(LAMBDA r : <<[item |-> "open"]>> \o WrittenBody(m, names, written, r)
                             \o <<[item |-> "close"]>>, m.op[o].regions)
        \o <<WrittenTail(m, names, o)>>
  IN WrittenBody(m, names, written, 1)
Written(m) == WrittenWith(m, NameTable(m))

\* The text whatever the values are called: each by its place in the order in
\* which the text brings them.
Anonymous(m) ==
  LET ids == [v \in DOMAIN m.value |-> v]
      defined(item) == CASE item.item = "head" -> item.results
                         [] item.item = "label" -> [i \in DOMAIN item.args |-> item.args[i].name]
                         [] OTHER -> <<>>
      order == Joined(defined, WrittenWith(m, ids))
  IN WrittenWith(m, [v \in DOMAIN m.value |-> {i \in DOMAIN order : order[i] = v}])

\* A region prints as "{" and "}" when its one block has no argument and
\* nothing in it.
PrintsEmpty(m) ==
  {o \in Live(m) : \E r \in ToSet(m.op[o].regions) :
     ~Labelled(m, r) /\ \A b \in ToSet(m.region[r].blocks) : OpsIn(m, b) = <<>>}
=============================================================================
