------------------------------ MODULE Dialects ------------------------------
(***************************************************************************)
(* The signature of every operation of the v0.1 dialects (crates/dialects  *)
(* lib.rs).  An arity is the set of the counts it accepts; no effect class *)
(* listed means that any may be declared.                                  *)
(***************************************************************************)
EXTENDS Naturals

Number == Nat

PureOnly == {"pure"}
External == {"pure", "read_external", "write_external", "irreversible"}

Signature(operands, results, regions) ==
  [ operands |-> operands, results |-> results, regions |-> regions,
    attrs |-> {}, effects |-> PureOnly, literal |-> FALSE, terminator |-> FALSE ]
Named(signature) == [signature EXCEPT !.literal = TRUE]
With(signature, attrs) == [signature EXCEPT !.attrs = attrs]
Declaring(signature, effects) == [signature EXCEPT !.effects = effects]
Terminating(signature) == [signature EXCEPT !.terminator = TRUE]

\* Attributes an operation must have, with the kind each must be of.
Field(key, kind) == [key |-> key, kind |-> kind]

Core ==
  [ constant |-> With(Signature({0}, {1}, {0}), {Field("value", "any")}),
    cast     |-> Signature({1}, {1}, {0}),
    cmp      |-> Named(Signature({2}, {1}, {0})) ]

Agent ==
  [ func    |-> Named(Signature({0}, {0}, {1})),
    input   |-> Signature({0}, {1}, {0}),
    context |-> Signature(Number, {1}, {0}),
    action  |-> Named(Declaring(Signature(Number, Number, {0}), {})),
    plan    |-> Declaring(Signature(Number, {1}, 0..1), {"stochastic"}),
    budget  |-> Signature({0}, {0}, {0}),
    verify  |-> With(Signature(Number, {0}, {0}), {Field("capability", "str")}),
    reject  |-> Signature({1}, {0}, {0}),
    return  |-> Terminating(Signature(Number, {0}, {0})) ]

Bounded(signature) == With(signature, {Field("max_iterations", "int")})

Control ==
  [ if       |-> Signature({1}, Number, 1..2),
    while    |-> Bounded(Signature(Number, Number, {2})),
    loop     |-> Bounded(Signature({1}, Number, {1})),
    parallel |-> Signature(Number, Number, {1}),
    yield    |-> Terminating(Signature(Number, {0}, {0})) ]

Tool ==
  [ call       |-> Named(Declaring(Signature(Number, Number, {0}), External)),
    result     |-> With(Signature({1}, {1}, {0}), {Field("field", "str")}),
    capability |-> With(Signature({0}, {1}, {0}), {Field("capability", "str")}) ]

Keyed(signature, effect) ==
  Declaring(With(signature, {Field("key", "str")}), {effect})

Memory ==
  [ read   |-> Keyed(Signature(Number, {1}, {0}), "read_external"),
    write  |-> Keyed(Signature({1}, {0}, {0}), "write_external"),
    search |-> Declaring(Signature(Number, {1}, {0}), {"read_external"}) ]

Observation ==
  [ create |-> Signature({1}, {1}, {0}),
    metric |-> Named(Signature({1}, {1}, {0})),
    error  |-> With(Signature(Number, {0}, {0}), {Field("message", "str")}) ]

\* Registry::v0_1, with a name as <<dialect, operation>>.
Registry ==
  [ core |-> Core, agent |-> Agent, control |-> Control,
    tool |-> Tool, memory |-> Memory, observation |-> Observation ]

Known(name) == name[1] \in DOMAIN Registry /\ name[2] \in DOMAIN Registry[name[1]]
SignatureOf(name) == Registry[name[1]][name[2]]
IsTerminator(name) == Known(name) /\ SignatureOf(name).terminator
=============================================================================
