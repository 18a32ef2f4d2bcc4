------------------------------ MODULE Verifier ------------------------------
(***************************************************************************)
(* The two rejection points (crates/verifier lib.rs, crates/ir-core        *)
(* capability.rs and provenance.rs): is a module well formed, and does the *)
(* agent hold the capabilities it needs.  Each check is the set of the     *)
(* operations it objects to; a module is accepted when all are empty.      *)
(***************************************************************************)
EXTENDS IRModule, Dialects

CONSTANT Threshold   \* confidence below which an LLM's value must be verified

Func == <<"agent", "func">>
Verify == <<"agent", "verify">>
Yield == <<"control", "yield">>
Parallel == <<"control", "parallel">>
Loops == {<<"control", "loop">>, <<"control", "while">>}

NameOf(m, o) == m.op[o].name
Unknown == "unknown"   \* the type that is not resolved

-----------------------------------------------------------------------------
(* Capabilities.                                                           *)

Covers(c, effect) ==
  /\ effect.class \in c.grants
  /\ HasScope(effect) => c.scope \in {AnyScope, effect.scope}

Approved(m, c) == c.gated => c.name \in m.approved

\* The first capability, in name order, that covers the effect.
Covering(m, effect) == {i \in DOMAIN m.capabilities : Covers(m.capabilities[i], effect)}
FirstCovering(m, effect) ==
  m.capabilities[CHOOSE i \in Covering(m, effect) : \A j \in Covering(m, effect) : i =< j]

Authorizes(m, name, effect) ==
  \E i \in DOMAIN m.capabilities :
    /\ m.capabilities[i].name = name
    /\ Covers(m.capabilities[i], effect)
    /\ Approved(m, m.capabilities[i])

\* verify_safety, C1 and C2: the declared effect of each operation.
RequiresCapability(effect) == ~IsPure(effect)
Unauthorized(m) ==
  {o \in Live(m) :
     LET effect == m.op[o].effect IN
     /\ RequiresCapability(effect)
     /\ Covering(m, effect) # {} => ~Approved(m, FirstCovering(m, effect))}

-----------------------------------------------------------------------------
(* Structure.                                                              *)

\* S1 to S4 and T2.
Matches(m, o, field) ==
  /\ field.key \in DOMAIN m.op[o].attrs
  /\ field.kind \in {"any", m.op[o].attrs[field.key].kind}

Misdeclared(m) ==
  {o \in Live(m) :
     LET op == m.op[o]
         signature == SignatureOf(op.name)
     IN ~ /\ Known(op.name)
          /\ Len(op.operands) \in signature.operands
          /\ Len(op.results) \in signature.results
          /\ Len(op.regions) \in signature.regions
          /\ signature.literal => op.literal # ""
          /\ \A field \in signature.attrs : Matches(m, o, field)
          /\ op.effect.class \in signature.effects \/ signature.effects = {}}

\* S1: only functions at the top.
NotAFunction(m) == {o \in ToSet(OpsIn(m, BodyBlock)) : NameOf(m, o) # Func}

BlocksOf(m, o) == UNION {ToSet(m.region[r].blocks) : r \in ToSet(m.op[o].regions)}

\* S5: a terminator is the last of its block, and a region of an operation with
\* results ends by yielding as many values.
YieldsItsResults(m, o, b) ==
  LET ops == OpsIn(m, b) IN
  /\ ops # <<>>
  /\ NameOf(m, Last(ops)) = Yield
  /\ Len(m.op[Last(ops)].operands) = Len(m.op[o].results)

ResultsNotYielded(m) ==  \* mutant: a terminator anywhere
  {o \in Live(m) : \E b \in BlocksOf(m, o) :
     m.op[o].results # <<>> /\ NameOf(m, o) # Func /\ ~YieldsItsResults(m, o, b)}
BadlyTerminated(m) ==
  {o \in Live(m) : \E b \in BlocksOf(m, o) :
     \/ \E i \in 1..Len(OpsIn(m, b)) - 1 : IsTerminator(NameOf(m, OpsIn(m, b)[i]))
     \/ /\ m.op[o].results # <<>> /\ NameOf(m, o) # Func
        /\ ~YieldsItsResults(m, o, b)}

-----------------------------------------------------------------------------
(* I1 to I5.                                                               *)

Undominated(m) == {o \in Live(m) : \E v \in Operands(m, o) : ~Dominates(m, v, o)}

Unresolved(m) ==
  {o \in Live(m) : ~Pure(m, o) /\ \E v \in Operands(m, o) : m.value[v].type = Unknown}

\* The agent.verify operations that certainly run before o.
Guards(m, o) == {g \in Preceding(m, o) : NameOf(m, g) = Verify}

Authorizing(m, o) ==
  {g \in Guards(m, o) :
     /\ "capability" \in DOMAIN m.op[g].attrs
     /\ Authorizes(m, m.op[g].attrs["capability"].value, m.op[o].effect)}

Unguarded(m) == {o \in Live(m) : IsIrreversible(m.op[o].effect) /\ Authorizing(m, o) = {}}

Racing(m) ==
  {o \in Live(m) :
     /\ NameOf(m, o) = Parallel
     /\ LET siblings == UNION {ToSet(OpsIn(m, b)) : b \in BlocksOf(m, o)}
        IN \E p, q \in siblings : p # q /\ Conflict(m, p, q)}

NeedsVerification(value) == value.source = "llm" /\ value.confidence < Threshold

Unverified(m) ==
  {o \in Live(m) :
     /\ ~Pure(m, o)
     /\ \E v \in Operands(m, o) :
          /\ NeedsVerification(m.value[v])
          /\ \A g \in Guards(m, o) : v \notin Operands(m, g)}

MayBeZero(m, o) ==  \* mutant: a loop may have nothing to do
  /\ "max_iterations" \in DOMAIN m.op[o].attrs
  /\ m.op[o].attrs["max_iterations"].kind = "int"
  /\ m.op[o].attrs["max_iterations"].value >= 0
HasBound(m, o) ==
  /\ "max_iterations" \in DOMAIN m.op[o].attrs
  /\ m.op[o].attrs["max_iterations"].kind = "int"
  /\ m.op[o].attrs["max_iterations"].value > 0
Unbounded(m) == {o \in Live(m) : NameOf(m, o) \in Loops /\ ~HasBound(m, o)}

-----------------------------------------------------------------------------

WellFormed(m) ==
  /\ Misdeclared(m) = {} /\ NotAFunction(m) = {} /\ BadlyTerminated(m) = {}
  /\ Undominated(m) = {} /\ Unresolved(m) = {}
  /\ Unguarded(m) = {} /\ Racing(m) = {} /\ Unverified(m) = {} /\ Unbounded(m) = {}

Accepts(m) == WellFormed(m) /\ Unauthorized(m) = {}
=============================================================================
