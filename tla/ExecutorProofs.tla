--------------------------- MODULE ExecutorProofs ---------------------------
(***************************************************************************)
(* What holds of every run of the executor, whatever the program, the      *)
(* policy and the crashes: every state has the shape TypeOK describes, the *)
(* ledger, the log, the snapshots and the environment know the same of     *)
(* each other, all of them together implement DurableEffects, and one key  *)
(* names one invocation.                                                   *)
(***************************************************************************)
EXTENDS Executor, NaturalSets, FiniteSetTheorems

-----------------------------------------------------------------------------
(* Sequences of anything.                                                  *)

Sequence(s) == \E S : s \in Seq(S)

LEMMA AppendSequence ==
  ASSUME NEW s, Sequence(s), NEW e
  PROVE  /\ Sequence(Append(s, e))
         /\ Len(s) \in Nat
         /\ DOMAIN s = 1..Len(s)
         /\ Len(Append(s, e)) = Len(s) + 1
         /\ DOMAIN Append(s, e) = 1..Len(s) + 1
         /\ \A i \in 1..Len(s) : Append(s, e)[i] = s[i]
         /\ Append(s, e)[Len(s) + 1] = e
<1>1. PICK S : s \in Seq(S)
  BY DEF Sequence
<1> DEFINE T == S \cup {e}
<1>2. s \in Seq(T) /\ e \in T
  BY <1>1
<1>3. Append(s, e) \in Seq(T)
  BY <1>2
<1> HIDE DEF T
<1>4. Sequence(Append(s, e))
  BY <1>3 DEF Sequence
<1> QED
  BY <1>2, <1>3, <1>4

LEMMA SequenceLen == 
  ASSUME NEW s, Sequence(s)
  PROVE  /\ Len(s) \in Nat
         /\ DOMAIN s = 1..Len(s)
BY DEF Sequence

LEMMA EmptySequence == Sequence(<<>>) /\ Len(<<>>) = 0
<1>1. <<>> \in Seq({})
  OBVIOUS
<1> QED
  BY <1>1 DEF Sequence

LEMMA FunctionIsSequence ==
  ASSUME NEW n \in Nat, NEW s, s = [i \in 1..n |-> s[i]]
  PROVE  Sequence(s) /\ Len(s) = n
<1> DEFINE S == {s[i] : i \in 1..n}
<1>1. \A i \in 1..n : s[i] \in S
  OBVIOUS
<1> HIDE DEF S
<1>2. s \in Seq(S) /\ Len(s) = n
  <2>1. s \in [1..n -> S]
    BY <1>1
  <2> QED
    BY <2>1
<1> QED
  BY <1>2 DEF Sequence

LEMMA FrontSequence ==
  ASSUME NEW s, Sequence(s), s # <<>>
  PROVE  /\ Len(s) \in Nat \ {0}
         /\ Sequence(Front(s))
         /\ Len(Front(s)) = Len(s) - 1
         /\ DOMAIN Front(s) = 1..Len(s) - 1
         /\ Front(s) = [i \in 1..Len(s) - 1 |-> s[i]]
<1>1. PICK S : s \in Seq(S)
  BY DEF Sequence
<1>2. Len(s) \in Nat \ {0}
  BY <1>1
<1>3. Front(s) = [i \in 1..Len(s) - 1 |-> s[i]]
  BY <1>1, <1>2 DEF Front
<1>4. Len(s) - 1 \in Nat /\ Front(s) = [i \in 1..Len(s) - 1 |-> Front(s)[i]]
  BY <1>2, <1>3
<1>5. Sequence(Front(s)) /\ Len(Front(s)) = Len(s) - 1
  BY <1>4, FunctionIsSequence
<1> QED
  BY <1>2, <1>3, <1>5

-----------------------------------------------------------------------------
(* The stack.                                                              *)

FrameFields == {"plan", "pc", "role", "iteration", "items"}

Frame(f) ==
  /\ DOMAIN f = FrameFields
  /\ f.plan \in PlanId
  /\ f.pc \in 1..Len(Plan[f.plan]) + 1
  /\ f.role \in Roles
  /\ f.iteration \in Nat

\* A frame stands at the step that opened the region above it.
Owns(f, role) ==
  /\ f.pc =< Len(Plan[f.plan])
  /\ role # "function"
  /\ role \in {"condition", "body"} => Plan[f.plan][f.pc].kind = "while"

WellNested(stk) ==
  /\ Sequence(stk)
  /\ \A i \in 1..Len(stk) :
       /\ Frame(stk[i])
       /\ i = 1 => stk[i].role = "function"
       /\ i > 1 => Owns(stk[i - 1], stk[i].role)

LEMMA WellNestedTop ==
  ASSUME WellNested(stack), stack # <<>>
  PROVE  /\ Len(stack) \in Nat \ {0}
         /\ Frame(Top)
         /\ DOMAIN stack = 1..Len(stack)
         /\ stack = [i \in 1..Len(stack) |-> stack[i]]
         /\ ~Exhausted => Top.pc \in DOMAIN Plan[Top.plan]
         /\ Top.role # "function" =>
              /\ Len(stack) - 1 \in 1..Len(stack)
              /\ Len(stack) > 1
              /\ Owns(stack[Len(stack) - 1], Top.role)
<1>1. PICK S : stack \in Seq(S)
  BY DEF WellNested, Sequence
<1>2. /\ Len(stack) \in Nat \ {0} /\ DOMAIN stack = 1..Len(stack)
      /\ stack = [i \in 1..Len(stack) |-> stack[i]]
  BY <1>1
<1>3. Frame(Top) /\ (Len(stack) = 1 => Top.role = "function")
  BY <1>2 DEF WellNested, Top
<1>4. ~Exhausted => Top.pc \in DOMAIN Plan[Top.plan]
  BY <1>3, PlanAssumption DEF Frame, Exhausted
<1> QED
  BY <1>2, <1>3, <1>4 DEF WellNested, Top

LEMMA PushedNests ==
  ASSUME WellNested(stack), NEW plan \in PlanId, NEW role \in Roles, NEW items,
         IF stack = <<>> THEN role = "function" ELSE Owns(Top, role)
  PROVE  WellNested(Pushed(plan, role, items)) /\ Pushed(plan, role, items) # <<>>
<1> DEFINE f == [plan |-> plan, pc |-> 1, role |-> role, iteration |-> 0, items |-> items]
           t == Append(stack, f)
<1>1. Frame(f) /\ f.role = role
  <2>1. Len(Plan[plan]) \in Nat
    BY PlanAssumption
  <2> QED
    BY <2>1 DEF Frame, FrameFields
<1>2. Sequence(stack)
  BY DEF WellNested
<1> HIDE DEF f
<1>3. /\ Sequence(t) /\ Len(stack) \in Nat /\ Len(t) = Len(stack) + 1
      /\ \A i \in 1..Len(stack) : t[i] = stack[i]
      /\ t[Len(stack) + 1] = f
  BY <1>2, AppendSequence
<1>4. stack = <<>> <=> Len(stack) = 0
  BY <1>2, EmptySequence DEF Sequence
<1> HIDE DEF t
<1>5. ASSUME NEW i \in 1..Len(t)
      PROVE  /\ Frame(t[i])
             /\ i = 1 => t[i].role = "function"
             /\ i > 1 => Owns(t[i - 1], t[i].role)
  <2>1. CASE i \in 1..Len(stack)
    <3>1. i > 1 => i - 1 \in 1..Len(stack)
      BY <1>3, <2>1
    <3> QED
      BY <1>3, <2>1, <3>1 DEF WellNested
  <2>2. CASE i = Len(stack) + 1
    <3>1. i > 1 => i - 1 \in 1..Len(stack) /\ t[i - 1] = Top
      BY <1>3, <2>2 DEF Top
    <3>2. i = 1 <=> stack = <<>>
      BY <1>3, <1>4, <2>2
    <3> QED
      BY <1>1, <1>3, <2>2, <3>1, <3>2
  <2> QED
    BY <1>3, <2>1, <2>2
<1>6. WellNested(t) /\ t # <<>>
  BY <1>3, <1>5, EmptySequence DEF WellNested
<1> QED
  BY <1>6 DEF Pushed, t, f

LEMMA AdvancedNests ==
  ASSUME WellNested(stack), stack # <<>>, ~Exhausted
  PROVE  WellNested(Advanced) /\ Advanced # <<>>
<1> DEFINE n == Len(stack)
           f == [Top EXCEPT !.pc = @ + 1]
<1>1. /\ n \in Nat \ {0} /\ DOMAIN stack = 1..n /\ Frame(Top)
  BY WellNestedTop
<1>2. Advanced = [i \in 1..n |-> IF i = n THEN f ELSE stack[i]]
  BY <1>1 DEF Advanced, Top
<1>3. Frame(f) /\ f.role = Top.role
  <2>1. Len(Plan[Top.plan]) \in Nat
    BY <1>1, PlanAssumption DEF Frame
  <2>2. Top.pc =< Len(Plan[Top.plan])
    BY <1>1, <2>1 DEF Exhausted, Frame
  <2> QED
    BY <1>1, <2>1, <2>2 DEF Frame, FrameFields
<1> HIDE DEF n, f
<1>4. Sequence(Advanced) /\ Len(Advanced) = n
  <2>1. Advanced = [i \in 1..n |-> Advanced[i]]
    BY <1>2
  <2> QED
    BY <1>1, <2>1, FunctionIsSequence
<1>5. ASSUME NEW i \in 1..n
      PROVE  /\ Frame(Advanced[i])
             /\ i = 1 => Advanced[i].role = "function"
             /\ i > 1 => Owns(Advanced[i - 1], Advanced[i].role)
  <2>1. Advanced[i].role = stack[i].role /\ Frame(Advanced[i])
    BY <1>1, <1>2, <1>3 DEF WellNested, Top, n
  <2>2. i > 1 => Advanced[i - 1] = stack[i - 1]
    BY <1>1, <1>2
  <2> QED
    BY <2>1, <2>2 DEF WellNested, n
<1> QED
  BY <1>1, <1>4, <1>5, EmptySequence DEF WellNested

LEMMA PoppedNests ==
  ASSUME WellNested(stack), stack # <<>>, Top.role # "function"
  PROVE  WellNested(Popped) /\ Popped # <<>>
<1> DEFINE n == Len(stack)
           below == stack[n - 1]
           f == [below EXCEPT !.pc = @ + 1]
<1>1. /\ n \in Nat \ {0} /\ n - 1 \in Nat \ {0} /\ DOMAIN stack = 1..n
      /\ Owns(below, Top.role)
      /\ Sequence(stack)
  BY WellNestedTop DEF WellNested
<1>2. \A i \in 1..n : /\ Frame(stack[i])
                      /\ i = 1 => stack[i].role = "function"
                      /\ i > 1 => Owns(stack[i - 1], stack[i].role)
  BY DEF WellNested
<1>7. Frame(below)
  <2>1. n - 1 \in 1..n
    BY <1>1
  <2> QED
    BY <1>2, <2>1
<1>3. Popped = [i \in 1..n - 1 |-> IF i = n - 1 THEN f ELSE stack[i]]
  <2>1. Front(stack) = [i \in 1..n - 1 |-> stack[i]]
    BY <1>1, FrontSequence
  <2> QED
    BY <1>1, <2>1 DEF Popped
<1>4. Frame(f) /\ f.role = below.role
  <2>1. Len(Plan[below.plan]) \in Nat
    BY <1>7, PlanAssumption DEF Frame
  <2> QED
    BY <1>1, <1>7, <2>1 DEF Frame, FrameFields, Owns
<1> HIDE DEF f, below, n
<1>5. Sequence(Popped) /\ Len(Popped) = n - 1
  <2>1. Popped = [i \in 1..n - 1 |-> Popped[i]]
    BY <1>3
  <2> QED
    BY <1>1, <2>1, FunctionIsSequence
<1>6. ASSUME NEW i \in 1..n - 1
      PROVE  /\ Frame(Popped[i])
             /\ i = 1 => Popped[i].role = "function"
             /\ i > 1 => Owns(Popped[i - 1], Popped[i].role)
  <2>1. i \in 1..n /\ (i > 1 => i - 1 \in 1..n - 1 /\ i - 1 # n - 1)
    BY <1>1
  <2>2. Popped[i] = IF i = n - 1 THEN f ELSE stack[i]
    BY <1>3
  <2>3. Popped[i].role = stack[i].role /\ Frame(Popped[i])
    <3>1. CASE i = n - 1
      BY <1>4, <2>2, <3>1 DEF below
    <3>2. CASE i # n - 1
      <4>1. Popped[i] = stack[i]
        BY <2>2, <3>2
      <4> QED
        BY <1>2, <2>1, <4>1
    <3> QED
      BY <3>1, <3>2
  <2>4. i > 1 => Popped[i - 1] = stack[i - 1]
    BY <1>3, <2>1
  <2>5. /\ i = 1 => stack[i].role = "function"
        /\ i > 1 => Owns(stack[i - 1], stack[i].role)
    BY <1>2, <2>1
  <2> QED
    BY <2>3, <2>4, <2>5
<1> QED
  BY <1>1, <1>5, <1>6, EmptySequence DEF WellNested

LEMMA RestartedNests ==
  ASSUME WellNested(stack), stack # <<>>, Top.role # "function",
         NEW plan \in PlanId, NEW role \in Roles, NEW iteration \in Nat,
         Owns(stack[Len(stack) - 1], role)
  PROVE  WellNested(Restarted(plan, role, iteration)) /\ Restarted(plan, role, iteration) # <<>>
<1> DEFINE n == Len(stack)
           f == [Top EXCEPT !.plan = plan, !.pc = 1, !.role = role, !.iteration = iteration]
           t == Restarted(plan, role, iteration)
<1>1. /\ n \in Nat \ {0} /\ DOMAIN stack = 1..n /\ Frame(Top) /\ n > 1
  BY WellNestedTop
<1>2. t = [i \in 1..n |-> IF i = n THEN f ELSE stack[i]]
  BY <1>1 DEF Restarted, Top
<1>3. Frame(f) /\ f.role = role
  <2>1. Len(Plan[plan]) \in Nat
    BY PlanAssumption
  <2> QED
    BY <1>1, <2>1 DEF Frame, FrameFields
<1>7. \A i \in 1..n : /\ Frame(stack[i])
                      /\ i = 1 => stack[i].role = "function"
                      /\ i > 1 => Owns(stack[i - 1], stack[i].role)
  BY DEF WellNested
<1>8. Owns(stack[n - 1], role)
  OBVIOUS
<1> HIDE DEF f, t, n
<1>4. Sequence(t) /\ Len(t) = n
  <2>1. t = [i \in 1..n |-> t[i]]
    BY <1>2
  <2> QED
    BY <1>1, <2>1, FunctionIsSequence
<1>5. ASSUME NEW i \in 1..n
      PROVE  /\ Frame(t[i])
             /\ i = 1 => t[i].role = "function"
             /\ i > 1 => Owns(t[i - 1], t[i].role)
  <2>1. i > 1 => t[i - 1] = stack[i - 1]
    BY <1>1, <1>2
  <2>2. CASE i = n
    BY <1>1, <1>2, <1>3, <1>8, <2>1, <2>2
  <2>3. CASE i # n
    <3>1. t[i] = stack[i]
      BY <1>2, <2>3
    <3>2. /\ Frame(stack[i])
          /\ i = 1 => stack[i].role = "function"
          /\ i > 1 => Owns(stack[i - 1], stack[i].role)
      BY <1>7
    <3> QED
      BY <2>1, <3>1, <3>2
  <2> QED
    BY <2>2, <2>3
<1>6. WellNested(t) /\ t # <<>>
  BY <1>1, <1>4, <1>5, EmptySequence DEF WellNested
<1> QED
  BY <1>6 DEF t

-----------------------------------------------------------------------------
(* The inductive invariant.                                                *)

StateFields == {"values", "ledger", "rejected", "repeats"}

InStep == {"running", "calling", "answered", "saving", "saved"}

WalkTyped ==
  /\ entry \in Entries
  /\ phase \in Phases
  /\ attempt \in 1..MaxAttempts
  /\ WellNested(stack)
  /\ phase \in InStep => stack # <<>>
  /\ phase = "new" => stack = <<>>
  /\ phase \in {"calling", "answered"} => ~Exhausted
  /\ path \in Seq(Nat)

\* A state fit to be run, or to be saved and resumed from.
GoodState(s) ==
  /\ DOMAIN s = StateFields
  /\ DOMAIN s.values = ValueId
  /\ DOMAIN s.ledger \subseteq Key

DataTyped ==
  /\ GoodState(state)
  /\ counters \in [effects : Nat, replayed : Nat, since : Nat, sequence : Nat]

GoodEvent(e) == e.kind \in EventKinds /\ e.key \in Key \cup {NoKey}

LogTyped ==
  /\ Sequence(log)
  /\ \A i \in DOMAIN log : GoodEvent(log[i])

SnapshotsTyped ==
  /\ Sequence(checkpoints)
  /\ \A c \in DOMAIN checkpoints :
       checkpoints[c].logPosition \in 0..Len(log) /\ GoodState(checkpoints[c].state)

WorldTyped ==
  /\ Sequence(calls)
  /\ \A n \in DOMAIN calls : calls[n].key \in Key \cup {NoKey}
  /\ DOMAIN completed \subseteq Key

Typed == WalkTyped /\ DataTyped /\ LogTyped /\ SnapshotsTyped /\ WorldTyped

LEMMA TypedImpliesTypeOK == Typed => TypeOK
<1> SUFFICES ASSUME Typed PROVE TypeOK
  OBVIOUS
<1>1. \A i \in DOMAIN stack :
        /\ stack[i].plan \in PlanId
        /\ stack[i].pc \in 1..Len(Plan[stack[i].plan]) + 1
        /\ stack[i].role \in Roles
        /\ stack[i].iteration \in Nat
  BY SequenceLen DEF Typed, WalkTyped, WellNested, Frame
<1> QED
  BY <1>1 DEF Typed, WalkTyped, DataTyped, LogTyped, SnapshotsTyped, WorldTyped,
     GoodState, GoodEvent, InStep, TypeOK

LEMMA InitTyped == Init => Typed
<1> SUFFICES ASSUME Init PROVE Typed
  OBVIOUS
<1>1. /\ Sequence(<<>>) /\ Len(<<>>) = 0 /\ DOMAIN <<>> = {}
  BY EmptySequence, SequenceLen
<1>2. WalkTyped
  BY <1>1, PolicyAssumption DEF Init, WalkTyped, WellNested, Phases, InStep
<1>3. DataTyped
  BY DEF Init, DataTyped, GoodState, EmptyState, EmptyMap, ZeroCounters, StateFields
<1>4. LogTyped /\ SnapshotsTyped /\ WorldTyped
  BY <1>1 DEF Init, LogTyped, SnapshotsTyped, WorldTyped, EmptyMap
<1> QED
  BY <1>2, <1>3, <1>4 DEF Typed

-----------------------------------------------------------------------------
(* Keys and values.                                                        *)

LEMMA StepTyped ==
  ASSUME WalkTyped, stack # <<>>, ~Exhausted
  PROVE  /\ Step.op \in OperationId
         /\ EffectiveKey \in Key \cup {NoKey}
         /\ \A r \in DOMAIN Step.regions : Step.regions[r] \in PlanId
         /\ Step.kind \in {"loop", "parallel"} => 1 \in DOMAIN Step.regions
         /\ Step.kind = "while" => 1 \in DOMAIN Step.regions /\ 2 \in DOMAIN Step.regions
<1>1. Top.plan \in PlanId /\ Top.pc \in DOMAIN Plan[Top.plan]
  BY WellNestedTop DEF WalkTyped, Frame
<1>2. /\ Step.op \in OperationId
      /\ \A r \in DOMAIN Step.regions : Step.regions[r] \in PlanId
      /\ Step.kind \in {"loop", "parallel"} => 1 \in DOMAIN Step.regions
      /\ Step.kind = "while" => 1 \in DOMAIN Step.regions /\ 2 \in DOMAIN Step.regions
  BY <1>1, PlanAssumption DEF Step
<1>3. EffectiveKey \in Key \cup {NoKey}
  BY <1>2 DEF EffectiveKey, Key, WalkTyped
<1> QED
  BY <1>2, <1>3

LEMMA FrontOfPath ==
  ASSUME NEW p \in Seq(Nat)
  PROVE  Front(p) \in Seq(Nat)
<1>1. CASE p = <<>>
  BY <1>1 DEF Front
<1>2. CASE p # <<>>
  BY <1>2 DEF Front
<1> QED
  BY <1>1, <1>2

LEMMA BoundValues ==
  ASSUME NEW values, NEW ids, NEW v
  PROVE  DOMAIN BindEach(values, ids, v) = ValueId /\ DOMAIN BindResults(values, ids, v) = ValueId
BY DEF BindEach, BindResults

LEMMA PutDomain ==
  ASSUME NEW map, NEW k, NEW v
  PROVE  DOMAIN Put(map, k, v) = DOMAIN map \cup {k}
BY DEF Put

-----------------------------------------------------------------------------
(* Where the walk is, one action at a time.                                *)

LEMMA WalkStaysTyped ==
  ASSUME Typed, [Next]_vars
  PROVE  WalkTyped'
<1> USE DEF Typed
<1>0. /\ attempt \in 1..MaxAttempts /\ MaxAttempts \in Nat /\ phase \in Phases
      /\ WellNested(stack) /\ entry \in Entries /\ Entries \subseteq PlanId
      /\ path \in Seq(Nat)
  BY PolicyAssumption, PlanAssumption DEF WalkTyped
<1>a. ASSUME phase \in InStep
      PROVE  stack # <<>> /\ Frame(Top)
  BY <1>a, WellNestedTop DEF WalkTyped
<1> DEFINE Kept == UNCHANGED <<entry, attempt, path>>
<1>b. ASSUME Kept, phase' = phase, phase = "running", stack' = Advanced, ~Exhausted
      PROVE  WalkTyped'
  BY <1>0, <1>a, <1>b, AdvancedNests DEF WalkTyped, InStep
<1>c. ASSUME Kept, phase' \in Phases, phase' # "new", stack' = stack,
             phase' \in InStep => phase \in InStep,
             phase' \in {"calling", "answered"} => ~Exhausted
      PROVE  WalkTyped'
  BY <1>0, <1>c DEF WalkTyped, InStep, Exhausted, Top
<1>1. CASE Begin
  <2>1. Pushed(entry, "function", <<>>) # <<>> /\ WellNested(Pushed(entry, "function", <<>>))
    BY <1>0, <1>1, PushedNests DEF Begin, WalkTyped, Roles
  <2> QED
    BY <1>0, <1>1, <2>1 DEF Begin, WalkTyped, InStep, Phases
<1>2. CASE Bind \/ Skip \/ RecordError \/ Reject \/ ReplayEffect
  BY <1>2, <1>b DEF Bind, Skip, RecordError, Reject, ReplayEffect, At
<1>3. CASE Return \/ LeaveFunction \/ RaiseTypeError \/ RaiseIterationLimit
  BY <1>3, <1>c DEF Return, LeaveFunction, RaiseTypeError, RaiseIterationLimit,
     Finish, Fail, volatile, Phases, InStep
<1>4. CASE EnterIf \/ EnterParallel \/ EnterWhile
  <2>1. /\ phase = "running" /\ phase' = "running" /\ ~Exhausted /\ Kept
    BY <1>4 DEF EnterIf, EnterParallel, EnterWhile, At
  <2>2. CASE stack' = Advanced
    BY <1>b, <2>1, <2>2
  <2>3. CASE stack' # Advanced
    <3>1. stack # <<>> /\ Frame(Top)
      BY <1>a, <2>1 DEF InStep
    <3>2. PICK plan \in PlanId, role \in {"region", "condition"} :
            stack' = Pushed(plan, role, <<>>) /\ (role = "condition" => Step.kind = "while")
      <4>1. /\ \A r \in DOMAIN Step.regions : Step.regions[r] \in PlanId
            /\ Step.kind \in {"loop", "parallel"} => 1 \in DOMAIN Step.regions
            /\ Step.kind = "while" => 1 \in DOMAIN Step.regions
        BY <2>1, <3>1, StepTyped
      <4>2. CASE EnterIf
        BY <2>3, <4>1, <4>2 DEF EnterIf
      <4>3. CASE EnterParallel
        BY <4>1, <4>3 DEF EnterParallel, At
      <4>4. CASE EnterWhile
        BY <2>3, <4>1, <4>4 DEF EnterWhile, At
      <4> QED
        BY <1>4, <4>2, <4>3, <4>4
    <3>3. Owns(Top, role)
      BY <2>1, <3>1, <3>2, PlanAssumption DEF Owns, Exhausted, Step, Frame
    <3>4. WellNested(stack') /\ stack' # <<>>
      BY <1>0, <3>1, <3>2, <3>3, PushedNests DEF Roles
    <3> QED
      BY <1>0, <2>1, <3>4 DEF WalkTyped, InStep, Phases
  <2> QED
    BY <2>2, <2>3
<1>5. CASE EnterLoop
  <2>1. /\ phase = "running" /\ phase' = "running" /\ ~Exhausted
        /\ UNCHANGED <<entry, attempt>>
    BY <1>5 DEF EnterLoop, At
  <2>2. CASE stack' = Advanced /\ path' = path
    BY <1>b, <2>1, <2>2
  <2>3. CASE ~ (stack' = Advanced /\ path' = path)
    <3>1. stack # <<>> /\ Frame(Top)
      BY <1>a, <2>1 DEF InStep
    <3>2. Step.regions[1] \in PlanId
      BY <1>5, <2>1, <3>1, StepTyped DEF EnterLoop, At
    <3>3. PICK items : stack' = Pushed(Step.regions[1], "loop", items) /\ path' = Append(path, 0)
      BY <1>5, <2>3 DEF EnterLoop
    <3>4. Owns(Top, "loop")
      BY <2>1, <3>1, PlanAssumption DEF Owns, Exhausted, Frame
    <3>5. WellNested(stack') /\ stack' # <<>>
      BY <1>0, <3>1, <3>2, <3>3, <3>4, PushedNests DEF Roles
    <3> QED
      BY <1>0, <2>1, <3>3, <3>5 DEF WalkTyped, InStep, Phases
  <2> QED
    BY <2>2, <2>3
<1>6. CASE LeaveRegion \/ LeaveLoopBody \/ LeaveCondition \/ LeaveWhileBody
  <2>1. /\ phase = "running" /\ phase' = "running" /\ Top.role # "function"
        /\ UNCHANGED <<entry, attempt>>
    BY <1>6 DEF LeaveRegion, LeaveLoopBody, LeaveCondition, LeaveWhileBody, Leaving
  <2>2. stack # <<>> /\ Frame(Top)
    BY <1>a, <2>1 DEF InStep
  <2>3. path' \in Seq(Nat)
    <3>1. Top.iteration \in Nat
      BY <2>2 DEF Frame
    <3>2. Front(path) \in Seq(Nat)
      BY <1>0, FrontOfPath
    <3>3. \/ path' = path
          \/ path' = Front(path)
          \/ path' = Append(Front(path), Top.iteration + 1)
          \/ path' = Append(path, Top.iteration)
      BY <1>6 DEF LeaveRegion, LeaveLoopBody, LeaveCondition, LeaveWhileBody
    <3>4. \A p \in Seq(Nat), n \in Nat : Append(p, n) \in Seq(Nat)
      OBVIOUS
    <3>5. Top.iteration + 1 \in Nat
      BY <3>1
    <3>6. Append(Front(path), Top.iteration + 1) \in Seq(Nat) /\ Append(path, Top.iteration) \in Seq(Nat)
      BY <1>0, <3>1, <3>2, <3>4, <3>5
    <3> QED
      BY <1>0, <3>2, <3>3, <3>6
  <2>4. CASE stack' = Popped
    BY <1>0, <2>1, <2>2, <2>3, <2>4, PoppedNests DEF WalkTyped, InStep, Phases
  <2>5. CASE stack' # Popped
    <3> DEFINE below == stack[Len(stack) - 1]
    <3>1. Owns(below, Top.role) /\ Frame(below)
      BY <1>0, <2>1, <2>2, WellNestedTop DEF WellNested
    <3>2. PICK plan, role, iteration : stack' = Restarted(plan, role, iteration)
                 /\ plan \in PlanId /\ role \in Roles /\ iteration \in Nat /\ Owns(below, role)
      <4>1. Top.iteration \in Nat /\ Top.plan \in PlanId
        BY <2>2 DEF Frame
      <4>2. CASE LeaveLoopBody
        <5>1. stack' = Restarted(Top.plan, "loop", Top.iteration + 1) /\ Top.role = "loop"
          BY <2>5, <4>2 DEF LeaveLoopBody, Leaving
        <5> QED
          BY <3>1, <4>1, <5>1 DEF Roles
      <4>3. CASE LeaveCondition \/ LeaveWhileBody
        <5>1. Top.role \in {"condition", "body"}
          BY <4>3 DEF LeaveCondition, LeaveWhileBody, Leaving
        <5>2. Owner.kind = "while" /\ Owns(below, "condition") /\ Owns(below, "body")
          BY <3>1, <5>1 DEF Owns, Owner
        <5>3. below.pc \in DOMAIN Plan[below.plan] /\ below.plan \in PlanId
          BY <3>1, PlanAssumption DEF Owns, Frame
        <5>4. Owner.regions[1] \in PlanId /\ Owner.regions[2] \in PlanId
          BY <5>2, <5>3, PlanAssumption DEF Owner
        <5>5. \/ stack' = Restarted(Owner.regions[2], "body", Top.iteration)
              \/ stack' = Restarted(Owner.regions[1], "condition", Top.iteration + 1)
          BY <2>5, <4>3 DEF LeaveCondition, LeaveWhileBody
        <5> QED
          BY <4>1, <5>2, <5>4, <5>5 DEF Roles
      <4> QED
        BY <1>6, <2>5, <4>2, <4>3 DEF LeaveRegion
    <3>3. WellNested(stack') /\ stack' # <<>>
      BY <1>0, <2>1, <2>2, <3>2, RestartedNests
    <3> QED
      BY <1>0, <2>1, <2>3, <3>3 DEF WalkTyped, InStep, Phases
  <2> QED
    BY <2>4, <2>5
<1>7. CASE Invoke \/ EnvAnswers \/ EnvFails \/ EnvCrashes \/ SaveCheckpoint \/ LogCheckpoint
  <2>1. /\ Kept /\ stack' = stack /\ phase' \in Phases /\ phase' # "new" /\ phase \in InStep
        /\ phase' \in {"calling", "answered"} => ~Exhausted
    BY <1>7 DEF Invoke, EnvAnswers, EnvFails, EnvCrashes, AppliedUnacknowledged, LostAck,
       SaveCheckpoint, LogCheckpoint, At, volatile, Phases, InStep, WalkTyped
  <2> QED
    BY <1>c, <2>1
<1>8. CASE RecordEffect
  <2>1. /\ Kept /\ stack' = Advanced /\ phase' \in {"running", "saving"} /\ ~Exhausted
        /\ phase = "answered"
    BY <1>8 DEF RecordEffect, WalkTyped
  <2>2. stack # <<>>
    BY <1>a, <2>1 DEF InStep
  <2> QED
    BY <1>0, <2>1, <2>2, AdvancedNests DEF WalkTyped, InStep, Phases
<1>9. CASE ProcessCrash \/ Resume
  <2>1. /\ stack' = <<>> /\ path' = <<>> /\ entry' = entry
        /\ phase' \in {"new", "down"} /\ attempt' \in 1..MaxAttempts
    BY <1>0, <1>9 DEF ProcessCrash, Resume
  <2>2. WellNested(<<>>)
    BY EmptySequence DEF WellNested
  <2> QED
    BY <1>0, <2>1, <2>2 DEF WalkTyped, InStep, Phases
<1>10. CASE UNCHANGED vars
  BY <1>10 DEF vars, volatile, WalkTyped, Exhausted, Top
<1> QED
  BY <1>1, <1>2, <1>3, <1>4, <1>5, <1>6, <1>7, <1>8, <1>9, <1>10
     DEF Next, Progress, Control, External, Fault, Terminated

-----------------------------------------------------------------------------
(* What the steps compute and record.                                      *)

LEMMA ResumptionTyped ==
  ASSUME Typed
  PROVE  GoodState(Resumption)
<1> USE DEF Typed
<1>1. ASSUME NEW n, NEW ledger, DOMAIN ledger \subseteq Key, n \in Nat
      PROVE  DOMAIN FoldLogTail(n, ledger) \subseteq Key
  <2>1. \A i \in n + 1 .. Len(log) : Folded(i) => log[i].key \in Key
    BY <1>1, SequenceLen DEF LogTyped, GoodEvent, Folded
  <2> QED
    BY <1>1, <2>1 DEF FoldLogTail
<1>2. CASE checkpoints = <<>>
  <2>1. DOMAIN FoldLogTail(0, EmptyMap) \subseteq Key
    BY <1>1 DEF EmptyMap
  <2> QED
    BY <1>2, <2>1 DEF Resumption, LedgerFromLog, EmptyState, GoodState, StateFields
<1>3. CASE checkpoints # <<>>
  <2> DEFINE latest == Last(checkpoints)
  <2>1. Len(checkpoints) \in DOMAIN checkpoints /\ latest = checkpoints[Len(checkpoints)]
    <3>1. PICK S : checkpoints \in Seq(S)
      BY DEF SnapshotsTyped, Sequence
    <3> QED
      BY <1>3, <3>1 DEF Last
  <2>2. /\ GoodState(latest.state) /\ latest.logPosition \in Nat
    BY <2>1 DEF SnapshotsTyped, LogTyped, Sequence
  <2>3. Resumption = [latest.state EXCEPT !.ledger = FoldLogTail(latest.logPosition, @)]
    BY <1>3 DEF Resumption
  <2> HIDE DEF latest
  <2>4. DOMAIN FoldLogTail(latest.logPosition, latest.state.ledger) \subseteq Key
    BY <1>1, <2>2 DEF GoodState
  <2> QED
    BY <2>2, <2>3, <2>4 DEF GoodState, StateFields
<1> QED
  BY <1>2, <1>3

LEMMA DataStaysTyped ==
  ASSUME Typed, [Next]_vars
  PROVE  DataTyped'
<1> USE DEF Typed
<1>0. /\ GoodState(state)
      /\ counters \in [effects : Nat, replayed : Nat, since : Nat, sequence : Nat]
      /\ {"values", "ledger", "rejected", "repeats"} = DOMAIN state
  BY DEF DataTyped, GoodState, StateFields
<1>a. ASSUME NEW values, DOMAIN values = ValueId
      PROVE  GoodState([state EXCEPT !.values = values])
  BY <1>0, <1>a DEF GoodState
<1>1. CASE UNCHANGED <<state, counters>>
  BY <1>1 DEF DataTyped
<1>2. CASE Begin
  BY <1>0, <1>2 DEF Begin, DataTyped, GoodState
<1>3. CASE Bind \/ LeaveRegion
  BY <1>0, <1>3, BoundValues DEF Bind, LeaveRegion, DataTyped, GoodState
<1>4. CASE Reject
  BY <1>0, <1>4 DEF Reject, DataTyped, GoodState
<1>5. CASE EnterLoop \/ LeaveLoopBody
  <2>1. /\ counters' = counters
        /\ \/ state' = state
           \/ \E id, item : state' = [state EXCEPT !.values[id] = item]
    BY <1>5 DEF EnterLoop, LeaveLoopBody, BindItem
  <2> QED
    BY <1>0, <2>1 DEF DataTyped, GoodState
<1>6. CASE ReplayEffect
  BY <1>0, <1>6, BoundValues DEF ReplayEffect, DataTyped, GoodState
<1>7. CASE Invoke
  BY <1>0, <1>7 DEF Invoke, DataTyped, GoodState
<1>8. CASE RecordEffect
  <2>1. DOMAIN RecordAnswer \subseteq Key
    <3>1. EffectiveKey \in Key \cup {NoKey}
      BY <1>8, StepTyped DEF RecordEffect, WalkTyped, InStep
    <3> QED
      BY <1>0, <3>1 DEF RecordAnswer, Put, GoodState
  <2>2. state' = [state EXCEPT !.ledger = RecordAnswer,
                               !.values = BindResults(@, Step.results, answer)]
    BY <1>8 DEF RecordEffect
  <2>3. GoodState(state')
    BY <1>0, <2>1, <2>2, BoundValues DEF GoodState
  <2>4. counters' \in [effects : Nat, replayed : Nat, since : Nat, sequence : Nat]
    <3> DEFINE since == IF Due \/ CheckpointEvery = 0 THEN 0 ELSE counters.since + 1
               sequence == IF Due THEN counters.sequence + 1 ELSE counters.sequence
    <3>1. since \in Nat /\ sequence \in Nat
      BY <1>0
    <3>2. counters' = [counters EXCEPT !.effects = @ + 1, !.since = since, !.sequence = sequence]
      BY <1>8 DEF RecordEffect
    <3>3. counters' = [effects |-> counters.effects + 1, replayed |-> counters.replayed,
                       since |-> since, sequence |-> sequence]
      <4> HIDE DEF since, sequence
      <4> QED
        BY <1>0, <3>2
    <3>4. counters.effects + 1 \in Nat /\ counters.replayed \in Nat
      BY <1>0
    <3> HIDE DEF since, sequence
    <3> QED
      BY <3>1, <3>3, <3>4
  <2> QED
    BY <2>3, <2>4 DEF DataTyped
<1>9. CASE ProcessCrash
  BY <1>9 DEF ProcessCrash, DataTyped, GoodState, EmptyState, EmptyMap, ZeroCounters, StateFields
<1>10. CASE Resume
  BY <1>10, ResumptionTyped DEF Resume, DataTyped, ZeroCounters
<1>11. CASE Skip \/ RecordError \/ Return \/ RaiseTypeError \/ RaiseIterationLimit
             \/ EnterIf \/ EnterParallel \/ EnterWhile \/ LeaveFunction \/ LeaveCondition
             \/ LeaveWhileBody \/ EnvAnswers \/ EnvFails \/ EnvCrashes \/ SaveCheckpoint
             \/ LogCheckpoint \/ UNCHANGED vars
  BY <1>1, <1>11 DEF Skip, RecordError, Return, RaiseTypeError, RaiseIterationLimit,
     EnterIf, EnterParallel, EnterWhile, LeaveFunction, LeaveCondition, LeaveWhileBody,
     EnvAnswers, EnvFails, EnvCrashes, SaveCheckpoint, LogCheckpoint, Finish, Fail, vars, volatile
<1> QED
  BY <1>2, <1>3, <1>4, <1>5, <1>6, <1>7, <1>8, <1>9, <1>10, <1>11
     DEF Next, Progress, Control, External, Fault, Terminated

LEMMA GoodEvents ==
  ASSUME NEW kind \in EventKinds, NEW key \in Key \cup {NoKey}, NEW result, NEW number
  PROVE  GoodEvent(Event(kind, key, result, number))
BY DEF GoodEvent, Event

\* A step writes at most one entry.
LEMMA LogSteps ==
  ASSUME Typed, [Next]_vars
  PROVE  log' = log \/ \E e : GoodEvent(e) /\ log' = Append(log, e)
<1> DEFINE Logged == log' = log \/ \E e : GoodEvent(e) /\ log' = Append(log, e)
<1>1. CASE Bind \/ Skip \/ Reject \/ RaiseTypeError \/ RaiseIterationLimit
             \/ EnterIf \/ EnterParallel \/ EnterLoop \/ EnterWhile
             \/ LeaveRegion \/ LeaveLoopBody \/ LeaveCondition \/ LeaveWhileBody
             \/ EnvAnswers \/ SaveCheckpoint \/ ProcessCrash \/ UNCHANGED vars
  BY <1>1 DEF Bind, Skip, Reject, RaiseTypeError, RaiseIterationLimit,
     EnterIf, EnterParallel, EnterLoop, EnterWhile, LeaveRegion, LeaveLoopBody,
     LeaveCondition, LeaveWhileBody, EnvAnswers, SaveCheckpoint, ProcessCrash,
     Fail, vars, durable
<1>2. CASE Begin \/ RecordError \/ Return \/ LeaveFunction \/ EnvFails \/ EnvCrashes
             \/ LogCheckpoint \/ Resume \/ Invoke
  <2>1. \/ log' = log
        \/ \E kind \in EventKinds : \E result, number :
             log' = Append(log, Event(kind, NoKey, result, number))
    BY <1>2 DEF Begin, RecordError, Return, LeaveFunction, Finish, EnvFails, EnvCrashes,
       LogCheckpoint, Resume, Invoke, EventKinds
  <2> QED
    BY <2>1, GoodEvents
<1>3. CASE ReplayEffect \/ RecordEffect
  <2>1. \E kind \in EventKinds : \E result :
          log' = Append(log, Event(kind, EffectiveKey, result, 0))
    BY <1>3 DEF ReplayEffect, RecordEffect, EventKinds
  <2>2. EffectiveKey \in Key \cup {NoKey}
    BY <1>3, StepTyped DEF ReplayEffect, RecordEffect, At, Typed, WalkTyped, InStep
  <2> QED
    BY <2>1, <2>2, GoodEvents
<1> QED
  BY <1>1, <1>2, <1>3 DEF Next, Progress, Control, External, Fault, Terminated

LEMMA LogStaysTyped ==
  ASSUME Typed, [Next]_vars
  PROVE  LogTyped' /\ Len(log) =< Len(log') /\ Len(log) \in Nat /\ Len(log') \in Nat
<1>0. LogTyped /\ Len(log) \in Nat /\ DOMAIN log = 1..Len(log)
  BY SequenceLen DEF Typed, LogTyped
<1>1. CASE log' = log
  BY <1>0, <1>1 DEF LogTyped
<1>2. CASE \E e : GoodEvent(e) /\ log' = Append(log, e)
  <2>1. PICK e : GoodEvent(e) /\ log' = Append(log, e)
    BY <1>2
  <2>2. /\ Sequence(log') /\ Len(log') = Len(log) + 1 /\ DOMAIN log' = 1..Len(log) + 1
        /\ \A i \in 1..Len(log) : log'[i] = log[i]
        /\ log'[Len(log) + 1] = e
    BY <1>0, <2>1, AppendSequence DEF LogTyped
  <2>3. \A i \in DOMAIN log' : GoodEvent(log'[i])
    BY <1>0, <2>1, <2>2 DEF LogTyped
  <2> QED
    BY <1>0, <2>2, <2>3 DEF LogTyped
<1> QED
  BY <1>1, <1>2, LogSteps

LEMMA SnapshotsStayTyped ==
  ASSUME Typed, [Next]_vars
  PROVE  SnapshotsTyped'
<1>0. SnapshotsTyped /\ Len(log) =< Len(log') /\ Len(log) \in Nat /\ Len(log') \in Nat
  BY LogStaysTyped DEF Typed
<1>1. \A c \in DOMAIN checkpoints : checkpoints[c].logPosition \in 0..Len(log')
  BY <1>0 DEF SnapshotsTyped
<1>2. CASE checkpoints' = checkpoints
  BY <1>0, <1>1, <1>2 DEF SnapshotsTyped
<1>3. CASE SaveCheckpoint
  <2>1. checkpoints' = Append(checkpoints, Snapshot) /\ log' = log
    BY <1>3 DEF SaveCheckpoint
  <2>2. Snapshot.logPosition = Len(log) /\ GoodState(Snapshot.state)
    BY DEF Snapshot, Typed, DataTyped
  <2>3. /\ Sequence(checkpoints')
        /\ \A c \in DOMAIN checkpoints' :
             \/ c \in DOMAIN checkpoints /\ checkpoints'[c] = checkpoints[c]
             \/ checkpoints'[c] = Snapshot
    BY <1>0, <2>1, AppendSequence DEF SnapshotsTyped
  <2>4. \A c \in DOMAIN checkpoints' :
          checkpoints'[c].logPosition \in 0..Len(log') /\ GoodState(checkpoints'[c].state)
    BY <1>0, <1>1, <2>1, <2>2, <2>3 DEF SnapshotsTyped
  <2> QED
    BY <2>3, <2>4 DEF SnapshotsTyped
<1>4. checkpoints' = checkpoints \/ SaveCheckpoint
  <2>1. CASE Begin \/ Bind \/ Skip \/ RecordError \/ Reject \/ Return \/ Control
               \/ RaiseTypeError \/ RaiseIterationLimit
    BY <2>1 DEF Begin, Bind, Skip, RecordError, Reject, Return, Control, RaiseTypeError,
       RaiseIterationLimit, EnterIf, EnterParallel, EnterLoop, EnterWhile, LeaveFunction,
       LeaveRegion, LeaveLoopBody, LeaveCondition, LeaveWhileBody, Finish, Fail, durable
  <2>2. CASE ReplayEffect \/ Invoke \/ RecordEffect \/ EnvAnswers \/ EnvFails \/ EnvCrashes
               \/ LogCheckpoint \/ ProcessCrash \/ Resume \/ UNCHANGED vars
    BY <2>2 DEF ReplayEffect, Invoke, RecordEffect, EnvAnswers, EnvFails, EnvCrashes,
       LogCheckpoint, ProcessCrash, Resume, vars, durable
  <2> QED
    BY <2>1, <2>2 DEF Next, Progress, External, Fault, Terminated
<1> QED
  BY <1>2, <1>3, <1>4

-----------------------------------------------------------------------------
(* What the world sees.                                                    *)

LEMMA OnlyTheEnvironmentCalls ==
  ASSUME [Next]_vars
  PROVE  UNCHANGED <<calls, completed>> \/ EnvAnswers \/ EnvFails \/ EnvCrashes
<1>1. CASE Begin \/ Bind \/ Skip \/ RecordError \/ Reject \/ Return
             \/ RaiseTypeError \/ RaiseIterationLimit
  BY <1>1 DEF Begin, Bind, Skip, RecordError, Reject, Return, RaiseTypeError,
     RaiseIterationLimit, Finish, Fail, environment
<1>2. CASE Control
  BY <1>2 DEF Control, EnterIf, EnterParallel, EnterLoop, EnterWhile, LeaveFunction,
     LeaveRegion, LeaveLoopBody, LeaveCondition, LeaveWhileBody, Finish, environment
<1>3. CASE ReplayEffect \/ Invoke \/ RecordEffect \/ SaveCheckpoint \/ LogCheckpoint
             \/ ProcessCrash \/ Resume \/ UNCHANGED vars
  BY <1>3 DEF ReplayEffect, Invoke, RecordEffect, SaveCheckpoint, LogCheckpoint,
     ProcessCrash, Resume, vars, environment
<1> QED
  BY <1>1, <1>2, <1>3 DEF Next, Progress, External, Fault, Terminated

LEMMA CallsAppend ==
  ASSUME EnvAnswers \/ EnvFails \/ EnvCrashes
  PROVE  /\ \E applied \in BOOLEAN : calls' = Append(calls, Call(applied))
         /\ \/ completed' = completed
            \/ \E result : completed' = Completed(EffectiveKey, result)
BY DEF EnvAnswers, EnvFails, EnvCrashes, AppliedUnacknowledged, LostAck

LEMMA WorldStaysTyped ==
  ASSUME Typed, [Next]_vars
  PROVE  WorldTyped'
<1>0. WorldTyped
  BY DEF Typed
<1>1. CASE UNCHANGED <<calls, completed>>
  BY <1>0, <1>1 DEF WorldTyped
<1>2. CASE EnvAnswers \/ EnvFails \/ EnvCrashes
  <2>1. EffectiveKey \in Key \cup {NoKey}
    BY <1>2, StepTyped DEF EnvAnswers, EnvFails, EnvCrashes, Typed, WalkTyped, InStep
  <2>2. PICK applied \in BOOLEAN : calls' = Append(calls, Call(applied))
    BY <1>2, CallsAppend
  <2>3. Call(applied).key = EffectiveKey
    BY DEF Call
  <2>4. /\ Sequence(calls')
        /\ \A n \in DOMAIN calls' :
             (n \in DOMAIN calls /\ calls'[n] = calls[n]) \/ calls'[n] = Call(applied)
    BY <1>0, <2>2, AppendSequence DEF WorldTyped
  <2>5. \A n \in DOMAIN calls' : calls'[n].key \in Key \cup {NoKey}
    BY <1>0, <2>1, <2>3, <2>4 DEF WorldTyped
  <2>6. DOMAIN completed' \subseteq Key
    <3>1. \/ completed' = completed
          \/ \E result : completed' = Completed(EffectiveKey, result)
      BY <1>2, CallsAppend
    <3> QED
      BY <1>0, <2>1, <3>1 DEF WorldTyped, Completed, Put
  <2> QED
    BY <2>4, <2>5, <2>6 DEF WorldTyped
<1> QED
  BY <1>1, <1>2, OnlyTheEnvironmentCalls

-----------------------------------------------------------------------------

\* Typed is inductive.
LEMMA NextKeepsTyped == Typed /\ [Next]_vars => Typed'
BY WalkStaysTyped, DataStaysTyped, LogStaysTyped, SnapshotsStayTyped, WorldStaysTyped DEF Typed

THEOREM TypedInvariant == Spec => []Typed
<1>1. Init => Typed
  BY InitTyped
<1>2. Typed /\ [Next]_vars => Typed'
  BY NextKeepsTyped
<1> QED
  BY <1>1, <1>2, PTL DEF Spec

\* Every reachable state has the shape TypeOK describes, for every program the
\* lowering can produce: the walk stays inside its plans, ledgers hold
\* idempotency keys only, snapshots point into the log.
THEOREM TypeCorrect == Spec => []TypeOK
<1>1. Typed => TypeOK
  BY TypedImpliesTypeOK
<1> QED
  BY <1>1, TypedInvariant, PTL

-----------------------------------------------------------------------------
(* What the ledger, the log, the snapshots and the environment know of     *)
(* each other.  The argument needs nothing of the plan: it is about keys.  *)

-----------------------------------------------------------------------------
(* The inductive invariant.                                                *)

\* A ledger that stands for the first n entries of the log holds every effect
\* among them; what it lacks was replayed from the environment's own record.
Remembers(ledger, n) ==
  \A i \in 1..n :
    IsAnswer(log[i]) =>
      /\ log[i].key \in DOMAIN ledger => ledger[log[i].key] = log[i].result
      /\ log[i].key \notin DOMAIN ledger => EnvTracksKeys /\ log[i].kind = "replayed"

\* An environment that tracks keys has seen all that a ledger holds.
Confirmed(ledger) ==
  EnvTracksKeys =>
    \A k \in DOMAIN ledger : k \in DOMAIN completed /\ completed[k] = ledger[k]

Shapes ==
  /\ Sequence(log)
  /\ Sequence(checkpoints)
  /\ DOMAIN state = StateFields
  /\ \A c \in DOMAIN checkpoints :
       /\ checkpoints[c].logPosition \in 0..Len(log)
       /\ DOMAIN checkpoints[c].state = StateFields

LogConfirmed ==
  EnvTracksKeys =>
    \A i \in DOMAIN log :
      IsAnswer(log[i]) =>
        /\ log[i].key \in DOMAIN completed
        /\ completed[log[i].key] = log[i].result

StateRemembers ==
  /\ phase # "down" => Remembers(state.ledger, Len(log))
  /\ Confirmed(state.ledger)

SnapshotsRemember ==
  \A c \in DOMAIN checkpoints :
    /\ Remembers(checkpoints[c].state.ledger, checkpoints[c].logPosition)
    /\ Confirmed(checkpoints[c].state.ledger)

\* The key of the call in flight was never answered before; once the
\* environment has answered, its record agrees with the answer.
InFlight ==
  /\ phase \in {"calling", "answered"} /\ EffectiveKey # NoKey =>
       /\ EffectiveKey \notin DOMAIN state.ledger
       /\ \A i \in DOMAIN log : ~ (IsAnswer(log[i]) /\ log[i].key = EffectiveKey)
  /\ phase = "calling" /\ EffectiveKey # NoKey /\ EnvTracksKeys =>
       EffectiveKey \notin DOMAIN completed
  /\ phase = "answered" /\ EffectiveKey # NoKey /\ EnvTracksKeys =>
       /\ EffectiveKey \in DOMAIN completed
       /\ completed[EffectiveKey] = answer

Memory ==
  /\ Shapes
  /\ AnswersAgree
  /\ LogConfirmed
  /\ StateRemembers
  /\ SnapshotsRemember
  /\ InFlight

LEMMA InitMemory == Init => Memory
<1> SUFFICES ASSUME Init PROVE Memory
  OBVIOUS
<1>1. Sequence(log) /\ Len(log) = 0 /\ Sequence(checkpoints) /\ Len(checkpoints) = 0
  BY EmptySequence DEF Init
<1>2. DOMAIN log = {} /\ DOMAIN checkpoints = {}
  BY <1>1, SequenceLen
<1>3. DOMAIN state.ledger = {} /\ DOMAIN state = StateFields /\ phase = "new"
  BY DEF Init, EmptyState, EmptyMap, StateFields
<1> QED
  BY <1>1, <1>2, <1>3 DEF Memory, Shapes, AnswersAgree, LogConfirmed, StateRemembers,
     SnapshotsRemember, InFlight, Remembers, Confirmed

-----------------------------------------------------------------------------
(* Steps that add no answer to the log.                                    *)

\* The environment's record loses nothing.
Grows ==
  \A k \in DOMAIN completed : k \in DOMAIN completed' /\ completed'[k] = completed[k]

\* A step that leaves what was known alone.
Quiet ==
  /\ \/ log' = log
     \/ \E e : ~IsAnswer(e) /\ log' = Append(log, e)
  /\ DOMAIN state' = StateFields
  /\ state'.ledger = state.ledger
  /\ phase # "down"
  /\ UNCHANGED checkpoints
  /\ Grows

LEMMA QuietLog ==
  ASSUME Sequence(log), Quiet
  PROVE  /\ Sequence(log')
         /\ Len(log) \in Nat /\ Len(log') \in Nat /\ Len(log) =< Len(log')
         /\ DOMAIN log = 1..Len(log) /\ DOMAIN log' = 1..Len(log')
         /\ \A i \in DOMAIN log : log'[i] = log[i]
         /\ \A i \in DOMAIN log' : IsAnswer(log'[i]) => i \in DOMAIN log
<1>1. CASE log' = log
  BY <1>1, SequenceLen
<1>2. CASE \E e : ~IsAnswer(e) /\ log' = Append(log, e)
  <2>1. PICK e : ~IsAnswer(e) /\ log' = Append(log, e)
    BY <1>2
  <2> QED
    BY <2>1, AppendSequence
<1> QED
  BY <1>1, <1>2 DEF Quiet

LEMMA QuietKeepsMemory ==
  ASSUME Memory, Quiet
  PROVE  (Shapes /\ AnswersAgree /\ LogConfirmed /\ StateRemembers /\ SnapshotsRemember)'
<1> USE DEF Memory
<1>0. Sequence(log) /\ Sequence(checkpoints)
  BY DEF Shapes
<1>q. /\ DOMAIN state' = StateFields
      /\ state'.ledger = state.ledger /\ phase # "down"
      /\ checkpoints' = checkpoints /\ Grows
  BY DEF Quiet
<1>1. /\ Sequence(log')
      /\ Len(log) \in Nat /\ Len(log') \in Nat /\ Len(log) =< Len(log')
      /\ DOMAIN log = 1..Len(log) /\ DOMAIN log' = 1..Len(log')
      /\ \A i \in DOMAIN log : log'[i] = log[i]
      /\ \A i \in DOMAIN log' : IsAnswer(log'[i]) => i \in DOMAIN log
  BY <1>0, QuietLog
<1>2. Shapes'
  <2>1. \A c \in DOMAIN checkpoints : checkpoints[c].logPosition \in 0..Len(log')
    BY <1>1 DEF Shapes
  <2> QED
    BY <1>q, <1>1, <2>1 DEF Shapes
<1>3. AnswersAgree'
  BY <1>1 DEF AnswersAgree
<1>4. LogConfirmed'
  BY <1>q, <1>1 DEF LogConfirmed, Grows
<1>5. StateRemembers'
  BY <1>q, <1>1 DEF StateRemembers, Remembers, Confirmed, Grows
<1>6. SnapshotsRemember'
  <2> SUFFICES ASSUME NEW c \in DOMAIN checkpoints
               PROVE  (/\ Remembers(checkpoints[c].state.ledger, checkpoints[c].logPosition)
                       /\ Confirmed(checkpoints[c].state.ledger))'
    BY <1>q DEF SnapshotsRemember
  <2>1. \A i \in 1..checkpoints[c].logPosition : i \in DOMAIN log
    BY <1>1 DEF Shapes
  <2> QED
    BY <1>q, <1>1, <2>1 DEF SnapshotsRemember, Remembers, Confirmed, Grows
<1> QED
  BY <1>2, <1>3, <1>4, <1>5, <1>6

LEMMA QuietEvent ==
  ASSUME NEW kind, kind \notin {"effect", "replayed"}, NEW key, NEW result, NEW number
  PROVE  ~IsAnswer(Event(kind, key, result, number))
BY DEF IsAnswer, Event

\* Everything the executor does outside of effects is quiet.
LEMMA WalkIsQuiet ==
  ASSUME Shapes,
         Begin \/ Bind \/ Skip \/ RecordError \/ Reject \/ Return \/ Control
           \/ RaiseTypeError \/ RaiseIterationLimit \/ LogCheckpoint
  PROVE  Quiet /\ phase' \notin {"calling", "answered"}
<1>0. DOMAIN state = StateFields /\ "values" \in StateFields /\ "ledger" \in StateFields
      /\ "rejected" \in StateFields /\ "repeats" \in StateFields
  BY DEF Shapes, StateFields
<1>1. CASE Begin
  BY <1>0, <1>1, QuietEvent DEF Begin, Quiet, Grows, environment
<1>2. CASE Bind
  BY <1>0, <1>2 DEF Bind, At, Quiet, Grows, environment, durable
<1>3. CASE Skip
  BY <1>0, <1>3 DEF Skip, At, Quiet, Grows, environment, durable
<1>4. CASE RecordError
  BY <1>0, <1>4, QuietEvent DEF RecordError, At, Quiet, Grows, environment
<1>5. CASE Reject
  BY <1>0, <1>5 DEF Reject, At, Quiet, Grows, environment, durable
<1>6. CASE Return
  BY <1>0, <1>6, QuietEvent DEF Return, Finish, At, Quiet, Grows, environment, volatile
<1>7. CASE RaiseTypeError \/ RaiseIterationLimit
  BY <1>0, <1>7 DEF RaiseTypeError, RaiseIterationLimit, Leaving, Fail, At, Quiet, Grows,
     environment, volatile, durable
<1>8. CASE LogCheckpoint
  BY <1>0, <1>8, QuietEvent DEF LogCheckpoint, Quiet, Grows, environment, volatile
<1>9. CASE Control
  <2>1. CASE EnterIf \/ EnterParallel \/ EnterWhile
    BY <1>0, <2>1 DEF EnterIf, EnterParallel, EnterWhile, At, Quiet, Grows, environment, durable
  <2>2. CASE EnterLoop
    BY <1>0, <2>2 DEF EnterLoop, BindItem, At, Quiet, Grows, environment, durable
  <2>3. CASE LeaveFunction
    BY <1>0, <2>3, QuietEvent DEF LeaveFunction, Leaving, Finish, Quiet, Grows, environment, volatile
  <2>4. CASE LeaveRegion
    BY <1>0, <2>4 DEF LeaveRegion, Leaving, Quiet, Grows, environment, durable
  <2>5. CASE LeaveLoopBody
    BY <1>0, <2>5 DEF LeaveLoopBody, Leaving, BindItem, Quiet, Grows, environment, durable
  <2>6. CASE LeaveCondition
    BY <1>0, <2>6 DEF LeaveCondition, Leaving, Quiet, Grows, environment, durable
  <2>7. CASE LeaveWhileBody
    BY <1>0, <2>7 DEF LeaveWhileBody, Leaving, Quiet, Grows, environment, durable
  <2> QED
    BY <1>9, <2>1, <2>2, <2>3, <2>4, <2>5, <2>6, <2>7 DEF Control
<1> QED
  BY <1>1, <1>2, <1>3, <1>4, <1>5, <1>6, <1>7, <1>8, <1>9

LEMMA WalkKeepsMemory ==
  ASSUME Memory,
         Begin \/ Bind \/ Skip \/ RecordError \/ Reject \/ Return \/ Control
           \/ RaiseTypeError \/ RaiseIterationLimit \/ LogCheckpoint
  PROVE  Memory'
<1>1. Quiet /\ phase' \notin {"calling", "answered"}
  BY WalkIsQuiet DEF Memory
<1>2. InFlight'
  BY <1>1 DEF InFlight
<1> QED
  BY <1>1, <1>2, QuietKeepsMemory DEF Memory

-----------------------------------------------------------------------------
(* Effects.                                                                *)

\* What a key that is not in the ledger, nor known to the environment, means.
LEMMA UnknownMeansUnanswered ==
  ASSUME Memory, phase # "down", NEW k, k \notin DOMAIN state.ledger,
         EnvTracksKeys => k \notin DOMAIN completed
  PROVE  \A i \in DOMAIN log : ~ (IsAnswer(log[i]) /\ log[i].key = k)
<1>1. DOMAIN log = 1..Len(log)
  BY SequenceLen DEF Memory, Shapes
<1> QED
  BY <1>1 DEF Memory, StateRemembers, Remembers, LogConfirmed

LEMMA InvokeKeepsMemory ==
  ASSUME Memory, Invoke
  PROVE  Memory'
<1>1. DOMAIN state = StateFields /\ "repeats" \in StateFields /\ "ledger" \in StateFields
  BY DEF Memory, Shapes, StateFields
<1>2. Quiet /\ phase = "running"
  <2>1. \/ log' = log
        \/ log' = Append(log, Event("loop_guard", NoKey, Null, Repeats))
    BY DEF Invoke
  <2>2. state' = [state EXCEPT !.repeats = Put(@, Signature, Repeats)]
    BY DEF Invoke
  <2>3. phase = "running" /\ UNCHANGED <<checkpoints, completed>> /\ Grows
    BY DEF Invoke, At, environment, Grows
  <2> QED
    BY <1>1, <2>1, <2>2, <2>3, QuietEvent DEF Quiet
<1>3. EffectiveKey' = EffectiveKey
  BY DEF Invoke, EffectiveKey, Step, Top
<1>4. CASE phase' = "calling" /\ UNCHANGED log
  <2>1. /\ EffectiveKey # NoKey => EffectiveKey \notin DOMAIN state.ledger
        /\ EffectiveKey # NoKey /\ EnvTracksKeys => EffectiveKey \notin DOMAIN completed
    BY DEF Invoke, AlreadyDone, InLedger, InEnvironment
  <2>2. EffectiveKey # NoKey =>
          \A i \in DOMAIN log : ~ (IsAnswer(log[i]) /\ log[i].key = EffectiveKey)
    BY <1>2, <2>1, UnknownMeansUnanswered
  <2>3. InFlight'
    BY <1>1, <1>2, <1>3, <1>4, <2>1, <2>2 DEF InFlight, Quiet, Invoke, environment
  <2> QED
    BY <1>2, <2>3, QuietKeepsMemory DEF Memory
<1>5. CASE phase' = "failed"
  <2>1. InFlight'
    BY <1>5 DEF InFlight
  <2> QED
    BY <1>2, <2>1, QuietKeepsMemory DEF Memory
<1> QED
  BY <1>4, <1>5 DEF Invoke

LEMMA PutGrows ==
  ASSUME NEW map, NEW k, NEW v
  PROVE  /\ DOMAIN Put(map, k, v) = DOMAIN map \cup {k}
         /\ Put(map, k, v)[k] = v
         /\ \A x \in DOMAIN map : x # k => Put(map, k, v)[x] = map[x]
BY DEF Put

LEMMA CompletedGrows ==
  ASSUME NEW k, EnvTracksKeys => k \notin DOMAIN completed \/ k = NoKey,
         NEW result, completed' = Completed(k, result)
  PROVE  /\ Grows
         /\ EnvTracksKeys /\ k # NoKey => k \in DOMAIN completed' /\ completed'[k] = result
<1>1. CASE EnvTracksKeys /\ k # NoKey
  <2>1. completed' = Put(completed, k, result)
    BY <1>1 DEF Completed
  <2>2. k \notin DOMAIN completed
    BY <1>1
  <2>3. /\ DOMAIN completed' = DOMAIN completed \cup {k}
        /\ completed'[k] = result
        /\ \A x \in DOMAIN completed : x # k => completed'[x] = completed[x]
    BY <2>1 DEF Put
  <2> QED
    BY <2>2, <2>3 DEF Grows
<1>2. CASE ~(EnvTracksKeys /\ k # NoKey)
  BY <1>2 DEF Completed, Grows
<1> QED
  BY <1>1, <1>2

LEMMA EnvAnswersKeepsMemory ==
  ASSUME Memory, EnvAnswers
  PROVE  Memory'
<1>1. EffectiveKey' = EffectiveKey
  BY DEF EnvAnswers, EffectiveKey, Step, Top
<1>2. PICK result \in Possible : answer' = result /\ completed' = Completed(EffectiveKey, result)
  BY DEF EnvAnswers
<1>3. Grows /\ (EnvTracksKeys /\ EffectiveKey # NoKey =>
                  EffectiveKey \in DOMAIN completed' /\ completed'[EffectiveKey] = answer')
  BY <1>2, CompletedGrows DEF Memory, InFlight, EnvAnswers
<1>4. Quiet
  BY <1>3 DEF Quiet, EnvAnswers, durable, Memory, Shapes
<1>5. InFlight'
  BY <1>1, <1>3 DEF InFlight, Memory, EnvAnswers, durable
<1> QED
  BY <1>4, <1>5, QuietKeepsMemory DEF Memory

LEMMA FaultInCallKeepsMemory ==
  ASSUME Memory, EnvFails \/ EnvCrashes
  PROVE  Memory'
<1>1. EnvTracksKeys => EffectiveKey \notin DOMAIN completed \/ EffectiveKey = NoKey
  BY DEF Memory, InFlight, EnvFails, EnvCrashes
<1>2. Grows
  <2>1. CASE completed' = completed
    BY <2>1 DEF Grows
  <2>2. CASE completed' = Completed(EffectiveKey, Null)
    BY <2>2, <1>1, CompletedGrows
  <2> QED
    BY <2>1, <2>2 DEF EnvFails, EnvCrashes, AppliedUnacknowledged, LostAck
<1>3. Quiet /\ phase' = "failed"
  BY <1>2, QuietEvent DEF Quiet, EnvFails, EnvCrashes, volatile, Memory, Shapes
<1>4. InFlight'
  BY <1>3 DEF InFlight
<1> QED
  BY <1>3, <1>4, QuietKeepsMemory DEF Memory

\* An answer that agrees with all that is known of its key joins the log.
LEMMA AnswerKeepsMemory ==
  ASSUME Memory, phase # "down",
         NEW e, IsAnswer(e), log' = Append(log, e),
         \A i \in DOMAIN log : IsAnswer(log[i]) /\ log[i].key = e.key => log[i].result = e.result,
         EnvTracksKeys => e.key \in DOMAIN completed /\ completed[e.key] = e.result,
         checkpoints' = checkpoints, completed' = completed,
         DOMAIN state' = StateFields,
         DOMAIN state.ledger \subseteq DOMAIN state'.ledger,
         DOMAIN state'.ledger \subseteq DOMAIN state.ledger \cup {e.key},
         \A k \in DOMAIN state.ledger : state'.ledger[k] = state.ledger[k],
         e.key \in DOMAIN state'.ledger => state'.ledger[e.key] = e.result,
         e.key \notin DOMAIN state'.ledger => EnvTracksKeys /\ e.kind = "replayed"
  PROVE  (Shapes /\ AnswersAgree /\ LogConfirmed /\ StateRemembers /\ SnapshotsRemember)'
<1> USE DEF Memory
<1>1. /\ Sequence(log') /\ Len(log) \in Nat /\ Len(log') = Len(log) + 1
      /\ DOMAIN log = 1..Len(log) /\ DOMAIN log' = 1..Len(log) + 1
      /\ \A i \in DOMAIN log : log'[i] = log[i]
      /\ log'[Len(log) + 1] = e
  BY AppendSequence DEF Shapes
<1>2. \A i \in DOMAIN log' : i \in DOMAIN log \/ log'[i] = e
  BY <1>1
<1>3. Shapes'
  <2>1. \A c \in DOMAIN checkpoints : checkpoints[c].logPosition \in 0..Len(log')
    BY <1>1 DEF Shapes
  <2> QED
    BY <1>1, <2>1 DEF Shapes
<1>4. AnswersAgree'
  BY <1>1, <1>2 DEF AnswersAgree
<1>5. LogConfirmed'
  BY <1>1, <1>2 DEF LogConfirmed
<1>6. StateRemembers'
  <2>1. Confirmed(state.ledger)'
    BY DEF StateRemembers, Confirmed
  <2>2. ASSUME NEW i \in DOMAIN log', IsAnswer(log'[i])
        PROVE  /\ log'[i].key \in DOMAIN state'.ledger =>
                    state'.ledger[log'[i].key] = log'[i].result
               /\ log'[i].key \notin DOMAIN state'.ledger =>
                    EnvTracksKeys /\ log'[i].kind = "replayed"
    <3>1. CASE log'[i] = e
      BY <3>1
    <3>2. CASE i \in DOMAIN log
      BY <3>2, <2>2, <1>1 DEF StateRemembers, Remembers
    <3> QED
      BY <1>2, <3>1, <3>2
  <2> QED
    BY <1>1, <2>1, <2>2 DEF StateRemembers, Remembers
<1>7. SnapshotsRemember'
  <2> SUFFICES ASSUME NEW c \in DOMAIN checkpoints
               PROVE  (/\ Remembers(checkpoints[c].state.ledger, checkpoints[c].logPosition)
                       /\ Confirmed(checkpoints[c].state.ledger))'
    BY DEF SnapshotsRemember
  <2>1. \A i \in 1..checkpoints[c].logPosition : i \in DOMAIN log
    BY <1>1 DEF Shapes
  <2> QED
    BY <1>1, <2>1 DEF SnapshotsRemember, Remembers, Confirmed
<1> QED
  BY <1>3, <1>4, <1>5, <1>6, <1>7

LEMMA ReplayKeepsMemory ==
  ASSUME Memory, ReplayEffect
  PROVE  Memory'
<1> DEFINE k == EffectiveKey
           result == IF InLedger(k) THEN state.ledger[k] ELSE completed[k]
           e == Event("replayed", k, result, 0)
<1>1. /\ phase = "running" /\ k # NoKey
      /\ InLedger(k) \/ InEnvironment(k)
      /\ log' = Append(log, e)
      /\ checkpoints' = checkpoints /\ completed' = completed /\ phase' = phase
      /\ state' = [state EXCEPT !.values = BindResults(@, Step.results, result)]
  BY DEF ReplayEffect, AlreadyDone, At, environment
<1> HIDE DEF k
<1>2. IsAnswer(e) /\ e.key = k /\ e.result = result /\ e.kind = "replayed"
  BY <1>1 DEF IsAnswer, Event
<1>3. DOMAIN state' = StateFields /\ state'.ledger = state.ledger
  BY <1>1 DEF Memory, Shapes, StateFields
<1>4. DOMAIN log = 1..Len(log)
  BY SequenceLen DEF Memory, Shapes
<1>5. EnvTracksKeys => k \in DOMAIN completed /\ completed[k] = result
  BY <1>1 DEF InLedger, InEnvironment, Memory, StateRemembers, Confirmed
<1>6. \A i \in DOMAIN log : IsAnswer(log[i]) /\ log[i].key = k => log[i].result = result
  <2>1. CASE InLedger(k)
    BY <1>1, <1>4, <2>1 DEF InLedger, Memory, StateRemembers, Remembers
  <2>2. CASE ~InLedger(k)
    BY <1>1, <1>4, <1>5, <2>2 DEF InEnvironment, Memory, LogConfirmed
  <2> QED
    BY <2>1, <2>2
<1>7. k \in DOMAIN state.ledger => state.ledger[k] = result
  BY DEF InLedger
<1>8. k \notin DOMAIN state.ledger => EnvTracksKeys
  BY <1>1 DEF InLedger, InEnvironment
<1> HIDE DEF e, result
<1>9. (Shapes /\ AnswersAgree /\ LogConfirmed /\ StateRemembers /\ SnapshotsRemember)'
  BY <1>1, <1>2, <1>3, <1>5, <1>6, <1>7, <1>8, AnswerKeepsMemory
<1>10. InFlight'
  BY <1>1 DEF InFlight
<1> QED
  BY <1>9, <1>10 DEF Memory

LEMMA RecordKeepsMemory ==
  ASSUME Memory, RecordEffect
  PROVE  Memory'
<1> DEFINE k == EffectiveKey
           e == Event("effect", k, answer, 0)
<1>1. /\ phase = "answered" /\ phase' \in {"running", "saving"}
      /\ log' = Append(log, e)
      /\ checkpoints' = checkpoints /\ completed' = completed
      /\ DOMAIN state' = StateFields /\ state'.ledger = RecordAnswer
  BY DEF RecordEffect, environment, Memory, Shapes, StateFields
<1>2. InFlight'
  BY <1>1 DEF InFlight
<1>3. CASE k = NoKey
  <2>1. ~IsAnswer(e)
    BY <1>3 DEF IsAnswer, Event
  <2>2. Quiet
    BY <1>1, <1>3, <2>1 DEF Quiet, Grows, RecordAnswer
  <2> QED
    BY <1>2, <2>2, QuietKeepsMemory DEF Memory
<1>4. CASE k # NoKey
  <2>1. IsAnswer(e) /\ e.key = k /\ e.result = answer
    BY <1>4 DEF IsAnswer, Event
  <2>2. /\ k \notin DOMAIN state.ledger
        /\ \A i \in DOMAIN log : ~ (IsAnswer(log[i]) /\ log[i].key = k)
        /\ EnvTracksKeys => k \in DOMAIN completed /\ completed[k] = answer
    BY <1>1, <1>4 DEF Memory, InFlight
  <2>3. state'.ledger = Put(state.ledger, k, answer)
    BY <1>1, <1>4 DEF RecordAnswer
  <2>4. /\ DOMAIN state'.ledger = DOMAIN state.ledger \cup {k}
        /\ state'.ledger[k] = answer
        /\ \A x \in DOMAIN state.ledger : state'.ledger[x] = state.ledger[x]
    BY <2>2, <2>3 DEF Put
  <2> HIDE DEF k, e
  <2>5. (Shapes /\ AnswersAgree /\ LogConfirmed /\ StateRemembers /\ SnapshotsRemember)'
    BY <1>1, <2>1, <2>2, <2>4, AnswerKeepsMemory
  <2> QED
    BY <1>2, <2>5 DEF Memory
<1> QED
  BY <1>3, <1>4

-----------------------------------------------------------------------------
(* Snapshots, crashes and recovery.                                        *)

LEMMA SaveKeepsMemory ==
  ASSUME Memory, SaveCheckpoint
  PROVE  Memory'
<1> USE DEF Memory
<1>1. /\ phase = "saving" /\ phase' = "saved"
      /\ checkpoints' = Append(checkpoints, Snapshot)
      /\ state' = state /\ log' = log /\ completed' = completed
  BY DEF SaveCheckpoint, volatile, environment
<1>2. /\ Sequence(checkpoints')
      /\ \A c \in DOMAIN checkpoints' :
           \/ c \in DOMAIN checkpoints /\ checkpoints'[c] = checkpoints[c]
           \/ checkpoints'[c] = Snapshot
  BY <1>1, AppendSequence DEF Shapes
<1>3. Snapshot.logPosition = Len(log) /\ Snapshot.state = state /\ Len(log) \in Nat
  BY SequenceLen DEF Snapshot, Shapes
<1>4. Shapes'
  BY <1>1, <1>2, <1>3 DEF Shapes
<1>5. SnapshotsRemember'
  BY <1>1, <1>2, <1>3 DEF SnapshotsRemember, StateRemembers, Remembers, Confirmed
<1>6. (AnswersAgree /\ LogConfirmed /\ StateRemembers /\ InFlight)'
  BY <1>1 DEF AnswersAgree, LogConfirmed, StateRemembers, Remembers, Confirmed, InFlight
<1> QED
  BY <1>4, <1>5, <1>6

LEMMA CrashKeepsMemory ==
  ASSUME Memory, ProcessCrash
  PROVE  Memory'
<1> USE DEF Memory
<1>1. /\ phase' = "down" /\ state' = EmptyState
      /\ log' = log /\ checkpoints' = checkpoints /\ completed' = completed
  BY DEF ProcessCrash, durable, environment
<1>2. DOMAIN EmptyState = StateFields /\ DOMAIN EmptyState.ledger = {}
  BY DEF EmptyState, EmptyMap, StateFields
<1> QED
  BY <1>1, <1>2 DEF Shapes, AnswersAgree, LogConfirmed, StateRemembers, SnapshotsRemember,
     Remembers, Confirmed, InFlight

\* Folding the rest of the log into what a snapshot remembers gives a ledger
\* that remembers the whole log.
LEMMA FoldRemembers ==
  ASSUME Memory, NEW n \in 0..Len(log), NEW ledger, Remembers(ledger, n), Confirmed(ledger)
  PROVE  Remembers(FoldLogTail(n, ledger), Len(log)) /\ Confirmed(FoldLogTail(n, ledger))
<1> DEFINE tail == {i \in n + 1 .. Len(log) : Folded(i)}
           last(k) == CHOOSE i \in tail : /\ log[i].key = k
                                         /\ \A j \in tail : log[j].key = k => j =< i
           folded == FoldLogTail(n, ledger)
<1>1. Len(log) \in Nat /\ DOMAIN log = 1..Len(log)
  BY SequenceLen DEF Memory, Shapes
<1>2. \A i \in tail : i \in 1..Len(log) /\ IsAnswer(log[i])
  BY <1>1 DEF Folded, IsAnswer
<1>3. \A i \in 1..Len(log) : IsAnswer(log[i]) => i \in 1..n \/ i \in tail
  BY <1>1 DEF Folded, IsAnswer
<1>4. folded = [k \in DOMAIN ledger \cup {log[i].key : i \in tail} |->
                  IF \E i \in tail : log[i].key = k THEN log[last(k)].result ELSE ledger[k]]
  BY DEF FoldLogTail
<1>5. ASSUME NEW i \in tail
      PROVE  /\ log[i].key \in DOMAIN folded
             /\ folded[log[i].key] = log[i].result
  <2> DEFINE k == log[i].key
             same == {j \in tail : log[j].key = k}
  <2>1. same \subseteq 1..Len(log) /\ same # {}
    BY <1>2
  <2>2. \E j \in same : \A m \in same : m =< j
    <3> HIDE DEF same
    <3> QED
      BY <1>1, <2>1, GreatestElement
  <2>3. \E j \in tail : log[j].key = k /\ \A m \in tail : log[m].key = k => m =< j
    BY <2>2
  <2> HIDE DEF tail
  <2>4. last(k) \in tail /\ log[last(k)].key = k
    BY <2>3
  <2>5. log[last(k)].result = log[i].result
    BY <1>1, <1>2, <2>4 DEF Memory, AnswersAgree
  <2> HIDE DEF last
  <2> QED
    BY <1>4, <2>5
<1>6. ASSUME NEW k, \A i \in tail : log[i].key # k
      PROVE  /\ k \in DOMAIN folded <=> k \in DOMAIN ledger
             /\ k \in DOMAIN ledger => folded[k] = ledger[k]
  <2> HIDE DEF tail, last
  <2> QED
    BY <1>4, <1>6
<1>7. \A k \in DOMAIN folded :
        (k \in DOMAIN ledger /\ folded[k] = ledger[k]) \/ (\E i \in tail : log[i].key = k)
  <2> HIDE DEF tail, last, folded
  <2> QED
    BY <1>4, <1>6
<1> HIDE DEF tail, last, folded
<1>8. Remembers(folded, Len(log))
  <2> SUFFICES ASSUME NEW i \in 1..Len(log), IsAnswer(log[i])
               PROVE  /\ log[i].key \in DOMAIN folded => folded[log[i].key] = log[i].result
                      /\ log[i].key \notin DOMAIN folded =>
                           EnvTracksKeys /\ log[i].kind = "replayed"
    BY DEF Remembers
  <2>1. CASE \E j \in tail : log[j].key = log[i].key
    <3>1. PICK j \in tail : log[j].key = log[i].key
      BY <2>1
    <3>2. log[j].result = log[i].result
      BY <1>1, <1>2, <3>1 DEF Memory, AnswersAgree
    <3> QED
      BY <1>5, <3>1, <3>2
  <2>2. CASE \A j \in tail : log[j].key # log[i].key
    <3>1. i \in 1..n
      BY <1>3, <2>2
    <3> QED
      BY <1>6, <2>2, <3>1 DEF Remembers
  <2> QED
    BY <2>1, <2>2
<1>9. Confirmed(folded)
  <2> SUFFICES ASSUME EnvTracksKeys, NEW k \in DOMAIN folded
               PROVE  k \in DOMAIN completed /\ completed[k] = folded[k]
    BY DEF Confirmed
  <2>1. CASE k \in DOMAIN ledger /\ folded[k] = ledger[k]
    BY <2>1 DEF Confirmed
  <2>2. CASE \E i \in tail : log[i].key = k
    BY <1>1, <1>2, <1>5, <2>2 DEF Memory, LogConfirmed
  <2> QED
    BY <1>7, <2>1, <2>2
<1> QED
  BY <1>8, <1>9 DEF folded

LEMMA ResumeKeepsMemory ==
  ASSUME Memory, Resume
  PROVE  Memory'
<1> USE DEF Memory
<1>1. /\ phase' = "new" /\ state' = Resumption
      /\ checkpoints' = checkpoints /\ completed' = completed
      /\ \/ log' = log
         \/ log' = Append(log, Event("resumed", NoKey, Null, Last(checkpoints).sequence))
  BY DEF Resume, environment
<1>2. Len(log) \in Nat /\ Sequence(log) /\ Sequence(checkpoints)
  BY SequenceLen DEF Shapes
<1>3. /\ DOMAIN Resumption = StateFields
      /\ Remembers(Resumption.ledger, Len(log))
      /\ Confirmed(Resumption.ledger)
  <2>1. CASE checkpoints = <<>>
    <3>1. /\ DOMAIN Resumption = StateFields
          /\ Resumption.ledger = FoldLogTail(0, EmptyMap)
      BY <2>1 DEF Resumption, LedgerFromLog, EmptyState, StateFields
    <3>2. Remembers(EmptyMap, 0) /\ Confirmed(EmptyMap)
      BY DEF Remembers, Confirmed, EmptyMap
    <3> QED
      BY <1>2, <3>1, <3>2, FoldRemembers
  <2>2. CASE checkpoints # <<>>
    <3> DEFINE latest == Last(checkpoints)
    <3>1. /\ latest = checkpoints[Len(checkpoints)]
          /\ Len(checkpoints) \in DOMAIN checkpoints
      <4>1. PICK S : checkpoints \in Seq(S)
        BY <1>2 DEF Sequence
      <4> QED
        BY <2>2, <4>1 DEF Last
    <3>2. /\ latest.logPosition \in 0..Len(log)
          /\ DOMAIN latest.state = StateFields
          /\ Remembers(latest.state.ledger, latest.logPosition)
          /\ Confirmed(latest.state.ledger)
      BY <3>1 DEF Shapes, SnapshotsRemember
    <3>3. Resumption = [latest.state EXCEPT !.ledger = FoldLogTail(latest.logPosition, @)]
      BY <2>2 DEF Resumption
    <3> HIDE DEF latest
    <3>4. /\ DOMAIN Resumption = StateFields
          /\ Resumption.ledger = FoldLogTail(latest.logPosition, latest.state.ledger)
      BY <3>2, <3>3 DEF StateFields
    <3> QED
      BY <3>2, <3>4, FoldRemembers
  <2> QED
    BY <2>1, <2>2
<1>4. /\ Sequence(log')
      /\ Len(log') \in Nat /\ Len(log) =< Len(log')
      /\ DOMAIN log = 1..Len(log) /\ DOMAIN log' = 1..Len(log')
      /\ \A i \in DOMAIN log : log'[i] = log[i]
      /\ \A i \in DOMAIN log' : IsAnswer(log'[i]) => i \in DOMAIN log
  <2>1. CASE log' = log
    BY <1>2, <2>1, SequenceLen
  <2>2. CASE log' = Append(log, Event("resumed", NoKey, Null, Last(checkpoints).sequence))
    BY <1>2, <2>2, AppendSequence, QuietEvent
  <2> QED
    BY <1>1, <2>1, <2>2
<1>5. Shapes'
  <2>1. \A c \in DOMAIN checkpoints : checkpoints[c].logPosition \in 0..Len(log')
    BY <1>4, <1>2 DEF Shapes
  <2> QED
    BY <1>1, <1>3, <1>4, <2>1 DEF Shapes
<1>6. AnswersAgree'
  BY <1>4 DEF AnswersAgree
<1>7. LogConfirmed'
  BY <1>1, <1>4 DEF LogConfirmed
<1>8. StateRemembers'
  BY <1>1, <1>3, <1>4 DEF StateRemembers, Remembers, Confirmed
<1>9. SnapshotsRemember'
  <2> SUFFICES ASSUME NEW c \in DOMAIN checkpoints
               PROVE  (/\ Remembers(checkpoints[c].state.ledger, checkpoints[c].logPosition)
                       /\ Confirmed(checkpoints[c].state.ledger))'
    BY <1>1 DEF SnapshotsRemember
  <2>1. \A i \in 1..checkpoints[c].logPosition : i \in DOMAIN log
    BY <1>4 DEF Shapes
  <2>2. Confirmed(checkpoints[c].state.ledger)'
    BY <1>1 DEF SnapshotsRemember, Confirmed
  <2>3. Remembers(checkpoints[c].state.ledger, checkpoints[c].logPosition)
    BY DEF SnapshotsRemember
  <2>4. Remembers(checkpoints[c].state.ledger, checkpoints[c].logPosition)'
    BY <1>1, <1>4, <2>1, <2>3 DEF Remembers
  <2> QED
    BY <2>2, <2>4
<1>10. InFlight'
  BY <1>1 DEF InFlight
<1> QED
  BY <1>5, <1>6, <1>7, <1>8, <1>9, <1>10

LEMMA StutterKeepsMemory ==
  ASSUME Memory, UNCHANGED vars
  PROVE  Memory'
<1>1. /\ phase' = phase /\ state' = state /\ answer' = answer /\ stack' = stack /\ path' = path
      /\ log' = log /\ checkpoints' = checkpoints /\ completed' = completed
  BY DEF vars, volatile, durable, environment
<1>2. EffectiveKey' = EffectiveKey
  BY <1>1 DEF EffectiveKey, Step, Top
<1>3. InFlight'
  BY <1>1, <1>2 DEF Memory, InFlight
<1> QED
  BY <1>1, <1>3 DEF Memory, Shapes, AnswersAgree, LogConfirmed, StateRemembers,
     SnapshotsRemember, Remembers, Confirmed

\* Memory is inductive.
LEMMA NextKeepsMemory == Memory /\ [Next]_vars => Memory'
<1> SUFFICES ASSUME Memory, [Next]_vars PROVE Memory'
  OBVIOUS
<1>1. CASE Begin \/ Bind \/ Skip \/ RecordError \/ Reject \/ Return \/ Control
             \/ RaiseTypeError \/ RaiseIterationLimit \/ LogCheckpoint
  BY <1>1, WalkKeepsMemory
<1>2. CASE ReplayEffect
  BY <1>2, ReplayKeepsMemory
<1>3. CASE Invoke
  BY <1>3, InvokeKeepsMemory
<1>4. CASE EnvAnswers
  BY <1>4, EnvAnswersKeepsMemory
<1>5. CASE RecordEffect
  BY <1>5, RecordKeepsMemory
<1>6. CASE SaveCheckpoint
  BY <1>6, SaveKeepsMemory
<1>7. CASE EnvFails \/ EnvCrashes
  BY <1>7, FaultInCallKeepsMemory
<1>8. CASE ProcessCrash
  BY <1>8, CrashKeepsMemory
<1>9. CASE Resume
  BY <1>9, ResumeKeepsMemory
<1>10. CASE UNCHANGED vars
  BY <1>10, StutterKeepsMemory
<1> QED
  BY <1>1, <1>2, <1>3, <1>4, <1>5, <1>6, <1>7, <1>8, <1>9, <1>10
     DEF Next, Progress, External, Fault, Terminated

\* Ledger, log, snapshots and environment agree in every reachable state.
THEOREM MemoryInvariant == Spec => []Memory
<1>1. Init => Memory
  BY InitMemory
<1>2. Memory /\ [Next]_vars => Memory'
  BY NextKeepsMemory
<1> QED
  BY <1>1, <1>2, PTL DEF Spec

-----------------------------------------------------------------------------
(* What it is for.                                                         *)

\* Whatever the program is told about one key, over any number of crashes, is
\* one value (recovery.rs, fold_log_tail; executor.rs, run_external).
THEOREM AnswersAlwaysAgree == Spec => []AnswersAgree
<1>1. Memory => AnswersAgree
  BY DEF Memory
<1> QED
  BY <1>1, MemoryInvariant, PTL

\* Recovery may skip the log before a snapshot: the snapshot's ledger holds
\* every effect logged there, with its result (executor.rs, maybe_checkpoint).
THEOREM SnapshotsAlwaysCover == Spec => []SnapshotsCoverTheLog
<1>1. Memory => SnapshotsCoverTheLog
  <2> SUFFICES ASSUME Memory, NEW c \in DOMAIN checkpoints,
                      NEW i \in 1 .. checkpoints[c].logPosition,
                      log[i].kind = "effect", log[i].key # NoKey
               PROVE  /\ log[i].key \in DOMAIN checkpoints[c].state.ledger
                      /\ checkpoints[c].state.ledger[log[i].key] = log[i].result
    BY DEF SnapshotsCoverTheLog
  <2> QED
    BY DEF Memory, SnapshotsRemember, Remembers, IsAnswer
<1> QED
  BY <1>1, MemoryInvariant, PTL

\* No effect the log records ever reaches the world again, with or without an
\* environment that tracks keys (executor.rs, run_external; recovery.rs).
THEOREM LoggedEffectsAreOver == Spec => LoggedEffectsNeverRepeat
<1> DEFINE Fresh == \A n \in DOMAIN calls' \ DOMAIN calls :
                      ~ \E i \in DOMAIN log : IsAnswer(log[i]) /\ log[i].key = calls'[n].key
<1>1. Memory /\ Typed /\ [Next]_vars => [Fresh]_vars
  <2> SUFFICES ASSUME Memory, Typed, [Next]_vars PROVE Fresh
    OBVIOUS
  <2>1. CASE calls' = calls
    BY <2>1
  <2>2. CASE EnvAnswers \/ EnvFails \/ EnvCrashes
    <3>1. PICK applied \in BOOLEAN : calls' = Append(calls, Call(applied))
      BY <2>2, CallsAppend
    <3>2. \A n \in DOMAIN calls' \ DOMAIN calls : calls'[n] = Call(applied)
      BY <3>1, AppendSequence DEF Typed, WorldTyped
    <3>3. Call(applied).key = EffectiveKey
      BY DEF Call
    <3>4. \A i \in DOMAIN log : ~ (IsAnswer(log[i]) /\ log[i].key = EffectiveKey)
      <4>1. CASE EffectiveKey = NoKey
        BY <4>1 DEF IsAnswer
      <4>2. CASE EffectiveKey # NoKey
        BY <2>2, <4>2 DEF Memory, InFlight, EnvAnswers, EnvFails, EnvCrashes
      <4> QED
        BY <4>1, <4>2
    <3> QED
      BY <3>2, <3>3, <3>4
  <2> QED
    BY <2>1, <2>2, OnlyTheEnvironmentCalls
<1>2. LoggedEffectsNeverRepeat <=> [][Fresh]_vars
  BY DEF LoggedEffectsNeverRepeat
<1> QED
  BY <1>1, <1>2, MemoryInvariant, TypedInvariant, PTL DEF Spec

-----------------------------------------------------------------------------
(* Writes.                                                                 *)

\* The environment has the key of every write it was asked for.
WritesKnown ==
  EnvTracksKeys =>
    /\ \A n \in DOMAIN calls : calls[n].write => calls[n].key \in DOMAIN completed
    /\ WritesAppliedOnce

LEMMA NextKeepsWritesKnown ==
  ASSUME Typed, Memory, WritesKnown, [Next]_vars
  PROVE  WritesKnown'
<1> SUFFICES ASSUME EnvTracksKeys
             PROVE  (/\ \A n \in DOMAIN calls : calls[n].write => calls[n].key \in DOMAIN completed
                     /\ WritesAppliedOnce)'
  BY DEF WritesKnown
<1>1. CASE UNCHANGED <<calls, completed>>
  BY <1>1 DEF WritesKnown, WritesAppliedOnce
<1>2. CASE EnvAnswers \/ EnvFails \/ EnvCrashes
  <2>1. PICK applied \in BOOLEAN : calls' = Append(calls, Call(applied))
    BY <1>2, CallsAppend
  <2> DEFINE c == Call(applied)
  <2>2. c.key = EffectiveKey /\ c.write = IsWrite(Step.effect)
    BY DEF Call
  <2>3. phase = "calling"
    BY <1>2 DEF EnvAnswers, EnvFails, EnvCrashes
  <2>4. ASSUME c.write
        PROVE  /\ c.key \notin DOMAIN completed
               /\ c.key \in DOMAIN completed'
    <3>1. EffectiveKey # NoKey
      <4>1. Step.op \in OperationId /\ path \in Seq(Nat)
        BY <2>3, StepTyped DEF Typed, WalkTyped, InStep
      <4>2. EffectiveKey = <<Step.op, path>>
        BY <2>2, <2>4 DEF EffectiveKey, IsWrite, IsReplayable
      <4> QED
        BY <4>1, <4>2, KeyAssumption DEF Key
    <3>2. \E result : completed' = Completed(EffectiveKey, result)
      BY <1>2, <2>2, <2>4 DEF EnvAnswers, EnvFails, EnvCrashes, AppliedUnacknowledged, LostAck
    <3>3. EffectiveKey \in DOMAIN completed'
      BY <3>1, <3>2 DEF Completed, Put
    <3> QED
      BY <2>2, <2>3, <3>1, <3>3 DEF Memory, InFlight
  <2>5. DOMAIN completed \subseteq DOMAIN completed'
    <3>1. \/ completed' = completed
          \/ \E result : completed' = Completed(EffectiveKey, result)
      BY <1>2, CallsAppend
    <3> QED
      BY <3>1 DEF Completed, Put
  <2>6. /\ DOMAIN calls = 1..Len(calls) /\ DOMAIN calls' = 1..Len(calls) + 1
        /\ Len(calls) \in Nat
        /\ \A n \in DOMAIN calls : calls'[n] = calls[n]
        /\ calls'[Len(calls) + 1] = c
    BY <2>1, AppendSequence DEF Typed, WorldTyped
  <2>7. \A n \in DOMAIN calls' : n \in DOMAIN calls \/ n = Len(calls) + 1
    BY <2>6
  <2>8. /\ \A n \in DOMAIN calls : calls[n].write => calls[n].key \in DOMAIN completed
        /\ WritesAppliedOnce
    BY DEF WritesKnown
  <2> HIDE DEF c
  <2>9. \A n \in DOMAIN calls' : calls'[n].write => calls'[n].key \in DOMAIN completed'
    BY <2>4, <2>5, <2>6, <2>7, <2>8
  <2>10. WritesAppliedOnce'
    <3> SUFFICES ASSUME NEW m \in DOMAIN calls', NEW n \in DOMAIN calls',
                        calls'[m].write, calls'[n].write, calls'[m].applied, calls'[n].applied,
                        calls'[m].key = calls'[n].key
                 PROVE  m = n
      BY DEF WritesAppliedOnce
    <3>1. CASE m \in DOMAIN calls /\ n \in DOMAIN calls
      BY <2>6, <2>8, <3>1 DEF WritesAppliedOnce
    <3>2. CASE m \in DOMAIN calls /\ n = Len(calls) + 1
      BY <2>4, <2>6, <2>8, <3>2
    <3>3. CASE m = Len(calls) + 1 /\ n \in DOMAIN calls
      BY <2>4, <2>6, <2>8, <3>3
    <3> QED
      BY <2>7, <3>1, <3>2, <3>3
  <2> QED
    BY <2>9, <2>10
<1> QED
  BY <1>1, <1>2, OnlyTheEnvironmentCalls

\* With an environment that tracks keys no write is applied twice, the one
\* whose acknowledgement was lost included (env.rs, RecordingEnvironment).
THEOREM WritesHappenOnce == Spec => [](EnvTracksKeys => WritesAppliedOnce)
<1>1. Init => WritesKnown
  BY EmptySequence, SequenceLen DEF Init, WritesKnown, WritesAppliedOnce
<1>2. Typed /\ Memory /\ WritesKnown /\ [Next]_vars => WritesKnown'
  BY NextKeepsWritesKnown
<1>3. WritesKnown => (EnvTracksKeys => WritesAppliedOnce)
  BY DEF WritesKnown
<1> QED
  BY <1>1, <1>2, <1>3, TypedInvariant, MemoryInvariant, PTL DEF Spec

-----------------------------------------------------------------------------
(* Answers stand for effects.                                              *)

\* The keys of the calls that were applied.
AppliedKeys == {calls[n].key : n \in {m \in DOMAIN calls : calls[m].applied}}

\* No handler of a write returns an error: the environment would have recorded
\* the key already (env.rs, RecordingEnvironment).
WritesSucceed ==
  \A p \in PlanId : \A i \in DOMAIN Plan[p] :
    IsWrite(Plan[p][i].effect) => Plan[p][i].target \notin Failing

\* Whoever knows a key knows it of an effect that was applied.
Backed ==
  /\ DOMAIN completed \subseteq AppliedKeys
  /\ DOMAIN state.ledger \subseteq AppliedKeys
  /\ \A c \in DOMAIN checkpoints : DOMAIN checkpoints[c].state.ledger \subseteq AppliedKeys
  /\ \A i \in DOMAIN log : IsAnswer(log[i]) => log[i].key \in AppliedKeys
  /\ phase = "answered" /\ EffectiveKey # NoKey => EffectiveKey \in AppliedKeys

LEMMA AppendedCall ==
  ASSUME Typed, NEW applied \in BOOLEAN, calls' = Append(calls, Call(applied))
  PROVE  AppliedKeys' = AppliedKeys \cup (IF applied THEN {EffectiveKey} ELSE {})
<1> DEFINE c == Call(applied)
<1>1. c.key = EffectiveKey /\ c.applied = applied
  BY DEF Call
<1>2. /\ DOMAIN calls' = DOMAIN calls \cup {Len(calls) + 1}
      /\ \A n \in DOMAIN calls : calls'[n] = calls[n]
      /\ calls'[Len(calls) + 1] = c
  BY AppendSequence DEF Typed, WorldTyped
<1> HIDE DEF c
<1> QED
  BY <1>1, <1>2 DEF AppliedKeys

LEMMA AppliedStays ==
  ASSUME Typed, [Next]_vars
  PROVE  AppliedKeys \subseteq AppliedKeys'
<1>1. CASE UNCHANGED <<calls, completed>>
  BY <1>1 DEF AppliedKeys
<1>2. CASE EnvAnswers \/ EnvFails \/ EnvCrashes
  BY <1>2, CallsAppend, AppendedCall
<1> QED
  BY <1>1, <1>2, OnlyTheEnvironmentCalls

\* What a step must show: that whatever it adds to a memory was applied.
LEMMA StaysBacked ==
  ASSUME Typed, Backed, [Next]_vars, checkpoints' = checkpoints,
         DOMAIN completed' \subseteq DOMAIN completed \cup AppliedKeys',
         DOMAIN state'.ledger \subseteq DOMAIN state.ledger \cup AppliedKeys',
         \/ log' = log
         \/ \E e : log' = Append(log, e) /\ (IsAnswer(e) => e.key \in AppliedKeys'),
         (phase = "answered" /\ EffectiveKey # NoKey => EffectiveKey \in AppliedKeys)'
  PROVE  Backed'
<1>1. AppliedKeys \subseteq AppliedKeys'
  BY AppliedStays
<1>2. \A i \in DOMAIN log' : IsAnswer(log'[i]) => log'[i].key \in AppliedKeys'
  <2>1. CASE log' = log
    BY <1>1, <2>1 DEF Backed
  <2>2. CASE \E e : log' = Append(log, e) /\ (IsAnswer(e) => e.key \in AppliedKeys')
    <3>1. PICK e : log' = Append(log, e) /\ (IsAnswer(e) => e.key \in AppliedKeys')
      BY <2>2
    <3>2. \A i \in DOMAIN log' : (i \in DOMAIN log /\ log'[i] = log[i]) \/ log'[i] = e
      BY <3>1, AppendSequence DEF Typed, LogTyped
    <3> QED
      BY <1>1, <3>1, <3>2 DEF Backed
  <2> QED
    BY <2>1, <2>2
<1> QED
  BY <1>1, <1>2 DEF Backed

LEMMA WalkKeepsBacked ==
  ASSUME Typed, Shapes, Backed, [Next]_vars,
         Begin \/ Bind \/ Skip \/ RecordError \/ Reject \/ Return \/ Control
           \/ RaiseTypeError \/ RaiseIterationLimit \/ LogCheckpoint
  PROVE  Backed'
<1>1. Quiet /\ phase' # "answered"
  BY WalkIsQuiet
<1>2. completed' = completed
  BY DEF Begin, Bind, Skip, RecordError, Reject, Return, Control, RaiseTypeError,
     RaiseIterationLimit, LogCheckpoint, EnterIf, EnterParallel, EnterLoop, EnterWhile,
     LeaveFunction, LeaveRegion, LeaveLoopBody, LeaveCondition, LeaveWhileBody, Finish, Fail,
     environment
<1> QED
  BY <1>1, <1>2, StaysBacked DEF Quiet

LEMMA EffectsKeepBacked ==
  ASSUME Typed, Backed, [Next]_vars, ReplayEffect \/ Invoke \/ RecordEffect
  PROVE  Backed'
<1>0. AppliedKeys \subseteq AppliedKeys'
  BY AppliedStays
<1>1. checkpoints' = checkpoints /\ completed' = completed /\ DOMAIN state = StateFields
  BY DEF ReplayEffect, Invoke, RecordEffect, environment, Typed, DataTyped, GoodState
<1>2. CASE ReplayEffect
  <2>1. EffectiveKey \in AppliedKeys /\ phase' = "running"
    BY <1>2 DEF ReplayEffect, At, AlreadyDone, InLedger, InEnvironment, Backed
  <2>2. state'.ledger = state.ledger
    BY <1>1, <1>2 DEF ReplayEffect, StateFields
  <2>3. PICK result : log' = Append(log, Event("replayed", EffectiveKey, result, 0))
    BY <1>2 DEF ReplayEffect
  <2>4. Event("replayed", EffectiveKey, result, 0).key = EffectiveKey
    BY DEF Event
  <2> QED
    BY <1>0, <1>1, <2>1, <2>2, <2>3, <2>4, StaysBacked
<1>3. CASE Invoke
  <2>1. state'.ledger = state.ledger /\ phase' # "answered"
    BY <1>1, <1>3 DEF Invoke, StateFields
  <2>2. log' = log \/ \E e : ~IsAnswer(e) /\ log' = Append(log, e)
    BY <1>3, QuietEvent DEF Invoke
  <2> QED
    BY <1>1, <2>1, <2>2, StaysBacked
<1>4. CASE RecordEffect
  <2>1. phase = "answered" /\ phase' # "answered"
    BY <1>4 DEF RecordEffect
  <2>2. EffectiveKey # NoKey => EffectiveKey \in AppliedKeys
    BY <2>1 DEF Backed
  <2>3. state' = [state EXCEPT !.ledger = RecordAnswer,
                               !.values = BindResults(@, Step.results, answer)]
    BY <1>4 DEF RecordEffect
  <2>4. state'.ledger = RecordAnswer
    BY <1>1, <2>3 DEF StateFields
  <2>5. DOMAIN RecordAnswer \subseteq DOMAIN state.ledger \cup AppliedKeys
    BY <2>2 DEF RecordAnswer, Put
  <2>6. log' = Append(log, Event("effect", EffectiveKey, answer, 0))
    BY <1>4 DEF RecordEffect
  <2>7. /\ Event("effect", EffectiveKey, answer, 0).key = EffectiveKey
        /\ IsAnswer(Event("effect", EffectiveKey, answer, 0)) => EffectiveKey # NoKey
    BY DEF Event, IsAnswer
  <2> QED
    BY <1>0, <1>1, <2>1, <2>2, <2>4, <2>5, <2>6, <2>7, StaysBacked
<1> QED
  BY <1>2, <1>3, <1>4

LEMMA CallsKeepBacked ==
  ASSUME Typed, Backed, EnvTracksKeys => WritesSucceed, [Next]_vars,
         EnvAnswers \/ EnvFails \/ EnvCrashes
  PROVE  Backed'
<1>0. AppliedKeys \subseteq AppliedKeys'
  BY AppliedStays
<1>1. checkpoints' = checkpoints /\ state' = state
  BY DEF EnvAnswers, EnvFails, EnvCrashes, durable, volatile
<1>2. log' = log \/ \E e : ~IsAnswer(e) /\ log' = Append(log, e)
  BY QuietEvent DEF EnvAnswers, EnvFails, EnvCrashes, durable
<1>3. CASE EnvAnswers \/ EnvCrashes
  <2>1. calls' = Append(calls, Call(TRUE))
    BY <1>3 DEF EnvAnswers, EnvCrashes, AppliedUnacknowledged, LostAck
  <2>2. EffectiveKey \in AppliedKeys'
    BY <2>1, AppendedCall
  <2>3. \E result : completed' = Completed(EffectiveKey, result)
    BY <1>3 DEF EnvAnswers, EnvCrashes, AppliedUnacknowledged, LostAck
  <2>4. DOMAIN completed' \subseteq DOMAIN completed \cup AppliedKeys'
    BY <2>2, <2>3 DEF Completed, Put
  <2>5. stack' = stack /\ path' = path
    BY <1>3 DEF EnvAnswers, EnvCrashes, volatile
  <2>6. EffectiveKey' = EffectiveKey
    BY <2>5 DEF EffectiveKey, Step, Top
  <2> QED
    BY <1>1, <1>2, <2>2, <2>4, <2>6, StaysBacked
<1>4. CASE EnvFails
  <2>1. phase' = "failed"
    BY <1>4 DEF EnvFails
  <2>2. completed' = completed
    <3>1. CASE ~EnvTracksKeys
      BY <1>4, <3>1 DEF EnvFails, Completed
    <3>2. CASE EnvTracksKeys
      <4>1. Top.plan \in PlanId /\ Top.pc \in DOMAIN Plan[Top.plan]
        <5>1. WellNested(stack) /\ stack # <<>> /\ ~Exhausted
          BY <1>4 DEF EnvFails, Typed, WalkTyped, InStep
        <5>2. Frame(Top)
          BY <5>1, WellNestedTop
        <5> QED
          BY <5>1, <5>2, PlanAssumption DEF Frame, Exhausted
      <4>2. ~IsWrite(Step.effect)
        BY <1>4, <3>2, <4>1 DEF EnvFails, WritesSucceed, Step
      <4> QED
        BY <1>4, <4>2 DEF EnvFails
    <3> QED
      BY <3>1, <3>2
  <2> QED
    BY <1>1, <1>2, <2>1, <2>2, StaysBacked
<1> QED
  BY <1>3, <1>4

LEMMA RestartKeepsBacked ==
  ASSUME Typed, Backed, [Next]_vars, ProcessCrash \/ Resume
  PROVE  Backed'
<1>1. checkpoints' = checkpoints /\ completed' = completed /\ phase' # "answered"
  BY DEF ProcessCrash, Resume, durable, environment
<1>2. log' = log \/ \E e : ~IsAnswer(e) /\ log' = Append(log, e)
  BY QuietEvent DEF ProcessCrash, Resume, durable
<1>3. DOMAIN state'.ledger \subseteq AppliedKeys
  <2>1. CASE ProcessCrash
    BY <2>1 DEF ProcessCrash, EmptyState, EmptyMap
  <2>2. ASSUME NEW n \in Nat, NEW ledger, DOMAIN ledger \subseteq AppliedKeys
        PROVE  DOMAIN FoldLogTail(n, ledger) \subseteq AppliedKeys
    <3>1. \A i \in n + 1 .. Len(log) : Folded(i) => log[i].key \in AppliedKeys
      BY SequenceLen DEF Typed, LogTyped, Backed, Folded, IsAnswer
    <3> QED
      BY <2>2, <3>1 DEF FoldLogTail
  <2>3. CASE Resume /\ checkpoints = <<>>
    <3>1. DOMAIN FoldLogTail(0, EmptyMap) \subseteq AppliedKeys
      BY <2>2 DEF EmptyMap
    <3> QED
      BY <2>3, <3>1 DEF Resume, Resumption, LedgerFromLog, EmptyState
  <2>4. CASE Resume /\ checkpoints # <<>>
    <3> DEFINE latest == Last(checkpoints)
    <3>1. Len(checkpoints) \in DOMAIN checkpoints /\ latest = checkpoints[Len(checkpoints)]
      <4>1. PICK S : checkpoints \in Seq(S)
        BY DEF Typed, SnapshotsTyped, Sequence
      <4> QED
        BY <2>4, <4>1 DEF Last
    <3>2. /\ DOMAIN latest.state = StateFields /\ latest.logPosition \in Nat
          /\ DOMAIN latest.state.ledger \subseteq AppliedKeys
      BY <3>1, SequenceLen DEF Backed, Typed, SnapshotsTyped, LogTyped, GoodState
    <3>3. state' = [latest.state EXCEPT !.ledger = FoldLogTail(latest.logPosition, @)]
      BY <2>4 DEF Resume, Resumption
    <3> HIDE DEF latest
    <3>4. state'.ledger = FoldLogTail(latest.logPosition, latest.state.ledger)
      BY <3>2, <3>3 DEF StateFields
    <3> QED
      BY <2>2, <3>2, <3>4
  <2> QED
    BY <2>1, <2>3, <2>4
<1> QED
  BY <1>1, <1>2, <1>3, AppliedStays, StaysBacked

LEMMA SaveKeepsBacked ==
  ASSUME Typed, Backed, SaveCheckpoint
  PROVE  Backed'
<1>1. /\ UNCHANGED <<log, state, calls, completed>> /\ phase' = "saved"
      /\ checkpoints' = Append(checkpoints, Snapshot)
  BY DEF SaveCheckpoint, volatile, environment
<1>2. \A c \in DOMAIN checkpoints' :
        (c \in DOMAIN checkpoints /\ checkpoints'[c] = checkpoints[c]) \/ checkpoints'[c] = Snapshot
  BY <1>1, AppendSequence DEF Typed, SnapshotsTyped
<1>3. Snapshot.state = state /\ AppliedKeys' = AppliedKeys
  BY <1>1 DEF Snapshot, AppliedKeys
<1> QED
  BY <1>1, <1>2, <1>3 DEF Backed

LEMMA NextKeepsBacked ==
  ASSUME Typed, Shapes, Backed, EnvTracksKeys => WritesSucceed, [Next]_vars
  PROVE  Backed'
<1>1. CASE UNCHANGED vars
  BY <1>1 DEF vars, volatile, durable, environment, Backed, AppliedKeys, EffectiveKey, Step, Top
<1>2. CASE Next
  BY <1>2, <1>1, WalkKeepsBacked, EffectsKeepBacked, CallsKeepBacked, RestartKeepsBacked,
     SaveKeepsBacked DEF Next, Progress, External, Fault, Terminated
<1> QED
  BY <1>1, <1>2

\* Whoever is running has said so.
Started == phase # "new" => \E i \in DOMAIN log : log[i].kind = "started"

LEMMA NextKeepsStarted ==
  ASSUME Typed, Started, [Next]_vars
  PROVE  Started'
<1>1. CASE Begin
  <2>1. log' = Append(log, Event("started", NoKey, Null, 0))
    BY <1>1 DEF Begin
  <2>2. Len(log) + 1 \in DOMAIN log' /\ log'[Len(log) + 1].kind = "started"
    BY <2>1, AppendSequence DEF Event, Typed, LogTyped
  <2> QED
    BY <2>2 DEF Started
<1>2. CASE ~Begin
  <2>1. log' = log \/ \E e : log' = Append(log, e)
    BY LogSteps
  <2>2. \A i \in DOMAIN log : i \in DOMAIN log' /\ log'[i] = log[i]
    BY <2>1, AppendSequence DEF Typed, LogTyped
  <2>3. phase' # "new" => phase # "new"
    BY <1>2 DEF Next, Progress, Control, External, Fault, Terminated, Bind, Skip, RecordError,
       Reject, Return, RaiseTypeError, RaiseIterationLimit, EnterIf, EnterParallel, EnterLoop,
       EnterWhile, LeaveFunction, LeaveRegion, LeaveLoopBody, LeaveCondition, LeaveWhileBody,
       ReplayEffect, Invoke, EnvAnswers, RecordEffect, SaveCheckpoint, LogCheckpoint, EnvFails,
       EnvCrashes, ProcessCrash, Resume, At, Leaving, Finish, Fail, vars
  <2> QED
    BY <2>2, <2>3 DEF Started
<1> QED
  BY <1>1, <1>2

LEMMA RunStartInLog ==
  ASSUME Typed, Started, phase # "new"
  PROVE  RunStart \in DOMAIN log
<1> DEFINE S == {i \in DOMAIN log : log[i].kind = "started"}
<1>1. DOMAIN log = 1..Len(log) /\ Len(log) \in Nat
  BY SequenceLen DEF Typed, LogTyped
<1>2. PICK i \in S : \A j \in S : j =< i
  <2>1. S \subseteq 1..Len(log) /\ S # {}
    BY <1>1 DEF Started
  <2> HIDE DEF S
  <2> QED
    BY <1>1, <2>1, GreatestElement
<1>3. \A j \in i + 1 .. Len(log) : log[j].kind # "started"
  BY <1>1, <1>2
<1> QED
  BY <1>2, <1>3 DEF RunStart

\* A finished run was told only of effects that were applied: of writes that
\* cannot fail, with an environment that tracks keys, and of any without one (the
\* finding about failed writes is what is left).
THEOREM FinishedRunsAreApplied ==
  Spec => []((EnvTracksKeys => WritesSucceed) => FinishedMeansApplied)
<1> DEFINE Inv == Started /\ ((EnvTracksKeys => WritesSucceed) => Backed)
<1>1. Init => Inv
  <2> SUFFICES ASSUME Init PROVE Started /\ Backed
    OBVIOUS
  <2>1. DOMAIN log = {} /\ DOMAIN checkpoints = {} /\ phase = "new"
    BY EmptySequence, SequenceLen DEF Init
  <2>2. DOMAIN completed = {} /\ DOMAIN state.ledger = {}
    BY DEF Init, EmptyState, EmptyMap
  <2> QED
    BY <2>1, <2>2 DEF Backed, Started
<1>2. Typed /\ Memory /\ Inv /\ [Next]_vars => Inv'
  BY NextKeepsBacked, NextKeepsStarted DEF Memory
<1>3. Typed /\ Inv => ((EnvTracksKeys => WritesSucceed) => FinishedMeansApplied)
  <2> SUFFICES ASSUME Typed, Started, Backed, phase = "finished",
                      NEW i \in RunStart .. Len(log), IsAnswer(log[i])
               PROVE  \E n \in DOMAIN calls : calls[n].key = log[i].key /\ calls[n].applied
    BY DEF FinishedMeansApplied
  <2>1. i \in DOMAIN log
    BY RunStartInLog, SequenceLen DEF Typed, LogTyped
  <2> QED
    BY <2>1 DEF Backed, AppliedKeys
<1> QED
  BY <1>1, <1>2, <1>3, TypedInvariant, MemoryInvariant, PTL DEF Spec

-----------------------------------------------------------------------------
(* Checkpoint events.                                                      *)

\* Between the save and its event nothing else is logged.
Announced ==
  /\ LoggedCheckpointsExist
  /\ phase = "saved" =>
       \E c \in DOMAIN checkpoints : /\ checkpoints[c].sequence = counters.sequence
                                     /\ checkpoints[c].logPosition = Len(log)

LEMMA OtherStepsAnnounceNothing ==
  ASSUME [Next]_vars, ~SaveCheckpoint, ~LogCheckpoint
  PROVE  /\ checkpoints' = checkpoints
         /\ log' = log \/ \E e : e.kind # "checkpoint" /\ log' = Append(log, e)
         /\ phase' = "saved" => UNCHANGED vars
<1>0. \A kind, key, result, number : Event(kind, key, result, number).kind = kind
  BY DEF Event
<1>1. CASE Begin \/ Bind \/ Skip \/ RecordError \/ Reject \/ Return
             \/ RaiseTypeError \/ RaiseIterationLimit
  BY <1>0, <1>1 DEF Begin, Bind, Skip, RecordError, Reject, Return, RaiseTypeError,
     RaiseIterationLimit, At, Leaving, Finish, Fail, durable
<1>2. CASE Control
  BY <1>0, <1>2 DEF Control, EnterIf, EnterParallel, EnterLoop, EnterWhile, LeaveFunction,
     LeaveRegion, LeaveLoopBody, LeaveCondition, LeaveWhileBody, At, Leaving, Finish, durable
<1>3. CASE ReplayEffect \/ Invoke \/ RecordEffect \/ EnvAnswers \/ EnvFails \/ EnvCrashes
             \/ ProcessCrash \/ Resume
  <2>1. checkpoints' = checkpoints /\ phase' # "saved"
    BY <1>3 DEF ReplayEffect, Invoke, RecordEffect, EnvAnswers, EnvFails, EnvCrashes,
       ProcessCrash, Resume, At, durable
  <2>2. \/ log' = log
        \/ \E kind, key, result, number :
             kind # "checkpoint" /\ log' = Append(log, Event(kind, key, result, number))
    BY <1>3 DEF ReplayEffect, Invoke, RecordEffect, EnvAnswers, EnvFails, EnvCrashes,
       ProcessCrash, Resume, durable
  <2> QED
    BY <1>0, <2>1, <2>2
<1>4. CASE UNCHANGED vars
  BY <1>4 DEF vars, durable
<1> QED
  BY <1>1, <1>2, <1>3, <1>4 DEF Next, Progress, External, Fault, Terminated

LEMMA NextKeepsAnnounced ==
  ASSUME Typed, Announced, [Next]_vars
  PROVE  Announced'
<1>0. /\ Sequence(log) /\ Len(log) \in Nat /\ DOMAIN log = 1..Len(log)
      /\ Sequence(checkpoints) /\ Len(checkpoints) \in Nat
      /\ DOMAIN checkpoints = 1..Len(checkpoints)
  BY SequenceLen DEF Typed, LogTyped, SnapshotsTyped
<1>1. CASE SaveCheckpoint
  <2>1. /\ checkpoints' = Append(checkpoints, Snapshot)
        /\ log' = log /\ counters' = counters
    BY <1>1 DEF SaveCheckpoint, volatile
  <2>2. /\ DOMAIN checkpoints' = 1..Len(checkpoints) + 1
        /\ \A c \in DOMAIN checkpoints : checkpoints'[c] = checkpoints[c]
        /\ checkpoints'[Len(checkpoints) + 1] = Snapshot
    BY <1>0, <2>1, AppendSequence
  <2>3. LoggedCheckpointsExist'
    BY <1>0, <2>1, <2>2 DEF Announced, LoggedCheckpointsExist
  <2>4. Snapshot.sequence = counters.sequence /\ Snapshot.logPosition = Len(log)
    BY DEF Snapshot
  <2> QED
    BY <1>0, <2>1, <2>2, <2>3, <2>4 DEF Announced
<1>2. CASE LogCheckpoint
  <2>1. /\ phase = "saved" /\ phase' = "running" /\ checkpoints' = checkpoints
        /\ log' = Append(log, Event("checkpoint", NoKey, Null, counters.sequence))
    BY <1>2 DEF LogCheckpoint
  <2>2. /\ DOMAIN log' = 1..Len(log) + 1
        /\ \A i \in DOMAIN log : log'[i] = log[i]
        /\ log'[Len(log) + 1].number = counters.sequence
    BY <1>0, <2>1, AppendSequence DEF Event
  <2>3. PICK c \in DOMAIN checkpoints : /\ checkpoints[c].sequence = counters.sequence
                                        /\ checkpoints[c].logPosition = Len(log)
    BY <2>1 DEF Announced
  <2>4. ASSUME NEW i \in DOMAIN log', log'[i].kind = "checkpoint"
        PROVE  \E d \in DOMAIN checkpoints : /\ checkpoints[d].sequence = log'[i].number
                                             /\ checkpoints[d].logPosition = i - 1
    <3>1. CASE i \in DOMAIN log
      BY <2>2, <2>4, <3>1 DEF Announced, LoggedCheckpointsExist
    <3>2. CASE i = Len(log) + 1
      BY <1>0, <2>2, <2>3, <3>2
    <3> QED
      BY <1>0, <2>2, <3>1, <3>2
  <2> QED
    BY <2>1, <2>4 DEF Announced, LoggedCheckpointsExist
<1>3. CASE ~SaveCheckpoint /\ ~LogCheckpoint
  <2>1. /\ checkpoints' = checkpoints
        /\ log' = log \/ \E e : e.kind # "checkpoint" /\ log' = Append(log, e)
        /\ phase' = "saved" => UNCHANGED vars
    BY <1>3, OtherStepsAnnounceNothing
  <2>2. \A i \in DOMAIN log' :
          (i \in DOMAIN log /\ log'[i] = log[i]) \/ log'[i].kind # "checkpoint"
    <3>1. CASE log' = log
      BY <3>1
    <3>2. CASE \E e : e.kind # "checkpoint" /\ log' = Append(log, e)
      BY <1>0, <3>2, AppendSequence
    <3> QED
      BY <2>1, <3>1, <3>2
  <2>3. LoggedCheckpointsExist'
    BY <2>1, <2>2 DEF Announced, LoggedCheckpointsExist
  <2> QED
    BY <2>1, <2>3 DEF Announced, vars, volatile, durable
<1> QED
  BY <1>1, <1>2, <1>3

\* Whoever reads a checkpoint event in the log finds the snapshot in the store
\* (executor.rs, maybe_checkpoint: save, then record).
THEOREM LoggedCheckpointsAreSaved == Spec => []LoggedCheckpointsExist
<1>1. Init => Announced
  BY EmptySequence, SequenceLen DEF Init, Announced, LoggedCheckpointsExist
<1>2. Typed /\ Announced /\ [Next]_vars => Announced'
  BY NextKeepsAnnounced
<1>3. Announced => LoggedCheckpointsExist
  BY DEF Announced
<1> QED
  BY <1>1, <1>2, <1>3, TypedInvariant, PTL DEF Spec

-----------------------------------------------------------------------------
(* The loop guard (executor.rs, check_loop_guard).  It counts in the state *)
(* of the executor, which is lost and resumed from snapshots; what it      *)
(* bounds is the calls the environment sees.  A resumed count may be too   *)
(* high, never too low: the calls it has to bound are those of one run.    *)

\* The calls of a run with a signature: target and arguments.
Of(run, signature) ==
  {n \in DOMAIN calls : calls[n].run = run /\ <<calls[n].target, calls[n].args>> = signature}

\* What a state has counted; it counts in Nat.
Counted(s, signature) == IF signature \in DOMAIN s.repeats THEN s.repeats[signature] ELSE 0
Counts(s) == \A signature \in DOMAIN s.repeats : s.repeats[signature] \in Nat

\* Counted and not yet made.
Pending(signature) == IF phase = "calling" /\ signature = Signature THEN 1 ELSE 0

\* A run counts each call before it makes it, and makes none past the threshold.
Guarded ==
  /\ \A n \in DOMAIN calls : calls[n].run \in Nat /\ calls[n].run =< attempt
  /\ Counts(state)
  /\ \A c \in DOMAIN checkpoints : Counts(checkpoints[c].state)
  /\ \A run, signature : Cardinality(Of(run, signature)) =< RepeatThreshold
  /\ phase \notin {"down", "failed"} =>
       \A signature :
         Cardinality(Of(attempt, signature)) + Pending(signature) =< Counted(state, signature)
  /\ phase = "calling" => Counted(state, Signature) =< RepeatThreshold

LEMMA CallsAreFinite ==
  ASSUME Typed, NEW run, NEW signature
  PROVE  /\ IsFiniteSet(Of(run, signature))
         /\ Cardinality(Of(run, signature)) \in Nat
<1>1. DOMAIN calls = 1..Len(calls) /\ Len(calls) \in Nat
  BY SequenceLen DEF Typed, WorldTyped
<1>2. IsFiniteSet(DOMAIN calls)
  BY <1>1, FS_Interval
<1>3. Of(run, signature) \in SUBSET DOMAIN calls
  BY DEF Of
<1> QED
  BY <1>2, <1>3, FS_Subset, FS_CardinalityType

LEMMA CountedIsNat ==
  ASSUME NEW s, Counts(s), NEW signature
  PROVE  Counted(s, signature) \in Nat
BY DEF Counts, Counted

LEMMA InitGuarded == Init => Guarded
<1> SUFFICES ASSUME Init PROVE Guarded
  OBVIOUS
<1>1. DOMAIN calls = {} /\ DOMAIN checkpoints = {} /\ phase = "new"
  BY EmptySequence, SequenceLen DEF Init
<1>2. Counts(state) /\ \A signature : Counted(state, signature) = 0
  BY DEF Init, EmptyState, EmptyMap, Counts, Counted
<1>3. \A run, signature : Of(run, signature) = {}
  BY <1>1 DEF Of
<1>4. \A run, signature : Cardinality(Of(run, signature)) = 0
  BY <1>3, FS_EmptySet
<1> QED
  BY <1>1, <1>2, <1>4, PolicyAssumption DEF Guarded, Pending

-----------------------------------------------------------------------------
(* The steps.                                                              *)

\* Steps that neither count nor call.
Uncounted ==
  /\ UNCHANGED <<attempt, calls, checkpoints>>
  /\ state'.repeats = state.repeats
  /\ phase \notin {"down", "failed", "calling"}
  /\ phase' # "calling"

LEMMA UncountedStep ==
  ASSUME Typed, Guarded, Uncounted
  PROVE  Guarded'
<1>1. \A run, signature : Of(run, signature)' = Of(run, signature)
  BY DEF Uncounted, Of
<1>2. \A signature : Counted(state, signature)' = Counted(state, signature)
  BY DEF Uncounted, Counted
<1>3. \A signature : Pending(signature) = 0 /\ Pending(signature)' = 0
  BY DEF Uncounted, Pending
<1> QED
  BY <1>1, <1>2, <1>3 DEF Guarded, Counts, Uncounted

LEMMA WalkCountsNothing ==
  ASSUME Typed,
         Begin \/ Bind \/ Skip \/ RecordError \/ Reject \/ Return \/ Control
           \/ ReplayEffect \/ RecordEffect \/ LogCheckpoint
  PROVE  Uncounted
<1>0. DOMAIN state = {"values", "ledger", "rejected", "repeats"}
  BY DEF Typed, DataTyped, GoodState, StateFields
<1>1. CASE Begin \/ Bind \/ Skip \/ RecordError \/ Reject \/ Return
  BY <1>0, <1>1 DEF Begin, Bind, Skip, RecordError, Reject, Return, At, Finish, Uncounted,
     durable, environment, volatile
<1>2. CASE EnterIf \/ EnterParallel \/ EnterWhile \/ LeaveFunction \/ LeaveRegion
             \/ LeaveCondition \/ LeaveWhileBody
  BY <1>0, <1>2 DEF EnterIf, EnterParallel, EnterWhile, LeaveFunction, LeaveRegion,
     LeaveCondition, LeaveWhileBody, Leaving, At, Finish, Uncounted, durable, environment, volatile
<1>3. CASE EnterLoop \/ LeaveLoopBody
  <2>1. \/ state' = state
        \/ \E id, item : state' = [state EXCEPT !.values[id] = item]
    BY <1>3 DEF EnterLoop, LeaveLoopBody, BindItem
  <2>2. state'.repeats = state.repeats
    BY <1>0, <2>1
  <2> QED
    BY <1>3, <2>2 DEF EnterLoop, LeaveLoopBody, Leaving, At, Uncounted, durable, environment
<1>4. CASE ReplayEffect \/ LogCheckpoint
  BY <1>0, <1>4 DEF ReplayEffect, LogCheckpoint, At, Uncounted, environment, volatile
<1>5. CASE RecordEffect
  <2>1. state' = [state EXCEPT !.ledger = RecordAnswer,
                               !.values = BindResults(@, Step.results, answer)]
    BY <1>5 DEF RecordEffect
  <2>2. state'.repeats = state.repeats
    BY <1>0, <2>1
  <2> QED
    BY <1>5, <2>2 DEF RecordEffect, Uncounted, environment
<1> QED
  BY <1>1, <1>2, <1>3, <1>4, <1>5 DEF Control

\* The run is over or dead: what it has counted no longer matters.
LEMMA EndKeepsGuarded ==
  ASSUME Typed, Guarded, RaiseTypeError \/ RaiseIterationLimit \/ ProcessCrash
  PROVE  Guarded'
<1>1. /\ UNCHANGED <<attempt, calls, checkpoints>>
      /\ phase' \in {"down", "failed"}
      /\ state' \in {state, EmptyState}
  BY DEF RaiseTypeError, RaiseIterationLimit, ProcessCrash, Fail, volatile, durable, environment
<1>2. \A run, signature : Of(run, signature)' = Of(run, signature)
  BY <1>1 DEF Of
<1>3. Counts(state')
  BY <1>1 DEF Guarded, Counts, EmptyState, EmptyMap
<1> QED
  BY <1>1, <1>2, <1>3 DEF Guarded, Counts

LEMMA InvokeKeepsGuarded ==
  ASSUME Typed, Guarded, Invoke
  PROVE  Guarded'
<1>1. /\ UNCHANGED <<attempt, stack, calls, checkpoints>>
      /\ phase = "running"
      /\ state' = [state EXCEPT !.repeats = Put(@, Signature, Repeats)]
      /\ \/ Repeats =< RepeatThreshold /\ phase' = "calling"
         \/ phase' = "failed"
  BY DEF Invoke, At, environment
<1>2. state'.values = state.values /\ state'.repeats = Put(state.repeats, Signature, Repeats)
  BY <1>1 DEF Typed, DataTyped, GoodState, StateFields
<1>3. Signature' = Signature
  <2>1. Step' = Step
    BY <1>1 DEF Step, Top
  <2>2. Operands' = Operands
    BY <1>2, <2>1 DEF Operands
  <2> QED
    BY <2>1, <2>2 DEF Signature
<1>4. Repeats = Counted(state, Signature) + 1 /\ Counted(state, Signature) \in Nat
  BY CountedIsNat DEF Repeats, Counted, Guarded
<1>5. \A signature : Counted(state, signature)' =
        IF signature = Signature THEN Repeats ELSE Counted(state, signature)
  BY <1>2 DEF Counted, Put
<1>6. Counts(state')
  BY <1>2, <1>4 DEF Counts, Put, Guarded
<1>7. \A run, signature : Of(run, signature)' = Of(run, signature)
  BY <1>1 DEF Of
<1>8. ASSUME NEW signature, phase' = "calling"
      PROVE  Cardinality(Of(attempt, signature)) + Pending(signature)'
               =< Counted(state, signature)'
  <2>1. /\ Cardinality(Of(attempt, signature)) \in Nat
        /\ Cardinality(Of(attempt, signature)) =< Counted(state, signature)
        /\ Counted(state, signature) \in Nat
    <3>1. Pending(signature) = 0
      BY <1>1 DEF Pending
    <3> QED
      BY <1>1, <3>1, CallsAreFinite, CountedIsNat DEF Guarded
  <2>2. Pending(signature)' = IF signature = Signature THEN 1 ELSE 0
    BY <1>3, <1>8 DEF Pending
  <2> QED
    BY <1>4, <1>5, <2>1, <2>2
<1>9. phase' = "calling" => Counted(state, Signature)' =< RepeatThreshold
  <2>1. Counted(state, Signature)' = Repeats
    BY <1>2, <1>3 DEF Counted, Put
  <2> QED
    BY <1>1, <2>1
<1> QED
  BY <1>1, <1>6, <1>7, <1>8, <1>9 DEF Guarded, Counts

\* What was pending is made; every call is one that was counted.
LEMMA CallKeepsGuarded ==
  ASSUME Typed, Guarded, EnvAnswers \/ EnvFails \/ EnvCrashes
  PROVE  Guarded'
<1>1. /\ UNCHANGED <<attempt, stack, state, checkpoints>>
      /\ phase = "calling" /\ phase' \in {"answered", "failed"}
  BY DEF EnvAnswers, EnvFails, EnvCrashes, durable, volatile
<1>2. PICK applied \in BOOLEAN : calls' = Append(calls, Call(applied))
  BY CallsAppend
<1> DEFINE c == Call(applied)
           new == Len(calls) + 1
<1>3. c.run = attempt /\ <<c.target, c.args>> = Signature
  BY DEF Call, Signature
<1>4. /\ DOMAIN calls = 1..Len(calls) /\ Len(calls) \in Nat
      /\ DOMAIN calls' = 1..Len(calls) + 1
      /\ \A n \in DOMAIN calls : calls'[n] = calls[n]
      /\ calls'[new] = c
  BY <1>2, AppendSequence DEF Typed, WorldTyped
<1>5. new \notin DOMAIN calls /\ DOMAIN calls' = DOMAIN calls \cup {new}
  BY <1>4
<1> HIDE DEF c, new
<1>6. ASSUME NEW run, NEW signature
      PROVE  Of(run, signature)' =
               IF run = attempt /\ signature = Signature
               THEN Of(run, signature) \cup {new} ELSE Of(run, signature)
  BY <1>3, <1>4, <1>5 DEF Of
<1>7. ASSUME NEW run, NEW signature
      PROVE  /\ Cardinality(Of(run, signature)) \in Nat
             /\ Cardinality(Of(run, signature)') =
                  IF run = attempt /\ signature = Signature
                  THEN Cardinality(Of(run, signature)) + 1 ELSE Cardinality(Of(run, signature))
  <2>1. new \notin Of(run, signature)
    BY <1>5 DEF Of
  <2> QED
    BY <1>6, <2>1, CallsAreFinite, FS_AddElement
<1>8. \A signature : Counted(state, signature)' = Counted(state, signature)
                     /\ Counted(state, signature) \in Nat
  BY <1>1, CountedIsNat DEF Counted, Guarded
<1>9. ASSUME NEW run, NEW signature, run = attempt
      PROVE  /\ Cardinality(Of(run, signature)') \in Nat
             /\ Cardinality(Of(run, signature)') =< Counted(state, signature)
  <2> DEFINE before == Cardinality(Of(run, signature))
             after == Cardinality(Of(run, signature)')
  <2>1. before + Pending(signature) =< Counted(state, signature)
    BY <1>1, <1>9 DEF Guarded
  <2>2. Pending(signature) = IF signature = Signature THEN 1 ELSE 0
    BY <1>1 DEF Pending
  <2>3. before \in Nat /\ after = IF signature = Signature THEN before + 1 ELSE before
    BY <1>7, <1>9
  <2>4. Counted(state, signature) \in Nat
    BY <1>8
  <2> HIDE DEF before, after
  <2>5. after \in Nat /\ after =< Counted(state, signature)
    BY <2>1, <2>2, <2>3, <2>4
  <2> QED
    BY <2>5 DEF after
<1>10. ASSUME NEW run, NEW signature
       PROVE  Cardinality(Of(run, signature)') =< RepeatThreshold
  <2>1. CASE run = attempt /\ signature = Signature
    <3>1. Counted(state, Signature) =< RepeatThreshold
      BY <1>1 DEF Guarded
    <3>2. /\ Counted(state, Signature) \in Nat
          /\ Cardinality(Of(run, signature)') =< Counted(state, Signature)
          /\ Cardinality(Of(run, signature)') \in Nat
      BY <1>8, <1>9, <2>1
    <3> QED
      BY <3>1, <3>2, PolicyAssumption
  <2>2. CASE ~(run = attempt /\ signature = Signature)
    BY <1>7, <2>2 DEF Guarded
  <2> QED
    BY <2>1, <2>2
<1>11. \A n \in DOMAIN calls' : calls'[n].run \in Nat /\ calls'[n].run =< attempt
  <2>1. attempt \in Nat
    BY DEF Typed, WalkTyped
  <2>2. \A n \in DOMAIN calls : calls[n].run \in Nat /\ calls[n].run =< attempt
    BY DEF Guarded
  <2>3. c.run \in Nat /\ c.run =< attempt
    BY <1>3, <2>1
  <2>4. \A n \in DOMAIN calls' : (n \in DOMAIN calls /\ calls'[n] = calls[n]) \/ calls'[n] = c
    BY <1>4, <1>5
  <2> QED
    BY <2>2, <2>3, <2>4
<1>12. \A signature : Pending(signature)' = 0
  BY <1>1 DEF Pending
<1>13. \A run, signature : run = attempt' =>
         Cardinality(Of(run, signature)') + Pending(signature)' =< Counted(state, signature)'
  BY <1>1, <1>8, <1>9, <1>12
<1> QED
  BY <1>1, <1>10, <1>11, <1>13 DEF Guarded, Counts

LEMMA SaveKeepsGuarded ==
  ASSUME Typed, Guarded, SaveCheckpoint
  PROVE  Guarded'
<1>1. /\ UNCHANGED <<attempt, state, calls>>
      /\ phase = "saving" /\ phase' = "saved"
      /\ checkpoints' = Append(checkpoints, Snapshot)
  BY DEF SaveCheckpoint, volatile, environment
<1>2. \A c \in DOMAIN checkpoints' :
        \/ c \in DOMAIN checkpoints /\ checkpoints'[c] = checkpoints[c]
        \/ checkpoints'[c] = Snapshot
  BY <1>1, AppendSequence DEF Typed, SnapshotsTyped
<1>3. Snapshot.state = state
  BY DEF Snapshot
<1>4. \A c \in DOMAIN checkpoints' : Counts(checkpoints'[c].state)
  BY <1>2, <1>3 DEF Guarded
<1>5. \A run, signature : Of(run, signature)' = Of(run, signature)
  BY <1>1 DEF Of
<1>6. \A signature : Pending(signature) = 0 /\ Pending(signature)' = 0
  BY <1>1 DEF Pending
<1>7. \A signature : Counted(state, signature)' = Counted(state, signature)
  BY <1>1 DEF Counted
<1> QED
  BY <1>1, <1>4, <1>5, <1>6, <1>7 DEF Guarded, Counts

\* A new run has made no call, so whatever its state has counted is enough.
LEMMA ResumeKeepsGuarded ==
  ASSUME Typed, Guarded, Resume
  PROVE  Guarded'
<1>1. /\ UNCHANGED <<calls, checkpoints>>
      /\ attempt' = attempt + 1 /\ phase' = "new" /\ state' = Resumption
  BY DEF Resume, environment
<1>2. attempt \in Nat
  BY DEF Typed, WalkTyped
<1>3. Counts(Resumption)
  <2>1. CASE checkpoints = <<>>
    BY <2>1 DEF Resumption, EmptyState, EmptyMap, Counts
  <2>2. CASE checkpoints # <<>>
    <3> DEFINE latest == Last(checkpoints)
    <3>1. Len(checkpoints) \in DOMAIN checkpoints /\ latest = checkpoints[Len(checkpoints)]
      <4>1. PICK S : checkpoints \in Seq(S)
        BY DEF Typed, SnapshotsTyped, Sequence
      <4> QED
        BY <2>2, <4>1 DEF Last
    <3>2. Counts(latest.state) /\ DOMAIN latest.state = StateFields
      BY <3>1 DEF Guarded, Typed, SnapshotsTyped, GoodState
    <3>3. Resumption = [latest.state EXCEPT !.ledger = FoldLogTail(latest.logPosition, @)]
      BY <2>2 DEF Resumption
    <3> HIDE DEF latest
    <3>4. Resumption.repeats = latest.state.repeats
      BY <3>2, <3>3 DEF StateFields
    <3> QED
      BY <3>2, <3>4 DEF Counts
  <2> QED
    BY <2>1, <2>2
<1>4. \A run, signature : Of(run, signature)' = Of(run, signature)
  BY <1>1 DEF Of
<1>5. ASSUME NEW signature
      PROVE  Cardinality(Of(attempt + 1, signature)) + Pending(signature)'
               =< Counted(state, signature)'
  <2>1. Of(attempt + 1, signature) = {}
    BY <1>2 DEF Of, Guarded
  <2>2. Cardinality(Of(attempt + 1, signature)) = 0
    BY <2>1, FS_EmptySet
  <2>3. Pending(signature)' = 0
    BY <1>1 DEF Pending
  <2>4. Counted(state, signature)' \in Nat
    BY <1>1, <1>3 DEF Counted, Counts
  <2> QED
    BY <2>2, <2>3, <2>4
<1> QED
  BY <1>1, <1>2, <1>3, <1>4, <1>5 DEF Guarded, Counts

LEMMA StutterKeepsGuarded ==
  ASSUME Guarded, UNCHANGED vars
  PROVE  Guarded'
<1>1. UNCHANGED <<phase, attempt, stack, state, calls, checkpoints>>
  BY DEF vars, volatile, durable, environment
<1>2. \A run, signature : Of(run, signature)' = Of(run, signature)
  BY <1>1 DEF Of
<1>3. Signature' = Signature
  BY <1>1 DEF Signature, Operands, Step, Top
<1>4. \A signature : /\ Counted(state, signature)' = Counted(state, signature)
                     /\ Pending(signature)' = Pending(signature)
  BY <1>1, <1>3 DEF Counted, Pending
<1>5. Counted(state, Signature)' = Counted(state, Signature)
  BY <1>1, <1>3 DEF Counted
<1> QED
  BY <1>1, <1>2, <1>4, <1>5 DEF Guarded, Counts

LEMMA NextKeepsGuarded == Typed /\ Guarded /\ [Next]_vars => Guarded'
<1> SUFFICES ASSUME Typed, Guarded, [Next]_vars PROVE Guarded'
  OBVIOUS
<1>1. CASE Begin \/ Bind \/ Skip \/ RecordError \/ Reject \/ Return \/ Control
             \/ ReplayEffect \/ RecordEffect \/ LogCheckpoint
  BY <1>1, WalkCountsNothing, UncountedStep
<1>2. CASE RaiseTypeError \/ RaiseIterationLimit \/ ProcessCrash
  BY <1>2, EndKeepsGuarded
<1>3. CASE Invoke
  BY <1>3, InvokeKeepsGuarded
<1>4. CASE EnvAnswers \/ EnvFails \/ EnvCrashes
  BY <1>4, CallKeepsGuarded
<1>5. CASE SaveCheckpoint
  BY <1>5, SaveKeepsGuarded
<1>6. CASE Resume
  BY <1>6, ResumeKeepsGuarded
<1>7. CASE UNCHANGED vars
  BY <1>7, StutterKeepsGuarded
<1> QED
  BY <1>1, <1>2, <1>3, <1>4, <1>5, <1>6, <1>7
     DEF Next, Progress, External, Fault, Terminated

-----------------------------------------------------------------------------

\* No run makes the same call, with the same arguments, more often than the
\* policy's threshold, whatever the counts it was resumed with (executor.rs,
\* check_loop_guard).
THEOREM RepeatsAreBounded == Spec => []GuardBoundsRepeats
<1>1. Guarded => GuardBoundsRepeats
  <2> SUFFICES ASSUME Guarded, NEW n \in DOMAIN calls
               PROVE  Cardinality({m \in DOMAIN calls :
                        calls[m].run = calls[n].run /\ SameAction(m, n)}) =< RepeatThreshold
    BY DEF GuardBoundsRepeats
  <2>1. {m \in DOMAIN calls : calls[m].run = calls[n].run /\ SameAction(m, n)}
          = Of(calls[n].run, <<calls[n].target, calls[n].args>>)
    BY DEF Of, SameAction
  <2> QED
    BY <2>1 DEF Guarded
<1> QED
  BY <1>1, InitGuarded, NextKeepsGuarded, TypedInvariant, PTL DEF Spec

-----------------------------------------------------------------------------
(* The runtime implements DurableEffects when its environment tracks       *)
(* idempotency keys: a call that reaches the world performs its key, a     *)
(* failed write abandons it, an answer in the log tells it, and every      *)
(* other step is a stutter.                                                *)

Performed == {<<n, calls[n].key>> :
                n \in {m \in DOMAIN calls : calls[m].key # NoKey /\ calls[m].applied}}
Told == {<<log[i].key, log[i].result>> : i \in {j \in DOMAIN log : IsAnswer(log[j])}}

\* The log gains nothing the program is told.
Silent == log' = log \/ \E e : ~IsAnswer(e) /\ log' = Append(log, e)

LEMMA SilentTellsNothing ==
  ASSUME Typed, Silent
  PROVE  Told' = Told
<1>0. Sequence(log) /\ DOMAIN log = 1..Len(log) /\ Len(log) \in Nat
  BY SequenceLen DEF Typed, LogTyped
<1>1. CASE log' = log
  BY <1>1 DEF Told
<1>2. CASE \E e : ~IsAnswer(e) /\ log' = Append(log, e)
  <2>1. PICK e : ~IsAnswer(e) /\ log' = Append(log, e)
    BY <1>2
  <2>2. /\ DOMAIN log' = 1..Len(log) + 1
        /\ \A i \in DOMAIN log : log'[i] = log[i]
        /\ log'[Len(log) + 1] = e
    BY <1>0, <2>1, AppendSequence
  <2>3. {j \in DOMAIN log' : IsAnswer(log'[j])} = {j \in DOMAIN log : IsAnswer(log[j])}
    BY <1>0, <2>1, <2>2
  <2>4. \A i \in {j \in DOMAIN log : IsAnswer(log[j])} : log'[i] = log[i]
    BY <2>2
  <2> QED
    BY <2>3, <2>4 DEF Told
<1> QED
  BY <1>1, <1>2 DEF Silent

\* Only effects tell the program anything.
LEMMA OtherStepsAreSilent ==
  ASSUME [Next]_vars, ~ReplayEffect, ~RecordEffect
  PROVE  Silent
<1>1. CASE Bind \/ Skip \/ Reject \/ RaiseTypeError \/ RaiseIterationLimit
             \/ EnterIf \/ EnterParallel \/ EnterLoop \/ EnterWhile
             \/ LeaveRegion \/ LeaveLoopBody \/ LeaveCondition \/ LeaveWhileBody
             \/ EnvAnswers \/ SaveCheckpoint \/ ProcessCrash \/ UNCHANGED vars
  BY <1>1 DEF Bind, Skip, Reject, RaiseTypeError, RaiseIterationLimit,
     EnterIf, EnterParallel, EnterLoop, EnterWhile, LeaveRegion, LeaveLoopBody,
     LeaveCondition, LeaveWhileBody, EnvAnswers, SaveCheckpoint, ProcessCrash,
     Fail, vars, durable, Silent
<1>2. CASE Begin \/ RecordError \/ Return \/ LeaveFunction
             \/ LogCheckpoint \/ Resume \/ Invoke \/ EnvFails \/ EnvCrashes
  <2>1. \/ log' = log
        \/ \E kind, result, number :
             /\ kind \notin {"effect", "replayed"}
             /\ log' = Append(log, Event(kind, NoKey, result, number))
    BY <1>2 DEF Begin, RecordError, Return, LeaveFunction, Finish, LogCheckpoint,
       Resume, Invoke, EnvFails, EnvCrashes
  <2> QED
    BY <2>1, QuietEvent DEF Silent
<1> QED
  BY <1>1, <1>2 DEF Next, Progress, Control, External, Fault, Terminated

\* Outside of effects and of the environment, nothing happens to any key.
LEMMA OtherStepsStutter ==
  ASSUME Typed, [Next]_vars,
         ~EnvAnswers, ~EnvFails, ~EnvCrashes, ~ReplayEffect, ~RecordEffect
  PROVE  UNCHANGED <<completed, Performed, Told>>
<1>1. UNCHANGED <<calls, completed>>
  BY OnlyTheEnvironmentCalls
<1>2. Silent
  BY OtherStepsAreSilent
<1>3. Performed' = Performed
  BY <1>1 DEF Performed
<1> QED
  BY <1>1, <1>2, <1>3, SilentTellsNothing

\* What a call does to the occasions.
LEMMA CallPerforms ==
  ASSUME Typed, NEW applied \in BOOLEAN, calls' = Append(calls, Call(applied))
  PROVE  /\ EffectiveKey # NoKey /\ applied =>
              /\ <<Len(calls) + 1, EffectiveKey>> \notin Performed
              /\ Performed' = Performed \cup {<<Len(calls) + 1, EffectiveKey>>}
         /\ EffectiveKey = NoKey \/ ~applied => Performed' = Performed
<1>0. /\ DOMAIN calls = 1..Len(calls) /\ Len(calls) \in Nat
      /\ DOMAIN calls' = 1..Len(calls) + 1
      /\ \A n \in DOMAIN calls : calls'[n] = calls[n]
      /\ calls'[Len(calls) + 1] = Call(applied)
  BY AppendSequence DEF Typed, WorldTyped
<1>1. Call(applied).key = EffectiveKey /\ Call(applied).applied = applied
  BY DEF Call
<1> DEFINE D == {m \in DOMAIN calls : calls[m].key # NoKey /\ calls[m].applied}
           new == Len(calls) + 1
<1>2. \A n \in D : calls'[n] = calls[n] /\ n # new
  BY <1>0
<1>3. CASE EffectiveKey # NoKey /\ applied
  <2>1. {m \in DOMAIN calls' : calls'[m].key # NoKey /\ calls'[m].applied} = D \cup {new}
    <3>1. new \in DOMAIN calls' /\ calls'[new].key # NoKey /\ calls'[new].applied
      BY <1>0, <1>1, <1>3
    <3>2. DOMAIN calls' = DOMAIN calls \cup {new}
      BY <1>0
    <3> HIDE DEF new
    <3> QED
      BY <1>0, <3>1, <3>2
  <2>2. Performed' = {<<n, calls'[n].key>> : n \in D \cup {new}}
    BY <2>1 DEF Performed
  <2>3. Performed = {<<n, calls[n].key>> : n \in D}
    BY DEF Performed
  <2> HIDE DEF D, new
  <2>4. calls'[new].key = EffectiveKey
    BY <1>0, <1>1 DEF new
  <2>5. <<new, EffectiveKey>> \notin Performed
    BY <1>2, <2>3
  <2>6. Performed' = Performed \cup {<<new, EffectiveKey>>}
    BY <1>2, <2>2, <2>3, <2>4
  <2> QED
    BY <1>3, <2>5, <2>6 DEF new
<1>4. CASE EffectiveKey = NoKey \/ ~applied
  <2>1. {m \in DOMAIN calls' : calls'[m].key # NoKey /\ calls'[m].applied} = D
    BY <1>0, <1>1, <1>4
  <2>2. Performed' = {<<n, calls'[n].key>> : n \in D}
    BY <2>1 DEF Performed
  <2>3. Performed = {<<n, calls[n].key>> : n \in D}
    BY DEF Performed
  <2> HIDE DEF D, new
  <2> QED
    BY <1>2, <1>4, <2>2, <2>3
<1> QED
  BY <1>3, <1>4

\* A key that was not decided is decided by the call.
LEMMA CompletedDecides ==
  ASSUME EnvTracksKeys, NEW k, k # NoKey, k \notin DOMAIN completed,
         NEW result, completed' = Completed(k, result)
  PROVE  /\ DOMAIN completed' = DOMAIN completed \cup {k}
         /\ \A x \in DOMAIN completed : completed'[x] = completed[x]
<1>1. completed' = Put(completed, k, result)
  BY DEF Completed
<1> QED
  BY <1>1 DEF Put

\* Every step is a step of DurableEffects, or none.
LEMMA StepsRefine ==
  ASSUME EnvTracksKeys, Typed, Memory, [Next]_vars
  PROVE  \/ UNCHANGED <<completed, Performed, Told>>
         \/ \E k \in DOMAIN completed' :
              /\ k \notin DOMAIN completed
              /\ DOMAIN completed' = DOMAIN completed \cup {k}
              /\ \A x \in DOMAIN completed : completed'[x] = completed[x]
              /\ UNCHANGED Told
              /\ \/ \E occasion \in Performed' \ Performed :
                      occasion[2] = k /\ Performed' = Performed \cup {occasion}
                 \/ UNCHANGED Performed
         \/ \E k \in DOMAIN completed :
              /\ Told' = Told \cup {<<k, completed[k]>>}
              /\ UNCHANGED <<completed, Performed>>
<1>1. CASE EnvAnswers \/ EnvFails \/ EnvCrashes
  <2>1. Told' = Told
    <3>1. Silent
      BY <1>1, QuietEvent DEF EnvAnswers, EnvFails, EnvCrashes, durable, Silent
    <3> QED
      BY <3>1, SilentTellsNothing
  <2>2. PICK applied \in BOOLEAN : calls' = Append(calls, Call(applied))
    BY <1>1, CallsAppend
  <2>3. \/ completed' = completed
        \/ \E result : completed' = Completed(EffectiveKey, result)
    BY <1>1, CallsAppend
  <2>4. CASE EffectiveKey = NoKey
    <3>1. completed' = completed
      BY <2>3, <2>4 DEF Completed
    <3> QED
      BY <2>1, <2>2, <2>4, <3>1, CallPerforms
  <2>5. CASE EffectiveKey # NoKey
    <3>1. EffectiveKey \notin DOMAIN completed
      BY <1>1, <2>5 DEF Memory, InFlight, EnvAnswers, EnvFails, EnvCrashes
    <3>2. CASE \E result : completed' = Completed(EffectiveKey, result)
      <4>1. /\ DOMAIN completed' = DOMAIN completed \cup {EffectiveKey}
            /\ \A x \in DOMAIN completed : completed'[x] = completed[x]
        BY <2>5, <3>1, <3>2, CompletedDecides
      <4>2. CASE applied
        <5>1. /\ <<Len(calls) + 1, EffectiveKey>> \notin Performed
              /\ Performed' = Performed \cup {<<Len(calls) + 1, EffectiveKey>>}
          BY <2>2, <2>5, <4>2, CallPerforms
        <5> DEFINE occasion == <<Len(calls) + 1, EffectiveKey>>
        <5>2. /\ occasion \in Performed' \ Performed /\ occasion[2] = EffectiveKey
              /\ Performed' = Performed \cup {occasion}
          BY <5>1
        <5> HIDE DEF occasion
        <5> QED
          BY <2>1, <3>1, <4>1, <5>2
      <4>3. CASE ~applied
        <5>1. Performed' = Performed
          BY <2>2, <4>3, CallPerforms
        <5> QED
          BY <2>1, <3>1, <4>1, <5>1
      <4> QED
        BY <4>2, <4>3
    <3>3. CASE /\ ~ \E result : completed' = Completed(EffectiveKey, result)
               /\ completed' = completed
      <4>1. calls' = Append(calls, Call(FALSE))
        BY <1>1, <3>3 DEF EnvAnswers, EnvFails, EnvCrashes, AppliedUnacknowledged, LostAck
      <4>2. Performed' = Performed
        BY <4>1, CallPerforms
      <4> QED
        BY <2>1, <3>3, <4>2
    <3> QED
      BY <2>3, <3>2, <3>3
  <2> QED
    BY <2>4, <2>5
<1>2. CASE ReplayEffect \/ RecordEffect
  <2>1. UNCHANGED <<calls, completed>>
    BY <1>2 DEF ReplayEffect, RecordEffect, environment
  <2>2. Performed' = Performed
    BY <2>1 DEF Performed
  <2>3. PICK e : log' = Append(log, e)
    BY <1>2 DEF ReplayEffect, RecordEffect
  <2>4. CASE ~IsAnswer(e)
    BY <2>1, <2>2, <2>3, <2>4, SilentTellsNothing DEF Silent
  <2>5. CASE IsAnswer(e)
    <3>1. /\ DOMAIN log = 1..Len(log) /\ Len(log) \in Nat
          /\ DOMAIN log' = 1..Len(log) + 1
          /\ \A i \in DOMAIN log : log'[i] = log[i]
          /\ log'[Len(log) + 1] = e
      BY <2>3, AppendSequence DEF Typed, LogTyped
    <3>2. LogConfirmed'
      BY NextKeepsMemory DEF Memory
    <3>3. e.key \in DOMAIN completed /\ completed[e.key] = e.result
      <4>1. Len(log) + 1 \in DOMAIN log'
        BY <3>1
      <4> QED
        BY <2>1, <2>5, <3>1, <3>2, <4>1 DEF LogConfirmed
    <3> DEFINE D == {j \in DOMAIN log : IsAnswer(log[j])}
               new == Len(log) + 1
    <3>4. {j \in DOMAIN log' : IsAnswer(log'[j])} = D \cup {new}
      <4>1. DOMAIN log' = DOMAIN log \cup {new} /\ IsAnswer(log'[new])
        BY <2>5, <3>1
      <4> HIDE DEF new
      <4> QED
        BY <3>1, <4>1
    <3>5. Told' = {<<log'[i].key, log'[i].result>> : i \in D \cup {new}}
      BY <3>4 DEF Told
    <3>6. Told = {<<log[i].key, log[i].result>> : i \in D}
      BY DEF Told
    <3>7. (\A i \in D : log'[i] = log[i]) /\ log'[new] = e
      BY <3>1
    <3> HIDE DEF D, new
    <3>8. Told' = Told \cup {<<e.key, e.result>>}
      BY <3>5, <3>6, <3>7
    <3> QED
      BY <2>1, <2>2, <3>3, <3>8
  <2> QED
    BY <2>4, <2>5
<1>3. CASE ~ (EnvAnswers \/ EnvFails \/ EnvCrashes \/ ReplayEffect \/ RecordEffect)
  BY <1>3, OtherStepsStutter
<1> QED
  BY <1>1, <1>2, <1>3

\* The runtime keeps its promise about effects, for every program, whatever
\* crashes: the executor, its log, its snapshots and an environment that tracks
\* keys together implement DurableEffects (crates/runtime/src/lib.rs).
THEOREM RuntimeIsDurable == ASSUME EnvTracksKeys PROVE Spec => ImplementsDurableEffects
<1>1. Init => Effects!Init
  <2> SUFFICES ASSUME Init PROVE Effects!Init
    OBVIOUS
  <2>1. DOMAIN completed = {} /\ DOMAIN calls = {} /\ DOMAIN log = {}
    BY EmptySequence, SequenceLen DEF Init, EmptyMap
  <2> QED
    BY <2>1 DEF Effects!Init
<1>2. Typed /\ Memory /\ [Next]_vars => [Effects!Next]_Effects!vars
  <2> SUFFICES ASSUME Typed, Memory, [Next]_vars PROVE [Effects!Next]_Effects!vars
    OBVIOUS
  <2> QED
    BY StepsRefine DEF Performed, Told, Effects!Next, Effects!vars, Effects!Perform,
       Effects!Abandon, Effects!Tell, Effects!Decide
<1> QED
  BY <1>1, <1>2, TypedInvariant, MemoryInvariant, PTL
     DEF Spec, ImplementsDurableEffects, Effects!Spec

-----------------------------------------------------------------------------
(* An idempotency key names one invocation of a run, in every program that *)
(* has no keyed operation in the condition of a while.                     *)
(*                                                                         *)
(* A key is an operation and the iterations of the loops around it, so the *)
(* walk of the executor meets the keys in one order.  The invariant says   *)
(* which keys are still Ahead of the walk, frame by frame, and that no key *)
(* the current run was given an answer for is among them.                  *)

-----------------------------------------------------------------------------
(* Where the walk is in the order of keys.                                 *)

\* The roles whose iteration is on the path.
Iterates(role) == role \in {"loop", "body"}
Weight(role) == IF Iterates(role) THEN 1 ELSE 0

\* The frame f walks a region of the step that below is at.
Opened(below, f) ==
  \E r \in DOMAIN Plan[below.plan][below.pc].regions :
    f.plan = Plan[below.plan][below.pc].regions[r]

\* depth[d] is how much of the path the loops of the first d frames make.
Placed(keys, stk, pth, depth) ==
  /\ depth \in [1..Len(stk) -> 0..Len(pth)]
  /\ depth[Len(stk)] = Len(pth)
  /\ \A d \in 1..Len(stk) :
       /\ stk[d].plan \in DOMAIN keys
       /\ stk[d].role = "condition" => keys[stk[d].plan] = {}
       /\ d = 1 => depth[d] = 0 /\ ~Iterates(stk[d].role)
       /\ d > 1 =>
            /\ Opened(stk[d - 1], stk[d])
            /\ depth[d] = depth[d - 1] + Weight(stk[d].role)
            /\ Iterates(stk[d].role) => pth[depth[d]] = stk[d].iteration
  /\ \A d, e \in 1..Len(stk) :
       d < e => /\ depth[d] =< depth[e]
                /\ keys[stk[e].plan] \subseteq KeysAt(keys, stk[d].plan, stk[d].pc)

\* The iterations of q start with the first n of the path.
Agrees(pth, n, q) == n =< Len(q) /\ \A i \in 1..n : q[i] = pth[i]

\* k is met after the step the frame f is at (or there, for the top frame).
InPlan(keys, f, top, pth, n, k) ==
  \E j \in DOMAIN Plan[f.plan] :
    /\ j > f.pc \/ (top /\ j = f.pc)
    /\ k[1] \in KeysAt(keys, f.plan, j)
    /\ Agrees(pth, n, k[2])

\* k is met in a later iteration of the loop f walks, opened in below.
InLoop(keys, below, f, pth, n, k) ==
  /\ f.role \in {"loop", "body", "condition"}
  /\ k[1] \in KeysAt(keys, below.plan, below.pc)
  /\ Agrees(pth, n, k[2])
  /\ n + 1 =< Len(k[2])
  /\ k[2][n + 1] > f.iteration \/ (f.role = "condition" /\ k[2][n + 1] = f.iteration)

Ahead(keys, stk, pth, depth, k) ==
  \E d \in 1..Len(stk) :
    \/ InPlan(keys, stk[d], d = Len(stk), pth, depth[d], k)
    \/ d > 1 /\ InLoop(keys, stk[d - 1], stk[d], pth, depth[d - 1], k)

\* The answers of the current run.
Recent == {i \in DOMAIN log : IsAnswer(log[i]) /\ \A m \in i..Len(log) : log[m].kind # "started"}

KeysInOrder(keys) ==
  /\ phase = "new" => path = <<>>
  /\ phase \in {"calling", "answered"} => Step.kind \in ExternalKinds
  /\ phase \in InStep =>
       \E depth \in [1..Len(stack) -> 0..Len(path)] :
         /\ Placed(keys, stack, path, depth)
         /\ \A i \in Recent : ~Ahead(keys, stack, path, depth, log[i].key)

\* From one stack and path to others without anything ahead that was not.
Goes(keys, stk, pth, depth, t, path2) ==
  \E depth2 \in [1..Len(t) -> 0..Len(path2)] :
    /\ Placed(keys, t, path2, depth2)
    /\ \A k \in Key : Ahead(keys, t, path2, depth2, k) => Ahead(keys, stk, pth, depth, k)

-----------------------------------------------------------------------------
(* Moving along it.                                                        *)

LEMMA PlacedFacts ==
  ASSUME NEW keys, NEW stk, NEW pth \in Seq(Nat), NEW depth,
         Placed(keys, stk, pth, depth), Len(stk) \in Nat
  PROVE  /\ \A d \in 1..Len(stk) : depth[d] \in Nat /\ depth[d] =< Len(pth)
         /\ \A d, e \in 1..Len(stk) : d =< e => depth[d] =< depth[e]
<1>1. Len(pth) \in Nat /\ depth \in [1..Len(stk) -> 0..Len(pth)]
  BY DEF Placed
<1>2. \A d \in 1..Len(stk) : depth[d] \in Nat /\ depth[d] =< Len(pth)
  BY <1>1
<1>3. \A d, e \in 1..Len(stk) : d < e => depth[d] =< depth[e]
  BY DEF Placed
<1>4. \A d, e \in 1..Len(stk) : d =< e => d = e \/ d < e
  OBVIOUS
<1> QED
  BY <1>2, <1>3, <1>4

LEMMA OpenedKeys ==
  ASSUME NEW keys, NEW below, NEW f, Opened(below, f)
  PROVE  keys[f.plan] \subseteq KeysAt(keys, below.plan, below.pc)
BY DEF Opened, KeysAt

LEMMA OpenedPlan ==
  ASSUME NEW keys, UniqueKeys(keys), NEW below, NEW f, Opened(below, f),
         below.plan \in DOMAIN keys, below.pc \in DOMAIN Plan[below.plan]
  PROVE  f.plan \in DOMAIN keys
BY DEF Opened, UniqueKeys

LEMMA Weights ==
  ASSUME NEW role
  PROVE  /\ Weight(role) \in {0, 1}
         /\ Iterates(role) <=> Weight(role) = 1
BY DEF Weight

LEMMA AgreesLess ==
  ASSUME NEW pth, NEW pth2, NEW n \in Nat, NEW m \in Nat, m =< n, NEW q, Len(q) \in Nat,
         Agrees(pth2, n, q), \A i \in 1..m : pth2[i] = pth[i]
  PROVE  Agrees(pth, m, q)
BY DEF Agrees

\* The stack below a new top frame stays; only what that frame has ahead is new.
LEMMA NewTop ==
  ASSUME NEW keys, UniqueKeys(keys),
         NEW stk, Len(stk) \in Nat, NEW pth \in Seq(Nat), NEW depth,
         Placed(keys, stk, pth, depth),
         NEW t, NEW m \in 1..Len(stk) + 1, Len(t) = m, NEW path2 \in Seq(Nat),
         \A d \in 1..m - 1 : t[d] = stk[d],
         \A d \in 1..m - 1 : stk[d].pc \in DOMAIN Plan[stk[d].plan],
         t[m].plan \in DOMAIN keys,
         t[m].role = "condition" => keys[t[m].plan] = {},
         m = 1 => Len(path2) = 0 /\ ~Iterates(t[m].role),
         m > 1 => /\ Opened(stk[m - 1], t[m])
                  /\ Len(path2) = depth[m - 1] + Weight(t[m].role)
                  /\ Iterates(t[m].role) => path2[Len(path2)] = t[m].iteration
                  /\ \A i \in 1..depth[m - 1] : path2[i] = pth[i]
  PROVE  \E depth2 \in [1..m -> 0..Len(path2)] :
           /\ Placed(keys, t, path2, depth2)
           /\ \A k \in Key :
                Ahead(keys, t, path2, depth2, k) =>
                  \/ Ahead(keys, stk, pth, depth, k)
                  \/ InPlan(keys, t[m], TRUE, path2, Len(path2), k)
                  \/ m > 1 /\ InLoop(keys, stk[m - 1], t[m], path2, depth[m - 1], k)
<1> DEFINE n == Len(stk)
           depth2 == [d \in 1..m |-> IF d = m THEN Len(path2) ELSE depth[d]]
<1>1. /\ \A d \in 1..n : depth[d] \in Nat
      /\ \A d, e \in 1..n : d =< e => depth[d] =< depth[e]
      /\ n \in Nat /\ m \in Nat /\ Len(path2) \in Nat
  <2>1. n \in Nat /\ m \in Nat /\ Len(path2) \in Nat
    OBVIOUS
  <2>2. /\ \A d \in 1..Len(stk) : depth[d] \in Nat /\ depth[d] =< Len(pth)
        /\ \A d, e \in 1..Len(stk) : d =< e => depth[d] =< depth[e]
    BY ONLY PlacedFacts, pth \in Seq(Nat), Placed(keys, stk, pth, depth), Len(stk) \in Nat
  <2> QED
    BY ONLY <2>1, <2>2
<1>2. \A d \in 1..m - 1 : d \in 1..n /\ m - 1 \in 1..n /\ depth[d] =< depth[m - 1]
                          /\ depth[m - 1] =< Len(path2)
  <2> SUFFICES ASSUME NEW d \in 1..m - 1
               PROVE  d \in 1..n /\ m - 1 \in 1..n /\ depth[d] =< depth[m - 1]
                      /\ depth[m - 1] =< Len(path2)
    OBVIOUS
  <2>1. d \in 1..n /\ m - 1 \in 1..n /\ d =< m - 1 /\ m > 1
    BY ONLY <1>1, d \in 1..m - 1, m \in 1..n + 1
  <2>2. Len(path2) = depth[m - 1] + Weight(t[m].role)
    BY <2>1
  <2>3. depth[d] =< depth[m - 1] /\ depth[m - 1] \in Nat
    BY <1>1, <2>1
  <2> QED
    BY ONLY <2>1, <2>2, <2>3, Weights
<1>3. depth2 \in [1..m -> 0..Len(path2)]
  BY <1>1, <1>2
<1>4. /\ depth2[m] = Len(path2)
      /\ \A d \in 1..m - 1 : depth2[d] = depth[d] /\ d # m
      /\ DOMAIN depth2 = 1..m
  BY <1>1
<1>5. m > 1 => keys[t[m].plan] \subseteq KeysAt(keys, stk[m - 1].plan, stk[m - 1].pc)
  BY OpenedKeys
<1>6. \A d \in 1..m - 1 : m > 1 => keys[t[m].plan] \subseteq KeysAt(keys, stk[d].plan, stk[d].pc)
  <2> SUFFICES ASSUME NEW d \in 1..m - 1, d # m - 1
               PROVE  keys[t[m].plan] \subseteq KeysAt(keys, stk[d].plan, stk[d].pc)
    BY <1>5
  <2>1. d \in 1..n /\ m - 1 \in 1..n /\ d < m - 1 /\ m > 1
    BY <1>1
  <2>2. keys[stk[m - 1].plan] \subseteq KeysAt(keys, stk[d].plan, stk[d].pc)
    BY <2>1 DEF Placed
  <2>3. KeysAt(keys, stk[m - 1].plan, stk[m - 1].pc) \subseteq keys[stk[m - 1].plan]
    <3>1. stk[m - 1].plan \in DOMAIN keys
      BY <2>1 DEF Placed
    <3>2. stk[m - 1].pc \in DOMAIN Plan[stk[m - 1].plan]
      <4>1. m - 1 \in 1..m - 1
        BY ONLY <1>1, <2>1
      <4> QED
        BY <4>1
    <3> QED
      BY <3>1, <3>2 DEF UniqueKeys
  <2> QED
    BY <1>5, <2>1, <2>2, <2>3
<1> HIDE DEF depth2, n
<1>7. Placed(keys, t, path2, depth2)
  <2>1. ASSUME NEW d \in 1..m
        PROVE  /\ t[d].plan \in DOMAIN keys
               /\ t[d].role = "condition" => keys[t[d].plan] = {}
               /\ d = 1 => depth2[d] = 0 /\ ~Iterates(t[d].role)
               /\ d > 1 =>
                    /\ Opened(t[d - 1], t[d])
                    /\ depth2[d] = depth2[d - 1] + Weight(t[d].role)
                    /\ Iterates(t[d].role) => path2[depth2[d]] = t[d].iteration
    <3>1. CASE d = m
      <4>1. m > 1 => m - 1 \in 1..m - 1 /\ t[m - 1] = stk[m - 1] /\ depth2[m - 1] = depth[m - 1]
        BY <1>1, <1>4
      <4> QED
        BY <1>4, <3>1, <4>1
    <3>2. CASE d # m
      <4>1. d \in 1..m - 1 /\ d \in 1..n
        BY <1>1, <1>2, <3>2
      <4>2. d > 1 => d - 1 \in 1..m - 1
        BY <1>1, <4>1
      <4>3. d > 1 => t[d - 1] = stk[d - 1] /\ depth2[d - 1] = depth[d - 1]
        BY <1>4, <4>2
      <4>4. t[d] = stk[d] /\ depth2[d] = depth[d]
        BY <1>4, <4>1
      <4>5. /\ stk[d].plan \in DOMAIN keys
            /\ stk[d].role = "condition" => keys[stk[d].plan] = {}
            /\ d = 1 => depth[d] = 0 /\ ~Iterates(stk[d].role)
            /\ d > 1 =>
                 /\ Opened(stk[d - 1], stk[d])
                 /\ depth[d] = depth[d - 1] + Weight(stk[d].role)
                 /\ Iterates(stk[d].role) => pth[depth[d]] = stk[d].iteration
        BY <4>1 DEF Placed, n
      <4>6. Iterates(stk[d].role) => path2[depth[d]] = pth[depth[d]]
        <5> SUFFICES ASSUME Iterates(stk[d].role) PROVE path2[depth[d]] = pth[depth[d]]
          OBVIOUS
        <5>1. d > 1
          BY <4>1, <4>5
        <5>2. depth[d - 1] \in Nat /\ depth[d] = depth[d - 1] + 1
          BY <1>1, <4>1, <4>5, <5>1, Weights
        <5>3. depth[d] \in 1..depth[m - 1] /\ m > 1
          BY <1>1, <1>2, <4>1, <5>2
        <5> QED
          BY <5>3
      <4> QED
        BY <4>3, <4>4, <4>5, <4>6
    <3> QED
      BY <3>1, <3>2
  <2>2. ASSUME NEW d \in 1..m, NEW e \in 1..m, d < e
        PROVE  /\ depth2[d] =< depth2[e]
               /\ keys[t[e].plan] \subseteq KeysAt(keys, t[d].plan, t[d].pc)
    <3>0. d \in 1..m - 1 /\ m > 1
      BY ONLY <1>1, <2>2, d \in 1..m, e \in 1..m
    <3>1. d \in 1..m - 1 /\ d \in 1..n /\ t[d] = stk[d] /\ depth2[d] = depth[d] /\ m > 1
      BY <1>2, <1>4, <3>0
    <3>2. CASE e = m
      BY <1>1, <1>2, <1>4, <1>6, <3>1, <3>2
    <3>3. CASE e # m
      <4>0. e \in 1..m - 1
        BY ONLY <1>1, <3>3, e \in 1..m
      <4>1. e \in 1..m - 1 /\ e \in 1..n /\ t[e] = stk[e] /\ depth2[e] = depth[e]
        BY <1>2, <1>4, <4>0
      <4> QED
        BY <2>2, <3>1, <4>1 DEF Placed, n
    <3> QED
      BY <3>2, <3>3
  <2> QED
    BY <1>3, <1>4, <2>1, <2>2 DEF Placed
<1>8. ASSUME NEW k \in Key, Ahead(keys, t, path2, depth2, k),
             ~InPlan(keys, t[m], TRUE, path2, Len(path2), k),
             ~(m > 1 /\ InLoop(keys, stk[m - 1], t[m], path2, depth[m - 1], k))
      PROVE  Ahead(keys, stk, pth, depth, k)
  <2>0. Len(k[2]) \in Nat
    BY DEF Key
  <2>1. PICK d \in 1..m : \/ InPlan(keys, t[d], d = m, path2, depth2[d], k)
                          \/ d > 1 /\ InLoop(keys, t[d - 1], t[d], path2, depth2[d - 1], k)
    BY <1>8 DEF Ahead
  <2>2. d # m
    <3> SUFFICES ASSUME d = m PROVE FALSE
      OBVIOUS
    <3>1. m > 1 => t[m - 1] = stk[m - 1] /\ depth2[m - 1] = depth[m - 1]
      BY <1>1, <1>4
    <3> QED
      BY <1>4, <1>8, <2>1, <3>1
  <2>3. d \in 1..m - 1 /\ d \in 1..n /\ t[d] = stk[d] /\ depth2[d] = depth[d] /\ m > 1
    BY <1>1, <1>2, <1>4, <2>2
  <2>4. \A e \in Nat : e =< depth[m - 1] /\ Agrees(path2, e, k[2]) => Agrees(pth, e, k[2])
    <3> SUFFICES ASSUME NEW e \in Nat, e =< depth[m - 1], Agrees(path2, e, k[2])
                 PROVE  Agrees(pth, e, k[2])
      OBVIOUS
    <3>1. \A i \in 1..e : path2[i] = pth[i]
      BY <1>1, <1>2, <2>3
    <3> QED
      BY <3>1 DEF Agrees
  <2>5. CASE InPlan(keys, t[d], d = m, path2, depth2[d], k)
    <3>1. InPlan(keys, stk[d], d = n, pth, depth[d], k)
      <4>1. depth[d] \in Nat /\ depth[d] =< depth[m - 1]
        BY <1>1, <1>2, <2>3
      <4> QED
        BY <2>2, <2>3, <2>4, <2>5, <4>1 DEF InPlan
    <3> QED
      BY <2>3, <3>1 DEF Ahead, n
  <2>6. CASE d > 1 /\ InLoop(keys, t[d - 1], t[d], path2, depth2[d - 1], k)
    <3>1. d - 1 \in 1..m - 1 /\ d - 1 \in 1..n
      BY <1>1, <2>3, <2>6
    <3>2. t[d - 1] = stk[d - 1] /\ depth2[d - 1] = depth[d - 1]
          /\ depth[d - 1] \in Nat /\ depth[d - 1] =< depth[m - 1]
      BY <1>1, <1>2, <1>4, <3>1
    <3>3. InLoop(keys, stk[d - 1], stk[d], pth, depth[d - 1], k)
      BY <2>3, <2>4, <2>6, <3>2 DEF InLoop
    <3> QED
      BY <2>3, <2>6, <3>3 DEF Ahead, n
  <2> QED
    BY <2>1, <2>5, <2>6
<1> QED
  BY <1>3, <1>7, <1>8

\* The top frame, or with it gone the one below, is past its step.
LEMMA PastStep ==
  ASSUME NEW keys, UniqueKeys(keys),
         NEW stk, Len(stk) \in Nat, NEW pth \in Seq(Nat), NEW depth,
         Placed(keys, stk, pth, depth),
         NEW t, NEW m \in 1..Len(stk), Len(t) = m, NEW path2 \in Seq(Nat),
         \A d \in 1..m - 1 : t[d] = stk[d] /\ stk[d].pc \in DOMAIN Plan[stk[d].plan],
         t[m].plan = stk[m].plan, t[m].role = stk[m].role, t[m].iteration = stk[m].iteration,
         stk[m].pc \in Nat, t[m].pc = stk[m].pc + 1,
         Len(path2) = depth[m], \A i \in 1..depth[m] : path2[i] = pth[i]
  PROVE  Goes(keys, stk, pth, depth, t, path2)
<1>1. m \in 1..Len(stk) + 1 /\ m \in Nat
  OBVIOUS
<1>2. /\ \A d \in 1..Len(stk) : depth[d] \in Nat
      /\ \A d, e \in 1..Len(stk) : d =< e => depth[d] =< depth[e]
  BY PlacedFacts
<1>3. /\ stk[m].plan \in DOMAIN keys
      /\ stk[m].role = "condition" => keys[stk[m].plan] = {}
      /\ m = 1 => depth[m] = 0 /\ ~Iterates(stk[m].role)
      /\ m > 1 =>
           /\ Opened(stk[m - 1], stk[m])
           /\ depth[m] = depth[m - 1] + Weight(stk[m].role)
           /\ Iterates(stk[m].role) => pth[depth[m]] = stk[m].iteration
  BY DEF Placed
<1>4. m > 1 => /\ depth[m - 1] \in Nat /\ depth[m - 1] =< depth[m]
               /\ Iterates(stk[m].role) => path2[Len(path2)] = t[m].iteration
               /\ \A i \in 1..depth[m - 1] : path2[i] = pth[i]
  <2> SUFFICES ASSUME m > 1
               PROVE  /\ depth[m - 1] \in Nat /\ depth[m - 1] =< depth[m]
                      /\ Iterates(stk[m].role) => path2[Len(path2)] = t[m].iteration
                      /\ \A i \in 1..depth[m - 1] : path2[i] = pth[i]
    OBVIOUS
  <2>1. depth[m - 1] \in Nat /\ depth[m] \in Nat /\ depth[m - 1] =< depth[m]
    <3>1. m - 1 \in 1..Len(stk) /\ m - 1 =< m /\ m \in 1..Len(stk)
      BY <1>1
    <3> QED
      BY <1>2, <3>1
  <2>2. Iterates(stk[m].role) => depth[m] \in 1..depth[m]
    BY <1>3, <2>1, Weights
  <2> QED
    BY <1>3, <2>1, <2>2, SMTT(30)
<1>5. PICK depth2 \in [1..m -> 0..Len(path2)] :
        /\ Placed(keys, t, path2, depth2)
        /\ \A k \in Key :
             Ahead(keys, t, path2, depth2, k) =>
               \/ Ahead(keys, stk, pth, depth, k)
               \/ InPlan(keys, t[m], TRUE, path2, Len(path2), k)
               \/ m > 1 /\ InLoop(keys, stk[m - 1], t[m], path2, depth[m - 1], k)
  <2>1. m > 1 => /\ Opened(stk[m - 1], t[m])
                 /\ Len(path2) = depth[m - 1] + Weight(t[m].role)
                 /\ Iterates(t[m].role) => path2[Len(path2)] = t[m].iteration
                 /\ \A i \in 1..depth[m - 1] : path2[i] = pth[i]
    BY <1>3, <1>4 DEF Opened
  <2>2. /\ t[m].plan \in DOMAIN keys
        /\ t[m].role = "condition" => keys[t[m].plan] = {}
        /\ m = 1 => Len(path2) = 0 /\ ~Iterates(t[m].role)
        /\ \A d \in 1..m - 1 : t[d] = stk[d]
        /\ \A d \in 1..m - 1 : stk[d].pc \in DOMAIN Plan[stk[d].plan]
    BY <1>3
  <2>3. /\ \A d \in 1..m - 1 : t[d] = stk[d]
        /\ \A d \in 1..m - 1 : stk[d].pc \in DOMAIN Plan[stk[d].plan]
    BY ONLY <2>2
  <2>4. \E depth2 \in [1..m -> 0..Len(path2)] :
          /\ Placed(keys, t, path2, depth2)
          /\ \A k \in Key :
               Ahead(keys, t, path2, depth2, k) =>
                 \/ Ahead(keys, stk, pth, depth, k)
                 \/ InPlan(keys, t[m], TRUE, path2, Len(path2), k)
                 \/ m > 1 /\ InLoop(keys, stk[m - 1], t[m], path2, depth[m - 1], k)
    <3>1. /\ t[m].plan \in DOMAIN keys
          /\ t[m].role = "condition" => keys[t[m].plan] = {}
          /\ m = 1 => Len(path2) = 0 /\ ~Iterates(t[m].role)
      BY ONLY <2>2
    <3>2. m \in 1..Len(stk) + 1
      BY ONLY <1>1
    <3> QED
      BY ONLY <2>1, <2>3, <3>1, <3>2, NewTop, UniqueKeys(keys), Len(stk) \in Nat, pth \in Seq(Nat),
              Placed(keys, stk, pth, depth), Len(t) = m, path2 \in Seq(Nat)
  <2> QED
    BY ONLY <2>4
<1>6. ASSUME NEW k \in Key, InPlan(keys, t[m], TRUE, path2, Len(path2), k)
      PROVE  Ahead(keys, stk, pth, depth, k)
  <2>1. InPlan(keys, stk[m], m = Len(stk), pth, depth[m], k)
    <3>1. PICK j \in DOMAIN Plan[t[m].plan] :
            /\ j > t[m].pc \/ j = t[m].pc
            /\ k[1] \in KeysAt(keys, t[m].plan, j)
            /\ Agrees(path2, Len(path2), k[2])
      BY <1>6 DEF InPlan
    <3>2. j > stk[m].pc
      <4>1. stk[m].plan \in PlanId
        BY <1>3 DEF UniqueKeys
      <4>2. j \in Nat
        BY <3>1, <4>1, PlanAssumption
      <4> QED
        BY <3>1, <4>2
    <3>3. Agrees(pth, depth[m], k[2])
      BY <3>1 DEF Agrees
    <3> QED
      BY <3>1, <3>2, <3>3 DEF InPlan
  <2> QED
    BY <2>1 DEF Ahead
<1>7. ASSUME NEW k \in Key, m > 1, InLoop(keys, stk[m - 1], t[m], path2, depth[m - 1], k)
      PROVE  Ahead(keys, stk, pth, depth, k)
  <2>1. InLoop(keys, stk[m - 1], stk[m], pth, depth[m - 1], k)
    BY <1>4, <1>7 DEF InLoop, Agrees
  <2> QED
    BY <1>7, <2>1 DEF Ahead
<1> QED
  BY <1>5, <1>6, <1>7 DEF Goes

\* The key of the step just passed is behind.
LEMMA PastKey ==
  ASSUME NEW keys, UniqueKeys(keys),
         NEW t, NEW n \in Nat \ {0}, Len(t) = n, NEW pth \in Seq(Nat), NEW depth,
         Placed(keys, t, pth, depth),
         \A d \in 1..n - 1 : t[d].pc \in DOMAIN Plan[t[d].plan],
         NEW c \in DOMAIN Plan[t[n].plan], t[n].pc = c + 1,
         NEW o \in KeysAt(keys, t[n].plan, c)
  PROVE  ~Ahead(keys, t, pth, depth, <<o, pth>>)
<1> DEFINE k == <<o, pth>>
<1>1. /\ \A d \in 1..n : depth[d] \in Nat /\ t[d].plan \in DOMAIN keys
      /\ \A d \in 1..n : t[d].plan \in PlanId
  <2>1. n \in Nat
    OBVIOUS
  <2>2. \A d \in 1..n : depth[d] \in Nat
    BY ONLY <2>1, PlacedFacts, pth \in Seq(Nat), Placed(keys, t, pth, depth), Len(t) = n
  <2>3. \A d \in 1..n : t[d].plan \in DOMAIN keys
    BY ONLY Placed(keys, t, pth, depth), Len(t) = n DEF Placed
  <2> QED
    BY <2>2, <2>3 DEF UniqueKeys
<1>2. \A d \in 1..n : o \in keys[t[d].plan]
  <2>1. o \in keys[t[n].plan]
    BY <1>1 DEF UniqueKeys
  <2> SUFFICES ASSUME NEW d \in 1..n, d # n PROVE o \in keys[t[d].plan]
    BY <2>1
  <2>2. d \in 1..n - 1 /\ d < n /\ n \in 1..n
    OBVIOUS
  <2>3. o \in KeysAt(keys, t[d].plan, t[d].pc)
    BY <2>1, <2>2 DEF Placed
  <2> QED
    BY <1>1, <2>2, <2>3 DEF UniqueKeys
<1>3. ASSUME NEW d \in 1..n, InPlan(keys, t[d], d = n, pth, depth[d], k)
      PROVE  FALSE
  <2>1. PICK j \in DOMAIN Plan[t[d].plan] : /\ j > t[d].pc \/ (d = n /\ j = t[d].pc)
                                           /\ o \in KeysAt(keys, t[d].plan, j)
    BY <1>3 DEF InPlan
  <2>2. j \in Nat
    BY <1>1, PlanAssumption
  <2>3. CASE d = n
    <3>1. j # c /\ c \in DOMAIN Plan[t[d].plan]
      <4>1. c \in Nat
        BY <1>1, <2>3, PlanAssumption
      <4> QED
        BY <2>1, <2>2, <2>3, <4>1
    <3>2. KeysAt(keys, t[d].plan, c) \cap KeysAt(keys, t[d].plan, j) = {}
      BY <1>1, <2>1, <3>1 DEF UniqueKeys
    <3> QED
      BY <2>1, <2>3, <3>2
  <2>4. CASE d # n
    <3>1. d \in 1..n - 1 /\ d < n /\ n \in 1..n
      BY <2>4
    <3>2. t[d].pc \in DOMAIN Plan[t[d].plan] /\ o \in KeysAt(keys, t[d].plan, t[d].pc)
      BY <1>2, <3>1 DEF Placed
    <3>3. j # t[d].pc
      <4>1. t[d].pc \in Nat
        BY <1>1, <3>2, PlanAssumption
      <4> QED
        BY <2>1, <2>2, <2>4, <4>1
    <3>4. KeysAt(keys, t[d].plan, t[d].pc) \cap KeysAt(keys, t[d].plan, j) = {}
      BY <1>1, <2>1, <3>2, <3>3 DEF UniqueKeys
    <3> QED
      BY <2>1, <3>2, <3>4
  <2> QED
    BY <2>3, <2>4
<1>4. ASSUME NEW d \in 1..n, d > 1, InLoop(keys, t[d - 1], t[d], pth, depth[d - 1], k)
      PROVE  FALSE
  <2>1. t[d].role # "condition"
    BY <1>2 DEF Placed
  <2>2. Iterates(t[d].role)
    BY <1>4, <2>1 DEF InLoop, Iterates
  <2>3. depth[d] = depth[d - 1] + 1 /\ pth[depth[d]] = t[d].iteration
    BY <1>4, <2>2, Weights DEF Placed
  <2>4. pth[depth[d]] > t[d].iteration /\ depth[d] =< Len(pth)
    BY <1>4, <2>1, <2>3 DEF InLoop
  <2>5. pth[depth[d]] \in Nat
    BY <1>1, <1>4, <2>3, <2>4
  <2> QED
    BY <2>3, <2>4, <2>5
<1> QED
  BY <1>3, <1>4 DEF Ahead

\* A frame is pushed.
LEMMA Entering ==
  ASSUME NEW keys, UniqueKeys(keys),
         NEW stk, Len(stk) \in Nat \ {0}, NEW pth \in Seq(Nat), NEW depth,
         Placed(keys, stk, pth, depth),
         \A d \in 1..Len(stk) : stk[d].pc \in DOMAIN Plan[stk[d].plan],
         NEW t, Len(t) = Len(stk) + 1, \A d \in 1..Len(stk) : t[d] = stk[d],
         NEW f, t[Len(stk) + 1] = f, f.iteration \in Nat,
         Opened(stk[Len(stk)], f),
         f.role = "condition" => keys[f.plan] = {},
         NEW path2 \in Seq(Nat), Len(path2) = Len(pth) + Weight(f.role),
         Iterates(f.role) => path2[Len(path2)] = f.iteration,
         \A i \in 1..Len(pth) : path2[i] = pth[i]
  PROVE  Goes(keys, stk, pth, depth, t, path2)
<1> DEFINE n == Len(stk)
<1>1. /\ n \in Nat \ {0} /\ Len(pth) \in Nat /\ depth[n] = Len(pth)
      /\ stk[n].plan \in DOMAIN keys /\ stk[n].pc \in DOMAIN Plan[stk[n].plan]
  BY DEF Placed
<1>2. Len(path2) \in Nat /\ Len(pth) =< Len(path2)
  BY <1>1, Weights
<1>3. f.plan \in DOMAIN keys /\ keys[f.plan] \subseteq KeysAt(keys, stk[n].plan, stk[n].pc)
  BY <1>1, OpenedKeys, OpenedPlan
<1>4. PICK depth2 \in [1..n + 1 -> 0..Len(path2)] :
        /\ Placed(keys, t, path2, depth2)
        /\ \A k \in Key :
             Ahead(keys, t, path2, depth2, k) =>
               \/ Ahead(keys, stk, pth, depth, k)
               \/ InPlan(keys, f, TRUE, path2, Len(path2), k)
               \/ InLoop(keys, stk[n], f, path2, depth[n], k)
  <2> DEFINE m == n + 1
  <2>1. m \in 1..n + 1 /\ m - 1 = n /\ m # 1
    BY <1>1
  <2>2. /\ Len(t) = m /\ t[m] = f
        /\ \A d \in 1..n : t[d] = stk[d] /\ stk[d].pc \in DOMAIN Plan[stk[d].plan]
        /\ Opened(stk[n], f)
    OBVIOUS
  <2> HIDE DEF m
  <2>3. /\ Len(stk) \in Nat /\ m \in 1..Len(stk) + 1 /\ Len(t) = m
        /\ \A d \in 1..m - 1 : t[d] = stk[d]
        /\ \A d \in 1..m - 1 : stk[d].pc \in DOMAIN Plan[stk[d].plan]
        /\ t[m].plan \in DOMAIN keys
        /\ t[m].role = "condition" => keys[t[m].plan] = {}
        /\ m = 1 => Len(path2) = 0 /\ ~Iterates(t[m].role)
    BY <1>3, <2>1, <2>2
  <2>4. m > 1 => /\ Opened(stk[m - 1], t[m])
                 /\ Len(path2) = depth[m - 1] + Weight(t[m].role)
                 /\ Iterates(t[m].role) => path2[Len(path2)] = t[m].iteration
                 /\ \A i \in 1..depth[m - 1] : path2[i] = pth[i]
    BY <1>1, <2>1, <2>2
  <2>5. \E depth2 \in [1..m -> 0..Len(path2)] :
          /\ Placed(keys, t, path2, depth2)
          /\ \A k \in Key :
               Ahead(keys, t, path2, depth2, k) =>
                 \/ Ahead(keys, stk, pth, depth, k)
                 \/ InPlan(keys, t[m], TRUE, path2, Len(path2), k)
                 \/ m > 1 /\ InLoop(keys, stk[m - 1], t[m], path2, depth[m - 1], k)
    BY ONLY <2>3, <2>4, NewTop, UniqueKeys(keys), pth \in Seq(Nat), path2 \in Seq(Nat),
            Placed(keys, stk, pth, depth)
  <2>6. m = n + 1
    BY DEF m
  <2> QED
    BY ONLY <2>1, <2>2, <2>5, <2>6
<1>5. ASSUME NEW k \in Key, k[1] \in KeysAt(keys, stk[n].plan, stk[n].pc),
             Agrees(path2, Len(pth), k[2])
      PROVE  Ahead(keys, stk, pth, depth, k)
  <2>1. Agrees(pth, depth[n], k[2])
    BY <1>1, <1>2, <1>5 DEF Agrees
  <2>2. InPlan(keys, stk[n], n = Len(stk), pth, depth[n], k) /\ n \in 1..Len(stk)
    BY <1>1, <1>5, <2>1 DEF InPlan
  <2> QED
    BY ONLY <2>2 DEF Ahead
<1>6. ASSUME NEW k \in Key, InPlan(keys, f, TRUE, path2, Len(path2), k)
      PROVE  Ahead(keys, stk, pth, depth, k)
  <2>1. PICK j \in DOMAIN Plan[f.plan] : /\ k[1] \in KeysAt(keys, f.plan, j)
                                        /\ Agrees(path2, Len(path2), k[2])
    BY <1>6 DEF InPlan
  <2>2. k[1] \in KeysAt(keys, stk[n].plan, stk[n].pc)
    BY <1>3, <2>1 DEF UniqueKeys
  <2>3. Agrees(path2, Len(pth), k[2])
    BY <1>1, <1>2, <2>1, SMTT(30) DEF Agrees, Key
  <2> QED
    BY <1>5, <2>2, <2>3
<1>7. ASSUME NEW k \in Key, InLoop(keys, stk[n], f, path2, depth[n], k)
      PROVE  Ahead(keys, stk, pth, depth, k)
  BY <1>1, <1>5, <1>7 DEF InLoop
<1> QED
  BY <1>4, <1>6, <1>7 DEF Goes

\* The top frame goes on to another iteration, or from a condition to the body.
LEMMA Iterating ==
  ASSUME NEW keys, UniqueKeys(keys),
         NEW stk, NEW n \in Nat, Len(stk) = n, n > 1, NEW pth \in Seq(Nat), NEW depth,
         Placed(keys, stk, pth, depth),
         \A d \in 1..n - 1 : stk[d].pc \in DOMAIN Plan[stk[d].plan],
         NEW t, Len(t) = n, \A d \in 1..n - 1 : t[d] = stk[d],
         NEW f, t[n] = f, f.iteration \in Nat, stk[n].iteration \in Nat,
         Opened(stk[n - 1], f),
         stk[n].role \in {"loop", "body", "condition"},
         f.role \in {"loop", "body", "condition"},
         f.role = "condition" => keys[f.plan] = {},
         \/ f.iteration > stk[n].iteration
         \/ f.iteration = stk[n].iteration /\ stk[n].role = "condition" /\ f.role # "condition",
         NEW path2 \in Seq(Nat),
         Len(path2) = depth[n - 1] + Weight(f.role),
         Iterates(f.role) => path2[Len(path2)] = f.iteration,
         \A i \in 1..depth[n - 1] : path2[i] = pth[i]
  PROVE  Goes(keys, stk, pth, depth, t, path2)
<1>1. /\ n - 1 \in 1..n /\ n \in 1..Len(stk) + 1 /\ n # 1 /\ n \in 1..Len(stk)
      /\ depth[n - 1] \in Nat
  <2>1. n - 1 \in 1..n /\ n \in 1..Len(stk) + 1 /\ n # 1 /\ n \in 1..Len(stk)
    BY ONLY n \in Nat, n > 1, Len(stk) = n
  <2>2. \A d \in 1..Len(stk) : depth[d] \in Nat
    BY PlacedFacts
  <2>3. n - 1 \in 1..Len(stk)
    BY ONLY <2>1, Len(stk) = n
  <2> QED
    BY ONLY <2>1, <2>2, <2>3
<1>2. /\ stk[n - 1].plan \in DOMAIN keys /\ stk[n - 1].pc \in DOMAIN Plan[stk[n - 1].plan]
  BY <1>1 DEF Placed
<1>3. f.plan \in DOMAIN keys /\ keys[f.plan] \subseteq KeysAt(keys, stk[n - 1].plan, stk[n - 1].pc)
  BY <1>2, OpenedKeys, OpenedPlan
<1>4. PICK depth2 \in [1..n -> 0..Len(path2)] :
        /\ Placed(keys, t, path2, depth2)
        /\ \A k \in Key :
             Ahead(keys, t, path2, depth2, k) =>
               \/ Ahead(keys, stk, pth, depth, k)
               \/ InPlan(keys, t[n], TRUE, path2, Len(path2), k)
               \/ n > 1 /\ InLoop(keys, stk[n - 1], t[n], path2, depth[n - 1], k)
  <2>1. /\ t[n].plan \in DOMAIN keys
        /\ t[n].role = "condition" => keys[t[n].plan] = {}
        /\ n = 1 => Len(path2) = 0 /\ ~Iterates(t[n].role)
    BY <1>1, <1>3
  <2>2. n > 1 => /\ Opened(stk[n - 1], t[n])
                 /\ Len(path2) = depth[n - 1] + Weight(t[n].role)
                 /\ Iterates(t[n].role) => path2[Len(path2)] = t[n].iteration
                 /\ \A i \in 1..depth[n - 1] : path2[i] = pth[i]
    OBVIOUS
  <2> QED
    BY <1>1, <2>1, <2>2, NewTop
<1>5. ASSUME NEW k \in Key, k[1] \in KeysAt(keys, stk[n - 1].plan, stk[n - 1].pc),
             Agrees(path2, depth[n - 1], k[2]), depth[n - 1] + 1 =< Len(k[2]),
             \/ k[2][depth[n - 1] + 1] > stk[n].iteration
             \/ k[2][depth[n - 1] + 1] = stk[n].iteration /\ stk[n].role = "condition"
      PROVE  Ahead(keys, stk, pth, depth, k)
  <2>1. InLoop(keys, stk[n - 1], stk[n], pth, depth[n - 1], k)
    BY <1>5 DEF InLoop, Agrees
  <2> QED
    BY <1>1, <2>1 DEF Ahead
<1>6. ASSUME NEW k \in Key, InPlan(keys, t[n], TRUE, path2, Len(path2), k)
      PROVE  Ahead(keys, stk, pth, depth, k)
  <2>1. PICK j \in DOMAIN Plan[f.plan] : /\ k[1] \in KeysAt(keys, f.plan, j)
                                        /\ Agrees(path2, Len(path2), k[2])
    BY <1>6 DEF InPlan
  <2>2. k[1] \in keys[f.plan]
    BY <1>3, <2>1 DEF UniqueKeys
  <2>3. Iterates(f.role)
    BY <2>2 DEF Iterates
  <2>4. Len(path2) = depth[n - 1] + 1 /\ path2[depth[n - 1] + 1] = f.iteration
    BY <1>1, <2>3, Weights
  <2>5. /\ Agrees(path2, depth[n - 1], k[2]) /\ depth[n - 1] + 1 =< Len(k[2])
        /\ k[2][depth[n - 1] + 1] = f.iteration
    <3>1. Len(k[2]) \in Nat
      BY DEF Key
    <3>2. /\ depth[n - 1] + 1 =< Len(k[2])
          /\ \A i \in 1..depth[n - 1] + 1 : k[2][i] = path2[i]
      BY ONLY <2>1, <2>4 DEF Agrees
    <3>3. depth[n - 1] + 1 \in 1..depth[n - 1] + 1 /\ 1..depth[n - 1] \subseteq 1..depth[n - 1] + 1
      BY ONLY <1>1
    <3>4. depth[n - 1] =< Len(k[2])
      BY ONLY <1>1, <3>1, <3>2
    <3> QED
      BY ONLY <2>4, <3>2, <3>3, <3>4 DEF Agrees
  <2>6. \/ k[2][depth[n - 1] + 1] > stk[n].iteration
        \/ k[2][depth[n - 1] + 1] = stk[n].iteration /\ stk[n].role = "condition"
    BY <2>5
  <2>7. k[1] \in KeysAt(keys, stk[n - 1].plan, stk[n - 1].pc)
    BY <1>3, <2>2
  <2> QED
    BY ONLY <1>5, <2>5, <2>6, <2>7, k \in Key
<1>7. ASSUME NEW k \in Key, InLoop(keys, stk[n - 1], t[n], path2, depth[n - 1], k)
      PROVE  Ahead(keys, stk, pth, depth, k)
  <2>1. k[2][depth[n - 1] + 1] \in Nat
    BY <1>1, <1>7, SMTT(30) DEF InLoop, Key
  <2>2. \/ k[2][depth[n - 1] + 1] > f.iteration
        \/ k[2][depth[n - 1] + 1] = f.iteration /\ f.role = "condition"
    BY <1>7 DEF InLoop
  <2>3. \/ f.iteration > stk[n].iteration
        \/ f.iteration = stk[n].iteration /\ f.role # "condition"
    OBVIOUS
  <2>4. k[2][depth[n - 1] + 1] > stk[n].iteration
    BY ONLY <2>1, <2>2, <2>3, f.iteration \in Nat, stk[n].iteration \in Nat
  <2> QED
    BY <1>5, <1>7, <2>4 DEF InLoop
<1> QED
  BY <1>4, <1>6, <1>7 DEF Goes

-----------------------------------------------------------------------------
(* One action at a time.                                                   *)

LEMMA StackFacts ==
  ASSUME WellNested(stack), stack # <<>>
  PROVE  /\ Len(stack) \in Nat \ {0} /\ DOMAIN stack = 1..Len(stack)
         /\ \A d \in 1..Len(stack) : /\ stack[d].pc \in Nat
                                     /\ stack[d].iteration \in Nat
                                     /\ DOMAIN stack[d] = FrameFields
         /\ \A d \in 1..Len(stack) - 1 : stack[d].pc \in DOMAIN Plan[stack[d].plan]
<1>1. Len(stack) \in Nat \ {0} /\ DOMAIN stack = 1..Len(stack)
  BY WellNestedTop
<1>2. \A d \in 1..Len(stack) : Frame(stack[d]) /\ (d > 1 => Owns(stack[d - 1], stack[d].role))
  BY DEF WellNested
<1>3. \A d \in 1..Len(stack) : Len(Plan[stack[d].plan]) \in Nat
  BY <1>2, PlanAssumption DEF Frame
<1>4. \A d \in 1..Len(stack) : /\ stack[d].pc \in Nat /\ stack[d].pc >= 1
                              /\ stack[d].iteration \in Nat
                              /\ DOMAIN stack[d] = FrameFields
  BY <1>2, <1>3 DEF Frame
<1>5. ASSUME NEW d \in 1..Len(stack) - 1
      PROVE  stack[d].pc \in DOMAIN Plan[stack[d].plan]
  <2>1. d \in 1..Len(stack) /\ d + 1 \in 1..Len(stack) /\ d + 1 > 1 /\ (d + 1) - 1 = d
    BY <1>1
  <2>2. stack[d].pc =< Len(Plan[stack[d].plan])
    BY <1>2, <2>1 DEF Owns
  <2> QED
    BY <1>2, <1>3, <1>4, <2>1, <2>2, PlanAssumption DEF Frame
<1> QED
  BY <1>1, <1>4, <1>5

LEMMA AdvancedFrames ==
  ASSUME WellNested(stack), stack # <<>>
  PROVE  LET n == Len(stack)
         IN /\ n \in Nat \ {0} /\ n \in 1..n /\ stack[n].pc \in Nat
            /\ \A d \in 1..n - 1 : Advanced[d] = stack[d] /\ stack[d].pc \in DOMAIN Plan[stack[d].plan]
            /\ Len(Advanced) = n
            /\ Advanced[n].plan = stack[n].plan /\ Advanced[n].role = stack[n].role
            /\ Advanced[n].iteration = stack[n].iteration /\ Advanced[n].pc = stack[n].pc + 1
<1> DEFINE n == Len(stack)
           t == Advanced
<1>1. /\ n \in Nat \ {0} /\ DOMAIN stack = 1..n /\ n \in 1..n
      /\ stack[n].pc \in Nat /\ DOMAIN stack[n] = FrameFields
      /\ \A d \in 1..n - 1 : stack[d].pc \in DOMAIN Plan[stack[d].plan]
  <2>1. n \in Nat \ {0} => n \in 1..n
    OBVIOUS
  <2> QED
    BY <2>1, StackFacts
<1>2. t = [i \in 1..n |-> IF i = n THEN [stack[n] EXCEPT !.pc = @ + 1] ELSE stack[i]]
  BY <1>1 DEF Advanced
<1>3. /\ Len(t) = n
      /\ \A d \in 1..n - 1 : t[d] = stack[d]
      /\ t[n] = [stack[n] EXCEPT !.pc = @ + 1]
  <2>1. t = [i \in 1..n |-> t[i]]
    BY <1>2
  <2>2. Len(t) = n
    BY <1>1, <2>1, FunctionIsSequence
  <2> QED
    BY <1>1, <1>2, <2>2
<1>4. /\ t[n].plan = stack[n].plan /\ t[n].role = stack[n].role
      /\ t[n].iteration = stack[n].iteration /\ t[n].pc = stack[n].pc + 1
  BY <1>1, <1>3 DEF FrameFields
<1> QED
  BY <1>1, <1>3, <1>4

LEMMA AdvanceGoes ==
  ASSUME NEW keys, UniqueKeys(keys), WellNested(stack), stack # <<>>, path \in Seq(Nat),
         NEW depth, Placed(keys, stack, path, depth)
  PROVE  Goes(keys, stack, path, depth, Advanced, path)
<1> DEFINE n == Len(stack)
           t == Advanced
<1>1. /\ n \in Nat \ {0} /\ n \in 1..n /\ stack[n].pc \in Nat
      /\ \A d \in 1..n - 1 : t[d] = stack[d] /\ stack[d].pc \in DOMAIN Plan[stack[d].plan]
      /\ Len(t) = n
      /\ t[n].plan = stack[n].plan /\ t[n].role = stack[n].role
      /\ t[n].iteration = stack[n].iteration /\ t[n].pc = stack[n].pc + 1
  BY AdvancedFrames
<1>2. Len(path) = depth[n]
  BY DEF Placed
<1> HIDE DEF t
<1>3. Goes(keys, stack, path, depth, t, path)
  BY <1>1, <1>2, PastStep
<1> QED
  BY <1>3 DEF t

LEMMA PopGoes ==
  ASSUME NEW keys, UniqueKeys(keys), WellNested(stack), stack # <<>>, path \in Seq(Nat),
         Top.role # "function", NEW depth, Placed(keys, stack, path, depth)
  PROVE  /\ ~Iterates(Top.role) => Goes(keys, stack, path, depth, Popped, path)
         /\ Iterates(Top.role) => Goes(keys, stack, path, depth, Popped, Front(path))
<1> DEFINE n == Len(stack)
           m == n - 1
           t == Popped
           p == IF Iterates(Top.role) THEN Front(path) ELSE path
<1>1. /\ n \in Nat \ {0} /\ n > 1 /\ DOMAIN stack = 1..n
      /\ \A d \in 1..n : /\ stack[d].pc \in Nat
                         /\ DOMAIN stack[d] = FrameFields
      /\ \A d \in 1..n - 1 : stack[d].pc \in DOMAIN Plan[stack[d].plan]
      /\ Sequence(stack)
  BY StackFacts, WellNestedTop DEF WellNested
<1>2. t = [i \in 1..m |-> IF i = m THEN [stack[m] EXCEPT !.pc = @ + 1] ELSE stack[i]]
  <2>1. Front(stack) = [i \in 1..n - 1 |-> stack[i]]
    BY <1>1, FrontSequence
  <2> QED
    BY <1>1, <2>1 DEF Popped
<1>3. m \in 1..n /\ m \in Nat /\ n \in 1..n /\ m = n - 1
  BY <1>1
<1>4. /\ Len(t) = m
      /\ \A d \in 1..m - 1 : t[d] = stack[d]
      /\ t[m] = [stack[m] EXCEPT !.pc = @ + 1]
  <2>1. t = [i \in 1..m |-> t[i]]
    BY <1>2
  <2>2. Len(t) = m
    BY <1>3, <2>1, FunctionIsSequence
  <2> QED
    BY <1>2, <1>3, <2>2
<1>5. /\ t[m].plan = stack[m].plan /\ t[m].role = stack[m].role
      /\ t[m].iteration = stack[m].iteration /\ t[m].pc = stack[m].pc + 1
  BY <1>1, <1>3, <1>4 DEF FrameFields
<1>6. /\ Len(path) = depth[n] /\ depth[n] = depth[m] + Weight(Top.role)
      /\ depth[m] \in Nat /\ Len(path) \in Nat
  <2>1. Len(path) = depth[n] /\ depth[n] = depth[n - 1] + Weight(stack[n].role)
    BY <1>1, <1>3 DEF Placed
  <2>2. depth[m] \in Nat
    BY ONLY <1>1, <1>3, PlacedFacts, path \in Seq(Nat), Placed(keys, stack, path, depth), n = Len(stack)
  <2> QED
    BY <2>1, <2>2 DEF Top
<1>7. /\ p \in Seq(Nat) /\ Len(p) = depth[m]
      /\ \A i \in 1..depth[m] : p[i] = path[i]
  <2>1. CASE Iterates(Top.role)
    <3>1. Len(path) = depth[m] + 1
      BY <1>6, <2>1, Weights
    <3>2. path # <<>>
      BY <1>6, <3>1
    <3>3. Sequence(path)
      BY DEF Sequence
    <3>4. Front(path) = [i \in 1..Len(path) - 1 |-> path[i]] /\ Len(Front(path)) = Len(path) - 1
      BY <3>2, <3>3, FrontSequence
    <3>5. Front(path) \in Seq(Nat)
      BY FrontOfPath
    <3>6. Len(path) - 1 = depth[m]
      BY <1>6, <3>1
    <3> QED
      BY <2>1, <3>4, <3>5, <3>6
  <2>2. CASE ~Iterates(Top.role)
    <3>1. Len(path) = depth[m]
      BY <1>6, <2>2, Weights
    <3> QED
      BY <2>2, <3>1
  <2> QED
    BY <2>1, <2>2
<1> HIDE DEF t, p, m
<1>8. /\ \A d \in 1..m - 1 : t[d] = stack[d] /\ stack[d].pc \in DOMAIN Plan[stack[d].plan]
      /\ stack[m].pc \in Nat
  <2>1. \A d \in 1..m - 1 : d \in 1..n - 1
    BY ONLY <1>3
  <2> QED
    BY <1>1, <1>3, <1>4, <2>1
<1>9. Goes(keys, stack, path, depth, t, p)
  <2>1. m \in 1..Len(stack) /\ Len(stack) \in Nat
    BY ONLY <1>1, <1>3
  <2> QED
    BY ONLY <2>1, <1>4, <1>5, <1>7, <1>8, PastStep, UniqueKeys(keys), path \in Seq(Nat),
            Placed(keys, stack, path, depth)
<1> QED
  BY <1>9 DEF p, t

LEMMA PushGoes ==
  ASSUME NEW keys, UniqueKeys(keys), WellNested(stack), stack # <<>>, ~Exhausted,
         path \in Seq(Nat), NEW depth, Placed(keys, stack, path, depth),
         NEW r \in DOMAIN Step.regions, NEW role, NEW items,
         role = "condition" => keys[Step.regions[r]] = {}
  PROVE  /\ ~Iterates(role) => Goes(keys, stack, path, depth, Pushed(Step.regions[r], role, items), path)
         /\ Iterates(role) =>
              Goes(keys, stack, path, depth, Pushed(Step.regions[r], role, items), Append(path, 0))
<1> DEFINE n == Len(stack)
           f == [plan |-> Step.regions[r], pc |-> 1, role |-> role, iteration |-> 0, items |-> items]
           t == Append(stack, f)
           p == IF Iterates(role) THEN Append(path, 0) ELSE path
<1>1. /\ n \in Nat \ {0}
      /\ \A d \in 1..n - 1 : stack[d].pc \in DOMAIN Plan[stack[d].plan]
      /\ Sequence(stack) /\ Top.pc \in DOMAIN Plan[Top.plan]
  BY StackFacts, WellNestedTop DEF WellNested
<1>2. \A d \in 1..n : stack[d].pc \in DOMAIN Plan[stack[d].plan]
  BY <1>1 DEF Top
<1>3. Len(t) = n + 1 /\ (\A d \in 1..n : t[d] = stack[d]) /\ t[n + 1] = f
  BY <1>1, AppendSequence
<1>4. f.iteration = 0 /\ f.role = role /\ f.plan = Step.regions[r]
  OBVIOUS
<1>5. Opened(stack[n], f)
  BY <1>4 DEF Opened, Step, Top
<1>6. /\ p \in Seq(Nat) /\ Len(p) = Len(path) + Weight(role)
      /\ Iterates(role) => p[Len(p)] = 0
      /\ \A i \in 1..Len(path) : p[i] = path[i]
  <2>1. CASE Iterates(role)
    BY <2>1, Weights
  <2>2. CASE ~Iterates(role)
    <3>1. Weight(role) = 0
      BY <2>2, Weights
    <3> QED
      BY <2>2, <3>1
  <2> QED
    BY <2>1, <2>2
<1> HIDE DEF t, p, f
<1>7. Goes(keys, stack, path, depth, t, p)
  <2>1. f.iteration \in Nat /\ (f.role = "condition" => keys[f.plan] = {})
    BY <1>4
  <2>2. /\ Len(p) = Len(path) + Weight(f.role)
        /\ Iterates(f.role) => p[Len(p)] = f.iteration
    BY <1>4, <1>6
  <2> QED
    BY <1>1, <1>2, <1>3, <1>5, <1>6, <2>1, <2>2, Entering
<1> QED
  BY <1>7 DEF p, t, f, Pushed

LEMMA RestartGoes ==
  ASSUME NEW keys, UniqueKeys(keys), WellNested(stack), stack # <<>>, path \in Seq(Nat),
         NEW depth, Placed(keys, stack, path, depth), Len(stack) > 1,
         NEW plan, NEW role, NEW iteration \in Nat,
         \E r \in DOMAIN Owner.regions : plan = Owner.regions[r],
         Top.role \in {"loop", "body", "condition"}, role \in {"loop", "body", "condition"},
         role = "condition" => keys[plan] = {},
         \/ iteration > Top.iteration
         \/ iteration = Top.iteration /\ Top.role = "condition" /\ role # "condition",
         NEW base \in Seq(Nat), base = IF Iterates(Top.role) THEN Front(path) ELSE path
  PROVE  /\ ~Iterates(role) => Goes(keys, stack, path, depth, Restarted(plan, role, iteration), base)
         /\ Iterates(role) =>
              Goes(keys, stack, path, depth, Restarted(plan, role, iteration), Append(base, iteration))
<1> DEFINE n == Len(stack)
           f == [stack[n] EXCEPT !.plan = plan, !.pc = 1, !.role = role, !.iteration = iteration]
           t == Restarted(plan, role, iteration)
           p == IF Iterates(role) THEN Append(base, iteration) ELSE base
<1>1. /\ n \in Nat \ {0} /\ DOMAIN stack = 1..n /\ n > 1
      /\ DOMAIN stack[n] = FrameFields /\ stack[n].iteration \in Nat
      /\ \A d \in 1..n - 1 : stack[d].pc \in DOMAIN Plan[stack[d].plan]
      /\ n \in 1..n /\ n - 1 \in 1..n
  BY StackFacts
<1>2. t = [i \in 1..n |-> IF i = n THEN f ELSE stack[i]]
  BY <1>1 DEF Restarted
<1>3. f.plan = plan /\ f.role = role /\ f.iteration = iteration
  BY <1>1 DEF FrameFields
<1>4. Opened(stack[n - 1], f)
  BY <1>3 DEF Opened, Owner
<1> HIDE DEF f, t
<1>5. Len(t) = n /\ (\A d \in 1..n - 1 : t[d] = stack[d]) /\ t[n] = f
  <2>1. t = [i \in 1..n |-> t[i]]
    BY <1>2
  <2>2. Len(t) = n
    BY <1>1, <2>1, FunctionIsSequence
  <2>3. \A d \in 1..n - 1 : d \in 1..n /\ d # n
    <3>1. n \in Nat
      BY <1>1
    <3> QED
      BY ONLY <3>1
  <2> QED
    BY ONLY <1>1, <1>2, <2>2, <2>3
<1>6. /\ Len(path) = depth[n - 1] + Weight(Top.role)
      /\ depth[n - 1] \in Nat /\ Len(path) \in Nat
  <2>1. Len(path) = depth[n] /\ depth[n] = depth[n - 1] + Weight(stack[n].role)
    BY <1>1 DEF Placed
  <2>2. depth[n - 1] \in Nat
    BY ONLY <1>1, PlacedFacts, path \in Seq(Nat), Placed(keys, stack, path, depth)
  <2> QED
    BY <2>1, <2>2 DEF Top
<1>7. Len(base) = depth[n - 1] /\ \A i \in 1..depth[n - 1] : base[i] = path[i]
  <2>1. CASE Iterates(Top.role)
    <3>1. Len(path) = depth[n - 1] + 1
      BY <1>6, <2>1, Weights
    <3>2. path # <<>>
      BY <1>6, <3>1
    <3>3. Sequence(path)
      BY DEF Sequence
    <3>4. Front(path) = [i \in 1..Len(path) - 1 |-> path[i]] /\ Len(Front(path)) = Len(path) - 1
      BY <3>2, <3>3, FrontSequence
    <3>5. Len(path) - 1 = depth[n - 1] /\ base = Front(path)
      BY <1>6, <2>1, <3>1
    <3> QED
      BY <3>4, <3>5
  <2>2. CASE ~Iterates(Top.role)
    <3>1. Len(path) = depth[n - 1]
      BY <1>6, <2>2, Weights
    <3> QED
      BY <2>2, <3>1
  <2> QED
    BY <2>1, <2>2
<1>8. /\ p \in Seq(Nat) /\ Len(p) = depth[n - 1] + Weight(role)
      /\ Iterates(role) => p[Len(p)] = iteration
      /\ \A i \in 1..depth[n - 1] : p[i] = path[i]
  <2>1. CASE Iterates(role)
    <3>1. Weight(role) = 1
      BY <2>1, Weights
    <3>2. /\ Append(base, iteration) \in Seq(Nat)
          /\ Len(Append(base, iteration)) = Len(base) + 1
          /\ \A i \in 1..Len(base) : Append(base, iteration)[i] = base[i]
          /\ Append(base, iteration)[Len(base) + 1] = iteration
      OBVIOUS
    <3> QED
      BY <1>7, <2>1, <3>1, <3>2
  <2>2. CASE ~Iterates(role)
    <3>1. Weight(role) = 0
      BY <2>2, Weights
    <3> QED
      BY <1>6, <1>7, <2>2, <3>1
  <2> QED
    BY <2>1, <2>2
<1> HIDE DEF p
<1>9. Goes(keys, stack, path, depth, t, p)
  <2>1. /\ f.iteration \in Nat
        /\ stack[n].role \in {"loop", "body", "condition"}
        /\ f.role \in {"loop", "body", "condition"}
        /\ f.role = "condition" => keys[f.plan] = {}
        /\ \/ f.iteration > stack[n].iteration
           \/ f.iteration = stack[n].iteration /\ stack[n].role = "condition" /\ f.role # "condition"
    BY <1>3 DEF Top
  <2>2. /\ Len(p) = depth[n - 1] + Weight(f.role)
        /\ Iterates(f.role) => p[Len(p)] = f.iteration
    BY <1>3, <1>8
  <2> QED
    BY ONLY <1>1, <1>4, <1>5, <1>8, <2>1, <2>2, Iterating, UniqueKeys(keys), path \in Seq(Nat),
            Placed(keys, stack, path, depth)
<1> QED
  BY <1>9 DEF p, t

\* What the executor logs while it is not told an answer leaves fewer recent ones.
LEMMA SilentForgets ==
  ASSUME Typed, Silent
  PROVE  /\ \A i \in Recent' : i \in Recent /\ log'[i] = log[i]
         /\ KeyNamesInvocation => KeyNamesInvocation'
<1>0. Sequence(log) /\ DOMAIN log = 1..Len(log) /\ Len(log) \in Nat
  BY SequenceLen DEF Typed, LogTyped
<1>1. CASE log' = log
  BY <1>1 DEF Recent, KeyNamesInvocation
<1>2. CASE \E e : ~IsAnswer(e) /\ log' = Append(log, e)
  <2>1. PICK e : ~IsAnswer(e) /\ log' = Append(log, e)
    BY <1>2
  <2>2. /\ DOMAIN log' = 1..Len(log) + 1 /\ Len(log') = Len(log) + 1
        /\ \A i \in 1..Len(log) : log'[i] = log[i]
        /\ log'[Len(log) + 1] = e
    BY <1>0, <2>1, AppendSequence
  <2>3. \A i \in DOMAIN log' : IsAnswer(log'[i]) => i \in DOMAIN log /\ i \in 1..Len(log)
    BY <1>0, <2>1, <2>2
  <2>4. ASSUME NEW i \in Recent'
        PROVE  i \in Recent /\ log'[i] = log[i]
    <3>1. i \in DOMAIN log' /\ IsAnswer(log'[i]) /\ \A m \in i..Len(log') : log'[m].kind # "started"
      BY <2>4 DEF Recent
    <3>2. i \in DOMAIN log /\ log'[i] = log[i]
      BY <2>2, <2>3, <3>1
    <3>3. \A m \in i..Len(log) : m \in 1..Len(log) /\ m \in i..Len(log')
      BY <1>0, <2>2, <3>2
    <3>4. \A m \in i..Len(log) : log[m].kind # "started"
      BY <2>2, <3>1, <3>3
    <3> QED
      BY <3>1, <3>2, <3>4 DEF Recent
  <2>5. KeyNamesInvocation => KeyNamesInvocation'
    <3> SUFFICES ASSUME KeyNamesInvocation,
                        NEW i \in DOMAIN log', NEW j \in DOMAIN log', i < j,
                        IsAnswer(log'[i]), IsAnswer(log'[j]), log'[i].key = log'[j].key
                 PROVE  \E m \in i..j : log'[m].kind = "started"
      BY DEF KeyNamesInvocation
    <3>1. i \in DOMAIN log /\ j \in DOMAIN log /\ log'[i] = log[i] /\ log'[j] = log[j]
      BY <2>2, <2>3
    <3>2. PICK m \in i..j : log[m].kind = "started"
      BY <3>1 DEF KeyNamesInvocation
    <3>3. m \in 1..Len(log)
      BY <1>0, <3>1
    <3> QED
      BY <2>2, <3>2, <3>3
  <2> QED
    BY <2>4, <2>5
<1> QED
  BY <1>1, <1>2 DEF Silent

\* A new answer, whose key no recent one has.
LEMMA AnswerIsRecent ==
  ASSUME Typed, KeyNamesInvocation, NEW e, log' = Append(log, e),
         IsAnswer(e) => \A i \in Recent : log[i].key # e.key
  PROVE  /\ \A i \in Recent' : \/ i \in Recent /\ log'[i] = log[i]
                               \/ log'[i] = e /\ IsAnswer(e)
         /\ KeyNamesInvocation'
<1>0. Sequence(log) /\ DOMAIN log = 1..Len(log) /\ Len(log) \in Nat
  BY SequenceLen DEF Typed, LogTyped
<1>1. /\ DOMAIN log' = 1..Len(log) + 1 /\ Len(log') = Len(log) + 1
      /\ \A i \in 1..Len(log) : log'[i] = log[i]
      /\ log'[Len(log) + 1] = e
  BY <1>0, AppendSequence
<1>2. ASSUME NEW i \in 1..Len(log), IsAnswer(log[i]),
             \A m \in i..Len(log) : log[m].kind # "started"
      PROVE  i \in Recent
  BY <1>0, <1>2 DEF Recent
<1>3. ASSUME NEW i \in Recent', i # Len(log) + 1
      PROVE  i \in Recent /\ log'[i] = log[i]
  <2>1. i \in DOMAIN log' /\ IsAnswer(log'[i]) /\ \A m \in i..Len(log') : log'[m].kind # "started"
    BY DEF Recent
  <2>2. i \in 1..Len(log) /\ log'[i] = log[i]
    BY <1>0, <1>1, <1>3, <2>1
  <2>3. \A m \in i..Len(log) : m \in 1..Len(log) /\ m \in i..Len(log')
    BY <1>0, <1>1, <2>2
  <2>4. \A m \in i..Len(log) : log[m].kind # "started"
    BY <1>1, <2>1, <2>3
  <2> QED
    BY <1>2, <2>1, <2>2, <2>4
<1>4. ASSUME NEW i \in DOMAIN log', NEW j \in DOMAIN log', i < j,
             IsAnswer(log'[i]), IsAnswer(log'[j]), log'[i].key = log'[j].key
      PROVE  \E m \in i..j : log'[m].kind = "started"
  <2>1. i \in 1..Len(log) /\ log'[i] = log[i]
    BY <1>0, <1>1, <1>4
  <2>2. CASE j = Len(log) + 1
    <3>1. i \notin Recent
      BY <1>1, <1>4, <2>1, <2>2
    <3>2. PICK m \in i..Len(log) : log[m].kind = "started"
      BY <1>2, <1>4, <2>1, <3>1
    <3>3. m \in 1..Len(log) /\ m \in i..j
      BY <1>0, <2>1, <2>2
    <3> QED
      BY <1>1, <3>2, <3>3
  <2>3. CASE j # Len(log) + 1
    <3>1. j \in 1..Len(log) /\ log'[j] = log[j]
      BY <1>0, <1>1, <2>3
    <3>2. PICK m \in i..j : log[m].kind = "started"
      BY <1>0, <1>4, <2>1, <3>1 DEF KeyNamesInvocation
    <3>3. m \in 1..Len(log)
      BY <1>0, <2>1, <3>1
    <3> QED
      BY <1>1, <3>2, <3>3
  <2> QED
    BY <2>2, <2>3
<1>5. ASSUME NEW i \in Recent', i = Len(log) + 1
      PROVE  log'[i] = e /\ IsAnswer(e)
  BY <1>1, <1>5 DEF Recent
<1> QED
  BY <1>3, <1>4, <1>5 DEF KeyNamesInvocation

\* The step the walk is at is ahead, and behind once it has been passed.
LEMMA StepIsAhead ==
  ASSUME NEW keys, Typed, phase \in InStep, ~Exhausted, IsKeyed(Step),
         NEW depth, Placed(keys, stack, path, depth)
  PROVE  Ahead(keys, stack, path, depth, EffectiveKey) /\ EffectiveKey = <<Step.op, path>>
<1>1. /\ Len(stack) \in Nat \ {0} /\ Top.pc \in DOMAIN Plan[Top.plan]
      /\ path \in Seq(Nat)
  BY StackFacts, WellNestedTop DEF Typed, WalkTyped
<1>2. EffectiveKey = <<Step.op, path>>
  BY DEF EffectiveKey, IsKeyed
<1>3. Step.op \in KeysAt(keys, Top.plan, Top.pc)
  BY DEF KeysAt, Step
<1>4. depth[Len(stack)] = Len(path)
  BY DEF Placed
<1>5. Agrees(path, Len(path), path)
  BY <1>1 DEF Agrees
<1>6. InPlan(keys, Top, Len(stack) = Len(stack), path, depth[Len(stack)], EffectiveKey)
  BY <1>1, <1>2, <1>3, <1>4, <1>5 DEF InPlan
<1>7. Len(stack) \in 1..Len(stack)
  BY <1>1
<1> QED
  BY <1>2, <1>6, <1>7 DEF Ahead, Top

LEMMA StepIsPassed ==
  ASSUME NEW keys, UniqueKeys(keys), Typed, phase \in InStep, ~Exhausted, IsKeyed(Step),
         NEW depth, Placed(keys, Advanced, path, depth)
  PROVE  ~Ahead(keys, Advanced, path, depth, <<Step.op, path>>)
<1> DEFINE n == Len(stack)
           t == Advanced
<1>1. /\ n \in Nat \ {0} /\ Len(t) = n
      /\ \A d \in 1..n - 1 : t[d].pc \in DOMAIN Plan[t[d].plan]
      /\ t[n].plan = Top.plan /\ t[n].pc = Top.pc + 1
  BY AdvancedFrames DEF Typed, WalkTyped, Top
<1>2. Top.pc \in DOMAIN Plan[Top.plan] /\ path \in Seq(Nat)
  BY WellNestedTop DEF Typed, WalkTyped
<1>3. Step.op \in KeysAt(keys, Top.plan, Top.pc)
  BY DEF KeysAt, Step
<1> HIDE DEF t, n
<1>4. ~Ahead(keys, t, path, depth, <<Step.op, path>>)
  BY <1>1, <1>2, <1>3, PastKey DEF t
<1> QED
  BY <1>4 DEF t

\* The walk through plans and regions.
LEMMA WalkGoes ==
  ASSUME NEW keys, UniqueKeys(keys), Typed, phase = "running",
         NEW depth, Placed(keys, stack, path, depth),
         Bind \/ Skip \/ RecordError \/ Reject \/ EnterIf \/ EnterParallel \/ EnterLoop
           \/ EnterWhile \/ LeaveRegion \/ LeaveLoopBody \/ LeaveCondition \/ LeaveWhileBody
  PROVE  Goes(keys, stack, path, depth, stack', path')
<1>0. /\ WellNested(stack) /\ stack # <<>> /\ path \in Seq(Nat) /\ WalkTyped
      /\ Len(stack) \in Nat \ {0}
  BY StackFacts DEF Typed, WalkTyped, InStep
<1>1. ASSUME stack' = Advanced, path' = path
      PROVE  Goes(keys, stack, path, depth, stack', path')
  BY <1>0, <1>1, AdvanceGoes
<1>2. CASE Bind \/ Skip \/ RecordError \/ Reject
  BY <1>1, <1>2 DEF Bind, Skip, RecordError, Reject
<1>3. ASSUME ~Exhausted
      PROVE  /\ Top.plan \in DOMAIN keys /\ Top.pc \in DOMAIN Plan[Top.plan]
             /\ Step.kind \in {"loop", "parallel"} => 1 \in DOMAIN Step.regions
             /\ Step.kind = "while" =>
                  /\ 1 \in DOMAIN Step.regions
                  /\ keys[Step.regions[1]] = {}
  <2>1. Top.plan \in DOMAIN keys
    BY <1>0 DEF Placed, Top
  <2>2. Top.pc \in DOMAIN Plan[Top.plan]
    BY <1>0, <1>3, WellNestedTop
  <2>3. /\ Step.kind \in {"loop", "parallel"} => 1 \in DOMAIN Step.regions
        /\ Step.kind = "while" => 1 \in DOMAIN Step.regions
    BY <1>0, <1>3, StepTyped
  <2> QED
    BY <2>1, <2>2, <2>3 DEF UniqueKeys, Step
<1>4. CASE EnterIf
  <2>1. ~Exhausted /\ path' = path
    BY <1>4 DEF EnterIf, At
  <2>2. CASE Branch \in DOMAIN Step.regions
    <3>1. stack' = Pushed(Step.regions[Branch], "region", <<>>)
      BY <1>4, <2>2 DEF EnterIf
    <3>2. ~Iterates("region")
      BY DEF Iterates
    <3> QED
      BY <1>0, <2>1, <2>2, <3>1, <3>2, PushGoes
  <2>3. CASE Branch \notin DOMAIN Step.regions
    BY <1>1, <1>4, <2>1, <2>3 DEF EnterIf
  <2> QED
    BY <2>2, <2>3
<1>5. CASE EnterParallel
  <2>1. ~Exhausted /\ path' = path /\ stack' = Pushed(Step.regions[1], "region", <<>>)
        /\ Step.kind = "parallel"
    BY <1>5 DEF EnterParallel, At
  <2>2. ~Iterates("region")
    BY DEF Iterates
  <2> QED
    BY <1>0, <1>3, <2>1, <2>2, PushGoes
<1>6. CASE EnterWhile
  <2>1. ~Exhausted /\ path' = path /\ Step.kind = "while"
    BY <1>6 DEF EnterWhile, At
  <2>2. CASE Step.limit = 0
    BY <1>1, <1>6, <2>1, <2>2 DEF EnterWhile
  <2>3. CASE Step.limit # 0
    <3>1. stack' = Pushed(Step.regions[1], "condition", <<>>)
      BY <1>6, <2>3 DEF EnterWhile
    <3>2. ~Iterates("condition")
      BY DEF Iterates
    <3> QED
      BY <1>0, <1>3, <2>1, <3>1, <3>2, PushGoes
  <2> QED
    BY <2>2, <2>3
<1>7. CASE EnterLoop
  <2>1. ~Exhausted /\ Step.kind = "loop"
    BY <1>7 DEF EnterLoop, At
  <2>2. CASE Items(Operand(1)) = <<>>
    BY <1>1, <1>7, <2>2 DEF EnterLoop
  <2>3. CASE Items(Operand(1)) # <<>>
    <3>1. /\ stack' = Pushed(Step.regions[1], "loop", Items(Operand(1)))
          /\ path' = Append(path, 0)
      BY <1>7, <2>3 DEF EnterLoop
    <3>2. Iterates("loop")
      BY DEF Iterates
    <3> QED
      BY <1>0, <1>3, <2>1, <3>1, <3>2, PushGoes
  <2> QED
    BY <2>2, <2>3
<1>8. ASSUME Top.role # "function"
      PROVE  /\ Len(stack) > 1
             /\ Opened(stack[Len(stack) - 1], Top)
             /\ Front(path) \in Seq(Nat)
             /\ Top.iteration \in Nat
             /\ Top.role \in {"condition", "body"} =>
                  /\ 1 \in DOMAIN Owner.regions /\ 2 \in DOMAIN Owner.regions
                  /\ keys[Owner.regions[1]] = {}
  <2> DEFINE below == stack[Len(stack) - 1]
  <2>1. Len(stack) > 1 /\ Owns(below, Top.role) /\ Len(stack) - 1 \in 1..Len(stack)
        /\ Frame(Top)
    BY <1>0, <1>8, WellNestedTop
  <2>2. Opened(below, Top) /\ below.plan \in DOMAIN keys
    BY <1>0, <2>1 DEF Placed, Top
  <2>3. below.pc \in DOMAIN Plan[below.plan]
    <3>1. Len(stack) - 1 \in 1..Len(stack) - 1
      BY ONLY <1>0, <2>1
    <3> QED
      BY <1>0, <3>1, StackFacts
  <2>4. Top.role \in {"condition", "body"} => Owner.kind = "while"
    BY <2>1 DEF Owns, Owner
  <2>5. Owner.kind = "while" => {1, 2} \subseteq DOMAIN Owner.regions /\ keys[Owner.regions[1]] = {}
    <3>1. Owner = Plan[below.plan][below.pc] /\ below.plan \in PlanId
      BY <1>0, <2>2 DEF Owner, UniqueKeys
    <3>2. Owner.kind = "while" => {1, 2} \subseteq DOMAIN Owner.regions
      BY ONLY <2>3, <3>1, PlanAssumption
    <3>3. Owner.kind = "while" => keys[Owner.regions[1]] = {}
      BY ONLY UniqueKeys(keys), <2>2, <2>3, <3>1 DEF UniqueKeys
    <3> QED
      BY ONLY <3>2, <3>3
  <2> QED
    BY <1>0, <2>1, <2>2, <2>4, <2>5, FrontOfPath DEF Frame
<1>9. CASE LeaveRegion
  <2>1. Top.role = "region" /\ stack' = Popped /\ path' = path
    BY <1>9 DEF LeaveRegion, Leaving
  <2>2. ~Iterates("region")
    BY DEF Iterates
  <2> QED
    BY <1>0, <2>1, <2>2, PopGoes
<1>10. CASE LeaveLoopBody
  <2>1. Top.role = "loop" /\ Iterates(Top.role)
    BY <1>10 DEF LeaveLoopBody, Leaving, Iterates
  <2>2. CASE stack' = Popped /\ path' = Front(path)
    BY <1>0, <2>1, <2>2, PopGoes
  <2>3. CASE ~(stack' = Popped /\ path' = Front(path))
    <3>1. /\ stack' = Restarted(Top.plan, "loop", Top.iteration + 1)
          /\ path' = Append(Front(path), Top.iteration + 1)
      BY <1>10, <2>3 DEF LeaveLoopBody
    <3>2. \E r \in DOMAIN Owner.regions : Top.plan = Owner.regions[r]
      BY <1>8, <2>1 DEF Opened, Owner
    <3>3. Top.iteration + 1 \in Nat /\ Top.iteration + 1 > Top.iteration /\ Len(stack) > 1
          /\ Front(path) \in Seq(Nat)
      BY <1>8, <2>1
    <3> QED
      BY <1>0, <2>1, <3>1, <3>2, <3>3, RestartGoes
  <2> QED
    BY <2>2, <2>3
<1>11. CASE LeaveCondition
  <2>1. Top.role = "condition" /\ ~Iterates(Top.role)
    BY <1>11 DEF LeaveCondition, Leaving, Iterates
  <2>2. CASE stack' = Popped /\ path' = path
    BY <1>0, <2>1, <2>2, PopGoes
  <2>3. CASE ~(stack' = Popped /\ path' = path)
    <3>1. /\ stack' = Restarted(Owner.regions[2], "body", Top.iteration)
          /\ path' = Append(path, Top.iteration)
      BY <1>11, <2>3 DEF LeaveCondition
    <3>2. Iterates("body")
      BY DEF Iterates
    <3> QED
      BY <1>0, <1>8, <2>1, <3>1, <3>2, RestartGoes
  <2> QED
    BY <2>2, <2>3
<1>12. CASE LeaveWhileBody
  <2>1. Top.role = "body" /\ Iterates(Top.role) /\ ~Iterates("condition")
    BY <1>12 DEF LeaveWhileBody, Leaving, Iterates
  <2>2. /\ stack' = Restarted(Owner.regions[1], "condition", Top.iteration + 1)
        /\ path' = Front(path)
    BY <1>12 DEF LeaveWhileBody
  <2>3. Top.iteration + 1 \in Nat /\ Top.iteration + 1 > Top.iteration
    BY <1>8, <2>1
  <2> QED
    BY <1>0, <1>8, <2>1, <2>2, <2>3, RestartGoes
<1> QED
  BY <1>2, <1>4, <1>5, <1>6, <1>7, <1>9, <1>10, <1>11, <1>12

-----------------------------------------------------------------------------
(* The theorem.                                                            *)

LEMMA WalkKeepsOrder ==
  ASSUME NEW keys, UniqueKeys(keys), Typed, KeysInOrder(keys), phase = "running",
         phase' = "running", Silent,
         Bind \/ Skip \/ RecordError \/ Reject \/ EnterIf \/ EnterParallel \/ EnterLoop
           \/ EnterWhile \/ LeaveRegion \/ LeaveLoopBody \/ LeaveCondition \/ LeaveWhileBody
  PROVE  KeysInOrder(keys)'
<1>1. PICK depth \in [1..Len(stack) -> 0..Len(path)] :
        /\ Placed(keys, stack, path, depth)
        /\ \A i \in Recent : ~Ahead(keys, stack, path, depth, log[i].key)
  BY DEF KeysInOrder, InStep
<1>2. PICK depth2 \in [1..Len(stack') -> 0..Len(path')] :
        /\ Placed(keys, stack', path', depth2)
        /\ \A k \in Key : Ahead(keys, stack', path', depth2, k) => Ahead(keys, stack, path, depth, k)
  BY <1>1, WalkGoes DEF Goes
<1>3. \A i \in Recent : log[i].key \in Key
  BY DEF Recent, IsAnswer, Typed, LogTyped, GoodEvent
<1>4. \A i \in Recent' : ~Ahead(keys, stack', path', depth2, log'[i].key)
  BY <1>1, <1>2, <1>3, SilentForgets
<1> QED
  BY <1>2, <1>4 DEF KeysInOrder

LEMMA EffectKeepsOrder ==
  ASSUME NEW keys, UniqueKeys(keys), Typed, KeysInOrder(keys), KeyNamesInvocation,
         phase \in InStep, phase' \in {"running", "saving"}, ~Exhausted, Step.kind \in ExternalKinds,
         stack' = Advanced, path' = path,
         NEW kind \in {"effect", "replayed"}, NEW result,
         log' = Append(log, Event(kind, EffectiveKey, result, 0))
  PROVE  KeysInOrder(keys)' /\ KeyNamesInvocation'
<1> DEFINE e == Event(kind, EffectiveKey, result, 0)
<1>1. PICK depth \in [1..Len(stack) -> 0..Len(path)] :
        /\ Placed(keys, stack, path, depth)
        /\ \A i \in Recent : ~Ahead(keys, stack, path, depth, log[i].key)
  BY DEF KeysInOrder
<1>2. PICK depth2 \in [1..Len(stack') -> 0..Len(path)] :
        /\ Placed(keys, stack', path, depth2)
        /\ \A k \in Key : Ahead(keys, stack', path, depth2, k) => Ahead(keys, stack, path, depth, k)
  <2>1. Goes(keys, stack, path, depth, Advanced, path)
    BY <1>1, AdvanceGoes DEF Typed, WalkTyped
  <2> QED
    BY <2>1 DEF Goes
<1>3. \A i \in Recent : log[i].key \in Key
  BY DEF Recent, IsAnswer, Typed, LogTyped, GoodEvent
<1>4. ASSUME IsAnswer(e)
      PROVE  /\ \A i \in Recent : log[i].key # e.key
             /\ ~Ahead(keys, stack', path, depth2, e.key)
  <2>1. e.key = EffectiveKey /\ IsKeyed(Step)
    BY <1>4 DEF IsAnswer, Event, EffectiveKey, IsKeyed
  <2>2. Ahead(keys, stack, path, depth, EffectiveKey) /\ EffectiveKey = <<Step.op, path>>
    BY <1>1, <2>1, StepIsAhead
  <2>3. ~Ahead(keys, Advanced, path, depth2, <<Step.op, path>>)
    BY <1>2, <2>1, StepIsPassed
  <2> QED
    BY <1>1, <2>1, <2>2, <2>3
<1> HIDE DEF e
<1>5. /\ \A i \in Recent' : \/ i \in Recent /\ log'[i] = log[i]
                            \/ log'[i] = e /\ IsAnswer(e)
      /\ KeyNamesInvocation'
  BY <1>4, AnswerIsRecent DEF e
<1>6. \A i \in Recent' : ~Ahead(keys, stack', path, depth2, log'[i].key)
  BY <1>1, <1>2, <1>3, <1>4, <1>5
<1> QED
  BY <1>2, <1>5, <1>6 DEF KeysInOrder

LEMMA BeginsInOrder ==
  ASSUME NEW keys, UniqueKeys(keys), Typed, KeysInOrder(keys), Begin
  PROVE  KeysInOrder(keys)'
<1>1. /\ stack = <<>> /\ path = <<>> /\ path' = path /\ phase' = "running"
      /\ stack' = Pushed(entry, "function", <<>>) /\ entry \in Entries
      /\ log' = Append(log, Event("started", NoKey, Null, 0))
  BY DEF Begin, KeysInOrder, Typed, WalkTyped
<1>2. /\ Len(stack') = 1 /\ stack'[1].plan = entry /\ stack'[1].role = "function"
      /\ Len(path') = 0
  BY <1>1 DEF Pushed
<1>3. Recent' = {}
  <2>1. /\ DOMAIN log' = 1..Len(log) + 1 /\ Len(log) \in Nat /\ Len(log') = Len(log) + 1
        /\ log'[Len(log) + 1].kind = "started"
    BY <1>1, AppendSequence DEF Event, Typed, LogTyped
  <2> SUFFICES ASSUME NEW i \in Recent' PROVE FALSE
    OBVIOUS
  <2>2. i \in DOMAIN log' /\ \A m \in i..Len(log') : log'[m].kind # "started"
    BY DEF Recent
  <2>3. Len(log) + 1 \in i..Len(log')
    BY <2>1, <2>2
  <2> QED
    BY <2>1, <2>2, <2>3
<1> DEFINE depth == [d \in 1..1 |-> 0]
<1>4. depth \in [1..Len(stack') -> 0..Len(path')] /\ depth[1] = 0
  BY <1>2
<1> HIDE DEF depth
<1>5. Placed(keys, stack', path', depth)
  <2>1. entry \in DOMAIN keys
    BY <1>1 DEF UniqueKeys
  <2>2. \A d \in 1..Len(stack') : d = 1 /\ ~(d > 1)
    BY <1>2
  <2>3. ~Iterates("function")
    BY DEF Iterates
  <2>4. \A d, e \in 1..Len(stack') : ~(d < e)
    BY <1>2
  <2> QED
    BY <1>2, <1>4, <2>1, <2>2, <2>3, <2>4 DEF Placed
<1> QED
  BY <1>1, <1>3, <1>4, <1>5 DEF KeysInOrder

LEMMA NextKeepsOrder ==
  ASSUME NEW keys, UniqueKeys(keys), Typed, KeysInOrder(keys), KeyNamesInvocation, [Next]_vars
  PROVE  KeysInOrder(keys)' /\ KeyNamesInvocation'
<1>1. CASE Begin
  <2>1. Silent
    BY <1>1, OtherStepsAreSilent DEF Begin, ReplayEffect, RecordEffect, At
  <2> QED
    BY <1>1, <2>1, BeginsInOrder, SilentForgets
<1>2. CASE Bind \/ Skip \/ RecordError \/ Reject \/ EnterIf \/ EnterParallel \/ EnterLoop
             \/ EnterWhile \/ LeaveRegion \/ LeaveLoopBody \/ LeaveCondition \/ LeaveWhileBody
  <2>1. phase = "running" /\ phase' = "running"
    BY <1>2 DEF Bind, Skip, RecordError, Reject, EnterIf, EnterParallel, EnterLoop, EnterWhile,
       LeaveRegion, LeaveLoopBody, LeaveCondition, LeaveWhileBody, At, Leaving
  <2>2. Silent
    <3>1. log' = log \/ \E result, number : log' = Append(log, Event("failed", NoKey, result, number))
      BY <1>2 DEF Bind, Skip, RecordError, Reject, EnterIf, EnterParallel, EnterLoop, EnterWhile,
         LeaveRegion, LeaveLoopBody, LeaveCondition, LeaveWhileBody, durable
    <3> QED
      BY <3>1, QuietEvent DEF Silent
  <2> QED
    BY <1>2, <2>1, <2>2, WalkKeepsOrder, SilentForgets
<1>3. CASE ReplayEffect
  <2>1. /\ phase \in InStep /\ phase' = "running" /\ ~Exhausted /\ Step.kind \in ExternalKinds
        /\ stack' = Advanced /\ path' = path
    BY <1>3 DEF ReplayEffect, At, InStep
  <2>2. \E result : log' = Append(log, Event("replayed", EffectiveKey, result, 0))
    BY <1>3 DEF ReplayEffect
  <2> QED
    BY <2>1, <2>2, EffectKeepsOrder
<1>4. CASE RecordEffect
  <2>1. /\ phase \in InStep /\ phase' \in {"running", "saving"} /\ ~Exhausted
        /\ Step.kind \in ExternalKinds
        /\ stack' = Advanced /\ path' = path
        /\ log' = Append(log, Event("effect", EffectiveKey, answer, 0))
    BY <1>4 DEF RecordEffect, InStep, Typed, WalkTyped, KeysInOrder
  <2> QED
    BY <2>1, EffectKeepsOrder
<1>5. CASE Invoke \/ EnvAnswers \/ SaveCheckpoint \/ LogCheckpoint \/ UNCHANGED vars
  <2>1. UNCHANGED <<stack, path>>
    BY <1>5 DEF Invoke, EnvAnswers, SaveCheckpoint, LogCheckpoint, vars, volatile
  <2>2. /\ phase' \in InStep => phase \in InStep
        /\ phase' \in {"calling", "answered"} => Step.kind \in ExternalKinds
        /\ phase' = "new" => path = <<>>
    BY <1>5 DEF Invoke, EnvAnswers, SaveCheckpoint, LogCheckpoint, vars, At, InStep, KeysInOrder
  <2>3. Silent
    <3>1. (~ReplayEffect /\ ~RecordEffect) \/ log' = log
      BY <1>5 DEF Invoke, EnvAnswers, SaveCheckpoint, LogCheckpoint, vars, durable, ReplayEffect,
         RecordEffect, At
    <3> QED
      BY <3>1, OtherStepsAreSilent DEF Silent
  <2>4. Step' = Step
    BY <2>1 DEF Step, Top
  <2>5. phase' \in InStep =>
          \E depth \in [1..Len(stack) -> 0..Len(path)] :
            /\ Placed(keys, stack, path, depth)
            /\ \A i \in Recent' : ~Ahead(keys, stack, path, depth, log'[i].key)
    BY <2>2, <2>3, SilentForgets DEF KeysInOrder
  <2> QED
    BY <2>1, <2>2, <2>3, <2>4, <2>5, SilentForgets DEF KeysInOrder
<1>6. CASE Return \/ LeaveFunction \/ RaiseTypeError \/ RaiseIterationLimit \/ EnvFails
             \/ EnvCrashes \/ ProcessCrash \/ Resume
  <2>1. phase' \in {"finished", "failed", "down", "new"} /\ (phase' = "new" => path' = <<>>)
    BY <1>6 DEF Return, LeaveFunction, RaiseTypeError, RaiseIterationLimit, EnvFails, EnvCrashes,
       ProcessCrash, Resume, Finish, Fail
  <2>2. ~ReplayEffect /\ ~RecordEffect
    BY <2>1 DEF ReplayEffect, RecordEffect, At
  <2> QED
    BY <2>1, <2>2, OtherStepsAreSilent, SilentForgets DEF KeysInOrder, InStep
<1> QED
  BY <1>1, <1>2, <1>3, <1>4, <1>5, <1>6
     DEF Next, Progress, Control, External, Fault, Terminated

\* In a program whose steps have an operation each, and whose while conditions
\* none with a key, an idempotency key names one invocation of a run: of any
\* program, any nesting of loops, any number of crashes (executor.rs,
\* iteration_path; the finding about while conditions is what is left).
THEOREM KeysNameInvocations ==
  ASSUME NEW keys, UniqueKeys(keys)
  PROVE  Spec => []KeyNamesInvocation
<1>1. Init => KeysInOrder(keys) /\ KeyNamesInvocation
  <2> SUFFICES ASSUME Init PROVE KeysInOrder(keys) /\ KeyNamesInvocation
    OBVIOUS
  <2>1. DOMAIN <<>> = {}
    BY EmptySequence, SequenceLen
  <2> QED
    BY <2>1 DEF Init, KeysInOrder, KeyNamesInvocation, InStep
<1>2. Typed /\ KeysInOrder(keys) /\ KeyNamesInvocation /\ [Next]_vars
        => KeysInOrder(keys)' /\ KeyNamesInvocation'
  BY NextKeepsOrder
<1> QED
  BY <1>1, <1>2, TypedInvariant, PTL DEF Spec
=============================================================================
