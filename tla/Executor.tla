------------------------------ MODULE Executor ------------------------------
(***************************************************************************)
(* Durable execution of a lowered plan (crates/runtime): the executor that *)
(* walks the plan, the ledger, the event log, the checkpoints, the         *)
(* environment with its own record of idempotency keys, and the recovery   *)
(* manager that rebuilds a state after a crash.                            *)
(*                                                                         *)
(* The executor is single-threaded.  What interleaves with it is failure:  *)
(* the process may die between any two steps, and everything it held in    *)
(* memory (stack, path, state, counters, answer) dies with it.  The event  *)
(* log, the checkpoint store and the environment survive.                  *)
(***************************************************************************)
EXTENDS Integers, Sequences, SequencesExt

CONSTANTS
  ValueId,          \* SSA values of the program
  OperationId,      \* operations of the program
  PlanId,           \* one name per Plan: a function body or a nested region
  Plan,             \* PlanId -> the plan's steps, its batches concatenated
  Entries,          \* the plans that are function bodies
  Arguments,        \* Entries -> (some ValueIds -> values): bound parameters
  Scalar,           \* values that are not lists; a list is a sequence
  Null, True, False,
  Number,           \* the scalars that are numbers -> Int
  Field,            \* <<record value, field name>> -> value
  Answers,          \* target -> the values its handler may answer
  Failing,          \* targets whose handler may return an error
  MemoryKeys,       \* the keys of the memory store, in order
  NoKey,            \* idempotency_key = None
  NoBinding,        \* a loop that binds nothing
  EnvTracksKeys,    \* RecordingEnvironment (TRUE), or the trait's default
  LosesAcks,        \* whether a write may be applied and never acknowledged
  CheckpointEvery, RepeatThreshold,   \* RuntimePolicy
  MaxAttempts       \* bound: executors started on one log

ASSUME PolicyAssumption ==
  /\ CheckpointEvery \in Nat
  /\ RepeatThreshold \in Nat
  /\ MaxAttempts \in Nat \ {0}
  /\ EnvTracksKeys \in BOOLEAN
  /\ LosesAcks \in BOOLEAN

\* An idempotency key: the operation (module and version are fixed here) and
\* the iterations of the loops open around it.
Key == OperationId \X Seq(Nat)

ASSUME KeyAssumption == NoKey \notin Key

\* What the verifier and the lowering guarantee of a plan: a control step has
\* the regions its kind needs, and regions are plans.
ASSUME PlanAssumption ==
  /\ Entries \subseteq PlanId
  /\ \A p \in PlanId :
       /\ Len(Plan[p]) \in Nat
       /\ DOMAIN Plan[p] = 1..Len(Plan[p])
       /\ \A i \in DOMAIN Plan[p] :
            LET step == Plan[p][i]
            IN /\ step.op \in OperationId
               /\ \A r \in DOMAIN step.regions : step.regions[r] \in PlanId
               /\ step.kind \in {"loop", "parallel"} => 1 \in DOMAIN step.regions
               /\ step.kind = "while" => {1, 2} \subseteq DOMAIN step.regions

VARIABLES
  entry,        \* the function being run
  phase,        \* where the current executor is, see Phases
  attempt,      \* executors started so far
  stack,        \* the plans being walked, innermost last
  path,         \* Executor.path
  state,        \* ExecutionState
  counters,     \* Executor.{effects, replayed, since_checkpoint, checkpoint_sequence}
  answer,       \* what the environment answered to the call in flight
  log,          \* EventLog
  checkpoints,  \* CheckpointStore
  calls,        \* RecordingEnvironment.calls
  completed,    \* RecordingEnvironment.completed
  memory        \* RecordingEnvironment.memory

volatile == <<stack, path, state, counters, answer>>
durable == <<log, checkpoints>>
environment == <<calls, completed, memory>>
vars == <<entry, phase, attempt, volatile, durable, environment>>

Phases == {"new", "running", "calling", "answered", "saving", "saved",
           "finished", "failed", "down"}

-----------------------------------------------------------------------------
(* Steps.  One record stands for Step, its RuntimeTarget and its Control.  *)

ValueKinds == {"constant", "copy", "compare", "metric", "project"}
MemoryKinds == {"memory.read", "memory.write", "memory.search"}
ExternalKinds == {"tool", "inference"} \cup MemoryKinds
ControlKinds == {"if", "loop", "while", "parallel"}

EffectClass == {"pure", "read_external", "write_external", "irreversible", "stochastic"}

IsReplayable(effect) == effect \in {"pure", "read_external"}
IsWrite(effect) == effect \in {"write_external", "irreversible"}

Roles == {"function", "region", "loop", "condition", "body"}

IsList(v) == v \notin Scalar
Items(v) == IF IsList(v) THEN v ELSE IF v = Null THEN <<>> ELSE <<v>>

Single(values) == IF values = <<>> THEN Null
                  ELSE IF Len(values) = 1 THEN values[1] ELSE values

\* Insertion in a BTreeMap.
Put(map, k, v) == [x \in DOMAIN map \cup {k} |-> IF x = k THEN v ELSE map[x]]

EmptyMap == [x \in {} |-> Null]

\* ids.iter().zip(items): bind as many as there are of both.
BindEach(values, ids, items) ==
  [id \in ValueId |->
     IF \E i \in DOMAIN ids \cap DOMAIN items : ids[i] = id
     THEN items[CHOOSE i \in DOMAIN ids \cap DOMAIN items : ids[i] = id]
     ELSE values[id]]

BindResults(values, results, v) ==
  BindEach(values, results,
           IF Len(results) = 1 THEN <<v>>
           ELSE IF IsList(v) /\ Len(v) = Len(results) THEN v
           ELSE [i \in DOMAIN results |-> Null])

EmptyState == [values |-> [id \in ValueId |-> Null], ledger |-> EmptyMap,
               rejected |-> <<>>, repeats |-> EmptyMap]
ZeroCounters == [effects |-> 0, replayed |-> 0, since |-> 0, sequence |-> 0]

Event(kind, key, result, number) ==
  [kind |-> kind, key |-> key, result |-> result, number |-> number]

-----------------------------------------------------------------------------
(* Where the walk is.                                                      *)

Top == stack[Len(stack)]
Exhausted == Top.pc > Len(Plan[Top.plan])
Step == Plan[Top.plan][Top.pc]
At(kinds) == phase = "running" /\ ~Exhausted /\ Step.kind \in kinds

Advanced == [stack EXCEPT ![Len(stack)].pc = @ + 1]
Pushed(plan, role, items) ==
  Append(stack, [plan |-> plan, pc |-> 1, role |-> role, iteration |-> 0, items |-> items])
\* The innermost plan is done: its owner, the step below, is done too.
Popped == [Front(stack) EXCEPT ![Len(stack) - 1].pc = @ + 1]
\* The same frame again, at its first step.
Restarted(plan, role, iteration) ==
  [stack EXCEPT ![Len(stack)] =
     [@ EXCEPT !.plan = plan, !.pc = 1, !.role = role, !.iteration = iteration]]
Owner == LET below == stack[Len(stack) - 1] IN Plan[below.plan][below.pc]

Operands == [i \in DOMAIN Step.operands |-> state.values[Step.operands[i]]]
Operand(n) == IF n \in DOMAIN Step.operands THEN Operands[n] ELSE Null

-----------------------------------------------------------------------------
(* A run.                                                                  *)

Init ==
  /\ entry \in Entries
  /\ phase = "new"
  /\ attempt = 1
  /\ stack = <<>> /\ path = <<>>
  /\ state = EmptyState
  /\ counters = ZeroCounters
  /\ answer = Null
  /\ log = <<>> /\ checkpoints = <<>>
  /\ calls = <<>> /\ completed = EmptyMap /\ memory = EmptyMap

\* Executor::run up to its call of run_plan.
Begin ==
  /\ phase = "new"
  /\ phase' = "running"
  /\ state' = [state EXCEPT !.values =
                 [id \in ValueId |-> IF id \in DOMAIN Arguments[entry]
                                     THEN Arguments[entry][id] ELSE @[id]]]
  /\ log' = Append(log, Event("started", NoKey, Null, 0))
  /\ stack' = Pushed(entry, "function", <<>>)
  /\ UNCHANGED <<entry, attempt, path, counters, answer, checkpoints, environment>>

\* A Flow::Return unwinds every open plan; run logs the result.
Finish(values) ==
  /\ phase' = "finished"
  /\ log' = Append(log, Event("finished", NoKey, Single(values), 0))
  /\ UNCHANGED <<entry, attempt, volatile, checkpoints, environment>>

\* An Err ends the run without another word in the log.
Fail ==
  /\ phase' = "failed"
  /\ UNCHANGED <<entry, attempt, volatile, durable, environment>>

-----------------------------------------------------------------------------
(* Builtins.                                                               *)

\* Whether a value equals or orders as the predicate says; {} is a type error.
Comparison(predicate, a, b) ==
  CASE predicate = "eq" -> {a = b}
    [] predicate = "ne" -> {a # b}
    [] OTHER ->
       IF ~ {a, b} \subseteq DOMAIN Number THEN {}
       ELSE CASE predicate = "lt" -> {Number[a] < Number[b]}
              [] predicate = "le" -> {Number[a] =< Number[b]}
              [] predicate = "gt" -> {Number[a] > Number[b]}
              [] predicate = "ge" -> {Number[a] >= Number[b]}
              [] OTHER -> {}

\* The value a builtin binds, as a singleton; {} when it is an error.
Evaluation ==
  CASE Step.kind = "constant" -> {Step.literal}
    [] Step.kind = "copy" -> {Operand(1)}
    [] Step.kind = "compare" ->
         {IF holds THEN True ELSE False : holds \in Comparison(Step.literal, Operand(1), Operand(2))}
    [] Step.kind = "metric" ->
         IF <<Operand(1), Step.literal>> \in DOMAIN Field
         THEN {Field[<<Operand(1), Step.literal>>]} ELSE {}
    [] Step.kind = "project" ->
         {IF <<Operand(1), Step.literal>> \in DOMAIN Field
          THEN Field[<<Operand(1), Step.literal>>] ELSE Null}

Bind ==
  /\ At(ValueKinds)
  /\ \E v \in Evaluation :
       state' = [state EXCEPT !.values = BindResults(@, Step.results, v)]
  /\ stack' = Advanced
  /\ UNCHANGED <<entry, phase, attempt, path, counters, answer, durable, environment>>

\* `agent.budget` and `agent.verify` were settled at compile time.
Skip ==
  /\ At({"budget", "verify"})
  /\ stack' = Advanced
  /\ UNCHANGED <<entry, phase, attempt, path, state, counters, answer, durable, environment>>

RecordError ==
  /\ At({"record_error"})
  /\ log' = Append(log, Event("failed", NoKey, Null, 0))
  /\ stack' = Advanced
  /\ UNCHANGED <<entry, phase, attempt, path, state, counters, answer, checkpoints, environment>>

Reject ==
  /\ At({"reject"})
  /\ state' = [state EXCEPT !.rejected = Append(@, Operand(1))]
  /\ stack' = Advanced
  /\ UNCHANGED <<entry, phase, attempt, path, counters, answer, durable, environment>>

Return ==
  /\ At({"return"})
  /\ Finish(Operands)

-----------------------------------------------------------------------------
(* Control flow.                                                           *)

\* control.if has a `then` region and perhaps an `otherwise`.
Branch == IF Operand(1) = True THEN 1 ELSE 2

EnterIf ==
  /\ At({"if"})
  /\ Operand(1) \in {True, False}
  /\ stack' = IF Branch \in DOMAIN Step.regions
               THEN Pushed(Step.regions[Branch], "region", <<>>) ELSE Advanced
  /\ UNCHANGED <<entry, phase, attempt, path, state, counters, answer, durable, environment>>

EnterParallel ==
  /\ At({"parallel"})
  /\ stack' = Pushed(Step.regions[1], "region", <<>>)
  /\ UNCHANGED <<entry, phase, attempt, path, state, counters, answer, durable, environment>>

\* Binding the item of one iteration of a loop.
BindItem(loop, item) ==
  IF loop.binding = NoBinding THEN state
  ELSE [state EXCEPT !.values[loop.binding] = item]

BelowBound(items) == Len(items) < Step.limit  \* mutant: off by one
WithinBound(items) == Len(items) =< Step.limit

EnterLoop ==
  LET items == Items(Operand(1))
  IN /\ At({"loop"})
     /\ WithinBound(items)
     /\ IF items = <<>>
        THEN stack' = Advanced /\ UNCHANGED <<path, state>>
        ELSE /\ stack' = Pushed(Step.regions[1], "loop", items)
             /\ path' = Append(path, 0)
             /\ state' = BindItem(Step, items[1])
     /\ UNCHANGED <<entry, phase, attempt, counters, answer, durable, environment>>

EnterWhile ==
  /\ At({"while"})
  /\ stack' = IF Step.limit = 0 THEN Advanced
              ELSE Pushed(Step.regions[1], "condition", <<>>)
  /\ UNCHANGED <<entry, phase, attempt, path, state, counters, answer, durable, environment>>

\* A plan that ran out of steps (Flow::Continue) or reached control.yield.
Leaving(role) ==
  /\ phase = "running"
  /\ ~Exhausted => Step.kind = "yield"
  /\ Top.role = role
Yielded == IF Exhausted THEN <<>> ELSE Operands

LeaveFunction ==
  /\ Leaving("function")
  /\ Finish(Yielded)

LeaveRegion ==
  /\ Leaving("region")
  /\ state' = [state EXCEPT !.values = BindEach(@, Owner.results, Yielded)]
  /\ stack' = Popped
  /\ UNCHANGED <<entry, phase, attempt, path, counters, answer, durable, environment>>

LeaveLoopBody ==
  LET next == Top.iteration + 1
  IN /\ Leaving("loop")
     /\ IF next < Len(Top.items)
        THEN /\ stack' = Restarted(Top.plan, "loop", next)
             /\ path' = Append(Front(path), next)
             /\ state' = BindItem(Owner, Top.items[next + 1])
        ELSE /\ stack' = Popped
             /\ path' = Front(path)
             /\ UNCHANGED state
     /\ UNCHANGED <<entry, phase, attempt, counters, answer, durable, environment>>

LeaveCondition ==
  /\ Leaving("condition")
  /\ \/ /\ ~Exhausted => Single(Yielded) = False
        /\ stack' = Popped
        /\ UNCHANGED path
     \/ /\ ~Exhausted
        /\ Single(Yielded) = True
        /\ stack' = Restarted(Owner.regions[2], "body", Top.iteration)
        /\ path' = Append(path, Top.iteration)
  /\ UNCHANGED <<entry, phase, attempt, state, counters, answer, durable, environment>>

\* The bound is checked after the body: the last allowed iteration is an error.
WithinLimit == Top.iteration + 1 # Owner.limit

LeaveWhileBody ==
  /\ Leaving("body")
  /\ WithinLimit
  /\ stack' = Restarted(Owner.regions[1], "condition", Top.iteration + 1)
  /\ path' = Front(path)
  /\ UNCHANGED <<entry, phase, attempt, state, counters, answer, durable, environment>>

RaiseTypeError ==
  /\ \/ At(ValueKinds) /\ Evaluation = {}
     \/ At({"if"}) /\ Operand(1) \notin {True, False}
     \/ Leaving("condition") /\ ~Exhausted /\ Single(Yielded) \notin {True, False}
  /\ Fail

RaiseIterationLimit ==
  /\ \/ At({"loop"}) /\ ~WithinBound(Items(Operand(1)))
     \/ Leaving("body") /\ ~WithinLimit
  /\ Fail

Control ==
  \/ EnterIf \/ EnterParallel \/ EnterLoop \/ EnterWhile
  \/ LeaveFunction \/ LeaveRegion \/ LeaveLoopBody \/ LeaveCondition \/ LeaveWhileBody

-----------------------------------------------------------------------------
(* External effects.                                                       *)

\* Scheduler::lower_step gives a key to whatever is not replayable; the
\* executor appends the loop path.
KeyWithoutPath == IF IsReplayable(Step.effect) THEN NoKey ELSE <<Step.op, <<>>>>  \* mutant
EffectiveKey == IF IsReplayable(Step.effect) THEN NoKey ELSE <<Step.op, path>>

\* run_external's first question: the ledger, then the environment.
InEnvironmentNever(k) == FALSE  \* mutant: the executor's ledger only
InLedger(k) == k \in DOMAIN state.ledger
InEnvironment(k) == EnvTracksKeys /\ k \in DOMAIN completed
WriteAlreadyDone ==  \* mutant: only writes are memoized
  IsWrite(Step.effect) /\ (InLedger(EffectiveKey) \/ InEnvironment(EffectiveKey))
AlreadyDone == EffectiveKey # NoKey /\ (InLedger(EffectiveKey) \/ InEnvironment(EffectiveKey))

ReplayEffect ==
  LET k == EffectiveKey
      result == IF InLedger(k) THEN state.ledger[k] ELSE completed[k]
  IN /\ At(ExternalKinds)
     /\ AlreadyDone
     /\ log' = Append(log, Event("replayed", k, result, 0))
     /\ state' = [state EXCEPT !.values = BindResults(@, Step.results, result)]
     /\ counters' = [counters EXCEPT !.replayed = @ + 1]
     /\ stack' = Advanced
     /\ UNCHANGED <<entry, phase, attempt, path, answer, checkpoints, environment>>

Signature == <<Step.target, Operands>>
CompareThenCount ==  \* mutant: off by one
  IF Signature \in DOMAIN state.repeats THEN state.repeats[Signature] ELSE 0
Repeats == (IF Signature \in DOMAIN state.repeats THEN state.repeats[Signature] ELSE 0) + 1

\* check_loop_guard counts before it compares.
Invoke ==
  /\ At(ExternalKinds)
  /\ ~AlreadyDone
  /\ state' = [state EXCEPT !.repeats = Put(@, Signature, Repeats)]
  /\ \/ /\ Repeats =< RepeatThreshold
        /\ phase' = "calling"
        /\ UNCHANGED log
     \/ /\ Repeats > RepeatThreshold
        /\ phase' = "failed"
        /\ log' = Append(log, Event("loop_guard", NoKey, Null, Repeats))
  /\ UNCHANGED <<entry, attempt, stack, path, counters, answer, checkpoints, environment>>

\* What RecordingEnvironment notes of a call, and two things the properties
\* need to know of it: whether the world changed, and for which executor.
Call(applied) == [target |-> Step.target, args |-> Operands, key |-> EffectiveKey,
                  write |-> IsWrite(Step.effect), applied |-> applied, run |-> attempt]

\* completed.insert, for an environment that tracks keys.
Completed(k, result) ==
  IF EnvTracksKeys /\ k # NoKey THEN Put(completed, k, result) ELSE completed

Stored == LET present == SelectSeq(MemoryKeys, LAMBDA k : k \in DOMAIN memory)
          IN [i \in DOMAIN present |-> memory[present[i]]]

Possible ==
  CASE Step.kind = "memory.read" ->
         {IF Step.target \in DOMAIN memory THEN memory[Step.target] ELSE Null}
    [] Step.kind = "memory.write" -> {Null}
    [] Step.kind = "memory.search" -> {Stored}
    [] OTHER -> Answers[Step.target]

MemoryAfter == IF Step.kind = "memory.write" THEN Put(memory, Step.target, Operand(1)) ELSE memory

\* The memory operations record no key but memory.write's.
EnvAnswers ==
  /\ phase = "calling"
  /\ \E result \in Possible :
       /\ answer' = result
       /\ completed' = Completed(EffectiveKey, result)
  /\ calls' = Append(calls, Call(TRUE))
  /\ memory' = MemoryAfter
  /\ phase' = "answered"
  /\ UNCHANGED <<entry, attempt, stack, path, state, counters, durable>>

\* The handler returns an error or there is none.  A write's key is recorded
\* before the handler runs.
EnvFails ==
  /\ phase = "calling"
  /\ attempt < MaxAttempts
  /\ Step.kind \notin MemoryKinds
  /\ Step.target \in Failing
  /\ calls' = Append(calls, Call(FALSE))
  /\ completed' = IF IsWrite(Step.effect) THEN Completed(EffectiveKey, Null) ELSE completed
  /\ log' = Append(log, Event("failed", NoKey, Null, 0))
  /\ phase' = "failed"
  /\ UNCHANGED <<entry, attempt, volatile, checkpoints, memory>>

\* EnvError::Crashed: the write is applied, the acknowledgement is lost.
LostAck(applied) ==
  /\ calls' = Append(calls, Call(applied))
  /\ completed' = Completed(EffectiveKey, Null)
  /\ memory' = MemoryAfter
LostWrite == LostAck(FALSE)  \* mutant: the key is recorded, the write is not applied
AppliedUnacknowledged == LostAck(TRUE)

EnvCrashes ==
  /\ phase = "calling"
  /\ attempt < MaxAttempts
  /\ LosesAcks
  /\ IsWrite(Step.effect)
  /\ AppliedUnacknowledged
  /\ log' = Append(log, Event("failed", NoKey, Null, 0))
  /\ phase' = "failed"
  /\ UNCHANGED <<entry, attempt, volatile, checkpoints>>

\* The ledger once the answer is in.
RecordOccurrence ==  \* mutant: that it happened, not what it answered
  IF EffectiveKey = NoKey THEN state.ledger ELSE Put(state.ledger, EffectiveKey, Null)
RecordAnswer ==
  IF EffectiveKey = NoKey THEN state.ledger ELSE Put(state.ledger, EffectiveKey, answer)

Due == CheckpointEvery > 0 /\ counters.since + 1 >= CheckpointEvery

\* The rest of run_external, to the point where maybe_checkpoint saves.
RecordEffect ==
  /\ phase = "answered"
  /\ log' = Append(log, Event("effect", EffectiveKey, answer, 0))
  /\ state' = [state EXCEPT
       !.ledger = RecordAnswer,
       !.values = BindResults(@, Step.results, answer)]
  /\ counters' = [counters EXCEPT
       !.effects = @ + 1,
       !.since = IF Due \/ CheckpointEvery = 0 THEN 0 ELSE @ + 1,
       !.sequence = IF Due THEN @ + 1 ELSE @]
  /\ phase' = IF Due THEN "saving" ELSE "running"
  /\ stack' = Advanced
  /\ answer' = Null
  /\ UNCHANGED <<entry, attempt, path, checkpoints, environment>>

\* The snapshot maybe_checkpoint takes.
SnapshotPastTheLog ==  \* mutant: off by one
  [sequence |-> counters.sequence, logPosition |-> Len(log) + 1, state |-> state]
Snapshot == [sequence |-> counters.sequence, logPosition |-> Len(log), state |-> state]

AnnounceCheckpoint ==  \* mutant: logged, then saved
  /\ phase = "saving"
  /\ log' = Append(log, Event("checkpoint", NoKey, Null, counters.sequence))
  /\ phase' = "saved"
  /\ UNCHANGED <<entry, attempt, volatile, checkpoints, environment>>
SaveCheckpoint ==
  /\ phase = "saving"
  /\ checkpoints' = Append(checkpoints, Snapshot)
  /\ phase' = "saved"
  /\ UNCHANGED <<entry, attempt, volatile, log, environment>>

LogCheckpoint ==
  /\ phase = "saved"
  /\ log' = Append(log, Event("checkpoint", NoKey, Null, counters.sequence))
  /\ phase' = "running"
  /\ UNCHANGED <<entry, attempt, volatile, checkpoints, environment>>

External ==
  \/ ReplayEffect \/ Invoke \/ EnvAnswers \/ RecordEffect
  \/ SaveCheckpoint \/ LogCheckpoint

-----------------------------------------------------------------------------
(* Crash and recovery.                                                     *)

\* The process dies; the log, the store and the world do not.
ProcessCrash ==
  /\ phase \in {"running", "calling", "answered", "saving", "saved"}
  /\ attempt < MaxAttempts
  /\ phase' = "down"
  /\ stack' = <<>> /\ path' = <<>> /\ answer' = Null
  /\ state' = EmptyState
  /\ counters' = ZeroCounters
  /\ UNCHANGED <<entry, attempt, durable, environment>>

\* The entries of the log that fold_log_tail folds into a ledger.
Folded(i) == log[i].kind \in {"effect", "replayed"} /\ log[i].key # NoKey

FoldLogTail(position, ledger) ==
  LET tail == {i \in position + 1 .. Len(log) : Folded(i)}
      last(k) == CHOOSE i \in tail : log[i].key = k /\ \A j \in tail : log[j].key = k => j =< i
  IN [k \in DOMAIN ledger \cup {log[i].key : i \in tail} |->
        IF \E i \in tail : log[i].key = k THEN log[last(k)].result ELSE ledger[k]]

LedgerFromLog == FoldLogTail(0, EmptyMap)

\* RecoveryManager::resume: the latest snapshot and the log after it.
SnapshotOnly ==  \* mutant: the log tail is not folded in
  IF checkpoints = <<>> THEN EmptyState ELSE Last(checkpoints).state
Resumption ==
  IF checkpoints = <<>>
  THEN [EmptyState EXCEPT !.ledger = LedgerFromLog]
  ELSE LET latest == Last(checkpoints)
       IN [latest.state EXCEPT !.ledger = FoldLogTail(latest.logPosition, @)]

\* resume, note_resumption, and a new executor resuming_from the result.
Resume ==
  /\ phase \in {"down", "failed"}
  /\ attempt < MaxAttempts
  /\ attempt' = attempt + 1
  /\ phase' = "new"
  /\ state' = Resumption
  /\ stack' = <<>> /\ path' = <<>> /\ answer' = Null
  /\ counters' = ZeroCounters
  /\ log' = IF checkpoints = <<>> THEN log
            ELSE Append(log, Event("resumed", NoKey, Null, Last(checkpoints).sequence))
  /\ UNCHANGED <<entry, checkpoints, environment>>

-----------------------------------------------------------------------------

Settled == phase = "finished" \/ (phase = "failed" /\ attempt = MaxAttempts)

Terminated == Settled /\ UNCHANGED vars

\* What the executor and whoever restarts it do of their own accord.
Progress ==
  \/ Begin \/ Bind \/ Skip \/ RecordError \/ Reject \/ Return
  \/ Control \/ RaiseTypeError \/ RaiseIterationLimit
  \/ External \/ Resume

Fault == EnvFails \/ EnvCrashes \/ ProcessCrash

Next == Progress \/ Fault \/ Terminated

Spec == Init /\ [][Next]_vars

\* The executor is a loop that keeps running; a failed run is resumed.
FairSpec == Spec /\ WF_vars(Progress)

-----------------------------------------------------------------------------
(* Properties.                                                             *)

EventKinds == {"started", "effect", "replayed", "failed", "loop_guard",
               "checkpoint", "resumed", "finished"}

\* Shape of every variable: frames point into their plans, the ledgers and the
\* environment are keyed by idempotency keys, snapshots point into the log.
TypeOK ==
  /\ entry \in Entries
  /\ phase \in Phases
  /\ attempt \in 1..MaxAttempts
  /\ phase \in {"running", "calling", "answered", "saving", "saved"} => stack # <<>>
  /\ \A i \in DOMAIN stack :
       /\ stack[i].plan \in PlanId
       /\ stack[i].pc \in 1..Len(Plan[stack[i].plan]) + 1
       /\ stack[i].role \in Roles
       /\ stack[i].iteration \in Nat
  /\ path \in Seq(Nat)
  /\ DOMAIN state.values = ValueId
  /\ DOMAIN state.ledger \subseteq Key
  /\ counters \in [effects : Nat, replayed : Nat, since : Nat, sequence : Nat]
  /\ \A i \in DOMAIN log : /\ log[i].kind \in EventKinds
                          /\ log[i].key \in Key \cup {NoKey}
  /\ \A c \in DOMAIN checkpoints : /\ checkpoints[c].logPosition \in 0..Len(log)
                                  /\ DOMAIN checkpoints[c].state.ledger \subseteq Key
  /\ \A n \in DOMAIN calls : calls[n].key \in Key \cup {NoKey}
  /\ DOMAIN completed \subseteq Key

IsAnswer(e) == e.kind \in {"effect", "replayed"} /\ e.key # NoKey

\* An effect the log records as completed never reaches the world again,
\* whatever crashed in between and whether or not the environment tracks keys
\* (recovery.rs: folding the log tail back into the ledger "is what stops them
\* happening a second time").
LoggedEffectsNeverRepeat ==
  [][\A n \in DOMAIN calls' \ DOMAIN calls :
       ~ \E i \in DOMAIN log : IsAnswer(log[i]) /\ log[i].key = calls'[n].key]_vars

\* With an environment that tracks keys no write is ever applied twice, not
\* even the one whose acknowledgement a crash swallowed (env.rs: "only the side
\* that actually performed it can say it happened").
WritesAppliedOnce ==
  \A m, n \in DOMAIN calls :
    /\ calls[m].write /\ calls[m].applied
    /\ calls[n].write /\ calls[n].applied
    /\ calls[m].key = calls[n].key
    => m = n

\* All the answers the program ever got for one key, fresh or replayed, before
\* or after any number of crashes, are the same: what is not replayable is
\* memoized, never sampled again.
AnswersAgree ==
  \A i, j \in DOMAIN log :
    /\ IsAnswer(log[i])
    /\ IsAnswer(log[j])
    /\ log[i].key = log[j].key
    => log[i].result = log[j].result

\* An idempotency key names an invocation: within one run no key answers two
\* steps (executor.rs: "giving them one key would let recovery skip
\* thirty-nine of them").
KeyNamesInvocation ==
  \A i, j \in DOMAIN log :
    /\ i < j
    /\ IsAnswer(log[i])
    /\ IsAnswer(log[j])
    /\ log[i].key = log[j].key
    => \E m \in i..j : log[m].kind = "started"

\* A step that is called under an idempotency key.
IsKeyed(step) == step.kind \in ExternalKinds /\ ~IsReplayable(step.effect)

\* The operations called under a key by a step or within its regions, when
\* keys[p] are those within the plan p.
KeysAt(keys, p, i) ==
  {o \in {Plan[p][i].op} : IsKeyed(Plan[p][i])}
    \cup UNION {keys[Plan[p][i].regions[r]] : r \in DOMAIN Plan[p][i].regions}

\* What lowering gives: a step of its own to every operation, so that no two
\* steps of a plan lead to one key.  And what it does not: no such operation in
\* the condition of a while.
UniqueKeys(keys) ==
  /\ Entries \subseteq DOMAIN keys
  /\ DOMAIN keys \subseteq PlanId
  /\ \A p \in DOMAIN keys : \A i \in DOMAIN Plan[p] :
       LET step == Plan[p][i]
       IN /\ \A r \in DOMAIN step.regions : step.regions[r] \in DOMAIN keys
          /\ KeysAt(keys, p, i) \subseteq keys[p]
          /\ \A j \in DOMAIN Plan[p] \ {i} : KeysAt(keys, p, i) \cap KeysAt(keys, p, j) = {}
          /\ step.kind = "while" => keys[step.regions[1]] = {}

RunStart == CHOOSE i \in DOMAIN log :
              log[i].kind = "started" /\ \A j \in i + 1 .. Len(log) : log[j].kind # "started"

\* Every write the finishing run was given an answer for, fresh or replayed,
\* was applied to the world (the §16 test: "40 candidates, 40 writes, no more
\* and no less"; WritesAppliedOnce is the "no more").
FinishedMeansApplied ==
  phase = "finished" =>
    \A i \in RunStart .. Len(log) :
      IsAnswer(log[i]) =>
        \E n \in DOMAIN calls : calls[n].key = log[i].key /\ calls[n].applied

\* The answers of the run that started at s, in order.
RunStarts == {i \in DOMAIN log : log[i].kind = "started"}
AnswersOf(s) ==
  LET later == {i \in RunStarts : i > s}
      end == IF later = {} THEN Len(log) ELSE Min(later)
  IN SelectSeq(SubSeq(log, s, end), LAMBDA e : e.kind \in {"effect", "replayed"})

\* The places where a replayable call answered two runs differently.
Parted(old, new) ==
  {j \in DOMAIN old \cap DOMAIN new : old[j].key = NoKey /\ old[j].result # new[j].result}


\* A replayed effect is the effect it replays: when a result is about to be
\* taken from a ledger, the call that produced it had the arguments this step
\* has now (recovery.rs: every replayable step before it ran again, "which is
\* safe").
ReplayMatchesCall ==
  At(ExternalKinds) /\ AlreadyDone =>
    \A n \in DOMAIN calls : calls[n].key = EffectiveKey => calls[n].args = Operands

\* A reader of the log never sees a checkpoint the store does not hold: the
\* snapshot saved just before the event, standing for the log up to it.
LoggedCheckpointsExist ==
  \A i \in DOMAIN log :
    log[i].kind = "checkpoint" =>
      \E c \in DOMAIN checkpoints :
        /\ checkpoints[c].sequence = log[i].number
        /\ checkpoints[c].logPosition = i - 1

\* A snapshot's ledger holds every effect logged before its position, which is
\* why recovery may skip that part of the log.
SnapshotsCoverTheLog ==
  \A c \in DOMAIN checkpoints :
    \A i \in 1 .. checkpoints[c].logPosition :
      log[i].kind = "effect" /\ log[i].key # NoKey =>
        /\ log[i].key \in DOMAIN checkpoints[c].state.ledger
        /\ checkpoints[c].state.ledger[log[i].key] = log[i].result

SameAction(m, n) == calls[m].target = calls[n].target /\ calls[m].args = calls[n].args

\* One run never repeats an action with the same arguments past the threshold.
GuardBoundsRepeats ==
  \A n \in DOMAIN calls :
    Cardinality({m \in DOMAIN calls : calls[m].run = calls[n].run /\ SameAction(m, n)})
      =< RepeatThreshold

\* The guard stops a run only for an action that run has repeated to the
\* threshold (durability.rs, distinct_arguments_never_trip_the_guard).
GuardTripsOnRepeatsOnly ==
  phase = "failed" /\ Last(log).kind = "loop_guard" =>
    Cardinality({m \in DOMAIN calls : /\ calls[m].run = attempt
                                     /\ <<calls[m].target, calls[m].args>> = Signature})
      >= RepeatThreshold

\* Once the faults stop, recovery brings the run to its end.
Completes == <>(phase = "finished")

Effects == INSTANCE DurableEffects WITH
  outcome <- completed,
  performed <- {<<n, calls[n].key>> :
                  n \in {m \in DOMAIN calls : calls[m].key # NoKey /\ calls[m].applied}},
  told <- {<<log[i].key, log[i].result>> : i \in {j \in DOMAIN log : IsAnswer(log[j])}}

\* The runtime keeps its promise about effects, when the environment tracks
\* keys: it implements DurableEffects.
ImplementsDurableEffects == Effects!Spec
=============================================================================
