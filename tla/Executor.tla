------------------------------ MODULE Executor ------------------------------
(***************************************************************************)
(* The VM executor of frychain-vm: executor.rs, with the contract types of *)
(* types.rs and the precompiled contracts of precompiles.rs.  A call picks *)
(* the interpreter by the contract's first bytes, runs it to its end and   *)
(* returns one result.  One client may estimate the gas of a contract and  *)
(* then calls it; a call is the interpreter's steps, one at a time.        *)
(***************************************************************************)
EXTENDS Gas, Integers, Sequences

CONSTANTS
  Contract,         \* the contracts: lang, code and input, the source if it was compiled from
                    \* TEAL; an address for a native one
  Limit,            \* the gas limits a client may give, besides an estimate
  CallDepth,        \* the call depths a context may have
  MAX_DEPTH,        \* 1024
  ESTIMATE_LIMIT,   \* 100000000
  InputSize,        \* sizes of a precompile's input
  U64, BITS, HEAP_SIZE, STACK_SIZE, MAX_CALL_DEPTH, MAX_STACK_DEPTH,
  NUM_BYTES, MAX_STACK_SIZE, MAX_SCRIPT_SIZE, MAX_ELEMENT_SIZE, MAX_OPS_PER_SCRIPT,
  MAX_RECURSION_DEPTH, MAX_TABLE_SIZE, IntModulus, USIZE, U32, OverflowChecks,
  Tx, Signers, Garbled, Digest(_, _), Hex(_), DebugSize(_)

ASSUME ContractAssumption ==
  \A c \in Contract :
    /\ c.lang \in {"avm", "sbf", "kaspa", "pact", "native", "none"}
    /\ c.lang = "avm" => c.code \in Seq(0..255)
ASSUME LimitAssumption == Limit \subseteq Nat /\ ESTIMATE_LIMIT \in Nat
ASSUME U32Assumption == U32 \in Nat \ {0}

VARIABLES
  contract,   \* the contract the client works with
  vm,         \* the interpreter of the call that runs, Idle between calls
  job,        \* the call that runs: kind and limit
  estimate,   \* the estimate the client got, with what that run returned
  last        \* the result of the client's call

vars == <<contract, vm, job, estimate, last>>

Avm == INSTANCE AVM
Sbf == INSTANCE SBF
Kaspa == INSTANCE KaspaScript
Pact == INSTANCE Pact

ASSUME AvmAssumption == U64 \in Nat \ {0, 1} /\ MAX_STACK_DEPTH \in Nat
ASSUME SourceAssumption ==
  \A c \in Contract :
    "source" \in DOMAIN c =>
      c.lang = "avm" /\ c.source \in Seq(Avm!Line) /\ c.code = Avm!Compile(c.source)

Idle == [lang |-> "idle", status |-> "idle"]
None == [kind |-> "none"]

Init ==
  /\ contract \in Contract
  /\ vm = Idle
  /\ job = None
  /\ estimate = None
  /\ last = None

\* ContractType::from_bytecode: less than four bytes, or a first byte that is
\* no TEAL version, is no contract; a native one has no bytes
TypeOfContract(c) ==
  IF c.lang = "native" \/ (c.lang = "avm" /\ (Len(c.code) < 4 \/ c.code[1] > 10))
  THEN "none" ELSE c.lang

\* The interpreter a contract starts in; a deployment has no input
Start(c, kind, limit) ==
  LET input == IF kind = "deploy" THEN <<>> ELSE c.input
  IN  CASE TypeOfContract(c) = "avm" -> Avm!Boot(c.code, limit)
        [] TypeOfContract(c) = "sbf" -> Sbf!Boot(c.code, limit)
        [] TypeOfContract(c) = "kaspa" -> Kaspa!Boot(input, c.code, limit)
        [] TypeOfContract(c) = "pact" -> Pact!Boot(c.code, input, limit)

Result(kind, limit, success, used, data, logs) ==
  [kind |-> kind, limit |-> limit, success |-> success, used |-> used, data |-> data,
   logs |-> logs, deployed |-> kind = "deploy" /\ success]

Refused(kind, limit) == Result(kind, limit, FALSE, 0, <<>>, <<>>)

\* estimate_gas: the gas of a run with a large limit, and a tenth of it
Estimated(r) == [kind |-> "estimate", gas |-> (r.used * 11) \div 10, run |-> r]

Return(r) ==
  /\ vm' = Idle
  /\ job' = None
  /\ IF r.kind = "estimate" THEN estimate' = Estimated(r) /\ UNCHANGED last
     ELSE last' = r /\ UNCHANGED estimate
  /\ UNCHANGED contract

\* execute, deploy and estimate_gas up to the interpreter's start
Begin(kind, limit, depth) ==
  /\ vm = Idle
  /\ IF (depth > MAX_DEPTH /\ kind # "deploy") \/ TypeOfContract(contract) = "none"
     THEN Return(Refused(kind, limit))
     ELSE /\ vm' = Start(contract, kind, limit)
          /\ job' = [kind |-> kind, limit |-> limit]
          /\ UNCHANGED <<contract, estimate, last>>

Execute(limit, depth) == last = None /\ Begin("execute", limit, depth)
Deploy(limit) == last = None /\ Begin("deploy", limit, 0)
EstimateGas(depth) == estimate = None /\ last = None /\ Begin("estimate", ESTIMATE_LIMIT, depth)

\* One instruction, token or top-level expression
StepAvm == Avm!Step(vm, vm') /\ UNCHANGED <<contract, job, estimate, last>>
StepSbf == Sbf!Step(vm, vm') /\ UNCHANGED <<contract, job, estimate, last>>
StepKaspa == Kaspa!Step(vm, vm') /\ UNCHANGED <<contract, job, estimate, last>>
StepPact == Pact!Step(vm, vm') /\ UNCHANGED <<contract, job, estimate, last>>

\* What an interpreter that ended returns: an error takes the logs with it
Succeeds(m) ==
  CASE m.lang = "avm" -> Avm!Succeeds(m)
    [] m.lang = "sbf" -> Sbf!Succeeds(m)
    [] m.lang = "kaspa" -> Kaspa!Succeeds(m)
    [] m.lang = "pact" -> Pact!Succeeds(m)
Answer(m) ==
  CASE m.lang = "avm" -> Avm!Answer(m)
    [] m.lang = "sbf" -> Sbf!Answer(m)
    [] m.lang = "kaspa" -> Kaspa!Answer(m)
    [] m.lang = "pact" -> Pact!Answer(m)

Finish ==
  /\ vm.status \in {"done", "failed"}
  /\ Return(Result(job.kind, job.limit, Succeeds(vm), vm.gas.used, Answer(vm),
                   IF vm.status = "done" THEN vm.logs ELSE <<>>))

\* PrecompileRegistry::execute: the cost is known before anything runs
Precompiles == {1, 2, 3, 4, 5}

PrecompileCost(a, size) ==
  CASE a \in {2, 3} -> 30 + 6 * Words(size)
    [] a \in {1, 4} -> 15 + 3 * Words(size)
    [] a = 5 -> 3000

CallPrecompile(size, limit) ==
  /\ vm = Idle
  /\ last = None
  /\ contract.lang = "native"
  /\ contract.address \in Precompiles
  /\ LET a    == contract.address
         cost == PrecompileCost(a, size)
         ran  == cost <= limit
     IN  Return(Result("precompile", limit, ran /\ (a = 5 => size >= 32),
                       IF ran THEN cost ELSE limit, <<>>, <<>>))

Busy == vm # Idle /\ vm.status # "panicked"

\* The process aborted on a panic, or the client has its result
Over == (vm.status = "panicked" \/ last # None) /\ ~Busy /\ UNCHANGED vars

Next ==
  \/ \E limit \in Limit, depth \in CallDepth : Execute(limit, depth)
  \/ estimate # None /\ Execute(estimate.gas, 0)
  \/ \E limit \in Limit : Deploy(limit)
  \/ \E depth \in CallDepth : EstimateGas(depth)
  \/ \E size \in InputSize, limit \in Limit : CallPrecompile(size, limit)
  \/ StepAvm \/ StepSbf \/ StepKaspa \/ StepPact \/ Finish \/ Over

Spec == Init /\ [][Next]_vars

\* An interpreter that runs is never interrupted: weak fairness of its steps
\* and of Finish, of which one can be taken whenever a call runs
Uninterrupted == []<>~Busy \/ []<><<vm' # vm>>_vars

FairSpec == Spec /\ Uninterrupted

-----------------------------------------------------------------------------
\* Every step pays at least the base cost before it does anything, and no run
\* uses more than its limit: gas bounds the length of every run (gas.rs:95,
\* and the consume(costs::BASE) at the head of each interpreter's step).
StepsArePaid ==
  /\ vm # Idle => /\ vm.gas.used <= job.limit
                  /\ BASE * vm.steps <= vm.gas.used + (IF vm.status = "running" THEN 0 ELSE BASE)
  /\ last # None => last.used <= last.limit

\* What estimate_gas says is enough: the same call with that limit returns what
\* the estimating run returned, for the same gas, whether it succeeded or failed
\* (executor.rs:220).
EstimateSuffices ==
  (/\ last # None /\ last.kind = "execute" /\ estimate # None
   /\ last.limit = estimate.gas /\ last.used > 0 /\ estimate.run.used \in 1..(ESTIMATE_LIMIT - 1)) =>
      [last EXCEPT !.kind = "estimate", !.limit = ESTIMATE_LIMIT] = estimate.run

\* Every call ends: it returns, or the interpreter panics (executor.rs:49).
CallReturns == vm # Idle ~> (vm = Idle \/ vm.status = "panicked")

\* A conditional that is nested in a skipped branch never executes, whatever
\* else branches and ends come, and so many opcodes cannot fill the stack: the
\* limit on opcodes keeps both stacks below the limit on elements, which the
\* alternate stack and OpTuck do not check (kaspa.rs:795, :831, :946).
KaspaStacks ==
  vm.lang = "kaspa" =>
    /\ \A i, j \in DOMAIN vm.exec : i < j /\ ~vm.exec[i] => ~vm.exec[j]
    /\ Len(vm.stack) + Len(vm.alt) <= 3 * vm.ops

\* Between two top-level expressions nothing of the first one's scopes is left:
\* no local binding, no capability, no module and no depth (pact.rs:414, :511,
\* :640, :1066, :1108).
PactScopeRestored ==
  (vm.lang = "pact" /\ vm.status = "running" /\ vm.frames = <<>>) =>
    vm.env = <<>> /\ vm.active = <<>> /\ vm.module = <<>> /\ vm.depth = 0

\* What a TEAL source comes to if every literal is worth 1: the stack it leaves,
\* and whether it ran on, returned or failed
Worth(op, a, b) ==
  CASE op = "plus" -> (a + b) % U64
    [] op = "minus" -> (a - b) % U64
    [] op = "times" -> (a * b) % U64
    [] op = "div" -> a \div b
EvalLine(r, line) ==
  LET n == Len(r.stack)
      a == r.stack[n - 1]
      b == r.stack[n]
  IN  IF r.status # "running" THEN r
      ELSE IF line[1] = "return" THEN [r EXCEPT !.status = "done"]
      ELSE IF line[1] = "int"
      THEN IF n < MAX_STACK_DEPTH THEN [r EXCEPT !.stack = Append(@, 1)] ELSE [r EXCEPT !.status = "failed"]
      ELSE IF n < 2 \/ (line[1] = "div" /\ b = 0) THEN [r EXCEPT !.status = "failed"]
      ELSE [r EXCEPT !.stack = Append(SubSeq(@, 1, n - 2), Worth(line[1], a, b))]
Evaluated(source) ==
  LET after[i \in 0..Len(source)] ==
        IF i = 0 THEN [status |-> "running", stack |-> <<>>] ELSE EvalLine(after[i - 1], source[i])
  IN  after[Len(source)]

\* A literal below 128 is worth 1 whatever it says: the block of constants the
\* compiler writes for it is read from its own count, and constant 0 is the 1
\* that counts it.  So 5 + 9 is 2 (avm.rs:229, :571; the test at avm.rs:626
\* expects 8 of 5 + 3 and gets 7).
LiteralsReadAsOne ==
  (/\ last # None /\ last.kind = "execute" /\ last.used \in 1..(last.limit - 1)
   /\ "source" \in DOMAIN contract
   /\ \A i \in DOMAIN contract.source : contract.source[i][1] = "int" => contract.source[i][2] < 128) =>
      LET r    == Evaluated(contract.source)
          top  == r.stack[Len(r.stack)]
          ends == r.status # "failed" /\ r.stack # <<>>
      IN  /\ last.success = (ends /\ top # 0)
          /\ last.data = IF ends THEN <<Avm!Uint64(top)>> ELSE <<>>

=============================================================================
