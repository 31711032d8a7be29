------------------------------ MODULE Autarky ------------------------------
(***************************************************************************)
(* The Autarky VM: autarky_execute of autarky_vm/src/lib.rs and the        *)
(* evaluator of vm.rs, with the network card that the variable POLL polls. *)
(*                                                                         *)
(* VirtualMachine::evaluate is recursive.  Here its activations are the    *)
(* frames of `stack', and `mode' says whether the innermost one has just   *)
(* been called ("eval"), or an activation returns Ok ("ok") or Err.  A     *)
(* frame waits for an operand, or for the body that is its own result:     *)
(* nothing is a tail call.  An Err passes through all frames (the operator *)
(* ?), which no frame can prevent, in one step.                            *)
(***************************************************************************)
EXTENDS VirtioNet

CONSTANTS
    Name,           \* identifiers
    IrNode,         \* the trees that contracts are made of
    Program,        \* those that are executed
    HALF,           \* integers are -HALF .. HALF - 1 (2^63)
    MAX_DEPTH,      \* activations that fit on the kernel stack (0x4000 bytes)
    MaxExecutions   \* bound: calls of autarky_execute

ASSUME MachineAssumption ==
    /\ HALF \in Nat /\ HALF > 1000 /\ HALF >= HALF32
    /\ MAX_DEPTH \in Nat \ {0} /\ MaxExecutions \in Nat

(***************************************************************************)
(* IR trees and values.                                                    *)
(***************************************************************************)
\* IrNode, as erase_proofs leaves it: its kind, a literal, the names it binds or
\* reads, and its subtrees in the order of the fields.
Node(op, n, names, sub) == [op |-> op, n |-> n, names |-> names, sub |-> sub]

Arithmetic == {"add", "sub", "mul", "div"}
Relation   == {"eq", "gt", "lt", "ge", "le"}
Kind == Arithmetic \cup Relation \cup
        {"int", "float", "var", "lambda", "app", "pair", "unpack", "left", "right", "match",
         "let", "letrec"}
NoProgram  == Node("none", 0, << >>, << >>)

Names(op) ==
    CASE op \in {"var", "lambda", "let", "letrec"} -> 1
      [] op \in {"match", "unpack"} -> 2
      [] OTHER -> 0

Subtrees(op) ==
    CASE op \in {"int", "float", "var"} -> 0
      [] op \in {"lambda", "left", "right"} -> 1
      [] op = "match" -> 3
      [] OTHER -> 2

Int64 == -HALF .. HALF - 1

IsIrNode(e) ==
    /\ e = Node(e.op, e.n, e.names, e.sub) /\ e.op \in Kind
    /\ e.op = "int" => e.n \in Int64
    /\ e.names \in Seq(Name) /\ Len(e.names) = Names(e.op)
    /\ e.sub \in Seq(IrNode) /\ Len(e.sub) = Subtrees(e.op)

ASSUME ContractAssumption ==
    /\ {"POLL", "SYS_COMPUTE", "SYS_CREDITS"} \subseteq Name /\ "" \notin Name
    /\ Program \subseteq IrNode
    /\ \A e \in IrNode : IsIrNode(e)

\* How many subtrees are evaluated, from the first, before the node does its work.
Operands(op) ==
    CASE op \in Arithmetic \cup Relation \cup {"pair", "app"} -> 2
      [] op \in {"left", "right", "match", "let", "letrec", "unpack"} -> 1
      [] OTHER -> 0

\* Value of vm.rs; a closure that let rec has not named has the rec_name "".
Value(tag, n, parts) == [tag |-> tag, n |-> n, parts |-> parts]
IntValue(n) == Value("int", n, << >>)
Closure(param, body, e) ==
    [tag |-> "closure", param |-> param, body |-> body, env |-> e, rec |-> ""]
Unit == IntValue(0)

\* BTreeMap::insert.
Bind(env, name, v) ==
    [x \in DOMAIN env \cup {name} |-> IF x = name THEN v ELSE env[x]]

\* i64 arithmetic of a release build wraps.
Wrap(x) == ((x + HALF) % (2 * HALF)) - HALF

\* Division rounds towards zero.
Quotient(a, b) ==
    LET abs(x) == IF x < 0 THEN -x ELSE x
        q == abs(a) \div abs(b)
    IN  IF (a < 0) = (b < 0) THEN q ELSE -q

Calculate(op, a, b) ==
    CASE op = "add" -> Wrap(a + b)
      [] op = "sub" -> Wrap(a - b)
      [] op = "mul" -> Wrap(a * b)
      [] op = "div" -> Quotient(a, b)

Holds(op, a, b) ==
    CASE op = "eq" -> a = b
      [] op = "gt" -> a > b
      [] op = "lt" -> a < b
      [] op = "ge" -> a >= b
      [] op = "le" -> a <= b

\* Relations return Left(0) or Right(0), to be matched on.
Verdict(b) == Value(IF b THEN "left" ELSE "right", 0, <<Unit>>)

VARIABLES
    pc,         \* "idle", "running", "overrun" of the stack, or "panic"
    program,    \* the contract
    mode,       \* "eval", "ok", "err"
    node, env,  \* what is evaluated, in which environment
    value,      \* what is returned
    error,      \* the kind of Err
    stack,      \* the activations that wait: node, environment, operands so far
    out_buf,    \* what out_buf holds after a call
    ledger,     \* the volumes given to watcher_commit_ledger
    seen,       \* history: what POLL returned in this execution
    executions  \* bound counter

machineVars == <<mode, node, env, value, error, stack>>
hostVars == <<program, out_buf, ledger, executions>>
vars == <<netVars, pc, machineVars, hostVars, seen>>

NoOut == [kind |-> "none", value |-> Unit, error |-> ""]

Init ==
    /\ NetInit
    /\ pc = "idle" /\ program = NoProgram
    /\ mode = "ok" /\ node = NoProgram /\ env = << >> /\ value = Unit /\ error = ""
    /\ stack = << >>
    /\ out_buf = NoOut /\ ledger = << >>
    /\ seen = << >> /\ executions = 0

(***************************************************************************)
(* The steps an activation is made of.                                     *)
(***************************************************************************)
Frame(n, e, done) == [node |-> n, env |-> e, done |-> done]

\* self.evaluate(e, n), by an activation that waits as the top of frames.
Evaluate(n, e, frames) ==
    /\ mode' = "eval" /\ node' = n /\ env' = e /\ stack' = frames
    /\ pc' = IF Len(frames) < MAX_DEPTH THEN "running" ELSE "overrun"
    /\ UNCHANGED <<value, error>>

\* return Ok(v) to the top of frames.
Ok(v, frames) ==
    /\ mode' = "ok" /\ value' = v /\ stack' = frames
    /\ UNCHANGED <<pc, node, env, error>>

Err(e) ==
    /\ mode' = "err" /\ error' = e /\ stack' = << >>
    /\ UNCHANGED <<pc, node, env, value>>

Evaluating(op) == pc = "running" /\ mode = "eval" /\ node.op = op

EvalLiteral ==
    /\ \E op \in {"int", "float"} : Evaluating(op)
    /\ Ok(Value(node.op, node.n, << >>), stack)
    /\ UNCHANGED <<netVars, hostVars, seen>>

EvalVar ==
    /\ Evaluating("var") /\ node.names[1] # "POLL"
    /\ IF node.names[1] \in DOMAIN env THEN Ok(env[node.names[1]], stack) ELSE Err("unbound")
    /\ UNCHANGED <<netVars, hostVars, seen>>

\* POLL is looked up nowhere: it is a call of virtio_net_poll_rx.
Polling == Evaluating("var") /\ node.names[1] = "POLL"

EvalPollNothing ==
    /\ Polling
    /\ NetPollNothing
    /\ Ok(IntValue(0), stack)
    /\ seen' = Append(seen, 0)
    /\ UNCHANGED hostVars

EvalPoll ==
    /\ Polling
    /\ NetPollUsed \/ NetParse \/ NetGiveBack
    /\ UNCHANGED <<pc, machineVars, hostVars, seen>>

EvalPollReturns ==
    /\ Polling
    /\ NetPublish
    /\ Ok(IntValue(volume), stack)
    /\ seen' = Append(seen, volume)
    /\ UNCHANGED hostVars

EvalLambda ==
    /\ Evaluating("lambda")
    /\ Ok(Closure(node.names[1], node.sub[1], env), stack)
    /\ UNCHANGED <<netVars, hostVars, seen>>

\* The first operand of any other node.
EvalOperands ==
    /\ pc = "running" /\ mode = "eval" /\ Operands(node.op) > 0
    /\ Evaluate(node.sub[1], env, Append(stack, Frame(node, env, << >>)))
    /\ UNCHANGED <<netVars, hostVars, seen>>

(***************************************************************************)
(* An operand, or the body, has returned Ok.                               *)
(***************************************************************************)
Returned == pc = "running" /\ mode = "ok" /\ stack # << >>
Top  == stack[Len(stack)]
Rest == SubSeq(stack, 1, Len(stack) - 1)
Done == Append(Top.done, value)

\* Faulty variant: the second operand is evaluated in the environment of the first.
NextOperandLeaks ==
    /\ Returned /\ Len(Done) < Operands(Top.node.op)
    /\ Evaluate(Top.node.sub[Len(Done) + 1], env, Append(Rest, Frame(Top.node, Top.env, Done)))
    /\ UNCHANGED <<netVars, hostVars, seen>>

NextOperand ==
    /\ Returned /\ Len(Done) < Operands(Top.node.op)
    /\ Evaluate(Top.node.sub[Len(Done) + 1], Top.env,
                Append(Rest, Frame(Top.node, Top.env, Done)))
    /\ UNCHANGED <<netVars, hostVars, seen>>

\* Faulty variant: the activation stays on the stack.
BodyReturnsTwice ==
    /\ Returned /\ Len(Done) > Operands(Top.node.op)
    /\ Ok(value, stack)
    /\ UNCHANGED <<netVars, hostVars, seen>>

\* The body's value is the value of the node.
BodyReturns ==
    /\ Returned /\ Len(Done) > Operands(Top.node.op)
    /\ Ok(value, Rest)
    /\ UNCHANGED <<netVars, hostVars, seen>>

HasOperands(ops) ==
    Returned /\ Top.node.op \in ops /\ Len(Done) = Operands(Top.node.op)

IntOperands == \A k \in DOMAIN Done : Done[k].tag = "int"
Lhs == Done[1].n
Rhs == Done[2].n

\* What Rust does not define a quotient for although the divisor is not 0.
Overflows == Top.node.op = "div" /\ Lhs = -HALF /\ Rhs = -1

ApplyArithmetic ==
    /\ HasOperands(Arithmetic)
    /\ IF ~IntOperands THEN Err("not_int")
       ELSE IF Top.node.op = "div" /\ Rhs = 0 THEN Err("div_by_zero")
       ELSE ~Overflows /\ Ok(IntValue(Calculate(Top.node.op, Lhs, Rhs)), Rest)
    /\ UNCHANGED <<netVars, hostVars, seen>>

\* The panic handler prints a line and loops; the kernel never gets on.
ArithmeticPanics ==
    /\ HasOperands(Arithmetic) /\ IntOperands /\ Overflows
    /\ pc' = "panic"
    /\ UNCHANGED <<netVars, machineVars, hostVars, seen>>

ApplyRelation ==
    /\ HasOperands(Relation)
    /\ IF IntOperands THEN Ok(Verdict(Holds(Top.node.op, Lhs, Rhs)), Rest) ELSE Err("not_int")
    /\ UNCHANGED <<netVars, hostVars, seen>>

Construct ==
    /\ HasOperands({"pair", "left", "right"})
    /\ Ok(Value(Top.node.op, 0, Done), Rest)
    /\ UNCHANGED <<netVars, hostVars, seen>>

\* Faulty variant: the activation of the body takes the place of the node's.
EvaluateBodyInPlace(body, e) == Evaluate(body, e, Rest)

\* A body of the top frame, which stays on the stack until it returns.
EvaluateBody(body, e) == Evaluate(body, e, Append(Rest, Frame(Top.node, Top.env, Done)))

\* The parameter first, then the name of a closure of let rec.
CallEnv(f, arg) ==
    LET e == Bind(f.env, f.param, arg) IN IF f.rec = "" THEN e ELSE Bind(e, f.rec, f)

Apply ==
    /\ HasOperands({"app"})
    /\ IF Done[1].tag = "closure"
       THEN EvaluateBody(Done[1].body, CallEnv(Done[1], Done[2]))
       ELSE Err("not_a_closure")
    /\ UNCHANGED <<netVars, hostVars, seen>>

Match ==
    /\ HasOperands({"match"})
    /\ LET branch == IF value.tag = "left" THEN 1 ELSE 2 IN
        IF value.tag \in {"left", "right"}
        THEN EvaluateBody(Top.node.sub[branch + 1],
                          Bind(Top.env, Top.node.names[branch], value.parts[1]))
        ELSE Err("not_either")
    /\ UNCHANGED <<netVars, hostVars, seen>>

Let ==
    /\ HasOperands({"let"})
    /\ EvaluateBody(Top.node.sub[2], Bind(Top.env, Top.node.names[1], value))
    /\ UNCHANGED <<netVars, hostVars, seen>>

\* A closure is tagged with the name it is bound to.
LetRec ==
    /\ HasOperands({"letrec"})
    /\ LET name == Top.node.names[1]
           v == IF value.tag = "closure" THEN [value EXCEPT !.rec = name] ELSE value
       IN  EvaluateBody(Top.node.sub[2], Bind(Top.env, name, v))
    /\ UNCHANGED <<netVars, hostVars, seen>>

Unpack ==
    /\ HasOperands({"unpack"})
    /\ IF value.tag = "pair"
       THEN EvaluateBody(Top.node.sub[2],
                         Bind(Bind(Top.env, Top.node.names[1], value.parts[1]),
                              Top.node.names[2], value.parts[2]))
       ELSE Err("not_a_pair")
    /\ UNCHANGED <<netVars, hostVars, seen>>

(***************************************************************************)
(* autarky_execute.                                                        *)
(***************************************************************************)
Call == pc = "idle" /\ executions < MaxExecutions /\ executions' = executions + 1

\* A contract that is empty or has no parse: 0 is returned, and out_buf is left alone.
ExecuteUnparsed ==
    /\ Call
    /\ program' = NoProgram
    /\ out_buf' = NoOut
    /\ UNCHANGED <<netVars, pc, machineVars, ledger, seen>>

StartEnv == Bind(Bind(<< >>, "SYS_COMPUTE", IntValue(1000)), "SYS_CREDITS", IntValue(500))

Execute(p) ==
    /\ Call
    /\ program' = p
    /\ mode' = "eval" /\ node' = p /\ env' = StartEnv /\ stack' = << >>
    /\ value' = Unit /\ error' = ""
    /\ seen' = << >>
    /\ pc' = "running" /\ out_buf' = NoOut
    /\ UNCHANGED <<netVars, ledger>>

\* Faulty variant: the volume is as wide as the result.
VolumeOfAllBits(v) == IF v.tag = "int" THEN v.n ELSE 0

\* The volume of a result; anything but an integer counts as 0.
VolumeOf(v) == IF v.tag = "int" THEN Trunc32(v.n) ELSE 0

Fault ==
    /\ pc = "running" /\ mode = "err" /\ stack = << >>
    /\ out_buf' = [kind |-> "fault", value |-> Unit, error |-> error]
    /\ pc' = "idle"
    /\ UNCHANGED <<netVars, machineVars, program, ledger, executions, seen>>

Commit ==
    /\ pc = "running" /\ mode = "ok" /\ stack = << >>
    /\ ledger' = Append(ledger, VolumeOf(value))
    /\ out_buf' = [kind |-> "matched", value |-> value, error |-> ""]
    /\ pc' = "idle"
    /\ UNCHANGED <<netVars, machineVars, program, executions, seen>>

MachineStep ==
    \/ EvalLiteral \/ EvalVar \/ EvalLambda \/ EvalOperands
    \/ EvalPollNothing \/ EvalPoll \/ EvalPollReturns
    \/ NextOperand \/ BodyReturns
    \/ ApplyArithmetic \/ ArithmeticPanics \/ ApplyRelation \/ Construct
    \/ Apply \/ Match \/ Let \/ LetRec \/ Unpack
    \/ Fault \/ Commit

Next ==
    \/ MachineStep
    \/ ExecuteUnparsed
    \/ \E p \in Program : Execute(p)
    \/ CardStep /\ UNCHANGED <<pc, machineVars, hostVars, seen>>

\* The kernel does nothing else until an evaluation ends.
Spec == Init /\ [][Next]_vars /\ WF_vars(MachineStep)

(***************************************************************************)
(* Properties.                                                             *)
(***************************************************************************)
Tag   == {"int", "float", "pair", "left", "right", "closure"}
Error == {"", "unbound", "not_int", "div_by_zero", "not_a_closure", "not_either", "not_a_pair"}

TypeOK ==
    /\ NetTypeOK
    /\ pc \in {"idle", "running", "overrun", "panic"}
    /\ mode \in {"eval", "ok", "err"} /\ error \in Error
    /\ program.op \in Kind \cup {"none"} /\ node.op \in Kind \cup {"none"}
    /\ value.tag \in Tag /\ (value.tag = "int" => value.n \in Int64)
    /\ Len(stack) <= MAX_DEPTH
    /\ \A k \in 1 .. Len(stack) :
            /\ stack[k].node.op \in Kind /\ Len(stack[k].done) <= Operands(stack[k].node.op)
            /\ \A v \in {stack[k].done[j] : j \in 1 .. Len(stack[k].done)} : v.tag \in Tag
    /\ out_buf.kind \in {"none", "matched", "fault"}
    /\ ledger \in Seq(Int32) /\ seen \in Seq(Int32)
    /\ executions \in 0 .. MaxExecutions

\* How far an execution is, from the bottom of the stack to the top: 1 more than the
\* operands that an activation has, 0 for one that has just been called, 4 for what has
\* been returned; and last, how far a poll is.
PollProgress ==
    CASE net_pc = "idle" -> 0 [] net_pc = "parse" -> 1
      [] net_pc = "give_back" -> 2 [] net_pc = "publish" -> 3

Progress ==
    [k \in 1 .. Len(stack) + 2 |->
        IF k <= Len(stack) THEN Len(stack[k].done) + 1
        ELSE IF k = Len(stack) + 2 THEN PollProgress
        ELSE IF mode = "eval" THEN 0 ELSE 4]

\* In the order of a dictionary.
Before(s, t) ==
    \E k \in DOMAIN s \cap DOMAIN t : s[k] < t[k] /\ \A i \in 1 .. k - 1 : s[i] = t[i]

\* Nothing is evaluated again, and no call takes the place of another: each step of
\* evaluate gets an execution further, and it can do so only so often in a stack of
\* limited depth.  What the card does in between leaves an execution where it is.
EvaluationAdvances ==
    [][pc = "running" /\ pc' = "running" =>
        IF MachineStep THEN Before(Progress, Progress') ELSE Progress' = Progress]_vars

\* "Re-inject self for infinite recursion without stack overflow" (vm.rs:102).
RecursionKeepsTheStack == pc # "overrun"
=============================================================================
