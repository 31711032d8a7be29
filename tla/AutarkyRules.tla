---------------------------- MODULE AutarkyRules ----------------------------
(***************************************************************************)
(* What VirtualMachine::evaluate of autarky_vm/src/vm.rs promises, in the  *)
(* shape it has there: recursive, one rule for each kind of arm.  Autarky  *)
(* runs it as a machine with a stack of frames, in steps between which the *)
(* network card works; Autarky_proofs shows that whatever the machine ends *)
(* in is derived by these rules.                                           *)
(*                                                                         *)
(* A call is an environment, a tree, and `from', the number of polls that  *)
(* had been answered when it began.  A judgement adds what the call comes  *)
(* to, and how many polls had been answered by then: evaluation is in      *)
(* order from left to right, and each poll takes the next answer.          *)
(***************************************************************************)
EXTENDS Autarky

\* Result<Value, String>, or the end of everything.
Outcome(kind, what) == [kind |-> kind, what |-> what]
Returns(v) == Outcome("ok", v)
Fails(e)   == Outcome("err", e)
Panics     == Outcome("panic", "")

CallOf(e, n, from) == [env |-> e, node |-> n, from |-> from]
Judgement(c, to, outcome) ==
    [env |-> c.env, node |-> c.node, from |-> c.from, to |-> to, outcome |-> outcome]

\* j is about the call of n in e that begins at `from'.
About(j, e, n, from) == j.env = e /\ j.node = n /\ j.from = from

(***************************************************************************)
(* Nodes without operands.                                                 *)
(***************************************************************************)
LiteralRule(j) ==
    /\ j.node.op \in {"int", "float"}
    /\ j.to = j.from /\ j.outcome = Returns(Value(j.node.op, j.node.n, << >>))

VarRule(j) ==
    /\ j.node.op = "var" /\ j.node.names[1] # "POLL"
    /\ j.to = j.from
    /\ j.outcome = IF j.node.names[1] \in DOMAIN j.env
                   THEN Returns(j.env[j.node.names[1]])
                   ELSE Fails("unbound")

\* The next of the answers that virtio_net_poll_rx gives.
PollRule(j, answers) ==
    /\ j.node.op = "var" /\ j.node.names[1] = "POLL"
    /\ j.to = j.from + 1 /\ j.to \in 1 .. Len(answers)
    /\ j.outcome = Returns(IntValue(answers[j.to]))

LambdaRule(j) ==
    /\ j.node.op = "lambda"
    /\ j.to = j.from
    /\ j.outcome = Returns(Closure(j.node.names[1], j.node.sub[1], j.env))

(***************************************************************************)
(* Operands: evaluate(env, ..)? for one after the other.                   *)
(***************************************************************************)
\* Where the call goes on after some operands.
After(c, operands) == IF operands = << >> THEN c.from ELSE operands[Len(operands)].to

\* These judgements are about the first operands of a call, and all return.
Operated(c, operands) ==
    \A k \in 1 .. Len(operands) :
        /\ About(operands[k], c.env, c.node.sub[k],
                 IF k = 1 THEN c.from ELSE operands[k - 1].to)
        /\ operands[k].outcome.kind = "ok"

Results(operands) == [k \in 1 .. Len(operands) |-> operands[k].outcome.what]

\* The ? behind an operand.
OperandRule(j, P) ==
    \E operands \in Seq(P), fault \in P :
        /\ Operated(j, operands) /\ Len(operands) < Operands(j.node.op)
        /\ About(fault, j.env, j.node.sub[Len(operands) + 1], After(j, operands))
        /\ fault.outcome.kind # "ok"
        /\ j.to = fault.to /\ j.outcome = fault.outcome

\* What a node makes of its operands, when nothing is left to evaluate.
OperatorResult(op, vs) ==
    LET ints == \A k \in DOMAIN vs : vs[k].tag = "int" IN
    CASE op \in Arithmetic ->
            IF ~ints THEN Fails("not_int")
            ELSE IF op = "div" /\ vs[2].n = 0 THEN Fails("div_by_zero")
            ELSE IF op = "div" /\ vs[1].n = -HALF /\ vs[2].n = -1 THEN Panics
            ELSE Returns(IntValue(Calculate(op, vs[1].n, vs[2].n)))
      [] op \in Relation ->
            IF ints THEN Returns(Verdict(Holds(op, vs[1].n, vs[2].n))) ELSE Fails("not_int")
      [] op \in {"pair", "left", "right"} -> Returns(Value(op, 0, vs))

OperatorRule(j, P) ==
    \E operands \in Seq(P) :
        /\ Operated(j, operands) /\ Len(operands) = Operands(j.node.op)
        /\ j.node.op \in Arithmetic \cup Relation \cup {"pair", "left", "right"}
        /\ j.to = After(j, operands)
        /\ j.outcome = OperatorResult(j.node.op, Results(operands))

(***************************************************************************)
(* Bodies: what the call itself ends with, in an environment of its own.   *)
(***************************************************************************)
Binders == {"app", "match", "let", "letrec", "unpack"}

\* Whether the first operand is of the kind that the node takes apart.
Fits(op, v) ==
    CASE op = "app" -> v.tag = "closure"
      [] op = "match" -> v.tag \in {"left", "right"}
      [] op = "unpack" -> v.tag = "pair"
      [] op \in {"let", "letrec"} -> TRUE

Misfit(op) ==
    CASE op = "app" -> "not_a_closure"
      [] op = "match" -> "not_either"
      [] op = "unpack" -> "not_a_pair"

Body(n, vs) ==
    CASE n.op = "app" -> vs[1].body
      [] n.op = "match" -> IF vs[1].tag = "left" THEN n.sub[2] ELSE n.sub[3]
      [] n.op \in {"let", "letrec", "unpack"} -> n.sub[2]

\* Names of a later insert shadow those of an earlier one.
BodyEnv(n, e, vs) ==
    CASE n.op = "app" ->
            LET called == Bind(vs[1].env, vs[1].param, vs[2]) IN
            IF vs[1].rec = "" THEN called ELSE Bind(called, vs[1].rec, vs[1])
      [] n.op = "match" ->
            Bind(e, IF vs[1].tag = "left" THEN n.names[1] ELSE n.names[2], vs[1].parts[1])
      [] n.op = "let" -> Bind(e, n.names[1], vs[1])
      [] n.op = "letrec" ->
            Bind(e, n.names[1],
                 IF vs[1].tag = "closure" THEN [vs[1] EXCEPT !.rec = n.names[1]] ELSE vs[1])
      [] n.op = "unpack" -> Bind(Bind(e, n.names[1], vs[1].parts[1]), n.names[2], vs[1].parts[2])

MisfitRule(j, P) ==
    \E operands \in Seq(P) :
        /\ Operated(j, operands) /\ Len(operands) = Operands(j.node.op)
        /\ j.node.op \in Binders /\ ~Fits(j.node.op, Results(operands)[1])
        /\ j.to = After(j, operands) /\ j.outcome = Fails(Misfit(j.node.op))

BodyRule(j, P) ==
    \E operands \in Seq(P), body \in P :
        LET vs == Results(operands) IN
        /\ Operated(j, operands) /\ Len(operands) = Operands(j.node.op)
        /\ j.node.op \in Binders /\ Fits(j.node.op, vs[1])
        /\ About(body, BodyEnv(j.node, j.env, vs), Body(j.node, vs), After(j, operands))
        /\ j.to = body.to /\ j.outcome = body.outcome

(***************************************************************************)
(* Derivations.                                                            *)
(***************************************************************************)
\* j follows from the judgements in P.
Follows(j, P, answers) ==
    \/ LiteralRule(j) \/ VarRule(j) \/ PollRule(j, answers) \/ LambdaRule(j)
    \/ OperandRule(j, P) \/ OperatorRule(j, P) \/ MisfitRule(j, P) \/ BodyRule(j, P)

\* Each judgement of the sequence follows from those before it.
Derivation(D, length, answers) ==
    /\ DOMAIN D = 1 .. length
    /\ \A m \in 1 .. length : Follows(D[m], {D[k] : k \in 1 .. m - 1}, answers)

Derivable(j, answers) ==
    \E D : \E length \in Nat :
        Derivation(D, length, answers) /\ \E m \in 1 .. length : D[m] = j

\* The call that autarky_execute makes for a contract.
Main(p) == CallOf(StartEnv, p, 0)

\* What an execution has ended in is what evaluate comes to for the contract, given the
\* answers that POLL got; an Ok has been committed with the volume of its value.
EndsAsDerived ==
    /\ out_buf.kind = "matched" =>
            /\ Derivable(Judgement(Main(program), Len(seen), Returns(out_buf.value)), seen)
            /\ ledger # << >> /\ ledger[Len(ledger)] = VolumeOf(out_buf.value)
    /\ out_buf.kind = "fault" =>
            Derivable(Judgement(Main(program), Len(seen), Fails(out_buf.error)), seen)
    /\ pc = "panic" => Derivable(Judgement(Main(program), Len(seen), Panics), seen)
=============================================================================
