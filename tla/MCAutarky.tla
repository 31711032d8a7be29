----------------------------- MODULE MCAutarky -----------------------------
(***************************************************************************)
(* Contracts, and what they mean.  The meaning is given by substitution:   *)
(* a name is replaced by its value in the text of the contract, so there   *)
(* are no environments, closures or tags that could go wrong.              *)
(***************************************************************************)
EXTENDS Autarky

Num(n)           == Node("int", n, << >>, << >>)
Float            == Node("float", 0, << >>, << >>)
Var(x)           == Node("var", 0, <<x>>, << >>)
Op(op, l, r)     == Node(op, 0, << >>, <<l, r>>)
Either(op, e)    == Node(op, 0, << >>, <<e>>)
Fun(x, e)        == Node("lambda", 0, <<x>>, <<e>>)
App(f, e)        == Node("app", 0, << >>, <<f, e>>)
Cases(e, x, l, y, r) == Node("match", 0, <<x, y>>, <<e, l, r>>)
LetIn(x, e, b)   == Node("let", 0, <<x>>, <<e, b>>)
RecIn(x, e, b)   == Node("letrec", 0, <<x>>, <<e, b>>)
UnpackIn(x, y, e, b) == Node("unpack", 0, <<x, y>>, <<e, b>>)

(***************************************************************************)
(* Substitution and evaluation.  Values are literals, pairs, injections    *)
(* and functions; "fix" is a function that also knows its own name.        *)
(***************************************************************************)
\* Which names the k-th subtree of a node sees as its own.
BoundIn(e, k) ==
    CASE e.op = "lambda" -> {e.names[1]}
      [] e.op = "fix" -> {e.names[1], e.names[2]}
      [] e.op = "match" -> IF k = 1 THEN {} ELSE {e.names[k - 1]}
      [] e.op \in {"let", "letrec"} -> IF k = 1 THEN {} ELSE {e.names[1]}
      [] e.op = "unpack" -> IF k = 1 THEN {} ELSE {e.names[1], e.names[2]}
      [] OTHER -> {}

RECURSIVE Subst(_, _, _)
Subst(e, x, v) ==
    IF e.op = "var" THEN IF e.names[1] = x THEN v ELSE e
    ELSE [e EXCEPT !.sub = [k \in DOMAIN e.sub |->
            IF x \in BoundIn(e, k) THEN e.sub[k] ELSE Subst(e.sub[k], x, v)]]

Result(v, rest)   == [kind |-> "matched", v |-> v, why |-> "", rest |-> rest]
Failure(why, rest) == [kind |-> "fault", v |-> Num(0), why |-> why, rest |-> rest]
Panic(rest)        == [kind |-> "panic", v |-> Num(0), why |-> "", rest |-> rest]

IsInt(v) == v.op = "int"

\* What two operands come to, once both are values.
Combine(e, a, b, rest) ==
    CASE e.op = "pair" -> Result(Op("pair", a, b), rest)
      [] e.op \in Relation /\ IsInt(a) /\ IsInt(b) ->
            Result(Either(IF \/ e.op = "eq" /\ a.n = b.n
                             \/ e.op \in {"gt", "ge"} /\ a.n > b.n
                             \/ e.op \in {"lt", "le"} /\ a.n < b.n
                             \/ e.op \in {"ge", "le"} /\ a.n = b.n
                          THEN "left" ELSE "right", Num(0)), rest)
      [] ~IsInt(a) \/ ~IsInt(b) -> Failure("not_int", rest)
      [] e.op = "div" /\ b.n = 0 -> Failure("div_by_zero", rest)
      [] e.op = "div" /\ a.n = -HALF /\ b.n = -1 -> Panic(rest)
      [] e.op = "div" /\ b.n # 0 ->
            \* the q with a = q * b + r where r is smaller than b and has the sign of a
            Result(Num(CHOOSE q \in -HALF .. HALF - 1 :
                        LET rem == a.n - q * b.n IN
                        /\ (rem = 0 \/ (rem > 0) = (a.n > 0))
                        /\ rem < (IF b.n > 0 THEN b.n ELSE -b.n)
                        /\ -rem < (IF b.n > 0 THEN b.n ELSE -b.n)), rest)
      [] OTHER ->
            LET x == IF e.op = "add" THEN a.n + b.n ELSE IF e.op = "sub" THEN a.n - b.n
                     ELSE a.n * b.n
            IN  Result(Num(CHOOSE y \in -HALF .. HALF - 1 : (x - y) % (2 * HALF) = 0), rest)

\* The meaning of a closed tree; polls is what POLL will return, in order.
RECURSIVE Meaning(_, _)
Meaning(e, polls) ==
    LET first == Meaning(e.sub[1], polls)
        Then(Cont(_, _)) == IF first.kind = "matched" THEN Cont(first.v, first.rest) ELSE first
        Second(a, rest) ==
            LET second == Meaning(e.sub[2], rest) IN
            IF second.kind = "matched" THEN Combine(e, a, second.v, second.rest) ELSE second
        Inject(a, rest) == Result(Either(e.op, a), rest)
        Call2(f, rest) ==
            LET arg == Meaning(e.sub[2], rest) IN
            CASE arg.kind # "matched" -> arg
              [] f.op = "lambda" ->
                    Meaning(Subst(f.sub[1], f.names[1], arg.v), arg.rest)
              [] f.op = "fix" ->
                    Meaning(Subst(Subst(f.sub[1], f.names[2], arg.v), f.names[1], f), arg.rest)
              [] OTHER -> Failure("not_a_closure", arg.rest)
        Choose(v, rest) ==
            IF v.op = "left" THEN Meaning(Subst(e.sub[2], e.names[1], v.sub[1]), rest)
            ELSE IF v.op = "right" THEN Meaning(Subst(e.sub[3], e.names[2], v.sub[1]), rest)
            ELSE Failure("not_either", rest)
        Body(v, rest) == Meaning(Subst(e.sub[2], e.names[1], v), rest)
        RecBody(v, rest) ==
            Body(IF v.op = "lambda" THEN Node("fix", 0, <<e.names[1], v.names[1]>>, v.sub)
                 ELSE v, rest)
        Open(v, rest) ==
            IF v.op = "pair"
            THEN Meaning(Subst(Subst(e.sub[2], e.names[2], v.sub[2]), e.names[1], v.sub[1]), rest)
            ELSE Failure("not_a_pair", rest)
    IN  CASE e.op \in {"int", "float", "lambda", "fix"} -> Result(e, polls)
          [] e.op = "var" ->
                IF e.names[1] # "POLL" THEN Failure("unbound", polls)
                ELSE Result(Num(Head(polls)), Tail(polls))
          [] e.op \in Arithmetic \cup Relation \cup {"pair"} -> Then(Second)
          [] e.op \in {"left", "right"} -> Then(Inject)
          [] e.op = "app" -> Then(Call2)
          [] e.op = "match" -> Then(Choose)
          [] e.op = "let" -> Then(Body)
          [] e.op = "letrec" -> Then(RecBody)
          [] e.op = "unpack" -> Then(Open)

\* A value of the machine, as the tree that stands for it; of a function, only that it
\* is one.
RECURSIVE Shown(_)
Shown(v) ==
    IF v.tag = "closure" THEN Node("function", 0, << >>, << >>)
    ELSE Node(v.tag, v.n, << >>, [k \in DOMAIN v.parts |-> Shown(v.parts[k])])

RECURSIVE ShownTree(_)
ShownTree(e) ==
    IF e.op \in {"lambda", "fix"} THEN Node("function", 0, << >>, << >>)
    ELSE Node(e.op, e.n, << >>, [k \in DOMAIN e.sub |-> ShownTree(e.sub[k])])

\* Every let rec names a function written out there, whose parameter has another name.
RECURSIVE Conventional(_)
Conventional(e) ==
    /\ e.op = "letrec" => e.sub[1].op = "lambda" /\ e.sub[1].names[1] # e.names[1]
    /\ \A k \in DOMAIN e.sub : Conventional(e.sub[k])

Credited(e) == Subst(Subst(e, "SYS_COMPUTE", Num(1000)), "SYS_CREDITS", Num(500))

Ended == pc = "panic" \/ (pc = "idle" /\ out_buf.kind # "none")

\* The environments, closures and tags of the evaluator give a contract the meaning of
\* its text: out_buf says what the contract is worth for the values POLL returned, and
\* the ledger has that volume.  This is for conventional contracts: a closure that is
\* bound by let rec under another name loses its own, and a parameter of the name that
\* let rec binds is hidden by it.
ResultIsMeaning ==
    (Ended /\ Conventional(program)) =>
        LET m == Meaning(Credited(program), seen) IN
        /\ m.kind = IF pc = "panic" THEN "panic" ELSE out_buf.kind
        /\ m.why = out_buf.error /\ m.rest = << >>
        /\ m.kind = "matched" =>
                /\ Shown(out_buf.value) = ShownTree(m.v)
                /\ ledger[Len(ledger)] = IF IsInt(m.v) THEN Trunc32(m.v.n) ELSE 0

(***************************************************************************)
(* The contracts of the runs.                                              *)
(***************************************************************************)
Poll == Var("POLL")
X == Var("x")
N == Var("n")
F == Var("f")

\* while POLL = 0 do nothing
Wait == RecIn("f", Fun("n", Cases(Op("eq", N, Num(0)), "u", App(F, Poll), "u", N)),
              App(F, Num(0)))
\* n + (n - 1) + ... + 1
Sum(n) == RecIn("f", Fun("n", Cases(Op("gt", N, Num(0)),
                    "u", Op("add", N, App(F, Op("sub", N, Num(1)))), "u", Num(0))),
                App(F, Num(n)))
\* Two recursive functions, one inside the other, with a parameter of the outer one.
Product(n, m) ==
    RecIn("f", Fun("n", Cases(Op("le", N, Num(0)), "u", Num(0), "u",
            LetIn("x", Num(m),
                RecIn("g", Fun("y", Cases(Op("lt", Var("y"), Num(1)), "u",
                                App(F, Op("sub", N, Num(1))),
                                "u", Op("add", Num(1), App(Var("g"), Op("sub", Var("y"), Num(1)))))),
                    App(Var("g"), X))))),
        App(F, Num(n)))

Polls == { Op("sub", Poll, Poll), Wait,
           UnpackIn("x", "y", Op("pair", Poll, Op("mul", Poll, Num(2))),
                    Op("sub", X, Op("sub", Var("y"), Poll))) }
Scopes ==
    { LetIn("x", Num(1), LetIn("f", Fun("y", Op("add", X, Var("y"))),
            LetIn("x", Num(10), Op("add", App(F, Num(5)), X)))),
      App(App(Fun("f", Fun("x", App(F, App(F, X)))), Fun("x", Op("mul", X, Num(3)))), Num(2)),
      Cases(Either("left", Num(4)), "x", LetIn("x", Op("add", X, Num(1)), X), "y", Var("y")),
      Op("add", LetIn("x", Num(1), X), LetIn("y", Num(2), Op("add", Var("y"), X))),
      RecIn("f", Fun("n", LetIn("f", Num(3), Op("add", F, N))), App(F, Num(1))),
      Fun("x", X), Either("right", Op("pair", Num(1), Float)), Sum(2), Product(1, 0) }
Overflow == Op("div", Op("sub", Num(-HALF), Num(0)), Num(-1))
Numbers ==
    { Op("mul", Var("SYS_COMPUTE"), Var("SYS_CREDITS")), Op("add", Var("SYS_COMPUTE"), Num(HALF - 1)),
      Overflow, Op("div", Num(-7), Num(2)),
      Op("div", Num(1), Op("sub", Poll, Poll)) }
Faults ==
    { Op("add", Fun("x", X), Poll), Op("ge", Num(1), Float), App(Num(1), Poll),
      Cases(Num(1), "x", X, "y", X), UnpackIn("x", "y", Num(1), X),
      Op("sub", Op("div", Num(1), Num(0)), Poll) }
Unconventional ==
    { RecIn("f", Fun("f", F), App(F, Num(1))),
      RecIn("f", Fun("n", Cases(Op("gt", N, Num(0)), "u", App(F, Num(0)), "u", N)),
            RecIn("g", F, App(Var("g"), Num(1)))) }

MCProgram == Polls \cup Scopes \cup Numbers \cup Faults \cup Unconventional

\* A contract that returns, with a result or a fault, as long as the heap lasts: whatever
\* it polls, its recursion is bounded by its text, and its arithmetic has a result.
Returning == MCProgram \ {Wait, Overflow}

\* autarky_execute returns from a contract that has an end, whatever the card does
\* meanwhile.  An overrun of the kernel stack and a panic, whose handler loops for ever,
\* are no returns: Wait, which calls itself for each poll, and Overflow come to these.
EvaluationEnds == (pc = "running" /\ program \in Returning) ~> pc = "idle"

RECURSIVE PartsOf(_)
PartsOf(e) == {e} \cup UNION {PartsOf(e.sub[k]) : k \in DOMAIN e.sub}

\* What the tool of the host sends has the volume in front of other fields; one packet
\* ends with it.
MCPacket == { <<TAG, 7, TEXT>>, <<TEXT, TAG, 4>>, <<TEXT>> }

\* let rec f = \n. f n in f 0
Spin == { RecIn("f", Fun("n", App(F, N)), App(F, Num(0))) }

MCName == {"POLL", "SYS_COMPUTE", "SYS_CREDITS", "f", "g", "n", "u", "x", "y"}

\* The contracts of both runs and their parts.
MCIrNode == UNION {PartsOf(e) : e \in MCProgram \cup Spin}
=============================================================================
