---------------------------- MODULE Expressions ----------------------------
(***************************************************************************)
(* internal/expression and internal/template: the expressions of a process *)
(* definition, their static types and their evaluation.  An expression is  *)
(* its syntax tree; parsing is left out.  Only TLC uses this module.       *)
(***************************************************************************)
EXTENDS Schemas

-----------------------------------------------------------------------------
(* Syntax trees.  The identifier null is the literal Null.  A shape is what  *)
(* a definition writes where it wants a value: a template or an object of    *)
(* shapes; a template that is more than one {{ }} is Mixed, its literal text *)
(* reduced to one character before the one expression.                       *)

Lit(v) == [e |-> "lit", v |-> v]
Id(name) == [e |-> "id", name |-> name]
Mem(base, prop) == [e |-> "mem", base |-> base, prop |-> prop]
Idx(base, i) == [e |-> "idx", base |-> base, i |-> i]
Bin(o, l, r) == [e |-> "bin", o |-> o, l |-> l, r |-> r]
Un(o, x) == [e |-> "un", o |-> o, x |-> x]
Cond(c, x, y) == [e |-> "cond", c |-> c, x |-> x, y |-> y]
Mixed(x) == [e |-> "mixed", x |-> x]
Shape(f) == [e |-> "shape", f |-> f]

(* nodePath: the expressions a condition can narrow. *)
RECURSIVE IsPath(_)
IsPath(e) == e.e = "id" \/ (e.e \in {"mem", "idx"} /\ IsPath(e.base))

(* RootRefs: which roots of the context an expression reads; outputs and     *)
(* self count per member, a bare outputs as all of them.                     *)
RECURSIVE RootRefs(_)
RootRefs(e) ==
  CASE e.e = "id" -> {<<e.name, "">>} \cap {<<r, "">> : r \in {"input", "error", "outputs"}}
    [] e.e = "mem" -> IF e.base = Id("outputs") THEN {<<"outputs", e.prop>>}
                      ELSE IF e = Mem(Id("self"), "previous") THEN {<<"self", "previous">>}
                      ELSE RootRefs(e.base)
    [] e.e = "idx" -> RootRefs(e.base)
    [] e.e = "bin" -> RootRefs(e.l) \cup RootRefs(e.r)
    [] e.e \in {"un", "mixed"} -> RootRefs(e.x)
    [] e.e = "cond" -> RootRefs(e.c) \cup RootRefs(e.x) \cup RootRefs(e.y)
    [] e.e = "shape" -> UNION {RootRefs(e.f[k]) : k \in DOMAIN e.f}
    [] OTHER -> {}

OutputRefs(e) == {r[2] : r \in {q \in RootRefs(e) : q[1] = "outputs" /\ q[2] # ""}}

-----------------------------------------------------------------------------
(* Types of operators. *)

concreteTypeOf(s) ==
  LET one(ts) == IF Cardinality(ts) <= 1 THEN ts
                 ELSE IF ts \subseteq {"integer", "number"} THEN {"number"} ELSE {}
      ofVariants(vs) == IF \E v \in vs : Len(v.type) # 1 \/ isNullType(v) THEN {}
                        ELSE one({v.type[1] : v \in vs})
  IN IF Len(s.type) = 1 THEN ToSet(s.type) ELSE ofVariants(ToSet(Variants(s)))

unwrapSingleVariant(s) ==
  IF Len(Variants(s)) = 1 /\ ~isNullType(Variants(s)[1]) THEN Variants(s)[1] ELSE s

isNumeric(ts) == ts # {} /\ ts \subseteq {"integer", "number"}

inferArith(lt, rt) ==
  IF ~isNumeric(lt) \/ ~isNumeric(rt) THEN {}
  ELSE {Type(IF lt \cup rt = {"integer"} THEN "integer" ELSE "number")}

inferNullCoalesce(left, right) ==
  LET union(nonNull, lt, rt) ==
        IF isNumeric(lt) /\ isNumeric(rt)
          THEN Type(IF lt = rt THEN CHOOSE t \in lt : TRUE ELSE "number")
          ELSE OneOf(<<nonNull, right>>)
      either(nonNull) ==
        IF left = nonNull \/ nonNull = right THEN nonNull
        ELSE union(nonNull, concreteTypeOf(nonNull), concreteTypeOf(right))
  IN IF isNullType(left) THEN right ELSE either(stripNull(left))

inferBinary(o, left, right) ==
  LET only(cond, t) == IF cond THEN {Type(t)} ELSE {}
      operator(lt, rt) ==
        CASE o \in {"<", ">", "<=", ">="} -> only(isNumeric(lt) /\ isNumeric(rt), "boolean")
          [] o \in {"&&", "||"} -> only(lt = {"boolean"} /\ rt = {"boolean"}, "boolean")
          [] o = "+" /\ lt = {"string"} /\ rt = {"string"} -> {Type("string")}
          [] o \in {"+", "-", "*"} /\ ~(o = "+" /\ lt = {"string"} /\ rt = {"string"}) ->
               inferArith(lt, rt)
          [] o = "/" -> only(isNumeric(lt) /\ isNumeric(rt), "number")
          [] o = "%" -> only(lt = {"integer"} /\ rt = {"integer"}, "integer")
  IN CASE o \in {"==", "!="} -> {Type("boolean")}
       [] o = "??" -> {inferNullCoalesce(left, right)}
       [] OTHER -> IF hasNullType(left) \/ hasNullType(right) THEN {}
                   ELSE operator(concreteTypeOf(left), concreteTypeOf(right))

(* A sign keeps the type of its operand, bounds included. *)
inferUnary(o, operand) ==
  LET operator(t) ==
        CASE o = "!" -> IF t = {"boolean"} THEN {Type("boolean")} ELSE {}
          [] o \in {"-", "+"} -> IF isNumeric(t) THEN {operand} ELSE {}
  IN IF hasNullType(operand) THEN {} ELSE operator(concreteTypeOf(operand))

tryNullable(self, other) ==
  IF ~isNullType(other) THEN {}
  ELSE IF hasNullType(self) THEN {self}
  ELSE IF DOMAIN self.props = {} /\ Len(self.type) = 1 THEN {withNull(self)} ELSE {}

inferBranches(t, f) ==
  LET or(n, m) == IF n # {} THEN n ELSE IF m # {} THEN m ELSE {OneOf(<<t, f>>)}
  IN IF t = f THEN {t} ELSE or(tryNullable(t, f), tryNullable(f, t))

-----------------------------------------------------------------------------
(* InferType: the type of an expression in a context.  guards holds what a   *)
(* condition tells of a path in the branch being typed.                      *)

NoGuards == NoFields
withGuard(g, path, s) ==
  [k \in DOMAIN g \cup {path} |-> IF k = path THEN s ELSE g[k]]

litType(v) ==
  Type(CASE v.t = "null" -> "null" [] v.t = "bool" -> "boolean" [] v.t = "str" -> "string"
         [] v.t = "num" -> IF v.go = "int" THEN "integer" ELSE "number")

RECURSIVE inferNode(_, _, _, _)

(* x == literal: in the one branch x has the literal's type, in the other it *)
(* loses null when the literal is null.                                      *)
narrowCondition(c, ctx, defs, g) ==
  LET comparison == c.e = "bin" /\ c.o \in {"==", "!="}
      subject    == IF c.r.e = "lit" THEN c.l ELSE c.r
      lit        == IF c.r.e = "lit" THEN c.r ELSE c.l
      same       == withGuard(g, subject, litType(lit.v))
      differs(typed) == IF lit.v = Null /\ typed # {}
                          THEN withGuard(g, subject, stripNull(CHOOSE s \in typed : TRUE))
                          ELSE g
      ordered(other) == IF c.o = "==" THEN <<same, other>> ELSE <<other, same>>
  IN IF comparison /\ lit.e = "lit" /\ IsPath(subject)
       THEN ordered(differs(inferNode(subject, ctx, defs, g)))
       ELSE <<g, g>>

inferMember(e, ctx, defs, g) ==
  UNION {IF isNullType(base) THEN {Type("null")}
         ELSE IF e.e = "mem" THEN lookupProperty(base, e.prop, defs)
                             ELSE inferIndex(base, defs)
           : base \in inferNode(e.base, ctx, defs, g)}

inferConditional(e, ctx, defs, g) ==
  LET branches(g2) == UNION {inferBranches(t, f) : t \in inferNode(e.x, ctx, defs, g2[1]),
                                                   f \in inferNode(e.y, ctx, defs, g2[2])}
  IN IF inferNode(e.c, ctx, defs, g) = {} THEN {}
     ELSE branches(narrowCondition(e.c, ctx, defs, g))

(* Mutant of inferShape: a text may take a null. *)
inferAnyText(e, ctx, defs) ==
  LET ofKey(k) == inferNode(e.f[k], ctx, defs, NoGuards)
  IN CASE e.e = "mixed" -> {Type("string") : s \in inferNode(e.x, ctx, defs, NoGuards)}
       [] e.e = "shape" -> IF \E k \in DOMAIN e.f : ofKey(k) = {} THEN {}
                           ELSE {[Object EXCEPT
                                    !.props = [k \in DOMAIN e.f |-> CHOOSE s \in ofKey(k) : TRUE],
                                    !.req = DOMAIN e.f]}

(* A mixed template is a string, and is refused where its expression may be  *)
(* null; an object shape requires every key it lists.                        *)
inferShape(e, ctx, defs) ==
  LET ofKey(k) == inferNode(e.f[k], ctx, defs, NoGuards)
  IN CASE e.e = "mixed" -> {Type("string") : t \in
                              {s \in inferNode(e.x, ctx, defs, NoGuards) : ~hasNullType(s)}}
       [] e.e = "shape" -> IF \E k \in DOMAIN e.f : ofKey(k) = {} THEN {}
                           ELSE {[Object EXCEPT
                                    !.props = [k \in DOMAIN e.f |-> CHOOSE s \in ofKey(k) : TRUE],
                                    !.req = DOMAIN e.f]}

inferNode(e, ctx, defs, g) ==
  CASE e.e = "lit" -> {litType(e.v)}
    [] e.e \in {"id", "mem", "idx"} ->
         IF e \in DOMAIN g THEN {g[e]}
         ELSE IF e.e = "id" THEN lookupProperty(ctx, e.name, defs)
                            ELSE inferMember(e, ctx, defs, g)
    [] e.e = "bin" ->
         UNION {inferBinary(e.o, unwrapSingleVariant(l), unwrapSingleVariant(r))
                  : l \in inferNode(e.l, ctx, defs, g), r \in inferNode(e.r, ctx, defs, g)}
    [] e.e = "un" -> UNION {inferUnary(e.o, unwrapSingleVariant(x))
                              : x \in inferNode(e.x, ctx, defs, g)}
    [] e.e = "cond" -> inferConditional(e, ctx, defs, g)
    [] e.e \in {"mixed", "shape"} -> inferShape(e, ctx, defs)

InferType(e, ctx, defs) == inferNode(e, ctx, defs, NoGuards)

-----------------------------------------------------------------------------
(* Evaluation.  A failure says why: an operand of the wrong type, a zero     *)
(* divisor, a remainder of a number that is not a Go int, two objects or     *)
(* arrays compared, which Go answers with a panic, or one put into a text.   *)

Ok(v) == [ok |-> TRUE, v |-> v]
Fail(why) == [ok |-> FALSE, why |-> why]

(* A quotient in halves; what is no multiple of a half stays no integer. *)
Halves(a, b) ==
  LET n == IF b > 0 THEN a ELSE 0 - a
      d == IF b > 0 THEN b ELSE 0 - b
  IN IF n % d = 0 THEN n \div d ELSE 2 * (n \div (2 * d)) + 1

Number(h, l, r) ==
  [Float(h) EXCEPT !.go = IF l.go = "int" /\ r.go = "int" /\ h % 2 = 0 THEN "int" ELSE "float"]

(* math.Mod takes the sign of the dividend. *)
Remainder(a, b) ==
  LET d == IF b > 0 THEN b ELSE 0 - b
  IN IF a >= 0 THEN a % d ELSE 0 - ((0 - a) % d)


equalValues(l, r) ==
  IF l.t # r.t THEN Ok(Bool(FALSE))
  ELSE CASE l.t = "num" -> Ok(Bool(l.n = r.n))
         [] l.t \in {"obj", "arr"} -> Fail("uncomparable")
         [] OTHER -> Ok(Bool(l = r))

evalArith(o, l, r) ==
  CASE o = "+" /\ l.t = "str" /\ r.t = "str" -> Ok(Str(l.s \o r.s))
    [] o = "%" /\ ~(l.t = "num" /\ r.t = "num") -> Fail("type")
    [] o = "%" /\ l.t = "num" /\ r.t = "num" /\ ~(l.go = "int" /\ r.go = "int") -> Fail("mod")
    [] ~(o = "+" /\ l.t = "str" /\ r.t = "str") /\ ~(l.t = "num" /\ r.t = "num") -> Fail("type")
    [] o \in {"/", "%"} /\ r.n = 0 -> Fail("zero")
    [] OTHER ->
         CASE o = "+" -> Ok(Number(l.n + r.n, l, r))
           [] o = "-" -> Ok(Number(l.n - r.n, l, r))
           [] o = "*" -> Ok(Number(Halves(l.n * r.n, 2), l, r))
           [] o = "/" -> Ok(Float(Halves(2 * l.n, r.n)))
           [] o = "%" -> Ok(IntOf(Remainder(l.n, r.n) \div 2))
           [] o = "<" -> Ok(Bool(l.n < r.n))
           [] o = ">" -> Ok(Bool(l.n > r.n))
           [] o = "<=" -> Ok(Bool(l.n <= r.n))
           [] o = ">=" -> Ok(Bool(l.n >= r.n))

evalUnary(o, x) ==
  CASE o = "!" -> IF x.t = "bool" THEN Ok(Bool(~x.b)) ELSE Fail("type")
    [] o = "-" -> IF x.t = "num" THEN Ok([x EXCEPT !.n = 0 - x.n]) ELSE Fail("type")
    [] o = "+" -> IF x.t = "num" THEN Ok(x) ELSE Fail("type")

(* Digits and words are one character: no property looks at their text. *)
stringify(v) ==
  CASE v.t = "str" -> Ok(v)
    [] v.t \in {"num", "bool"} -> Ok(Str(<<"#">>))
    [] v.t \in {"obj", "arr"} -> Fail("text")
    [] OTHER -> Fail("type")

(* A missing field, an index out of range and a member of a value that has   *)
(* no members are null.                                                      *)
evalMember(e, base) ==
  IF e.e = "mem"
    THEN IF base.t = "obj" /\ e.prop \in DOMAIN base.f THEN base.f[e.prop] ELSE Null
    ELSE IF base.t = "arr" /\ e.i + 1 \in DOMAIN base.e THEN base.e[e.i + 1] ELSE Null

RECURSIVE evalNode(_, _)

evalBinary(e, env) ==
  LET l == evalNode(e.l, env)
      r == evalNode(e.r, env)
      bool(x) == IF x.ok /\ x.v.t # "bool" THEN Fail("type") ELSE x
  IN IF ~l.ok THEN l
     ELSE CASE e.o = "??" -> IF l.v # Null THEN l ELSE r
            [] e.o = "&&" -> IF l.v.t = "bool" THEN IF l.v.b THEN bool(r) ELSE l ELSE Fail("type")
            [] e.o = "||" -> IF l.v.t = "bool" THEN IF l.v.b THEN l ELSE bool(r) ELSE Fail("type")
            [] OTHER ->
                 IF ~r.ok THEN r
                 ELSE CASE e.o = "==" -> equalValues(l.v, r.v)
                        [] e.o = "!=" -> LET q == equalValues(l.v, r.v)
                                         IN IF q.ok THEN Ok(Bool(~q.v.b)) ELSE q
                        [] OTHER -> evalArith(e.o, l.v, r.v)

evalShape(e, env) ==
  LET of(k) == evalNode(e.f[k], env)
      bad   == {k \in DOMAIN e.f : ~of(k).ok}
  IN IF bad = {} THEN Ok(Obj([k \in DOMAIN e.f |-> of(k).v]))
     ELSE of(CHOOSE k \in bad : TRUE)

evalMixed(e, env) ==
  LET x == evalNode(e.x, env)
      s == stringify(x.v)
  IN IF ~x.ok THEN x ELSE IF ~s.ok THEN s ELSE Ok(Str(<<"~">> \o s.v.s))

evalNode(e, env) ==
  CASE e.e = "lit" -> Ok(e.v)
    [] e.e = "id" -> IF e.name \in DOMAIN env THEN Ok(env[e.name]) ELSE Fail("type")
    [] e.e \in {"mem", "idx"} -> LET b == evalNode(e.base, env)
                                 IN IF b.ok THEN Ok(evalMember(e, b.v)) ELSE b
    [] e.e = "bin" -> evalBinary(e, env)
    [] e.e = "un" -> LET x == evalNode(e.x, env) IN IF x.ok THEN evalUnary(e.o, x.v) ELSE x
    [] e.e = "cond" -> LET c == evalNode(e.c, env)
                       IN IF ~c.ok THEN c
                          ELSE IF c.v = Bool(TRUE) THEN evalNode(e.x, env) ELSE evalNode(e.y, env)
    [] e.e = "mixed" -> evalMixed(e, env)
    [] e.e = "shape" -> evalShape(e, env)
=============================================================================
