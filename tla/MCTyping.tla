------------------------------ MODULE MCTyping ------------------------------
(***************************************************************************)
(* Families of definitions for Typing, each about one thing: what one task *)
(* computes from the input and from its own last output, what it computes  *)
(* from a call's result, what two tasks compute from each other's outputs, *)
(* and what is handed to a child process.                                  *)
(***************************************************************************)
EXTENDS Typing

int == Type("integer")
num == Type("number")
str == Type("string")
list(t) == [Type("array") EXCEPT !.items = {t}]
rec(f, req) == [Object EXCEPT !.props = f, !.req = req]
tree == rec([n |-> int, next |-> withNull(Ref("tree"))], {"n"})
Tree == [tree |-> tree]

p == Str(<<"p">>)
q == Str(<<"q", "q">>)
Leaf(n) == Obj([n |-> Float(n)])

InputTypes ==
  { rec([x |-> int, y |-> num], {"x"}),
    rec([x |-> [int EXCEPT !.min = {0}], y |-> [str EXCEPT !.enum = {p}]], {"x", "y"}),
    rec([x |-> OneOf(<<rec([k |-> int], {"k"}), str>>),
         y |-> [num EXCEPT !.default = {Float(1)}]], {"x"}),
    rec([x |-> [list(int) EXCEPT !.maxItems = {1}], y |-> Type("boolean")], {"x"}),
    rec([x |-> OneOf(<<withNull(int), str>>), y |-> int], {"x"}) }

(* What may come in as the member x of a document. *)
Parts ==
  { Null, Bool(TRUE), Float(0), Float(3), Float(4), Float(-2), p, q, Arr(<<>>), Arr(<<Float(4)>>),
    Arr(<<p>>), Leaf(2), Obj([k |-> Float(4), m |-> Null]),
    Obj([n |-> Float(2), next |-> Leaf(6)]), Obj([n |-> Float(2), next |-> Leaf(1)]) }

Docs == {Obj([x |-> v]) : v \in Parts} \cup {Obj([x |-> v, y |-> v]) : v \in Parts} \cup
        { Obj([x |-> Float(0), y |-> p, z |-> Null]), Obj([x |-> Arr(<<>>), y |-> Bool(TRUE)]), p, Null }

in(f) == Mem(Id("input"), f)
of(root, f) == Mem(Mem(Id("self"), root), f)
out(t, f) == Mem(Mem(Id("outputs"), t), f)
Key(e) == Shape([n |-> e])
one == Lit(IntOf(1))

Atoms == {in("x"), in("y"), Mem(in("x"), "k"), Idx(in("x"), 0), of("previous", "n"),
          Lit(Null), one, Lit(Float(1)), Lit(p), Lit(Bool(TRUE))}
Ops == {"==", "!=", "<", ">=", "+", "-", "*", "/", "%", "??", "&&", "||"}
Binary == {Bin(o, l, r) : o \in Ops, l \in Atoms, r \in Atoms}
Unary == {Un(o, x) : o \in {"!", "-", "+"}, x \in Atoms} \cup {Mixed(x) : x \in Atoms}

(* A path that is compared, with null or with a constant, and then used. *)
Narrowed ==
  {Cond(Bin(o, x, lit), u, v) :
     o \in {"==", "!="}, x \in {in("x"), in("y"), of("previous", "n")}, lit \in {Lit(Null), one},
     u \in {in("y"), Lit(Null), one}, v \in {in("y"), one}}
  \cup {Cond(Bin(o, x, Lit(Null)), Bin("+", x, one), one) :
          o \in {"==", "!="}, x \in {in("x"), in("y"), of("previous", "n")}}
  \cup {Cond(Bin(o, x, Lit(Null)), one, Bin("+", x, one)) :
          o \in {"==", "!="}, x \in {in("x"), in("y"), of("previous", "n")}}

Growing == {Id("input"), Mem(Id("self"), "previous"), Bin("??", Mem(Id("self"), "previous"), one),
            Bin("??", Bin("+", of("previous", "n"), one), one),
            Bin("+", Bin("??", of("previous", "n"), one), in("y")),
            Bin("+", Bin("??", of("previous", "n"), one), Lit(Float(1)))}

Plain == [input |-> rec([x |-> int], {"x"}), defs |-> NoFields, out |-> [a |-> {}, b |-> {}],
          result |-> [a |-> {}, b |-> {}], open |-> {}, case |-> Lit(Bool(TRUE)), arg |-> {}, child |-> {},
          childDefs |-> NoFields]

Looping ==
  {[Plain EXCEPT !.input = i, !.out["a"] = {Key(e)}] :
     i \in InputTypes, e \in Atoms \cup Binary \cup Unary \cup Narrowed \cup Growing}

(* b calls a service and counts; the switch looks at what it just put out. *)
ResultTypes == {rec([x |-> int], {}), rec([x |-> withNull(num)], {"x"}), rec([x |-> str], {"x"})}
Counts ==
  {Bin("+", Bin("??", of("result", "x"), one), Bin("??", of("previous", "n"), one)),
   Bin("??", of("previous", "n"), of("result", "x")), of("result", "x"),
   Mem(Id("self"), "result"), Cond(Bin("==", of("previous", "n"), Lit(Null)), one, of("previous", "n"))}
Cases == {Bin("==", of("previous", "n"), Lit(Null)), Bin("!=", of("output", "n"), of("previous", "n")),
          Bin(">", of("output", "n"), one), of("output", "n"), Un("!", Bin("==", of("result", "x"), one)),
          Bin("==", of("result", "x"), one), Bin("==", of("output", "n"), one)}
Calling ==
  {[Plain EXCEPT !.result["b"] = {r}, !.out["b"] = {Key(e)}, !.case = c] :
     r \in ResultTypes, e \in Counts, c \in Cases}

(* a or b calls a service whose response no schema checks. *)
Response == Mem(Id("self"), "result")
Unchecked ==
  {[Plain EXCEPT !.open = {t}, !.out[t] = {e}, !.case = Lit(back)] :
     t \in {"a", "b"}, back \in {Bool(TRUE), Bool(FALSE)},
     e \in {Response, Key(Response), Key(Bin("??", Response, one)), Key(Mixed(Response)),
            Key(Bin("==", Response, Lit(p)))}}
  \cup {[Plain EXCEPT !.open = {"b"}, !.out["b"] = o, !.case = c] :
          o \in {{}, {Response}}, c \in {Bin("!=", Response, Lit(Null)), Response,
                                        Bin("==", Mem(Id("self"), "output"), Lit(p))}}

(* a and b read each other's output, or one reads the other's. *)
Reading(t) == {out(t, "n"), Bin("??", out(t, "n"), one), Bin("+", Bin("??", out(t, "n"), in("x")), one),
               Bin("+", out(t, "n"), one), Bin("??", out(t, "n"), Lit(p)), Mixed(Bin("??", out(t, "n"), one)),
               Mem(Id("outputs"), t)}
Mutual ==
  {[Plain EXCEPT !.out["a"] = {Key(e)}, !.out["b"] = {Key(f)}, !.result["a"] = {Object}] :
     e \in Reading("b") \cup {in("x")}, f \in Reading("a") \cup {in("x")}}

(* c hands a part of the input to a child. *)
Fitting ==
  {int, num, withNull(int), [int EXCEPT !.min = {2}], [num EXCEPT !.min = {0}, !.max = {6}],
   str, [str EXCEPT !.maxLen = {1}], [str EXCEPT !.enum = {p}], list(int), list(num), Type("array"),
   [list(int) EXCEPT !.minItems = {1}], [list(num) EXCEPT !.maxItems = {0}], OneOf(<<int, num>>),
   Ref("tree"), rec([n |-> num], {"n"}), rec([n |-> int, next |-> num], {"n"}), rec([k |-> int], {"k"}),
   Object, OneOf(<<str, rec([n |-> int], {"n"})>>), AnyOf(<<int, num, Type("null")>>),
   AnyOf(<<str, list(num)>>), EmptyNode}
Spawning ==
  {[Plain EXCEPT !.input = rec([x |-> s], {"x"}), !.defs = Tree, !.case = Lit(Bool(FALSE)),
                 !.arg = {a}, !.child = {rec([x |-> t], {"x"})}, !.childDefs = Tree] :
     s \in Fitting, t \in Fitting, a \in {Id("input"), Shape([x |-> in("x")])}}
  \cup {[Plain EXCEPT !.input = i, !.out["a"] = {Key(in("x"))}, !.case = Lit(Bool(FALSE)), !.arg = {a},
                      !.child = {c}] :
          i \in InputTypes, c \in InputTypes \cup {Object, rec([n |-> int], {}), rec([n |-> int], {"n"})},
          a \in {Id("input"), Mem(Id("outputs"), "a"), Key(out("a", "n")), Key(in("y")),
                 Key(Bin("??", in("y"), one)), Key(Bin("/", one, in("x")))}}
  \cup {[Plain EXCEPT !.case = Lit(Bool(FALSE)), !.child = c] : c \in {{}, {Object}, {rec([x |-> int], {"x"})}}}

(* A task puts out self as a whole, its last output inside, or looks at it. *)
Whole ==
  {[Plain EXCEPT !.result["b"] = {r}, !.out["b"] = {e}, !.case = c] :
     r \in ResultTypes, e \in {Id("self"), Key(Id("self")), Bin("??", Id("self"), Lit(Null))},
     c \in {Lit(Bool(TRUE)), Bin("==", Mem(Id("self"), "previous"), Lit(Null)),
            Bin("!=", Id("self"), Lit(Null))}}

Defs == UNION {Looping, Calling, Unchecked, Mutual, Whole, Spawning}
=============================================================================
