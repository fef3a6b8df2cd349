------------------------------ MODULE Schemas ------------------------------
(***************************************************************************)
(* internal/schema: the subset of JSON Schema genroc types its data with.  *)
(* A schema is a node, a record with one field per keyword; an absent      *)
(* keyword is an empty sequence, set or function, so {} is EmptyNode.      *)
(* An operation that can fail returns a set: {x} for the result x, {} for  *)
(* the error.  Only TLC uses this module: its operators are recursive.     *)
(*                                                                         *)
(* Left out: the secret keyword and what follows it, allOf (never accepted *)
(* from a document), and the flattening of nested $defs: a document here   *)
(* is already normalized, with its definitions in one table.  required is  *)
(* a set and enum too, and an empty properties is the same as none.        *)
(***************************************************************************)
EXTENDS Integers, Sequences, FiniteSets, SequencesExt

-----------------------------------------------------------------------------
(* Values, as encoding/json decodes them.  Numbers are counted in halves,   *)
(* so that some are no integers; go is the Go kind that carries the number: *)
(* a decoded document holds float64 only, an expression can make an int.    *)

Null == [t |-> "null"]
Bool(b) == [t |-> "bool", b |-> b]
Float(h) == [t |-> "num", n |-> h, go |-> "float"]
IntOf(i) == [t |-> "num", n |-> 2 * i, go |-> "int"]
Str(s) == [t |-> "str", s |-> s]
Obj(f) == [t |-> "obj", f |-> f]
Arr(e) == [t |-> "arr", e |-> e]

(* What is read back after a value was written as JSON.  The marker of an    *)
(* object that got inside a value is written as the object's hash and size.  *)
RECURSIVE cloneJSON(_)
cloneJSON(v) ==
  CASE v.t = "num" -> [v EXCEPT !.go = "float"]
    [] v.t = "obj" -> Obj([k \in DOMAIN v.f |-> cloneJSON(v.f[k])])
    [] v.t = "arr" -> Arr([i \in DOMAIN v.e |-> cloneJSON(v.e[i])])
    [] v.t = "ref" -> Obj([ref |-> Str(<<"#">>), size |-> Float(2)])
    [] OTHER -> v

-----------------------------------------------------------------------------
(* Nodes. *)

(* A function of no names: an object without fields, a table without entries. *)
NoFields == [k \in {} |-> 0]

EmptyNode ==
       [type |-> <<>>, props |-> NoFields, req |-> {}, items |-> {},
        oneOf |-> <<>>, anyOf |-> <<>>, enum |-> {}, ref |-> "",
        min |-> {}, max |-> {}, minLen |-> {}, maxLen |-> {},
        minItems |-> {}, maxItems |-> {}, default |-> {}]

Type(t) == [EmptyNode EXCEPT !.type = <<t>>]
Ref(name) == [EmptyNode EXCEPT !.ref = name]
OneOf(vs) == [EmptyNode EXCEPT !.oneOf = vs]
AnyOf(vs) == [EmptyNode EXCEPT !.anyOf = vs]
Object == Type("object")

WithProperty(s, name, sub, required) ==
  [s EXCEPT !.props = [k \in DOMAIN s.props \cup {name} |->
                         IF k = name THEN sub ELSE s.props[k]],
            !.req = IF required THEN @ \cup {name} ELSE @]

Variants(s) == IF s.anyOf # <<>> THEN s.anyOf ELSE s.oneOf

(* The default is an annotation: it constrains nothing. *)
isEmptyNode(s) == [s EXCEPT !.default = {}] = EmptyNode

isNullType(s) == s.type = <<"null">>
hasNullType(s) ==
  \/ "null" \in ToSet(s.type)
  \/ \E v \in ToSet(s.oneOf) \cup ToSet(s.anyOf) : isNullType(v)

withNull(s) ==
  IF isEmptyNode(s) \/ hasNullType(s) THEN s
  ELSE IF s.type # <<>> /\ DOMAIN s.props = {}
         THEN [s EXCEPT !.type = Append(@, "null")]
         ELSE OneOf(<<s, Type("null")>>)

NotNull(vs) == SelectSeq(vs, LAMBDA v : ~isNullType(v))

stripNull(s) ==
  LET without(kw) == LET vs == NotNull(s[kw])
                     IN IF Len(vs) = 1 /\ Len(s[kw]) # 1 THEN vs[1]
                                                         ELSE [s EXCEPT ![kw] = vs]
  IN CASE s.type # <<>> ->
            [s EXCEPT !.type = SelectSeq(@, LAMBDA t : t # "null")]
       [] s.type = <<>> /\ s.oneOf # <<>> -> without("oneOf")
       [] s.type = <<>> /\ s.oneOf = <<>> /\ s.anyOf # <<>> -> without("anyOf")
       [] OTHER -> s

deref(s, defs) ==
  IF s.ref = "" THEN {s}
  ELSE IF s.ref \in DOMAIN defs THEN {defs[s.ref]} ELSE {}

(* checkDoc: what a document must satisfy to be registered. *)
Ordered(lo, hi) == \A a \in lo, b \in hi : a <= b

RECURSIVE checkDoc(_, _)
checkDoc(nd, defs) ==
  /\ deref(nd, defs) # {}
  /\ Ordered(nd.min, nd.max)
  /\ Ordered(nd.minLen, nd.maxLen)
  /\ Ordered(nd.minItems, nd.maxItems)
  /\ \A k \in DOMAIN nd.props : checkDoc(nd.props[k], defs)
  /\ \A v \in nd.items \cup ToSet(nd.oneOf) \cup ToSet(nd.anyOf) : checkDoc(v, defs)

-----------------------------------------------------------------------------
(* Validation: conform checks a value and returns its normalized copy.      *)

valueHasType(v, t) ==
  CASE t = "null" -> v.t = "null"
    [] t = "boolean" -> v.t = "bool"
    [] t = "string" -> v.t = "str"
    [] t = "object" -> v.t = "obj"
    [] t = "array" -> v.t = "arr"
    [] t = "number" -> v.t = "num"
    [] t = "integer" -> v.t = "num" /\ v.n % 2 = 0
    [] OTHER -> FALSE

checkType(nd, v) == nd.type = <<>> \/ \E t \in ToSet(nd.type) : valueHasType(v, t)

checkScalar(nd, v) ==
  /\ v.t = "num" => Ordered(nd.min, {v.n}) /\ Ordered({v.n}, nd.max)
  /\ v.t = "str" => Ordered(nd.minLen, {Len(v.s)}) /\ Ordered({Len(v.s)}, nd.maxLen)

enumContains(enum, v) == \E e \in enum : cloneJSON(e) = cloneJSON(v)

isObjectSchema(nd) ==
  "object" \in ToSet(nd.type) \/ DOMAIN nd.props # {} \/ nd.req # {}

propDefault(p, defs) ==
  IF p.default # {} \/ p.ref = "" THEN p.default
  ELSE UNION {d.default : d \in deref(p, defs)}

RECURSIVE conform(_, _, _)

(* Undeclared properties are dropped, absent ones take their default, a     *)
(* required one that is absent is an error.                                 *)
conformObject(nd, defs, f) ==
  LET names   == DOMAIN nd.props
      present == names \cap DOMAIN f
      norm    == [k \in present |-> conform(nd.props[k], defs, f[k])]
      filled  == {k \in names \ present : propDefault(nd.props[k], defs) # {}}
      value(k) == IF k \in present
                    THEN CHOOSE v \in norm[k] : TRUE
                    ELSE CHOOSE v \in {cloneJSON(d) : d \in propDefault(nd.props[k], defs)} :
                           TRUE
  IN IF (nd.req \cap names) \subseteq present /\ \A k \in present : norm[k] # {}
       THEN {Obj([k \in present \cup filled |-> value(k)])}
       ELSE {}

conformArray(nd, defs, e) ==
  LET norm == [i \in DOMAIN e |->
                 IF nd.items = {} THEN {e[i]}
                 ELSE UNION {conform(it, defs, e[i]) : it \in nd.items}]
  IN IF /\ Ordered(nd.minItems, {Len(e)}) /\ Ordered({Len(e)}, nd.maxItems)
        /\ \A i \in DOMAIN e : norm[i] # {}
       THEN {Arr([i \in DOMAIN e |-> CHOOSE v \in norm[i] : TRUE])}
       ELSE {}

(* anyOf: the first branch that accepts; oneOf: the only one. *)
conformUnion(vs, defs, v, exactlyOne) ==
  LET res  == [i \in DOMAIN vs |-> conform(vs[i], defs, v)]
      hits == {i \in DOMAIN vs : res[i] # {}}
  IN IF hits = {} \/ (exactlyOne /\ Cardinality(hits) > 1) THEN {}
     ELSE res[CHOOSE i \in hits : \A j \in hits : i <= j]

conformNode(nd, defs, v) ==
  CASE isEmptyNode(nd) -> {v}
    [] nd.anyOf # <<>> -> conformUnion(nd.anyOf, defs, v, FALSE)
    [] nd.anyOf = <<>> /\ nd.oneOf # <<>> -> conformUnion(nd.oneOf, defs, v, TRUE)
    [] OTHER ->
         IF ~checkType(nd, v) \/ (nd.enum # {} /\ ~enumContains(nd.enum, v)) THEN {}
         ELSE IF v.t = "obj" /\ isObjectSchema(nd) THEN conformObject(nd, defs, v.f)
         ELSE IF v.t = "arr" /\ (nd.items # {} \/ "array" \in ToSet(nd.type))
                THEN conformArray(nd, defs, v.e)
         ELSE IF checkScalar(nd, v) THEN {v} ELSE {}

conform(nd, defs, v) == UNION {conformNode(r, defs, v) : r \in deref(nd, defs)}

-----------------------------------------------------------------------------
(* isSubset: the static check that one schema's values fit another.  A pair  *)
(* of references met again while it is being checked is taken to fit.        *)

(* Mutant of typeAllowed: numbers fit integers. *)
numericAllowed(t, types) ==
  t \in ToSet(types) \/ (t \in {"integer", "number"} /\ ToSet(types) \cap {"integer", "number"} # {})

typeAllowed(t, types) ==
  t \in ToSet(types) \/ (t = "integer" /\ "number" \in ToSet(types))

derefSubset(s, defs) == IF s.ref \in DOMAIN defs THEN defs[s.ref] ELSE s

Tighter(subLo, superLo, subHi, superHi) ==
  /\ \A m \in superLo : subLo # {} /\ Ordered({m}, subLo)
  /\ \A m \in superHi : subHi # {} /\ Ordered(subHi, {m})

checkNumericBounds(sub, super) == Tighter(sub.min, super.min, sub.max, super.max)
checkStringLength(sub, super) ==
  Tighter(sub.minLen, super.minLen, sub.maxLen, super.maxLen)

checkEnum(sub, super) ==
  super.enum = {} \/
    (sub.enum # {} /\ \A e \in sub.enum : enumContains(super.enum, e))

RECURSIVE check(_, _, _, _, _)

checkObject(sub, super, subDefs, superDefs, visiting) ==
  /\ super.req \subseteq sub.req
  /\ \A k \in DOMAIN super.props \cap DOMAIN sub.props :
       check(sub.props[k], super.props[k], subDefs, superDefs, visiting)

checkArray(sub, super, subDefs, superDefs, visiting) ==
  \A it \in super.items :
    sub.items # {} /\ \A st \in sub.items : check(st, it, subDefs, superDefs, visiting)

check(sub0, super0, subDefs, superDefs, visited) ==
  LET key      == <<sub0.ref, super0.ref>>
      visiting == IF key = <<"", "">> THEN visited ELSE visited \cup {key}
      sub      == derefSubset(sub0, subDefs)
      super    == derefSubset(super0, superDefs)
  IN IF key \in visited \/ isEmptyNode(super) THEN TRUE
     ELSE IF isEmptyNode(sub) THEN FALSE
     ELSE IF Variants(sub) # <<>>
            THEN \A v \in ToSet(Variants(sub)) :
                   check(v, super, subDefs, superDefs, visiting)
     ELSE IF Variants(super) # <<>>
            THEN \E v \in ToSet(Variants(super)) :
                   check(sub, v, subDefs, superDefs, visiting)
     ELSE /\ super.type # <<>> =>
               sub.type # <<>> /\ \A t \in ToSet(sub.type) : typeAllowed(t, super.type)
          /\ checkObject(sub, super, subDefs, superDefs, visiting)
          /\ checkArray(sub, super, subDefs, superDefs, visiting)
          /\ checkNumericBounds(sub, super)
          /\ checkStringLength(sub, super)
          /\ checkEnum(sub, super)

isSubset(sub, subDefs, super, superDefs) == check(sub, super, subDefs, superDefs, {})

-----------------------------------------------------------------------------
(* Navigation: the type of a property or of an element of a typed value.    *)

RECURSIVE lookupProperty(_, _, _)

(* The distinct types that the variants of a union give, joined by the same *)
(* keyword, nullable when a variant is null or does not have the member.    *)
OverVariants(results, join, nullable) ==
  LET one == IF Cardinality(ToSet(results)) = 1 THEN results[1] ELSE join
  IN IF nullable THEN withNull(one) ELSE one

lookupProperty(s, name, defs) ==
  LET ofUnion(r) ==
        LET vs      == NotNull(Variants(r))
            found   == [i \in DOMAIN vs |-> lookupProperty(vs[i], name, defs)]
            results == FlattenSeq([i \in DOMAIN vs |-> SetToSeq(found[i])])
            miss    == \E i \in DOMAIN vs : found[i] = {}
        IN IF results = <<>> THEN IF miss THEN {} ELSE {Type("null")}
           ELSE {OverVariants(results,
                              IF r.anyOf # <<>> THEN AnyOf(results) ELSE OneOf(results),
                              miss \/ vs # Variants(r))}
      ofNode(r) ==
        IF name \notin DOMAIN r.props THEN {}
        ELSE {IF name \in r.req THEN p ELSE withNull(p) : p \in deref(r.props[name], defs)}
  IN UNION {IF Variants(r) # <<>> THEN ofUnion(r) ELSE ofNode(r) : r \in deref(s, defs)}

RECURSIVE inferIndex(_, _)
inferIndex(s, defs) ==
  LET ofUnion(r) ==
        LET vs      == NotNull(Variants(r))
            found   == [i \in DOMAIN vs |-> inferIndex(vs[i], defs)]
            results == FlattenSeq([i \in DOMAIN vs |-> SetToSeq(found[i])])
        IN IF results = <<>> THEN {Type("null")}
           ELSE {OverVariants(results, AnyOf(results),
                              vs # Variants(r) \/ \E i \in DOMAIN vs : found[i] = {})}
      ofNode(r) ==
        IF "array" \notin ToSet(r.type) THEN {}
        ELSE IF r.items = {} THEN {EmptyNode} ELSE {withNull(it) : it \in r.items}
  IN UNION {LET r == stripNull(d)
            IN IF Variants(r) # <<>> THEN ofUnion(r) ELSE ofNode(r) : d \in deref(s, defs)}

(* IsType: every type the schema allows is t. *)
RECURSIVE IsType(_, _)
IsType(s, t) ==
  IF s.type # <<>> THEN ToSet(s.type) = {t}
  ELSE Variants(s) # <<>> /\ \A v \in ToSet(Variants(s)) : IsType(v, t)

-----------------------------------------------------------------------------
(* Canonical form, equality and join.                                       *)

TypeOrder == <<"array", "boolean", "integer", "null", "number", "object", "string">>
sortDedup(types) == SelectSeq(TypeOrder, LAMBDA t : t \in ToSet(types))

pureComposition(s, kw) ==
  /\ s.type = <<>> /\ DOMAIN s.props = {} /\ s.items = {} /\ s.req = {}
  /\ s.enum = {} /\ s.ref = "" /\ s[kw] # <<>>
  /\ \A other \in {"oneOf", "anyOf"} \ {kw} : s[other] = <<>>

isSimpleType(s) ==
  /\ s.type # <<>> /\ DOMAIN s.props = {} /\ s.items = {} /\ s.req = {}
  /\ s.enum = {} /\ s.ref = "" /\ s.oneOf = <<>> /\ s.anyOf = <<>>

collapseUnion(n, vs) ==
  IF Len(vs) = 1 THEN vs[1]
  ELSE IF \A v \in ToSet(vs) : isSimpleType(v)
         THEN [EmptyNode EXCEPT !.type = sortDedup(FlattenSeq([i \in DOMAIN vs |-> vs[i].type]))]
         ELSE n

collapse(n) ==
  IF pureComposition(n, "oneOf") THEN collapseUnion(n, n.oneOf)
  ELSE IF pureComposition(n, "anyOf") THEN collapseUnion(n, n.anyOf) ELSE n

RECURSIVE canonicalize(_)

(* The variants in their canonical form, nested unions of the same kind      *)
(* flattened, each once, in an order that depends on the set only.           *)
canonVariants(vs, kw) ==
  FoldSet(LAMBDA v, rest : <<v>> \o rest, <<>>,
          UNION {LET c == canonicalize(v)
                 IN IF pureComposition(c, kw) THEN ToSet(c[kw]) ELSE {c} : v \in ToSet(vs)})

canonicalize(s) ==
  collapse([s EXCEPT !.props = [k \in DOMAIN s.props |-> canonicalize(s.props[k])],
                     !.items = {canonicalize(it) : it \in @},
                     !.type  = sortDedup(@),
                     !.oneOf = canonVariants(@, "oneOf"),
                     !.anyOf = canonVariants(@, "anyOf")])

nodesEqual(a, b) == canonicalize(a) = canonicalize(b)

RECURSIVE nodeSize(_)
nodeSize(s) ==
  1 + MapThenSumSet(LAMBDA k : nodeSize(s.props[k]), DOMAIN s.props)
    + MapThenSumSet(nodeSize, s.items)
    + MapThenSumSet(LAMBDA i : nodeSize(s.oneOf[i]), DOMAIN s.oneOf)
    + MapThenSumSet(LAMBDA i : nodeSize(s.anyOf[i]), DOMAIN s.anyOf)

isObjectType(s) == "object" \in ToSet(s.type) \/ DOMAIN s.props # {}

RECURSIVE joinNodes(_, _)

(* Property by property; what only one side has, or requires, is optional.   *)
joinObjects(a, b) ==
  LET both == DOMAIN a.props \cap DOMAIN b.props
      prop(k) == IF k \in both THEN joinNodes(a.props[k], b.props[k])
                 ELSE withNull(canonicalize(IF k \in DOMAIN a.props THEN a.props[k]
                                                                    ELSE b.props[k]))
  IN [Object EXCEPT !.props = [k \in DOMAIN a.props \cup DOMAIN b.props |-> prop(k)],
                    !.req = both \cap a.req \cap b.req]

joinNodes(a, b) ==
  LET na  == stripNull(a)
      nb  == stripNull(b)
      res == IF isObjectType(na) /\ isObjectType(nb) THEN joinObjects(na, nb)
                                                     ELSE OneOf(<<na, nb>>)
  IN canonicalize(IF nodesEqual(a, b) THEN a
                  ELSE IF isNullType(a) THEN withNull(b)
                  ELSE IF isNullType(b) THEN withNull(a)
                  ELSE IF hasNullType(a) \/ hasNullType(b) THEN withNull(res)
                  ELSE res)
=============================================================================
