------------------------------- MODULE Typing -------------------------------
(***************************************************************************)
(* The static types of a process definition and what becomes of them when  *)
(* an instance of it runs: internal/validation infers and checks them at   *)
(* registration, internal/engine evaluates the same expressions later, on  *)
(* values that were validated, computed, saved as JSON and read back.      *)
(*                                                                         *)
(* The control flow is fixed: tasks a and b run one after the other, b's   *)
(* switch goes back to a or on to c, and c starts a child process.  What   *)
(* a and b export, b's condition, c's input and the child's input schema   *)
(* are the definition's; Definitions is the set of those to look at.       *)
(***************************************************************************)
EXTENDS Expressions

CONSTANTS
  Definitions,          \* the definitions that may be submitted
  Documents,            \* the JSON documents that clients and services send
  maxRecursivePasses,   \* passes of the inference of recursive outputs
  maxOutputTypeSize,    \* and the size of a type that ends it, in nodes
  MaxRounds             \* bound: how often b goes back to a

VARIABLES
  def,     \* the definition submitted
  defs,    \* the named types of a registered definition: input, a and b
  phase,   \* how far the definition and its instance have come
  task,    \* the task the instance is at
  ctx,     \* its context: the input and the outputs so far
  rounds,  \* how often it went back to a
  why,     \* why it failed
  strayed  \* history: a response nobody checked was no object, though typed as one

vars == <<def, defs, phase, task, ctx, rounds, why, strayed>>

Outputs == <<"a", "b">>     \* the tasks that may export an output, in order

-----------------------------------------------------------------------------
(* Registration. *)

(* Which outputs exist at a task, on every path to it or on some path: what  *)
(* computeContextSets finds for a -> b -> a | c (module Flow).               *)
RequiredAt == [a |-> {}, b |-> {"a"}, c |-> {"a", "b"}]
OptionalAt == [a |-> {"a", "b"}, b |-> {"b"}, c |-> {}]

Exports(d) == {t \in ToSet(Outputs) : d.out[t] # {}}

(* The context's type at a task; every output is named, its type is in defs. *)
contextSchema(d, t) ==
  LET outs == [Object EXCEPT
                 !.props = [o \in Exports(d) \cap (RequiredAt[t] \cup OptionalAt[t]) |-> Ref(o)],
                 !.req = Exports(d) \cap RequiredAt[t]]
  IN WithProperty(WithProperty(Object, "input", Ref("input"), TRUE), "outputs", outs, TRUE)

(* Null for a task that calls nothing, and the result schema of one that     *)
(* calls; a call without one, a task of d.open, counts as an object.         *)
actionResultType(d, t) ==
  IF t \in d.open THEN Object
  ELSE IF d.result[t] = {} THEN Type("null") ELSE CHOOSE s \in d.result[t] : TRUE

outputMapContext(d, t) ==
  LET self == WithProperty(Object, "result", actionResultType(d, t), TRUE)
  IN WithProperty(contextSchema(d, t), "self",
                  WithProperty(self, "previous", Ref(t), FALSE), TRUE)

addSelfSchema(d, t) ==
  LET self == WithProperty(Object, "result", actionResultType(d, t), TRUE)
      out  == WithProperty(WithProperty(self, "output", Ref(t), TRUE), "previous", Ref(t), FALSE)
  IN WithProperty(contextSchema(d, t), "self", IF d.out[t] # {} THEN out ELSE self, TRUE)

(* Before inference every output's type is a placeholder, any object. *)
buildSchemaContext(d) ==
  [n \in DOMAIN d.defs \cup {"input"} \cup Exports(d) |->
     IF n = "input" THEN d.input ELSE IF n \in Exports(d) THEN Object ELSE d.defs[n]]

(* The strongly connected components of "a's output reads b's", what is read *)
(* first; Tarjan's stack gives the two members of one in reverse order.      *)
Reads(d, s, t) == \E e \in d.out[s] : t \in OutputRefs(e)
tarjanSCC(d) ==
  CASE Exports(d) = {} -> <<>>
    [] Cardinality(Exports(d)) = 1 -> <<SetToSeq(Exports(d))>>
    [] OTHER -> IF Reads(d, "a", "b")
                  THEN IF Reads(d, "b", "a") THEN << <<"b", "a">> >> ELSE << <<"b">>, <<"a">> >>
                  ELSE << <<"a">>, <<"b">> >>

(* One member of one pass: infer its output against the estimates, join the  *)
(* result with its own, and let the others see it, nullable.                 *)
Refine(d, st, t) ==
  LET known      == t \in DOMAIN st.est
      join(one)  == IF known THEN joinNodes(st.est[t], one) ELSE one
      take(next) ==
        [st EXCEPT !.stable = @ /\ known /\ nodesEqual(next, st.est[t]),
                   !.est = [u \in DOMAIN @ \cup {t} |-> IF u = t THEN next ELSE @[u]],
                   !.defs = [@ EXCEPT ![t] = withNull(next)]]
      step(cur)  == IF cur = {} THEN [st EXCEPT !.ok = FALSE]
                    ELSE take(join(CHOOSE one \in cur : TRUE))
      inferred(e) == InferType(e, outputMapContext(d, t), st.defs)
  IN IF ~st.ok THEN st
     ELSE step({one \in {canonicalize(s) : s \in UNION {inferred(e) : e \in d.out[t]}} :
                  nodeSize(one) <= maxOutputTypeSize})

(* The table once the members have their types. *)
Settled(members, st) ==
  {[n \in DOMAIN st.defs |-> IF n \in ToSet(members) THEN st.est[n] ELSE st.defs[n]]}

(* Mutant of Passes: the first estimates are taken for the types. *)
PassesOnce(d, members, st, pass) ==
  LET done(after) == IF after.ok THEN Settled(members, after) ELSE {}
  IN done(FoldLeft(LAMBDA s, t : Refine(d, s, t), st, members))

RECURSIVE Passes(_, _, _, _)
Passes(d, members, st, pass) ==
  LET done(after) == IF ~after.ok THEN {}
                     ELSE IF after.stable THEN Settled(members, after)
                     ELSE Passes(d, members, after, pass + 1)
  IN IF pass = maxRecursivePasses THEN {}
     ELSE done(FoldLeft(LAMBDA s, t : Refine(d, s, t), [st EXCEPT !.stable = TRUE], members))

(* The estimates start as null, the value before the first iteration. *)
inferOutputFixpoint(d, members, table) ==
  Passes(d, members,
         [ok |-> TRUE, stable |-> TRUE, est |-> NoFields,
          defs |-> [n \in DOMAIN table |-> IF n \in ToSet(members) THEN Type("null")
                                                                   ELSE table[n]]],
         0)

inferOutputs(d) ==
  FoldLeft(LAMBDA tables, scc : UNION {inferOutputFixpoint(d, scc, t) : t \in tables},
           {buildSchemaContext(d)}, tarjanSCC(d))

(* Generate: the types of the outputs, then c's input and b's condition       *)
(* against them.                                                              *)
Generate(d) ==
  {table \in inferOutputs(d) :
     /\ \A e \in d.arg : InferType(e, contextSchema(d, "c"), table) # {}
     /\ \E s \in InferType(d.case, addSelfSchema(d, "b"), table) : IsType(s, "boolean")}

(* ValidateChildProcessRefs: c's input against the child's schema, typed with *)
(* the placeholders and not with the types just inferred.                     *)
validateChildEntry(d) ==
  LET table  == buildSchemaContext(d)
      inferred == IF d.arg = {} THEN {Object}
                  ELSE UNION {InferType(e, contextSchema(d, "c"), table) : e \in d.arg}
  IN \A super \in d.child :
       \E sub \in inferred : isSubset(sub, table, super, d.childDefs)

WellFormed(d) ==
  /\ \A s \in d.result["a"] \cup d.result["b"] : checkDoc(s, NoFields)
  /\ checkDoc(d.input, d.defs)
  /\ \A n \in DOMAIN d.defs : checkDoc(d.defs[n], d.defs)

Register(d) ==
  /\ phase = "draft"
  /\ def' = d
  /\ \E tables \in {IF WellFormed(d) THEN Generate(d) ELSE {}} :
       IF tables # {} /\ validateChildEntry(d)
         THEN defs' \in tables /\ phase' = "registered"
         ELSE phase' = "rejected" /\ UNCHANGED defs
  /\ UNCHANGED <<task, ctx, rounds, why, strayed>>

-----------------------------------------------------------------------------
(* Running.  A slot of the context holds a value or, when the value was too   *)
(* big to stay inline at the last save, a marker that must be resolved.       *)

Marker(v) == [t |-> "ref", of |-> v]
resolveValue(v) == IF v.t = "ref" THEN v.of ELSE v

SavedContexts(c) ==
  {[k \in DOMAIN c |-> IF k \in big THEN Marker(cloneJSON(resolveValue(c[k])))
                                    ELSE cloneJSON(resolveValue(c[k]))]
     : big \in SUBSET DOMAIN c}

(* Mutant of buildEnv: the previous output is not resolved. *)
buildEnvNoPrevious(c, self, roots) ==
  LET outs == DOMAIN c \ {"input"}
      kept == {t \in outs : c[t].t # "ref" \/ {<<"outputs", "">>, <<"outputs", t>>} \cap roots # {}}
  IN [input   |-> IF c["input"].t = "ref" /\ <<"input", "">> \notin roots
                    THEN Null ELSE resolveValue(c["input"]),
      outputs |-> Obj([t \in kept |-> resolveValue(c[t])]),
      self    |-> self,
      error   |-> Null]

(* buildEnv: inline values are always there, markers only when referenced. *)
buildEnv(c, self, roots) ==
  LET outs == DOMAIN c \ {"input"}
      kept == {t \in outs : c[t].t # "ref" \/ {<<"outputs", "">>, <<"outputs", t>>} \cap roots # {}}
      prev == IF <<"self", "previous">> \in roots /\ self.t = "obj"
                THEN Obj([self.f EXCEPT !.previous = resolveValue(@)]) ELSE self
  IN [input   |-> IF c["input"].t = "ref" /\ <<"input", "">> \notin roots
                    THEN Null ELSE resolveValue(c["input"]),
      outputs |-> Obj([t \in kept |-> resolveValue(c[t])]),
      self    |-> prev,
      error   |-> Null]

evalShapeCtx(c, e, self) == evalNode(e, buildEnv(c, self, RootRefs(e)))

previousOf(t) == IF t \in DOMAIN ctx THEN ctx[t] ELSE Null
selfOf(t, result) == Obj([result |-> result, previous |-> previousOf(t)])

StartInstance(doc) ==
  /\ phase = "registered"
  /\ LET input == conform(def.input, def.defs, doc)
     IN IF input = {} THEN phase' = "refused" /\ UNCHANGED <<task, ctx>>
        ELSE /\ phase' = "running" /\ task' = "a"
             /\ ctx' \in UNION {SavedContexts([k \in {"input"} |-> v]) : v \in input}
  /\ UNCHANGED <<def, defs, rounds, why, strayed>>

(* Mutant of failInstance: the reason is not recorded. *)
failUnrecorded(reason) ==
  phase' = "failed" /\ UNCHANGED <<def, defs, task, ctx, rounds, why>>

failInstance(reason) ==
  phase' = "failed" /\ why' = reason /\ UNCHANGED <<def, defs, task, ctx, rounds>>

(* A response that does not conform to the result schema fails the call; a   *)
(* call without a result schema takes any response as it is.                 *)
ResultInvalid(doc) ==
  /\ phase = "running" /\ task \in ToSet(Outputs)
  /\ \E s \in def.result[task] : conform(s, NoFields, doc) = {}
  /\ failInstance("result") /\ UNCHANGED strayed

(* The results a task can have: what the response conforms to, any response  *)
(* when there is no schema, null when the task calls nothing.                *)
Calls(t) == def.result[t] # {} \/ t \in def.open
Results(t) ==
  IF ~Calls(t) THEN {Null}
  ELSE IF t \in def.open THEN Documents
  ELSE UNION {conform(s, NoFields, doc) : s \in def.result[t], doc \in Documents}

(* evalSwitch at b, after the output was set; a just goes on. *)
NextTask(c, t, self) ==
  IF t = "a" THEN Ok(Bool(FALSE))
  ELSE LET x == evalShapeCtx(c, def.case, self)
       IN IF x.ok /\ x.v.t # "bool" THEN Fail("type") ELSE x

(* evalTaskOutput, setTaskOutput, and the self that the switch sees. *)
TaskOutput(result) == {evalShapeCtx(ctx, e, selfOf(task, result)) : e \in def.out[task]}
AfterOutput(result) ==
  [k \in DOMAIN ctx \cup (Exports(def) \cap {task}) |->
     IF k = task THEN (CHOOSE o \in TaskOutput(result) : TRUE).v ELSE ctx[k]]
switchSelf(result) ==
  IF def.out[task] = {} THEN selfOf(task, result)
  ELSE Obj([result |-> result, previous |-> previousOf(task),
            output |-> AfterOutput(result)[task]])

(* One task: its output, the switch, and the save when the task made a call. *)
RunTask(result) ==
  LET outs  == TaskOutput(result)
      after == AfterOutput(result)
      next  == NextTask(after, task, switchSelf(result))
  IN /\ phase = "running" /\ task \in ToSet(Outputs)
     /\ result \in Results(task)
     /\ strayed' = (strayed \/ (task \in def.open /\ result.t # "obj"))
     /\ \/ \E o \in outs : ~o.ok /\ failInstance(o.why)
        \/ /\ \A o \in outs : o.ok
           /\ ~next.ok
           /\ failInstance(next.why)
        \/ /\ \A o \in outs : o.ok
           /\ next.ok
           /\ next.v.b => rounds < MaxRounds
           /\ task' = IF task = "a" THEN "b" ELSE IF next.v.b THEN "a" ELSE "c"
           /\ rounds' = IF next.v.b THEN rounds + 1 ELSE rounds
           /\ ctx' \in IF Calls(task) THEN SavedContexts(after) ELSE {after}
           /\ UNCHANGED <<def, defs, phase, why>>

(* buildSingleChild: the child's input is evaluated, then validated against  *)
(* the child's schema; if it does not conform the parent fails.              *)
ChildInput ==
  IF def.arg = {} THEN Ok(Obj(NoFields)) ELSE evalShapeCtx(ctx, CHOOSE e \in def.arg : TRUE, Null)

SpawnChild ==
  /\ phase = "running" /\ task = "c" /\ UNCHANGED strayed
  /\ LET in == ChildInput
     IN \/ ~in.ok /\ failInstance(in.why)
        \/ /\ in.ok
           /\ \E s \in def.child : conform(s, def.childDefs, in.v) = {}
           /\ failInstance("input")
        \/ /\ in.ok
           /\ \A s \in def.child : conform(s, def.childDefs, in.v) # {}
           /\ phase' = "spawned"
           /\ UNCHANGED <<def, defs, task, ctx, rounds, why>>

Init ==
  /\ def = [none |-> TRUE] /\ defs = NoFields /\ phase = "draft"
  /\ task = "a" /\ ctx = NoFields /\ rounds = 0 /\ why = "" /\ strayed = FALSE

Next ==
  \/ phase = "draft" /\ \E d \in Definitions : Register(d)
  \/ \E doc \in Documents : StartInstance(doc)
  \/ \E doc \in Documents : ResultInvalid(doc)
  \/ phase = "running" /\ task \in ToSet(Outputs) /\ \E r \in Results(task) : RunTask(r)
  \/ SpawnChild

Spec == Init /\ [][Next]_vars

-----------------------------------------------------------------------------
(* What a type says of a value, read without the code: a union admits what   *)
(* one of its variants does, a keyword other than type says nothing of null, *)
(* and an object has no properties but the declared ones, if it declares any.*)
RECURSIVE Admits(_, _, _)
Admits(s0, table, v) ==
  LET s == derefSubset(s0, table)
  IN IF Variants(s) # <<>> THEN \E u \in ToSet(Variants(s)) : Admits(u, table, v)
     ELSE /\ checkType(s, v)
          /\ v.t # "null" /\ s.enum # {} => enumContains(s.enum, v)
          /\ checkScalar(s, v)
          /\ v.t = "obj" =>
               /\ s.req \subseteq DOMAIN v.f
               /\ DOMAIN s.props # {} =>
                    \A k \in DOMAIN v.f : k \in DOMAIN s.props /\ Admits(s.props[k], table, v.f[k])
          /\ v.t = "arr" =>
               /\ Ordered(s.minItems, {Len(v.e)}) /\ Ordered({Len(v.e)}, s.maxItems)
               /\ \A it \in s.items, i \in DOMAIN v.e : Admits(it, table, v.e[i])

(* Two things the types are known not to see: a null that hides in a variant *)
(* of a union, where only a variant that is null itself is looked for, and   *)
(* the sign of a number whose bounds are kept.                               *)
HidesNull(s, table) == ~hasNullType(s) /\ Variants(s) # <<>> /\ Admits(s, table, Null)
Bounded(s) == s.min # {} \/ s.max # {} \/ s.enum # {}

RECURSIVE Blind(_, _, _, _)
Blind(e, c, table, g) ==
  LET operands == CASE e.e = "bin" /\ e.o = "??" -> {e.l}
                    [] e.e = "mixed" \/ (e.e = "un" /\ e.o = "-") -> {e.x}
                    [] OTHER -> {}
      overlooked(s) == IF e.e = "un" THEN Bounded(s) ELSE HidesNull(s, table)
      branches(b) == Blind(e.x, c, table, b[1]) \/ Blind(e.y, c, table, b[2])
  IN \/ \E x \in operands : \E s \in inferNode(x, c, table, g) : overlooked(s)
     \/ CASE e.e \in {"mem", "idx"} -> Blind(e.base, c, table, g)
          [] e.e = "bin" -> Blind(e.l, c, table, g) \/ Blind(e.r, c, table, g)
          [] e.e \in {"un", "mixed"} -> Blind(e.x, c, table, g)
          [] e.e = "cond" -> \/ Blind(e.c, c, table, g)
                             \/ branches(narrowCondition(e.c, c, table, g))
          [] e.e = "shape" -> \E k \in DOMAIN e.f : Blind(e.f[k], c, table, g)
          [] OTHER -> FALSE

(* An expression that takes self as a whole.  The roots it reads name only    *)
(* self.previous, so a previous output that was moved out stays a marker     *)
(* inside the value, and is saved as one.                                    *)
RECURSIVE WholeSelf(_)
WholeSelf(e) ==
  CASE e.e = "id" -> e.name = "self"
    [] e.e \in {"mem", "idx"} -> e.base # Id("self") /\ WholeSelf(e.base)
    [] e.e = "bin" -> WholeSelf(e.l) \/ WholeSelf(e.r)
    [] e.e \in {"un", "mixed"} -> WholeSelf(e.x)
    [] e.e = "cond" -> WholeSelf(e.c) \/ WholeSelf(e.x) \/ WholeSelf(e.y)
    [] e.e = "shape" -> \E k \in DOMAIN e.f : WholeSelf(e.f[k])
    [] OTHER -> FALSE

(* The expressions of the definition, each with the context it is typed in. *)
Typed ==
  UNION {{<<e, outputMapContext(def, t)>> : e \in def.out[t]} : t \in ToSet(Outputs)}
  \cup {<<e, contextSchema(def, "c")>> : e \in def.arg}

Seen == \A x \in Typed : ~Blind(x[1], x[2], defs, NoGuards) /\ ~WholeSelf(x[1])

(* Evaluation with every marker of context c resolved beforehand. *)
Eagerly(c, e, self) ==
  LET whole(v) == IF v.t = "obj" THEN Obj([k \in DOMAIN v.f |-> resolveValue(v.f[k])]) ELSE v
  IN evalNode(e, buildEnv([k \in DOMAIN c |-> resolveValue(c[k])], whole(self), {}))

Transparent(c, e, self) == WholeSelf(e) \/ evalShapeCtx(c, e, self) = Eagerly(c, e, self)

(* Evaluation on context c as it is in memory and on the same context after  *)
(* it was saved and read back: the results are the same document, or the     *)
(* failures the same, but for the remainder that a decoded number has not.   *)
Survives(c, e, self) ==
  LET saved  == [k \in DOMAIN c |-> cloneJSON(resolveValue(c[k]))]
      before == Eagerly(c, e, self)
      after  == Eagerly(saved, e, IF self = Null THEN Null ELSE
                        Obj([k \in DOMAIN self.f |-> cloneJSON(resolveValue(self.f[k]))]))
  IN \/ ~after.ok /\ after.why = "mod"
     \/ before.ok /\ after.ok /\ cloneJSON(before.v) = cloneJSON(after.v)
     \/ ~before.ok /\ before = after

(* A schema without what isSubset does not look at: how many items a list    *)
(* has, and that a value fits one variant of a oneOf only.                   *)
RECURSIVE Loose(_)
Loose(s) ==
  LET loose(vs) == [i \in DOMAIN vs |-> Loose(vs[i])]
  IN [s EXCEPT !.minItems = {}, !.maxItems = {}, !.oneOf = <<>>,
               !.anyOf = loose(Variants(s)),
               !.items = {Loose(it) : it \in @},
               !.props = [k \in DOMAIN @ |-> Loose(@[k])]]

(* The variables have their types, and an instance has failed exactly when   *)
(* it says why (failInstance records both).                                  *)
TypeOK ==
  /\ phase \in {"draft", "rejected", "registered", "refused", "running", "failed",
                "spawned"}
  /\ task \in {"a", "b", "c"} /\ rounds \in 0..MaxRounds
  /\ strayed \in BOOLEAN
  /\ why \in {"", "result", "input", "type", "zero", "mod", "uncomparable", "text"}
  /\ phase = "failed" <=> why # ""
  /\ DOMAIN ctx \subseteq {"input", "a", "b"}

(* The types Generate publishes are the types of what the engine stores: in  *)
(* every round of the loop the input and each output in the context, inline  *)
(* or as an object, is a value that its inferred type admits, also where the *)
(* output is computed from its own last value or two outputs from each       *)
(* other, so that the type is a fixpoint (inferOutputFixpoint, joinNodes).   *)
(* Only once a response that no schema checks has not been the object that   *)
(* actionResultType takes it for does a type say nothing of the value.       *)
OutputsHaveTheirTypes ==
  phase = "running" /\ Seen /\ ~strayed =>
    \A k \in DOMAIN ctx : Admits(defs[k], defs, resolveValue(ctx[k]))

(* An accepted definition never applies an operator to an operand of the     *)
(* wrong type: the output, the switch and the child's input of a registered  *)
(* definition evaluate on every input and result that passed validation,     *)
(* whichever rounds of the loop came before (infer.go against eval.go).      *)
(* Division by zero, the remainder of a decoded number, the comparison of    *)
(* objects and an object inside a text are failures no type excludes, and a  *)
(* response that strayed is not of the type the operators were checked for.  *)
AcceptedNeverFails == why = "type" => ~Seen \/ strayed

(* What validateChildEntry accepts at registration the child accepts when it *)
(* is started, up to the number of items of a list and the variants of a     *)
(* oneOf that overlap: an input that is refused would have been accepted     *)
(* without these two, so for every other keyword isSubset, the static check, *)
(* is sound for conform, the check of the value.  An input that reads an     *)
(* output is typed with the output's placeholder there.                      *)
ChildAcceptsInput ==
  why = "input" =>
    \/ ~Seen
    \/ \E e \in def.arg : OutputRefs(e) # {}
    \/ \A s \in def.child :
         conform(Loose(s), [n \in DOMAIN def.childDefs |-> Loose(def.childDefs[n])],
                 ChildInput.v) # {}

(* Loading only the objects that RootRefs names changes no result: outputs,   *)
(* the switch and the child's input have the values, or fail as, they would  *)
(* with the whole context in memory, whichever parts of it the last save     *)
(* moved out, unless they take self as a whole.                              *)
LazyLoadIsTransparent ==
  phase = "running" =>
    IF task = "c" THEN \A e \in def.arg : Transparent(ctx, e, Null)
    ELSE \A r \in Results(task) :
           /\ \A e \in def.out[task] : Transparent(ctx, e, selfOf(task, r))
           /\ task = "b" /\ (\A o \in TaskOutput(r) : o.ok) =>
                Transparent(AfterOutput(r), def.case, switchSelf(r))

=============================================================================
