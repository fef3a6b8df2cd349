------------------------------- MODULE MCFlow -------------------------------
(* Definitions for model checking Flow. *)
EXTENDS Flow

Step(id, call, output, switch, onError) ==
    [id |-> id, call |-> call, once |-> FALSE, output |-> output, switch |-> switch,
     onError |-> onError]

OnlyOnce(task) == [task EXCEPT !.once = TRUE]

On(code, retries, goto) == [code |-> code, retries |-> retries, goto |-> goto, notReached |-> FALSE]
Unreached(rule) == [rule EXCEPT !.notReached = TRUE]
Always(goto) == <<On({}, 0, goto)>>

\* Every pair of tasks: with and without a call and an error route, the first with and
\* without an output, and with every switch of up to two cases; unreachable and invalid
\* ones included.
Switches(gotos) == {S \in SUBSET gotos : Cardinality(S) \in 1 .. 2}
Routes(gotos) == {<<>>} \cup {Always(g) : g \in gotos}
Tasks2(id, outputs, routes) ==
    {Step(id, "none", o, s, <<>>) : o \in outputs, s \in Switches({"next", "end", "a", "b"})}
    \cup {Step(id, "rest", o, s, e) : o \in outputs, s \in Switches({"next", "end", "a"}),
                                     e \in Routes(routes)}
Pairs == {<<s, t>> : s \in Tasks2("a", BOOLEAN, {"a", "b"}), t \in Tasks2("b", {TRUE}, {"end", "a"})}

\* Three calls with outputs, loops and error routes over more than one task.
Triples ==
    {<<Step("a", "rest", TRUE, s1, e1), Step("b", "rest", TRUE, s2, e2),
       Step("c", "rest", TRUE, s3, e3)>> :
        s1 \in {{"next"}, {"next", "c"}}, e1 \in {<<>>, Always("c")},
        s2 \in {{"next", "a"}}, e2 \in {<<>>, Always("a"), Always("c")},
        s3 \in {{"end"}, {"end", "b"}}, e3 \in {Always("b"), Always("end")}}

\* Rules: codes, retries, assertions and their order; behind a task without a call, and
\* before a delay.
Rules ==
    {<<>>, <<On({"pre.%"}, 2, "")>>, <<On({"p%"}, 1, "")>>, <<On({"http.%"}, 1, "d")>>,
     <<On({"%"}, 0, "end")>>, <<On({}, 1, ""), On({"http.%"}, 0, "end")>>,
     <<On({"pre.%"}, 1, "d"), On({}, 0, "d")>>,
     <<On({"pre.%"}, 1, ""), On({"http.%", "output.%"}, 2, "end")>>,
     <<On({"pre.%"}, 1, ""), Unreached(On({"http.%"}, 1, "d")), On({}, 0, "end")>>}
Calls ==
    {<<first, task, Step("d", "delay", FALSE, {"end", "r"}, <<>>)>> :
        first \in {Step("s", "none", FALSE, {"next"}, <<>>), Step("s", "rest", FALSE, {"next"}, <<>>),
                   Step("s", "delay", FALSE, {"next"}, <<>>)},
        task \in UNION {{Step("r", "rest", TRUE, {"next"}, e), OnlyOnce(Step("r", "rest", TRUE, {"next"}, e))}
                          : e \in Rules}}

\* Many retries, and two tasks of one name.
Others ==
    {<<Step("a", "rest", FALSE, {"end"}, <<On({"pre.%"}, 56, "")>>)>>,
     <<Step("a", "rest", FALSE, {"next"}, <<>>), Step("a", "rest", FALSE, {"end"}, <<>>)>>}

Submitted == Pairs \cup Triples \cup Calls \cup Others
==============================================================================
