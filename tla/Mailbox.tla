------------------------------- MODULE Mailbox -------------------------------
(***************************************************************************)
(* What the external tasks of an instance promise to those who answer      *)
(* them, without rows, leases and advances: a queue of accepted signals    *)
(* for each task, and the occurrences of external tasks, each of which is  *)
(* decided at most once.  ExternalTask implements this specification.      *)
(***************************************************************************)
EXTENDS Naturals, Sequences

CONSTANTS Task, Signal, MaxArmings

VARIABLES
    queue,      \* queue[t]: signals accepted for t and not used yet
    used,       \* signals that a task went on with
    outcome,    \* of each occurrence
    disturbed   \* a worker died at the row and its lease has run out

vars == <<queue, used, outcome, disturbed>>

Occurrence == 1 .. MaxArmings
Outcome    == {"unissued", "open", "answered", "lapsed", "dropped"}

Unsent(s) ==
    s \notin used /\ \A t \in Task : \A n \in 1 .. Len(queue[t]) : queue[t][n] # s

Decide(k, what) == outcome[k] = "open" /\ outcome' = [outcome EXCEPT ![k] = what]

\* A signal is accepted and waits behind those accepted before it.
Send(s, t) ==
    /\ Unsent(s)
    /\ queue' = [queue EXCEPT ![t] = Append(@, s)]
    /\ UNCHANGED <<used, outcome>>

\* A signal answers the open occurrence: it is next in line, which it may be ahead of
\* others only after a worker died.
Answer(s, t, k) ==
    /\ Unsent(s)
    /\ queue[t] = << >> \/ disturbed
    /\ queue' = [queue EXCEPT ![t] = <<s>> \o @]
    /\ Decide(k, "answered")
    /\ UNCHANGED used

\* The open occurrence is resolved by its token.
Resolve(k) == Decide(k, "answered") /\ UNCHANGED <<queue, used>>

\* The task goes on with the signal that is first in line.
Use(t) ==
    /\ queue[t] # << >>
    /\ used' = used \cup {Head(queue[t])}
    /\ queue' = [queue EXCEPT ![t] = Tail(@)]
    /\ UNCHANGED outcome

\* The next occurrence opens, with no signal waiting for its task and no other
\* occurrence open.
Open(k, t) ==
    /\ outcome[k] = "unissued" /\ queue[t] = << >>
    /\ \A j \in Occurrence : outcome[j] # "open"
    /\ outcome' = [outcome EXCEPT ![k] = "open"]
    /\ UNCHANGED <<queue, used>>

\* The timeout of the open occurrence is acted upon.
Lapse(k) == Decide(k, "lapsed") /\ UNCHANGED <<queue, used>>

\* The open occurrence is given up: the instance is cancelled or fails.
Drop(k) == Decide(k, "dropped") /\ UNCHANGED <<queue, used>>

Init ==
    /\ queue = [t \in Task |-> << >>]
    /\ used = {}
    /\ outcome = [k \in Occurrence |-> "unissued"]
    /\ disturbed = FALSE

Next ==
    /\ disturbed' \in BOOLEAN
    /\ \/ UNCHANGED <<queue, used, outcome>>
       \/ \E s \in Signal, t \in Task : Send(s, t)
       \/ \E s \in Signal, t \in Task, k \in Occurrence : Answer(s, t, k)
       \/ \E t \in Task : Use(t)
       \/ \E k \in Occurrence : \/ Resolve(k) \/ Lapse(k) \/ Drop(k)
                                \/ \E t \in Task : Open(k, t)

Spec == Init /\ [][Next]_vars
==============================================================================
