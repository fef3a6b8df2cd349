---------------------------- MODULE MCExternalTask ----------------------------
(* A definition of four external tasks for model checking ExternalTask. *)
EXTENDS ExternalTask, TLC

CONSTANTS approve, pay, pack, ship

\* approve may be repeated; its timeout is retried once and then leads to pay.  The
\* timeout of pay is not handled, that of pack ends the process, and ship has none.
Switch   == approve :> {approve, pack} @@ pay :> {ship} @@ pack :> {End} @@ ship :> {End}
Timeouts == approve :> TRUE @@ pay :> TRUE @@ pack :> TRUE @@ ship :> FALSE
Budget   == approve :> 1 @@ pay :> 0 @@ pack :> 0 @@ ship :> 0
Handlers == approve :> pay @@ pay :> None @@ pack :> End @@ ship :> None
==============================================================================
