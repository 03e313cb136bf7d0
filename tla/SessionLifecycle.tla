-------------------------- MODULE SessionLifecycle --------------------------
(***************************************************************************)
(* What an MCP session promises, whatever actors, mailboxes, timers and    *)
(* connections it is built from:                                           *)
(*   - requests are executed by a session that is open, never by one that  *)
(*     is not initialized yet or has been shut down;                       *)
(*   - a request is executed at most once, over all incarnations of the    *)
(*     session;                                                            *)
(*   - a session only moves forward, and one that is dead comes back, if   *)
(*     at all, as a new and uninitialized session.                         *)
(* McpSession is shown to implement this specification.                    *)
(***************************************************************************)
CONSTANT Requests

VARIABLES life,     \* where the session stands
          served    \* how often each request was handed to an executor

lifecycleVars == <<life, served>>

Lives == {"none", "fresh", "open", "closing", "dead"}

Init == life = "none" /\ served = [r \in Requests |-> 0]

Create  == life \in {"none", "dead"} /\ life' = "fresh" /\ UNCHANGED served

Open    == life = "fresh" /\ life' = "open" /\ UNCHANGED served

\* A request may take its session down with it: its executor panics, or its
\* answer cannot be delivered.
Serve(r) == /\ life = "open" /\ served[r] = 0
            /\ served' = [served EXCEPT ![r] = 1]
            /\ life' \in {"open", "dead"}

Close   == life = "open" /\ life' = "closing" /\ UNCHANGED served

Die     == life \in {"fresh", "open", "closing"} /\ life' = "dead" /\ UNCHANGED served

Next == Create \/ Open \/ (\E r \in Requests : Serve(r)) \/ Close \/ Die

Spec == Init /\ [][Next]_lifecycleVars
=============================================================================
