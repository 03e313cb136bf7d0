----------------------------- MODULE EventStream -----------------------------
(***************************************************************************)
(* What the event streams of a session promise their clients, whatever     *)
(* handlers, actors and channels they are built from:                      *)
(*   - a stream that carries anything begins with the one event that says  *)
(*     where to post;                                                      *)
(*   - it carries no more messages than were given to it: some may be      *)
(*     lost, none is made up or written twice;                             *)
(*   - it ends once, and carries nothing after its end.                    *)
(* SseStream is shown to implement this specification.                     *)
(***************************************************************************)
EXTENDS Naturals, Sequences

CONSTANT Streams

VARIABLES given,     \* how many messages each stream was given
          carried,   \* the events it has carried
          over       \* the streams that have ended

streamVars == <<given, carried, over>>

Init == /\ given = [s \in Streams |-> 0] /\ carried = [s \in Streams |-> <<>>]
        /\ over = {}

Give(s) == given' = [given EXCEPT ![s] = @ + 1] /\ UNCHANGED <<carried, over>>

Carry(s, event) == /\ s \notin over /\ carried' = [carried EXCEPT ![s] = Append(@, event)]
                   /\ UNCHANGED <<given, over>>

Announce(s) == carried[s] = <<>> /\ Carry(s, "endpoint")

\* All events of a stream but the first are messages.
Write(s) == Len(carried[s]) \in 1..given[s] /\ Carry(s, "message")

End(s) == s \notin over /\ over' = over \cup {s} /\ UNCHANGED <<given, carried>>

Next == \E s \in Streams : Give(s) \/ Announce(s) \/ Write(s) \/ End(s)

Spec == Init /\ [][Next]_streamVars
=============================================================================
