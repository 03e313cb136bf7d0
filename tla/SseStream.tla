------------------------------ MODULE SseStream ------------------------------
(***************************************************************************)
(* Server-sent event streams of one session: the goroutines of GET /sse    *)
(* (internal/httphandlers/sse_get_handler.go), from the moment the session *)
(* is ensured, and of the external GET /mcp (mcp_get_handler.go); the      *)
(* client connection actors they spawn, the death watchers that are to     *)
(* tell them when an actor ends, and their SSE channels. The session is an *)
(* environment that registers streams, sends responses and may stop.       *)
(*                                                                         *)
(* GET /sse gives every connection actor a name of its own, so that        *)
(* streams share nothing and one is looked at. All streams of GET /mcp     *)
(* name theirs after the session: the PID of the actor that has the name   *)
(* is handed to whoever spawns while it runs.                              *)
(*                                                                         *)
(* Watch makes its receiver the watcher of its argument, as                *)
(* death_watcher.go uses it. The connection actor calls sa.Watch(self):    *)
(* the session watches it and ignores the notice, so that nothing tells    *)
(* the stream of the end of its session.                                   *)
(*                                                                         *)
(* An operator whose comment begins with "Fault" is not part of the model: *)
(* it is the operator after it with a plausible mistake, kept to show that *)
(* the properties would notice.                                            *)
(***************************************************************************)
EXTENDS Integers, Sequences

CONSTANTS
  Streams,         \* GET requests
  NoStream,
  Routes,          \* "sse", "mcp" or both
  Supervision,     \* what a failed handler makes of its actor
  Passivation,     \* may the library stop an actor that gets no message?
  SpawnsMayFail,   \* may ActorSystem.Spawn return an error?
  MaxEvents        \* bound: responses the session sends over a stream

ASSUME LibraryAssumption ==
  /\ Supervision \subseteq {"stopped", "suspended"} /\ Supervision # {}
  /\ Passivation \in BOOLEAN /\ SpawnsMayFail \in BOOLEAN

ASSUME StreamsAssumption ==
  NoStream \notin Streams /\ Routes \subseteq {"sse", "mcp"} /\ MaxEvents \in Nat \ {0}

VARIABLES
  route,      \* which of the two handlers
  handler,    \* of each stream: where its HTTP handler is
  pid,        \* whose connection actor its handler was given
  cca,        \* the connection actor that was spawned for it
  closed,     \* number of times its Done was closed; a second time would panic
  inbox,      \* responses in the mailbox of its actor
  events,     \* events written to its response (history)
  watcher,    \* its death watcher: "none", "running" or "stopped"
  watching,   \* the watcher watches the actor its handler was given
  notice,     \* a Terminated message waits in the watcher's mailbox
  offer,      \* the goroutine that sends ActorNotStarted is blocked on its send
  session,    \* "up" or "down"
  entry,      \* RegisterConnection of its actor: "none", "asked" or "made"
  sent        \* responses the session sent to its actor

handlerVars == <<handler, pid>>
streamVars  == <<cca, closed, inbox, events>>
watchVars   == <<watcher, watching, notice, offer>>
outsideVars == <<session, entry, sent>>
vars == <<route, handlerVars, streamVars, watchVars, outsideVars>>

Ended(s) == handler[s] \in {"returned", "panicked"}

\* PID.IsRunning of a connection actor.
CcaRuns(s) == cca[s] \in {"starting", "registering", "open", "closing"}

At(s, where) == handler[s] = where
Go(s, where) == handler' = [handler EXCEPT ![s] = where]
Become(s, what) == cca' = [cca EXCEPT ![s] = what]

All(x) == [s \in Streams |-> x]

Init ==
  /\ route \in Routes
  /\ \/ route = "mcp" /\ handler = All("spawnConnection")
     \/ route = "sse" /\ \E s \in Streams : handler = [All("none") EXCEPT ![s] = "spawnConnection"]
  /\ pid = All(NoStream) /\ cca = All("none")
  /\ closed = All(0) /\ inbox = All(0) /\ events = All(<<>>)
  /\ watcher = All("none") /\ watching = All(FALSE) /\ notice = All(FALSE) /\ offer = All(FALSE)
  /\ session \in {"up", "down"} /\ entry = All("none") /\ sent = All(0)

-----------------------------------------------------------------------------
(* The handler.                                                            *)

\* Fault: the name is not looked up first.
SpawnConnectionAlways(s) ==
  /\ At(s, "spawnConnection") /\ Go(s, "spawnWatcher")
  /\ \/ Become(s, "starting") /\ pid' = [pid EXCEPT ![s] = s]
     \/ SpawnsMayFail /\ UNCHANGED <<cca, pid>>
  /\ UNCHANGED <<route, closed, inbox, events, watchVars, outsideVars>>

\* The running actor of that name, or a new one. An error of Spawn is reported to the
\* client, and the handler goes on.
SpawnConnection(s) ==
  /\ At(s, "spawnConnection") /\ Go(s, "spawnWatcher")
  /\ \/ \E t \in Streams : CcaRuns(t) /\ pid' = [pid EXCEPT ![s] = t] /\ UNCHANGED cca
     \/ /\ \A t \in Streams : ~CcaRuns(t)
        /\ Become(s, "starting") /\ pid' = [pid EXCEPT ![s] = s]
     \/ SpawnsMayFail /\ UNCHANGED <<cca, pid>>
  /\ UNCHANGED <<route, closed, inbox, events, watchVars, outsideVars>>

\* SpawnDeathWatcher; without a watcher the handler waits for Done alone.
SpawnWatcher(s) ==
  /\ At(s, "spawnWatcher")
  /\ \/ Go(s, "asleep") /\ watcher' = [watcher EXCEPT ![s] = "running"]
     \/ SpawnsMayFail /\ Go(s, "select") /\ UNCHANGED watcher
  /\ UNCHANGED <<route, pid, watching, notice, offer, streamVars, outsideVars>>

\* An actor runs under the name that is looked up.
NameRuns == \E t \in Streams : CcaRuns(t)

NotStarted(s) ==
  Go(s, "select") /\ offer' = [offer EXCEPT ![s] = TRUE] /\ watcher' = [watcher EXCEPT ![s] = "stopped"]

\* Fault: whether the actor runs is not looked at.
LookUpConnectionBlindly(s) ==
  /\ At(s, "asleep")
  /\ \/ pid[s] = NoStream /\ Go(s, "panicked") /\ UNCHANGED watchVars
     \/ pid[s] # NoStream /\ NameRuns /\ Go(s, "watch") /\ UNCHANGED watchVars
     \/ pid[s] # NoStream /\ NotStarted(s) /\ UNCHANGED <<watching, notice>>
  /\ UNCHANGED <<route, pid, streamVars, outsideVars>>

\* Fault: an actor that does not run is not reported.
LookUpConnectionSilently(s) ==
  /\ At(s, "asleep")
  /\ \/ pid[s] = NoStream /\ Go(s, "panicked") /\ UNCHANGED watchVars
     \/ pid[s] # NoStream /\ NameRuns /\ Go(s, "watch") /\ UNCHANGED watchVars
     \/ /\ pid[s] # NoStream /\ ~NameRuns
        /\ Go(s, "select") /\ watcher' = [watcher EXCEPT ![s] = "stopped"]
        /\ UNCHANGED <<watching, notice, offer>>
  /\ UNCHANGED <<route, pid, streamVars, outsideVars>>

\* After its 100 ms it looks for a running actor of the name, which on GET /mcp need
\* not be the one it was given. A failed spawn left no PID to ask for its name; if
\* none runs a goroutine reports it and the watcher is shut down.
LookUpConnection(s) ==
  /\ At(s, "asleep")
  /\ \/ pid[s] = NoStream /\ Go(s, "panicked") /\ UNCHANGED watchVars
     \/ pid[s] # NoStream /\ NameRuns /\ Go(s, "watch") /\ UNCHANGED watchVars
     \/ /\ pid[s] # NoStream /\ ~NameRuns /\ NotStarted(s)
        /\ UNCHANGED <<watching, notice>>
  /\ UNCHANGED <<route, pid, streamVars, outsideVars>>

\* dwa.Watch(pid): the end of an actor that has already ended is not announced.
Watch(s) ==
  /\ At(s, "watch") /\ Go(s, "returning") /\ watching' = [watching EXCEPT ![s] = TRUE]
  /\ UNCHANGED <<route, pid, watcher, notice, offer, streamVars, outsideVars>>

EnterSelect(s) ==
  /\ At(s, "returning") /\ Go(s, "select")
  /\ UNCHANGED <<route, pid, streamVars, watchVars, outsideVars>>

SelectDone(s) ==
  /\ At(s, "select") /\ closed[s] > 0 /\ Go(s, "returned")
  /\ UNCHANGED <<route, pid, streamVars, watchVars, outsideVars>>

SelectNotStarted(s) ==
  /\ At(s, "select") /\ offer[s]
  /\ Go(s, "returned") /\ offer' = [offer EXCEPT ![s] = FALSE]
  /\ UNCHANGED <<route, pid, watcher, watching, notice, streamVars, outsideVars>>

-----------------------------------------------------------------------------
(* The death watcher.                                                      *)

\* Terminated: a send that does not wait, taken only by a handler that is in its
\* select, and the watcher shuts down either way.
HandleTerminated(s) ==
  /\ watcher[s] = "running" /\ notice[s]
  /\ Go(s, IF handler[s] = "select" THEN "returned" ELSE handler[s])
  /\ watcher' = [watcher EXCEPT ![s] = "stopped"] /\ notice' = [notice EXCEPT ![s] = FALSE]
  /\ UNCHANGED <<route, pid, watching, offer, streamVars, outsideVars>>

PassivateWatcher(s) ==
  /\ Passivation /\ watcher[s] = "running" /\ ~notice[s]
  /\ watcher' = [watcher EXCEPT ![s] = "stopped"]
  /\ UNCHANGED <<route, handlerVars, watching, notice, offer, streamVars, outsideVars>>

-----------------------------------------------------------------------------
(* The client connection actor.                                            *)

\* The actor ends; an actor that stops, but not one that is suspended, is
\* announced to its watchers.
EndCca(s, how) ==
  /\ Become(s, how) /\ inbox' = [inbox EXCEPT ![s] = 0]
  /\ notice' = [t \in Streams |->
       notice[t] \/ (how = "stopped" /\ pid[t] = s /\ watching[t] /\ watcher[t] = "running")]
  /\ UNCHANGED <<route, handlerVars, watcher, watching, offer>>

\* Fault: no Shutdown and no return after it.
CloseAndGoOn(s) ==
  /\ closed' = [closed EXCEPT ![s] = @ + 1]
  /\ UNCHANGED <<route, cca, inbox, events, handlerVars, watchVars>>

\* Close the stream; Shutdown follows.
Close(s) ==
  /\ closed' = [closed EXCEPT ![s] = @ + 1] /\ Become(s, "closing")
  /\ UNCHANGED <<route, inbox, events, handlerVars, watchVars>>

\* PostStart: find the session and send it RegisterConnection, or close.
HandlePostStart(s) ==
  /\ cca[s] = "starting"
  /\ IF session = "up"
       THEN /\ Become(s, "registering") /\ entry' = [entry EXCEPT ![s] = "asked"]
            /\ UNCHANGED <<route, closed, inbox, events, handlerVars, watchVars, session, sent>>
       ELSE Close(s) /\ UNCHANGED outsideVars

\* The registration is answered: send the endpoint event, on GET /sse. Its error is
\* only logged.
SendEndpoint(s) ==
  /\ cca[s] = "registering" /\ entry[s] = "made" /\ Become(s, "open")
  /\ events' = IF route = "sse" THEN [events EXCEPT ![s] = Append(@, "endpoint")] ELSE events
  /\ UNCHANGED <<route, closed, inbox, handlerVars, watchVars, outsideVars>>

\* SendSync gives up after RequestTimeout, or the session answers no success.
RegisterFails(s) ==
  /\ cca[s] = "registering" /\ Close(s)
  /\ UNCHANGED outsideVars

Shutdown(s) ==
  /\ cca[s] = "closing" /\ EndCca(s, "stopped")
  /\ UNCHANGED <<closed, events, outsideVars>>

\* Fault: the channel is read without a message being there.
DeliverUnguarded(s) ==
  /\ cca[s] = "open"
  /\ inbox' = [inbox EXCEPT ![s] = @ - 1] /\ events' = [events EXCEPT ![s] = Append(@, "message")]
  /\ UNCHANGED <<route, cca, closed, handlerVars, watchVars, outsideVars>>

\* JsonRpcResponse: write a message event.
Deliver(s) ==
  /\ cca[s] = "open" /\ inbox[s] > 0
  /\ inbox' = [inbox EXCEPT ![s] = @ - 1] /\ events' = [events EXCEPT ![s] = Append(@, "message")]
  /\ UNCHANGED <<route, cca, closed, handlerVars, watchVars, outsideVars>>

\* The conversion or the write fails, as it does some time after the client has
\* gone: an error of the actor. Nothing else notices that a client has gone.
DeliverFails(s) ==
  /\ cca[s] = "open" /\ inbox[s] > 0
  /\ \E how \in Supervision : EndCca(s, how)
  /\ UNCHANGED <<closed, events, outsideVars>>

PassivateCca(s) ==
  /\ Passivation /\ cca[s] = "open" /\ inbox[s] = 0
  /\ EndCca(s, "stopped")
  /\ UNCHANGED <<closed, events, outsideVars>>

-----------------------------------------------------------------------------
(* The session.                                                            *)

SessionRegisters(s) ==
  /\ session = "up" /\ entry[s] = "asked"
  /\ entry' = [entry EXCEPT ![s] = "made"]
  /\ UNCHANGED <<route, handlerVars, streamVars, watchVars, session, sent>>

\* A response for the stream, which may still be waiting for its registration. The
\* streams of GET /mcp register under ids that no request names.
SessionTells(s) ==
  /\ session = "up" /\ route = "sse" /\ entry[s] = "made" /\ CcaRuns(s) /\ sent[s] < MaxEvents
  /\ sent' = [sent EXCEPT ![s] = @ + 1] /\ inbox' = [inbox EXCEPT ![s] = @ + 1]
  /\ UNCHANGED <<route, handlerVars, cca, closed, events, watchVars, session, entry>>

SessionStops ==
  /\ session = "up" /\ session' = "down"
  /\ UNCHANGED <<route, handlerVars, streamVars, watchVars, entry, sent>>

-----------------------------------------------------------------------------
HandlerStep(s) ==
  \/ SpawnConnection(s) \/ SpawnWatcher(s) \/ LookUpConnection(s) \/ Watch(s)
  \/ EnterSelect(s) \/ SelectDone(s) \/ SelectNotStarted(s)

CcaStep(s) ==
  \/ HandlePostStart(s) \/ SendEndpoint(s) \/ RegisterFails(s) \/ Shutdown(s)
  \/ Deliver(s) \/ DeliverFails(s)

Next ==
  \/ SessionStops
  \/ \E s \in Streams :
       \/ HandlerStep(s) \/ HandleTerminated(s) \/ CcaStep(s)
       \/ PassivateWatcher(s) \/ PassivateCca(s)
       \/ SessionRegisters(s) \/ SessionTells(s)

Spec == Init /\ [][Next]_vars

\* Goroutines and actors are scheduled while they have something to do.
FairSpec ==
  /\ Spec
  /\ \A s \in Streams :
       WF_vars(HandlerStep(s)) /\ WF_vars(HandleTerminated(s)) /\ WF_vars(CcaStep(s))

-----------------------------------------------------------------------------
TypeOK ==
  /\ route \in {"sse", "mcp"}
  /\ handler \in [Streams -> {"none", "spawnConnection", "spawnWatcher", "asleep", "watch",
                              "returning", "select", "returned", "panicked"}]
  /\ pid \in [Streams -> Streams \cup {NoStream}]
  /\ cca \in [Streams -> {"none", "starting", "registering", "open", "closing", "suspended", "stopped"}]
  /\ watcher \in [Streams -> {"none", "running", "stopped"}]
  /\ watching \in [Streams -> BOOLEAN] /\ notice \in [Streams -> BOOLEAN]
  /\ offer \in [Streams -> BOOLEAN]
  /\ closed \in [Streams -> Nat]
  /\ session \in {"up", "down"} /\ entry \in [Streams -> {"none", "asked", "made"}]
  /\ sent \in [Streams -> 0..MaxEvents] /\ inbox \in [Streams -> 0..MaxEvents]
  /\ events \in [Streams -> Seq({"endpoint", "message"})]

\* Done is closed at most once, a second close would panic: the failures of the
\* registration exclude each other, and a stream that is open is never closed.
DoneClosedOnce ==
  \A s \in Streams : closed[s] <= 1 /\ (closed[s] = 1 => cca[s] \in {"closing", "stopped"})

\* One name for all streams of GET /mcp (mcp_get_handler.go:33): at most one of them
\* has a connection actor that runs. A stream that was given another's is silent, is
\* never closed, and has only the end of that actor to wait for.
OneServed ==
  /\ \A s, t \in Streams : CcaRuns(s) /\ CcaRuns(t) => s = t
  /\ \A s \in Streams : pid[s] # s => cca[s] = "none" /\ closed[s] = 0 /\ events[s] = <<>>

\* Together the streams keep the promises of EventStream. The client learns where to
\* post before it gets any response, although the session may answer as soon as the
\* stream is registered; and nothing is written once the handler has returned, when
\* net/http takes the writer back: every way out of the select implies that the
\* connection actor has ended or is about to (sse_get_handler.go, the select).
Promise == INSTANCE EventStream
  WITH given <- sent, carried <- events, over <- {s \in Streams : Ended(s)}

ImplementsEventStream == Promise!Spec

\* The actor a handler was given runs.
Served(s) == pid[s] # NoStream /\ CcaRuns(pid[s])

\* A handler that waits, or is about to, and that nothing brings back: its stream is
\* not closed, no notice is on its way, and there is no actor that could still send one.
Lost(s) ==
  /\ handler[s] \in {"watch", "returning", "select"}
  /\ ~Served(s) /\ closed[s] = 0 /\ ~offer[s] /\ ~notice[s]

\* How a handler is lost (death_watcher.go, sse_get_handler.go, mcp_get_handler.go):
\*   - its actor ends when nothing watches it, for the watcher has not come to Watch
\*     or has ended, or the actor is suspended;
\*   - the notice comes before the handler is in its select;
\*   - no watcher could be spawned, and its actor is gone by then or never was;
\*   - on GET /mcp its watcher has found the actor of another stream.
\* On GET /sse a handler whose watcher looks after its actor has ended is not lost. One
\* that is lost stays so: it leaks with its response, and no later event reaches it.
LostHandlers ==
  [][\A s \in Streams :
       /\ ~Lost(s) /\ Lost(s)' =>
            \/ /\ Served(s)
               /\ ~watching[s] \/ watcher[s] # "running" \/ cca'[pid[s]] = "suspended"
            \/ At(s, "returning") /\ notice[s]
            \/ At(s, "spawnWatcher") /\ ~Served(s)
            \/ At(s, "asleep") /\ route = "mcp" /\ ~Served(s)
       /\ Lost(s) => Lost(s)']_vars

\* When the connection actor closes its stream, or, on GET /sse, ends before the
\* watcher looks, the handler comes back.
EndedStreamReturns ==
  \A s \in Streams :
    /\ closed[s] > 0 ~> Ended(s)
    /\ route = "sse" /\ cca[s] \in {"stopped", "suspended"} /\ handler[s] = "asleep" ~> Ended(s)

\* "... spin up the connection watcher, wait for death to come": the handler comes
\* back when its connection actor has stopped.
DeathComes == \A s \in Streams : cca[s] = "stopped" ~> Ended(s)
=============================================================================
