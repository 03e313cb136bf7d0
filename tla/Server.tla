------------------------------- MODULE Server -------------------------------
(***************************************************************************)
(* The server's process (pkg/server/mcp_server.go), the ids of sessions    *)
(* (pkg/session/stateless_session_manager.go) and the HTTP requests up to  *)
(* the session actor (internal/httphandlers): who starts and stops what in *)
(* which order, which id is accepted, and what a request did and was       *)
(* answered, also when the actors are not there yet or no longer, and      *)
(* across a restart of the process. What a session makes of a message is   *)
(* in McpSession, a stream that is open in SseStream.                      *)
(*                                                                         *)
(* An id is the text random_caller_signature, with the part of the caller  *)
(* empty if there is none. It is a record:                                 *)
(*   parts    of how many parts between delimiters it is at least, up to 3 *)
(*   random   its first part                                               *)
(*   caller   the name of the caller, cut at its delimiters                *)
(*   key      the secret of the signature                                  *)
(* The random part and the alphabet it is drawn from hold no delimiter;    *)
(* two of them are never equal.                                            *)
(*                                                                         *)
(* An operator whose comment begins with "Fault" is not part of the model: *)
(* it is the operator after it with a plausible mistake, kept to show that *)
(* the properties would notice.                                            *)
(***************************************************************************)
EXTENDS Integers, Sequences, FiniteSets

CONSTANTS
  Requests,       \* HTTP requests
  Inquiries,      \* what they may be: endpoint, via, body and caller
  Nobody,         \* caller of a request without a principal
  NoRequest,
  Configured,     \* BOOLEAN values: may a secret be configured, may it be random?
  MaxProcesses,   \* bound: starts of the program
  MaxStarts       \* bound: calls of Start in a process

Endpoints == {"POST /mcp", "GET /mcp", "GET /sse", "POST /messages", "preflight"}

\* The server's own listener, its handler used in another server (WithRouter, ServeHTTP),
\* or its handlers one by one (RegisterHandlers, Handle...External).
Vias == {"listener", "handler", "external"}

Bodies == {"unreadable", "batch", "initialize", "oneway", "other"}

ASSUME InquiriesAssumption ==
  \A q \in Inquiries :
    /\ q.endpoint \in Endpoints /\ q.via \in Vias /\ q.body \in Bodies
    /\ q.caller = Nobody \/ q.caller \in Seq(STRING) \ {<<>>}

ASSUME BoundAssumption ==
  NoRequest \notin Requests /\ MaxProcesses \in Nat \ {0} /\ MaxStarts \in Nat /\ Configured \subseteq BOOLEAN

VARIABLES
  process,        \* how often the program has been started
  configured,     \* is there a secret in the configuration?
  router,         \* was the server made with a router of the application?
  control,        \* what the goroutine that owns the server is doing
  starts,         \* calls of Start in this process
  started,        \* what the last one returned: "none", "ok" or "error"
  actors,         \* actor system: "new", "running" or "stopped"
  root,           \* the root actor exists
  httpServer,     \* "none", "made" or "shut"
  createdServer,
  listener,       \* ListenAndServe: "none", "launched", "listening" or "ended"
  sessions,       \* ids with a session actor
  known,          \* ids that a client has been told
  issued,         \* ids and the processes that made them (history)
  pc, request,    \* of each request: where its handler is, and what it asks
  session,        \* the id its handler works with
  wrote,          \* what its handler has answered, in order
  effects         \* what it has changed (history)

lifeVars    == <<process, configured, router>>
controlVars == <<control, starts, started, httpServer, createdServer>>
systemVars  == <<actors, root>>
idVars      == <<known, issued>>
requestVars == <<pc, request, session, wrote, effects>>
vars == <<lifeVars, controlVars, systemVars, listener, sessions, idVars, requestVars>>

-----------------------------------------------------------------------------
(* Ids.                                                                    *)

NoId == [parts |-> 0, random |-> NoRequest, caller |-> <<>>, key |-> 0]

\* Texts that no manager made: without a delimiter, and with one.
Undelimited == [NoId EXCEPT !.parts = 1]
Halved      == [NoId EXCEPT !.parts = 2]

\* The configured secret, or one made by this process.
Secret == IF configured THEN 0 ELSE process

CallerParts(caller) == IF caller = Nobody THEN <<>> ELSE caller

\* GenerateSessionId, for request r.
GenerateSessionId(r, caller) ==
  [parts |-> 3, random |-> r, caller |-> CallerParts(caller), key |-> Secret]

\* A caller's part that says nothing is taken for that of nobody, and so is a
\* principal whose name is empty.
Blank == ""
Named(parts) == parts # <<>> /\ parts[1] # Blank
Principal(caller) == IF caller = <<Blank>> THEN Nobody ELSE caller

\* Fault: the signature is not compared with one made with the secret.
VerifyCallerOnly(id, caller) ==
  IF id.parts = 2 THEN "panic"
  ELSE IF id.parts = 3 /\ (caller # Nobody => id.caller = caller) THEN "accepted" ELSE "refused"

\* VerifySessionId. The text is split into three parts; with a delimiter in the
\* caller's name the second is only its beginning and the third more than the
\* signature. The third is read although there may be two.
VerifySessionId(id, caller) ==
  IF id.parts < 2 THEN "refused"
  ELSE IF id.parts = 2 THEN "panic"
  ELSE IF caller # Nobody /\ ~(Named(id.caller) /\ <<id.caller[1]>> = caller) THEN "refused"
  ELSE IF Len(id.caller) <= 1 /\ id.key = Secret THEN "accepted" ELSE "refused"

-----------------------------------------------------------------------------
(* Steps of a handler.                                                     *)

Write(r, what) == wrote' = [wrote EXCEPT ![r] = Append(@, what)]

Go(r, where) == pc' = [pc EXCEPT ![r] = where]

Reply(r, what) == Write(r, what) /\ Go(r, "done")

\* Who recovers a panic: jsonRpcErrorMiddleware below /mcp and, in a handler with a
\* router of its own, Recoverer. Both then write an answer. In an external handler
\* net/http does, and closes the connection.
Recovered(q) == q.via # "external" /\ (q.endpoint \in {"POST /mcp", "GET /mcp"} \/ ~router)

Panic(r, before) ==
  /\ Go(r, "panicked")
  /\ wrote' = [wrote EXCEPT ![r] = before \o IF Recovered(request[r]) THEN <<"error">> ELSE <<>>]

Effect(r, what) == effects' = [effects EXCEPT ![r] = @ \cup {what}]

At(r, where) == pc[r] = where

NewId(r, id) == issued' = issued \cup {[id |-> id, by |-> process]}

-----------------------------------------------------------------------------
Init ==
  /\ process = 1 /\ configured \in Configured /\ router \in BOOLEAN
  /\ control = "idle" /\ starts = 0 /\ started = "none"
  /\ actors = "new" /\ root = FALSE
  /\ httpServer = "none" /\ createdServer = FALSE /\ listener = "none"
  /\ sessions = {} /\ known = {} /\ issued = {}
  /\ pc = [r \in Requests |-> "none"] /\ request = [r \in Requests |-> NoRequest]
  /\ session = [r \in Requests |-> NoId]
  /\ wrote = [r \in Requests |-> <<>>] /\ effects = [r \in Requests |-> {}]

(* Start: the HTTP server is made before the actor system and the root     *)
(* actor, and is launched after them. A second Start finds the HTTP server *)
(* of the first and takes it for the application's.                        *)

StartBegins ==
  /\ control = "idle" /\ starts < MaxStarts
  /\ control' = "startActors" /\ starts' = starts + 1 /\ started' = "none"
  /\ IF httpServer # "none"
       THEN createdServer' = FALSE /\ UNCHANGED httpServer
     ELSE IF ~router
       THEN createdServer' = TRUE /\ httpServer' = "made"
     ELSE UNCHANGED <<createdServer, httpServer>>
  /\ UNCHANGED <<lifeVars, systemVars, listener, sessions, idVars, requestVars>>

\* Whether an actor system may be started again is the library's choice.
StartActors ==
  /\ control = "startActors"
  /\ \/ actors' = "running" /\ control' = "startRoot" /\ UNCHANGED started
     \/ started' = "error" /\ control' = "idle" /\ UNCHANGED actors
  /\ UNCHANGED <<lifeVars, starts, root, httpServer, createdServer, listener, sessions,
                 idVars, requestVars>>

StartRoot ==
  /\ control = "startRoot"
  /\ \/ /\ root' = TRUE /\ started' = "ok"
        /\ listener' = IF createdServer THEN "launched" ELSE listener
     \/ started' = "error" /\ UNCHANGED <<root, listener>>
  /\ control' = "idle"
  /\ UNCHANGED <<lifeVars, starts, httpServer, createdServer, actors, sessions, idVars, requestVars>>

\* The goroutine: the port may be taken, and a server that was shut does not serve.
Listen ==
  /\ listener = "launched"
  /\ \/ httpServer # "shut" /\ listener' = "listening"
     \/ listener' = "ended"
  /\ UNCHANGED <<lifeVars, controlVars, systemVars, sessions, idVars, requestVars>>

\* Fault: the sessions outlive the actor system.
StopActorsAlone ==
  /\ control = "idle" /\ control' = "stopHttp"
  /\ actors' = IF actors = "new" THEN "new" ELSE "stopped"
  /\ root' = FALSE
  /\ UNCHANGED <<lifeVars, starts, started, httpServer, createdServer, listener, sessions,
                 idVars, requestVars>>

\* Stop: first the actors with all sessions, then the HTTP server, if it was made by
\* the last Start. Requests that are being handled go on.
StopActors ==
  /\ control = "idle" /\ control' = "stopHttp"
  /\ actors' = IF actors = "new" THEN "new" ELSE "stopped"
  /\ root' = FALSE /\ sessions' = {}
  /\ UNCHANGED <<lifeVars, starts, started, httpServer, createdServer, listener, idVars, requestVars>>

\* Fault: only a server that listens already is shut.
StopHttpIfListening ==
  /\ control = "stopHttp" /\ control' = "idle"
  /\ IF createdServer /\ listener = "listening"
       THEN httpServer' = "shut" /\ listener' = "ended"
     ELSE UNCHANGED <<httpServer, listener>>
  /\ UNCHANGED <<lifeVars, starts, started, createdServer, systemVars, sessions, idVars, requestVars>>

StopHttp ==
  /\ control = "stopHttp" /\ control' = "idle"
  /\ IF httpServer # "none" /\ createdServer
       THEN /\ httpServer' = "shut"
            /\ listener' = IF listener = "listening" THEN "ended" ELSE listener
     ELSE UNCHANGED <<httpServer, listener>>
  /\ UNCHANGED <<lifeVars, starts, started, createdServer, systemVars, sessions, idVars, requestVars>>

\* The process ends, and a new one is started. Clients keep the ids they know.
Restart ==
  /\ process < MaxProcesses /\ process' = process + 1
  /\ control' = "idle" /\ starts' = 0 /\ started' = "none"
  /\ actors' = "new" /\ root' = FALSE /\ sessions' = {}
  /\ httpServer' = "none" /\ createdServer' = FALSE /\ listener' = "none"
  /\ pc' = [r \in Requests |-> IF pc[r] \in {"none", "done", "panicked"} THEN pc[r] ELSE "lost"]
  /\ UNCHANGED <<configured, router, idVars, request, session, wrote, effects>>

\* A session ends on its own (McpSession).
SessionEnds(id) ==
  /\ id \in sessions /\ sessions' = sessions \ {id}
  /\ UNCHANGED <<lifeVars, controlVars, systemVars, listener, idVars, requestVars>>

-----------------------------------------------------------------------------
(* A request arrives with an id in its header or cookie (first) or one in  *)
(* its query, of those clients know or of texts that are none, where its   *)
(* handler reads them: the query only if there is no first.                *)

ReadsFirst(q) == q.endpoint \in {"POST /mcp", "GET /mcp", "GET /sse"}
ReadsQuery(q) == \/ q.endpoint \in {"POST /messages", "GET /mcp", "GET /sse"}
                 \/ q.endpoint = "POST /mcp" /\ q.body = "initialize"

Arrive(r, q, first, query) ==
  /\ At(r, "none") /\ Go(r, "received")
  /\ q.via = "listener" => listener = "listening"
  /\ first # NoId => ReadsFirst(q)
  /\ query # NoId => ReadsQuery(q) /\ first = NoId
  /\ request' = [request EXCEPT ![r] =
       [endpoint |-> q.endpoint, via |-> q.via, body |-> q.body, caller |-> q.caller,
        first |-> first, query |-> query, process |-> process]]
  /\ UNCHANGED <<lifeVars, controlVars, systemVars, listener, sessions, idVars,
                 session, wrote, effects>>

Asks(r, endpoints) == At(r, "received") /\ request[r].endpoint \in endpoints

\* SessionPreflightHandler, which may be told to put the caller into the id.
Preflight(r) ==
  /\ Asks(r, {"preflight"})
  /\ \E caller \in {Nobody, Principal(request[r].caller)} :
       LET id == GenerateSessionId(r, caller)
       IN NewId(r, id) /\ known' = known \cup {id} /\ session' = [session EXCEPT ![r] = id]
  /\ Reply(r, "ok")
  /\ UNCHANGED <<lifeVars, controlVars, systemVars, listener, sessions, request, effects>>

\* HandleMCPPost: the id in the query counts for an initialize only. Without an id
\* it must be one, and a session is made for it.
HandleMCPPost(r) ==
  LET q  == request[r]
      id == IF q.first # NoId \/ q.body # "initialize" THEN q.first ELSE q.query
  IN /\ Asks(r, {"POST /mcp"})
     /\ IF q.body = "unreadable" \/ (id = NoId /\ q.body # "initialize")
          THEN Reply(r, "error") /\ UNCHANGED <<session, issued>>
        ELSE IF id = NoId
          THEN LET new == GenerateSessionId(r, Principal(q.caller))
               IN /\ NewId(r, new) /\ session' = [session EXCEPT ![r] = new]
                  /\ Go(r, "spawnSession") /\ UNCHANGED wrote
        ELSE /\ session' = [session EXCEPT ![r] = id]
             /\ CASE VerifySessionId(id, Principal(q.caller)) = "panic" -> Panic(r, wrote[r])
                  [] VerifySessionId(id, Principal(q.caller)) = "refused" -> Reply(r, "unauthorized")
                  [] OTHER -> IF q.body = "batch" THEN Reply(r, "error")
                              ELSE Go(r, "auth") /\ UNCHANGED wrote
             /\ UNCHANGED issued
     /\ UNCHANGED <<lifeVars, controlVars, systemVars, listener, sessions, known, request, effects>>

\* HandleMessagePost: the caller is not compared with the id.
HandleMessagePost(r) ==
  LET q == request[r]
      outcome == VerifySessionId(q.query, Nobody)
  IN /\ Asks(r, {"POST /messages"})
     /\ CASE q.query = NoId -> Reply(r, "not found")
          [] q.query # NoId /\ outcome = "panic" -> Panic(r, wrote[r])
          [] q.query # NoId /\ outcome = "refused" -> Reply(r, "unauthorized")
          [] OTHER -> IF q.body \in {"unreadable", "batch"} THEN Reply(r, "error")
                      ELSE Go(r, "auth") /\ UNCHANGED wrote
     /\ session' = [session EXCEPT ![r] = q.query]
     /\ UNCHANGED <<lifeVars, controlVars, systemVars, listener, sessions, idVars, request, effects>>

\* The request's auth info is serialized; after an error its answer is written, but
\* the handler goes on.
SerializeAuth(r) ==
  /\ At(r, "auth") /\ Go(r, "root")
  /\ UNCHANGED wrote \/ (request[r].caller # Nobody /\ Write(r, "error"))
  /\ UNCHANGED <<lifeVars, controlVars, systemVars, listener, sessions, idVars,
                 request, session, effects>>

\* ActorOf("root"). Without it HandleMessagePost returns, handleMcpMessages goes on
\* with no PID.
FindRoot(r) ==
  /\ At(r, "root")
  /\ IF root THEN Go(r, "send") /\ UNCHANGED wrote
     ELSE IF request[r].endpoint = "POST /messages" THEN Reply(r, "error")
     ELSE Panic(r, Append(wrote[r], "error"))
  /\ UNCHANGED <<lifeVars, controlVars, systemVars, listener, sessions, idVars,
                 request, session, effects>>

\* Fault: nobody looks whether the session is there for a one-way message.
SendAnyway(r) ==
  /\ At(r, "send")
  /\ IF session[r] \in sessions THEN Effect(r, "delivered") ELSE UNCHANGED effects
  /\ IF request[r].endpoint = "POST /messages" \/ request[r].body = "oneway"
       THEN Reply(r, "ok") ELSE Reply(r, "ok") \/ Reply(r, "error")
  /\ UNCHANGED <<lifeVars, controlVars, systemVars, listener, sessions, idVars, request, session>>

\* SendAsync or SendSync to the session by its name; the answer to the latter may
\* be an error, or there may be none in time.
Send(r) ==
  /\ At(r, "send")
  /\ IF session[r] \in sessions
       THEN /\ Effect(r, "delivered")
            /\ IF request[r].endpoint = "POST /messages" \/ request[r].body = "oneway"
                 THEN Reply(r, "ok") ELSE Reply(r, "ok") \/ Reply(r, "error")
     ELSE /\ Reply(r, IF request[r].endpoint = "POST /messages" /\ actors = "running"
                        THEN "not found" ELSE "error")
          /\ UNCHANGED effects
  /\ UNCHANGED <<lifeVars, controlVars, systemVars, listener, sessions, idVars, request, session>>

\* handleMcpInitDemand: the session is made first, its id told in the end.
SpawnSession(r) ==
  /\ At(r, "spawnSession")
  /\ IF actors = "running"
       THEN /\ sessions' = sessions \cup {session[r]} /\ Effect(r, "session")
            /\ Go(r, "initialize")
            /\ UNCHANGED wrote \/ (request[r].caller # Nobody /\ Write(r, "error"))
     ELSE Reply(r, "error") /\ UNCHANGED <<sessions, effects>>
  /\ UNCHANGED <<lifeVars, controlVars, systemVars, listener, idVars, request, session>>

Initialize(r) ==
  /\ At(r, "initialize")
  /\ \/ /\ session[r] \in sessions /\ Effect(r, "delivered")
        /\ \/ Reply(r, "ok") /\ known' = known \cup {session[r]}
           \/ Reply(r, "error") /\ UNCHANGED known
     \/ session[r] \notin sessions /\ Reply(r, "error") /\ UNCHANGED <<known, effects>>
  /\ UNCHANGED <<lifeVars, controlVars, systemVars, listener, sessions, issued, request, session>>

\* SSEGetFunc: the id of the cookie, of the query or a new one. An id that is refused
\* is answered, but the handler goes on with it.
SSEGet(r) ==
  LET q  == request[r]
      id == IF q.first # NoId THEN q.first
            ELSE IF q.query # NoId THEN q.query ELSE GenerateSessionId(r, Nobody)
  IN /\ Asks(r, {"GET /mcp", "GET /sse"})
     /\ session' = [session EXCEPT ![r] = id]
     /\ IF q.first = NoId /\ q.query = NoId THEN NewId(r, id) ELSE UNCHANGED issued
     /\ CASE VerifySessionId(id, Nobody) = "panic" -> Panic(r, wrote[r])
          [] VerifySessionId(id, Nobody) = "refused" -> Go(r, "findSession") /\ Write(r, "forbidden")
          [] OTHER -> Go(r, "findSession") /\ UNCHANGED wrote
     /\ UNCHANGED <<lifeVars, controlVars, systemVars, listener, sessions, known, request, effects>>

\* The session is looked up and, if it is not found, made.
FindSession(r) ==
  /\ At(r, "findSession")
  /\ Go(r, IF session[r] \in sessions THEN "connect" ELSE "makeSession")
  /\ UNCHANGED <<lifeVars, controlVars, systemVars, listener, sessions, idVars,
                 request, session, wrote, effects>>

MakeSession(r) ==
  /\ At(r, "makeSession")
  /\ IF actors = "running"
       THEN /\ sessions' = sessions \cup {session[r]} /\ Effect(r, "session")
            /\ Go(r, "connect") /\ UNCHANGED wrote
     ELSE Reply(r, "error") /\ UNCHANGED <<sessions, effects>>
  /\ UNCHANGED <<lifeVars, controlVars, systemVars, listener, idVars, request, session>>

\* The header with the cookie is written before the connection actor is spawned; a
\* failure is added to it, and the handler goes on.
Connect(r) ==
  /\ At(r, "connect") /\ known' = known \cup {session[r]} /\ Go(r, "watch")
  /\ IF actors = "running"
       THEN Write(r, "ok") /\ Effect(r, "stream")
     ELSE wrote' = [wrote EXCEPT ![r] = @ \o <<"ok", "error">>] /\ UNCHANGED effects
  /\ UNCHANGED <<lifeVars, controlVars, systemVars, listener, sessions, issued, request, session>>

\* SpawnDeathWatcher: the watcher is spawned before the PID it is to watch is read, so
\* that its own failure hides that there is none. After it the handler waits for the
\* watcher, which is not there, and for a stream to close, which may not be either.
SpawnWatcher(r) ==
  /\ At(r, "watch")
  /\ IF actors # "running"
       THEN Write(r, "error") /\ Go(r, IF "stream" \in effects[r] THEN "streaming" ELSE "stuck")
     ELSE IF "stream" \in effects[r]
       THEN Go(r, "streaming") /\ UNCHANGED wrote
     ELSE Panic(r, wrote[r])
  /\ UNCHANGED <<lifeVars, controlVars, systemVars, listener, sessions, idVars,
                 request, session, effects>>

\* The stream ends (SseStream).
StreamEnds(r) ==
  /\ At(r, "streaming") /\ Go(r, "done")
  /\ UNCHANGED <<lifeVars, controlVars, systemVars, listener, sessions, idVars,
                 request, session, wrote, effects>>

-----------------------------------------------------------------------------
Handle(r) ==
  \/ Preflight(r) \/ HandleMCPPost(r) \/ HandleMessagePost(r) \/ SerializeAuth(r)
  \/ FindRoot(r) \/ Send(r) \/ SpawnSession(r) \/ Initialize(r)
  \/ SSEGet(r) \/ FindSession(r) \/ MakeSession(r) \/ Connect(r) \/ SpawnWatcher(r)
  \/ StreamEnds(r)

Ids == known \cup {NoId, Undelimited, Halved}

Next ==
  \/ StartBegins \/ StartActors \/ StartRoot \/ Listen \/ StopActors \/ StopHttp \/ Restart
  \/ \E id \in sessions : SessionEnds(id)
  \/ \E r \in Requests, q \in Inquiries, first, query \in Ids : Arrive(r, q, first, query)
  \/ \E r \in Requests : Handle(r)

Spec == Init /\ [][Next]_vars

-----------------------------------------------------------------------------
Ended == {"done", "panicked"}

TypeOK ==
  /\ process \in 1..MaxProcesses /\ starts \in 0..MaxStarts
  /\ {configured, router, root, createdServer} \subseteq BOOLEAN
  /\ control \in {"idle", "startActors", "startRoot", "stopHttp"}
  /\ started \in {"none", "ok", "error"} /\ actors \in {"new", "running", "stopped"}
  /\ httpServer \in {"none", "made", "shut"}
  /\ listener \in {"none", "launched", "listening", "ended"}
  /\ root \/ sessions # {} => actors = "running"
  /\ sessions \cup known \subseteq {session[r] : r \in Requests} \ {NoId, Halved}
  /\ pc \in [Requests -> {"none", "received", "auth", "root", "send", "spawnSession", "initialize",
                          "findSession", "makeSession", "connect", "watch", "streaming", "stuck",
                          "lost"} \cup Ended]
  /\ wrote \in [Requests -> Seq({"ok", "error", "unauthorized", "forbidden", "not found"})]
  /\ effects \in [Requests -> SUBSET {"session", "delivered", "stream"}]
  /\ DOMAIN request = Requests /\ DOMAIN session = Requests

\* An id is honoured by the process that made it, and by all if the secret is configured;
\* but not if a delimiter in the caller's name hides the signature.
Honours(p, i) == configured \/ i.by = p
Legible(id) == Len(id.caller) <= 1

\* HandleMCPPost lets callers with a name into their own sessions only.
Belongs(id, q) ==
  q.endpoint = "POST /mcp" /\ Principal(q.caller) # Nobody => id.caller = q.caller

\* Over restarts and interleavings, a message reaches a session only under an id that
\* was made with the present secret, and of its own caller if it names one; a client
\* is told 401 about such an id only if the caller's name hides it; and a
\* session under any other id was made for a stream that was told 403 (the missing
\* return of sse_get_handler.go:57).
IdsHonoured ==
  /\ \A r \in Requests : "delivered" \in effects[r] =>
       \E i \in issued : /\ i.id = session[r] /\ Honours(request[r].process, i)
                         /\ Belongs(i.id, request[r])
  /\ \A r \in Requests : wrote[r] # <<>> /\ wrote[r][1] = "unauthorized" =>
       \A i \in issued : i.id = session[r] /\ Belongs(i.id, request[r]) =>
         ~(Honours(request[r].process, i) /\ Legible(i.id))
  /\ \A id \in sessions :
       \/ \E i \in issued : i.id = id /\ Honours(process, i)
       \/ \E r \in Requests : session[r] = id /\ wrote[r] # <<>> /\ wrote[r][1] = "forbidden"

\* What a request is answered is what it did: success means that the session has the
\* message, that the stream is up or that an id was made; 401 and 404 that nothing
\* was done. There is one answer, and no effect without success, but for the known
\* exceptions: a 403 goes on as a stream, auth info that cannot be serialized goes on
\* as a message, a panic adds to what was written, an initialize or a message whose
\* own answer is an error or late has been delivered, and a stream whose actor or
\* watcher could not be spawned is told so after the success. A handler that waits
\* for ever is one for a stream whose actor and watcher both could not.
AnswersTrue ==
  \A r \in Requests : pc[r] \in Ended \cup {"stuck"} =>
    LET q == request[r]  stream == q.endpoint \in {"GET /mcp", "GET /sse"}
        answer == wrote[r]
    IN /\ answer = <<>> => pc[r] = "panicked" /\ ~Recovered(q)
       /\ answer # <<>> =>
            /\ answer[1] = "ok" =>
                 /\ stream /\ "stream" \notin effects[r] =>
                      pc[r] # "done" /\ Len(answer) > 1 /\ answer[2] = "error"
                 /\ q.endpoint = "preflight" => effects[r] = {}
                 /\ q.endpoint \in {"POST /mcp", "POST /messages"} => "delivered" \in effects[r]
            /\ answer[1] \in {"unauthorized", "not found"} => effects[r] = {} /\ Len(answer) = 1
            /\ answer[1] = "forbidden" => stream
            /\ answer[1] = "error" /\ stream => effects[r] = {}
            /\ answer[1] = "error" /\ effects[r] = {"session"} => q.body = "initialize"
            /\ Len(answer) > 1 => stream \/ pc[r] = "panicked" \/ q.caller # Nobody
       /\ pc[r] = "stuck" => stream /\ "stream" \notin effects[r] /\ Len(answer) > 2

\* Start and Stop (mcp_server.go:320, 387), with the goroutine that listens: the first
\* Start of a server that succeeds launches its listener; a later one, a retry too,
\* never does. After Stop nothing listens, unless Start was called twice: then the
\* server is taken for the application's and left running.
ListensWhileStarted ==
  control = "idle" =>
    /\ started = "ok" /\ starts = 1 /\ ~router => listener # "none"
    /\ listener # "none" => ~router
    /\ listener = "listening" /\ actors = "stopped" => starts > 1
    /\ httpServer = "shut" => listener # "listening"
=============================================================================
