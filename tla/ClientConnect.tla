---------------------------- MODULE ClientConnect ----------------------------
(***************************************************************************)
(* Connect and Close of the client (pkg/client/http_client.go): the        *)
(* transport it chooses, the SSE stream that setupSSE opens in a goroutine *)
(* of its own, the endpoint event that tells where to post, initialize,    *)
(* and the fallback from the 2025-03-26 to the 2024-11-05 transport.       *)
(*                                                                         *)
(* The server is like this repository's. GET on either path opens a stream *)
(* that announces an endpoint. A POST to the message path without a        *)
(* session id, which is what the client assumes before it is told, is a    *)
(* 404. The reconnects of the SSE library are left out.                    *)
(*                                                                         *)
(* An operator whose comment begins with "Fault" is not part of the model: *)
(* it is the operator after it with a plausible mistake, kept to show that *)
(* the properties would notice.                                            *)
(***************************************************************************)
EXTENDS Naturals, FiniteSets

VARIABLES
  wanted,      \* the version determineProtocolVersion chose
  events,      \* options.UseSSEForEvents
  serves,      \* the transports of the server: "mcp", "sse"
  announces,   \* the path in the server's endpoint event: "mcp" or "messages"
  pc,          \* where Connect is
  protocolVersion,
  connectionMethod,
  fellBack,    \* Connect is in its fallback
  messageEndpoint, \* "none", "mcp", "messages", or "announced"
  postedTo,    \* the endpoint initialize was posted to
  answered,    \* the server has answered initialize, and the client has seen it
  initialized,
  current,     \* the last stream opened, 0 before
  stream,      \* state of the streams
  path,        \* what each stream GETs
  failed,      \* connectionError holds an error
  callback,    \* where each stream's callback for the endpoint event is
  closed       \* Close has returned

serverVars  == <<wanted, events, serves, announces>>
connectVars == <<protocolVersion, connectionMethod, fellBack, postedTo, answered, initialized>>
streamVars  == <<current, stream, path, failed, callback>>
vars == <<serverVars, pc, connectVars, messageEndpoint, streamVars, closed>>

Streams == {1, 2}

Init ==
  /\ wanted \in {"2024", "2025"} /\ events \in BOOLEAN
  /\ serves \in SUBSET {"mcp", "sse"} /\ announces \in {"mcp", "messages"}
  /\ pc = "start" /\ protocolVersion = "none" /\ connectionMethod = "http" /\ fellBack = FALSE
  /\ messageEndpoint = "none" /\ postedTo = "none" /\ answered = FALSE /\ initialized = FALSE
  /\ current = 0 /\ stream = [k \in Streams |-> "none"] /\ path = [k \in Streams |-> "none"]
  /\ failed = FALSE /\ callback = [k \in Streams |-> "none"]
  /\ closed = FALSE

Live(k) == stream[k] \in {"dialing", "open"}

-----------------------------------------------------------------------------
(* setupSSE.                                                               *)

\* The goroutine of a new stream is started; a stream before it is cancelled when
\* the caller says so.
OpenStream(url, cancelled) ==
  /\ pc' = "dial" /\ current' = current + 1 /\ failed' = FALSE
  /\ stream' = [k \in Streams |-> IF k = current + 1 THEN "dialing"
                                  ELSE IF k \in cancelled THEN "over" ELSE stream[k]]
  /\ path' = [path EXCEPT ![current + 1] = url]
  /\ UNCHANGED callback

\* Connect reaches its select.
Await ==
  /\ pc = "dial" /\ pc' = "await"
  /\ UNCHANGED <<serverVars, connectVars, messageEndpoint, streamVars, closed>>

\* The stream comes up, if the server has it, or fails.
Dial(k) ==
  /\ stream[k] = "dialing"
  /\ \/ path[k] \in serves /\ stream' = [stream EXCEPT ![k] = "open"] /\ UNCHANGED failed
     \/ stream' = [stream EXCEPT ![k] = "over"] /\ failed' = (failed \/ k = current)
  /\ UNCHANGED <<serverVars, pc, connectVars, messageEndpoint, current, path, callback,
                 closed>>

\* The endpoint event: a signal that only a waiting Connect takes ...
ReceiveEvent(k) ==
  /\ stream[k] = "open" /\ callback[k] = "none"
  /\ callback' = [callback EXCEPT ![k] = "signalled"]
  /\ IF pc = "await" /\ k = current
       THEN pc' = IF fellBack THEN "assume" ELSE "initialize"
       ELSE UNCHANGED pc
  /\ UNCHANGED <<serverVars, connectVars, messageEndpoint, current, stream, path, failed, closed>>

\* ... and then the endpoint is stored.
StoreEndpoint(k) ==
  /\ callback[k] = "signalled"
  /\ callback' = [callback EXCEPT ![k] = "stored"] /\ messageEndpoint' = "announced"
  /\ UNCHANGED <<serverVars, pc, connectVars, current, stream, path, failed, closed>>

\* Fault: there is no limit of five seconds.
SetupFailsOnError ==
  /\ pc = "await" /\ failed
  /\ pc' = IF protocolVersion = "2025" THEN "initialize" ELSE "failed"
  /\ UNCHANGED <<serverVars, connectVars, messageEndpoint, streamVars, closed>>

\* An error of the stream, the caller's context or five seconds: only the 2025
\* transport goes on without a stream. What was opened stays open.
SetupFails ==
  /\ pc = "await"
  /\ pc' = IF protocolVersion = "2025" THEN "initialize" ELSE "failed"
  /\ UNCHANGED <<serverVars, connectVars, messageEndpoint, streamVars, closed>>

-----------------------------------------------------------------------------
(* Connect.                                                                *)

\* Fault: the endpoint is assumed after the stream is set up, as in the fallback.
UseLegacyLate ==
  /\ pc = "start" /\ wanted = "2024"
  /\ protocolVersion' = "2024" /\ connectionMethod' = "sse"
  /\ fellBack' = TRUE
  /\ OpenStream("sse", {})
  /\ UNCHANGED <<serverVars, messageEndpoint, postedTo, answered, initialized, closed>>

\* The 2024 transport: assume an endpoint and set up the stream.
UseLegacy ==
  /\ pc = "start" /\ wanted = "2024"
  /\ protocolVersion' = "2024" /\ connectionMethod' = "sse" /\ messageEndpoint' = "messages"
  /\ OpenStream("sse", {})
  /\ UNCHANGED <<serverVars, fellBack, postedTo, answered, initialized, closed>>

\* The 2025 transport, with a stream for events if the options say so.
UseModern ==
  /\ pc = "start" /\ wanted = "2025"
  /\ protocolVersion' = "2025" /\ connectionMethod' = "http" /\ messageEndpoint' = "mcp"
  /\ \/ events /\ OpenStream("mcp", {})
     \/ ~events /\ pc' = "initialize" /\ UNCHANGED streamVars
  /\ UNCHANGED <<serverVars, fellBack, postedTo, answered, initialized, closed>>

PostInitialize ==
  /\ pc = "initialize"
  /\ pc' = "posted" /\ postedTo' = messageEndpoint
  /\ UNCHANGED <<serverVars, protocolVersion, connectionMethod, fellBack, answered, initialized,
                 messageEndpoint, streamVars, closed>>

\* Where the post arrives: at a session's message path, at /mcp, or nowhere.
ToSession == postedTo = "announced" /\ announces = "messages"
ToMcp     == postedTo = "mcp" \/ (postedTo = "announced" /\ announces = "mcp")
Found     == ToSession \/ (ToMcp /\ "mcp" \in serves)

\* /mcp answers at once. A message path says 202: over SSE the client waits for
\* the answer on the stream, over HTTP it makes up a result.
InitializeSucceeds ==
  /\ pc = "posted" /\ Found
  /\ \/ ToMcp /\ answered' = TRUE
     \/ ToSession /\ connectionMethod = "sse" /\ stream[current] = "open" /\ answered' = TRUE
     \/ ToSession /\ connectionMethod = "http" /\ UNCHANGED answered
  /\ pc' = "notify"
  /\ UNCHANGED <<serverVars, protocolVersion, connectionMethod, fellBack, postedTo, initialized,
                 messageEndpoint, streamVars, closed>>

\* Any error; also one that reads like a 404 in the 2024 transport, or a second one.
InitializeFails ==
  /\ pc = "posted"
  /\ pc' = "failed"
  /\ UNCHANGED <<serverVars, connectVars, messageEndpoint, streamVars, closed>>

\* Fault: the stream for events stays.
FallBackKeeping ==
  /\ pc = "posted" /\ wanted = "2025" /\ ~fellBack
  /\ protocolVersion' = "2024" /\ fellBack' = TRUE
  /\ OpenStream("sse", {})
  /\ UNCHANGED <<serverVars, connectionMethod, postedTo, answered, initialized, messageEndpoint,
                 closed>>

\* Fault: it is fallen back on every such error.
FallBackAgain ==
  /\ pc = "posted" /\ wanted = "2025"
  /\ protocolVersion' = "2024" /\ fellBack' = TRUE
  /\ OpenStream("sse", {current})
  /\ UNCHANGED <<serverVars, connectionMethod, postedTo, answered, initialized, messageEndpoint,
                 closed>>

\* An error for the 2025 transport that reads like a 404 (isHTTPNotFoundError: any
\* text with "404" or "not found" in it, a port or a host's name as well as a status):
\* cancel the stream and set up the 2024 one.
FallBack ==
  /\ pc = "posted" /\ wanted = "2025" /\ ~fellBack
  /\ protocolVersion' = "2024" /\ fellBack' = TRUE
  /\ OpenStream("sse", {current})
  /\ UNCHANGED <<serverVars, connectionMethod, postedTo, answered, initialized, messageEndpoint,
                 closed>>

\* Here the endpoint is assumed when the stream is already up.
AssumeEndpoint ==
  /\ pc = "assume"
  /\ pc' = "initialize" /\ messageEndpoint' = "messages"
  /\ UNCHANGED <<serverVars, connectVars, streamVars, closed>>

Notify ==
  /\ pc = "notify"
  /\ \/ pc' = "connected" /\ initialized' = TRUE
     \/ pc' = "failed" /\ UNCHANGED initialized
  /\ UNCHANGED <<serverVars, protocolVersion, connectionMethod, fellBack, postedTo, answered,
                 messageEndpoint, streamVars, closed>>

\* Close does nothing unless Connect has succeeded.
Close ==
  /\ pc \in {"connected", "failed"} /\ ~closed
  /\ closed' = TRUE /\ initialized' = FALSE
  /\ stream' = [k \in Streams |-> IF initialized /\ k = current THEN "over" ELSE stream[k]]
  /\ UNCHANGED <<serverVars, pc, protocolVersion, connectionMethod, fellBack, postedTo, answered,
                 messageEndpoint, current, path, failed, callback>>

-----------------------------------------------------------------------------
ConnectStep ==
  \/ Await \/ SetupFails \/ UseLegacy \/ UseModern \/ PostInitialize
  \/ InitializeSucceeds \/ InitializeFails \/ FallBack \/ AssumeEndpoint \/ Notify

Next ==
  \/ ConnectStep \/ Close
  \/ \E k \in Streams : Dial(k) \/ ReceiveEvent(k) \/ StoreEndpoint(k)

Spec == Init /\ [][Next]_vars

\* Connect runs; its select, its posts and its wait for an answer are limited.
FairSpec == Spec /\ WF_vars(ConnectStep)

-----------------------------------------------------------------------------
TypeOK ==
  /\ wanted \in {"2024", "2025"} /\ events \in BOOLEAN
  /\ serves \subseteq {"mcp", "sse"} /\ announces \in {"mcp", "messages"}
  /\ pc \in {"start", "dial", "await", "assume", "initialize", "posted", "notify",
             "connected", "failed"}
  /\ protocolVersion \in {"none", "2024", "2025"} /\ connectionMethod \in {"http", "sse"}
  /\ fellBack \in BOOLEAN /\ answered \in BOOLEAN /\ initialized \in BOOLEAN
  /\ messageEndpoint \in {"none", "mcp", "messages", "announced"}
  /\ postedTo \in {"none", "mcp", "messages", "announced"}
  /\ current \in {0} \cup Streams
  /\ stream \in [Streams -> {"none", "dialing", "open", "over"}]
  /\ path \in [Streams -> {"none", "mcp", "sse"}]
  /\ failed \in BOOLEAN /\ closed \in BOOLEAN
  /\ callback \in [Streams -> {"none", "signalled", "stored"}]

\* The client never holds two streams, for the fallback ends the first one before it
\* opens its own; and one that has connected, whichever way, holds none once it is
\* closed (cancelSSE in Connect and in Close).
OneStream ==
  Cardinality({k \in Streams : Live(k)}) <= IF closed /\ pc = "connected" THEN 0 ELSE 1

\* Without the fallback, initialize goes to the assumed endpoint only while the
\* callback has signalled and not yet stored the announced one (setupSSE signals
\* first); once stored, nothing overwrites it.
AssumedOnlyInWindow ==
  [][PostInitialize /\ wanted = "2024" /\ messageEndpoint = "messages"
       => callback[current] = "signalled"]_vars

\* Connect comes to an end, whatever the server does.
ConnectReturns == pc = "start" ~> pc \in {"connected", "failed"}

=============================================================================
