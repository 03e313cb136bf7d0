----------------------------- MODULE HttpClient -----------------------------
(***************************************************************************)
(* The requests of one connected client (pkg/client/http_client.go): the   *)
(* goroutines in SendRequest, the callback that reads the SSE stream, and  *)
(* Close, which share the map of response channels.                        *)
(*                                                                         *)
(* The server answers a request in the body of a 200, or accepts it with a *)
(* 202 and answers on the SSE stream. With the connection method SSE the   *)
(* client waits for the latter on the request's channel; with the method   *)
(* HTTP, which it also uses over a stream that is there for events or has  *)
(* been given up for the fallback, it takes the 202 for the answer. A      *)
(* panic in any goroutine ends the program.                                *)
(*                                                                         *)
(* An operator whose comment begins with "Fault" is not part of the model: *)
(* it is the operator after it with a plausible mistake, kept to show that *)
(* the properties would notice.                                            *)
(***************************************************************************)
EXTENDS Integers, Functions

CONSTANTS
  Requests,      \* calls of SendRequest
  Nobody,        \* no request
  Closing        \* is Close called?

ASSUME RequestsAssumption == Nobody \notin Requests
ASSUME ClosingAssumption == Closing \in BOOLEAN

VARIABLES
  connectionMethod,  \* "sse" or "http"
  initialized,
  requestIDCounter,
  pc,           \* where each SendRequest is
  id,           \* the id it generated, 0 before
  responseMap,  \* from ids to the requests whose channel is registered
  channel,      \* state of each request's channel
  buffer,       \* the answer in it (its capacity is one), by the request it is for
  unanswered,   \* requests the server has accepted with a 202 and not yet answered
  streaming,    \* the SSE stream is up
  reader,       \* the request whose channel the callback is about to send on
  carried,      \* ... and the answer it sends
  dropped,      \* answers the callback found no room for (history)
  result,       \* how SendRequest is going to return
  answer,       \* the request whose answer it returns
  closer,       \* where Close is
  panic         \* what ended the program

requestVars == <<requestIDCounter, pc, id, result, answer>>
channelVars == <<responseMap, channel, buffer>>
readerVars  == <<unanswered, reader, carried, dropped>>
closeVars   == <<initialized, streaming, closer>>
vars == <<connectionMethod, requestVars, channelVars, readerVars, closeVars, panic>>

None == 0

Init ==
  /\ connectionMethod \in {"sse", "http"} /\ initialized = TRUE
  /\ requestIDCounter = 0
  /\ pc = [r \in Requests |-> "idle"] /\ id = [r \in Requests |-> None]
  /\ responseMap = <<>>
  /\ channel = [r \in Requests |-> "none"] /\ buffer = [r \in Requests |-> Nobody]
  /\ streaming \in BOOLEAN /\ (connectionMethod = "sse" => streaming)
  /\ unanswered = {} /\ reader = Nobody /\ carried = Nobody /\ dropped = {}
  /\ result = [r \in Requests |-> "none"] /\ answer = [r \in Requests |-> Nobody]
  /\ closer = "idle" /\ panic = "none"

-----------------------------------------------------------------------------
(* SendRequest.                                                            *)

GoTo(r, place) == pc' = [pc EXCEPT ![r] = place]

\* The deferred cleanup follows every return.
Return(r, what) == GoTo(r, "cleanup") /\ result' = [result EXCEPT ![r] = what]

Check(r) ==
  /\ pc[r] = "idle"
  /\ \/ initialized /\ GoTo(r, "checked") /\ UNCHANGED result
     \/ ~initialized /\ GoTo(r, "done") /\ result' = [result EXCEPT ![r] = "error"]
  /\ UNCHANGED <<connectionMethod, requestIDCounter, id, answer, channelVars, readerVars, closeVars, panic>>

\* Fault: an id is the counter alone, which is counted without its mutex.
RegisterUnlocked(r) ==
  LET next == requestIDCounter + 1 IN
  /\ pc[r] = "checked"
  /\ \E late \in BOOLEAN : requestIDCounter' = IF late THEN requestIDCounter ELSE next
  /\ id' = [id EXCEPT ![r] = next]
  /\ responseMap' = [i \in DOMAIN responseMap \cup {next} |-> IF i = next THEN r ELSE responseMap[i]]
  /\ channel' = [channel EXCEPT ![r] = "open"]
  /\ GoTo(r, "registered")
  /\ UNCHANGED <<connectionMethod, result, answer, buffer, readerVars, closeVars, panic>>

\* A new id, and a channel registered under it. What a uuid adds to the counter in
\* an id is left out.
Register(r) ==
  LET next == requestIDCounter + 1 IN
  /\ pc[r] = "checked"
  /\ requestIDCounter' = next /\ id' = [id EXCEPT ![r] = next]
  /\ responseMap' = [i \in DOMAIN responseMap \cup {next} |-> IF i = next THEN r ELSE responseMap[i]]
  /\ channel' = [channel EXCEPT ![r] = "open"]
  /\ GoTo(r, "registered")
  /\ UNCHANGED <<connectionMethod, result, answer, buffer, readerVars, closeVars, panic>>

\* The POST reaches the server, which answers it in the body of a 200, ...
PostForBody(r) ==
  /\ pc[r] = "registered"
  /\ GoTo(r, "replied")
  /\ UNCHANGED <<connectionMethod, requestIDCounter, id, result, answer, channelVars, readerVars,
                 closeVars, panic>>

\* ... or accepts it. Then its answer comes on the stream, at any time from here on.
Post(r) ==
  /\ pc[r] = "registered"
  /\ GoTo(r, "posted") /\ unanswered' = unanswered \cup {r}
  /\ UNCHANGED <<connectionMethod, requestIDCounter, id, result, answer, channelVars, reader, carried,
                 dropped, closeVars, panic>>

\* The POST fails, or its status or body is none of those below.
PostFails(r) ==
  /\ pc[r] \in {"registered", "replied", "posted"}
  /\ Return(r, "error")
  /\ UNCHANGED <<connectionMethod, requestIDCounter, id, answer, channelVars, readerVars, closeVars, panic>>

\* The 200 comes back: its body is the answer, whatever the connection method.
Replied(r) ==
  /\ pc[r] = "replied"
  /\ Return(r, "answer") /\ answer' = [answer EXCEPT ![r] = r]
  /\ UNCHANGED <<connectionMethod, requestIDCounter, id, channelVars, readerVars, closeVars, panic>>

\* The 202 comes back: wait for the answer over SSE, make up a result over HTTP.
Accepted(r) ==
  /\ pc[r] = "posted"
  /\ \/ connectionMethod = "sse" /\ GoTo(r, "waiting") /\ UNCHANGED result
     \/ connectionMethod = "http" /\ Return(r, "made up")
  /\ UNCHANGED <<connectionMethod, requestIDCounter, id, answer, channelVars, readerVars, closeVars, panic>>

\* Receive from the channel: the answer in it, or nil once it is closed, whose
\* Error is read.
Take(r) ==
  /\ pc[r] = "waiting"
  /\ \/ /\ buffer[r] # Nobody
        /\ Return(r, "answer") /\ answer' = [answer EXCEPT ![r] = buffer[r]]
        /\ buffer' = [buffer EXCEPT ![r] = Nobody]
        /\ UNCHANGED panic
     \/ /\ buffer[r] = Nobody /\ channel[r] = "closed"
        /\ panic' = "nil response"
        /\ UNCHANGED <<pc, result, answer, buffer>>
  /\ UNCHANGED <<connectionMethod, requestIDCounter, id, responseMap, channel, readerVars, closeVars>>

\* Fault: the wait ends with the stream, and has no limit of its own.
GiveUpWithStream(r) ==
  /\ pc[r] = "waiting" /\ ~streaming
  /\ Return(r, "timeout")
  /\ UNCHANGED <<connectionMethod, requestIDCounter, id, answer, channelVars, readerVars, closeVars, panic>>

\* The caller's context ends, or 30 seconds have passed. Select may choose this
\* although an answer is there.
GiveUp(r) ==
  /\ pc[r] = "waiting"
  /\ Return(r, "timeout")
  /\ UNCHANGED <<connectionMethod, requestIDCounter, id, answer, channelVars, readerVars, closeVars, panic>>

\* Fault: cleanup closes the channel and leaves the entry to a later step.
UnregisterLate(r) ==
  /\ pc[r] = "cleanup"
  /\ channel' = [channel EXCEPT ![r] = "closed"]
  /\ GoTo(r, "unregistered")
  /\ UNCHANGED <<connectionMethod, requestIDCounter, id, result, answer, responseMap, buffer,
                 readerVars, closeVars, panic>>

\* cleanup: delete the entry, under the lock ...
Unregister(r) ==
  /\ pc[r] = "cleanup"
  /\ responseMap' = Restrict(responseMap, DOMAIN responseMap \ {id[r]})
  /\ GoTo(r, "unregistered")
  /\ UNCHANGED <<connectionMethod, requestIDCounter, id, result, answer, channel, buffer,
                 readerVars, closeVars, panic>>

\* ... and close the channel.
CloseChannel(r) ==
  /\ pc[r] = "unregistered"
  /\ \/ /\ channel[r] = "open"
        /\ channel' = [channel EXCEPT ![r] = "closed"] /\ GoTo(r, "done")
        /\ UNCHANGED panic
     \/ /\ channel[r] = "closed"
        /\ panic' = "close of closed channel"
        /\ UNCHANGED <<channel, pc>>
  /\ UNCHANGED <<connectionMethod, requestIDCounter, id, result, answer, responseMap, buffer,
                 readerVars, closeVars>>

-----------------------------------------------------------------------------
(* The callback of the SSE stream.                                         *)

\* An answer arrives: find its channel under the read lock. Without one it goes
\* to the event handlers.
Arrive(r) ==
  /\ streaming /\ reader = Nobody /\ r \in unanswered
  /\ unanswered' = unanswered \ {r}
  /\ IF id[r] \in DOMAIN responseMap
       THEN reader' = responseMap[id[r]] /\ carried' = r
       ELSE UNCHANGED <<reader, carried>>
  /\ UNCHANGED <<connectionMethod, requestVars, channelVars, dropped, closeVars, panic>>

\* Fault: the channel has no buffer.
DeliverUnbuffered ==
  /\ reader # Nobody
  /\ IF channel[reader] = "open" /\ pc[reader] = "waiting"
       THEN buffer' = [buffer EXCEPT ![reader] = carried] /\ UNCHANGED dropped
       ELSE dropped' = dropped \cup {carried} /\ UNCHANGED buffer
  /\ reader' = Nobody /\ carried' = Nobody
  /\ UNCHANGED <<connectionMethod, requestVars, responseMap, channel, unanswered, closeVars, panic>>

\* The send, by now without the lock.
Deliver ==
  /\ reader # Nobody
  /\ \/ /\ channel[reader] = "closed"
        /\ panic' = "send on closed channel"
        /\ UNCHANGED <<buffer, dropped>>
     \/ /\ channel[reader] = "open" /\ buffer[reader] = Nobody
        /\ buffer' = [buffer EXCEPT ![reader] = carried]
        /\ UNCHANGED <<dropped, panic>>
     \/ /\ channel[reader] = "open" /\ buffer[reader] # Nobody
        /\ dropped' = dropped \cup {carried}
        /\ UNCHANGED <<buffer, panic>>
  /\ reader' = Nobody /\ carried' = Nobody
  /\ UNCHANGED <<connectionMethod, requestVars, responseMap, channel, unanswered, closeVars>>

-----------------------------------------------------------------------------
(* Close.                                                                  *)

CancelStream ==
  /\ Closing /\ closer = "idle" /\ initialized
  /\ closer' = "cancelled" /\ streaming' = FALSE
  /\ UNCHANGED <<connectionMethod, requestVars, channelVars, readerVars, initialized, panic>>

\* Under the lock: close every registered channel and forget it.
ClearResponseMap ==
  LET registered == Range(responseMap) IN
  /\ closer = "cancelled"
  /\ closer' = "cleared"
  /\ \/ /\ \A r \in registered : channel[r] = "open"
        /\ channel' = [r \in Requests |-> IF r \in registered THEN "closed" ELSE channel[r]]
        /\ responseMap' = <<>>
        /\ UNCHANGED panic
     \/ /\ \E r \in registered : channel[r] # "open"
        /\ panic' = "close of closed channel"
        /\ UNCHANGED <<channel, responseMap>>
  /\ UNCHANGED <<connectionMethod, requestVars, buffer, readerVars, initialized, streaming>>

EndClose ==
  /\ closer = "cleared"
  /\ closer' = "closed" /\ initialized' = FALSE
  /\ UNCHANGED <<connectionMethod, requestVars, channelVars, readerVars, streaming, panic>>

-----------------------------------------------------------------------------
SendStep(r) ==
  \/ Register(r) \/ PostForBody(r) \/ Post(r) \/ PostFails(r) \/ Replied(r) \/ Accepted(r)
  \/ Take(r) \/ GiveUp(r) \/ Unregister(r) \/ CloseChannel(r)

CloseStep == ClearResponseMap \/ EndClose

Next ==
  /\ panic = "none"
  /\ \/ \E r \in Requests : Check(r) \/ SendStep(r) \/ Arrive(r)
     \/ Deliver
     \/ CancelStream \/ CloseStep

Spec == Init /\ [][Next]_vars

\* Goroutines that are not blocked run, posts end and timeouts expire. The server
\* need not answer.
FairSpec == Spec /\ \A r \in Requests : WF_vars(panic = "none" /\ SendStep(r))

-----------------------------------------------------------------------------
Ids == 0..requestIDCounter

TypeOK ==
  /\ connectionMethod \in {"sse", "http"}
  /\ initialized \in BOOLEAN /\ streaming \in BOOLEAN
  /\ requestIDCounter \in Nat
  /\ pc \in [Requests -> {"idle", "checked", "registered", "replied", "posted", "waiting",
                          "cleanup", "unregistered", "done"}]
  /\ id \in [Requests -> Ids]
  /\ DOMAIN responseMap \subseteq Ids \ {None} /\ Range(responseMap) \subseteq Requests
  /\ channel \in [Requests -> {"none", "open", "closed"}]
  /\ reader \in Requests \cup {Nobody} /\ carried \in Requests \cup {Nobody}
  /\ unanswered \subseteq Requests /\ dropped \subseteq Requests \cup {Nobody}
  /\ buffer \in [Requests -> Requests \cup {Nobody}]
  /\ result \in [Requests -> {"none", "answer", "made up", "error", "timeout"}]
  /\ answer \in [Requests -> Requests \cup {Nobody}]
  /\ closer \in {"idle", "cancelled", "cleared", "closed"}
  /\ panic \in {"none", "nil response", "send on closed channel", "close of closed channel"}

\* What a request returns of the server's is its own answer, whatever other requests,
\* late answers and Close do meanwhile; and it returns nothing made up unless its
\* connection method is HTTP (SendRequest, processHTTPResponse, the callback in
\* setupSSE).
OwnAnswer ==
  \A r \in Requests :
    /\ answer[r] = IF result[r] = "answer" THEN r ELSE Nobody
    /\ result[r] = "made up" => connectionMethod = "http"

\* Close has cleared the map.
Cleared == closer \in {"cleared", "closed"}

\* A request that was accepted over SSE and can still be answered has its answer with
\* the server, with the callback or in its channel: until Close clears the map, none
\* is lost to the order of the 202, the answer and the answers to other requests
\* (registerResponseChannel before sendHTTPRequest, the callback, cleanup).
AnswerKept ==
  connectionMethod = "sse" /\ ~Cleared =>
    \A r \in Requests :
      pc[r] \in {"posted", "waiting"} =>
        r \in unanswered \/ (reader = r /\ carried = r) \/ buffer[r] = r

\* How the program ends: by what Close leaves to the requests it met on their way,
\* whose channels it has closed; or by an answer that was about to be sent when its
\* request returned. Without Close nothing else does (cleanup, Close, the callback).
PanicsExplained ==
  [][panic' # panic => Cleared \/ (panic' = "send on closed channel" /\ pc[reader] = "done")]_vars

\* Every SendRequest returns, or the program has ended: no order of answers, Close
\* and timeouts leaves a request waiting (waitForSSEResponse).
RequestReturns ==
  \A r \in Requests : pc[r] = "checked" ~> pc[r] = "done" \/ panic # "none"

-----------------------------------------------------------------------------
(* Statements of the repository that the code does not keep.               *)

\* "Try to send the response, but don't block if the channel is full or closed":
\* the callback survives a channel that has been closed.
SendToleratesClosed == panic # "send on closed channel"
=============================================================================
