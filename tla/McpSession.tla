----------------------------- MODULE McpSession -----------------------------
(***************************************************************************)
(* One MCP session of scaled-mcp, under one session id: the session actor  *)
(* (internal/actors/mcp_session_state_machine.go on the state machine of   *)
(* pkg/utils/state_machine_actor.go), its mailbox and its two timers, the  *)
(* HTTP handlers that post requests to it, and the client connection       *)
(* actors that SSE streams register with it.                               *)
(*                                                                         *)
(* The actor library (goakt) is outside the repository. What is used of    *)
(* it: an actor handles its messages one at a time in the order they       *)
(* arrive, the first being PostStart; sending to an actor that does not    *)
(* run is an error for the sender; an error or a panic in a handler leads  *)
(* its supervisor to stop or to suspend the actor, as Supervision says; a  *)
(* suspended actor is still found under its name and takes no message.     *)
(*                                                                         *)
(* An operator whose comment begins with "Fault" is not part of the model: *)
(* it is the operator after it with a plausible mistake, kept to show that *)
(* the properties would notice.                                            *)
(***************************************************************************)
EXTENDS Integers, Sequences

CONSTANTS
  Requests,           \* the JSON-RPC requests clients post, each at most once
  Conns,              \* the SSE streams (GET requests), one connection actor each
  NoConn,             \* no connection
  Versions,           \* protocol.OrderedProtocolVersions
  Preferred,          \* the first of them
  NoVersion,          \* no negotiated version, no version parameter
  Malformed,          \* initialize parameters that cannot be parsed
  InitializeTimeout,  \* ticks an uninitialized session is given
  SessionTTL,         \* ticks of inactivity a session survives
  Supervision,        \* what a failed handler makes of its actor
  Passivation,        \* may the library stop an idle session?
  MaxMailbox          \* bound: the TTL ticker waits while this many messages queue

Methods == {"initialize", "shutdown", "notifications/initialized",
            "notifications/cancelled", "call"}

OneWay == {"notifications/initialized", "notifications/cancelled"}

ASSUME RequestsAssumption ==
  /\ \A r \in Requests :
       /\ r.method \in Methods
       /\ r.via \in {"demand", "mcp", "messages"}
       /\ r.authentic \in BOOLEAN
  /\ NoConn \notin Requests

ASSUME ConnsAssumption == NoConn \notin Conns /\ Conns \cap Requests = {}

ASSUME VersionsAssumption == Preferred \in Versions /\ {NoVersion, Malformed} \cap Versions = {}

ASSUME TimeAssumption ==
  /\ InitializeTimeout \in Nat
  /\ SessionTTL \in Nat \ {0, 1}
  /\ MaxMailbox \in Nat \ {0}

ASSUME LibraryAssumption ==
  /\ Supervision \subseteq {"stopped", "suspended"} /\ Supervision # {}
  /\ Passivation \in BOOLEAN

VARIABLES
  status,      \* of the session actor; "absent" before the first spawn
  listed,      \* ActorOf finds a PID under the session's name
  phase,       \* StateMachineActor.currentState
  mailbox,     \* messages the session actor has not handled yet
  version,     \* SessionData.ProtocolVersion
  idle,        \* ticks since SessionData.LastActivity
  initTimer,   \* ticks to the one TryCleanupIfUninitialized, or Off
  ttlTimer,    \* ticks to the next CheckSessionTTL, or Off
  registered,  \* ClientConnectionActors[default SSE connection id], or NoConn
  conn,        \* progress of each stream's connection actor
  outcome,     \* what became of each request
  executed,    \* times each request was given to Executors.HandleMethod (history)
  sinceOk      \* ticks since the last successful client interaction (history)

sessionVars == <<status, listed, phase, mailbox, version, idle, initTimer, ttlTimer, registered>>
vars == <<sessionVars, conn, outcome, executed, sinceOk>>

-----------------------------------------------------------------------------
(* Messages, timers and small helpers.                                     *)

Control(k)  == [kind |-> k, of |-> NoConn]
Register(c) == [kind |-> "RegisterConnection", of |-> c]
Wrapped(r)  == [kind |-> "WrappedRequest", of |-> r]

Controls == {"PostStart", "TryCleanupIfUninitialized", "CheckSessionTTL"}

Message == {Control(k) : k \in Controls} \cup {Register(c) : c \in Conns}
             \cup {Wrapped(r) : r \in Requests}

ConnStates == {"new", "spawning", "ensured", "registering", "open", "orphaned", "closed"}

Outcomes == {"unsent", "spawned", "queued", "refused", "timedout", "lost", "ignored",
             "dropped", "done", "result", "error"}

Off == -1
CheckInterval == SessionTTL \div 2
Forgotten == SessionTTL + 1      \* ages are counted up to here: "longer than the TTL"

Older(age) == IF age < Forgotten THEN age + 1 ELSE Forgotten
Sooner(timer) == IF timer > 0 THEN timer - 1 ELSE timer

Running == status = "running"
Next1 == Head(mailbox)

\* The session actor is about to handle a message of this kind.
Handling(k) == Running /\ mailbox # <<>> /\ Next1.kind = k

\* Requests posted to /mcp carry IsAsk; those posted to /messages are answered
\* over the default SSE connection.
IsAsk(r) == r.via # "messages"

\* A session id made by an initialize request is known to nobody until that
\* request is answered.
Published == \A r \in Requests : r.via = "demand" => outcome[r] \in {"unsent", "result", "error"}

\* The client's version when the server supports it.
Negotiate(v) == IF v \in Versions THEN v ELSE Preferred

-----------------------------------------------------------------------------
Init ==
  /\ status = "absent" /\ listed = FALSE
  /\ phase = "uninitialized" /\ mailbox = <<>> /\ version = NoVersion
  /\ idle = 0 /\ initTimer = Off /\ ttlTimer = Off /\ registered = NoConn
  /\ conn = [c \in Conns |-> "new"]
  /\ outcome = [r \in Requests |-> "unsent"]
  /\ executed = [r \in Requests |-> 0] /\ sinceOk = 0

\* ActorSystem.Spawn of a new session state machine.
Spawn ==
  /\ status' = "running" /\ listed' = TRUE
  /\ phase' = "uninitialized" /\ mailbox' = <<Control("PostStart")>> /\ version' = NoVersion
  /\ idle' = 0 /\ initTimer' = Off /\ ttlTimer' = Off /\ registered' = NoConn
  /\ sinceOk' = 0

\* The session actor goes on to its next message.
Continue(answers) ==
  /\ mailbox' = Tail(mailbox) /\ outcome' = answers
  /\ UNCHANGED <<status, listed, conn>>

\* The session actor ends: what is queued is lost, its timers send to nobody,
\* and its streams are not told. They stay open without a session.
Halt(how, answers) ==
  /\ status' = how /\ mailbox' = <<>>
  /\ initTimer' = Off /\ ttlTimer' = Off
  /\ conn' = [c \in Conns |-> IF conn[c] = "open" THEN "orphaned" ELSE conn[c]]
  /\ outcome' = [r \in Requests |-> IF answers[r] = "queued" THEN "lost" ELSE answers[r]]
  /\ UNCHANGED listed

\* ReceiveContext.Err, or a panic: the supervisor decides.
Fail(answers) == \E how \in Supervision : Halt(how, answers)

\* sendResponse. An answer to a stream that has gone is an error of the session
\* actor; an answer with no stream registered is dropped.
TellFails(r) == ~IsAsk(r) /\ registered # NoConn /\ conn[registered] = "closed"
Undeliverable(r) == ~IsAsk(r) /\ (registered = NoConn \/ TellFails(r))

Answered(r, answer) ==
  [outcome EXCEPT ![r] = IF Undeliverable(r) THEN "dropped"
                         ELSE IF @ = "queued" THEN answer ELSE @]

SendResponse(r, answer) ==
  \/ /\ ~TellFails(r)
     /\ Continue(Answered(r, answer)) /\ UNCHANGED <<initTimer, ttlTimer>>
  \/ TellFails(r) /\ Fail(Answered(r, answer))

-----------------------------------------------------------------------------
(* HTTP handlers and connection actors.                                    *)

\* POST /mcp with an initialize request and no session id (handleMcpInitDemand):
\* a new id and a new session; its request follows in Post.
InitDemand(r) ==
  /\ r.via = "demand" /\ outcome[r] = "unsent"
  /\ status = "absent" /\ \A q \in Requests : outcome[q] = "unsent"
  /\ \A c \in Conns : conn[c] = "new"
  /\ Spawn /\ outcome' = [outcome EXCEPT ![r] = "spawned"]
  /\ UNCHANGED <<conn, executed>>

\* A request reaches the session's mailbox, or there is no session to take it.
Post(r) ==
  /\ \/ r.via = "demand" /\ outcome[r] = "spawned"
     \/ r.via # "demand" /\ outcome[r] = "unsent" /\ Published
  /\ IF Running
       THEN /\ mailbox' = Append(mailbox, Wrapped(r))
            /\ outcome' = [outcome EXCEPT ![r] = "queued"]
       ELSE /\ outcome' = [outcome EXCEPT ![r] = "refused"]
            /\ UNCHANGED mailbox
  /\ UNCHANGED <<status, listed, phase, version, idle, initTimer, ttlTimer, registered,
                 conn, executed, sinceOk>>

\* SendSync gives up after RequestTimeout; the request stays in the mailbox.
AskTimeout(r) ==
  /\ IsAsk(r) /\ r.method \notin OneWay
  /\ outcome[r] \in {"queued", "lost", "ignored"}
  /\ outcome' = [outcome EXCEPT ![r] = "timedout"]
  /\ UNCHANGED <<sessionVars, conn, executed, sinceOk>>

\* GET /sse looks for the session actor ...
LookUp(c) ==
  /\ conn[c] = "new" /\ Published
  /\ conn' = [conn EXCEPT ![c] = IF listed THEN "ensured" ELSE "spawning"]
  /\ UNCHANGED <<sessionVars, outcome, executed, sinceOk>>

\* ... and spawns it when it found none. When another handler was faster, the
\* library returns that handler's session or an error.
SpawnSession(c) ==
  /\ conn[c] = "spawning"
  /\ \/ ~listed /\ Spawn /\ conn' = [conn EXCEPT ![c] = "ensured"]
     \/ /\ listed
        /\ \E next \in {"ensured", "closed"} : conn' = [conn EXCEPT ![c] = next]
        /\ UNCHANGED <<sessionVars, sinceOk>>
  /\ UNCHANGED <<outcome, executed>>

\* The connection actor's PostStart: register with the session, or close the
\* stream when there is no session that runs.
Connect(c) ==
  /\ conn[c] = "ensured"
  /\ IF Running
       THEN /\ mailbox' = Append(mailbox, Register(c))
            /\ conn' = [conn EXCEPT ![c] = "registering"]
       ELSE /\ conn' = [conn EXCEPT ![c] = "closed"]
            /\ UNCHANGED mailbox
  /\ UNCHANGED <<status, listed, phase, version, idle, initTimer, ttlTimer, registered,
                 outcome, executed, sinceOk>>

\* No answer within RequestTimeout: close the stream and stop.
RegisterTimeout(c) ==
  /\ conn[c] = "registering"
  /\ conn' = [conn EXCEPT ![c] = "closed"]
  /\ UNCHANGED <<sessionVars, outcome, executed, sinceOk>>

\* Fault: the entry of the connection id is removed, whoever holds it by now.
DisconnectUnregisters(c) ==
  /\ conn[c] \in {"open", "orphaned"}
  /\ conn' = [conn EXCEPT ![c] = "closed"] /\ registered' = NoConn
  /\ UNCHANGED <<status, listed, phase, mailbox, version, idle, initTimer, ttlTimer,
                 outcome, executed, sinceOk>>

\* The connection actor ends by itself: a write to its stream fails, or the
\* library stops it.
Disconnect(c) ==
  /\ conn[c] \in {"open", "orphaned"}
  /\ conn' = [conn EXCEPT ![c] = "closed"]
  /\ UNCHANGED <<sessionVars, outcome, executed, sinceOk>>

-----------------------------------------------------------------------------
(* The session actor's handlers.                                           *)

\* Fault: no cleanup is scheduled.
HandlePostStartUnscheduled ==
  /\ Handling("PostStart") /\ phase = "uninitialized"
  /\ Continue(outcome)
  /\ UNCHANGED <<phase, version, idle, initTimer, ttlTimer, registered, executed, sinceOk>>

\* PostStart in the uninitialized state: one TryCleanupIfUninitialized later.
HandlePostStart ==
  /\ Handling("PostStart") /\ phase = "uninitialized"
  /\ initTimer' = InitializeTimeout
  /\ Continue(outcome)
  /\ UNCHANGED <<phase, version, idle, ttlTimer, registered, executed, sinceOk>>

\* The scheduler refuses the cleanup message or the TTL ticker.
ScheduleFails ==
  /\ \/ Handling("PostStart") /\ phase = "uninitialized" /\ idle' = idle
     \/ Handling("TryCleanupIfUninitialized") /\ phase = "initialized" /\ idle' = 0
  /\ Fail(outcome)
  /\ UNCHANGED <<phase, version, registered, executed, sinceOk>>

\* RegisterConnection: the entry of the connection id is the sender, whether or
\* not it still waits for the answer.
HandleRegisterConnection ==
  LET c == Next1.of IN
  /\ Handling("RegisterConnection") /\ phase # "shutdown"
  /\ registered' = c /\ idle' = 0 /\ sinceOk' = 0
  /\ mailbox' = Tail(mailbox)
  /\ conn' = [conn EXCEPT ![c] = IF @ = "registering" THEN "open" ELSE @]
  /\ UNCHANGED <<status, listed, phase, version, initTimer, ttlTimer, outcome, executed>>

\* Does the request at the head of the mailbox pass deserialization of its
\* auth info? Only an initialized session looks.
Admitted(r) == phase = "initialized" => r.authentic

\* initialize, in either state. Parameters that cannot be parsed are answered
\* with an error, and open the session all the same.
HandleInitialize ==
  LET r == Next1.of IN
  /\ Handling("WrappedRequest") /\ phase # "shutdown"
  /\ r.method = "initialize" /\ Admitted(r)
  /\ phase' = "initialized"
  /\ idle' = 0 /\ sinceOk' = 0
  /\ IF r.params = Malformed
       THEN SendResponse(r, "error") /\ UNCHANGED version
       ELSE SendResponse(r, "result") /\ version' = Negotiate(r.params)
  /\ UNCHANGED <<registered, executed>>

\* Fault: an early return without an answer.
RejectSilently ==
  LET r == Next1.of IN
  /\ Handling("WrappedRequest") /\ phase = "uninitialized" /\ r.method # "initialize"
  /\ Continue(outcome)
  /\ UNCHANGED <<phase, version, idle, initTimer, ttlTimer, registered, executed, sinceOk>>

\* Fault: the request is rejected and put back, to be served after an initialize.
RejectAndStash ==
  LET r == Next1.of IN
  /\ Handling("WrappedRequest") /\ phase = "uninitialized" /\ r.method # "initialize"
  /\ IsAsk(r) /\ Len(mailbox) <= MaxMailbox
  /\ mailbox' = Append(Tail(mailbox), Next1) /\ outcome' = Answered(r, "error")
  /\ UNCHANGED <<status, listed, conn, phase, version, idle, initTimer, ttlTimer, registered,
                 executed, sinceOk>>

\* Anything but initialize before the session is initialized.
RejectUninitialized ==
  LET r == Next1.of IN
  /\ Handling("WrappedRequest") /\ phase = "uninitialized" /\ r.method # "initialize"
  /\ SendResponse(r, "error")
  /\ UNCHANGED <<phase, version, idle, registered, executed, sinceOk>>

\* Fault: the request is dropped and the session goes on.
FailAuthSilently ==
  LET r == Next1.of IN
  /\ Handling("WrappedRequest") /\ phase = "initialized" /\ ~Admitted(r)
  /\ Continue(outcome)
  /\ UNCHANGED <<phase, version, idle, initTimer, ttlTimer, registered, executed, sinceOk>>

\* Auth info that cannot be deserialized is an error of the handler: no answer.
FailAuth ==
  LET r == Next1.of IN
  /\ Handling("WrappedRequest") /\ phase = "initialized" /\ ~Admitted(r)
  /\ Fail(outcome)
  /\ UNCHANGED <<phase, version, idle, registered, executed, sinceOk>>

\* Fault: a shutdown cancels what was scheduled.
HandleShutdownCancels ==
  LET r == Next1.of IN
  /\ Handling("WrappedRequest") /\ phase = "initialized"
  /\ r.method = "shutdown" /\ Admitted(r)
  /\ phase' = "shutdown" /\ initTimer' = Off /\ ttlTimer' = Off
  /\ Continue(Answered(r, "result"))
  /\ UNCHANGED <<version, idle, registered, executed, sinceOk>>

HandleShutdown ==
  LET r == Next1.of IN
  /\ Handling("WrappedRequest") /\ phase = "initialized"
  /\ r.method = "shutdown" /\ Admitted(r)
  /\ phase' = "shutdown"
  /\ SendResponse(r, "result")
  /\ UNCHANGED <<version, idle, registered, executed, sinceOk>>

HandleNotification ==
  LET r == Next1.of IN
  /\ Handling("WrappedRequest") /\ phase = "initialized"
  /\ r.method \in OneWay /\ Admitted(r)
  /\ idle' = 0 /\ sinceOk' = 0
  /\ Continue([outcome EXCEPT ![r] = IF @ = "queued" THEN "done" ELSE @])
  /\ UNCHANGED <<phase, version, initTimer, ttlTimer, registered, executed>>

\* Fault: methods are dispatched in the uninitialized state too.
CallingEarly(r) ==
  /\ Handling("WrappedRequest") /\ phase # "shutdown"
  /\ r.method = "call" /\ Admitted(r)
  /\ executed' = [executed EXCEPT ![r] = @ + 1]

\* A request that is none of the lifecycle methods goes to the executors.
Calling(r) ==
  /\ Handling("WrappedRequest") /\ phase = "initialized"
  /\ r.method = "call" /\ Admitted(r)
  /\ executed' = [executed EXCEPT ![r] = @ + 1]

\* Executors.HandleMethod returns a result, ...
ExecuteOk ==
  LET r == Next1.of IN
  /\ Calling(r)
  /\ SendResponse(r, "result")
  /\ idle' = 0 /\ sinceOk' = 0
  /\ UNCHANGED <<phase, version, registered>>

\* ... an error, which does not count as activity, ...
ExecuteError ==
  LET r == Next1.of IN
  /\ Calling(r)
  /\ SendResponse(r, "error")
  /\ UNCHANGED <<phase, version, idle, registered, sinceOk>>

\* ... or panics: no answer.
ExecutePanic ==
  LET r == Next1.of IN
  /\ Calling(r)
  /\ Fail(outcome)
  /\ UNCHANGED <<phase, version, idle, registered, sinceOk>>

\* The InitializeTimeout has passed without an initialize: stop. An error of the
\* actor's own Shutdown is an error of the handler.
CleanupUninitialized ==
  /\ Handling("TryCleanupIfUninitialized") /\ phase = "uninitialized"
  /\ Halt("stopped", outcome) \/ Fail(outcome)
  /\ UNCHANGED <<phase, version, idle, registered, executed, sinceOk>>

\* Fault: the ticker's period is the TTL.
StartTtlTickerSlow ==
  /\ Handling("TryCleanupIfUninitialized") /\ phase = "initialized"
  /\ idle' = 0 /\ ttlTimer' = SessionTTL
  /\ Continue(outcome)
  /\ UNCHANGED <<phase, version, initTimer, registered, executed, sinceOk>>

\* The same message in the initialized state starts the TTL ticker.
StartTtlTicker ==
  /\ Handling("TryCleanupIfUninitialized") /\ phase = "initialized"
  /\ idle' = 0 /\ ttlTimer' = CheckInterval
  /\ Continue(outcome)
  /\ UNCHANGED <<phase, version, initTimer, registered, executed, sinceOk>>

\* Fault: the TTL itself is already too long.
HandleCheckSessionTTLEarly ==
  /\ Handling("CheckSessionTTL") /\ phase # "shutdown"
  /\ IF idle >= SessionTTL
       THEN Halt("stopped", outcome)
       ELSE Continue(outcome) /\ UNCHANGED <<initTimer, ttlTimer>>
  /\ UNCHANGED <<phase, version, idle, registered, executed, sinceOk>>

\* CheckSessionTTL: stop when the last activity plus the TTL is before now.
HandleCheckSessionTTL ==
  /\ Handling("CheckSessionTTL") /\ phase # "shutdown"
  /\ IF idle > SessionTTL
       THEN Halt("stopped", outcome)
       ELSE Continue(outcome) /\ UNCHANGED <<initTimer, ttlTimer>>
  /\ UNCHANGED <<phase, version, idle, registered, executed, sinceOk>>

\* In the shutdown state CheckSessionTTL stops the actor ...
FinalCleanup ==
  /\ Handling("CheckSessionTTL") /\ phase = "shutdown"
  /\ Halt("stopped", outcome)
  /\ UNCHANGED <<phase, version, idle, registered, executed, sinceOk>>

\* ... and every other message is taken and ignored, without an answer.
IgnoreInShutdown ==
  /\ Running /\ mailbox # <<>> /\ phase = "shutdown" /\ Next1.kind # "CheckSessionTTL"
  /\ Continue([r \in Requests |-> IF Next1 = Wrapped(r) /\ outcome[r] = "queued"
                                    THEN "ignored" ELSE outcome[r]])
  /\ UNCHANGED <<phase, version, idle, initTimer, ttlTimer, registered, executed, sinceOk>>

-----------------------------------------------------------------------------
(* The actor library and time.                                             *)

\* Fault: Schedule in the place of ScheduleOnce.
FireInitAgain ==
  /\ Running /\ initTimer = 0 /\ Len(mailbox) < MaxMailbox
  /\ initTimer' = InitializeTimeout
  /\ mailbox' = Append(mailbox, Control("TryCleanupIfUninitialized"))
  /\ UNCHANGED <<status, listed, phase, version, idle, ttlTimer, registered,
                 conn, outcome, executed, sinceOk>>

\* ScheduleOnce delivers; a delivery may be late.
FireInit ==
  /\ Running /\ initTimer = 0
  /\ initTimer' = Off
  /\ mailbox' = Append(mailbox, Control("TryCleanupIfUninitialized"))
  /\ UNCHANGED <<status, listed, phase, version, idle, ttlTimer, registered,
                 conn, outcome, executed, sinceOk>>

\* Fault: ScheduleOnce in the place of Schedule.
FireTtlOnce ==
  /\ Running /\ ttlTimer = 0 /\ Len(mailbox) < MaxMailbox
  /\ ttlTimer' = Off
  /\ mailbox' = Append(mailbox, Control("CheckSessionTTL"))
  /\ UNCHANGED <<status, listed, phase, version, idle, initTimer, registered,
                 conn, outcome, executed, sinceOk>>

\* Schedule delivers, again and again.
FireTtl ==
  /\ Running /\ ttlTimer = 0 /\ Len(mailbox) < MaxMailbox
  /\ ttlTimer' = CheckInterval
  /\ mailbox' = Append(mailbox, Control("CheckSessionTTL"))
  /\ UNCHANGED <<status, listed, phase, version, idle, initTimer, registered,
                 conn, outcome, executed, sinceOk>>

Tick ==
  /\ Running
  /\ idle' = Older(idle) /\ sinceOk' = Older(sinceOk)
  /\ initTimer' = Sooner(initTimer) /\ ttlTimer' = Sooner(ttlTimer)
  /\ UNCHANGED <<status, listed, phase, mailbox, version, registered, conn, outcome, executed>>

\* The library forgets a stopped actor some time after it stopped.
Reap ==
  /\ status = "stopped" /\ listed
  /\ listed' = FALSE
  /\ UNCHANGED <<status, phase, mailbox, version, idle, initTimer, ttlTimer, registered,
                 conn, outcome, executed, sinceOk>>

\* The library stops an actor that has had no message for a while.
Passivate ==
  /\ Passivation /\ Running /\ mailbox = <<>>
  /\ Halt("stopped", outcome)
  /\ UNCHANGED <<phase, version, idle, registered, executed, sinceOk>>

-----------------------------------------------------------------------------
SessionStep ==
  \/ HandlePostStart \/ ScheduleFails \/ HandleRegisterConnection
  \/ HandleInitialize \/ RejectUninitialized \/ FailAuth
  \/ HandleShutdown \/ HandleNotification
  \/ ExecuteOk \/ ExecuteError \/ ExecutePanic
  \/ CleanupUninitialized \/ StartTtlTicker \/ HandleCheckSessionTTL
  \/ FinalCleanup \/ IgnoreInShutdown

Next ==
  \/ SessionStep
  \/ FireInit \/ FireTtl \/ Tick \/ Reap \/ Passivate
  \/ \E r \in Requests : InitDemand(r) \/ Post(r) \/ AskTimeout(r)
  \/ \E c \in Conns :
       \/ LookUp(c) \/ SpawnSession(c) \/ Connect(c)
       \/ RegisterTimeout(c) \/ Disconnect(c)

Spec == Init /\ [][Next]_vars

\* The actor is scheduled while it has messages, time passes, timers deliver and
\* pending asks time out. Clients owe nothing.
Fairness ==
  /\ WF_vars(SessionStep) /\ WF_vars(Tick) /\ WF_vars(FireInit) /\ WF_vars(FireTtl)
  /\ \A r \in Requests : WF_vars(AskTimeout(r))
  /\ \A c \in Conns : WF_vars(RegisterTimeout(c))

FairSpec == Spec /\ Fairness

-----------------------------------------------------------------------------
TypeOK ==
  /\ status \in {"absent", "running", "suspended", "stopped"}
  /\ listed \in BOOLEAN
  /\ phase \in {"uninitialized", "initialized", "shutdown"}
  /\ mailbox \in Seq(Message)
  /\ version \in Versions \cup {NoVersion}
  /\ idle \in 0..Forgotten /\ sinceOk \in 0..Forgotten
  /\ initTimer \in Off..InitializeTimeout
  /\ ttlTimer \in Off..CheckInterval
  /\ registered \in Conns \cup {NoConn}
  /\ conn \in [Conns -> ConnStates]
  /\ outcome \in [Requests -> Outcomes]
  /\ executed \in [Requests -> Nat]

-----------------------------------------------------------------------------
(* Properties.                                                             *)

Waiting(k) == \E i \in DOMAIN mailbox : mailbox[i].kind = k

\* Something is there to come that looks after the session's end: its PostStart, its
\* initialize timer, the message that timer sent, or the TTL ticker.
EndInView ==
  \/ Waiting("PostStart") \/ initTimer # Off
  \/ Waiting("TryCleanupIfUninitialized") \/ ttlTimer # Off

\* A session that is spawned has its own end in view, and while it runs no order of
\* initialize, registrations, failures and timer deliveries leaves it with nothing that
\* will ever check on it, but for one step: it has been shut down before its initialize
\* timeout has passed, and ignores the message of that timer (handleShutdownState). From
\* then on no message brings its end back. A session that is shut down later keeps its
\* ticker, which ends it (handlePostStartUninitialized, handleTryCleanupInitialized).
OnlyShutdownForgets ==
  [][Running' =>
       /\ ~EndInView' =>
            /\ Running
            /\ EndInView => phase = "shutdown" /\ Handling("TryCleanupIfUninitialized")
       /\ Running /\ ~EndInView => ~EndInView']_vars

\* Starting the TTL ticker happens once per session: the cleanup message is not
\* waiting twice, nor after its timer was set again, nor once a ticker runs. Two
\* tickers would never be told apart, as Schedule returns no handle here.
SingleSchedule ==
  /\ \A i, j \in DOMAIN mailbox :
       mailbox[i].kind = "TryCleanupIfUninitialized" /\ mailbox[j].kind = "TryCleanupIfUninitialized"
         => i = j
  /\ Waiting("TryCleanupIfUninitialized") => initTimer = Off /\ ttlTimer = Off
  /\ initTimer # Off => ttlTimer = Off

\* Every request a handler is still waiting for, or was told is accepted, lies in
\* the mailbox exactly once: each handler answers it, ignores it in the shutdown
\* state or ends the session, and no early return forgets it (sendResponse and
\* the returns of handleWrappedRequest*).
EveryRequestAccounted ==
  \A r \in Requests :
    /\ outcome[r] = "queued" => \E i \in DOMAIN mailbox : mailbox[i] = Wrapped(r)
    /\ \A i, j \in DOMAIN mailbox : mailbox[i] = Wrapped(r) /\ mailbox[j] = Wrapped(r) => i = j

\* What the sender of a request is answered by now: a result or an error that the
\* session made, or the internal error of a session that is not there or of an ask
\* that timed out, which are one and the same (handleMcpMessages, Post). The other
\* outcomes are not told.
Told(r) ==
  CASE outcome[r] \in {"result", "error"} -> outcome[r]
    [] outcome[r] \in {"refused", "timedout"} -> "internal error"
    [] OTHER -> "nothing"

\* A session's answer to a request is its last word on it: once it has answered, the
\* request is in no mailbox and never runs (again), over respawns and timeouts, so
\* that a client that repeats it does not race with the first one. Answered with a
\* result, a call has run once; and while a request waits for its turn it has not
\* run. The handler's own internal error promises nothing of the kind: the request
\* may have run, may run yet or may never run (sendResponse and the returns of
\* handleWrappedRequest*; AskTimeout). A session's error may carry that code too.
AnswersAreFinal ==
  \A r \in Requests :
    /\ Told(r) \in {"result", "error"} => \A i \in DOMAIN mailbox : mailbox[i] # Wrapped(r)
    /\ r.method = "call" /\ Told(r) = "result" => executed[r] = 1
    /\ outcome[r] = "queued" => executed[r] = 0

\* While a session runs, the entry of the default connection id is a stream whose
\* registration the session handled, open or since closed, and there is one as long as
\* any stream is open: what the session Tells is not dropped for want of an entry, in
\* spite of timeouts, respawns and streams that close. It need not be the open
\* stream's own entry: a registration that was handled after its stream gave up
\* replaces it (handleRegisterConnection, RegisterTimeout).
StreamRegistered ==
  Running =>
    /\ registered # NoConn => conn[registered] \in {"open", "closed"}
    /\ (\E c \in Conns : conn[c] = "open") => registered # NoConn

\* The age the TTL check looks at never exceeds the time since the last
\* successful interaction: activity is recorded wherever a client gets a result.
ActivityRecorded == idle <= sinceOk

\* The TTL check stops an initialized session only when no client interaction
\* succeeded for longer than the TTL (handleCheckSessionTTL and every place that
\* sets, or fails to set, LastActivity).
TtlRespectsActivity ==
  [][Handling("CheckSessionTTL") /\ phase # "shutdown" /\ status' # "running"
       => sinceOk > SessionTTL]_vars

\* The session is a lifecycle: requests run only while it is open and at most
\* once each, and a session that ended comes back only as a new one.
Life ==
  CASE status = "absent" -> "none"
    [] status = "running" /\ phase = "uninitialized" -> "fresh"
    [] status = "running" /\ phase = "initialized" -> "open"
    [] status = "running" /\ phase = "shutdown" -> "closing"
    [] OTHER -> "dead"

Lifecycle == INSTANCE SessionLifecycle WITH life <- Life, served <- executed

ImplementsLifecycle == Lifecycle!Spec

\* A session nobody initializes does not last (TryCleanupIfUninitialized).
UninitializedEnds ==
  Running /\ phase = "uninitialized" ~> ~Running \/ phase # "uninitialized"

\* An initialized session whose clients fall silent is stopped, by its TTL or after
\* a shutdown, unless the shutdown state has ignored what would have stopped it
\* (CheckSessionTTL).
IdleSessionEnds ==
  Running /\ phase = "initialized" ~> ~Running \/ (phase = "shutdown" /\ ~EndInView)

-----------------------------------------------------------------------------
(* Statements of the repository that the code does not keep.               *)

\* "In uninitialized state, we only accept initialize requests": requests are
\* executed only after an initialize that negotiated a protocol version.
ServedOnlyAfterNegotiation == [][executed' # executed => version \in Versions]_vars

\* "If the session dies, we're killing ourselves": a stream whose session ended
\* closes.
StreamDiesWithSession == \A c \in Conns : conn[c] = "orphaned" ~> conn[c] = "closed"
=============================================================================
