------------------------ MODULE McpSession_refinement ------------------------
(***************************************************************************)
(* What becomes of requests, and the proof that McpSession implements      *)
(* SessionLifecycle, for every set of requests and streams, every timeout  *)
(* and every behaviour of the actor library.                               *)
(***************************************************************************)
EXTENDS McpSession_proofs

-----------------------------------------------------------------------------
(* Requests are executed at most once.                                     *)

\* A request that has not been handled yet: it has not been posted, or it waits.
InMailbox(r) == \E i \in DOMAIN mailbox : mailbox[i] = Wrapped(r)
Unhandled(r) == Unposted(r) \/ InMailbox(r)

\* Such a request has not been executed.
ServedInv == \A r \in Requests : Unhandled(r) => executed[r] = 0

\* Nothing is in a mailbox that was not in it, or is the message appended.
LEMMA MailboxContents ==
  ASSUME TypeOK, NEW r \in Requests
  PROVE  /\ mailbox # <<>> /\ mailbox' = Tail(mailbox) /\ InMailbox(r)' => InMailbox(r)
         /\ mailbox' = <<>> => ~InMailbox(r)'
         /\ \A m \in Message : mailbox' = Append(mailbox, m) /\ m # Wrapped(r) /\ InMailbox(r)'
              => InMailbox(r)
<1>0. Wrapped(r)' = Wrapped(r)
  BY DEF Wrapped
<1>1. ASSUME mailbox # <<>>, mailbox' = Tail(mailbox), InMailbox(r)' PROVE InMailbox(r)
  <2>1. PICK i \in DOMAIN mailbox' : mailbox'[i] = Wrapped(r)
    BY <1>0, <1>1 DEF InMailbox
  <2>2. i + 1 \in DOMAIN mailbox /\ mailbox[i + 1] = mailbox'[i]
    BY <1>1, <2>1 DEF TypeOK
  <2> QED BY <2>1, <2>2 DEF InMailbox
<1>2. mailbox' = <<>> => ~InMailbox(r)'
  BY DEF InMailbox
<1>3. ASSUME NEW m \in Message, mailbox' = Append(mailbox, m), m # Wrapped(r), InMailbox(r)'
      PROVE  InMailbox(r)
  <2>1. PICK i \in DOMAIN mailbox' : mailbox'[i] = Wrapped(r)
    BY <1>0, <1>3 DEF InMailbox
  <2>2. i \in DOMAIN mailbox /\ mailbox[i] = mailbox'[i]
    BY <1>3, <2>1 DEF TypeOK
  <2> QED BY <2>1, <2>2 DEF InMailbox
<1> QED BY <1>1, <1>2, <1>3

\* A request that is unhandled after a step was unhandled before.
LEMMA UnhandledBefore ==
  TypeOK /\ [Next]_vars => \A r \in Requests : Unhandled(r)' => Unhandled(r)
<1> SUFFICES ASSUME TypeOK, [Next]_vars, NEW r \in Requests, Unhandled(r)' PROVE Unhandled(r)
  OBVIOUS
<1> USE DEF Unhandled
<1>1. ASSUME UNCHANGED <<mailbox, outcome>> PROVE Unhandled(r)
  BY <1>1 DEF Unposted, InMailbox, Wrapped
<1>2. ASSUME mailbox' = <<Control("PostStart")>>, \A q \in Requests : Unposted(q)' => Unposted(q)
      PROVE  Unhandled(r)
  <2>1. ~InMailbox(r)'
    BY <1>2 DEF InMailbox, Wrapped, Control
  <2> QED BY <1>2, <2>1
<1>3. ASSUME NEW m \in Message, m # Wrapped(r), mailbox' = Append(mailbox, m),
             Unposted(r)' => Unposted(r)
      PROVE  Unhandled(r)
  BY <1>3, MailboxContents
<1>4. CASE SessionStep
  BY <1>4, EndsOfHandlers, MailboxContents DEF HandlerEnds
<1>5. CASE FireInit \/ FireTtl
  <2>1. PICK k \in Controls : mailbox' = Append(mailbox, Control(k)) /\ outcome' = outcome
    BY <1>5 DEF FireInit, FireTtl, Controls
  <2>2. Control(k) \in Message /\ Control(k) # Wrapped(r)
    BY MessagesMade DEF Controls, Control, Wrapped
  <2> QED BY <1>3, <2>1, <2>2 DEF Unposted
<1>6. CASE Tick \/ Reap \/ UNCHANGED vars
  BY <1>1, <1>6 DEF Tick, Reap, vars, sessionVars
<1>7. CASE Passivate
  <2>1. mailbox' = <<>> /\ (Unposted(r)' => Unposted(r))
    BY <1>7 DEF Passivate, Halt, Unposted
  <2> QED BY <2>1, MailboxContents
<1>8. ASSUME NEW q \in Requests, InitDemand(q) PROVE Unhandled(r)
  BY <1>8 DEF InitDemand, Unposted, TypeOK
<1>9. ASSUME NEW q \in Requests, Post(q) PROVE Unhandled(r)
  <2>1. CASE r = q
    BY <1>9, <2>1 DEF Post, Unposted
  <2>2. CASE r # q
    <3>1. outcome'[r] = outcome[r]
      BY <1>9, <2>2 DEF Post, TypeOK
    <3>2. Wrapped(q) \in Message /\ Wrapped(q) # Wrapped(r)
      BY <2>2, MessagesMade DEF Wrapped
    <3>3. CASE Running
      BY <1>3, <1>9, <3>1, <3>2, <3>3 DEF Post, Unposted
    <3>4. CASE ~Running
      BY <1>9, <3>1, <3>4 DEF Post, Unposted, InMailbox, Wrapped
    <3> QED BY <3>3, <3>4
  <2> QED BY <2>1, <2>2
<1>10. ASSUME NEW q \in Requests, AskTimeout(q) PROVE Unhandled(r)
  BY <1>10 DEF AskTimeout, sessionVars, TypeOK, Unposted, InMailbox, Wrapped
<1>11. ASSUME NEW c \in Conns, LookUp(c) \/ RegisterTimeout(c) \/ Disconnect(c) PROVE Unhandled(r)
  BY <1>1, <1>11 DEF LookUp, RegisterTimeout, Disconnect, sessionVars
<1>12. ASSUME NEW c \in Conns, SpawnSession(c) PROVE Unhandled(r)
  BY <1>1, <1>2, <1>12 DEF SpawnSession, Spawn, sessionVars, Unposted
<1>13. ASSUME NEW c \in Conns, Connect(c) PROVE Unhandled(r)
  <2>1. Register(c) \in Message /\ Register(c) # Wrapped(r)
    BY MessagesMade DEF Register, Wrapped
  <2> QED BY <1>1, <1>3, <1>13, <2>1 DEF Connect, Unposted
<1> QED BY <1>4, <1>5, <1>6, <1>7, <1>8, <1>9, <1>10, <1>11, <1>12, <1>13 DEF Next

\* A request that is executed is at the head of the mailbox and nowhere else.
LEMMA HeadOnce ==
  ASSUME TypeOK, AccountInv, NEW r \in Requests, mailbox # <<>>, Next1 = Wrapped(r)
  PROVE  /\ ~Unposted(r) /\ InMailbox(r)
         /\ ~\E i \in DOMAIN Tail(mailbox) : Tail(mailbox)[i] = Wrapped(r)
<1>1. 1 \in DOMAIN mailbox /\ mailbox[1] = Wrapped(r)
  BY DEF TypeOK, Next1
<1>2. RequestInv(r)
  BY DEF AccountInv
<1>3. InMailbox(r)
  BY <1>1 DEF InMailbox
<1>4. ~Unposted(r)
  BY <1>1, <1>2 DEF RequestInv, Unposted
<1>5. ASSUME NEW i \in DOMAIN Tail(mailbox), Tail(mailbox)[i] = Wrapped(r) PROVE FALSE
  <2>1. i + 1 \in DOMAIN mailbox /\ mailbox[i + 1] = Wrapped(r) /\ i + 1 # 1
    BY <1>5 DEF TypeOK
  <2> QED BY <1>1, <1>2, <2>1 DEF RequestInv
<1> QED BY <1>3, <1>4, <1>5

\* The three ways a call ends.
Executing == ExecuteOk \/ ExecuteError \/ ExecutePanic

LEMMA ExecutingEnds ==
  ASSUME TypeOK, AccountInv, ServedInv, Executing
  PROVE  /\ Next1.of \in Requests /\ phase = "initialized" /\ Running /\ phase' = phase
         /\ executed[Next1.of] = 0 /\ executed' = [executed EXCEPT ![Next1.of] = 1]
         /\ \A r \in Requests : r = Next1.of => ~Unhandled(r)'
         /\ status' = status \/ status' \in {"stopped", "suspended"}
<1> PICK r : r = Next1.of
  OBVIOUS
<1>1. Calling(r) /\ phase' = phase /\ SessionStep
  BY DEF Executing, ExecuteOk, ExecuteError, ExecutePanic, SessionStep
<1>2. r \in Requests /\ Next1 = Wrapped(r) /\ mailbox # <<>> /\ phase = "initialized" /\ Running
  BY <1>1, HeadAndTail, MessageKinds DEF Calling, Handling
<1>3. ~Unposted(r) /\ InMailbox(r) /\ ~\E i \in DOMAIN Tail(mailbox) : Tail(mailbox)[i] = Wrapped(r)
  BY <1>2, HeadOnce
<1>4. executed[r] = 0 /\ executed' = [executed EXCEPT ![r] = 1]
  <2>1. executed[r] = 0
    BY <1>2, <1>3 DEF ServedInv, Unhandled
  <2>2. executed' = [executed EXCEPT ![r] = executed[r] + 1]
    BY <1>1 DEF Calling
  <2>3. 0 + 1 = 1
    OBVIOUS
  <2> QED BY <2>1, <2>2, <2>3
<1>5. HandlerEnds
  BY <1>1, EndsOfHandlers
<1>6. ~Unposted(r)'
  BY <1>2, <1>3, <1>5 DEF HandlerEnds, Unposted
<1>7. ~InMailbox(r)'
  BY <1>3, <1>5 DEF HandlerEnds, InMailbox, Wrapped
<1> QED BY <1>1, <1>2, <1>4, <1>5, <1>6, <1>7 DEF Unhandled, HandlerEnds

\* Every other step leaves executed alone.
LEMMA ExecutedKept == [Next]_vars => Executing \/ executed' = executed
<1> SUFFICES ASSUME [Next]_vars PROVE Executing \/ executed' = executed
  OBVIOUS
<1>1. CASE SessionStep
  BY <1>1 DEF SessionStep, Executing, HandlePostStart, ScheduleFails, HandleRegisterConnection,
     HandleInitialize, RejectUninitialized, FailAuth, HandleShutdown, HandleNotification,
     CleanupUninitialized, StartTtlTicker, HandleCheckSessionTTL, FinalCleanup, IgnoreInShutdown
<1>2. CASE FireInit \/ FireTtl \/ Tick \/ Reap \/ Passivate \/ UNCHANGED vars
  BY <1>2 DEF FireInit, FireTtl, Tick, Reap, Passivate, vars
<1>3. CASE \E r \in Requests : InitDemand(r) \/ Post(r) \/ AskTimeout(r)
  BY <1>3 DEF InitDemand, Post, AskTimeout
<1>4. CASE \E c \in Conns : LookUp(c) \/ SpawnSession(c) \/ Connect(c) \/ RegisterTimeout(c) \/ Disconnect(c)
  BY <1>4 DEF LookUp, SpawnSession, Connect, RegisterTimeout, Disconnect
<1> QED BY <1>1, <1>2, <1>3, <1>4 DEF Next

LEMMA ServedStep == TypeOK /\ AccountInv /\ ServedInv /\ [Next]_vars => ServedInv'
<1> SUFFICES ASSUME TypeOK, AccountInv, ServedInv, [Next]_vars, NEW r \in Requests, Unhandled(r)'
             PROVE  executed'[r] = 0
  BY DEF ServedInv
<1>1. executed[r] = 0
  BY UnhandledBefore DEF ServedInv
<1>2. CASE Executing
  <2>1. r # Next1.of
    BY <1>2, ExecutingEnds
  <2> QED BY <1>1, <1>2, <2>1, ExecutingEnds DEF TypeOK
<1> QED BY <1>1, <1>2, ExecutedKept

LEMMA ServedInvariant == Spec => []ServedInv
<1>1. Init => ServedInv
  BY DEF Init, ServedInv
<1> QED BY <1>1, ServedStep, TypeCorrect, AccountInvariant, PTL DEF Spec

-----------------------------------------------------------------------------
(* An answer is final.                                                     *)

\* What the session tells a sender of its request.
Verdicts == {"result", "error"}

\* Where a verdict comes from: the handler of the request, and a result only from
\* one that has one to give.
VerdictOf(r) ==
  \/ outcome'[r] = outcome[r] \/ outcome'[r] \notin Verdicts
  \/ /\ r = Next1.of /\ SessionStep /\ Handling("WrappedRequest")
     /\ outcome'[r] = "result" => HandleInitialize \/ HandleShutdown \/ ExecuteOk

\* The end of a session gives no verdict.
LEMMA HaltGivesNoVerdict ==
  ASSUME Fail(outcome) \/ Halt("stopped", outcome), NEW r \in Requests
  PROVE  outcome'[r] = outcome[r] \/ outcome'[r] = "lost"
  BY DEF Fail, Halt

\* sendResponse gives the answer to the request it is for, and to no other.
LEMMA SendResponseAnswers ==
  ASSUME TypeOK, NEW q, NEW answer, SendResponse(q, answer), NEW r \in Requests
  PROVE  outcome'[r] \in {outcome[r], "dropped", "lost"} \/ (r = q /\ outcome'[r] = answer)
<1> DEFINE answers == Answered(q, answer)
<1>1. answers[r] \in {outcome[r], "dropped"} \/ (r = q /\ answers[r] = answer)
  BY DEF Answered, TypeOK
<1>2. outcome'[r] \in {answers[r], "lost"}
  BY DEF SendResponse, Continue, Fail, Halt
<1> QED BY <1>1, <1>2

LEMMA VerdictStep == TypeOK /\ [Next]_vars => \A r \in Requests : VerdictOf(r)
<1> SUFFICES ASSUME TypeOK, [Next]_vars, NEW r \in Requests PROVE VerdictOf(r)
  OBVIOUS
<1> USE DEF VerdictOf, Verdicts
<1>1. CASE outcome' = outcome
  BY <1>1
<1>2. CASE ScheduleFails \/ FailAuth \/ ExecutePanic \/ CleanupUninitialized \/ FinalCleanup
             \/ Passivate
  BY <1>2, HaltGivesNoVerdict
     DEF ScheduleFails, FailAuth, ExecutePanic, CleanupUninitialized, FinalCleanup, Passivate
<1>3. CASE HandlePostStart \/ StartTtlTicker \/ HandleRegisterConnection
             \/ FireInit \/ FireTtl \/ Tick \/ Reap \/ UNCHANGED vars
  BY <1>1, <1>3 DEF HandlePostStart, StartTtlTicker, HandleRegisterConnection, Continue,
     FireInit, FireTtl, Tick, Reap, vars
<1>4. CASE HandleInitialize \/ HandleShutdown \/ ExecuteOk
  <2>1. Handling("WrappedRequest") /\ \E answer \in {"result", "error"} : SendResponse(Next1.of, answer)
    BY <1>4 DEF HandleInitialize, HandleShutdown, ExecuteOk, Calling
  <2> QED BY <1>4, <2>1, SendResponseAnswers DEF SessionStep
<1>5. CASE RejectUninitialized \/ ExecuteError
  <2>1. Handling("WrappedRequest") /\ SendResponse(Next1.of, "error")
    BY <1>5 DEF RejectUninitialized, ExecuteError, Calling
  <2> QED BY <1>5, <2>1, SendResponseAnswers DEF SessionStep
<1>6. CASE HandleCheckSessionTTL
  BY <1>6, HaltGivesNoVerdict DEF HandleCheckSessionTTL, Continue
<1>7. CASE HandleNotification
  BY <1>7 DEF HandleNotification, Continue, TypeOK
<1>8. CASE IgnoreInShutdown
  BY <1>8 DEF IgnoreInShutdown, Continue
<1>9. ASSUME NEW q \in Requests, InitDemand(q) \/ Post(q) \/ AskTimeout(q) PROVE VerdictOf(r)
  BY <1>9 DEF InitDemand, Post, AskTimeout, TypeOK
<1>10. ASSUME NEW c \in Conns, \/ LookUp(c) \/ SpawnSession(c) \/ Connect(c)
                               \/ RegisterTimeout(c) \/ Disconnect(c)
       PROVE  VerdictOf(r)
  BY <1>1, <1>10 DEF LookUp, SpawnSession, Connect, RegisterTimeout, Disconnect
<1> QED BY <1>2, <1>3, <1>4, <1>5, <1>6, <1>7, <1>8, <1>9, <1>10 DEF Next, SessionStep

\* A request that was answered is in no mailbox any more; this is what keeps it from
\* being executed later.
VerdictInv ==
  \A r \in Requests :
    /\ outcome[r] \in Verdicts => ~InMailbox(r)
    /\ r.method = "call" /\ outcome[r] = "result" => executed[r] = 1

\* Once handled, a request is not unhandled again, so that it is not executed again.
LEMMA VerdictStable ==
  TypeOK /\ AccountInv /\ ServedInv /\ VerdictInv /\ [Next]_vars => VerdictInv'
<1> SUFFICES ASSUME TypeOK, AccountInv, ServedInv, VerdictInv, [Next]_vars, NEW r \in Requests,
                    outcome'[r] \in Verdicts
             PROVE  /\ ~InMailbox(r)'
                    /\ r.method = "call" /\ outcome'[r] = "result" => executed'[r] = 1
  BY DEF VerdictInv, Verdicts
<1>1. CASE outcome'[r] = outcome[r]
  <2>1. ~InMailbox(r) /\ ~Unhandled(r)
    BY <1>1 DEF VerdictInv, Verdicts, Unhandled, Unposted
  <2>2. ~InMailbox(r)'
    BY <2>1, UnhandledBefore DEF Unhandled
  <2>3. executed'[r] = executed[r]
    <3>1. CASE Executing
      <4>1. Next1.of \in Requests /\ executed' = [executed EXCEPT ![Next1.of] = 1]
        BY <3>1, ExecutingEnds
      <4>2. Next1 = Wrapped(Next1.of) /\ mailbox # <<>>
        BY <3>1, HeadAndTail, MessageKinds
           DEF Executing, ExecuteOk, ExecuteError, ExecutePanic, Calling, Handling
      <4>3. Next1.of # r
        BY <2>1, <4>1, <4>2, HeadOnce
      <4> QED BY <4>1, <4>3 DEF TypeOK
    <3> QED BY <3>1, ExecutedKept
  <2> QED BY <1>1, <2>2, <2>3 DEF VerdictInv
<1>2. CASE /\ r = Next1.of /\ SessionStep /\ Handling("WrappedRequest")
           /\ outcome'[r] = "result" => HandleInitialize \/ HandleShutdown \/ ExecuteOk
  <2>1. Next1 = Wrapped(r) /\ mailbox # <<>>
    BY <1>2, HeadAndTail, MessageKinds DEF Handling
  <2>2. ~\E i \in DOMAIN Tail(mailbox) : Tail(mailbox)[i] = Wrapped(r)
    BY <2>1, HeadOnce
  <2>3. mailbox' = Tail(mailbox) \/ mailbox' = <<>>
    BY <1>2, EndsOfHandlers DEF HandlerEnds
  <2>4. ~InMailbox(r)'
    <3>1. CASE mailbox' = Tail(mailbox)
      BY <2>2, <3>1 DEF InMailbox, Wrapped
    <3> QED BY <2>3, <3>1, MailboxContents
  <2>5. ASSUME r.method = "call", outcome'[r] = "result" PROVE executed'[r] = 1
    <3>1. ExecuteOk
      BY <1>2, <2>5 DEF HandleInitialize, HandleShutdown
    <3>2. executed' = [executed EXCEPT ![r] = 1]
      BY <1>2, <3>1, ExecutingEnds DEF Executing
    <3> QED BY <3>2 DEF TypeOK
  <2> QED BY <2>4, <2>5
<1>3. VerdictOf(r)
  BY VerdictStep
<1> QED BY <1>1, <1>2, <1>3 DEF VerdictOf

\* Once a sender was given a result or an error its request is through: it has run
\* once if a call has a result, and it never runs (again), whatever times out, is
\* respawned or still waits (sendResponse, handleWrappedRequest*).
THEOREM AnswersFinal == Spec => []AnswersAreFinal
<1>1. Init => VerdictInv
  BY DEF Init, VerdictInv, Verdicts
<1>2. AccountInv /\ ServedInv /\ VerdictInv => AnswersAreFinal
  <2> SUFFICES ASSUME AccountInv, ServedInv, VerdictInv, NEW r \in Requests
               PROVE  /\ Told(r) \in {"result", "error"} => \A i \in DOMAIN mailbox : mailbox[i] # Wrapped(r)
                      /\ r.method = "call" /\ Told(r) = "result" => executed[r] = 1
                      /\ outcome[r] = "queued" => executed[r] = 0
    BY DEF AnswersAreFinal
  <2>1. Told(r) \in Verdicts => Told(r) = outcome[r]
    BY DEF Told, Verdicts
  <2>2. outcome[r] = "queued" => InMailbox(r)
    BY DEF AccountInv, RequestInv, InMailbox
  <2> QED BY <2>1, <2>2 DEF VerdictInv, Verdicts, InMailbox, ServedInv, Unhandled
<1> QED BY <1>1, <1>2, VerdictStable, TypeCorrect, AccountInvariant, ServedInvariant, PTL DEF Spec

-----------------------------------------------------------------------------
(* The steps of the session as steps of its lifecycle.                     *)

\* A step of the lifecycle, or none.
LifeStep == Lifecycle!Next \/ (Life' = Life /\ executed' = executed)

\* A running session is fresh, open or closing, and one that ends is dead.
LEMMA LifeOf ==
  ASSUME TypeOK
  PROVE  /\ Running => Life \in {"fresh", "open", "closing"}
         /\ Running /\ phase = "uninitialized" => Life = "fresh"
         /\ Running /\ phase = "initialized" => Life = "open"
         /\ Running /\ phase = "shutdown" => Life = "closing"
         /\ status \in {"stopped", "suspended"} => Life = "dead"
         /\ ~Running => Life \in {"none", "dead"}
  BY DEF Life, Running, TypeOK

\* A handler that leaves phase and executed alone continues or kills.
LEMMA GoOnOrDie ==
  ASSUME TypeOK, Running, phase' = phase, executed' = executed,
         status' = status \/ status' \in {"stopped", "suspended"}
  PROVE  LifeStep
<1>1. CASE status' = status
  BY <1>1 DEF LifeStep, Life
<1>2. CASE status' \in {"stopped", "suspended"}
  <2>1. Life' = "dead"
    BY <1>2 DEF Life
  <2> QED BY <2>1, LifeOf DEF LifeStep, Lifecycle!Next, Lifecycle!Die
<1> QED BY <1>1, <1>2

\* Spawning a session that is not listed creates a fresh one.
LEMMA SpawnCreates ==
  ASSUME TypeOK, ~Running, Spawn, executed' = executed
  PROVE  LifeStep
<1>1. Life' = "fresh"
  BY DEF Life, Spawn
<1> QED BY <1>1, LifeOf DEF LifeStep, Lifecycle!Next, Lifecycle!Create

\* A handler that changes the phase moves the lifecycle, or the answer it could not
\* deliver kills the session.
LEMMA PhaseMoves ==
  ASSUME TypeOK, Running, executed' = executed,
         status' = status \/ status' \in {"stopped", "suspended"},
         \/ phase \in {"uninitialized", "initialized"} /\ phase' = "initialized"
         \/ phase = "initialized" /\ phase' = "shutdown"
  PROVE  LifeStep
<1>1. CASE status' \in {"stopped", "suspended"}
  <2>1. Life' = "dead"
    BY <1>1 DEF Life
  <2> QED BY <2>1, LifeOf DEF LifeStep, Lifecycle!Next, Lifecycle!Die
<1>2. CASE status' = status /\ phase = "uninitialized" /\ phase' = "initialized"
  <2>1. Life = "fresh" /\ Life' = "open"
    BY <1>2 DEF Life, Running
  <2> QED BY <2>1 DEF LifeStep, Lifecycle!Next, Lifecycle!Open
<1>3. CASE status' = status /\ phase = "initialized" /\ phase' = "initialized"
  BY <1>3 DEF LifeStep, Life
<1>4. CASE status' = status /\ phase = "initialized" /\ phase' = "shutdown"
  <2>1. Life = "open" /\ Life' = "closing"
    BY <1>4 DEF Life, Running
  <2> QED BY <2>1 DEF LifeStep, Lifecycle!Next, Lifecycle!Close
<1> QED BY <1>1, <1>2, <1>3, <1>4

\* Executing a request serves it.
LEMMA ExecutingServes ==
  ASSUME TypeOK, AccountInv, ServedInv, Executing
  PROVE  LifeStep
<1>1. PICK r \in Requests : r = Next1.of
  BY ExecutingEnds
<1>2. executed[r] = 0 /\ executed' = [executed EXCEPT ![r] = 1]
  BY <1>1, ExecutingEnds
<1>3. Life = "open" /\ Life' \in {"open", "dead"}
  BY ExecutingEnds DEF Life, Running
<1>4. Lifecycle!Serve(r)
  BY <1>2, <1>3 DEF Lifecycle!Serve
<1> QED BY <1>4 DEF LifeStep, Lifecycle!Next

\* Every step of the session is a step of its lifecycle, or none.
LEMMA StepImplements == TypeOK /\ AccountInv /\ ServedInv /\ [Next]_vars => LifeStep
<1> SUFFICES ASSUME TypeOK, AccountInv, ServedInv, [Next]_vars PROVE LifeStep
  OBVIOUS
<1>1. ASSUME UNCHANGED <<status, phase, executed>> PROVE LifeStep
  BY <1>1 DEF LifeStep, Life
<1>2. CASE Executing
  BY <1>2, ExecutingServes
<1>3. ASSUME SessionStep, ~Executing PROVE LifeStep
  <2>1. Running /\ (status' = status \/ status' \in {"stopped", "suspended"})
    BY <1>3, EndsOfHandlers DEF HandlerEnds
  <2>2. executed' = executed
    BY <1>3, ExecutedKept DEF Next
  <2>3. CASE HandleInitialize \/ HandleShutdown
    <3>1. \/ phase \in {"uninitialized", "initialized"} /\ phase' = "initialized"
          \/ phase = "initialized" /\ phase' = "shutdown"
      BY <2>3 DEF HandleInitialize, HandleShutdown, TypeOK
    <3> QED BY <2>1, <2>2, <3>1, PhaseMoves
  <2>4. CASE ~(HandleInitialize \/ HandleShutdown)
    <3>1. phase' = phase
      BY <1>3, <2>4 DEF SessionStep, Executing, HandlePostStart, ScheduleFails,
         HandleRegisterConnection, RejectUninitialized, FailAuth, HandleNotification,
         CleanupUninitialized, StartTtlTicker, HandleCheckSessionTTL, FinalCleanup, IgnoreInShutdown
    <3> QED BY <2>1, <2>2, <3>1, GoOnOrDie
  <2> QED BY <2>3, <2>4
<1>4. CASE Passivate
  BY <1>4, GoOnOrDie DEF Passivate, Halt
<1>5. CASE FireInit \/ FireTtl \/ Tick \/ Reap \/ UNCHANGED vars
  BY <1>1, <1>5 DEF FireInit, FireTtl, Tick, Reap, vars, sessionVars
<1>6. ASSUME NEW r \in Requests, InitDemand(r) PROVE LifeStep
  BY <1>6, SpawnCreates DEF InitDemand, Running
<1>7. ASSUME NEW r \in Requests, Post(r) \/ AskTimeout(r) PROVE LifeStep
  BY <1>1, <1>7 DEF Post, AskTimeout, sessionVars
<1>8. ASSUME NEW c \in Conns, SpawnSession(c) PROVE LifeStep
  <2>1. executed' = executed /\ ((Spawn /\ ~listed) \/ UNCHANGED sessionVars)
    BY <1>8 DEF SpawnSession
  <2>2. ~listed => ~Running
    BY DEF AccountInv, MailboxInv
  <2> QED BY <1>1, <2>1, <2>2, SpawnCreates DEF sessionVars
<1>9. ASSUME NEW c \in Conns, LookUp(c) \/ Connect(c) \/ RegisterTimeout(c) \/ Disconnect(c)
      PROVE  LifeStep
  BY <1>1, <1>9 DEF LookUp, Connect, RegisterTimeout, Disconnect, sessionVars
<1> QED BY <1>2, <1>3, <1>4, <1>5, <1>6, <1>7, <1>8, <1>9 DEF Next

\* The session keeps the promises of SessionLifecycle: calls run only while it is
\* open, each at most once over all incarnations, and it comes back only as a new
\* one (the states of mcp_session_state_machine.go, respawned by ensureSession).
THEOREM LifecycleImplemented == Spec => ImplementsLifecycle
<1>1. Init => Lifecycle!Init
  BY DEF Init, Lifecycle!Init, Life
<1>2. LifeStep => [Lifecycle!Next]_(Lifecycle!lifecycleVars)
  BY DEF LifeStep, Lifecycle!lifecycleVars
<1>3. TypeOK /\ AccountInv /\ ServedInv /\ [Next]_vars => [Lifecycle!Next]_(Lifecycle!lifecycleVars)
  BY <1>2, StepImplements
<1> QED
  BY <1>1, <1>3, TypeCorrect, AccountInvariant, ServedInvariant, PTL
  DEF Spec, ImplementsLifecycle, Lifecycle!Spec
=============================================================================
