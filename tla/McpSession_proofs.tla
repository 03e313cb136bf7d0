-------------------------- MODULE McpSession_proofs --------------------------
(***************************************************************************)
(* Proofs about McpSession, for every set of requests and streams, every   *)
(* timeout and every behaviour of the actor library.                       *)
(***************************************************************************)
EXTENDS McpSession, TLAPS

-----------------------------------------------------------------------------
(* The mailbox.                                                            *)

\* A message is told apart by its kind.
LEMMA MessageKinds ==
  ASSUME NEW m \in Message
  PROVE  /\ m.kind = "RegisterConnection" => m.of \in Conns /\ m = Register(m.of)
         /\ m.kind = "WrappedRequest" => m.of \in Requests /\ m = Wrapped(m.of)
         /\ m.kind \in Controls => m = Control(m.kind)
  BY DEF Message, Controls, Control, Register, Wrapped

\* The messages the actions append are messages.
LEMMA MessagesMade ==
  /\ \A k \in Controls : Control(k) \in Message
  /\ \A c \in Conns : Register(c) \in Message
  /\ \A r \in Requests : Wrapped(r) \in Message
  BY DEF Message

\* So are the mailboxes the actions make.
LEMMA MailboxesMade ==
  /\ <<>> \in Seq(Message) /\ <<Control("PostStart")>> \in Seq(Message)
  /\ TypeOK => \A m \in Message : Append(mailbox, m) \in Seq(Message)
  BY MessagesMade DEF TypeOK, Controls

\* Handling takes a message off a queue of messages.
LEMMA HeadAndTail ==
  ASSUME TypeOK, mailbox # <<>>
  PROVE  Next1 \in Message /\ Tail(mailbox) \in Seq(Message)
  BY DEF TypeOK, Next1

-----------------------------------------------------------------------------
(* Type correctness.                                                       *)

\* Ages and timers stay in their ranges.
LEMMA ClockTypes ==
  /\ 0 \in 0..Forgotten
  /\ {Off, InitializeTimeout} \subseteq Off..InitializeTimeout
  /\ {Off, CheckInterval} \subseteq Off..CheckInterval
  /\ \A age \in 0..Forgotten : Older(age) \in 0..Forgotten
  /\ \A t \in Off..InitializeTimeout : Sooner(t) \in Off..InitializeTimeout
  /\ \A t \in Off..CheckInterval : Sooner(t) \in Off..CheckInterval
  BY TimeAssumption DEF Off, Forgotten, CheckInterval, Older, Sooner

\* What the session produced for a request is an outcome.
LEMMA AnsweredType ==
  ASSUME TypeOK, NEW r \in Requests, NEW answer \in Outcomes
  PROVE  Answered(r, answer) \in [Requests -> Outcomes]
  BY DEF TypeOK, Answered, Outcomes

\* Ending a session leaves every variable it changes well typed.
LEMMA HaltType ==
  ASSUME TypeOK, NEW how \in {"stopped", "suspended"},
         NEW answers \in [Requests -> Outcomes], Halt(how, answers)
  PROVE  /\ status' \in {"stopped", "suspended"} /\ listed' \in BOOLEAN
         /\ mailbox' \in Seq(Message)
         /\ initTimer' \in Off..InitializeTimeout /\ ttlTimer' \in Off..CheckInterval
         /\ conn' \in [Conns -> ConnStates] /\ outcome' \in [Requests -> Outcomes]
  BY ClockTypes, MailboxesMade DEF TypeOK, Halt, ConnStates, Outcomes

\* Going on to the next message, likewise.
LEMMA ContinueType ==
  ASSUME TypeOK, mailbox # <<>>, NEW answers \in [Requests -> Outcomes], Continue(answers)
  PROVE  /\ status' = status /\ listed' = listed /\ conn' = conn
         /\ mailbox' \in Seq(Message) /\ outcome' \in [Requests -> Outcomes]
  BY HeadAndTail DEF Continue

\* Answering, with the session going on or not, likewise.
LEMMA SendResponseType ==
  ASSUME TypeOK, mailbox # <<>>, NEW r \in Requests, NEW answer \in Outcomes,
         SendResponse(r, answer)
  PROVE  /\ status' \in {status, "stopped", "suspended"} /\ listed' \in BOOLEAN
         /\ mailbox' \in Seq(Message)
         /\ initTimer' \in Off..InitializeTimeout /\ ttlTimer' \in Off..CheckInterval
         /\ conn' \in [Conns -> ConnStates] /\ outcome' \in [Requests -> Outcomes]
<1>1. Answered(r, answer) \in [Requests -> Outcomes]
  BY AnsweredType
<1>2. CASE Continue(Answered(r, answer)) /\ UNCHANGED <<initTimer, ttlTimer>>
  BY <1>1, <1>2, ContinueType DEF TypeOK
<1>3. CASE Fail(Answered(r, answer))
  <2>1. PICK how \in Supervision : Halt(how, Answered(r, answer))
    BY <1>3 DEF Fail
  <2>2. how \in {"stopped", "suspended"}
    BY LibraryAssumption
  <2> QED BY <1>1, <2>1, <2>2, HaltType
<1> QED BY <1>2, <1>3 DEF SendResponse

\* A failed handler, likewise.
LEMMA FailType ==
  ASSUME TypeOK, Fail(outcome)
  PROVE  /\ status' \in {"stopped", "suspended"} /\ listed' \in BOOLEAN
         /\ mailbox' \in Seq(Message)
         /\ initTimer' \in Off..InitializeTimeout /\ ttlTimer' \in Off..CheckInterval
         /\ conn' \in [Conns -> ConnStates] /\ outcome' \in [Requests -> Outcomes]
<1>1. PICK how \in Supervision : Halt(how, outcome)
  BY DEF Fail
<1>2. how \in {"stopped", "suspended"}
  BY LibraryAssumption
<1> QED BY <1>1, <1>2, HaltType DEF TypeOK

\* Every reachable state is well typed.
THEOREM TypeCorrect == Spec => []TypeOK
<1>1. Init => TypeOK
  <2> SUFFICES ASSUME Init PROVE TypeOK
    OBVIOUS
  <2>1. executed \in [Requests -> Nat] /\ conn \in [Conns -> ConnStates]
          /\ outcome \in [Requests -> Outcomes]
    BY DEF Init, ConnStates, Outcomes
  <2> QED BY <2>1, ClockTypes, MailboxesMade DEF Init, TypeOK
<1>2. TypeOK /\ [Next]_vars => TypeOK'
  <2> SUFFICES ASSUME TypeOK, [Next]_vars PROVE TypeOK'
    OBVIOUS
  <2> USE DEF sessionVars
  <2>1. CASE UNCHANGED vars
    BY <2>1 DEF vars, TypeOK
  <2>2. CASE HandlePostStart
    BY <2>2, ContinueType, ClockTypes DEF HandlePostStart, Handling, TypeOK
  <2>3. CASE ScheduleFails
    <3>1. idle' \in 0..Forgotten
      BY <2>3, ClockTypes DEF ScheduleFails, TypeOK
    <3>2. Fail(outcome) /\ UNCHANGED <<phase, version, registered, executed, sinceOk>>
      BY <2>3 DEF ScheduleFails
    <3> QED BY <3>1, <3>2, FailType DEF TypeOK
  <2>4. CASE HandleRegisterConnection
    <3>1. Next1.of \in Conns
      BY <2>4, HeadAndTail, MessageKinds DEF HandleRegisterConnection, Handling
    <3> QED BY <2>4, <3>1, HeadAndTail, ClockTypes
            DEF HandleRegisterConnection, Handling, TypeOK, ConnStates
  <2>5. CASE HandleInitialize
    <3>1. Next1.of \in Requests
      BY <2>5, HeadAndTail, MessageKinds DEF HandleInitialize, Handling
    <3>2. version' \in Versions \cup {NoVersion}
      BY <2>5, VersionsAssumption DEF HandleInitialize, Negotiate, TypeOK
    <3> QED BY <2>5, <3>1, <3>2, SendResponseType, ClockTypes
            DEF HandleInitialize, Handling, TypeOK, Outcomes
  <2>6. CASE RejectUninitialized
    <3>1. Next1.of \in Requests
      BY <2>6, HeadAndTail, MessageKinds DEF RejectUninitialized, Handling
    <3> QED BY <2>6, <3>1, SendResponseType DEF RejectUninitialized, Handling, TypeOK, Outcomes
  <2>7. CASE FailAuth
    BY <2>7, FailType DEF FailAuth, TypeOK
  <2>8. CASE HandleShutdown
    <3>1. Next1.of \in Requests
      BY <2>8, HeadAndTail, MessageKinds DEF HandleShutdown, Handling
    <3> QED BY <2>8, <3>1, SendResponseType DEF HandleShutdown, Handling, TypeOK, Outcomes
  <2>9. CASE HandleNotification
    <3> DEFINE answers == [outcome EXCEPT ![Next1.of] = IF @ = "queued" THEN "done" ELSE @]
    <3>1. answers \in [Requests -> Outcomes]
      BY DEF TypeOK, Outcomes
    <3> QED BY <2>9, <3>1, ContinueType, ClockTypes DEF HandleNotification, Handling, TypeOK
  <2>10. CASE ExecuteOk \/ ExecuteError
    <3>1. Next1.of \in Requests
      BY <2>10, HeadAndTail, MessageKinds DEF ExecuteOk, ExecuteError, Calling, Handling
    <3>2. executed' \in [Requests -> Nat]
      <4>1. Calling(Next1.of)
        BY <2>10 DEF ExecuteOk, ExecuteError
      <4> QED BY <3>1, <4>1 DEF Calling, TypeOK
    <3>3. mailbox # <<>>
      BY <2>10 DEF ExecuteOk, ExecuteError, Calling, Handling
    <3> QED BY <2>10, <3>1, <3>2, <3>3, SendResponseType, ClockTypes
            DEF ExecuteOk, ExecuteError, TypeOK, Outcomes
  <2>11. CASE ExecutePanic
    <3>1. Next1.of \in Requests
      BY <2>11, HeadAndTail, MessageKinds DEF ExecutePanic, Calling, Handling
    <3> QED BY <2>11, <3>1, FailType DEF ExecutePanic, Calling, Handling, TypeOK
  <2>12. CASE CleanupUninitialized \/ FinalCleanup \/ Passivate
    <3>1. Halt("stopped", outcome) \/ Fail(outcome)
      BY <2>12 DEF CleanupUninitialized, FinalCleanup, Passivate
    <3>2. outcome \in [Requests -> Outcomes]
      BY DEF TypeOK
    <3> QED BY <2>12, <3>1, <3>2, HaltType, FailType
            DEF CleanupUninitialized, FinalCleanup, Passivate, TypeOK
  <2>13. CASE StartTtlTicker
    BY <2>13, ContinueType, ClockTypes DEF StartTtlTicker, Handling, TypeOK
  <2>14. CASE HandleCheckSessionTTL
    BY <2>14, HaltType, ContinueType DEF HandleCheckSessionTTL, Handling, TypeOK
  <2>15. CASE IgnoreInShutdown
    <3> DEFINE answers == [r \in Requests |-> IF Next1 = Wrapped(r) /\ outcome[r] = "queued"
                                                THEN "ignored" ELSE outcome[r]]
    <3>1. answers \in [Requests -> Outcomes]
      BY DEF TypeOK, Outcomes
    <3> QED BY <2>15, <3>1, ContinueType DEF IgnoreInShutdown, TypeOK
  <2>16. CASE FireInit \/ FireTtl
    BY <2>16, MessagesMade, MailboxesMade, ClockTypes DEF FireInit, FireTtl, TypeOK, Controls
  <2>17. CASE Tick
    BY <2>17, ClockTypes DEF Tick, TypeOK
  <2>18. CASE Reap
    BY <2>18 DEF Reap, TypeOK
  <2>19. ASSUME NEW r \in Requests, InitDemand(r) PROVE TypeOK'
    BY <2>19, MessagesMade, MailboxesMade, ClockTypes
       DEF InitDemand, Spawn, TypeOK, Controls, Outcomes
  <2>20. ASSUME NEW r \in Requests, Post(r) PROVE TypeOK'
    BY <2>20, MessagesMade, MailboxesMade DEF Post, TypeOK, Outcomes
  <2>21. ASSUME NEW r \in Requests, AskTimeout(r) PROVE TypeOK'
    BY <2>21 DEF AskTimeout, TypeOK, Outcomes
  <2>22. ASSUME NEW c \in Conns, LookUp(c) \/ RegisterTimeout(c) \/ Disconnect(c) PROVE TypeOK'
    BY <2>22 DEF LookUp, RegisterTimeout, Disconnect, TypeOK, ConnStates
  <2>23. ASSUME NEW c \in Conns, SpawnSession(c) PROVE TypeOK'
    BY <2>23, MessagesMade, MailboxesMade, ClockTypes
       DEF SpawnSession, Spawn, TypeOK, Controls, ConnStates
  <2>24. ASSUME NEW c \in Conns, Connect(c) PROVE TypeOK'
    BY <2>24, MessagesMade, MailboxesMade DEF Connect, TypeOK, ConnStates
  <2> QED BY <2>1, <2>2, <2>3, <2>4, <2>5, <2>6, <2>7, <2>8, <2>9, <2>10, <2>11, <2>12, <2>13,
             <2>14, <2>15, <2>16, <2>17, <2>18, <2>19, <2>20, <2>21, <2>22, <2>23, <2>24
          DEF Next, SessionStep
<1> QED BY <1>1, <1>2, PTL DEF Spec

-----------------------------------------------------------------------------
(* A session always has its end in view.                                   *)

\* Taking a message of another kind leaves a waiting message waiting.
LEMMA WaitingAfterTail ==
  ASSUME TypeOK, mailbox # <<>>, mailbox' = Tail(mailbox),
         NEW k, Next1.kind # k, Waiting(k)
  PROVE  Waiting(k)'
<1>1. PICK i \in DOMAIN mailbox : mailbox[i].kind = k
  BY DEF Waiting
<1>2. i # 1
  BY <1>1 DEF Next1, TypeOK
<1>3. i - 1 \in DOMAIN Tail(mailbox) /\ Tail(mailbox)[i - 1] = mailbox[i]
  BY <1>2 DEF TypeOK
<1> QED BY <1>1, <1>3 DEF Waiting

\* Appending a message leaves waiting messages waiting, and makes it wait.
LEMMA WaitingAfterAppend ==
  ASSUME TypeOK, NEW m \in Message, mailbox' = Append(mailbox, m)
  PROVE  Waiting(m.kind)' /\ \A k : Waiting(k) => Waiting(k)'
<1>1. /\ Len(mailbox) + 1 \in DOMAIN mailbox' /\ mailbox'[Len(mailbox) + 1] = m
      /\ \A i \in DOMAIN mailbox : i \in DOMAIN mailbox' /\ mailbox'[i] = mailbox[i]
  BY DEF TypeOK
<1> QED BY <1>1 DEF Waiting

\* A running session that was not shut down has its own end in view.
CleanupPending == Running /\ phase # "shutdown" => EndInView

\* A handler of another kind of message that neither ends the session nor
\* touches the timers keeps the end in view.
LEMMA CleanupAfterContinue ==
  ASSUME TypeOK, CleanupPending, Running, phase # "shutdown", mailbox # <<>>,
         Next1.kind \notin {"PostStart", "TryCleanupIfUninitialized"},
         mailbox' = Tail(mailbox), UNCHANGED <<initTimer, ttlTimer>>
  PROVE  CleanupPending'
  BY WaitingAfterTail DEF CleanupPending, EndInView

\* A session that ended needs no end.
LEMMA NotRunningAfterHalt ==
  ASSUME NEW answers,
         \/ Fail(answers)
         \/ Halt("stopped", answers)
  PROVE  ~Running'
  BY LibraryAssumption DEF Fail, Halt, Running

\* Sending an answer, or failing to, keeps the cleanup of the session pending.
LEMMA CleanupAfterSendResponse ==
  ASSUME TypeOK, CleanupPending, Running, phase # "shutdown", mailbox # <<>>,
         Next1.kind = "WrappedRequest", NEW r, NEW answer, SendResponse(r, answer)
  PROVE  CleanupPending'
<1>1. CASE Continue(Answered(r, answer)) /\ UNCHANGED <<initTimer, ttlTimer>>
  BY <1>1, CleanupAfterContinue DEF Continue
<1>2. CASE Fail(Answered(r, answer))
  BY <1>2, NotRunningAfterHalt DEF CleanupPending
<1> QED BY <1>1, <1>2 DEF SendResponse

\* A running session that was not shut down always has a PostStart, a timer or a
\* cleanup message to come.
THEOREM CleanupAlwaysPending == Spec => []CleanupPending
<1>1. Init => CleanupPending
  BY DEF Init, CleanupPending, Running
<1>2. TypeOK /\ CleanupPending /\ [Next]_vars => CleanupPending'
  <2> SUFFICES ASSUME TypeOK, CleanupPending, [Next]_vars PROVE CleanupPending'
    OBVIOUS
  <2> USE DEF sessionVars
  <2>1. CASE UNCHANGED vars
    BY <2>1 DEF vars, CleanupPending, EndInView, Running, Waiting
  <2>2. CASE HandlePostStart
    BY <2>2, TimeAssumption DEF HandlePostStart, CleanupPending, EndInView, Off
  <2>3. CASE ScheduleFails \/ FailAuth \/ ExecutePanic
    BY <2>3, NotRunningAfterHalt DEF ScheduleFails, FailAuth, ExecutePanic, CleanupPending
  <2>4. CASE CleanupUninitialized \/ FinalCleanup \/ Passivate
    BY <2>4, NotRunningAfterHalt DEF CleanupUninitialized, FinalCleanup, Passivate, CleanupPending
  <2>5. CASE HandleRegisterConnection
    BY <2>5, CleanupAfterContinue DEF HandleRegisterConnection, Handling
  <2>6. CASE HandleInitialize
    BY <2>6, CleanupAfterSendResponse DEF HandleInitialize, Handling
  <2>7. CASE RejectUninitialized
    BY <2>7, CleanupAfterSendResponse DEF RejectUninitialized, Handling
  <2>8. CASE HandleShutdown
    BY <2>8 DEF HandleShutdown, CleanupPending
  <2>9. CASE HandleNotification
    BY <2>9, CleanupAfterContinue DEF HandleNotification, Handling, Continue
  <2>10. CASE ExecuteOk \/ ExecuteError
    BY <2>10, CleanupAfterSendResponse DEF ExecuteOk, ExecuteError, Calling, Handling
  <2>11. CASE StartTtlTicker
    BY <2>11, TimeAssumption DEF StartTtlTicker, CleanupPending, EndInView, CheckInterval, Off
  <2>12. CASE HandleCheckSessionTTL
    <3>1. CASE idle > SessionTTL
      BY <2>12, <3>1, NotRunningAfterHalt DEF HandleCheckSessionTTL, CleanupPending
    <3>2. CASE ~(idle > SessionTTL)
      BY <2>12, <3>2, CleanupAfterContinue DEF HandleCheckSessionTTL, Handling, Continue
    <3> QED BY <3>1, <3>2
  <2>13. CASE IgnoreInShutdown
    BY <2>13 DEF IgnoreInShutdown, CleanupPending
  <2>14. CASE FireInit
    <3>1. Control("TryCleanupIfUninitialized") \in Message
      BY MessagesMade DEF Controls
    <3> QED BY <2>14, <3>1, WaitingAfterAppend DEF FireInit, CleanupPending, EndInView, Control
  <2>15. CASE FireTtl
    BY <2>15, TimeAssumption DEF FireTtl, CleanupPending, EndInView, CheckInterval, Off
  <2>16. CASE Tick
    BY <2>16 DEF Tick, CleanupPending, EndInView, Running, Waiting, Sooner, TypeOK, Off
  <2>17. CASE Reap
    BY <2>17 DEF Reap, CleanupPending, Running
  <2>18. ASSUME NEW r \in Requests, Post(r) PROVE CleanupPending'
    <3>1. CASE Running
      <4>1. /\ Wrapped(r) \in Message /\ mailbox' = Append(mailbox, Wrapped(r))
            /\ UNCHANGED <<status, phase, initTimer, ttlTimer>>
        BY <2>18, <3>1, MessagesMade DEF Post
      <4> QED BY <4>1, <3>1, WaitingAfterAppend DEF CleanupPending, EndInView, Running
    <3>2. CASE ~Running
      BY <2>18, <3>2 DEF Post, CleanupPending, Running
    <3> QED BY <3>1, <3>2
  <2>19. ASSUME NEW r \in Requests, InitDemand(r) PROVE CleanupPending'
    BY <2>19 DEF InitDemand, Spawn, Control, CleanupPending, EndInView, Waiting
  <2>20. ASSUME NEW r \in Requests, AskTimeout(r) PROVE CleanupPending'
    BY <2>20 DEF AskTimeout, CleanupPending, EndInView, Running, Waiting
  <2>21. ASSUME NEW c \in Conns, LookUp(c) \/ RegisterTimeout(c) \/ Disconnect(c)
         PROVE  CleanupPending'
    BY <2>21 DEF LookUp, RegisterTimeout, Disconnect, CleanupPending, EndInView, Running, Waiting
  <2>22. ASSUME NEW c \in Conns, SpawnSession(c) PROVE CleanupPending'
    BY <2>22 DEF SpawnSession, Spawn, Control, CleanupPending, EndInView, Running, Waiting
  <2>23. ASSUME NEW c \in Conns, Connect(c) PROVE CleanupPending'
    <3>1. CASE Running
      <4>1. /\ Register(c) \in Message /\ mailbox' = Append(mailbox, Register(c))
            /\ UNCHANGED <<status, phase, initTimer, ttlTimer>>
        BY <2>23, <3>1, MessagesMade DEF Connect
      <4> QED BY <4>1, <3>1, WaitingAfterAppend DEF CleanupPending, EndInView, Running
    <3>2. CASE ~Running
      BY <2>23, <3>2 DEF Connect, CleanupPending, Running
    <3> QED BY <3>1, <3>2
  <2> QED BY <2>1, <2>2, <2>3, <2>4, <2>5, <2>6, <2>7, <2>8, <2>9, <2>10, <2>11, <2>12, <2>13,
             <2>14, <2>15, <2>16, <2>17, <2>18, <2>19, <2>20, <2>21, <2>22, <2>23
          DEF Next, SessionStep
<1> QED BY <1>1, <1>2, TypeCorrect, PTL DEF Spec

-----------------------------------------------------------------------------
(* The cleanup is scheduled once.                                          *)

\* A kind of message that waits once.
AtMostOnce(k) ==
  \A i, j \in DOMAIN mailbox : mailbox[i].kind = k /\ mailbox[j].kind = k => i = j

\* PostStart, the timer, its message and the ticker follow each other: while one
\* is there, those before it have been used up.
ScheduleInv ==
  /\ AtMostOnce("PostStart") /\ AtMostOnce("TryCleanupIfUninitialized")
  /\ Waiting("PostStart") => ~Waiting("TryCleanupIfUninitialized")
  /\ Waiting("PostStart") => initTimer = Off /\ ttlTimer = Off
  /\ Waiting("TryCleanupIfUninitialized") => initTimer = Off /\ ttlTimer = Off
  /\ initTimer # Off => ttlTimer = Off

\* Taking the head of the mailbox makes no message wait that did not, and takes
\* the only one of its kind.
LEMMA OnceAfterTail ==
  ASSUME TypeOK, mailbox # <<>>, mailbox' = Tail(mailbox), NEW k, AtMostOnce(k)
  PROVE  /\ AtMostOnce(k)'
         /\ Waiting(k)' => Waiting(k) /\ Next1.kind # k
<1>1. /\ DOMAIN mailbox' = 1..(Len(mailbox) - 1) /\ DOMAIN mailbox = 1..Len(mailbox)
      /\ Len(mailbox) \in Nat /\ 1 \in DOMAIN mailbox /\ Next1 = mailbox[1]
      /\ \A i \in DOMAIN mailbox' : mailbox'[i] = mailbox[i + 1]
  BY DEF TypeOK, Next1
<1>2. \A i \in DOMAIN mailbox' : i \in Nat /\ i + 1 \in DOMAIN mailbox /\ i + 1 # 1
  BY <1>1
<1>3. AtMostOnce(k)'
  BY <1>1, <1>2 DEF AtMostOnce
<1>4. ASSUME Waiting(k)' PROVE Waiting(k) /\ Next1.kind # k
  <2>1. PICK i \in DOMAIN mailbox' : mailbox[i + 1].kind = k
    BY <1>1, <1>4 DEF Waiting
  <2> QED
    BY <1>1, <1>2, <2>1 DEF Waiting, AtMostOnce
<1> QED
  BY <1>3, <1>4

\* Appending a message adds one of its kind and none of another.
LEMMA OnceAfterAppend ==
  ASSUME TypeOK, NEW m \in Message, mailbox' = Append(mailbox, m), NEW k, AtMostOnce(k),
         m.kind = k => ~Waiting(k)
  PROVE  /\ AtMostOnce(k)'
         /\ Waiting(k)' => Waiting(k) \/ m.kind = k
<1>1. /\ DOMAIN mailbox = 1..Len(mailbox) /\ Len(mailbox) \in Nat
      /\ DOMAIN mailbox' = 1..(Len(mailbox) + 1)
      /\ mailbox'[Len(mailbox) + 1] = m
      /\ \A i \in DOMAIN mailbox : mailbox'[i] = mailbox[i]
  BY DEF TypeOK
<1>2. \A i \in DOMAIN mailbox' : i \in DOMAIN mailbox \/ i = Len(mailbox) + 1
  BY <1>1
<1>3. AtMostOnce(k)'
  BY <1>1, <1>2 DEF AtMostOnce, Waiting
<1>4. Waiting(k)' => Waiting(k) \/ m.kind = k
  BY <1>1, <1>2 DEF Waiting
<1> QED
  BY <1>3, <1>4

\* A session that ends, and one that starts, has nothing scheduled.
LEMMA ScheduleAfterHalt ==
  ASSUME NEW answers, Fail(answers) \/ Halt("stopped", answers)
  PROVE  ScheduleInv'
<1>1. mailbox' = <<>> /\ initTimer' = Off /\ ttlTimer' = Off
  BY DEF Fail, Halt
<1> QED
  BY <1>1 DEF ScheduleInv, AtMostOnce, Waiting

LEMMA ScheduleAfterSpawn ==
  ASSUME Spawn PROVE ScheduleInv'
<1>1. mailbox' = <<Control("PostStart")>> /\ initTimer' = Off /\ ttlTimer' = Off
  BY DEF Spawn
<1>2. \A i \in DOMAIN mailbox' : i = 1 /\ mailbox'[i].kind = "PostStart"
  BY <1>1 DEF Control
<1> QED
  BY <1>1, <1>2 DEF ScheduleInv, AtMostOnce, Waiting

\* Handling any message without setting a timer keeps the schedule.
LEMMA ScheduleAfterTail ==
  ASSUME TypeOK, ScheduleInv, mailbox # <<>>, mailbox' = Tail(mailbox),
         UNCHANGED <<initTimer, ttlTimer>>
  PROVE  ScheduleInv'
  BY OnceAfterTail DEF ScheduleInv

\* So does posting a message that has nothing to do with it.
LEMMA ScheduleAfterAppend ==
  ASSUME TypeOK, ScheduleInv, NEW m \in Message, mailbox' = Append(mailbox, m),
         m.kind \notin {"PostStart", "TryCleanupIfUninitialized"},
         UNCHANGED <<initTimer, ttlTimer>>
  PROVE  ScheduleInv'
  BY OnceAfterAppend DEF ScheduleInv

\* So does an answer.
LEMMA ScheduleAfterSendResponse ==
  ASSUME TypeOK, ScheduleInv, mailbox # <<>>, NEW r, NEW answer, SendResponse(r, answer)
  PROVE  ScheduleInv'
<1>1. CASE Continue(Answered(r, answer)) /\ UNCHANGED <<initTimer, ttlTimer>>
  BY <1>1, ScheduleAfterTail DEF Continue
<1>2. CASE Fail(Answered(r, answer))
  BY <1>2, ScheduleAfterHalt
<1> QED
  BY <1>1, <1>2 DEF SendResponse

LEMMA ScheduleStep == TypeOK /\ ScheduleInv /\ [Next]_vars => ScheduleInv'
<1> SUFFICES ASSUME TypeOK, ScheduleInv, [Next]_vars PROVE ScheduleInv'
  OBVIOUS
<1> USE DEF sessionVars
<1>0. ASSUME UNCHANGED <<mailbox, initTimer, ttlTimer>> PROVE ScheduleInv'
  BY <1>0 DEF ScheduleInv, AtMostOnce, Waiting
<1>1. CASE UNCHANGED vars
  BY <1>0, <1>1 DEF vars
<1>2. CASE HandlePostStart
  <2>1. ScheduleInv /\ mailbox # <<>> /\ mailbox' = Tail(mailbox)
          /\ Next1.kind = "PostStart"
    BY <1>2 DEF HandlePostStart, Handling, Continue
  <2>2. Waiting("PostStart")
    BY <2>1 DEF Waiting, Next1, TypeOK
  <2>3. ~Waiting("PostStart")' /\ ~Waiting("TryCleanupIfUninitialized")'
    BY <2>1, <2>2, OnceAfterTail DEF ScheduleInv
  <2>4. ttlTimer' = Off
    BY <1>2, <2>2 DEF HandlePostStart, ScheduleInv
  <2> QED
    BY <2>1, <2>3, <2>4, OnceAfterTail DEF ScheduleInv
<1>3. CASE StartTtlTicker
  <2>1. mailbox # <<>> /\ mailbox' = Tail(mailbox)
          /\ Next1.kind = "TryCleanupIfUninitialized"
    BY <1>3 DEF StartTtlTicker, Handling, Continue
  <2>2. Waiting("TryCleanupIfUninitialized")
    BY <2>1 DEF Waiting, Next1, TypeOK
  <2>3. ~Waiting("PostStart")' /\ ~Waiting("TryCleanupIfUninitialized")'
    BY <2>1, <2>2, OnceAfterTail DEF ScheduleInv
  <2>4. initTimer' = Off
    BY <1>3, <2>2 DEF StartTtlTicker, ScheduleInv
  <2> QED
    BY <2>1, <2>3, <2>4, OnceAfterTail DEF ScheduleInv
<1>4. CASE FireInit
  <2>1. /\ mailbox' = Append(mailbox, Control("TryCleanupIfUninitialized"))
        /\ initTimer # Off /\ initTimer' = Off /\ ttlTimer' = ttlTimer
    BY <1>4 DEF FireInit, Off
  <2>2. /\ Control("TryCleanupIfUninitialized") \in Message
        /\ Control("TryCleanupIfUninitialized").kind = "TryCleanupIfUninitialized"
    BY MessagesMade DEF Controls, Control
  <2>3. ~Waiting("PostStart") /\ ~Waiting("TryCleanupIfUninitialized") /\ ttlTimer = Off
    BY <2>1 DEF ScheduleInv
  <2>4. AtMostOnce("PostStart")' /\ ~Waiting("PostStart")'
    BY <2>1, <2>2, <2>3, OnceAfterAppend DEF ScheduleInv
  <2>5. AtMostOnce("TryCleanupIfUninitialized")'
    BY <2>1, <2>2, <2>3, OnceAfterAppend DEF ScheduleInv
  <2> QED
    BY <2>1, <2>3, <2>4, <2>5 DEF ScheduleInv
<1>5. CASE FireTtl
  <2>1. /\ mailbox' = Append(mailbox, Control("CheckSessionTTL"))
        /\ ttlTimer # Off /\ initTimer' = initTimer
    BY <1>5 DEF FireTtl, Off
  <2>2. /\ Control("CheckSessionTTL") \in Message
        /\ Control("CheckSessionTTL").kind = "CheckSessionTTL"
    BY MessagesMade DEF Controls, Control
  <2>3. ~Waiting("PostStart") /\ ~Waiting("TryCleanupIfUninitialized") /\ initTimer = Off
    BY <2>1 DEF ScheduleInv
  <2>4. /\ AtMostOnce("PostStart")' /\ ~Waiting("PostStart")'
        /\ AtMostOnce("TryCleanupIfUninitialized")' /\ ~Waiting("TryCleanupIfUninitialized")'
    BY <2>1, <2>2, <2>3, OnceAfterAppend DEF ScheduleInv
  <2> QED
    BY <2>1, <2>3, <2>4 DEF ScheduleInv
<1>6. CASE Tick
  <2>1. /\ initTimer = Off <=> initTimer' = Off
        /\ ttlTimer = Off <=> ttlTimer' = Off
        /\ mailbox' = mailbox
    BY <1>6, TimeAssumption DEF Tick, Sooner, TypeOK, Off, CheckInterval
  <2> QED
    BY <2>1 DEF ScheduleInv, AtMostOnce, Waiting
<1>7. CASE ScheduleFails \/ FailAuth \/ ExecutePanic \/ CleanupUninitialized
             \/ FinalCleanup \/ Passivate
  BY <1>7, ScheduleAfterHalt
     DEF ScheduleFails, FailAuth, ExecutePanic, CleanupUninitialized, FinalCleanup, Passivate
<1>8. CASE HandleRegisterConnection \/ HandleNotification \/ IgnoreInShutdown
  BY <1>8, ScheduleAfterTail
     DEF HandleRegisterConnection, HandleNotification, IgnoreInShutdown, Handling, Continue
<1>9. CASE HandleInitialize \/ RejectUninitialized \/ HandleShutdown
  BY <1>9, ScheduleAfterSendResponse
     DEF HandleInitialize, RejectUninitialized, HandleShutdown, Handling
<1>10. CASE ExecuteOk \/ ExecuteError
  BY <1>10, ScheduleAfterSendResponse DEF ExecuteOk, ExecuteError, Calling, Handling
<1>11. CASE HandleCheckSessionTTL
  <2>1. CASE Halt("stopped", outcome)
    BY <2>1, ScheduleAfterHalt
  <2>2. CASE Continue(outcome) /\ UNCHANGED <<initTimer, ttlTimer>>
    BY <1>11, <2>2, ScheduleAfterTail DEF HandleCheckSessionTTL, Handling, Continue
  <2> QED
    BY <1>11, <2>1, <2>2 DEF HandleCheckSessionTTL
<1>12. CASE Reap
  BY <1>0, <1>12 DEF Reap
<1>13. ASSUME NEW r \in Requests, InitDemand(r) \/ AskTimeout(r) PROVE ScheduleInv'
  BY <1>0, <1>13, ScheduleAfterSpawn DEF InitDemand, AskTimeout
<1>14. ASSUME NEW r \in Requests, Post(r) PROVE ScheduleInv'
  <2>1. Wrapped(r) \in Message /\ Wrapped(r).kind = "WrappedRequest"
    BY MessagesMade DEF Wrapped
  <2>2. CASE Running
    BY <1>14, <2>1, <2>2, ScheduleAfterAppend DEF Post
  <2>3. CASE ~Running
    BY <1>0, <1>14, <2>3 DEF Post
  <2> QED
    BY <2>2, <2>3
<1>15. ASSUME NEW c \in Conns, LookUp(c) \/ RegisterTimeout(c) \/ Disconnect(c)
       PROVE  ScheduleInv'
  BY <1>0, <1>15 DEF LookUp, RegisterTimeout, Disconnect
<1>16. ASSUME NEW c \in Conns, SpawnSession(c) PROVE ScheduleInv'
  BY <1>0, <1>16, ScheduleAfterSpawn DEF SpawnSession
<1>17. ASSUME NEW c \in Conns, Connect(c) PROVE ScheduleInv'
  <2>1. Register(c) \in Message /\ Register(c).kind = "RegisterConnection"
    BY MessagesMade DEF Register
  <2>2. CASE Running
    BY <1>17, <2>1, <2>2, ScheduleAfterAppend DEF Connect
  <2>3. CASE ~Running
    BY <1>0, <1>17, <2>3 DEF Connect
  <2> QED
    BY <2>2, <2>3
<1> QED
  BY <1>1, <1>2, <1>3, <1>4, <1>5, <1>6, <1>7, <1>8, <1>9, <1>10, <1>11, <1>12, <1>13, <1>14,
     <1>15, <1>16, <1>17
  DEF Next, SessionStep

LEMMA ScheduleInvariant == Spec => []ScheduleInv
<1>1. Init => ScheduleInv
  BY DEF Init, ScheduleInv, AtMostOnce, Waiting
<1> QED
  BY <1>1, ScheduleStep, TypeCorrect, PTL DEF Spec

\* The TTL ticker of a session starts at most once (handleTryCleanupInitialized).
THEOREM ScheduledOnce == Spec => []SingleSchedule
<1>1. ScheduleInv => SingleSchedule
  BY DEF ScheduleInv, SingleSchedule, AtMostOnce
<1> QED
  BY <1>1, ScheduleInvariant, PTL

-----------------------------------------------------------------------------
(* Every accepted request lies in the mailbox.                             *)

\* Only a running session has a mailbox, and it is listed.
MailboxInv == (Running => listed) /\ (~Running => mailbox = <<>>)

\* A request is in the mailbox at most once, and only after it was posted; one
\* that waits for its turn is there.
RequestInv(r) ==
  /\ \A i, j \in DOMAIN mailbox : mailbox[i] = Wrapped(r) /\ mailbox[j] = Wrapped(r) => i = j
  /\ (\E i \in DOMAIN mailbox : mailbox[i] = Wrapped(r)) => outcome[r] \notin {"unsent", "spawned"}
  /\ outcome[r] = "queued" => \E i \in DOMAIN mailbox : mailbox[i] = Wrapped(r)

AccountInv == MailboxInv /\ \A r \in Requests : RequestInv(r)

\* A session that ends loses what was queued.
LEMMA AccountAfterHalt ==
  ASSUME TypeOK, NEW answers \in [Requests -> Outcomes], AccountInv, Running,
         Fail(answers) \/ Halt("stopped", answers)
  PROVE  AccountInv'
<1>1. PICK how : Halt(how, answers) /\ how \in {"stopped", "suspended"}
  BY LibraryAssumption DEF Fail
<1>2. /\ mailbox' = <<>> /\ status' \in {"stopped", "suspended"}
      /\ \A r \in Requests : outcome'[r] # "queued"
  BY <1>1 DEF Halt
<1> QED
  BY <1>2 DEF AccountInv, MailboxInv, RequestInv, Running

\* A session that starts has only its PostStart: those that were spawned before it
\* had ended, with nothing left in their mailboxes.
LEMMA AccountAfterSpawn ==
  ASSUME AccountInv, Spawn, ~Running,
         \A r \in Requests : outcome[r] # "queued" => outcome'[r] # "queued"
  PROVE  AccountInv'
<1>1. mailbox' = <<Control("PostStart")>> /\ status' = "running" /\ listed'
  BY DEF Spawn
<1>2. \A r : Control("PostStart") # Wrapped(r)
  BY DEF Control, Wrapped
<1>3. \A i \in DOMAIN mailbox' : mailbox'[i] = Control("PostStart")
  BY <1>1
<1>4. \A r \in Requests : outcome'[r] # "queued"
  BY DEF AccountInv, MailboxInv, RequestInv
<1> QED
  BY <1>1, <1>2, <1>3, <1>4 DEF AccountInv, MailboxInv, RequestInv, Running

\* Taking the head of the mailbox is right when the request it holds no longer
\* waits, and no request is posted.
LEMMA AccountAfterTail ==
  ASSUME TypeOK, AccountInv, Running, mailbox # <<>>, mailbox' = Tail(mailbox),
         UNCHANGED <<status, listed>>,
         \A r \in Requests : outcome'[r] = outcome[r] \/ outcome'[r] \notin {"unsent", "spawned", "queued"},
         \A r \in Requests : Next1 = Wrapped(r) => outcome'[r] # "queued"
  PROVE  AccountInv'
<1>1. /\ DOMAIN mailbox' = 1..(Len(mailbox) - 1) /\ DOMAIN mailbox = 1..Len(mailbox)
      /\ Len(mailbox) \in Nat /\ 1 \in DOMAIN mailbox /\ Next1 = mailbox[1]
      /\ \A i \in DOMAIN mailbox' : mailbox'[i] = mailbox[i + 1]
  BY DEF TypeOK, Next1
<1>2. \A i \in DOMAIN mailbox' : i \in Nat /\ i + 1 \in DOMAIN mailbox /\ i + 1 # 1
  BY <1>1
<1>3. \A i \in DOMAIN mailbox : i # 1 => i - 1 \in DOMAIN mailbox' /\ mailbox'[i - 1] = mailbox[i]
  BY <1>1
<1>4. ASSUME NEW r \in Requests PROVE RequestInv(r)'
  <2>1. RequestInv(r)
    BY DEF AccountInv
  <2>2. \A i, j \in DOMAIN mailbox' :
          mailbox'[i] = Wrapped(r) /\ mailbox'[j] = Wrapped(r) => i = j
    BY <1>1, <1>2, <2>1 DEF RequestInv
  <2>3. (\E i \in DOMAIN mailbox' : mailbox'[i] = Wrapped(r))
          => outcome'[r] \notin {"unsent", "spawned"}
    BY <1>1, <1>2, <2>1 DEF RequestInv
  <2>4. outcome'[r] = "queued" => \E i \in DOMAIN mailbox' : mailbox'[i] = Wrapped(r)
    <3> SUFFICES ASSUME outcome'[r] = "queued" PROVE \E i \in DOMAIN mailbox' : mailbox'[i] = Wrapped(r)
      OBVIOUS
    <3>1. PICK i \in DOMAIN mailbox : mailbox[i] = Wrapped(r)
      BY <2>1 DEF RequestInv
    <3>2. i # 1
      BY <1>1, <3>1
    <3> QED
      BY <1>3, <3>1, <3>2
  <2>5. Wrapped(r)' = Wrapped(r)
    BY DEF Wrapped
  <2> QED
    BY <2>2, <2>3, <2>4, <2>5 DEF RequestInv
<1> QED
  BY <1>4 DEF AccountInv, MailboxInv, Running

\* An answer takes the request at the head off the mailbox and tells its handler.
LEMMA AccountAfterSendResponse ==
  ASSUME TypeOK, AccountInv, Handling("WrappedRequest"), NEW answer \in {"result", "error"},
         SendResponse(Next1.of, answer)
  PROVE  AccountInv'
<1>1. mailbox # <<>> /\ Running /\ Next1.of \in Requests /\ Next1 = Wrapped(Next1.of)
  BY HeadAndTail, MessageKinds DEF Handling
<1> DEFINE answers == Answered(Next1.of, answer)
<1>2. /\ answers \in [Requests -> Outcomes]
      /\ \A r \in Requests : answers[r] = outcome[r] \/ answers[r] \notin {"unsent", "spawned", "queued"}
      /\ answers[Next1.of] # "queued"
  BY <1>1 DEF Answered, TypeOK, Outcomes
<1>3. \A r \in Requests : Next1 = Wrapped(r) => r = Next1.of
  BY DEF Wrapped
<1>4. CASE Continue(answers)
  <2>1. mailbox' = Tail(mailbox) /\ outcome' = answers /\ UNCHANGED <<status, listed>>
    BY <1>4 DEF Continue
  <2> QED
    BY <1>1, <1>2, <1>3, <2>1, AccountAfterTail
<1>5. CASE Fail(answers)
  BY <1>1, <1>2, <1>5, AccountAfterHalt
<1> QED
  BY <1>4, <1>5 DEF SendResponse

\* A message that holds no request is taken.
LEMMA AccountAfterControl ==
  ASSUME TypeOK, AccountInv, Running, mailbox # <<>>, Next1.kind # "WrappedRequest",
         mailbox' = Tail(mailbox), UNCHANGED <<status, listed, outcome>>
  PROVE  AccountInv'
<1>1. \A r : Next1 # Wrapped(r)
  BY DEF Wrapped
<1> QED
  BY <1>1, AccountAfterTail

\* A message that holds no request arrives.
LEMMA AccountAfterAppend ==
  ASSUME TypeOK, AccountInv, Running, NEW m \in Message, m.kind # "WrappedRequest",
         mailbox' = Append(mailbox, m), UNCHANGED <<status, listed, outcome>>
  PROVE  AccountInv'
<1>1. /\ DOMAIN mailbox = 1..Len(mailbox) /\ Len(mailbox) \in Nat
      /\ DOMAIN mailbox' = 1..(Len(mailbox) + 1)
      /\ mailbox'[Len(mailbox) + 1] = m
      /\ \A i \in DOMAIN mailbox : i \in DOMAIN mailbox' /\ mailbox'[i] = mailbox[i]
  BY DEF TypeOK
<1>2. \A i \in DOMAIN mailbox' : i \in DOMAIN mailbox \/ i = Len(mailbox) + 1
  BY <1>1
<1>3. \A r : m # Wrapped(r) /\ Wrapped(r)' = Wrapped(r)
  BY DEF Wrapped
<1>4. ASSUME NEW r \in Requests PROVE RequestInv(r)'
  BY <1>1, <1>2, <1>3 DEF AccountInv, RequestInv
<1> QED
  BY <1>4 DEF AccountInv, MailboxInv, Running

\* A request arrives: it was in no mailbox before.
LEMMA AccountAfterPost ==
  ASSUME TypeOK, AccountInv, NEW r \in Requests, Post(r)
  PROVE  AccountInv'
<1>1. outcome[r] \in {"unsent", "spawned"} /\ UNCHANGED <<status, listed>>
  BY DEF Post
<1>2. \A i \in DOMAIN mailbox : mailbox[i] # Wrapped(r)
  BY <1>1 DEF AccountInv, RequestInv
<1>3. \A q : Wrapped(q)' = Wrapped(q)
  BY DEF Wrapped
<1>4. CASE Running
  <2>1. /\ mailbox' = Append(mailbox, Wrapped(r))
        /\ outcome' = [outcome EXCEPT ![r] = "queued"]
    BY <1>4 DEF Post
  <2>2. /\ DOMAIN mailbox = 1..Len(mailbox) /\ Len(mailbox) \in Nat
        /\ DOMAIN mailbox' = 1..(Len(mailbox) + 1)
        /\ mailbox'[Len(mailbox) + 1] = Wrapped(r)
        /\ \A i \in DOMAIN mailbox : i \in DOMAIN mailbox' /\ mailbox'[i] = mailbox[i]
    BY <2>1, MessagesMade DEF TypeOK
  <2>3. \A i \in DOMAIN mailbox' : i \in DOMAIN mailbox \/ i = Len(mailbox) + 1
    BY <2>2
  <2>4. outcome'[r] = "queued" /\ \A q \in Requests \ {r} : outcome'[q] = outcome[q]
    BY <2>1 DEF TypeOK
  <2>5. RequestInv(r)'
    BY <1>2, <1>3, <2>2, <2>3, <2>4 DEF RequestInv
  <2>6. ASSUME NEW q \in Requests \ {r} PROVE RequestInv(q)'
    <3>1. Wrapped(q) # Wrapped(r)
      BY DEF Wrapped
    <3> QED
      BY <1>3, <2>2, <2>3, <2>4, <3>1 DEF AccountInv, RequestInv
  <2> QED
    BY <1>1, <1>4, <2>5, <2>6 DEF AccountInv, MailboxInv, Running
<1>5. CASE ~Running
  <2>1. mailbox = <<>> /\ mailbox' = <<>> /\ outcome' = [outcome EXCEPT ![r] = "refused"]
    BY <1>5 DEF Post, AccountInv, MailboxInv
  <2>2. \A q \in Requests : outcome'[q] # "queued"
    BY <2>1 DEF AccountInv, RequestInv, TypeOK
  <2> QED
    BY <1>1, <1>5, <2>1, <2>2 DEF AccountInv, MailboxInv, RequestInv, Running
<1> QED
  BY <1>4, <1>5

LEMMA AccountStep == TypeOK /\ AccountInv /\ [Next]_vars => AccountInv'
<1> SUFFICES ASSUME TypeOK, AccountInv, [Next]_vars PROVE AccountInv'
  OBVIOUS
<1> USE DEF sessionVars
<1>a. outcome \in [Requests -> Outcomes]
  BY DEF TypeOK
<1>0. ASSUME UNCHANGED <<status, listed, mailbox, outcome>> PROVE AccountInv'
  BY <1>0 DEF AccountInv, MailboxInv, RequestInv, Running, Wrapped
<1>1. CASE UNCHANGED vars
  BY <1>0, <1>1 DEF vars
<1>2. CASE HandlePostStart \/ StartTtlTicker \/ HandleRegisterConnection
  BY <1>2, AccountAfterControl
     DEF HandlePostStart, StartTtlTicker, HandleRegisterConnection, Handling, Continue
<1>3. CASE FireInit \/ FireTtl
  <2>1. PICK k \in Controls : Running /\ mailbox' = Append(mailbox, Control(k))
                                /\ UNCHANGED <<status, listed, outcome>>
    BY <1>3 DEF FireInit, FireTtl, Controls
  <2>2. Control(k) \in Message /\ Control(k).kind # "WrappedRequest"
    BY MessagesMade DEF Controls, Control
  <2> QED
    BY <2>1, <2>2, AccountAfterAppend
<1>4. CASE ScheduleFails \/ FailAuth \/ ExecutePanic
  BY <1>a, <1>4, AccountAfterHalt DEF ScheduleFails, FailAuth, ExecutePanic, Calling, Handling
<1>5. CASE CleanupUninitialized \/ FinalCleanup \/ Passivate
  BY <1>a, <1>5, AccountAfterHalt DEF CleanupUninitialized, FinalCleanup, Passivate, Handling
<1>6. CASE HandleInitialize \/ RejectUninitialized \/ HandleShutdown
  BY <1>6, AccountAfterSendResponse DEF HandleInitialize, RejectUninitialized, HandleShutdown
<1>7. CASE ExecuteOk \/ ExecuteError
  BY <1>7, AccountAfterSendResponse DEF ExecuteOk, ExecuteError, Calling
<1>8. CASE HandleNotification
  <2>1. /\ Running /\ mailbox # <<>> /\ mailbox' = Tail(mailbox) /\ UNCHANGED <<status, listed>>
        /\ outcome' = [outcome EXCEPT ![Next1.of] = IF @ = "queued" THEN "done" ELSE @]
    BY <1>8 DEF HandleNotification, Handling, Continue
  <2>2. Next1.of \in Requests /\ \A r : Next1 = Wrapped(r) => r = Next1.of
    BY <1>8, HeadAndTail, MessageKinds DEF HandleNotification, Handling, Wrapped
  <2> QED
    BY <1>a, <2>1, <2>2, AccountAfterTail
<1>9. CASE HandleCheckSessionTTL
  <2>1. CASE Halt("stopped", outcome)
    BY <1>a, <1>9, <2>1, AccountAfterHalt DEF HandleCheckSessionTTL, Handling
  <2>2. CASE Continue(outcome)
    BY <1>9, <2>2, AccountAfterControl DEF HandleCheckSessionTTL, Handling, Continue
  <2> QED
    BY <1>9, <2>1, <2>2 DEF HandleCheckSessionTTL
<1>10. CASE IgnoreInShutdown
  <2>1. /\ Running /\ mailbox # <<>> /\ mailbox' = Tail(mailbox) /\ UNCHANGED <<status, listed>>
        /\ outcome' = [r \in Requests |-> IF Next1 = Wrapped(r) /\ outcome[r] = "queued"
                                            THEN "ignored" ELSE outcome[r]]
    BY <1>10 DEF IgnoreInShutdown, Continue
  <2> QED
    BY <2>1, AccountAfterTail
<1>11. CASE Tick
  BY <1>0, <1>11 DEF Tick
<1>12. CASE Reap
  BY <1>12 DEF Reap, AccountInv, MailboxInv, RequestInv, Running, Wrapped
<1>13. ASSUME NEW r \in Requests, InitDemand(r) PROVE AccountInv'
  BY <1>a, <1>13, AccountAfterSpawn DEF InitDemand, Running
<1>14. ASSUME NEW r \in Requests, Post(r) PROVE AccountInv'
  BY <1>14, AccountAfterPost
<1>15. ASSUME NEW r \in Requests, AskTimeout(r) PROVE AccountInv'
  <2>1. /\ outcome[r] \notin {"unsent", "spawned"} /\ outcome'[r] = "timedout"
        /\ \A q \in Requests \ {r} : outcome'[q] = outcome[q]
        /\ UNCHANGED <<status, listed, mailbox>>
    BY <1>a, <1>15 DEF AskTimeout
  <2> QED
    BY <2>1 DEF AccountInv, MailboxInv, RequestInv, Running, Wrapped
<1>16. ASSUME NEW c \in Conns, LookUp(c) \/ RegisterTimeout(c) \/ Disconnect(c)
       PROVE  AccountInv'
  BY <1>0, <1>16 DEF LookUp, RegisterTimeout, Disconnect
<1>17. ASSUME NEW c \in Conns, SpawnSession(c) PROVE AccountInv'
  <2>1. CASE ~listed /\ Spawn
    BY <1>17, <2>1, AccountAfterSpawn DEF SpawnSession, AccountInv, MailboxInv
  <2>2. CASE UNCHANGED sessionVars
    BY <1>0, <1>17, <2>2 DEF SpawnSession
  <2> QED
    BY <1>17, <2>1, <2>2 DEF SpawnSession
<1>18. ASSUME NEW c \in Conns, Connect(c) PROVE AccountInv'
  <2>1. Register(c) \in Message /\ Register(c).kind # "WrappedRequest"
    BY MessagesMade DEF Register
  <2>2. CASE Running
    BY <1>18, <2>1, <2>2, AccountAfterAppend DEF Connect
  <2>3. CASE ~Running
    BY <1>0, <1>18, <2>3 DEF Connect
  <2> QED
    BY <2>2, <2>3
<1> QED
  BY <1>1, <1>2, <1>3, <1>4, <1>5, <1>6, <1>7, <1>8, <1>9, <1>10, <1>11, <1>12, <1>13, <1>14,
     <1>15, <1>16, <1>17, <1>18
  DEF Next, SessionStep

LEMMA AccountInvariant == Spec => []AccountInv
<1>1. Init => AccountInv
  BY DEF Init, AccountInv, MailboxInv, RequestInv, Running
<1> QED
  BY <1>1, AccountStep, TypeCorrect, PTL DEF Spec

\* No accepted request is forgotten, and none is queued twice (sendResponse, the
\* returns of handleWrappedRequest*).
THEOREM RequestsAccounted == Spec => []EveryRequestAccounted
<1>1. AccountInv => EveryRequestAccounted
  BY DEF AccountInv, RequestInv, EveryRequestAccounted
<1> QED
  BY <1>1, AccountInvariant, PTL

-----------------------------------------------------------------------------
(* Only a shutdown makes a session forget its end.                         *)

\* A request nobody has posted yet.
Unposted(r) == outcome[r] \in {"unsent", "spawned"}

\* A handler's outcome: it goes on or ends the session, and whatever it tells the
\* askers, it unsends no request.
HandlerEnds ==
  /\ Running /\ mailbox # <<>>
  /\ mailbox' = Tail(mailbox) \/ mailbox' = <<>>
  /\ \A r \in Requests : Unposted(r)' => Unposted(r)
  /\ status' = status \/ status' \in {"stopped", "suspended"}

LEMMA EndsOfContinue ==
  ASSUME TypeOK, Running, mailbox # <<>>, NEW answers \in [Requests -> Outcomes],
         \A r \in Requests : answers[r] \in {"unsent", "spawned"} => Unposted(r),
         Continue(answers) \/ Fail(answers) \/ Halt("stopped", answers)
  PROVE  HandlerEnds
<1>1. CASE Continue(answers)
  BY <1>1 DEF Continue, HandlerEnds, Unposted, Running
<1>2. CASE \E how \in {"stopped", "suspended"} : Halt(how, answers)
  BY <1>2 DEF Halt, HandlerEnds, Unposted
<1> QED BY <1>1, <1>2, LibraryAssumption DEF Fail

LEMMA EndsOfSendResponse ==
  ASSUME TypeOK, Handling("WrappedRequest"), NEW answer \in {"result", "error"},
         SendResponse(Next1.of, answer)
  PROVE  HandlerEnds
<1>1. Next1.of \in Requests /\ Running /\ mailbox # <<>>
  BY HeadAndTail, MessageKinds DEF Handling
<1> DEFINE answers == Answered(Next1.of, answer)
<1>2. answers \in [Requests -> Outcomes]
  BY <1>1, AnsweredType DEF Outcomes
<1>3. \A r \in Requests : answers[r] \in {"unsent", "spawned"} => Unposted(r)
  BY <1>1 DEF Answered, TypeOK, Unposted
<1>4. Continue(answers) \/ Fail(answers)
  BY DEF SendResponse
<1> HIDE DEF answers
<1> QED BY <1>1, <1>2, <1>3, <1>4, EndsOfContinue

\* Every handler ends so.
LEMMA EndsOfHandlers == TypeOK /\ SessionStep => HandlerEnds
<1> SUFFICES ASSUME TypeOK, SessionStep PROVE HandlerEnds
  OBVIOUS
<1>0. outcome \in [Requests -> Outcomes] /\ \A r \in Requests : outcome[r] \in {"unsent", "spawned"} => Unposted(r)
  BY DEF TypeOK, Unposted
<1>1. CASE HandlePostStart \/ StartTtlTicker
  BY <1>0, <1>1, EndsOfContinue DEF HandlePostStart, StartTtlTicker, Handling
<1>2. CASE ScheduleFails \/ FailAuth \/ ExecutePanic
  BY <1>0, <1>2, EndsOfContinue DEF ScheduleFails, FailAuth, ExecutePanic, Calling, Handling
<1>3. CASE CleanupUninitialized \/ HandleCheckSessionTTL \/ FinalCleanup
  BY <1>0, <1>3, EndsOfContinue DEF CleanupUninitialized, HandleCheckSessionTTL, FinalCleanup, Handling
<1>4. CASE HandleRegisterConnection
  BY <1>4 DEF HandleRegisterConnection, Handling, HandlerEnds, Unposted
<1>5. CASE HandleInitialize \/ RejectUninitialized \/ HandleShutdown \/ ExecuteOk \/ ExecuteError
  <2>1. Handling("WrappedRequest") /\ \E answer \in {"result", "error"} : SendResponse(Next1.of, answer)
    BY <1>5 DEF HandleInitialize, RejectUninitialized, HandleShutdown, ExecuteOk, ExecuteError, Calling
  <2> QED BY <2>1, EndsOfSendResponse
<1>6. CASE HandleNotification
  <2>1. Next1.of \in Requests /\ Running /\ mailbox # <<>>
    BY <1>6, HeadAndTail, MessageKinds DEF HandleNotification, Handling
  <2> QED BY <1>0, <1>6, <2>1 DEF HandleNotification, Continue, HandlerEnds, Unposted
<1>7. CASE IgnoreInShutdown
  BY <1>0, <1>7 DEF IgnoreInShutdown, Continue, HandlerEnds, Unposted
<1> QED BY <1>1, <1>2, <1>3, <1>4, <1>5, <1>6, <1>7 DEF SessionStep

\* PostStart is the first message of a session, and found in its first state.
FirstInv == Running /\ Waiting("PostStart") => phase = "uninitialized" /\ Next1.kind = "PostStart"

\* The head of a mailbox stays while messages are appended.
LEMMA HeadAfterAppend ==
  ASSUME TypeOK, mailbox # <<>>, NEW m \in Message, mailbox' = Append(mailbox, m)
  PROVE  Next1' = Next1
  BY DEF TypeOK, Next1

\* A PostStart that waits is not passed by another message.
LEMMA FirstAfterAppend ==
  ASSUME TypeOK, ScheduleInv, FirstInv, NEW m \in Message, m.kind # "PostStart",
         mailbox' = Append(mailbox, m), UNCHANGED <<status, phase>>
  PROVE  FirstInv'
<1>1. Waiting("PostStart")' => Waiting("PostStart")
  BY OnceAfterAppend DEF ScheduleInv
<1>2. Waiting("PostStart") => mailbox # <<>>
  BY DEF Waiting
<1> QED BY <1>1, <1>2, HeadAfterAppend DEF FirstInv, Running

LEMMA FirstAfterSpawn == Spawn => FirstInv'
  BY DEF Spawn, FirstInv, Next1, Control

LEMMA FirstStep == TypeOK /\ ScheduleInv /\ FirstInv /\ [Next]_vars => FirstInv'
<1> SUFFICES ASSUME TypeOK, ScheduleInv, FirstInv, [Next]_vars PROVE FirstInv'
  OBVIOUS
<1> USE DEF sessionVars
<1>0. ASSUME UNCHANGED <<status, phase, mailbox>> PROVE FirstInv'
  BY <1>0 DEF FirstInv, Running, Waiting, Next1
<1>1. CASE SessionStep
  <2>1. Running /\ mailbox # <<>> /\ (mailbox' = Tail(mailbox) \/ mailbox' = <<>>)
    BY <1>1, EndsOfHandlers DEF HandlerEnds
  <2>2. ~Waiting("PostStart")'
    <3>1. CASE mailbox' = <<>>
      BY <3>1 DEF Waiting
    <3>2. CASE mailbox' = Tail(mailbox)
      <4>1. Waiting("PostStart")' => Waiting("PostStart") /\ Next1.kind # "PostStart"
        BY <2>1, <3>2, OnceAfterTail DEF ScheduleInv
      <4> QED BY <2>1, <4>1 DEF FirstInv
    <3> QED BY <2>1, <3>1, <3>2
  <2> QED BY <2>2 DEF FirstInv
<1>2. CASE FireInit \/ FireTtl
  <2>1. PICK k \in Controls : /\ k # "PostStart" /\ mailbox' = Append(mailbox, Control(k))
                              /\ UNCHANGED <<status, phase>>
    BY <1>2 DEF FireInit, FireTtl, Controls
  <2>2. Control(k) \in Message /\ Control(k).kind # "PostStart"
    BY <2>1, MessagesMade DEF Control
  <2> QED BY <2>1, <2>2, FirstAfterAppend
<1>3. CASE Tick \/ Reap \/ UNCHANGED vars
  BY <1>0, <1>3 DEF Tick, Reap, vars
<1>4. CASE Passivate
  BY <1>4 DEF Passivate, Halt, FirstInv, Waiting
<1>5. ASSUME NEW r \in Requests, InitDemand(r) \/ AskTimeout(r) PROVE FirstInv'
  BY <1>0, <1>5, FirstAfterSpawn DEF InitDemand, AskTimeout
<1>6. ASSUME NEW r \in Requests, Post(r) PROVE FirstInv'
  <2>1. Wrapped(r) \in Message /\ Wrapped(r).kind # "PostStart"
    BY MessagesMade DEF Wrapped
  <2> QED BY <1>0, <1>6, <2>1, FirstAfterAppend DEF Post
<1>7. ASSUME NEW c \in Conns, LookUp(c) \/ RegisterTimeout(c) \/ Disconnect(c) PROVE FirstInv'
  BY <1>0, <1>7 DEF LookUp, RegisterTimeout, Disconnect
<1>8. ASSUME NEW c \in Conns, SpawnSession(c) PROVE FirstInv'
  BY <1>0, <1>8, FirstAfterSpawn DEF SpawnSession
<1>9. ASSUME NEW c \in Conns, Connect(c) PROVE FirstInv'
  <2>1. Register(c) \in Message /\ Register(c).kind # "PostStart"
    BY MessagesMade DEF Register
  <2> QED BY <1>0, <1>9, <2>1, FirstAfterAppend DEF Connect
<1> QED BY <1>1, <1>2, <1>3, <1>4, <1>5, <1>6, <1>7, <1>8, <1>9 DEF Next

LEMMA FirstInvariant == Spec => []FirstInv
<1>1. Init => FirstInv
  BY DEF Init, FirstInv, Running
<1> QED BY <1>1, FirstStep, TypeCorrect, ScheduleInvariant, PTL DEF Spec

\* A step that neither sets a timer nor takes or adds a message of the schedule.
OffSchedule ==
  /\ UNCHANGED <<initTimer, ttlTimer>>
  /\ \/ mailbox' = mailbox
     \/ \E m \in Message : /\ m.kind \notin {"PostStart", "TryCleanupIfUninitialized"}
                           /\ mailbox' = Append(mailbox, m)
     \/ /\ mailbox # <<>> /\ mailbox' = Tail(mailbox)
        /\ Next1.kind \notin {"PostStart", "TryCleanupIfUninitialized"}

\* It leaves the end of the session where it is, in view or not.
LEMMA EndAfterOffSchedule ==
  ASSUME TypeOK, ScheduleInv, OffSchedule
  PROVE  EndInView' <=> EndInView
<1>1. ASSUME NEW k \in {"PostStart", "TryCleanupIfUninitialized"}
      PROVE  Waiting(k)' <=> Waiting(k)
  <2>1. AtMostOnce(k)
    BY DEF ScheduleInv
  <2>2. CASE mailbox' = mailbox
    BY <2>2 DEF Waiting
  <2>3. ASSUME NEW m \in Message, m.kind \notin {"PostStart", "TryCleanupIfUninitialized"},
               mailbox' = Append(mailbox, m)
        PROVE  Waiting(k)' <=> Waiting(k)
    <3>1. m.kind # k
      BY <2>3
    <3> QED BY <2>1, <2>3, <3>1, OnceAfterAppend, WaitingAfterAppend
  <2>4. CASE /\ mailbox # <<>> /\ mailbox' = Tail(mailbox)
             /\ Next1.kind \notin {"PostStart", "TryCleanupIfUninitialized"}
    <3>1. Next1.kind # k
      BY <2>4
    <3> QED BY <2>1, <2>4, <3>1, OnceAfterTail, WaitingAfterTail
  <2> QED BY <2>2, <2>3, <2>4 DEF OffSchedule
<1> QED BY <1>1 DEF EndInView, OffSchedule

\* An answer that does not end the session is such a step.
LEMMA SendResponseOffSchedule ==
  ASSUME Handling("WrappedRequest"), NEW r, NEW answer, SendResponse(r, answer), Running'
  PROVE  OffSchedule
<1>1. Continue(Answered(r, answer)) /\ UNCHANGED <<initTimer, ttlTimer>>
  BY NotRunningAfterHalt DEF SendResponse
<1> QED BY <1>1 DEF OffSchedule, Handling, Continue

\* What may change whether the end is in view, when the session goes on.
LEMMA ScheduleSteps ==
  ASSUME TypeOK, AccountInv, [Next]_vars, Running, Running'
  PROVE  \/ OffSchedule
         \/ HandlePostStart \/ StartTtlTicker \/ FireInit \/ FireTtl \/ Tick
         \/ IgnoreInShutdown
<1> USE DEF sessionVars
<1>1. ASSUME UNCHANGED <<mailbox, initTimer, ttlTimer>> PROVE OffSchedule
  BY <1>1 DEF OffSchedule
<1>2. CASE ScheduleFails \/ FailAuth \/ ExecutePanic \/ CleanupUninitialized \/ FinalCleanup
             \/ Passivate
  BY <1>2, NotRunningAfterHalt
     DEF ScheduleFails, FailAuth, ExecutePanic, CleanupUninitialized, FinalCleanup, Passivate
<1>3. CASE HandleRegisterConnection \/ HandleNotification
  BY <1>3 DEF HandleRegisterConnection, HandleNotification, Handling, Continue, OffSchedule
<1>4. CASE HandleInitialize \/ RejectUninitialized \/ HandleShutdown \/ ExecuteOk \/ ExecuteError
  BY <1>4, SendResponseOffSchedule
     DEF HandleInitialize, RejectUninitialized, HandleShutdown, ExecuteOk, ExecuteError, Calling
<1>5. CASE HandleCheckSessionTTL
  <2>1. Continue(outcome) /\ UNCHANGED <<initTimer, ttlTimer>>
    BY <1>5, NotRunningAfterHalt DEF HandleCheckSessionTTL
  <2> QED BY <1>5, <2>1 DEF HandleCheckSessionTTL, Handling, Continue, OffSchedule
<1>6. CASE Reap \/ UNCHANGED vars
  BY <1>1, <1>6 DEF Reap, vars
<1>7. ASSUME NEW r \in Requests, InitDemand(r) PROVE FALSE
  BY <1>7 DEF InitDemand, Running
<1>8. ASSUME NEW r \in Requests, Post(r) PROVE OffSchedule
  <2>1. Wrapped(r) \in Message /\ Wrapped(r).kind = "WrappedRequest"
    BY MessagesMade DEF Wrapped
  <2> QED BY <1>8, <2>1 DEF Post, OffSchedule
<1>9. ASSUME NEW r \in Requests, AskTimeout(r) PROVE OffSchedule
  BY <1>1, <1>9 DEF AskTimeout
<1>10. ASSUME NEW c \in Conns, \/ LookUp(c) \/ SpawnSession(c) \/ RegisterTimeout(c)
                               \/ Disconnect(c)
       PROVE  OffSchedule
  BY <1>1, <1>10 DEF LookUp, SpawnSession, RegisterTimeout, Disconnect, AccountInv, MailboxInv
<1>11. ASSUME NEW c \in Conns, Connect(c) PROVE OffSchedule
  <2>1. Register(c) \in Message /\ Register(c).kind = "RegisterConnection"
    BY MessagesMade DEF Register
  <2> QED BY <1>11, <2>1 DEF Connect, OffSchedule
<1> QED BY <1>2, <1>3, <1>4, <1>5, <1>6, <1>7, <1>8, <1>9, <1>10, <1>11 DEF Next, SessionStep

\* A session comes to run by a spawn, which gives it its PostStart.
LEMMA SpawnedInView ==
  ASSUME [Next]_vars, ~Running, Running'
  PROVE  EndInView'
<1> USE DEF sessionVars
<1>1. Spawn => EndInView'
  BY DEF Spawn, Control, EndInView, Waiting
<1>2. CASE SessionStep \/ Passivate
  BY <1>2, NotRunningAfterHalt
     DEF SessionStep, HandlePostStart, ScheduleFails, HandleRegisterConnection, HandleInitialize,
         RejectUninitialized, FailAuth, HandleShutdown, HandleNotification, ExecuteOk, ExecuteError,
         ExecutePanic, Calling, CleanupUninitialized, StartTtlTicker, HandleCheckSessionTTL,
         FinalCleanup, IgnoreInShutdown, Passivate, Handling
<1>3. CASE FireInit \/ FireTtl \/ Tick \/ Reap \/ UNCHANGED vars
  BY <1>3 DEF FireInit, FireTtl, Tick, Reap, Running, vars
<1>4. ASSUME NEW r \in Requests, InitDemand(r) \/ Post(r) \/ AskTimeout(r) PROVE EndInView'
  BY <1>1, <1>4 DEF InitDemand, Post, AskTimeout, Running
<1>5. ASSUME NEW c \in Conns, \/ LookUp(c) \/ SpawnSession(c) \/ Connect(c)
                              \/ RegisterTimeout(c) \/ Disconnect(c)
      PROVE  EndInView'
  BY <1>1, <1>5 DEF LookUp, SpawnSession, Connect, RegisterTimeout, Disconnect, Running
<1> QED BY <1>2, <1>3, <1>4, <1>5 DEF Next

\* A running session is forgotten in one way only: the shutdown state ignores the
\* message of the initialize timer (handleShutdownState).
THEOREM ForgottenByShutdownOnly == Spec => OnlyShutdownForgets
<1> DEFINE Forgets == /\ EndInView /\ ~EndInView'
                           => phase = "shutdown" /\ Handling("TryCleanupIfUninitialized")
                      /\ ~EndInView => ~EndInView'
<1>1. TypeOK /\ AccountInv /\ ScheduleInv /\ FirstInv /\ CleanupPending /\ [Next]_vars
        => [Running /\ Running' => Forgets]_vars
  <2> SUFFICES ASSUME TypeOK, AccountInv, ScheduleInv, FirstInv, CleanupPending, [Next]_vars,
                      Running, Running'
               PROVE  Forgets
    OBVIOUS
  <2>1. CASE EndInView <=> EndInView'
    BY <2>1
  <2>2. CASE OffSchedule
    BY <2>1, <2>2, EndAfterOffSchedule
  <2>3. CASE HandlePostStart \/ StartTtlTicker
    <3>1. phase # "shutdown"
      BY <2>3 DEF HandlePostStart, StartTtlTicker
    <3>2. initTimer' # Off \/ ttlTimer' # Off
      BY <2>3, TimeAssumption DEF HandlePostStart, StartTtlTicker, CheckInterval, Off
    <3> QED BY <3>1, <3>2 DEF CleanupPending, EndInView
  <2>4. CASE FireInit
    <3>1. initTimer # Off
      BY <2>4 DEF FireInit, Off
    <3>2. Waiting("TryCleanupIfUninitialized")'
      BY <2>4, MessagesMade, WaitingAfterAppend DEF FireInit, Controls, Control
    <3> QED BY <3>1, <3>2 DEF EndInView
  <2>5. CASE FireTtl
    BY <2>5, TimeAssumption DEF FireTtl, EndInView, CheckInterval, Off
  <2>6. CASE Tick
    <3>1. /\ initTimer = Off <=> initTimer' = Off
          /\ ttlTimer = Off <=> ttlTimer' = Off
          /\ mailbox' = mailbox
      BY <2>6, TimeAssumption DEF Tick, Sooner, TypeOK, Off, CheckInterval
    <3> QED BY <2>1, <3>1 DEF EndInView, Waiting
  <2>7. CASE IgnoreInShutdown
    <3>1. /\ phase = "shutdown" /\ mailbox # <<>> /\ mailbox' = Tail(mailbox)
          /\ UNCHANGED <<initTimer, ttlTimer>>
      BY <2>7 DEF IgnoreInShutdown, Continue
    <3>2. CASE Next1.kind = "TryCleanupIfUninitialized"
      <4>1. Handling("TryCleanupIfUninitialized")
        BY <3>1, <3>2 DEF Handling
      <4>2. EndInView
        <5>1. 1 \in DOMAIN mailbox /\ mailbox[1] = Next1
          BY <3>1 DEF TypeOK, Next1
        <5> QED BY <3>2, <5>1 DEF EndInView, Waiting
      <4> QED BY <3>1, <4>1, <4>2
    <3>3. CASE Next1.kind = "PostStart"
      <4>1. 1 \in DOMAIN mailbox /\ mailbox[1] = Next1
        BY <3>1 DEF TypeOK, Next1
      <4> QED BY <3>1, <3>3, <4>1 DEF FirstInv, Waiting
    <3>4. CASE Next1.kind \notin {"PostStart", "TryCleanupIfUninitialized"}
      BY <2>2, <3>1, <3>4 DEF OffSchedule
    <3> QED BY <3>2, <3>3, <3>4
  <2> QED BY <2>2, <2>3, <2>4, <2>5, <2>6, <2>7, ScheduleSteps
<1> DEFINE Step == Running' =>
             /\ ~EndInView' =>
                  /\ Running
                  /\ EndInView => phase = "shutdown" /\ Handling("TryCleanupIfUninitialized")
             /\ Running /\ ~EndInView => ~EndInView'
<1>2. TypeOK /\ AccountInv /\ ScheduleInv /\ FirstInv /\ CleanupPending /\ [Next]_vars
        => [Step]_vars
  BY <1>1, SpawnedInView
<1> QED BY <1>2, TypeCorrect, AccountInvariant, ScheduleInvariant, FirstInvariant,
           CleanupAlwaysPending, PTL DEF Spec, OnlyShutdownForgets

-----------------------------------------------------------------------------
(* Streams.                                                                *)

\* A stream asked to be registered, and was or gave up; its message is on its way.
Settled == {"registering", "open", "closed"}
Asked(c) == \E i \in DOMAIN mailbox : mailbox[i] = Register(c)

\* Who is to be registered has asked for it, and has not been orphaned since.
RegisterInv == \A c \in Conns : Asked(c) => conn[c] \in Settled

\* A registration in a mailbox was in it before, or is the message appended.
LEMMA AskedBefore ==
  ASSUME TypeOK, NEW c \in Conns
  PROVE  /\ mailbox # <<>> /\ mailbox' = Tail(mailbox) /\ Asked(c)' => Asked(c)
         /\ mailbox' = <<>> \/ mailbox' = <<Control("PostStart")>> => ~Asked(c)'
         /\ \A m \in Message : mailbox' = Append(mailbox, m) /\ m # Register(c) /\ Asked(c)'
              => Asked(c)
<1>0. Register(c)' = Register(c)
  BY DEF Register
<1>1. ASSUME mailbox # <<>>, mailbox' = Tail(mailbox), Asked(c)' PROVE Asked(c)
  <2>1. PICK i \in DOMAIN mailbox' : mailbox'[i] = Register(c)
    BY <1>0, <1>1 DEF Asked
  <2>2. i + 1 \in DOMAIN mailbox /\ mailbox[i + 1] = mailbox'[i]
    BY <1>1, <2>1 DEF TypeOK
  <2> QED BY <2>1, <2>2 DEF Asked
<1>2. mailbox' = <<>> \/ mailbox' = <<Control("PostStart")>> => ~Asked(c)'
  BY DEF Asked, Control, Register
<1>3. ASSUME NEW m \in Message, mailbox' = Append(mailbox, m), m # Register(c), Asked(c)'
      PROVE  Asked(c)
  <2>1. PICK i \in DOMAIN mailbox' : mailbox'[i] = Register(c)
    BY <1>0, <1>3 DEF Asked
  <2>2. i \in DOMAIN mailbox /\ mailbox[i] = mailbox'[i]
    BY <1>3, <2>1 DEF TypeOK
  <2> QED BY <2>1, <2>2 DEF Asked
<1> QED BY <1>1, <1>2, <1>3

LEMMA RegisterStep == TypeOK /\ RegisterInv /\ [Next]_vars => RegisterInv'
<1> SUFFICES ASSUME TypeOK, RegisterInv, [Next]_vars, NEW c \in Conns, Asked(c)'
             PROVE  conn'[c] \in Settled
  BY DEF RegisterInv
<1>0. Asked(c) => conn[c] \in Settled
  BY DEF RegisterInv
<1> USE DEF sessionVars
<1>1. ASSUME UNCHANGED mailbox, conn[c] \in Settled => conn'[c] \in Settled PROVE conn'[c] \in Settled
  BY <1>0, <1>1 DEF Asked, Register
<1>2. ASSUME NEW m \in Message, m # Register(c), mailbox' = Append(mailbox, m), UNCHANGED conn
      PROVE  conn'[c] \in Settled
  BY <1>0, <1>2, AskedBefore
<1>3. CASE SessionStep
  <2>1. mailbox # <<>> /\ mailbox' = Tail(mailbox)
    BY <1>3, EndsOfHandlers, AskedBefore DEF HandlerEnds
  <2>2. conn[c] \in Settled
    BY <1>0, <2>1, AskedBefore
  <2>3. mailbox' # <<>>
    BY AskedBefore
  <2>4. CASE HandleRegisterConnection
    BY <2>2, <2>4 DEF HandleRegisterConnection, TypeOK, Settled
  <2>5. CASE ~HandleRegisterConnection
    <3>1. conn' = conn
      BY <1>3, <2>3, <2>5 DEF SessionStep, HandlePostStart, ScheduleFails,
         HandleInitialize, RejectUninitialized, FailAuth, HandleShutdown, HandleNotification,
         ExecuteOk, ExecuteError, ExecutePanic, CleanupUninitialized, StartTtlTicker,
         HandleCheckSessionTTL, FinalCleanup, IgnoreInShutdown, SendResponse, Continue, Fail, Halt
    <3> QED BY <2>2, <3>1
  <2> QED BY <2>4, <2>5
<1>4. CASE FireInit \/ FireTtl
  <2>1. PICK k \in Controls : mailbox' = Append(mailbox, Control(k)) /\ conn' = conn
    BY <1>4 DEF FireInit, FireTtl, Controls
  <2>2. Control(k) \in Message /\ Control(k) # Register(c)
    BY MessagesMade DEF Controls, Control, Register
  <2> QED BY <1>2, <2>1, <2>2
<1>5. CASE Tick \/ Reap \/ UNCHANGED vars
  BY <1>1, <1>5 DEF Tick, Reap, vars
<1>6. CASE Passivate
  BY <1>6, AskedBefore DEF Passivate, Halt
<1>7. ASSUME NEW r \in Requests, InitDemand(r) PROVE conn'[c] \in Settled
  BY <1>7, AskedBefore DEF InitDemand, Spawn
<1>8. ASSUME NEW r \in Requests, Post(r) PROVE conn'[c] \in Settled
  <2>1. Wrapped(r) \in Message /\ Wrapped(r) # Register(c)
    BY MessagesMade DEF Wrapped, Register
  <2> QED BY <1>1, <1>2, <1>8, <2>1 DEF Post
<1>9. ASSUME NEW r \in Requests, AskTimeout(r) PROVE conn'[c] \in Settled
  BY <1>1, <1>9 DEF AskTimeout
<1>10. ASSUME NEW d \in Conns, LookUp(d) \/ RegisterTimeout(d) \/ Disconnect(d)
       PROVE  conn'[c] \in Settled
  BY <1>1, <1>10 DEF LookUp, RegisterTimeout, Disconnect, TypeOK, Settled
<1>11. ASSUME NEW d \in Conns, SpawnSession(d) PROVE conn'[c] \in Settled
  <2>1. ~Spawn
    BY AskedBefore DEF Spawn
  <2> QED BY <1>1, <1>11, <2>1 DEF SpawnSession, TypeOK, Settled
<1>12. ASSUME NEW d \in Conns, Connect(d) PROVE conn'[c] \in Settled
  <2>1. CASE d = c
    BY <1>12, <2>1 DEF Connect, TypeOK, Settled
  <2>2. CASE d # c
    <3>1. conn'[c] = conn[c]
      BY <1>12, <2>2 DEF Connect, TypeOK
    <3>2. Register(d) \in Message /\ Register(d) # Register(c)
      BY <2>2, MessagesMade DEF Register
    <3>3. Asked(c)
      BY <1>12, <3>2, AskedBefore DEF Connect, Asked, Register
    <3> QED BY <1>0, <3>1, <3>3
  <2> QED BY <2>1, <2>2
<1> QED BY <1>3, <1>4, <1>5, <1>6, <1>7, <1>8, <1>9, <1>10, <1>11, <1>12 DEF Next

LEMMA RegisterInvariant == Spec => []RegisterInv
<1>1. Init => RegisterInv
  BY DEF Init, RegisterInv, Asked
<1> QED BY <1>1, RegisterStep, TypeCorrect, PTL DEF Spec

\* What a running session has an entry for was registered, and has not been orphaned.
EntryInv == Running /\ registered # NoConn => conn[registered] \in {"open", "closed"}

\* An open stream has a session that runs and has an entry.
OpenInv == EntryInv /\ ((\E c \in Conns : conn[c] = "open") => Running /\ registered # NoConn)

\* The end of a session leaves no stream open, and no entry to speak of.
LEMMA OpenAfterHalt ==
  ASSUME NEW answers, Fail(answers) \/ Halt("stopped", answers)
  PROVE  OpenInv'
<1>1. \A c \in Conns : conn'[c] # "open"
  BY DEF Fail, Halt
<1>2. ~Running'
  BY LibraryAssumption DEF Fail, Halt, Running
<1> QED
  BY <1>1, <1>2 DEF OpenInv, EntryInv

\* An answer keeps the entry, or ends the session.
LEMMA OpenAfterSendResponse ==
  ASSUME OpenInv, NEW r, NEW answer, SendResponse(r, answer), UNCHANGED registered
  PROVE  OpenInv'
<1>1. CASE Continue(Answered(r, answer))
  BY <1>1 DEF Continue, OpenInv, EntryInv, Running
<1>2. CASE Fail(Answered(r, answer))
  BY <1>2, OpenAfterHalt
<1> QED
  BY <1>1, <1>2 DEF SendResponse

\* A step of a stream that opens none and takes none back keeps them.
LEMMA OpenAfterStream ==
  ASSUME OpenInv, UNCHANGED <<status, registered>>,
         \A d \in Conns : conn'[d] = "open" => conn[d] = "open",
         \A d \in Conns : conn[d] \in {"open", "closed"} => conn'[d] \in {"open", "closed"},
         registered \in Conns \cup {NoConn}
  PROVE  OpenInv'
  BY DEF OpenInv, EntryInv, Running

LEMMA OpenStep == TypeOK /\ AccountInv /\ RegisterInv /\ OpenInv /\ [Next]_vars => OpenInv'
<1> SUFFICES ASSUME TypeOK, AccountInv, RegisterInv, OpenInv, [Next]_vars PROVE OpenInv'
  OBVIOUS
<1> USE DEF sessionVars
<1>0. ASSUME UNCHANGED <<status, conn, registered>> PROVE OpenInv'
  BY <1>0 DEF OpenInv, EntryInv, Running
<1>1. CASE UNCHANGED vars
  BY <1>0, <1>1 DEF vars
<1>2. CASE HandlePostStart \/ StartTtlTicker \/ HandleNotification \/ IgnoreInShutdown
             \/ FireInit \/ FireTtl \/ Tick \/ Reap
  BY <1>0, <1>2 DEF HandlePostStart, StartTtlTicker, HandleNotification, IgnoreInShutdown,
     FireInit, FireTtl, Tick, Reap, Continue
<1>3. CASE ScheduleFails \/ FailAuth \/ ExecutePanic \/ CleanupUninitialized
             \/ FinalCleanup \/ Passivate
  BY <1>3, OpenAfterHalt
     DEF ScheduleFails, FailAuth, ExecutePanic, CleanupUninitialized, FinalCleanup, Passivate
<1>4. CASE HandleInitialize \/ RejectUninitialized \/ HandleShutdown
             \/ ExecuteOk \/ ExecuteError
  BY <1>4, OpenAfterSendResponse
     DEF HandleInitialize, RejectUninitialized, HandleShutdown, ExecuteOk, ExecuteError
<1>5. CASE HandleRegisterConnection
  <2>1. registered' = Next1.of /\ Next1.of \in Conns /\ Running /\ UNCHANGED status
    BY <1>5, HeadAndTail, MessageKinds DEF HandleRegisterConnection, Handling
  <2>2. Asked(Next1.of)
    <3>1. Next1 = Register(Next1.of) /\ 1 \in DOMAIN mailbox /\ mailbox[1] = Next1
      BY <1>5, HeadAndTail, MessageKinds DEF HandleRegisterConnection, Handling, Next1, TypeOK
    <3> QED BY <3>1 DEF Asked
  <2>3. conn'[Next1.of] \in {"open", "closed"}
    BY <1>5, <2>1, <2>2 DEF HandleRegisterConnection, TypeOK, RegisterInv, Settled
  <2> QED
    BY <2>1, <2>3, ConnsAssumption DEF OpenInv, EntryInv, Running
<1>6. CASE HandleCheckSessionTTL
  <2>1. CASE Halt("stopped", outcome)
    BY <2>1, OpenAfterHalt
  <2>2. CASE Continue(outcome)
    BY <1>0, <1>6, <2>2 DEF HandleCheckSessionTTL, Continue
  <2> QED
    BY <1>6, <2>1, <2>2 DEF HandleCheckSessionTTL
<1>7. ASSUME NEW r \in Requests, InitDemand(r) PROVE OpenInv'
  BY <1>7 DEF InitDemand, Spawn, OpenInv, EntryInv
<1>8. ASSUME NEW r \in Requests, Post(r) \/ AskTimeout(r) PROVE OpenInv'
  BY <1>0, <1>8 DEF Post, AskTimeout
<1>9. ASSUME NEW c \in Conns,
             LookUp(c) \/ Connect(c) \/ RegisterTimeout(c) \/ Disconnect(c)
      PROVE  OpenInv'
  <2>1. /\ UNCHANGED <<status, registered>>
        /\ \A d \in Conns : conn'[d] = "open" => conn[d] = "open"
        /\ \A d \in Conns : conn[d] \in {"open", "closed"} => conn'[d] \in {"open", "closed"}
    BY <1>9 DEF LookUp, Connect, RegisterTimeout, Disconnect, TypeOK
  <2> QED
    BY <2>1, OpenAfterStream DEF TypeOK
<1>10. ASSUME NEW c \in Conns, SpawnSession(c) PROVE OpenInv'
  <2>1. /\ \A d \in Conns : conn'[d] = "open" => conn[d] = "open"
        /\ \A d \in Conns : conn[d] \in {"open", "closed"} => conn'[d] \in {"open", "closed"}
    BY <1>10 DEF SpawnSession, TypeOK
  <2>2. CASE ~listed /\ Spawn
    BY <2>1, <2>2 DEF OpenInv, EntryInv, Spawn, AccountInv, MailboxInv
  <2>3. CASE UNCHANGED sessionVars
    BY <2>1, <2>3, OpenAfterStream DEF TypeOK
  <2> QED
    BY <1>10, <2>2, <2>3 DEF SpawnSession
<1> QED
  BY <1>1, <1>2, <1>3, <1>4, <1>5, <1>6, <1>7, <1>8, <1>9, <1>10 DEF Next, SessionStep

\* While a session runs its entry is a stream whose registration it handled, open or
\* closed since, and there is one as long as any stream is open: an open stream's or
\* one that replaced it (handleRegisterConnection, sendResponse).
THEOREM StreamsRegistered == Spec => []StreamRegistered
<1>1. Init => OpenInv
  BY DEF Init, OpenInv, EntryInv
<1>2. OpenInv => StreamRegistered
  BY DEF OpenInv, EntryInv, StreamRegistered
<1> QED
  BY <1>1, <1>2, OpenStep, TypeCorrect, AccountInvariant, RegisterInvariant, PTL DEF Spec

-----------------------------------------------------------------------------
(* The TTL.                                                                *)

\* Ages grow together.
LEMMA OlderMonotone ==
  ASSUME NEW a \in 0..Forgotten, NEW b \in 0..Forgotten, a <= b
  PROVE  Older(a) <= Older(b)
  BY TimeAssumption DEF Older, Forgotten

\* LastActivity is at least as recent as the last successful interaction.
THEOREM ActivityAlwaysRecorded == Spec => []ActivityRecorded
<1>1. Init => ActivityRecorded
  BY DEF Init, ActivityRecorded
<1>2. TypeOK /\ ActivityRecorded /\ [Next]_vars => ActivityRecorded'
  <2> SUFFICES ASSUME TypeOK, ActivityRecorded, [Next]_vars PROVE ActivityRecorded'
    OBVIOUS
  <2> USE DEF sessionVars, ActivityRecorded
  <2>1. CASE UNCHANGED <<idle, sinceOk>>
    BY <2>1
  <2>2. CASE idle' = 0 /\ sinceOk' \in {0, sinceOk}
    BY <2>2, TimeAssumption DEF TypeOK, Forgotten
  <2>3. CASE Tick
    BY <2>3, OlderMonotone DEF Tick, TypeOK
  <2>4. CASE SessionStep
    <3>1. CASE HandlePostStart \/ RejectUninitialized \/ FailAuth \/ HandleShutdown
                 \/ ExecuteError \/ ExecutePanic \/ CleanupUninitialized
                 \/ HandleCheckSessionTTL \/ FinalCleanup \/ IgnoreInShutdown
      BY <2>1, <3>1 DEF HandlePostStart, RejectUninitialized, FailAuth, HandleShutdown,
           ExecuteError, ExecutePanic, CleanupUninitialized, HandleCheckSessionTTL,
           FinalCleanup, IgnoreInShutdown
    <3>2. CASE HandleRegisterConnection \/ HandleInitialize \/ HandleNotification
                 \/ ExecuteOk \/ StartTtlTicker
      BY <2>2, <3>2 DEF HandleRegisterConnection, HandleInitialize, HandleNotification,
           ExecuteOk, StartTtlTicker
    <3>3. CASE ScheduleFails
      BY <2>1, <2>2, <3>3 DEF ScheduleFails
    <3> QED BY <2>4, <3>1, <3>2, <3>3 DEF SessionStep
  <2>5. CASE FireInit \/ FireTtl \/ Reap \/ Passivate
    BY <2>1, <2>5 DEF FireInit, FireTtl, Reap, Passivate
  <2>6. ASSUME NEW r \in Requests, InitDemand(r) \/ Post(r) \/ AskTimeout(r)
        PROVE  ActivityRecorded'
    BY <2>6 DEF InitDemand, Spawn, Post, AskTimeout
  <2>7. ASSUME NEW c \in Conns, \/ LookUp(c) \/ SpawnSession(c) \/ Connect(c)
                                \/ RegisterTimeout(c) \/ Disconnect(c)
        PROVE  ActivityRecorded'
    BY <2>7 DEF LookUp, SpawnSession, Spawn, Connect, RegisterTimeout, Disconnect
  <2> QED BY <2>1, <2>3, <2>4, <2>5, <2>6, <2>7 DEF Next, vars
<1> QED BY <1>1, <1>2, TypeCorrect, PTL DEF Spec

\* The TTL check never stops an initialized session within SessionTTL of a
\* successful interaction.
THEOREM TtlSparesActiveSessions == Spec => TtlRespectsActivity
<1> DEFINE TtlStop == Handling("CheckSessionTTL") /\ phase # "shutdown" /\ status' # "running"
<1>1. TypeOK /\ ActivityRecorded /\ [Next]_vars => [TtlStop => sinceOk > SessionTTL]_vars
  <2> SUFFICES ASSUME TypeOK, ActivityRecorded, Next, TtlStop PROVE sinceOk > SessionTTL
    OBVIOUS
  <2>1. status = "running" /\ status' # status /\ mailbox # <<>> /\ Next1.kind = "CheckSessionTTL"
    BY DEF Handling, Running
  <2>2. CASE HandleCheckSessionTTL
    <3>1. idle > SessionTTL
      BY <2>1, <2>2 DEF HandleCheckSessionTTL, Continue
    <3> QED BY <3>1, TimeAssumption DEF ActivityRecorded, TypeOK, Forgotten
  <2>3. CASE SessionStep
    <3>1. ~(Handling("PostStart") \/ Handling("TryCleanupIfUninitialized")
              \/ Handling("RegisterConnection") \/ Handling("WrappedRequest"))
      BY <2>1 DEF Handling
    <3> QED BY <2>2, <2>3, <3>1 DEF SessionStep, HandlePostStart, ScheduleFails,
              HandleRegisterConnection, HandleInitialize, RejectUninitialized, FailAuth,
              HandleShutdown, HandleNotification, ExecuteOk, ExecuteError, ExecutePanic, Calling,
              CleanupUninitialized, StartTtlTicker, FinalCleanup, IgnoreInShutdown
  <2>4. CASE FireInit \/ FireTtl \/ Tick \/ Reap \/ Passivate
    BY <2>1, <2>4 DEF FireInit, FireTtl, Tick, Reap, Passivate
  <2>5. ASSUME NEW r \in Requests, InitDemand(r) \/ Post(r) \/ AskTimeout(r) PROVE FALSE
    BY <2>1, <2>5 DEF InitDemand, Post, AskTimeout, sessionVars
  <2>6. ASSUME NEW c \in Conns, \/ LookUp(c) \/ SpawnSession(c) \/ Connect(c)
                                \/ RegisterTimeout(c) \/ Disconnect(c)
        PROVE  FALSE
    BY <2>1, <2>6 DEF LookUp, SpawnSession, Spawn, Connect, RegisterTimeout, Disconnect, sessionVars
  <2> QED BY <2>3, <2>4, <2>5, <2>6 DEF Next
<1> QED BY <1>1, TypeCorrect, ActivityAlwaysRecorded, PTL DEF Spec, TtlRespectsActivity
=============================================================================
