---------------------------- MODULE Calls_proofs ----------------------------
(***************************************************************************)
(* Proofs about Calls, for any number of sessions, requests, tools,        *)
(* resources and prompts, and whatever handlers and providers return.      *)
(***************************************************************************)
EXTENDS Calls, TLAPS

-----------------------------------------------------------------------------
(* Type correctness.                                                       *)

\* Every answer to a request is well typed.
LEMMA AnswerTypes ==
  /\ NoAnswer \in Answers
  /\ \A r \in Requests : {Result(r), ToolError(r), Failure(r), Panic(r)} \subseteq Answers
  /\ \A r \in Requests, code \in Codes : Error(r, code) \in Answers
  /\ {ErrMethodNotFound, ErrInvalidParams, ErrInternal} \subseteq Codes
  BY DEF Answers, NoAnswer, Answer, Result, ToolError, Failure, Panic, Error, Codes

\* What EarlyAnswer finds is an answer to the request.
LEMMA EarlyAnswerTypes == \A r \in Requests : EarlyAnswer(r) \in Answers
  BY AnswerTypes DEF EarlyAnswer

\* A request that gets past the early checks is well formed.
LEMMA PastEarlyAnswer ==
  ASSUME NEW r \in Requests, EarlyAnswer(r) = NoAnswer
  PROVE  /\ r.method \in Methods /\ r.object /\ r.method # "ping" /\ r.name # NoName
         /\ r.method = "tools/call" => r.args # NotAnObject
  BY DEF EarlyAnswer, NoAnswer, Answer, Result, Failure, Error

\* Between its arrival and its answer a session's request is one that got past the
\* early checks, a tool that is called was found, and a resource that is read is one
\* that the application provides.
ProgressInv(s) ==
  /\ pc[s] # "idle" => request[s] \in Requests
  /\ pc[s] \in {"finding", "calling", "reading"} => EarlyAnswer(request[s]) = NoAnswer
  /\ pc[s] = "calling" => request[s].method = "tools/call" /\ found[s] \in Definitions
  /\ pc[s] = "reading" =>
       /\ request[s].method = "resources/read"
       /\ kind["resources"] = "dynamic" \/ request[s].name \in resource \cap provider

\* The cause of an internal error, and of a panic, of which the application knows nothing.
FailureCaused(r) == r.method = "tools/call" => r.name = NoName \/ r.args = NotAnObject

PanicCaused(r) == Registry(r.method) # "tools" /\ kind[Registry(r.method)] = "no provider"

\* The answers that there are to a request, each with its cause.
Cause(s, a) ==
  LET r == request[s]
  IN \/ a = Error(r, ErrMethodNotFound) /\ r.method \notin Methods
     \/ a = Error(r, ErrInvalidParams) /\ r.method \in Methods /\ ~r.object
     \/ /\ r.method \in Methods /\ r.object
        /\ \/ a \in {Result(r), ToolError(r)}
           \/ a = Failure(r) /\ FailureCaused(r)
           \/ a = Panic(r) /\ PanicCaused(r)
           \/ /\ ApplicationAsked(s)
              /\ a = Panic(r) \/ \E code \in Codes : a = Error(r, code)

CauseInv(s) == pc[s] = "answered" => Cause(s, answer[s])

CallsInv == TypeOK /\ \A s \in Sessions : ProgressInv(s) /\ CauseInv(s)

-----------------------------------------------------------------------------
(* A step of one session.                                                  *)

\* Nothing that CallsInv says about a session has changed.
Unmoved(s) ==
  /\ pc'[s] = pc[s] /\ request'[s] = request[s] /\ found'[s] = found[s]
  /\ replaced'[s] = replaced[s] /\ answer'[s] = answer[s]

\* Resources and providers are only added.
Growing == kind' = kind /\ resource \subseteq resource' /\ provider \subseteq provider'

\* Once the application may be asked, it may; and an answer keeps its cause.
LEMMA CauseLasts ==
  ASSUME NEW s \in Sessions, NEW a, Cause(s, a), Growing,
         request'[s] = request[s], found'[s] = found[s], answer'[s] = a
  PROVE  Cause(s, answer[s])'
<1> DEFINE r == request[s]
<1>1. request'[s] = r
  OBVIOUS
<1>2. ApplicationAsked(s) => ApplicationAsked(s)'
  BY DEF ApplicationAsked, Growing, WellFormed, LacksRequired, SchemaOf, Registry
<1>3. PanicCaused(r) => PanicCaused(request[s])'
  BY DEF PanicCaused, Growing, Registry
<1>4. /\ (FailureCaused(request[s]))' <=> FailureCaused(r)
      /\ Result(request[s])' = Result(r) /\ ToolError(request[s])' = ToolError(r)
      /\ Failure(request[s])' = Failure(r) /\ Panic(request[s])' = Panic(r)
      /\ \A code : Error(request[s], code)' = Error(r, code)
  BY <1>1 DEF FailureCaused, Result, ToolError, Failure, Panic, Error, Answer
<1> QED BY <1>1, <1>2, <1>3, <1>4 DEF Cause

LEMMA UnmovedKeeps ==
  ASSUME NEW s \in Sessions, ProgressInv(s), CauseInv(s), Unmoved(s), Growing
  PROVE  ProgressInv(s)' /\ CauseInv(s)'
<1>1. ProgressInv(s)'
  BY DEF Unmoved, Growing, ProgressInv, EarlyAnswer, NoAnswer, Error, Answer, Result, Failure
<1>2. CauseInv(s)'
  BY CauseLasts DEF Unmoved, CauseInv
<1> QED BY <1>1, <1>2

\* An answer with its cause keeps the invariant.
LEMMA FinishKeeps ==
  ASSUME CallsInv, NEW s \in Sessions, pc[s] # "idle", NEW a, Cause(s, a), Finish(s, a),
         UNCHANGED <<kind, resource, provider, request, found, replaced>>
  PROVE  /\ pc' \in [Sessions -> {"idle", "finding", "calling", "reading", "answered"}]
         /\ answer' \in [Sessions -> Answers]
         /\ \A t \in Sessions : ProgressInv(t)' /\ CauseInv(t)' /\ (pc'[t] = "calling" => pc[t] = "calling")
<1>1. request[s] \in Requests
  BY DEF CallsInv, ProgressInv
<1>2. a \in Answers
  BY <1>1, AnswerTypes DEF Cause
<1> Growing
  BY DEF Growing
<1>3. /\ pc' = [pc EXCEPT ![s] = "answered"] /\ answer' = [answer EXCEPT ![s] = a]
      /\ pc \in [Sessions -> {"idle", "finding", "calling", "reading", "answered"}]
      /\ answer \in [Sessions -> Answers]
  BY DEF CallsInv, TypeOK, Finish
<1>4. ASSUME NEW t \in Sessions PROVE ProgressInv(t)' /\ CauseInv(t)'
  <2>1. CASE t = s
    <3>1. pc'[s] = "answered" /\ answer'[s] = a
      BY <1>3
    <3>2. Cause(s, answer[s])'
      BY <3>1, CauseLasts
    <3> QED BY <1>1, <2>1, <3>1, <3>2 DEF ProgressInv, CauseInv
  <2>2. CASE t # s
    <3>1. Unmoved(t)
      BY <1>3, <2>2 DEF Unmoved
    <3> QED BY <3>1, UnmovedKeeps DEF CallsInv
  <2> QED BY <2>1, <2>2
<1>5. \A t \in Sessions : pc'[t] = "calling" => pc[t] = "calling"
  BY <1>3
<1> QED BY <1>2, <1>3, <1>4, <1>5

\* What else a step must keep well typed.
RestTyped ==
  /\ kind' = kind /\ UNCHANGED <<tool, handler, resource, provider, request, found, replaced>>
  /\ subscribers' \in [URIs -> SUBSET {"default"}] /\ DOMAIN input' = Sessions

LEMMA AnswerStep ==
  ASSUME CallsInv, NEW s \in Sessions, pc[s] # "idle", NEW a, Cause(s, a), Finish(s, a), RestTyped
  PROVE  CallsInv'
<1>1. /\ pc' \in [Sessions -> {"idle", "finding", "calling", "reading", "answered"}]
      /\ answer' \in [Sessions -> Answers]
      /\ \A t \in Sessions : ProgressInv(t)' /\ CauseInv(t)' /\ (pc'[t] = "calling" => pc[t] = "calling")
  BY FinishKeeps DEF RestTyped
<1>2. TypeOK'
  BY <1>1 DEF CallsInv, TypeOK, RestTyped
<1> QED BY <1>1, <1>2 DEF CallsInv

\* A step that leaves the sessions and the registries' kinds alone.
LEMMA ConfigureStep ==
  ASSUME CallsInv, Configure
  PROVE  CallsInv'
<1>1. UNCHANGED <<kind, subscribers, pc, request, found, replaced, answer, input>>
  BY DEF Configure, RegisterTool, SetToolHandler, RegisterResource
<1>2. Growing
  BY DEF Configure, RegisterTool, SetToolHandler, RegisterResource, Growing
<1>3. \A s \in Sessions : ProgressInv(s)' /\ CauseInv(s)'
  BY <1>1, <1>2, UnmovedKeeps DEF CallsInv, Unmoved
<1>4. TypeOK'
  <2>1. CASE \E d \in Definitions : RegisterTool(d)
    <3>1. PICK d \in Definitions : RegisterTool(d)
      BY <2>1
    <3>2. tool' \in [Names -> Definitions \cup {NoTool}] /\ UNCHANGED <<handler, resource, provider>>
      BY <3>1 DEF CallsInv, TypeOK, RegisterTool
    <3> QED BY <1>1, <3>2 DEF CallsInv, TypeOK
  <2>2. CASE \E n \in Names : SetToolHandler(n)
    <3>1. PICK n \in Names : SetToolHandler(n)
      BY <2>2
    <3>2. handler' \in [Names -> 0..MaxSets] /\ UNCHANGED <<tool, resource, provider>>
      BY <3>1, BoundAssumption DEF CallsInv, TypeOK, SetToolHandler
    <3> QED BY <1>1, <3>2 DEF CallsInv, TypeOK
  <2>3. CASE \E u \in URIs, providers \in SUBSET URIs : RegisterResource(u, providers)
    <3>1. resource' \subseteq URIs /\ provider' \subseteq resource' /\ UNCHANGED <<tool, handler>>
      BY <2>3 DEF CallsInv, TypeOK, RegisterResource
    <3> QED BY <1>1, <3>1 DEF CallsInv, TypeOK
  <2> QED BY <2>1, <2>2, <2>3 DEF Configure
<1> QED BY <1>3, <1>4 DEF CallsInv

\* A session goes on with its request.
LEMMA GoOnStep ==
  ASSUME CallsInv, NEW s \in Sessions, pc[s] = "finding",
         NEW where \in {"calling", "reading"}, pc' = [pc EXCEPT ![s] = where],
         UNCHANGED <<registries, subscribers, request, answer, input>>,
         \/ /\ where = "reading" /\ UNCHANGED <<found, replaced>>
            /\ request[s].method = "resources/read"
            /\ kind["resources"] = "dynamic" \/ request[s].name \in resource \cap provider
         \/ /\ where = "calling" /\ request[s].method = "tools/call"
            /\ \E d \in Definitions : found' = [found EXCEPT ![s] = d]
            /\ \E b \in BOOLEAN : replaced' = [replaced EXCEPT ![s] = b]
  PROVE  CallsInv'
<1>1. TypeOK'
  <2>1. pc' \in [Sessions -> {"idle", "finding", "calling", "reading", "answered"}]
    BY DEF CallsInv, TypeOK
  <2>2. found' \in [Sessions -> Definitions \cup {NoTool}]
    BY DEF CallsInv, TypeOK
  <2>3. replaced' \in [Sessions -> BOOLEAN]
    <3>1. CASE replaced' = replaced
      BY <3>1 DEF CallsInv, TypeOK
    <3>2. ASSUME NEW b \in BOOLEAN, replaced' = [replaced EXCEPT ![s] = b]
          PROVE  replaced' \in [Sessions -> BOOLEAN]
      BY <3>2, Zenon DEF CallsInv, TypeOK
    <3> QED BY <3>1, <3>2
  <2>4. \A t \in Sessions : pc'[t] = "calling" => found'[t] # NoTool
    BY DefinitionsAssumption DEF CallsInv, TypeOK
  <2> QED BY <2>1, <2>2, <2>3, <2>4 DEF CallsInv, TypeOK, registries
<1>2. ASSUME NEW t \in Sessions PROVE ProgressInv(t)' /\ CauseInv(t)'
  <2>1. CASE t = s
    BY <2>1 DEF CallsInv, TypeOK, ProgressInv, CauseInv, EarlyAnswer, NoAnswer, Error, Answer, Result, Failure, registries
  <2>2. CASE t # s
    <3>1. pc'[t] = pc[t] /\ request'[t] = request[t] /\ found'[t] = found[t] /\ answer'[t] = answer[t]
      BY <2>2 DEF CallsInv, TypeOK
    <3>2. replaced'[t] = replaced[t]
      BY <2>2, Zenon DEF CallsInv, TypeOK
    <3> QED BY <3>1, <3>2, UnmovedKeeps DEF CallsInv, Unmoved, Growing, registries
  <2> QED BY <2>1, <2>2
<1> QED BY <1>1, <1>2 DEF CallsInv

\* A request arrives.
LEMMA ReceiveStep ==
  ASSUME CallsInv, NEW s \in Sessions, NEW r \in Requests, Receive(s, r)
  PROVE  CallsInv'
<1>1. /\ request' = [request EXCEPT ![s] = r]
      /\ UNCHANGED <<registries, subscribers, found, replaced, input>>
      /\ \/ EarlyAnswer(r) = NoAnswer /\ pc' = [pc EXCEPT ![s] = "finding"] /\ answer' = answer
         \/ EarlyAnswer(r) # NoAnswer /\ Finish(s, EarlyAnswer(r))
  BY DEF Receive
<1>2. TypeOK'
  <2>1. request' \in [Sessions -> Requests \cup {NoRequest}]
    BY <1>1 DEF CallsInv, TypeOK
  <2>2. /\ pc' \in [Sessions -> {"idle", "finding", "calling", "reading", "answered"}]
        /\ answer' \in [Sessions -> Answers]
        /\ \A t \in Sessions : pc'[t] = "calling" => pc[t] = "calling"
    BY <1>1, EarlyAnswerTypes DEF CallsInv, TypeOK, Finish
  <2> QED BY <1>1, <2>1, <2>2 DEF CallsInv, TypeOK, registries
<1>3. ASSUME NEW t \in Sessions PROVE ProgressInv(t)' /\ CauseInv(t)'
  <2>1. CASE t # s
    <3>1. Unmoved(t)
      BY <1>1, <2>1 DEF Unmoved, CallsInv, TypeOK, Finish
    <3> QED BY <1>1, <3>1, UnmovedKeeps DEF CallsInv, Growing, registries
  <2>2. CASE t = s /\ EarlyAnswer(r) = NoAnswer
    <3>1. pc'[s] = "finding" /\ request'[s] = r
      BY <1>1, <2>2 DEF CallsInv, TypeOK
    <3>2. (EarlyAnswer(request[s]) = NoAnswer)'
      BY <2>2, <3>1 DEF EarlyAnswer, NoAnswer, Error, Answer, Result, Failure
    <3> QED BY <2>2, <3>1, <3>2 DEF ProgressInv, CauseInv
  <2>3. CASE t = s /\ EarlyAnswer(r) # NoAnswer
    <3>1. pc'[s] = "answered" /\ request'[s] = r /\ answer'[s] = EarlyAnswer(r)
      BY <1>1, <2>3 DEF CallsInv, TypeOK, Finish
    <3>2. EarlyAnswer(r) \in {Error(r, ErrMethodNotFound), Error(r, ErrInvalidParams), Result(r), Failure(r)}
      BY <2>3 DEF EarlyAnswer
    <3>3. \/ EarlyAnswer(r) = Error(r, ErrMethodNotFound) /\ r.method \notin Methods
          \/ EarlyAnswer(r) = Error(r, ErrInvalidParams) /\ r.method \in Methods /\ ~r.object
          \/ /\ r.method \in Methods /\ r.object
             /\ \/ EarlyAnswer(r) = Result(r)
                \/ EarlyAnswer(r) = Failure(r) /\ FailureCaused(r)
      BY <2>3 DEF EarlyAnswer, FailureCaused
    <3>4. Cause(s, answer[s])'
      BY <3>1, <3>3 DEF Cause, FailureCaused, Error, Answer, Result, Failure
    <3> QED BY <2>3, <3>1, <3>4 DEF ProgressInv, CauseInv
  <2> QED BY <2>1, <2>2, <2>3
<1> QED BY <1>2, <1>3 DEF CallsInv

-----------------------------------------------------------------------------
(* The registries' answers.                                                *)

\* What a request may be answered with that has got to a registry.
LEMMA Answerable ==
  ASSUME CallsInv, NEW s \in Sessions, pc[s] \in {"finding", "calling", "reading"}
  PROVE  /\ pc[s] # "idle" /\ request[s] \in Requests
         /\ request[s].name # NoName /\ request[s].method \in Methods
         /\ WellFormed(request[s])
         /\ Cause(s, Result(request[s])) /\ Cause(s, ToolError(request[s]))
         /\ request[s].method # "tools/call" => Cause(s, Failure(request[s]))
         /\ PanicCaused(request[s]) => Cause(s, Panic(request[s]))
         /\ ApplicationAsked(s) =>
              /\ Cause(s, Panic(request[s]))
              /\ \A code \in Codes : Cause(s, Error(request[s], code))
<1>1. request[s] \in Requests /\ EarlyAnswer(request[s]) = NoAnswer
  BY DEF CallsInv, ProgressInv
<1>2. /\ request[s].name # NoName /\ request[s].method \in Methods /\ request[s].object
      /\ WellFormed(request[s])
  BY <1>1, PastEarlyAnswer DEF WellFormed
<1> QED BY <1>1, <1>2 DEF Cause, FailureCaused

LEMMA UnchangedRest ==
  ASSUME CallsInv, UNCHANGED <<registries, subscribers, request, found, replaced>>,
         DOMAIN input' = Sessions
  PROVE  RestTyped
  BY DEF CallsInv, TypeOK, RestTyped, registries

\* A registry is of one of three kinds.
LEMMA KindOf ==
  ASSUME CallsInv, NEW k \in {"tools", "resources", "prompts"}
  PROVE  kind[k] \in {"static", "dynamic", "no provider"}
<1>1. kind \in [{"tools", "resources", "prompts"} -> {"static", "dynamic", "no provider"}]
  BY ConfigurationsAssumption DEF CallsInv, TypeOK
<1> QED BY <1>1

\* Whatever the application does when it is asked is accounted for.
LEMMA AskedStep ==
  ASSUME CallsInv, NEW s \in Sessions, pc[s] \in {"finding", "calling", "reading"},
         ApplicationAsked(s), AskHandler(s), RestTyped
  PROVE  CallsInv'
<1>1. PICK a : Finish(s, a) /\ Cause(s, a)
  BY Answerable DEF AskHandler, AskApplication
<1> QED BY <1>1, Answerable, AnswerStep

LEMMA AskingStep ==
  ASSUME CallsInv, NEW s \in Sessions,
         GetTool(s) \/ CallProvider(s) \/ ReadResource(s) \/ GetPrompt(s)
  PROVE  CallsInv'
<1>1. RestTyped
  BY UnchangedRest DEF GetTool, CallProvider, ReadResource, GetPrompt, CallsInv, TypeOK
<1>2. pc[s] \in {"finding", "reading"} /\ pc[s] # "idle"
  BY DEF GetTool, CallProvider, ReadResource, GetPrompt, At
<1>3. WellFormed(request[s])
  BY <1>2, Answerable
<1>4. CASE CallProvider(s)
  <2>1. CASE Finish(s, ToolError(request[s]))
    BY <1>1, <1>2, <2>1, Answerable, AnswerStep
  <2>2. CASE kind["tools"] = "dynamic" /\ AskHandler(s)
    <3>1. ApplicationAsked(s)
      BY <1>3, <1>4, <2>2 DEF ApplicationAsked, Registry, CallProvider, At
    <3> QED BY <1>1, <1>2, <2>2, <3>1, AskedStep
  <2> QED BY <1>4, <2>1, <2>2 DEF CallProvider
<1>5. CASE GetTool(s)
  <2>1. CASE Finish(s, Result(request[s])) \/ Finish(s, Failure(request[s]))
    BY <1>1, <1>2, <1>5, <2>1, Answerable, AnswerStep DEF GetTool, At
  <2>2. CASE kind["tools"] = "dynamic" /\ AskApplication(s)
    <3>1. ApplicationAsked(s)
      BY <1>3, <1>5, <2>2 DEF ApplicationAsked, Registry, GetTool, At
    <3> QED BY <1>1, <1>2, <2>2, <3>1, AskedStep DEF AskHandler
  <2> QED BY <1>5, <2>1, <2>2 DEF GetTool
<1>6. CASE ReadResource(s)
  <2>1. ApplicationAsked(s)
    BY <1>3, <1>6 DEF ApplicationAsked, Registry, ReadResource, At, CallsInv, ProgressInv
  <2> QED BY <1>1, <1>2, <1>6, <2>1, AskedStep DEF AskHandler, ReadResource
<1>7. CASE GetPrompt(s)
  <2>1. request[s].method = "prompts/get" /\ Registry(request[s].method) = "prompts"
    BY <1>7 DEF GetPrompt, At, Registry
  <2>2. CASE Finish(s, PromptAnswer(request[s]))
    <3>1. PromptAnswer(request[s]) \in {Result(request[s]), Failure(request[s])}
      BY DEF PromptAnswer
    <3> QED BY <1>1, <1>2, <2>1, <2>2, <3>1, Answerable, AnswerStep
  <2>3. CASE kind["prompts"] = "dynamic" /\ AskApplication(s)
    <3>1. ApplicationAsked(s)
      BY <1>3, <2>1, <2>3 DEF ApplicationAsked
    <3> QED BY <1>1, <1>2, <2>3, <3>1, AskedStep DEF AskHandler
  <2>4. CASE kind["prompts"] = "no provider" /\ Finish(s, Panic(request[s]))
    BY <1>1, <1>2, <2>1, <2>4, Answerable, AnswerStep DEF PanicCaused
  <2>5. kind["prompts"] \in {"static", "dynamic", "no provider"}
    BY KindOf
  <2> QED BY <1>7, <2>2, <2>3, <2>4, <2>5 DEF GetPrompt
<1> QED BY <1>4, <1>5, <1>6, <1>7

LEMMA FindResourceStep ==
  ASSUME CallsInv, NEW s \in Sessions, FindResource(s)
  PROVE  CallsInv'
<1>1. /\ RestTyped /\ pc[s] = "finding" /\ pc[s] # "idle" /\ request[s].method = "resources/read"
      /\ UNCHANGED <<registries, subscribers, request, input, found, replaced>>
  BY UnchangedRest DEF FindResource, At, CallsInv, TypeOK
<1>2. CASE Finish(s, Failure(request[s]))
  BY <1>1, <1>2, Answerable, AnswerStep
<1>3. CASE kind["resources"] = "no provider" /\ Finish(s, Panic(request[s]))
  <2>1. PanicCaused(request[s])
    BY <1>1, <1>3 DEF PanicCaused, Registry
  <2> QED BY <1>1, <1>3, <2>1, Answerable, AnswerStep
<1>4. CASE /\ kind["resources"] = "dynamic" \/ request[s].name \in resource \cap provider
           /\ pc' = [pc EXCEPT ![s] = "reading"] /\ UNCHANGED answer
  BY <1>1, <1>4, GoOnStep
<1>5. kind["resources"] \in {"static", "dynamic", "no provider"}
  BY KindOf
<1> QED BY <1>2, <1>3, <1>4, <1>5 DEF FindResource

LEMMA FindToolStep ==
  ASSUME CallsInv, NEW s \in Sessions, FindTool(s)
  PROVE  CallsInv'
<1>1. tool[request[s].name] \in Definitions
  BY DEF FindTool, Registered, CallsInv, TypeOK
<1>2. (handler[request[s].name] > 0) \in BOOLEAN
  OBVIOUS
<1>3. /\ pc[s] = "finding" /\ request[s].method = "tools/call" /\ pc' = [pc EXCEPT ![s] = "calling"]
      /\ UNCHANGED <<registries, subscribers, request, answer, input>>
      /\ found' = [found EXCEPT ![s] = tool[request[s].name]]
  BY DEF FindTool, At
<1>4. replaced' = [replaced EXCEPT ![s] = (handler[request[s].name] > 0)]
  BY Zenon DEF FindTool
<1> QED BY <1>1, <1>2, <1>3, <1>4, GoOnStep

LEMMA CallToolStep ==
  ASSUME CallsInv, NEW s \in Sessions, CallTool(s)
  PROVE  CallsInv'
<1>1. /\ pc[s] = "calling" /\ pc[s] # "idle" /\ request[s].method = "tools/call"
      /\ UNCHANGED <<registries, subscribers, request, found, replaced>>
  BY DEF CallTool, At
<1>2. DOMAIN input' = Sessions
  BY DEF CallTool, CallsInv, TypeOK
<1>3. RestTyped
  BY <1>1, <1>2, UnchangedRest
<1>4. CASE Finish(s, ToolError(request[s]))
  BY <1>1, <1>3, <1>4, Answerable, AnswerStep
<1>5. CASE ~LacksRequired(SchemaOf(found[s]), request[s].args) /\ RunHandler(s)
  <2>1. ApplicationAsked(s)
    BY <1>1, <1>5, Answerable DEF ApplicationAsked, CallsInv, TypeOK
  <2>2. CASE AskHandler(s)
    BY <1>1, <1>3, <2>1, <2>2, AskedStep
  <2>3. CASE Finish(s, Panic(request[s]))
    BY <1>1, <1>3, <2>1, <2>3, Answerable, AnswerStep
  <2> QED BY <1>5, <2>2, <2>3 DEF RunHandler
<1> QED BY <1>4, <1>5 DEF CallTool

LEMMA SubscriptionStep ==
  ASSUME CallsInv, NEW s \in Sessions, SubscribeResource(s) \/ UnsubscribeResource(s)
  PROVE  CallsInv'
<1> PICK m \in {"resources/subscribe", "resources/unsubscribe"},
         ids \in {subscribers[request[s].name] \cup {"default"},
                 subscribers[request[s].name] \ {"default"}} :
      Subscription(s, m, ids)
  BY DEF SubscribeResource, UnsubscribeResource, SubscriberIDOf
<1>1. pc[s] = "finding" /\ pc[s] # "idle" /\ request[s].method = m
  BY DEF Subscription, At
<1>2. request[s].name \in URIs
  BY <1>1, Answerable, RequestsAssumption
<1>3. ids \subseteq {"default"}
  BY <1>2 DEF CallsInv, TypeOK
<1>4. RestTyped
  <2>1. subscribers' \in [URIs -> SUBSET {"default"}]
    BY <1>3 DEF Subscription, CallsInv, TypeOK
  <2> QED BY <2>1 DEF Subscription, RestTyped, registries, CallsInv, TypeOK
<1>5. CASE Finish(s, Result(request[s])) \/ Finish(s, Failure(request[s]))
  BY <1>1, <1>4, <1>5, Answerable, AnswerStep
<1>6. Registry(request[s].method) = "resources" /\ WellFormed(request[s])
  BY <1>1, Answerable DEF Registry
<1>7. CASE kind["resources"] = "no provider" /\ Finish(s, Panic(request[s]))
  BY <1>1, <1>4, <1>6, <1>7, Answerable, AnswerStep DEF PanicCaused
<1>8. CASE kind["resources"] = "dynamic" /\ AskApplication(s)
  <2>1. ApplicationAsked(s)
    BY <1>6, <1>8 DEF ApplicationAsked
  <2> QED BY <1>1, <1>4, <1>8, <2>1, AskedStep DEF AskHandler
<1>9. kind["resources"] \in {"static", "dynamic", "no provider"}
  BY KindOf
<1> QED BY <1>5, <1>7, <1>8, <1>9 DEF Subscription

\* Every step keeps the invariant.
LEMMA CallsStep == CallsInv /\ [Next]_vars => CallsInv'
<1> SUFFICES ASSUME CallsInv, [Next]_vars PROVE CallsInv'
  OBVIOUS
<1>1. CASE UNCHANGED vars
  <2>1. \A s \in Sessions : ProgressInv(s)' /\ CauseInv(s)'
    BY <1>1, UnmovedKeeps DEF CallsInv, Unmoved, Growing, vars, registries
  <2> QED BY <1>1, <2>1 DEF CallsInv, TypeOK, vars, registries
<1>2. CASE Configure
  BY <1>2, ConfigureStep
<1>3. ASSUME NEW s \in Sessions, Serve(s) PROVE CallsInv'
  BY <1>3, ReceiveStep, AskingStep, FindResourceStep, FindToolStep, CallToolStep, SubscriptionStep
  DEF Serve
<1> QED BY <1>1, <1>2, <1>3 DEF Next

LEMMA CallsInvariant == Spec => []CallsInv
<1>1. Init => CallsInv
  <2> SUFFICES ASSUME Init PROVE CallsInv
    OBVIOUS
  <2>1. TypeOK
    <3>1. answer \in [Sessions -> Answers] /\ handler \in [Names -> 0..MaxSets]
      BY AnswerTypes, BoundAssumption DEF Init
    <3>2. replaced \in [Sessions -> BOOLEAN]
      BY Zenon DEF Init
    <3> QED BY <3>1, <3>2 DEF Init, TypeOK
  <2> QED BY <2>1 DEF Init, CallsInv, ProgressInv, CauseInv
<1> QED
  BY <1>1, CallsStep, PTL DEF Spec

\* Registries, requests and answers are always well typed.
THEOREM TypeCorrect == Spec => []TypeOK
<1>1. CallsInv => TypeOK
  BY DEF CallsInv
<1> QED
  BY <1>1, CallsInvariant, PTL

-----------------------------------------------------------------------------
(* Answers and their causes.                                               *)

\* Half of an even number, taken with its sign, is that number's half.
LEMMA WholeOfEven ==
  ASSUME NEW x, x.type = "float64", x.v \in Int, x.v % 2 = 0
  PROVE  2 * Whole(x) = x.v
  BY DEF Whole

\* An answer's type, code and id tell which of the causes it has.
Told(s, a) ==
  LET r == request[s]
  IN /\ a.type # "panic" => a.id = AnswerId(r.id)
     /\ ~ApplicationAsked(s) =>
          /\ a.code = ErrMethodNotFound <=> r.method \notin Methods
          /\ a.code = ErrInvalidParams <=> r.method \in Methods /\ ~r.object
          /\ a.code = ErrInternal => FailureCaused(r)
          /\ a.type = "panic" => PanicCaused(r)

LEMMA CausesTold ==
  ASSUME NEW s, NEW a, Cause(s, a)
  PROVE  Told(s, a)
<1> DEFINE r == request[s]
<1> USE DEF Told, Answer, ErrMethodNotFound, ErrInvalidParams, ErrInternal
<1>1. CASE a = Error(r, ErrMethodNotFound) /\ r.method \notin Methods
  BY <1>1 DEF Error
<1>2. CASE a = Error(r, ErrInvalidParams) /\ r.method \in Methods /\ ~r.object
  BY <1>2 DEF Error
<1>3. CASE r.method \in Methods /\ r.object /\ a = Result(r)
  BY <1>3 DEF Result
<1>4. CASE r.method \in Methods /\ r.object /\ a = ToolError(r)
  BY <1>4 DEF ToolError
<1>5. CASE r.method \in Methods /\ r.object /\ a = Failure(r) /\ FailureCaused(r)
  BY <1>5 DEF Failure, Error
<1>6. CASE r.method \in Methods /\ r.object /\ a = Panic(r) /\ PanicCaused(r)
  BY <1>6 DEF Panic
<1>7. CASE ApplicationAsked(s) /\ a = Panic(r)
  BY <1>7 DEF Panic
<1>8. CASE ApplicationAsked(s) /\ \E code \in Codes : a = Error(r, code)
  BY <1>8 DEF Error
<1> QED BY <1>1, <1>2, <1>3, <1>4, <1>5, <1>6, <1>7, <1>8 DEF Cause

\* Whatever the session and the registries do, the answer has the id of its request
\* and, unless the application was asked, a code that tells what was wrong
\* (executors.go, jsonrpc_utils.go, json_rpc_helpers.go).
THEOREM AnswersTellTheirCause == Spec => []AnswerTellsCause
<1>1. CallsInv => AnswerTellsCause
  <2> SUFFICES ASSUME CallsInv PROVE AnswerTellsCause
    OBVIOUS
  <2>1. ASSUME NEW s \in Sessions, pc[s] = "answered"
        PROVE  Told(s, answer[s]) /\ request[s] \in Requests
    BY <2>1, CausesTold DEF CallsInv, ProgressInv, CauseInv
  <2>2. ASSUME NEW s \in Sessions, pc[s] = "answered", answer[s].type # "panic"
        PROVE  /\ request[s].id.type = "string" => answer[s].id = request[s].id
               /\ /\ request[s].id.type = "float64" /\ request[s].id.v % 2 = 0
                  /\ Whole(request[s].id) \in Int64
                  => 2 * answer[s].id.v = request[s].id.v
    <3>1. answer[s].id = AnswerId(request[s].id)
      BY <2>1, <2>2 DEF Told
    <3>2. ASSUME request[s].id.type = "float64", request[s].id.v % 2 = 0,
                 Whole(request[s].id) \in Int64
          PROVE  2 * answer[s].id.v = request[s].id.v
      <4>1. answer[s].id.v = Whole(request[s].id)
        BY <3>1, <3>2 DEF AnswerId, Value, ToInt64
      <4>2. request[s].id.v \in Int
        BY <2>1, <2>2, <3>2, RequestsAssumption
      <4>3. 2 * Whole(request[s].id) = request[s].id.v
        BY <3>2, <4>2, WholeOfEven
      <4> QED BY <4>1, <4>3
    <3>3. request[s].id.type = "string" => AnswerId(request[s].id) = request[s].id
      BY DEF AnswerId
    <3> QED BY <3>1, <3>2, <3>3
  <2>3. ASSUME NEW s \in Sessions, pc[s] = "answered", ~ApplicationAsked(s)
        PROVE  LET a == answer[s]  r == request[s]
               IN /\ a.code = ErrMethodNotFound <=> r.method \notin Methods
                  /\ a.code = ErrInvalidParams <=> r.method \in Methods /\ ~r.object
                  /\ r.method = "tools/call" /\ a.code = ErrInternal
                       => r.name = NoName \/ r.args = NotAnObject
                  /\ a.type = "panic" => /\ Registry(r.method) # "tools"
                                         /\ kind[Registry(r.method)] = "no provider"
    BY <2>1, <2>3 DEF Told, FailureCaused, PanicCaused
  <2> QED BY <2>2, <2>3 DEF AnswerTellsCause
<1> QED
  BY <1>1, CallsInvariant, PTL

-----------------------------------------------------------------------------
(* The input of handlers.                                                  *)

\* Two's complement leaves a number in its range alone.
LEMMA WrapInRange ==
  ASSUME NEW size \in Nat \ {0}, size % 2 = 0, NEW n \in -(size \div 2)..(size \div 2 - 1)
  PROVE  Wrap(n, size) = n
<1>1. PICK k \in Nat \ {0} : size = 2 * k /\ size \div 2 = k
  <2>1. size \div 2 \in Nat \ {0} /\ size = 2 * (size \div 2)
    OBVIOUS
  <2> QED BY <2>1
<1>2. n \in Int /\ -k <= n /\ n < k
  BY <1>1
<1>3. n % (2 * k) = IF n >= 0 THEN n ELSE n + 2 * k
  BY <1>1, <1>2, SMTT(30)
<1> QED BY <1>1, <1>2, <1>3 DEF Wrap

\* A number that a type holds is rounded to itself.
LEMMA RoundedInType ==
  ASSUME NEW type \in SUBSET Int, NEW v \in type
  PROVE  Rounded(v, type) = v
<1>1. \A u \in type : Distance(v, v) <= Distance(v, u)
  BY DEF Distance
<1>2. /\ Rounded(v, type) \in type
      /\ \A u \in type : Distance(v, Rounded(v, type)) <= Distance(v, u)
  BY <1>1 DEF Rounded
<1> DEFINE w == Rounded(v, type)
<1> HIDE DEF w
<1>3. v \in Int /\ w \in Int /\ Distance(v, w) <= Distance(v, v)
  BY <1>2 DEF w
<1>4. w = v
  BY <1>3 DEF Distance
<1> QED BY <1>4 DEF w

\* A value that a field can hold is stored as it is.
LEMMA RepresentableStored ==
  ASSUME NEW f, f.size \in 1..WordSize, f.size % 2 = 0, NEW x, Representable(f, x)
  PROVE  SetFieldValue(f, x) = Represented(f, x)
<1>0. x # Null /\ f.size \in Nat \ {0}
  BY WordAssumption DEF Representable, Null, Value, Numbers
<1>1. CASE f.kind = "int" /\ x.type \in Numbers /\ Whole(x) \in -(f.size \div 2)..(f.size \div 2 - 1)
  <2>1. Wrap(Whole(x), f.size) = Whole(x)
    BY <1>0, <1>1, WrapInRange
  <2>2. f.size \div 2 <= WordSize \div 2
    BY WordAssumption
  <2>3. Whole(x) \in Int64
    BY <1>0, <1>1, <2>2, WordAssumption DEF Int64
  <2>4. Converted(f, x) = Value("int", Wrap(Whole(x), f.size))
    BY <1>1, <2>3 DEF Converted, ToInt64
  <2> QED BY <1>0, <1>1, <2>1, <2>4 DEF SetFieldValue, Represented
<1>2. CASE f.kind = "uint" /\ x.type \in Numbers /\ Whole(x) \in 0..(f.size - 1)
  <2>1. Whole(x) % f.size = Whole(x)
    BY <1>0, <1>2, SMTT(30)
  <2>2. Whole(x) \in Uint64
    BY <1>2, WordAssumption DEF Uint64
  <2>3. Converted(f, x) = Value("uint", Whole(x) % f.size)
    BY <1>2, <2>2 DEF Converted, ToUint64
  <2> QED BY <1>0, <1>2, <2>1, <2>3 DEF SetFieldValue, Represented
<1>3. CASE f.kind = "float64" /\ x.type = "float64"
  BY <1>0, <1>3 DEF SetFieldValue, Represented, Converted, Numbers, ToFloat64
<1>4. CASE f.kind = "float32" /\ x.type = "float64" /\ x.v \in Float32
  <2>1. Rounded(x.v, Float32) = x.v
    BY <1>4, RoundedInType, FloatAssumption
  <2>2. Converted(f, x) = Value("float32", Rounded(x.v, Float32))
    BY <1>4 DEF Converted, Numbers, ToFloat64
  <2> QED BY <1>0, <1>4, <2>1, <2>2 DEF SetFieldValue, Represented
<1>5. CASE f.kind = "string" /\ x.type = "string"
  BY <1>0, <1>5 DEF SetFieldValue, Represented, Converted
<1>6. CASE f.kind = "bool" /\ x.type = "bool"
  BY <1>0, <1>6 DEF SetFieldValue, Represented, Converted
<1> QED BY <1>1, <1>2, <1>3, <1>4, <1>5, <1>6 DEF Representable

\* The struct a handler is given is the one its caller sent.
LEMMA StructArrives ==
  ASSUME NEW d \in Definitions, d.via = "struct", NEW args,
         ~LacksRequired(SchemaOf(d), args), NEW i \in Shown(d.fields)
  PROVE  Arrives(d.fields, i, args,
                 UnmarshalParams(d.fields, WithDefaults(SchemaOf(d), args))[i])
<1> DEFINE fields == d.fields
           f == fields[i]
           n == NameOf(f)
           schema == SchemaOf(d)
           params == WithDefaults(schema, args)
           default == ParseDefaultValue(LastNamed(fields, n))
           x == UnmarshalParams(fields, params)[i]
<1>1. x = FieldOutcome(f, params)
  BY DEF UnmarshalParams
<1>2. f.size \in 1..WordSize /\ f.size % 2 = 0
  BY DefinitionsAssumption DEF Shown
<1>3. schema = GenerateSchemaFromStruct(fields) /\ n \in NamesOf(fields)
  BY DEF SchemaOf, NamesOf
<1>4. Requiring(fields, n) => n \in DOMAIN args
  BY <1>3 DEF LacksRequired, GenerateSchemaFromStruct, Schema
<1>5. n \in DOMAIN schema.defaults <=> "default" \in Options(LastNamed(fields, n))
  BY <1>3 DEF GenerateSchemaFromStruct, Schema
<1>6. n \in DOMAIN schema.defaults => schema.defaults[n] = default
  BY <1>3 DEF GenerateSchemaFromStruct, Schema
<1>7. DOMAIN params = DOMAIN args \cup DOMAIN schema.defaults
  BY DEF WithDefaults
<1>8. CASE n \in DOMAIN args
  <2>1. params[n] = args[n]
    BY <1>8 DEF WithDefaults
  <2>2. x = SetFieldValue(f, args[n])
    BY <1>1, <1>7, <1>8, <2>1 DEF FieldOutcome
  <2>3. args[n] = Null => x = Zero(f)
    BY <2>2 DEF SetFieldValue
  <2>4. Representable(f, args[n]) => x = Represented(f, args[n])
    BY <1>2, <2>2, RepresentableStored
  <2> QED BY <1>8, <2>3, <2>4 DEF Arrives
<1>9. CASE n \notin DOMAIN args /\ n \in DOMAIN schema.defaults
  <2>1. n \in DOMAIN params /\ params[n] = default
    BY <1>6, <1>7, <1>9 DEF WithDefaults
  <2>2. x = SetFieldValue(f, default)
    BY <1>1, <2>1 DEF FieldOutcome
  <2>3. Representable(f, default) => x = Represented(f, default)
    BY <1>2, <2>2, RepresentableStored
  <2> QED BY <1>4, <1>5, <1>9, <2>3 DEF Arrives
<1>10. CASE n \notin DOMAIN args /\ n \notin DOMAIN schema.defaults
  <2>1. x = Zero(f)
    BY <1>1, <1>7, <1>10 DEF FieldOutcome
  <2> QED BY <1>4, <1>5, <1>10, <2>1 DEF Arrives
<1> QED BY <1>8, <1>9, <1>10

\* Every handler, of a struct or not, runs with what its caller sent (CallTool,
\* UnmarshalParams and the schema they share).
Faithful(s) ==
  input[s] # <<>> =>
    IF Wrapped(s)
      THEN \A i \in Shown(found[s].fields) :
             Arrives(found[s].fields, i, request[s].args, input[s][i])
      ELSE /\ \A n \in DOMAIN request[s].args : input[s][n] = request[s].args[n]
           /\ SchemaOf(found[s]).required \subseteq DOMAIN request[s].args

\* An input is given to a request that is answered at once, and not changed after.
FaithfulInv == \A s \in Sessions : Faithful(s) /\ (pc[s] # "answered" => input[s] = <<>>)

LEMMA CallToolFaithful ==
  ASSUME CallsInv, NEW s \in Sessions, input[s] = <<>>, CallTool(s)
  PROVE  /\ Faithful(s)' /\ pc'[s] = "answered"
         /\ \A t \in Sessions \ {s} : input'[t] = input[t]
<1> DEFINE schema == SchemaOf(found[s])
           args == request[s].args
           fields == found[s].fields
           params == WithDefaults(schema, args)
           given == IF Wrapped(s) THEN UnmarshalParams(fields, params) ELSE params
<1>1. UNCHANGED <<request, found, replaced>> /\ pc[s] = "calling" /\ found[s] \in Definitions
  BY DEF CallTool, At, CallsInv, ProgressInv
<1>2. pc'[s] = "answered"
  BY DEF CallTool, RunHandler, AskHandler, AskApplication, Finish, CallsInv, TypeOK
<1>3. (Wrapped(s)' <=> Wrapped(s)) /\ SchemaOf(found[s])' = schema
  BY <1>1 DEF Wrapped, SchemaOf
<1>4. \/ input' = input
      \/ ~LacksRequired(schema, args) /\ input' = [input EXCEPT ![s] = given]
  BY DEF CallTool
<1>5. CASE input' = input
  BY <1>2, <1>5 DEF Faithful
<1>6. CASE ~LacksRequired(schema, args) /\ input' = [input EXCEPT ![s] = given]
  <2>1. input'[s] = given /\ \A t \in Sessions \ {s} : input'[t] = input[t]
    BY <1>6 DEF CallsInv, TypeOK
  <2>2. CASE Wrapped(s)
    <3>1. \A i \in Shown(fields) : Arrives(fields, i, args, UnmarshalParams(fields, params)[i])
      BY <1>1, <1>6, <2>2, StructArrives DEF Wrapped
    <3>2. input'[s] = UnmarshalParams(fields, params)
      BY <2>1, <2>2
    <3> QED BY <1>1, <1>2, <1>3, <2>1, <2>2, <3>1, <3>2 DEF Faithful
  <2>3. CASE ~Wrapped(s)
    <3>1. \A n \in DOMAIN args : params[n] = args[n]
      BY DEF WithDefaults
    <3> QED BY <1>1, <1>2, <1>3, <1>6, <2>1, <2>3, <3>1 DEF Faithful, LacksRequired
  <2> QED BY <2>2, <2>3
<1> QED BY <1>4, <1>5, <1>6

THEOREM InputsFaithful == Spec => []InputFaithful
<1>1. Init => FaithfulInv
  BY DEF Init, FaithfulInv, Faithful
<1>2. CallsInv /\ FaithfulInv /\ [Next]_vars => FaithfulInv'
  <2> SUFFICES ASSUME CallsInv, FaithfulInv, [Next]_vars PROVE FaithfulInv'
    OBVIOUS
  <2>1. ASSUME NEW t \in Sessions, UNCHANGED <<pc[t], request[t], found[t], replaced[t], input[t]>>
        PROVE  Faithful(t)' /\ (pc'[t] # "answered" => input'[t] = <<>>)
    BY <2>1 DEF FaithfulInv, Faithful, Wrapped, SchemaOf
  <2>2. ASSUME NEW t \in Sessions, pc[t] # "answered", input'[t] = input[t]
        PROVE  Faithful(t)' /\ (pc'[t] # "answered" => input'[t] = <<>>)
    BY <2>2 DEF FaithfulInv, Faithful
  <2>3. CASE Configure \/ UNCHANGED vars
    BY <2>1, <2>3 DEF Configure, RegisterTool, SetToolHandler, RegisterResource, vars, FaithfulInv
  <2>4. ASSUME NEW s \in Sessions, Serve(s) PROVE FaithfulInv'
    <3>1. pc[s] # "answered" /\ \A t \in Sessions \ {s} : pc'[t] = pc[t] /\ request'[t] = request[t] /\ found'[t] = found[t]
      BY <2>4 DEF Serve, Receive, GetTool, CallProvider, FindTool, CallTool, FindResource,
         ReadResource, SubscribeResource, UnsubscribeResource, Subscription, GetPrompt, At,
         RunHandler, AskHandler, AskApplication, Finish, CallsInv, TypeOK
    <3>2. \A t \in Sessions \ {s} : replaced'[t] = replaced[t]
      <4>1. CASE FindTool(s)
        BY <4>1, Zenon DEF FindTool, CallsInv, TypeOK
      <4>2. CASE ~FindTool(s)
        BY <2>4, <4>2 DEF Serve, Receive, GetTool, CallProvider, CallTool, FindResource,
           ReadResource, SubscribeResource, UnsubscribeResource, Subscription, GetPrompt
      <4> QED BY <4>1, <4>2
    <3>3. CASE CallTool(s)
      BY <2>1, <3>1, <3>2, <3>3, CallToolFaithful DEF FaithfulInv
    <3>4. CASE ~CallTool(s)
      <4>1. input' = input
        BY <2>4, <3>4 DEF Serve, Receive, GetTool, CallProvider, FindTool, FindResource,
           ReadResource, SubscribeResource, UnsubscribeResource, Subscription, GetPrompt
      <4> QED BY <2>1, <2>2, <3>1, <3>2, <4>1 DEF FaithfulInv
    <3> QED BY <3>3, <3>4
  <2> QED BY <2>3, <2>4 DEF Next
<1>3. FaithfulInv => InputFaithful
  BY DEF FaithfulInv, Faithful, InputFaithful
<1> QED
  BY <1>1, <1>2, <1>3, CallsInvariant, PTL DEF Spec
=============================================================================
