-------------------------------- MODULE Calls --------------------------------
(***************************************************************************)
(* Requests for one item, from the JSON-RPC message to its answer:         *)
(* the conversions of pkg/protocol/adapter.go, the executors               *)
(* (internal/executors), the registries (pkg/resources) and the errors     *)
(* (pkg/protocol/errors.go, pkg/utils/json_rpc_helpers.go). Lists and the  *)
(* two reads of prompts/get are in Features, the input of tools in         *)
(* ToolSchema. Handlers and providers are the application's: they return   *)
(* whatever they like.                                                     *)
(*                                                                         *)
(* A request of a session is [id, method, object, name, args]: object says *)
(* whether its params are an object (or absent), name is the name or URI   *)
(* asked for, NoName if it is absent, empty or no string, and args are its *)
(* arguments, NotAnObject if they are something else.                      *)
(*                                                                         *)
(* An operator whose comment begins with "Fault" is not part of the model: *)
(* it is the operator after it with a plausible mistake, kept to show that *)
(* the properties would notice.                                            *)
(***************************************************************************)
EXTENDS ToolSchema, FiniteSets

CONSTANTS
  Sessions,      \* sessions, each with one request at a time
  Requests,      \* what they ask
  Configurations,\* which kinds of registries the server may be made with
  Definitions,   \* tools the application may register
  URIs,          \* resources it may register
  Prompts,       \* from a prompt's name to the arguments it requires
  NoName,        \* no usable name
  NotAnObject,   \* arguments that are no object
  NoRequest, NoTool,
  MaxSets        \* bound: handlers set for a tool

Methods == {"tools/get", "tools/call", "resources/read", "resources/subscribe",
            "resources/unsubscribe", "prompts/get", "ping"}

Names == {d.name : d \in Definitions} \ {NoName}

\* A definition is [name, via, fields, inputs, handler]: a tool of a struct, or
\* one made by the builder. Its handler is a fit function, a function with two
\* arguments and results of other types than the struct wants (of the builder: nil),
\* or no such function.
ASSUME DefinitionsAssumption ==
  /\ NoTool \notin Definitions
  /\ \A d \in Definitions :
       /\ d.via \in {"struct", "builder"} /\ d.handler \in {"fit", "misfit", "unfit"}
       /\ d.via = "builder" => d.handler # "unfit"
       /\ \A i \in DOMAIN d.fields : d.fields[i].size \in 1..WordSize /\ d.fields[i].size % 2 = 0

ASSUME ConfigurationsAssumption ==
  Configurations \subseteq [{"tools", "resources", "prompts"}
                              -> {"static", "dynamic", "no provider"}]

ASSUME RequestsAssumption ==
  /\ NoRequest \notin Requests
  /\ \A r \in Requests :
       /\ r.id.type = "float64" => r.id.v \in Int
       /\ r.method \in {"resources/subscribe", "resources/unsubscribe"}
            => r.name \in URIs \cup {NoName}

ASSUME BoundAssumption == MaxSets \in Nat

VARIABLES
  kind,         \* of each registry: "static", "dynamic" or "no provider"
  tool,         \* StaticToolRegistry.tools
  handler,      \* how often SetToolHandler has replaced a tool's handler
  resource,     \* URIs with a resource
  provider,     \* URIs with a provider, which outlives a new registration
  subscribers,  \* StaticResourceRegistry.subscribers
  pc,           \* of each session's request: "idle", "finding", "calling", "reading", "answered"
  request,      \* the request
  found,        \* the tool that CallTool has read
  replaced,     \* and whether its handler was a replacement
  answer,       \* the response
  input         \* what the tool's handler was given, a struct by position (history)

registries == <<kind, tool, handler, resource, provider>>
vars == <<registries, subscribers, pc, request, found, replaced, answer, input>>

-----------------------------------------------------------------------------
(* Ids, errors and answers.                                                *)

ErrMethodNotFound == -32601
ErrInvalidParams  == -32602
ErrInternal       == -32603
ErrServer         == -32000   \* stands for every other code

Codes == {ErrMethodNotFound, ErrInvalidParams, ErrInternal, ErrServer}

\* ConvertJSONToProtoRequest: numbers are cut to an int64, what is neither a number
\* nor a string becomes null; PrepareResponse and CreateErrorResponse copy the id,
\* ConvertProtoToJSONResponse hands it back.
AnswerId(id) ==
  CASE id.type = "float64" -> Value("int64", ToInt64(id))
    [] id.type = "string" -> id
    [] OTHER -> Null

Answer(r, type, code) == [type |-> type, code |-> code, id |-> AnswerId(r.id)]
Answers ==
  [type : {"none", "result", "toolError", "error", "panic"},
   code : {0} \cup Codes,
   id   : {AnswerId(r.id) : r \in Requests} \cup {Null}]

NoAnswer == [type |-> "none", code |-> 0, id |-> Null]

Result(r)    == Answer(r, "result", 0)
ToolError(r) == Answer(r, "toolError", 0)   \* a ToolCallResult with isError
Error(r, code) == Answer(r, "error", code)

\* An error that is no JsonRpcError is reported as an internal one, also the
\* registries' ErrInvalidParams and their errors for what they do not have.
Failure(r) == Error(r, ErrInternal)

\* A nil dereference, a reflect.Call of a misfit or a panic of the application's:
\* the session actor fails.
Panic(r) == [type |-> "panic", code |-> 0, id |-> Null]

Finish(s, a) ==
  /\ pc' = [pc EXCEPT ![s] = "answered"] /\ answer' = [answer EXCEPT ![s] = a]

At(s, where, method) == pc[s] = where /\ request[s].method = method

\* Fault: the lookup of a map is not asked whether it found something.
RegisteredAnyway(n) == n \in Names

\* GetTool and CallTool find a tool of that name.
Registered(n) == n \in Names /\ tool[n] # NoTool

-----------------------------------------------------------------------------
Init ==
  /\ kind \in Configurations
  /\ tool = [n \in Names |-> NoTool] /\ handler = [n \in Names |-> 0]
  /\ resource = {} /\ provider = {} /\ subscribers = [u \in URIs |-> {}]
  /\ pc = [s \in Sessions |-> "idle"] /\ request = [s \in Sessions |-> NoRequest]
  /\ found = [s \in Sessions |-> NoTool] /\ replaced = [s \in Sessions |-> FALSE]
  /\ answer = [s \in Sessions |-> NoAnswer] /\ input = [s \in Sessions |-> <<>>]

(* The application fills the static registries.                            *)

\* Registering under a name that is taken, a struct with a field that has no JSON
\* type, or something that is no function of two arguments and results is refused.
RegisterTool(d) ==
  /\ kind["tools"] = "static" /\ d.name # NoName /\ tool[d.name] = NoTool
  /\ d.via = "struct" => (Typeable(d.fields) /\ d.handler # "unfit")
  /\ tool' = [tool EXCEPT ![d.name] = d]
  /\ UNCHANGED <<kind, handler, resource, provider, subscribers, pc, request, found,
                 replaced, answer, input>>

\* A plain handler in place of the one a tool has; its schema stays.
SetToolHandler(n) ==
  /\ tool[n] # NoTool /\ handler[n] < MaxSets
  /\ handler' = [handler EXCEPT ![n] = @ + 1]
  /\ UNCHANGED <<kind, tool, resource, provider, subscribers, pc, request, found,
                 replaced, answer, input>>

\* A resource registered again without a provider keeps the one it had.
RegisterResource(u, providers) ==
  /\ kind["resources"] = "static" /\ providers \subseteq {u}
  /\ resource' = resource \cup {u} /\ provider' = provider \cup providers
  /\ UNCHANGED <<kind, tool, handler, subscribers, pc, request, found, replaced, answer, input>>

-----------------------------------------------------------------------------
(* A request arrives: Executors, ProcessRequest and the checks of the      *)
(* executor before it asks its registry.                                   *)

\* Fault: the params of an unknown method are parsed first.
EarlyAnswerParamsFirst(r) ==
  IF ~r.object THEN Error(r, ErrInvalidParams)
  ELSE IF r.method \notin Methods THEN Error(r, ErrMethodNotFound)
  ELSE IF r.method = "ping" THEN Result(r)
  ELSE IF r.name = NoName \/ (r.method = "tools/call" /\ r.args = NotAnObject)
    THEN Failure(r)
  ELSE NoAnswer

EarlyAnswer(r) ==
  IF r.method \notin Methods THEN Error(r, ErrMethodNotFound)
  ELSE IF ~r.object THEN Error(r, ErrInvalidParams)
  ELSE IF r.method = "ping" THEN Result(r)
  ELSE IF r.name = NoName \/ (r.method = "tools/call" /\ r.args = NotAnObject)
    THEN Failure(r)
  ELSE NoAnswer

Receive(s, r) ==
  /\ pc[s] = "idle" /\ request' = [request EXCEPT ![s] = r]
  /\ IF EarlyAnswer(r) = NoAnswer
       THEN pc' = [pc EXCEPT ![s] = "finding"] /\ UNCHANGED answer
       ELSE Finish(s, EarlyAnswer(r))
  /\ UNCHANGED <<registries, subscribers, found, replaced, input>>

-----------------------------------------------------------------------------
(* The registries are asked. A dynamic registry passes the question to its *)
(* provider; without a provider only the one of tools knows what to say.   *)

\* What a provider or handler may do: return a result, return an error or a result
\* whose marshalling fails with one, or panic. The error's own code is found
\* (errors.As), however deeply it has been wrapped.
AskApplication(s) ==
  \/ Finish(s, Result(request[s]))
  \/ \E code \in Codes : Finish(s, Error(request[s], code))
  \/ Finish(s, Panic(request[s]))

GetTool(s) ==
  /\ At(s, "finding", "tools/get")
  /\ CASE kind["tools"] = "static" ->
            Finish(s, IF Registered(request[s].name) THEN Result(request[s])
                      ELSE Failure(request[s]))
       [] kind["tools"] = "dynamic" -> AskApplication(s)
       [] OTHER -> Finish(s, Failure(request[s]))
  /\ UNCHANGED <<registries, subscribers, request, found, replaced, input>>

\* An error of a handler or of HandleToolInvocation is a result that says so; only
\* content that cannot be marshalled (a ToolCallResult is passed on as it is) or a
\* panic leaves the caller with anything else.
AskHandler(s) == AskApplication(s) \/ Finish(s, ToolError(request[s]))

\* CallTool of a dynamic registry, and of a static one that has no such tool.
CallProvider(s) ==
  /\ At(s, "finding", "tools/call")
  /\ CASE kind["tools"] = "dynamic" -> AskHandler(s)
       [] kind["tools"] = "no provider" -> Finish(s, ToolError(request[s]))
       [] OTHER -> ~Registered(request[s].name) /\ Finish(s, ToolError(request[s]))
  /\ UNCHANGED <<registries, subscribers, request, found, replaced, input>>

\* Tool and handler are read under the lock, which is then released.
FindTool(s) ==
  /\ At(s, "finding", "tools/call") /\ kind["tools"] = "static"
  /\ LET n == request[s].name
     IN /\ Registered(n)
        /\ found' = [found EXCEPT ![s] = tool[n]]
        /\ replaced' = [replaced EXCEPT ![s] = handler[n] > 0]
  /\ pc' = [pc EXCEPT ![s] = "calling"]
  /\ UNCHANGED <<registries, subscribers, request, answer, input>>

SchemaOf(d) == IF d.via = "struct" THEN GenerateSchemaFromStruct(d.fields) ELSE Build(d.inputs)

\* A struct tool's own handler is wrapped: it is given a struct.
Wrapped(s) == found[s].via = "struct" /\ ~replaced[s]

\* A handler of the wrong type panics; one that was set later has the right one.
RunHandler(s) ==
  IF found[s].handler = "fit" \/ replaced[s] THEN AskHandler(s) ELSE Finish(s, Panic(request[s]))

CallTool(s) ==
  /\ At(s, "calling", "tools/call")
  /\ LET schema == SchemaOf(found[s])
         params == WithDefaults(schema, request[s].args)
         fields == found[s].fields
     IN IF LacksRequired(schema, request[s].args) \/ (Wrapped(s) /\ ~Unmarshals(fields, params))
          THEN Finish(s, ToolError(request[s])) /\ UNCHANGED input
        ELSE /\ input' = [input EXCEPT ![s] =
                            IF Wrapped(s) THEN UnmarshalParams(fields, params) ELSE params]
             /\ RunHandler(s)
  /\ UNCHANGED <<registries, subscribers, request, found, replaced>>

\* ReadResource reads resource and provider under the lock and calls the provider
\* after it.
FindResource(s) ==
  /\ At(s, "finding", "resources/read")
  /\ CASE kind["resources"] = "static" /\ request[s].name \notin resource \cap provider ->
            Finish(s, Failure(request[s]))
       [] kind["resources"] = "no provider" -> Finish(s, Panic(request[s]))
       [] OTHER -> pc' = [pc EXCEPT ![s] = "reading"] /\ UNCHANGED answer
  /\ UNCHANGED <<registries, subscribers, request, found, replaced, input>>

ReadResource(s) ==
  /\ At(s, "reading", "resources/read")
  /\ AskApplication(s)
  /\ UNCHANGED <<registries, subscribers, request, found, replaced, input>>

\* Nothing in the server puts a subscriber id into the context.
SubscriberIDOf(s) == "default"

\* SubscribeResource and UnsubscribeResource hold the lock throughout.
Subscription(s, method, ids) ==
  /\ At(s, "finding", method)
  /\ LET u == request[s].name
     IN CASE kind["resources"] = "static" /\ u \in resource ->
               /\ subscribers' = [subscribers EXCEPT ![u] = ids]
               /\ Finish(s, Result(request[s]))
          [] kind["resources"] = "static" /\ u \notin resource ->
               Finish(s, Failure(request[s])) /\ UNCHANGED subscribers
          [] kind["resources"] = "dynamic" -> AskApplication(s) /\ UNCHANGED subscribers
          [] OTHER -> Finish(s, Panic(request[s])) /\ UNCHANGED subscribers
  /\ UNCHANGED <<registries, request, found, replaced, input>>

SubscribeResource(s) ==
  Subscription(s, "resources/subscribe", subscribers[request[s].name] \cup {SubscriberIDOf(s)})

UnsubscribeResource(s) ==
  Subscription(s, "resources/unsubscribe", subscribers[request[s].name] \ {SubscriberIDOf(s)})

\* prompts/get: arguments that are no strings are left out; without any the
\* messages are returned as they were registered, required arguments or not.
PromptAnswer(r) ==
  LET texts == IF r.args = NotAnObject THEN {}
               ELSE {n \in DOMAIN r.args : r.args[n].type = "string"}
  IN IF r.name \in DOMAIN Prompts /\ (texts = {} \/ Prompts[r.name] \subseteq texts)
       THEN Result(r) ELSE Failure(r)

GetPrompt(s) ==
  /\ At(s, "finding", "prompts/get")
  /\ CASE kind["prompts"] = "static" -> Finish(s, PromptAnswer(request[s]))
       [] kind["prompts"] = "dynamic" -> AskApplication(s)
       [] OTHER -> Finish(s, Panic(request[s]))
  /\ UNCHANGED <<registries, subscribers, request, found, replaced, input>>

-----------------------------------------------------------------------------
Serve(s) ==
  \/ (\E r \in Requests : Receive(s, r)) \/ GetTool(s) \/ CallProvider(s) \/ FindTool(s) \/ CallTool(s)
  \/ FindResource(s) \/ ReadResource(s) \/ SubscribeResource(s) \/ UnsubscribeResource(s)
  \/ GetPrompt(s)

Configure ==
  \/ \E d \in Definitions : RegisterTool(d)
  \/ \E n \in Names : SetToolHandler(n)
  \/ \E u \in URIs, providers \in SUBSET URIs : RegisterResource(u, providers)

Next == Configure \/ \E s \in Sessions : Serve(s)

Spec == Init /\ [][Next]_vars

-----------------------------------------------------------------------------
TypeOK ==
  /\ kind \in Configurations
  /\ tool \in [Names -> Definitions \cup {NoTool}] /\ handler \in [Names -> 0..MaxSets]
  /\ resource \subseteq URIs /\ provider \subseteq resource
  /\ subscribers \in [URIs -> SUBSET {"default"}]
  /\ pc \in [Sessions -> {"idle", "finding", "calling", "reading", "answered"}]
  /\ request \in [Sessions -> Requests \cup {NoRequest}]
  /\ found \in [Sessions -> Definitions \cup {NoTool}] /\ replaced \in [Sessions -> BOOLEAN]
  /\ \A s \in Sessions : pc[s] = "calling" => found[s] # NoTool
  /\ answer \in [Sessions -> Answers] /\ DOMAIN input = Sessions

\* What field i of a struct tool's input should be for a call with these arguments.
Arrives(fields, i, args, x) ==
  LET f == fields[i]
      n == NameOf(f)
      default == ParseDefaultValue(LastNamed(fields, n))
  IN IF n \in DOMAIN args
       THEN /\ args[n] = Null => x = Zero(f)
            /\ Representable(f, args[n]) => x = Represented(f, args[n])
     ELSE /\ ~Requiring(fields, n)
          /\ "default" \notin Options(LastNamed(fields, n)) => x = Zero(f)
          /\ "default" \in Options(LastNamed(fields, n)) /\ Representable(f, default)
               => x = Represented(f, default)

\* A handler runs with what its caller sent (reflection.go, CallTool): every required
\* parameter is there, a value that its field can hold arrives unchanged, a missing
\* one is the default of the last field of its name, or zero, and a parameter that is
\* sent is never replaced.
InputFaithful ==
  \A s \in Sessions : input[s] # <<>> =>
    IF Wrapped(s)
      THEN \A i \in Shown(found[s].fields) :
             Arrives(found[s].fields, i, request[s].args, input[s][i])
      ELSE /\ \A n \in DOMAIN request[s].args : input[s][n] = request[s].args[n]
           /\ SchemaOf(found[s]).required \subseteq DOMAIN request[s].args

Registry(method) ==
  CASE method \in {"tools/get", "tools/call"} -> "tools"
    [] method \in {"resources/read", "resources/subscribe", "resources/unsubscribe"}
         -> "resources"
    [] OTHER -> "prompts"

\* The mistakes of a request by which nobody is asked.
WellFormed(r) ==
  /\ r.method \in Methods \ {"ping"} /\ r.object /\ r.name # NoName
  /\ r.method = "tools/call" => r.args # NotAnObject

\* The application has a say in the answer: a dynamic registry's provider, the
\* handler of a tool that was found and is given what it requires, or the provider
\* of a resource.
ApplicationAsked(s) ==
  LET r == request[s]
  IN /\ WellFormed(r)
     /\ \/ kind[Registry(r.method)] = "dynamic"
        \/ r.method = "tools/call" /\ found[s] # NoTool /\ ~LacksRequired(SchemaOf(found[s]), r.args)
        \/ r.method = "resources/read" /\ r.name \in resource \cap provider

\* An answer has its request's id, if that is a string or a whole number of int64.
\* And unless the application was asked, which may return any error and may panic,
\* the answer tells what was wrong, through executor, session and conversions:
\* "method not found" and "invalid params" name exactly those mistakes of the
\* message, a tool call is an internal error only if it has no name or arguments, and
\* the session fails only over resources or prompts that have no provider.
AnswerTellsCause ==
  \A s \in Sessions : pc[s] = "answered" =>
    LET a == answer[s]  r == request[s]
    IN /\ a.type # "panic" =>
            /\ r.id.type = "string" => a.id = r.id
            /\ r.id.type = "float64" /\ r.id.v % 2 = 0 /\ Whole(r.id) \in Int64
                 => 2 * a.id.v = r.id.v
       /\ ~ApplicationAsked(s) =>
            /\ a.code = ErrMethodNotFound <=> r.method \notin Methods
            /\ a.code = ErrInvalidParams <=> r.method \in Methods /\ ~r.object
            /\ r.method = "tools/call" /\ a.code = ErrInternal
                 => r.name = NoName \/ r.args = NotAnObject
            /\ a.type = "panic" => /\ Registry(r.method) # "tools"
                                   /\ kind[Registry(r.method)] = "no provider"
=============================================================================
