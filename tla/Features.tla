------------------------------ MODULE Features ------------------------------
(***************************************************************************)
(* The executors that requests of sessions are given to                    *)
(* (internal/executors) and the static registries behind them              *)
(* (pkg/resources/static_*.go): the choice of an executor, listing by      *)
(* pages while items are registered, and prompts/get, which reads the      *)
(* registry twice.                                                         *)
(*                                                                         *)
(* The registries of tools, prompts, resources and resource templates list *)
(* alike; kind says which one is looked at. A name stands for its place in *)
(* the order of strings, and 0 for the empty string. Each operation of a   *)
(* registry holds its lock from beginning to end.                          *)
(*                                                                         *)
(* An operator whose comment begins with "Fault" is not part of the model: *)
(* it is the operator after it with a plausible mistake, kept to show that *)
(* the properties would notice.                                            *)
(***************************************************************************)
EXTENDS Naturals, FiniteSets, Sequences

CONSTANTS
  Names,        \* names (of resources: URIs) that may be registered
  PageSize,     \* items on a page, 20 in the code
  MaxVersion,   \* bound: how often a name is registered
  Clients,      \* sessions
  Extra         \* methods an experimental handler may add

ASSUME NamesAssumption == Names \subseteq Nat \ {0}
ASSUME PageSizeAssumption == PageSize \in Nat \ {0}
ASSUME MaxVersionAssumption == MaxVersion \in Nat \ {0}

VARIABLES
  kind,         \* "tools", "prompts", "resources" or "templates"
  experimental, \* the methods of Executors.Experimental, Nil if there is none
  version,      \* how often each name has been registered
  walk,         \* a client's walk through the pages: "idle", "on" or "over"
  cursor,       \* the NextCursor it was given last
  present,      \* names registered when it began (history)
  seen,         \* names on the pages it has got (history)
  twice,        \* names it has got more than once (history)
  get,          \* where its prompts/get is: "idle", "read", "processed" or "failed"
  wanted,       \* the prompt it asks for
  description,  \* the version its description comes from
  messages      \* the version its messages come from

registry == <<kind, experimental, version>>
walkVars == <<walk, cursor, present, seen, twice>>
getVars  == <<get, wanted, description, messages>>
vars == <<registry, walkVars, getVars>>

-----------------------------------------------------------------------------
(* The executors. A method is the sequence of its parts between slashes.   *)

Nil == {}

ToolMethods     == {<<"tools", "list">>, <<"tools", "get">>, <<"tools", "call">>}
PromptMethods   == {<<"prompts", "list">>, <<"prompts", "get">>}
ResourceMethods == {<<"resources", "list">>, <<"resources", "read">>, <<"resources", "subscribe">>,
                    <<"resources", "unsubscribe">>, <<"resources", "templates", "list">>}
UtilityMethods  == {<<"ping">>}

Methods == ToolMethods \cup PromptMethods \cup ResourceMethods \cup UtilityMethods \cup Extra

\* An executor of that name is there and its CanHandleMethod says yes.
Handles(executor, method) ==
  \/ executor = "tools" /\ method \in ToolMethods
  \/ executor = "prompts" /\ method \in PromptMethods
  \/ executor = "resources" /\ method \in ResourceMethods
  \/ executor = "utilities" /\ method \in UtilityMethods
  \/ executor = "experimental" /\ method \in experimental

\* The first executor that accepts a method, in the order they are asked.
Order == <<"tools", "prompts", "resources", "utilities", "experimental">>

CanHandleMethod(method) == \E i \in DOMAIN Order : Handles(Order[i], method)

FirstToAccept(method) ==
  Order[CHOOSE i \in DOMAIN Order :
          /\ Handles(Order[i], method)
          /\ \A j \in 1..(i - 1) : ~Handles(Order[j], method)]

\* Fault: a method with a known prefix goes to the executor of that name or nowhere.
HandleMethodByPrefix(method) ==
  IF Len(method) >= 2 /\ method[1] \in {"tools", "resources", "prompts"}
    THEN IF Handles(method[1], method) THEN method[1] ELSE "not found"
  ELSE IF Handles("utilities", method) THEN "utilities"
  ELSE IF Handles("experimental", method) THEN "experimental"
  ELSE "not found"

\* The executor a method is given to. An experimental handler is asked without
\* looking whether there is one. The others are looked at in CanHandleMethod only, but
\* never absent: the server has DefaultExecutors, which makes all four.
HandleMethod(method) ==
  IF /\ Len(method) >= 2 /\ method[1] \in {"tools", "resources", "prompts"}
     /\ Handles(method[1], method)
    THEN method[1]
  ELSE IF Handles("utilities", method) THEN "utilities"
  ELSE IF Handles("experimental", method) THEN "experimental"
  ELSE IF experimental = Nil THEN "panic" ELSE "not found"

-----------------------------------------------------------------------------
(* The registries.                                                         *)

Items == {n \in Names : version[n] > 0}

Init ==
  /\ kind \in {"tools", "prompts", "resources", "templates"}
  /\ experimental \in SUBSET Extra
  /\ version = [n \in Names |-> 0]
  /\ walk = [c \in Clients |-> "idle"] /\ cursor = [c \in Clients |-> 0]
  /\ present = [c \in Clients |-> {}] /\ seen = [c \in Clients |-> {}]
  /\ twice = [c \in Clients |-> {}]
  /\ get = [c \in Clients |-> "idle"] /\ wanted = [c \in Clients |-> 0]
  /\ description = [c \in Clients |-> 0] /\ messages = [c \in Clients |-> 0]

Store(n) ==
  /\ version[n] < MaxVersion
  /\ version' = [version EXCEPT ![n] = @ + 1]
  /\ UNCHANGED <<kind, experimental, walkVars, getVars>>

\* Fault: a tool replaces the one registered under its name.
RegisterToolAgain(n) == kind = "tools" /\ Store(n)

\* A tool whose name is taken is refused.
RegisterTool(n) == kind = "tools" /\ n \notin Items /\ Store(n)

\* Prompts, resources and templates replace what has their name.
RegisterPrompt(n)           == kind = "prompts" /\ Store(n)
RegisterResource(n)         == kind = "resources" /\ Store(n)
RegisterResourceTemplate(n) == kind = "templates" /\ Store(n)

-----------------------------------------------------------------------------
(* Listing. The walk ends with a page that carries no cursor.              *)

ListMethod == [tools     |-> <<"tools", "list">>,     prompts   |-> <<"prompts", "list">>,
               resources |-> <<"resources", "list">>, templates |-> <<"resources", "templates", "list">>]

ListExecutor == IF kind = "templates" THEN "resources" ELSE kind

\* Fault: the page begins with the cursor.
FromIncluding(c) == IF c \in Items THEN {n \in Items : n >= c} ELSE Items

\* Fault: the cursor is not looked up.
FromBeginning(c) == Items

\* What comes after the cursor; everything, for a cursor that is not there.
From(c) == IF c \in Items THEN {n \in Items : n > c} ELSE Items

UpTo(set, m) == {n \in set : n <= m}

GetPage(c, page, next) ==
  /\ seen' = [seen EXCEPT ![c] = @ \cup page]
  /\ twice' = [twice EXCEPT ![c] = @ \cup (page \cap seen[c])]
  /\ walk' = [walk EXCEPT ![c] = IF next = 0 THEN "over" ELSE "on"]
  /\ cursor' = [cursor EXCEPT ![c] = next]
  /\ UNCHANGED <<registry, getVars>>

\* Fault: the cursor of a page is the first item of the next one.
ListFirstOfNext(c) ==
  LET rest == From(cursor[c]) IN
  \/ Cardinality(rest) <= PageSize /\ GetPage(c, rest, 0)
  \/ /\ Cardinality(rest) > PageSize
     /\ \E next \in rest : /\ Cardinality(UpTo(rest, next)) = PageSize + 1
                           /\ GetPage(c, UpTo(rest, next) \ {next}, next)

\* A page for the cursor of client c: up to PageSize items, and a cursor if there
\* are more.
List(c) ==
  LET rest == From(cursor[c]) IN
  /\ HandleMethod(ListMethod[kind]) = ListExecutor
  /\ \/ Cardinality(rest) <= PageSize /\ GetPage(c, rest, 0)
     \/ /\ Cardinality(rest) > PageSize
        /\ \E last \in rest : /\ Cardinality(UpTo(rest, last)) = PageSize
                              /\ GetPage(c, UpTo(rest, last), last)

BeginWalk(c) ==
  /\ walk[c] = "idle"
  /\ present' = [present EXCEPT ![c] = Items]
  /\ List(c)

NextPage(c) ==
  /\ walk[c] = "on"
  /\ List(c)
  /\ UNCHANGED present

-----------------------------------------------------------------------------
(* prompts/get with arguments.                                             *)

GetPrompt(c) ==
  /\ kind = "prompts" /\ get[c] = "idle"
  /\ \E n \in Items :
       /\ wanted' = [wanted EXCEPT ![c] = n]
       /\ description' = [description EXCEPT ![c] = version[n]]
  /\ get' = [get EXCEPT ![c] = "read"]
  /\ UNCHANGED <<registry, walkVars, messages>>

\* Fault: the template of the first registration is kept.
ProcessPromptCached(c) ==
  /\ get[c] = "read"
  /\ messages' = [messages EXCEPT ![c] = 1]
  /\ get' = [get EXCEPT ![c] = "processed"]
  /\ UNCHANGED <<registry, walkVars, wanted, description>>

\* The prompt is looked up again, by its name. It may be one that requires other
\* arguments, or whose template is not valid.
ProcessPrompt(c) ==
  /\ get[c] = "read"
  /\ \/ /\ messages' = [messages EXCEPT ![c] = version[wanted[c]]]
        /\ get' = [get EXCEPT ![c] = "processed"]
     \/ get' = [get EXCEPT ![c] = "failed"] /\ UNCHANGED messages
  /\ UNCHANGED <<registry, walkVars, wanted, description>>

-----------------------------------------------------------------------------
Next ==
  \/ \E n \in Names : \/ RegisterTool(n) \/ RegisterPrompt(n)
                      \/ RegisterResource(n) \/ RegisterResourceTemplate(n)
  \/ \E c \in Clients : \/ BeginWalk(c) \/ NextPage(c)
                        \/ GetPrompt(c) \/ ProcessPrompt(c)

Spec == Init /\ [][Next]_vars

\* A client that has begun a walk asks for the next page.
FairSpec == Spec /\ \A c \in Clients : WF_vars(NextPage(c))

-----------------------------------------------------------------------------
TypeOK ==
  /\ kind \in {"tools", "prompts", "resources", "templates"}
  /\ experimental \subseteq Extra
  /\ version \in [Names -> 0..(IF kind = "tools" THEN 1 ELSE MaxVersion)]
  /\ walk \in [Clients -> {"idle", "on", "over"}]
  /\ cursor \in [Clients -> Names \cup {0}]
  /\ {present, seen, twice} \subseteq [Clients -> SUBSET Names]
  /\ get \in [Clients -> {"idle", "read", "processed", "failed"}]
  /\ wanted \in [Clients -> Names \cup {0}]
  /\ {description, messages} \subseteq [Clients -> 0..MaxVersion]

\* A client that follows the cursors to the end has got every item that was there
\* when it began, whatever is registered meanwhile (the cursors of ListTools,
\* ListPrompts, ListResources and ListResourceTemplates).
WalkComplete == \A c \in Clients : walk[c] = "over" => present[c] \subseteq seen[c]

\* ... and no item twice.
NothingTwice == \A c \in Clients : twice[c] = {}

\* ... and it comes to the end.
WalkEnds == \A c \in Clients : walk[c] = "on" ~> walk[c] = "over"

\* A method that CanHandleMethod accepts is handled by the executor that accepted
\* it: the two orders of Executors agree, and an absent experimental handler is
\* never asked.
HandledByAcceptor ==
  \A m \in Methods : CanHandleMethod(m) => HandleMethod(m) = FirstToAccept(m)

\* The messages of prompts/get are never older than its description, although the
\* prompt may be replaced between the two reads (handleGetPrompt).
MessagesNotOlder ==
  \A c \in Clients : get[c] = "processed" => description[c] <= messages[c]
=============================================================================
