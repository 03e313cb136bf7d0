---------------------------- MODULE Server_proofs ----------------------------
(***************************************************************************)
(* Proofs about Server, for any number of requests, starts and restarts.   *)
(***************************************************************************)
EXTENDS Server, TLAPS

-----------------------------------------------------------------------------
(* Start, Stop and the goroutine that listens.                             *)

\* What the steps of Start and Stop leave to each other. The first Start makes the
\* HTTP server, later ones do not; Stop shuts the one that the last Start made.
LifeInv ==
  /\ control \in {"idle", "startActors", "startRoot", "stopHttp"} /\ starts \in Nat
  /\ starts = 0 => /\ httpServer = "none" /\ listener = "none" /\ actors = "new"
                   /\ started = "none" /\ control \in {"idle", "stopHttp"}
  /\ httpServer # "none" \/ listener # "none" => ~router
  /\ createdServer => httpServer # "none"
  /\ starts = 1 /\ ~router => createdServer
  /\ control = "startActors" /\ starts = 1 => actors = "new"
  /\ control = "startRoot" => actors = "running"
  /\ control = "idle" /\ actors = "stopped" /\ starts = 1 => httpServer # "made"
  /\ httpServer \in {"none", "made", "shut"}
  /\ httpServer = "shut" => listener # "listening"
  /\ started = "ok" /\ starts = 1 /\ ~router => listener # "none"

\* Requests, sessions and their handlers have no part in it.
LEMMA OthersLeaveLife ==
  ASSUME \/ \E id \in sessions : SessionEnds(id)
         \/ \E r \in Requests, q \in Inquiries, first, query \in Ids : Arrive(r, q, first, query)
         \/ \E r \in Requests : Handle(r)
  PROVE  UNCHANGED <<lifeVars, controlVars, systemVars, listener>>
<1>1. CASE \E id \in sessions : SessionEnds(id)
  BY <1>1 DEF SessionEnds
<1>2. CASE \E r \in Requests, q \in Inquiries, first, query \in Ids : Arrive(r, q, first, query)
  BY <1>2 DEF Arrive
<1>3. ASSUME NEW r \in Requests, Handle(r) PROVE UNCHANGED <<lifeVars, controlVars, systemVars, listener>>
  BY <1>3 DEF Handle, Preflight, HandleMCPPost, HandleMessagePost, SerializeAuth, FindRoot, Send,
     SpawnSession, Initialize, SSEGet, FindSession, MakeSession, Connect, SpawnWatcher,
     StreamEnds
<1> QED BY <1>1, <1>2, <1>3

LEMMA LifeInit == Init => LifeInv
  BY DEF Init, LifeInv

LEMMA LifeStep == LifeInv /\ [Next]_vars => LifeInv'
<1> SUFFICES ASSUME LifeInv, [Next]_vars PROVE LifeInv'
  OBVIOUS
<1> USE DEF LifeInv, lifeVars, controlVars, systemVars
<1>1. ASSUME UNCHANGED <<lifeVars, controlVars, systemVars, listener>> PROVE LifeInv'
  BY <1>1
<1>2. CASE StartBegins
  BY <1>2 DEF StartBegins
<1>3. CASE StartActors
  BY <1>3 DEF StartActors
<1>4. CASE StartRoot
  BY <1>4 DEF StartRoot
<1>5. CASE Listen
  BY <1>5 DEF Listen
<1>6. CASE StopActors
  BY <1>6 DEF StopActors
<1>7. CASE StopHttp
  BY <1>7 DEF StopHttp
<1>8. CASE Restart
  BY <1>8 DEF Restart
<1>9. CASE UNCHANGED vars
  BY <1>1, <1>9 DEF vars
<1> QED BY <1>1, <1>2, <1>3, <1>4, <1>5, <1>6, <1>7, <1>8, <1>9, OthersLeaveLife DEF Next

\* Over every number of starts, stops and restarts, a started server listens and a
\* stopped one does not, but for a second Start (mcp_server.go, Start and Stop).
THEOREM StartedListens == Spec => []ListensWhileStarted
<1>1. LifeInv => ListensWhileStarted
  BY DEF LifeInv, ListensWhileStarted
<1> QED
  BY <1>1, LifeInit, LifeStep, PTL DEF Spec

-----------------------------------------------------------------------------
(* Ids and requests.                                                       *)

Places == {"none", "received", "auth", "root", "send", "spawnSession", "initialize",
           "findSession", "makeSession", "connect", "watch", "streaming", "stuck", "lost"} \cup Ended
Words == {"ok", "error", "unauthorized", "forbidden", "not found"}

\* The variables of the requests are functions on them.
RequestTypes ==
  /\ pc \in [Requests -> Places] /\ wrote \in [Requests -> Seq(Words)]
  /\ effects \in [Requests -> SUBSET {"session", "delivered", "stream"}]
  /\ DOMAIN request = Requests /\ DOMAIN session = Requests

IssuedIds == {i.id : i \in issued}

\* Names of principals: a name that is empty is that of nobody.
Names == Seq(STRING) \ {<<>>, <<Blank>>}

LEMMA PrincipalNamed ==
  ASSUME NEW caller, caller = Nobody \/ caller \in Seq(STRING) \ {<<>>}
  PROVE  Principal(caller) = Nobody \/ Principal(caller) \in Names
  BY DEF Principal, Names

\* The ids that a request may name.
Texts == IssuedIds \cup {NoId, Undelimited, Halved}

\* An issued id has the secret of its process and was made for a request that has
\* begun, which makes no other.
IdInv ==
  /\ process \in Nat \ {0}
  /\ \A i \in issued :
       /\ i.by \in 1..process /\ i.id.parts = 3
       /\ i.id.key = (IF configured THEN 0 ELSE i.by)
       /\ i.id.caller = <<>> \/ i.id.caller \in Names
       /\ i.id.random \in Requests /\ pc[i.id.random] \notin {"none", "received"}
  /\ known \subseteq IssuedIds \cup {Undelimited}
  /\ sessions \subseteq IssuedIds \cup {Undelimited}

Active == {"received", "auth", "root", "send", "spawnSession", "initialize",
           "findSession", "makeSession", "connect", "watch", "streaming"}
Messaging == {"auth", "root", "send", "spawnSession", "initialize"}
Opening == {"findSession", "makeSession", "connect"}

First(r, word) == wrote[r] # <<>> /\ wrote[r][1] = word

\* An honoured id is the request's.
Honoured(r) ==
  \E i \in issued : i.id = session[r] /\ Honours(request[r].process, i) /\ Belongs(i.id, request[r])

\* An id that opens a stream is honoured, whoever it belongs to, or was refused.
Opened(r) ==
  \/ \E i \in issued : i.id = session[r] /\ Honours(request[r].process, i)
  \/ First(r, "forbidden")

\* An id that was refused is not honoured, or hidden by its caller's name.
RefusedRightly(r) ==
  \A i \in issued : i.id = session[r] /\ Belongs(i.id, request[r]) =>
    ~(Honours(request[r].process, i) /\ Legible(i.id))

\* A request and what it was asked with.
Asked(r) ==
  /\ pc[r] \in {"none", "received"} => session[r] = NoId /\ wrote[r] = <<>> /\ effects[r] = {}
  /\ pc[r] # "none" =>
       /\ request[r].caller = Nobody \/ request[r].caller \in Seq(STRING) \ {<<>>}
       /\ request[r].endpoint \in Endpoints
       /\ request[r].first \in Texts /\ request[r].query \in Texts
  /\ pc[r] \in Active => request[r].process = process
  /\ session[r] \in Texts
  /\ pc[r] \in Messaging \cup Opening => session[r] \in IssuedIds \cup {Undelimited}

\* How its id was taken.
Taken(r) ==
  /\ pc[r] \in Messaging \/ "delivered" \in effects[r] => Honoured(r)
  /\ pc[r] \in Opening => Opened(r)
  /\ First(r, "unauthorized") => RefusedRightly(r)

\* Where sessions come from.
SessionInv ==
  \A id \in sessions :
    \/ \E i \in issued : i.id = id /\ Honours(process, i)
    \/ \E r \in Requests : session[r] = id /\ First(r, "forbidden")

RequestInv == RequestTypes /\ IdInv /\ SessionInv /\ \A r \in Requests : Asked(r) /\ Taken(r)

\* The texts that are no ids differ from those that are.
LEMMA TextKinds ==
  /\ NoId.parts = 0 /\ Undelimited.parts = 1 /\ Halved.parts = 2
  /\ NoId # Undelimited /\ NoId # Halved
  /\ IdInv => NoId \notin IssuedIds \cup {Undelimited} /\ Halved \notin IssuedIds \cup {Undelimited}
<1>1. NoId.parts = 0 /\ Undelimited.parts = 1 /\ Halved.parts = 2
  BY DEF NoId, Undelimited, Halved
<1> QED BY <1>1 DEF IdInv, IssuedIds

\* What a verified id is.
LEMMA Verified ==
  ASSUME IdInv, NEW id \in Texts, NEW caller, caller = Nobody \/ caller \in Names
  PROVE  /\ VerifySessionId(id, caller) = "panic" <=> id = Halved
         /\ VerifySessionId(id, caller) = "accepted" =>
              \E i \in issued : /\ i.id = id /\ Honours(process, i)
                                /\ caller # Nobody => id.caller = caller
         /\ VerifySessionId(id, caller) = "refused" =>
              /\ id \in IssuedIds \cup {NoId, Undelimited}
              /\ \A i \in issued : i.id = id /\ (caller # Nobody => id.caller = caller) =>
                   ~(Honours(process, i) /\ Legible(id))
         /\ VerifySessionId(id, caller) \in {"panic", "accepted", "refused"}
<1>1. CASE id \in {NoId, Undelimited, Halved}
  <2>1. \A i \in issued : i.id # id
    BY <1>1, TextKinds DEF IdInv
  <2>2. VerifySessionId(id, caller) = IF id = Halved THEN "panic" ELSE "refused"
    BY <1>1, TextKinds DEF VerifySessionId, Named
  <2> QED BY <1>1, <2>1, <2>2
<1>2. CASE id \in IssuedIds
  <2>1. PICK i \in issued : i.id = id
    BY <1>2 DEF IssuedIds
  <2>2. id.parts = 3 /\ id # Halved /\ (id.caller = <<>> \/ id.caller \in Names)
    BY <2>1, TextKinds DEF IdInv
  <2>3. \A j \in issued : j.id = id => (Honours(process, j) <=> id.key = Secret)
    BY DEF IdInv, Honours, Secret
  <2>4. ASSUME id.caller \in Names, Len(id.caller) <= 1
        PROVE  <<id.caller[1]>> = id.caller
    BY <2>4 DEF Names
  <2>5. ASSUME caller # Nobody, Len(id.caller) <= 1, id.caller # <<>>, <<id.caller[1]>> = caller
        PROVE  id.caller = caller
    BY <2>2, <2>4, <2>5
  <2>6. VerifySessionId(id, caller) \in {"accepted", "refused"}
    BY <2>2 DEF VerifySessionId, Named
  <2>7. ASSUME VerifySessionId(id, caller) = "accepted"
        PROVE  Honours(process, i) /\ (caller # Nobody => id.caller = caller)
    <3>1. Len(id.caller) <= 1 /\ id.key = Secret
      BY <2>2, <2>7 DEF VerifySessionId, Named
    <3>2. caller # Nobody => id.caller # <<>> /\ <<id.caller[1]>> = caller
      BY <2>2, <2>7 DEF VerifySessionId, Named
    <3> QED BY <2>1, <2>3, <2>5, <3>1, <3>2
  <2>8. ASSUME VerifySessionId(id, caller) = "refused", caller # Nobody => id.caller = caller,
               id.key = Secret, Legible(id)
        PROVE  FALSE
    <3>1. Len(id.caller) <= 1 /\ id.caller # <<Blank>>
      <4>1. <<>> # <<Blank>>
        OBVIOUS
      <4>2. id.caller # <<Blank>>
        BY <2>2, <4>1 DEF Names
      <4> QED BY <2>8, <4>2 DEF Legible
    <3>2. caller # Nobody => id.caller # <<>> /\ <<id.caller[1]>> = id.caller /\ id.caller[1] # Blank
      BY <2>2, <2>4, <2>8, <3>1
    <3>3. VerifySessionId(id, caller) = "accepted"
      <4>1. CASE caller = Nobody
        BY <2>2, <2>8, <3>1, <4>1 DEF VerifySessionId, Named
      <4>2. CASE caller # Nobody
        <5>1. id.caller # <<>> /\ id.caller[1] # Blank /\ <<id.caller[1]>> = caller
          BY <2>8, <3>2, <4>2
        <5> QED BY <2>2, <2>8, <3>1, <5>1 DEF VerifySessionId, Named
      <4> QED BY <4>1, <4>2
    <3> QED BY <2>8, <3>3
  <2> QED BY <1>2, <2>1, <2>2, <2>3, <2>6, <2>7, <2>8
<1> QED BY <1>1, <1>2 DEF Texts

\* Nothing of a request has changed.
Unmoved(r) ==
  /\ pc'[r] = pc[r] /\ request'[r] = request[r] /\ session'[r] = session[r]
  /\ wrote'[r] = wrote[r] /\ effects'[r] = effects[r]

\* Ids are only added, and new ones are told apart from all that were named before.
IdsGrow ==
  /\ issued \subseteq issued' /\ configured' = configured
  /\ \A i \in issued' \ issued : i.id \notin Texts

\* A request that does nothing keeps what is known of it, and so does one that is lost.
LEMMA UnmovedKeeps ==
  ASSUME NEW r \in Requests, Asked(r), Taken(r), IdsGrow,
         Unmoved(r) \/ (/\ pc[r] # "none" /\ pc'[r] = "lost"
                        /\ UNCHANGED <<request, session, wrote, effects>>),
         process' = process \/ pc'[r] \notin Active
  PROVE  Asked(r)' /\ Taken(r)'
<1>1. IssuedIds \subseteq IssuedIds' /\ Texts \subseteq Texts'
  BY DEF IdsGrow, IssuedIds, Texts, Undelimited, Halved, NoId
<1>2. request'[r] = request[r] /\ session'[r] = session[r] /\ wrote'[r] = wrote[r] /\ effects'[r] = effects[r]
  BY DEF Unmoved
<1>3. pc'[r] = pc[r] \/ (pc[r] # "none" /\ pc'[r] = "lost")
  BY DEF Unmoved
<1>4. Asked(r)'
  <2>1. pc'[r] \in Active => pc'[r] = pc[r] /\ process' = process
    BY <1>3 DEF Active
  <2>2. pc'[r] \in Messaging \cup Opening => pc'[r] = pc[r]
    BY <1>3 DEF Messaging, Opening
  <2>3. Undelimited' = Undelimited
    BY DEF Undelimited, NoId
  <2>4. NoId' = NoId
    BY DEF NoId
  <2> QED BY <1>1, <1>2, <1>3, <2>1, <2>2, <2>3, <2>4 DEF Asked
<1>7. Honoured(r) => Honoured(r)'
  BY <1>2 DEF Honoured, Honours, Belongs, Principal, IdsGrow
<1>8. Opened(r) => Opened(r)'
  BY <1>2 DEF Opened, Honours, First, IdsGrow
<1>9. Taken(r)'
  <2>1. pc'[r] \in Messaging \/ "delivered" \in effects'[r] => Honoured(r)'
    BY <1>2, <1>3, <1>7 DEF Taken, Messaging
  <2>2. pc'[r] \in Opening => Opened(r)'
    BY <1>3, <1>8 DEF Taken, Opening
  <2>3. ASSUME First(r, "unauthorized")' PROVE RefusedRightly(r)'
    <3>1. First(r, "unauthorized")
      BY <1>2, <2>3 DEF First
    <3>2. \A i \in issued' : i.id = session[r] => i \in issued
      BY DEF Asked, IdsGrow
    <3> QED BY <1>2, <3>1, <3>2 DEF Taken, RefusedRightly, Honours, IdsGrow, Belongs, Principal, Legible
  <2> QED BY <2>1, <2>2, <2>3 DEF Taken
<1> QED BY <1>4, <1>9

-----------------------------------------------------------------------------
(* Steps that leave the requests alone, and the life of a request.         *)

LEMMA LifeKeepsRequests ==
  ASSUME RequestInv, UNCHANGED <<process, configured, idVars, requestVars>>, sessions' \subseteq sessions
  PROVE  RequestInv'
<1> USE DEF idVars, requestVars
<1>1. RequestTypes' /\ IdsGrow
  BY DEF RequestInv, RequestTypes, IdsGrow
<1>2. \A r \in Requests : Asked(r)' /\ Taken(r)'
  BY <1>1, UnmovedKeeps DEF RequestInv, Unmoved
<1>3. IdInv'
  BY DEF RequestInv, IdInv, IssuedIds, Undelimited, NoId
<1>4. SessionInv'
  BY DEF RequestInv, SessionInv, Honours, First
<1> QED BY <1>1, <1>2, <1>3, <1>4 DEF RequestInv

LEMMA RestartKeepsRequests ==
  ASSUME RequestInv, Restart
  PROVE  RequestInv'
<1>1. /\ process' = process + 1 /\ sessions' = {} /\ configured' = configured
      /\ UNCHANGED <<idVars, request, session, wrote, effects>>
      /\ pc' = [r \in Requests |-> IF pc[r] \in {"none", "done", "panicked"} THEN pc[r] ELSE "lost"]
  BY DEF Restart
<1>2. RequestTypes'
  BY <1>1 DEF RequestInv, RequestTypes, Places, Ended
<1>3. IdsGrow
  BY <1>1 DEF IdsGrow, idVars
<1>4. \A r \in Requests : Asked(r)' /\ Taken(r)'
  <2> TAKE r \in Requests
  <2>1. pc'[r] \notin Active
    BY <1>1 DEF Active
  <2>2. Unmoved(r) \/ (/\ pc[r] # "none" /\ pc'[r] = "lost"
                       /\ UNCHANGED <<request, session, wrote, effects>>)
    BY <1>1 DEF Unmoved
  <2> QED BY <1>3, <2>1, <2>2, UnmovedKeeps DEF RequestInv
<1>5. IdInv'
  <2>1. \A r \in Requests : pc[r] \notin {"none", "received"} => pc'[r] \notin {"none", "received"}
    BY <1>1
  <2> QED BY <1>1, <2>1 DEF RequestInv, IdInv, IssuedIds, Undelimited, NoId, idVars
<1>6. SessionInv'
  BY <1>1 DEF SessionInv
<1> QED BY <1>2, <1>4, <1>5, <1>6 DEF RequestInv

LEMMA ArriveKeepsRequests ==
  ASSUME RequestInv, NEW r \in Requests, NEW q \in Inquiries, NEW first \in Ids, NEW query \in Ids,
         Arrive(r, q, first, query)
  PROVE  RequestInv'
<1>1. /\ pc[r] = "none" /\ pc' = [pc EXCEPT ![r] = "received"]
      /\ request' = [request EXCEPT ![r] =
           [endpoint |-> q.endpoint, via |-> q.via, body |-> q.body, caller |-> q.caller,
            first |-> first, query |-> query, process |-> process]]
      /\ UNCHANGED <<lifeVars, sessions, idVars, session, wrote, effects>>
  BY DEF Arrive, At, Go
<1>2. RequestTypes'
  BY <1>1 DEF RequestInv, RequestTypes, Places
<1>3. IdsGrow
  BY <1>1 DEF IdsGrow, idVars, lifeVars
<1>4. ASSUME NEW t \in Requests PROVE Asked(t)' /\ Taken(t)'
  <2>1. CASE t # r
    <3>1. Unmoved(t)
      BY <1>1, <2>1 DEF Unmoved, RequestInv, RequestTypes
    <3> QED BY <1>1, <1>3, <3>1, UnmovedKeeps DEF RequestInv, lifeVars
  <2>2. CASE t = r
    <3>1. pc'[r] = "received" /\ session'[r] = NoId /\ wrote'[r] = <<>> /\ effects'[r] = {}
      BY <1>1 DEF RequestInv, RequestTypes, Asked
    <3>2. /\ request'[r].caller = q.caller /\ request'[r].endpoint = q.endpoint
          /\ request'[r].first = first /\ request'[r].query = query /\ request'[r].process = process
      BY <1>1 DEF RequestInv, RequestTypes
    <3>3. first \in Texts /\ query \in Texts /\ Texts' = Texts /\ NoId \in Texts
      BY <1>1 DEF RequestInv, IdInv, Ids, Texts, IssuedIds, idVars, Undelimited, Halved, NoId
    <3>4. NoId' = NoId
      BY DEF NoId
    <3>5. Asked(r)'
      BY <1>1, <3>1, <3>2, <3>3, <3>4, InquiriesAssumption
      DEF Asked, lifeVars, Messaging, Opening
    <3>6. Taken(r)'
      BY <3>1 DEF Taken, Messaging, Opening, First
    <3> QED BY <2>2, <3>5, <3>6
  <2> QED BY <2>1, <2>2
<1>5. IdInv'
  BY <1>1 DEF RequestInv, RequestTypes, IdInv, IssuedIds, Undelimited, NoId, idVars, lifeVars
<1>6. SessionInv'
  BY <1>1 DEF RequestInv, SessionInv, Honours, First, idVars, lifeVars
<1> QED BY <1>2, <1>4, <1>5, <1>6 DEF RequestInv

-----------------------------------------------------------------------------
(* A step of one handler.                                                  *)

\* A request makes an id of its own.
MakesId(r) ==
  /\ pc[r] = "received"
  /\ \E caller : /\ caller = Nobody \/ caller \in Names
                 /\ issued' = issued \cup {[id |-> GenerateSessionId(r, caller), by |-> process]}

\* What a handler's step may do to the ids and the sessions, and what it must
\* establish of its own request.
HandlerStep(r) ==
  /\ request' = request /\ UNCHANGED <<process, configured>>
  /\ RequestTypes' /\ pc[r] \in Active /\ pc'[r] \notin {"none", "received"}
  /\ \A t \in Requests \ {r} : Unmoved(t)
  /\ issued' = issued \/ MakesId(r)
  /\ session'[r] = session[r] \/ pc[r] = "received"
  /\ \A word \in Words : First(r, word) => First(r, word)'
  /\ known' = known \/ (known' = known \cup {session'[r]} /\ session'[r] \in (IssuedIds \cup {Undelimited})')
  /\ \/ sessions' = sessions
     \/ /\ sessions' = sessions \cup {session[r]} /\ session'[r] = session[r]
        /\ session[r] \in IssuedIds \cup {Undelimited} /\ Opened(r)

\* An id that a request makes is new.
LEMMA GeneratedIsNew ==
  ASSUME RequestInv, NEW r \in Requests, pc[r] = "received", NEW caller,
         caller = Nobody \/ caller \in Names
  PROVE  LET id == GenerateSessionId(r, caller)
         IN /\ id \notin Texts
            /\ id.parts = 3 /\ id.random = r /\ id.key = (IF configured THEN 0 ELSE process)
            /\ id.caller = <<>> \/ id.caller \in Names
            /\ caller # Nobody => id.caller = caller
<1> DEFINE id == GenerateSessionId(r, caller)
<1>1. /\ id.parts = 3 /\ id.random = r /\ id.key = (IF configured THEN 0 ELSE process)
      /\ id.caller = CallerParts(caller)
  BY DEF GenerateSessionId, Secret
<1>2. id \notin {NoId, Undelimited, Halved}
  BY <1>1, TextKinds
<1>3. id \notin IssuedIds
  BY <1>1 DEF RequestInv, IdInv, IssuedIds
<1>4. /\ id.caller = <<>> \/ id.caller \in Names
      /\ caller # Nobody => id.caller = caller
  BY <1>1 DEF CallerParts
<1> QED BY <1>1, <1>2, <1>3, <1>4 DEF Texts

LEMMA HandlerGrows ==
  ASSUME RequestInv, NEW r \in Requests, HandlerStep(r)
  PROVE  IdsGrow
<1>1. CASE issued' = issued
  BY <1>1 DEF HandlerStep, IdsGrow
<1>2. CASE MakesId(r)
  <2>1. PICK caller : /\ caller = Nobody \/ caller \in Names
                      /\ issued' = issued \cup {[id |-> GenerateSessionId(r, caller), by |-> process]}
    BY <1>2 DEF MakesId
  <2>2. GenerateSessionId(r, caller) \notin Texts
    BY <1>2, <2>1, GeneratedIsNew DEF MakesId
  <2> QED BY <2>1, <2>2 DEF HandlerStep, IdsGrow
<1> QED BY <1>1, <1>2 DEF HandlerStep

LEMMA HandlerKeeps ==
  ASSUME RequestInv, NEW r \in Requests, HandlerStep(r), Asked(r)', Taken(r)'
  PROVE  RequestInv'
<1>1. IdsGrow /\ RequestTypes' /\ process' = process /\ configured' = configured
  BY HandlerGrows DEF HandlerStep
<1>2. \A t \in Requests : Asked(t)' /\ Taken(t)'
  BY <1>1, UnmovedKeeps DEF RequestInv, HandlerStep
<1>3. IssuedIds \subseteq IssuedIds' /\ Undelimited' = Undelimited
  BY <1>1 DEF IdsGrow, IssuedIds, Undelimited, NoId
<1>4. IdInv'
  <2>1. \A t \in Requests : pc[t] \notin {"none", "received"} => pc'[t] \notin {"none", "received"}
    BY DEF HandlerStep, Unmoved
  <2>2. ASSUME NEW i \in issued'
        PROVE  /\ i.by \in 1..process /\ i.id.parts = 3
               /\ i.id.key = (IF configured THEN 0 ELSE i.by)
               /\ i.id.caller = <<>> \/ i.id.caller \in Names
               /\ i.id.random \in Requests /\ pc'[i.id.random] \notin {"none", "received"}
    <3>1. CASE i \in issued
      BY <2>1, <3>1 DEF RequestInv, IdInv
    <3>2. CASE i \notin issued
      <4>1. PICK caller : /\ caller = Nobody \/ caller \in Names
                          /\ i = [id |-> GenerateSessionId(r, caller), by |-> process]
        BY <3>2 DEF HandlerStep, MakesId
      <4>2. pc[r] = "received" /\ process \in 1..process /\ pc'[r] \notin {"none", "received"}
        BY <3>2 DEF HandlerStep, MakesId, RequestInv, IdInv
      <4> QED BY <4>1, <4>2, GeneratedIsNew
    <3> QED BY <3>1, <3>2
  <2>3. known' \subseteq (IssuedIds \cup {Undelimited})'
    BY <1>3 DEF HandlerStep, RequestInv, IdInv
  <2>4. sessions' \subseteq (IssuedIds \cup {Undelimited})'
    BY <1>3 DEF HandlerStep, RequestInv, IdInv
  <2> QED BY <1>1, <2>2, <2>3, <2>4 DEF RequestInv, IdInv
<1>5. SessionInv'
  <2> SUFFICES ASSUME NEW id \in sessions'
               PROVE  \/ \E i \in issued' : i.id = id /\ (configured \/ i.by = process)
                      \/ \E t \in Requests : session'[t] = id /\ First(t, "forbidden")'
    BY <1>1 DEF SessionInv, Honours
  <2>1. \A t \in Requests : First(t, "forbidden") => First(t, "forbidden")'
    BY DEF HandlerStep, Unmoved, First, Words
  <2>2. CASE id \in sessions
    <3>1. \/ \E i \in issued : i.id = id /\ (configured \/ i.by = process)
          \/ \E t \in Requests : session[t] = id /\ First(t, "forbidden")
      BY <2>2 DEF RequestInv, SessionInv, Honours
    <3>2. \A t \in Requests : First(t, "forbidden") => session'[t] = session[t]
      BY DEF HandlerStep, Unmoved, First, RequestInv, Asked
    <3> QED BY <1>1, <2>1, <3>1, <3>2 DEF IdsGrow
  <2>3. CASE id \notin sessions
    <3>1. id = session[r] /\ session'[r] = session[r] /\ Opened(r)
      BY <2>3 DEF HandlerStep
    <3>2. request[r].process = process
      BY DEF HandlerStep, RequestInv, Asked
    <3> QED BY <1>1, <2>1, <3>1, <3>2 DEF Opened, Honours, IdsGrow
  <2> QED BY <2>2, <2>3
<1> QED BY <1>1, <1>2, <1>4, <1>5 DEF RequestInv

\* A step that leaves the ids and goes on to a place it may go to from here.
LEMMA LaterKeeps ==
  ASSUME RequestInv, NEW r \in Requests, pc[r] \in Active \ {"received"},
         UNCHANGED <<process, configured, issued, request, session>>,
         RequestTypes', \A t \in Requests \ {r} : Unmoved(t),
         pc'[r] \notin {"none", "received"},
         pc'[r] \in Active => pc[r] \in Active,
         pc'[r] \in Messaging => pc[r] \in Messaging, pc'[r] \in Opening => pc[r] \in Opening,
         "delivered" \in effects'[r] => "delivered" \in effects[r] \/ pc[r] \in Messaging,
         wrote[r] # <<>> => wrote'[r] # <<>> /\ wrote'[r][1] = wrote[r][1],
         wrote[r] = <<>> => ~(wrote'[r] # <<>> /\ wrote'[r][1] = "unauthorized"),
         known' = known \/ (known' = known \cup {session[r]} /\ pc[r] \in Messaging \cup Opening),
         \/ sessions' = sessions
         \/ sessions' = sessions \cup {session[r]} /\ pc[r] \in {"spawnSession", "makeSession"}
  PROVE  RequestInv'
<1>1. \A word \in Words : First(r, word) => First(r, word)'
  BY DEF First
<1>2. IssuedIds' = IssuedIds /\ Undelimited' = Undelimited /\ NoId' = NoId /\ Texts' = Texts
  BY DEF IssuedIds, Undelimited, NoId, Texts, Halved
<1>3. pc[r] \in Messaging \cup Opening => session[r] \in IssuedIds \cup {Undelimited}
  BY DEF RequestInv, Asked
<1>4. pc[r] \in {"spawnSession", "makeSession"} => pc[r] \in Messaging \cup Opening /\ Opened(r)
  BY DEF RequestInv, Taken, Honoured, Opened, Messaging, Opening
<1>5. HandlerStep(r)
  <2>1. \/ known' = known
        \/ known' = known \cup {session'[r]} /\ session'[r] \in (IssuedIds \cup {Undelimited})'
    BY <1>2, <1>3
  <2>2. \/ sessions' = sessions
        \/ /\ sessions' = sessions \cup {session[r]} /\ session'[r] = session[r]
           /\ session[r] \in IssuedIds \cup {Undelimited} /\ Opened(r)
    BY <1>3, <1>4
  <2> QED BY <1>1, <2>1, <2>2 DEF HandlerStep
<1>6. Asked(r)'
  BY <1>2, <1>3 DEF Asked, RequestInv, Active
<1>7. Taken(r)'
  <2>1. Honoured(r) => Honoured(r)'
    BY DEF Honoured, Honours, Belongs, Principal
  <2>2. Opened(r) => Opened(r)'
    BY <1>1 DEF Opened, Honours, Words
  <2>3. First(r, "unauthorized")' => First(r, "unauthorized")
    BY DEF First
  <2>4. RefusedRightly(r) => RefusedRightly(r)'
    BY DEF RefusedRightly, Honours, Belongs, Principal, Legible
  <2> QED BY <2>1, <2>2, <2>3, <2>4 DEF Taken, RequestInv
<1> QED BY <1>5, <1>6, <1>7, HandlerKeeps

\* What Write, Go and Effect change.
LEMMA WriteMoves ==
  ASSUME RequestTypes, NEW r \in Requests, NEW what \in Words, Write(r, what)
  PROVE  /\ wrote' \in [Requests -> Seq(Words)] /\ wrote'[r] = Append(wrote[r], what)
         /\ \A t \in Requests \ {r} : wrote'[t] = wrote[t]
         /\ wrote[r] # <<>> => wrote'[r] # <<>> /\ wrote'[r][1] = wrote[r][1]
         /\ wrote[r] = <<>> => wrote'[r] = <<what>> /\ wrote'[r][1] = what
<1>1. wrote[r] \in Seq(Words)
  BY DEF RequestTypes
<1>2. wrote' = [wrote EXCEPT ![r] = Append(wrote[r], what)]
  BY DEF Write
<1>3. Append(wrote[r], what) \in Seq(Words)
  BY <1>1
<1>4. wrote'[r] = Append(wrote[r], what)
  BY <1>2 DEF RequestTypes
<1>5. wrote[r] # <<>> => Append(wrote[r], what) # <<>> /\ Append(wrote[r], what)[1] = wrote[r][1]
  BY <1>1
<1>6. wrote[r] = <<>> => Append(wrote[r], what) = <<what>>
  BY <1>1
<1> QED BY <1>2, <1>3, <1>4, <1>5, <1>6 DEF RequestTypes

LEMMA GoMoves ==
  ASSUME RequestTypes, NEW r \in Requests, NEW where \in Places, Go(r, where)
  PROVE  /\ pc' \in [Requests -> Places] /\ pc'[r] = where
         /\ \A t \in Requests \ {r} : pc'[t] = pc[t]
  BY DEF RequestTypes, Go

LEMMA EffectMoves ==
  ASSUME RequestTypes, NEW r \in Requests, NEW what \in {"session", "delivered", "stream"}, Effect(r, what)
  PROVE  /\ effects' \in [Requests -> SUBSET {"session", "delivered", "stream"}]
         /\ effects'[r] = effects[r] \cup {what}
         /\ \A t \in Requests \ {r} : effects'[t] = effects[t]
  BY DEF RequestTypes, Effect

LEMMA PanicMoves ==
  ASSUME RequestTypes, NEW r \in Requests, NEW before \in Seq(Words), Panic(r, before)
  PROVE  /\ pc' \in [Requests -> Places] /\ pc'[r] = "panicked"
         /\ wrote' \in [Requests -> Seq(Words)]
         /\ wrote'[r] = before \/ wrote'[r] = before \o <<"error">>
         /\ before # <<>> => wrote'[r] # <<>> /\ wrote'[r][1] = before[1]
         /\ before = <<>> => wrote'[r] = <<>> \/ wrote'[r] = <<"error">>
         /\ \A t \in Requests \ {r} : pc'[t] = pc[t] /\ wrote'[t] = wrote[t]
<1>1. /\ pc' \in [Requests -> Places] /\ pc'[r] = "panicked"
      /\ \A t \in Requests \ {r} : pc'[t] = pc[t]
  BY GoMoves DEF Panic, Places, Ended
<1> DEFINE after == before \o IF Recovered(request[r]) THEN <<"error">> ELSE <<>>
<1>2. after = before \/ after = before \o <<"error">>
  OBVIOUS
<1>3. /\ before \o <<"error">> \in Seq(Words)
      /\ before # <<>> => (before \o <<"error">>)[1] = before[1] /\ before \o <<"error">> # <<>>
      /\ before = <<>> => before \o <<"error">> = <<"error">>
  <2>0. "error" \in Words
    BY DEF Words
  <2>1. <<"error">> \in Seq(Words)
    BY <2>0
  <2>2. before \o <<"error">> \in Seq(Words)
    BY <2>1
  <2>3. Len(before \o <<"error">>) = Len(before) + 1
    BY <2>1
  <2>4. before # <<>> => Len(before) >= 1
    OBVIOUS
  <2>5. before # <<>> => (before \o <<"error">>)[1] = before[1]
    BY <2>1, <2>4
  <2>6. before \o <<"error">> # <<>>
    BY <2>1, <2>3
  <2>7. <<>> \o <<"error">> = <<"error">>
    BY <2>1
  <2> QED BY <2>2, <2>5, <2>6, <2>7
<1>4. wrote' = [wrote EXCEPT ![r] = after]
  BY DEF Panic
<1>5. after \in Seq(Words)
  BY <1>2, <1>3
<1>6. wrote'[r] = after
  BY <1>4 DEF RequestTypes
<1>7. wrote' \in [Requests -> Seq(Words)] /\ \A t \in Requests \ {r} : wrote'[t] = wrote[t]
  BY <1>4, <1>5 DEF RequestTypes
<1> HIDE DEF after
<1> QED BY <1>1, <1>2, <1>3, <1>6, <1>7

LEMMA SerializeAuthKeeps ==
  ASSUME RequestInv, NEW r \in Requests, SerializeAuth(r)
  PROVE  RequestInv'
<1>1. /\ pc[r] = "auth" /\ Go(r, "root") /\ (wrote' = wrote \/ Write(r, "error"))
      /\ UNCHANGED <<lifeVars, sessions, idVars, request, session, effects>>
  BY DEF SerializeAuth, At
<1>2. pc' \in [Requests -> Places] /\ pc'[r] = "root" /\ \A t \in Requests \ {r} : pc'[t] = pc[t]
  BY <1>1, GoMoves DEF Places, RequestInv
<1>3. /\ wrote' \in [Requests -> Seq(Words)] /\ \A t \in Requests \ {r} : wrote'[t] = wrote[t]
      /\ wrote[r] # <<>> => wrote'[r] # <<>> /\ wrote'[r][1] = wrote[r][1]
      /\ wrote[r] = <<>> => ~(wrote'[r] # <<>> /\ wrote'[r][1] = "unauthorized")
  BY <1>1, WriteMoves DEF RequestInv, RequestTypes, Words
<1>4. RequestTypes' /\ \A t \in Requests \ {r} : Unmoved(t)
  BY <1>1, <1>2, <1>3 DEF RequestInv, RequestTypes, Unmoved
<1> QED BY <1>1, <1>2, <1>3, <1>4, LaterKeeps DEF Active, Messaging, Opening, lifeVars, idVars

LEMMA FindRootKeeps ==
  ASSUME RequestInv, NEW r \in Requests, FindRoot(r)
  PROVE  RequestInv'
<1>1. pc[r] = "root" /\ UNCHANGED <<lifeVars, sessions, idVars, request, session, effects>>
  BY DEF FindRoot, At
<1>2. wrote[r] \in Seq(Words)
  BY DEF RequestInv, RequestTypes
<1>3. /\ pc' \in [Requests -> Places] /\ pc'[r] \in {"send", "done", "panicked"}
      /\ \A t \in Requests \ {r} : pc'[t] = pc[t] /\ wrote'[t] = wrote[t]
      /\ wrote' \in [Requests -> Seq(Words)]
      /\ wrote[r] # <<>> => wrote'[r] # <<>> /\ wrote'[r][1] = wrote[r][1]
      /\ wrote[r] = <<>> => ~(wrote'[r] # <<>> /\ wrote'[r][1] = "unauthorized")
  <2>1. CASE Go(r, "send") /\ wrote' = wrote
    BY <2>1, <1>2, GoMoves DEF RequestInv, RequestTypes, Places
  <2>2. CASE Reply(r, "error")
    BY <2>2, GoMoves, WriteMoves DEF RequestInv, Reply, Places, Ended, Words
  <2>3. CASE Panic(r, Append(wrote[r], "error"))
    <3>1. Append(wrote[r], "error") \in Seq(Words)
      <4>1. "error" \in Words
        BY DEF Words
      <4> QED BY <1>2, <4>1
    <3>2. Append(wrote[r], "error") # <<>>
      BY <1>2
    <3>3. wrote[r] # <<>> => Append(wrote[r], "error")[1] = wrote[r][1]
      BY <1>2
    <3>4. wrote[r] = <<>> => Append(wrote[r], "error")[1] = "error"
      BY <1>2
    <3>5. /\ wrote'[r] # <<>> /\ wrote'[r][1] = Append(wrote[r], "error")[1]
          /\ pc' \in [Requests -> Places] /\ pc'[r] = "panicked"
          /\ \A t \in Requests \ {r} : pc'[t] = pc[t] /\ wrote'[t] = wrote[t]
          /\ wrote' \in [Requests -> Seq(Words)]
      BY <2>3, <3>1, <3>2, PanicMoves DEF RequestInv
    <3> QED BY <3>3, <3>4, <3>5
  <2> QED BY <2>1, <2>2, <2>3 DEF FindRoot
<1>4. RequestTypes' /\ \A t \in Requests \ {r} : Unmoved(t)
  BY <1>1, <1>3 DEF RequestInv, RequestTypes, Unmoved
<1> QED BY <1>1, <1>3, <1>4, LaterKeeps DEF Active, Messaging, Opening, lifeVars, idVars

LEMMA SendKeeps ==
  ASSUME RequestInv, NEW r \in Requests, Send(r)
  PROVE  RequestInv'
<1>1. /\ pc[r] = "send" /\ UNCHANGED <<lifeVars, sessions, idVars, request, session>>
      /\ Reply(r, "ok") \/ Reply(r, "error") \/ Reply(r, "not found")
      /\ Effect(r, "delivered") \/ effects' = effects
  BY DEF Send, At
<1>2. /\ pc' \in [Requests -> Places] /\ pc'[r] = "done"
      /\ \A t \in Requests \ {r} : pc'[t] = pc[t] /\ wrote'[t] = wrote[t]
      /\ wrote' \in [Requests -> Seq(Words)]
      /\ wrote[r] # <<>> => wrote'[r] # <<>> /\ wrote'[r][1] = wrote[r][1]
      /\ wrote[r] = <<>> => ~(wrote'[r] # <<>> /\ wrote'[r][1] = "unauthorized")
  BY <1>1, GoMoves, WriteMoves DEF RequestInv, Reply, Places, Ended, Words
<1>3. /\ effects' \in [Requests -> SUBSET {"session", "delivered", "stream"}]
      /\ \A t \in Requests \ {r} : effects'[t] = effects[t]
  BY <1>1, EffectMoves DEF RequestInv, RequestTypes
<1>4. RequestTypes' /\ \A t \in Requests \ {r} : Unmoved(t)
  BY <1>1, <1>2, <1>3 DEF RequestInv, RequestTypes, Unmoved
<1> QED BY <1>1, <1>2, <1>4, LaterKeeps DEF Active, Messaging, Opening, lifeVars, idVars

LEMMA SpawnSessionKeeps ==
  ASSUME RequestInv, NEW r \in Requests, SpawnSession(r)
  PROVE  RequestInv'
<1>1. /\ pc[r] = "spawnSession" /\ UNCHANGED <<lifeVars, idVars, request, session>>
      /\ \/ /\ sessions' = sessions \cup {session[r]} /\ Effect(r, "session") /\ Go(r, "initialize")
            /\ wrote' = wrote \/ Write(r, "error")
         \/ Reply(r, "error") /\ UNCHANGED <<sessions, effects>>
  BY DEF SpawnSession, At
<1>2. /\ pc' \in [Requests -> Places] /\ pc'[r] \in {"initialize", "done"}
      /\ \A t \in Requests \ {r} : pc'[t] = pc[t]
  BY <1>1, GoMoves DEF RequestInv, Reply, Places, Ended
<1>3. /\ wrote' \in [Requests -> Seq(Words)] /\ \A t \in Requests \ {r} : wrote'[t] = wrote[t]
      /\ wrote[r] # <<>> => wrote'[r] # <<>> /\ wrote'[r][1] = wrote[r][1]
      /\ wrote[r] = <<>> => ~(wrote'[r] # <<>> /\ wrote'[r][1] = "unauthorized")
  BY <1>1, WriteMoves DEF RequestInv, RequestTypes, Reply, Words
<1>4. /\ effects' \in [Requests -> SUBSET {"session", "delivered", "stream"}]
      /\ \A t \in Requests \ {r} : effects'[t] = effects[t]
  BY <1>1, EffectMoves DEF RequestInv, RequestTypes
<1>5. RequestTypes' /\ \A t \in Requests \ {r} : Unmoved(t)
  BY <1>1, <1>2, <1>3, <1>4 DEF RequestInv, RequestTypes, Unmoved
<1> QED BY <1>1, <1>2, <1>3, <1>5, LaterKeeps DEF Active, Messaging, Opening, lifeVars, idVars

LEMMA InitializeKeeps ==
  ASSUME RequestInv, NEW r \in Requests, Initialize(r)
  PROVE  RequestInv'
<1>1. /\ pc[r] = "initialize" /\ UNCHANGED <<lifeVars, sessions, issued, request, session>>
      /\ Reply(r, "ok") \/ Reply(r, "error")
      /\ Effect(r, "delivered") \/ effects' = effects
      /\ known' = known \/ known' = known \cup {session[r]}
  BY DEF Initialize, At
<1>9. Reply(r, "ok") \/ Reply(r, "error")
  BY <1>1
<1>2. /\ pc' \in [Requests -> Places] /\ pc'[r] = "done"
      /\ \A t \in Requests \ {r} : pc'[t] = pc[t] /\ wrote'[t] = wrote[t]
      /\ wrote' \in [Requests -> Seq(Words)]
      /\ wrote[r] # <<>> => wrote'[r] # <<>> /\ wrote'[r][1] = wrote[r][1]
      /\ wrote[r] = <<>> => ~(wrote'[r] # <<>> /\ wrote'[r][1] = "unauthorized")
  BY <1>9, GoMoves, WriteMoves DEF RequestInv, Reply, Places, Ended, Words
<1>3. /\ effects' \in [Requests -> SUBSET {"session", "delivered", "stream"}]
      /\ \A t \in Requests \ {r} : effects'[t] = effects[t]
  BY <1>1, EffectMoves DEF RequestInv, RequestTypes
<1>4. RequestTypes' /\ \A t \in Requests \ {r} : Unmoved(t)
  BY <1>1, <1>2, <1>3 DEF RequestInv, RequestTypes, Unmoved
<1> QED BY <1>1, <1>2, <1>4, LaterKeeps DEF Active, Messaging, Opening, lifeVars

LEMMA FindSessionKeeps ==
  ASSUME RequestInv, NEW r \in Requests, FindSession(r)
  PROVE  RequestInv'
<1>1. /\ pc[r] = "findSession" /\ (Go(r, "connect") \/ Go(r, "makeSession"))
      /\ UNCHANGED <<lifeVars, sessions, idVars, request, session, wrote, effects>>
  BY DEF FindSession, At
<1>2. /\ pc' \in [Requests -> Places] /\ pc'[r] \in {"connect", "makeSession"}
      /\ \A t \in Requests \ {r} : pc'[t] = pc[t]
  BY <1>1, GoMoves DEF RequestInv, Places
<1>3. RequestTypes' /\ \A t \in Requests \ {r} : Unmoved(t)
  BY <1>1, <1>2 DEF RequestInv, RequestTypes, Unmoved
<1>4. wrote[r] = <<>> => ~(wrote'[r] # <<>> /\ wrote'[r][1] = "unauthorized")
  BY <1>1
<1> QED BY <1>1, <1>2, <1>3, <1>4, LaterKeeps DEF Active, Messaging, Opening, lifeVars, idVars

LEMMA MakeSessionKeeps ==
  ASSUME RequestInv, NEW r \in Requests, MakeSession(r)
  PROVE  RequestInv'
<1>1. /\ pc[r] = "makeSession" /\ UNCHANGED <<lifeVars, idVars, request, session>>
      /\ \/ /\ sessions' = sessions \cup {session[r]} /\ Effect(r, "session") /\ Go(r, "connect")
            /\ wrote' = wrote
         \/ Reply(r, "error") /\ UNCHANGED <<sessions, effects>>
  BY DEF MakeSession, At
<1>2. /\ pc' \in [Requests -> Places] /\ pc'[r] \in {"connect", "done"}
      /\ \A t \in Requests \ {r} : pc'[t] = pc[t]
  BY <1>1, GoMoves DEF RequestInv, Reply, Places, Ended
<1>3. /\ wrote' \in [Requests -> Seq(Words)] /\ \A t \in Requests \ {r} : wrote'[t] = wrote[t]
      /\ wrote[r] # <<>> => wrote'[r] # <<>> /\ wrote'[r][1] = wrote[r][1]
      /\ wrote[r] = <<>> => ~(wrote'[r] # <<>> /\ wrote'[r][1] = "unauthorized")
  BY <1>1, WriteMoves DEF RequestInv, RequestTypes, Reply, Words
<1>4. /\ effects' \in [Requests -> SUBSET {"session", "delivered", "stream"}]
      /\ \A t \in Requests \ {r} : effects'[t] = effects[t]
  BY <1>1, EffectMoves DEF RequestInv, RequestTypes
<1>5. RequestTypes' /\ \A t \in Requests \ {r} : Unmoved(t)
  BY <1>1, <1>2, <1>3, <1>4 DEF RequestInv, RequestTypes, Unmoved
<1>6. "delivered" \in effects'[r] => "delivered" \in effects[r]
  BY <1>1, EffectMoves DEF RequestInv
<1> QED BY <1>1, <1>2, <1>3, <1>5, <1>6, LaterKeeps DEF Active, Messaging, Opening, lifeVars, idVars

\* What a failure to spawn adds.
LEMMA FailureAdds ==
  ASSUME NEW said \in Seq(Words)
  PROVE  LET more == said \o <<"ok", "error">>
         IN /\ more \in Seq(Words) /\ more # <<>> /\ Len(more) > 1
            /\ said # <<>> => more[1] = said[1]
            /\ said = <<>> => more[1] = "ok" /\ more[2] = "error"
<1> DEFINE more == said \o <<"ok", "error">>
<1>1. "ok" \in Words /\ "error" \in Words
  BY DEF Words
<1>2. /\ <<"ok", "error">> \in Seq(Words) /\ Len(<<"ok", "error">>) = 2
      /\ <<"ok", "error">>[1] = "ok" /\ <<"ok", "error">>[2] = "error"
  BY <1>1
<1>3. more \in Seq(Words)
  BY <1>2
<1>4. Len(more) = Len(said) + 2
  BY <1>2
<1>5. more # <<>> /\ Len(more) > 1
  BY <1>3, <1>4
<1>6. said # <<>> => more[1] = said[1]
  BY <1>2
<1>7. said = <<>> => more[1] = "ok" /\ more[2] = "error"
  BY <1>2
<1> QED BY <1>3, <1>5, <1>6, <1>7

LEMMA ConnectKeeps ==
  ASSUME RequestInv, NEW r \in Requests, Connect(r)
  PROVE  RequestInv'
<1> DEFINE more == wrote[r] \o <<"ok", "error">>
<1>1. /\ pc[r] = "connect" /\ known' = known \cup {session[r]} /\ Go(r, "watch")
      /\ UNCHANGED <<lifeVars, sessions, issued, request, session>>
      /\ \/ Write(r, "ok") /\ Effect(r, "stream")
         \/ wrote' = [wrote EXCEPT ![r] = more] /\ UNCHANGED effects
  BY DEF Connect, At
<1>2. /\ more \in Seq(Words) /\ more # <<>>
      /\ wrote[r] # <<>> => more[1] = wrote[r][1]
      /\ wrote[r] = <<>> => more[1] = "ok"
  BY FailureAdds DEF RequestInv, RequestTypes
<1> HIDE DEF more
<1>3. /\ pc' \in [Requests -> Places] /\ pc'[r] = "watch"
      /\ \A t \in Requests \ {r} : pc'[t] = pc[t]
  BY <1>1, GoMoves DEF RequestInv, Places
<1>4. /\ \A t \in Requests \ {r} : wrote'[t] = wrote[t]
      /\ wrote' \in [Requests -> Seq(Words)]
      /\ wrote[r] # <<>> => wrote'[r] # <<>> /\ wrote'[r][1] = wrote[r][1]
      /\ wrote[r] = <<>> => ~(wrote'[r] # <<>> /\ wrote'[r][1] = "unauthorized")
  <2>1. CASE Write(r, "ok")
    BY <2>1, WriteMoves DEF RequestInv, Words
  <2>2. CASE wrote' = [wrote EXCEPT ![r] = more]
    BY <1>2, <2>2 DEF RequestInv, RequestTypes
  <2> QED BY <1>1, <2>1, <2>2
<1>5. /\ effects' \in [Requests -> SUBSET {"session", "delivered", "stream"}]
      /\ \A t \in Requests \ {r} : effects'[t] = effects[t]
      /\ "delivered" \in effects'[r] => "delivered" \in effects[r]
  BY <1>1, EffectMoves DEF RequestInv, RequestTypes
<1>6. RequestTypes' /\ \A t \in Requests \ {r} : Unmoved(t)
  BY <1>1, <1>3, <1>4, <1>5 DEF RequestInv, RequestTypes, Unmoved
<1> QED BY <1>1, <1>3, <1>4, <1>5, <1>6, LaterKeeps DEF Active, Messaging, Opening, lifeVars

LEMMA SpawnWatcherKeeps ==
  ASSUME RequestInv, NEW r \in Requests, SpawnWatcher(r)
  PROVE  RequestInv'
<1>1. /\ pc[r] = "watch"
      /\ UNCHANGED <<lifeVars, sessions, idVars, request, session, effects>>
      /\ \/ Write(r, "error") /\ (Go(r, "streaming") \/ Go(r, "stuck"))
         \/ Go(r, "streaming") /\ wrote' = wrote
         \/ Panic(r, wrote[r])
  BY DEF SpawnWatcher, At
<1>2. /\ pc' \in [Requests -> Places] /\ pc'[r] \in {"streaming", "stuck", "panicked"}
      /\ \A t \in Requests \ {r} : pc'[t] = pc[t] /\ wrote'[t] = wrote[t]
      /\ wrote' \in [Requests -> Seq(Words)]
      /\ wrote[r] # <<>> => wrote'[r] # <<>> /\ wrote'[r][1] = wrote[r][1]
      /\ wrote[r] = <<>> => ~(wrote'[r] # <<>> /\ wrote'[r][1] = "unauthorized")
  <2>1. CASE Write(r, "error") /\ (Go(r, "streaming") \/ Go(r, "stuck"))
    BY <2>1, GoMoves, WriteMoves DEF RequestInv, Places, Words
  <2>2. CASE Go(r, "streaming") /\ wrote' = wrote
    BY <2>2, GoMoves DEF RequestInv, RequestTypes, Places
  <2>3. CASE Panic(r, wrote[r])
    <3>1. wrote[r] \in Seq(Words)
      BY DEF RequestInv, RequestTypes
    <3> QED BY <2>3, <3>1, PanicMoves DEF RequestInv
  <2> QED BY <1>1, <2>1, <2>2, <2>3
<1>3. RequestTypes' /\ \A t \in Requests \ {r} : Unmoved(t)
  BY <1>1, <1>2 DEF RequestInv, RequestTypes, Unmoved
<1> QED BY <1>1, <1>2, <1>3, LaterKeeps DEF Active, Messaging, Opening, lifeVars, idVars

LEMMA StreamEndsKeeps ==
  ASSUME RequestInv, NEW r \in Requests, StreamEnds(r)
  PROVE  RequestInv'
<1>1. /\ pc[r] = "streaming" /\ Go(r, "done")
      /\ UNCHANGED <<lifeVars, sessions, idVars, request, session, wrote, effects>>
  BY DEF StreamEnds, At
<1>2. pc' \in [Requests -> Places] /\ pc'[r] = "done" /\ \A t \in Requests \ {r} : pc'[t] = pc[t]
  BY <1>1, GoMoves DEF RequestInv, Places, Ended
<1>3. RequestTypes' /\ \A t \in Requests \ {r} : Unmoved(t)
  BY <1>1, <1>2 DEF RequestInv, RequestTypes, Unmoved
<1>4. wrote[r] = <<>> => ~(wrote'[r] # <<>> /\ wrote'[r][1] = "unauthorized")
  BY <1>1
<1> QED BY <1>1, <1>2, <1>3, <1>4, LaterKeeps DEF Active, Messaging, Opening, lifeVars, idVars

-----------------------------------------------------------------------------
(* The first step of a handler, which takes the id of its request.         *)

LEMMA FirstKeeps ==
  ASSUME RequestInv, NEW r \in Requests, pc[r] = "received",
         UNCHANGED <<process, configured, request, sessions, effects>>,
         RequestTypes', \A t \in Requests \ {r} : Unmoved(t),
         pc'[r] \notin {"none", "received"},
         issued' = issued \/ MakesId(r), session'[r] \in Texts',
         pc'[r] \in Messaging \cup Opening => session'[r] \in (IssuedIds \cup {Undelimited})',
         known' = known \/ (known' = known \cup {session'[r]} /\ session'[r] \in IssuedIds'),
         pc'[r] \in Messaging => Honoured(r)', pc'[r] \in Opening => Opened(r)',
         First(r, "unauthorized")' => RefusedRightly(r)'
  PROVE  RequestInv'
<1>1. wrote[r] = <<>> /\ effects[r] = {}
  BY DEF RequestInv, Asked
<1>2. HandlerStep(r)
  BY <1>1 DEF HandlerStep, First, Active
<1>3. IdsGrow
  BY <1>2, HandlerGrows
<1>4. Texts \subseteq Texts'
  BY <1>3 DEF IdsGrow, IssuedIds, Texts, Undelimited, Halved, NoId
<1>5. NoId' = NoId /\ Undelimited' = Undelimited
  BY DEF NoId, Undelimited
<1>6. Asked(r)'
  <2>1. /\ request[r].caller = Nobody \/ request[r].caller \in Seq(STRING) \ {<<>>}
        /\ request[r].endpoint \in Endpoints /\ request[r].process = process
        /\ request[r].first \in Texts /\ request[r].query \in Texts
    BY DEF RequestInv, Asked, Active
  <2>2. request'[r].first \in Texts' /\ request'[r].query \in Texts'
    BY <1>4, <2>1
  <2> QED BY <1>5, <2>1, <2>2 DEF Asked
<1>7. Taken(r)'
  BY <1>1 DEF Taken
<1> QED BY <1>2, <1>6, <1>7, HandlerKeeps

\* An id that was made for the request is among those issued, and is honoured.
LEMMA MadeIsIssued ==
  ASSUME RequestInv, NEW r \in Requests, pc[r] = "received", request'[r] = request[r],
         UNCHANGED <<process, configured>>, NEW caller,
         caller = Nobody \/ caller \in Names,
         request[r].endpoint = "POST /mcp" => caller = Principal(request[r].caller),
         session'[r] = GenerateSessionId(r, caller), NewId(r, GenerateSessionId(r, caller))
  PROVE  MakesId(r) /\ session'[r] \in IssuedIds' /\ session'[r] \in Texts' /\ Honoured(r)' /\ Opened(r)'
<1> DEFINE id == GenerateSessionId(r, caller)
           i  == [id |-> id, by |-> process]
<1>1. MakesId(r)
  BY DEF MakesId, NewId
<1>2. i \in issued'
  BY DEF NewId
<1>3. caller # Nobody => id.caller = caller
  BY GeneratedIsNew
<1>4. session'[r] = id /\ i.id = id /\ i.by = process
  OBVIOUS
<1>5. request'[r].process = process
  BY DEF RequestInv, Asked, Active
<1> HIDE DEF id, i
<1>6. session'[r] \in IssuedIds' /\ session'[r] \in Texts'
  BY <1>2, <1>4 DEF IssuedIds, Texts
<1>7. Honoured(r)'
  BY <1>2, <1>3, <1>4, <1>5 DEF Honoured, Honours, Belongs, Principal
<1>8. Opened(r)'
  BY <1>2, <1>4, <1>5 DEF Opened, Honours
<1> QED BY <1>1, <1>6, <1>7, <1>8

LEMMA PreflightKeeps ==
  ASSUME RequestInv, NEW r \in Requests, Preflight(r)
  PROVE  RequestInv'
<1>1. /\ pc[r] = "received" /\ request[r].endpoint = "preflight" /\ Reply(r, "ok")
      /\ UNCHANGED <<process, configured, sessions, request>> /\ effects' = effects
  BY DEF Preflight, Asks, At, lifeVars
<1>2. PICK caller \in {Nobody, Principal(request[r].caller)} :
        /\ NewId(r, GenerateSessionId(r, caller))
        /\ known' = known \cup {GenerateSessionId(r, caller)}
        /\ session' = [session EXCEPT ![r] = GenerateSessionId(r, caller)]
  BY DEF Preflight
<1>3. caller = Nobody \/ caller \in Names
  BY <1>1, <1>2, PrincipalNamed DEF RequestInv, Asked
<1>4. /\ session'[r] = GenerateSessionId(r, caller) /\ DOMAIN session' = Requests
      /\ \A t \in Requests \ {r} : session'[t] = session[t]
  BY <1>2 DEF RequestInv, RequestTypes
<1>5. MakesId(r) /\ session'[r] \in IssuedIds' /\ session'[r] \in Texts'
  BY <1>1, <1>2, <1>3, <1>4, MadeIsIssued DEF lifeVars
<1>6. /\ pc' \in [Requests -> Places] /\ pc'[r] = "done"
      /\ wrote' \in [Requests -> Seq(Words)]
      /\ wrote'[r] # <<>> => wrote'[r][1] # "unauthorized"
      /\ \A t \in Requests \ {r} : pc'[t] = pc[t] /\ wrote'[t] = wrote[t]
  <2>1. wrote[r] = <<>>
    BY <1>1 DEF RequestInv, Asked
  <2>2. Go(r, "done") /\ Write(r, "ok") /\ RequestTypes
    BY <1>1 DEF Reply, RequestInv
  <2>3. /\ pc' \in [Requests -> Places] /\ pc'[r] = "done"
        /\ \A t \in Requests \ {r} : pc'[t] = pc[t]
    BY <2>2, GoMoves DEF Places, Ended
  <2> QED BY <2>1, <2>2, <2>3, WriteMoves DEF Words
<1>7. RequestTypes' /\ \A t \in Requests \ {r} : Unmoved(t)
  BY <1>1, <1>4, <1>6 DEF RequestInv, RequestTypes, Unmoved
<1>8. ~First(r, "unauthorized")'
  BY <1>6 DEF First
<1> QED BY <1>1, <1>2, <1>4, <1>5, <1>6, <1>7, <1>8, FirstKeeps DEF Messaging, Opening, lifeVars

\* What a first step answers, and where it goes.
LEMMA FirstMoves ==
  ASSUME RequestInv, NEW r \in Requests, pc[r] = "received", NEW word \in Words,
         NEW where \in Places \ {"none", "received"},
         \/ Reply(r, word) /\ where = "done"
         \/ Panic(r, wrote[r]) /\ where = "panicked" /\ word = "error"
         \/ Go(r, where) /\ (wrote' = wrote \/ Write(r, word))
  PROVE  /\ pc' \in [Requests -> Places] /\ pc'[r] = where
         /\ wrote' \in [Requests -> Seq(Words)]
         /\ wrote'[r] # <<>> => wrote'[r][1] = word
         /\ Write(r, word) => wrote'[r] # <<>> /\ wrote'[r][1] = word
         /\ \A t \in Requests \ {r} : pc'[t] = pc[t] /\ wrote'[t] = wrote[t]
<1>1. wrote[r] = <<>> /\ RequestTypes /\ wrote[r] \in Seq(Words)
  BY DEF RequestInv, Asked, RequestTypes
<1>2. ASSUME Write(r, word)
      PROVE  /\ wrote' \in [Requests -> Seq(Words)] /\ wrote'[r] = <<word>> /\ wrote'[r][1] = word
             /\ \A t \in Requests \ {r} : wrote'[t] = wrote[t]
  BY <1>1, <1>2, WriteMoves
<1>3. ASSUME Go(r, where)
      PROVE  /\ pc' \in [Requests -> Places] /\ pc'[r] = where
             /\ \A t \in Requests \ {r} : pc'[t] = pc[t]
  BY <1>1, <1>3, GoMoves
<1>4. CASE Reply(r, word) /\ where = "done"
  BY <1>2, <1>3, <1>4 DEF Reply
<1>5. CASE Panic(r, wrote[r]) /\ where = "panicked" /\ word = "error"
  <2>1. /\ pc' \in [Requests -> Places] /\ pc'[r] = "panicked"
        /\ wrote' \in [Requests -> Seq(Words)]
        /\ wrote'[r] = <<>> \/ wrote'[r] = <<"error">>
        /\ \A t \in Requests \ {r} : pc'[t] = pc[t] /\ wrote'[t] = wrote[t]
    BY <1>1, <1>5, PanicMoves
  <2>2. wrote'[r] # <<>> => wrote'[r][1] = word
    BY <1>5, <2>1
  <2>3. Write(r, word) => wrote'[r] # <<>> /\ wrote'[r][1] = word
    BY <1>2
  <2> QED BY <1>5, <2>1, <2>2, <2>3
<1>6. CASE Go(r, where) /\ wrote' = wrote
  BY <1>1, <1>2, <1>3, <1>6 DEF RequestTypes
<1>7. CASE Go(r, where) /\ Write(r, word)
  BY <1>2, <1>3, <1>7
<1> QED BY <1>4, <1>5, <1>6, <1>7

LEMMA HandleMCPPostKeeps ==
  ASSUME RequestInv, NEW r \in Requests, HandleMCPPost(r)
  PROVE  RequestInv'
<1> DEFINE q  == request[r]
           id == IF q.first # NoId \/ q.body # "initialize" THEN q.first ELSE q.query
           caller == Principal(q.caller)
           new == GenerateSessionId(r, caller)
           outcome == VerifySessionId(id, caller)
<1>1. /\ pc[r] = "received" /\ q.endpoint = "POST /mcp"
      /\ UNCHANGED <<process, configured, sessions, known, request>> /\ effects' = effects
  BY DEF HandleMCPPost, Asks, At, lifeVars
<1>2. /\ id \in Texts /\ session[r] = NoId /\ q.process = process
      /\ caller = Nobody \/ caller \in Names
  BY <1>1, PrincipalNamed DEF RequestInv, Asked, Active
<1>3. \/ Reply(r, "error") /\ session' = session /\ issued' = issued
      \/ /\ NewId(r, new) /\ session' = [session EXCEPT ![r] = new]
         /\ Go(r, "spawnSession") /\ wrote' = wrote
      \/ /\ id # NoId /\ session' = [session EXCEPT ![r] = id] /\ issued' = issued
         /\ \/ outcome = "panic" /\ Panic(r, wrote[r])
            \/ outcome = "refused" /\ Reply(r, "unauthorized")
            \/ /\ outcome # "panic" /\ outcome # "refused"
               /\ Reply(r, "error") \/ (Go(r, "auth") /\ wrote' = wrote)
  BY DEF HandleMCPPost
<1>4. ASSUME NEW text, session' = [session EXCEPT ![r] = text]
      PROVE  /\ session'[r] = text /\ DOMAIN session' = Requests
             /\ \A t \in Requests \ {r} : session'[t] = session[t]
  BY <1>4 DEF RequestInv, RequestTypes
<1>5. /\ NoId \in Texts
      /\ issued' = issued => /\ Texts' = Texts
                             /\ (IssuedIds \cup {Undelimited})' = IssuedIds \cup {Undelimited}
  BY DEF Texts, IssuedIds, Undelimited, Halved, NoId
<1>9. q = request[r] /\ request'[r] = request[r] /\ caller = Principal(request[r].caller)
  BY <1>1
<1> HIDE DEF q, id, caller, new, outcome
<1>6. CASE Reply(r, "error") /\ session' = session /\ issued' = issued
  <2>1. /\ pc' \in [Requests -> Places] /\ pc'[r] = "done"
        /\ wrote' \in [Requests -> Seq(Words)]
        /\ wrote'[r] # <<>> => wrote'[r][1] = "error"
        /\ \A t \in Requests \ {r} : pc'[t] = pc[t] /\ wrote'[t] = wrote[t]
    BY <1>1, <1>6, FirstMoves DEF Words, Places, Ended
  <2>2. RequestTypes' /\ \A t \in Requests \ {r} : Unmoved(t)
    BY <1>1, <1>6, <2>1 DEF RequestInv, RequestTypes, Unmoved
  <2>3. ~First(r, "unauthorized")'
    BY <2>1 DEF First
  <2> QED BY <1>1, <1>2, <1>5, <1>6, <2>1, <2>2, <2>3, FirstKeeps DEF Messaging, Opening
<1>7. CASE /\ NewId(r, new) /\ session' = [session EXCEPT ![r] = new]
           /\ Go(r, "spawnSession") /\ wrote' = wrote
  <2>1. /\ pc' \in [Requests -> Places] /\ pc'[r] = "spawnSession"
        /\ wrote' \in [Requests -> Seq(Words)]
        /\ wrote'[r] # <<>> => wrote'[r][1] = "error"
        /\ \A t \in Requests \ {r} : pc'[t] = pc[t] /\ wrote'[t] = wrote[t]
    BY <1>1, <1>7, FirstMoves DEF Words, Places, Ended
  <2>2. RequestTypes' /\ \A t \in Requests \ {r} : Unmoved(t)
    BY <1>1, <1>4, <1>7, <2>1 DEF RequestInv, RequestTypes, Unmoved
  <2>3. ~First(r, "unauthorized")'
    BY <2>1 DEF First
  <2>4. MakesId(r) /\ session'[r] \in IssuedIds' /\ session'[r] \in Texts' /\ Honoured(r)' /\ Opened(r)'
    <3>1. new = GenerateSessionId(r, caller) /\ session'[r] = new
      BY <1>4, <1>7 DEF new
    <3> QED BY <1>1, <1>2, <1>7, <1>9, <3>1, MadeIsIssued
  <2> QED BY <1>1, <2>1, <2>2, <2>3, <2>4, FirstKeeps DEF Messaging, Opening
<1>8. CASE /\ id # NoId /\ session' = [session EXCEPT ![r] = id] /\ issued' = issued
           /\ \/ outcome = "panic" /\ Panic(r, wrote[r])
              \/ outcome = "refused" /\ Reply(r, "unauthorized")
              \/ /\ outcome # "panic" /\ outcome # "refused"
                 /\ Reply(r, "error") \/ (Go(r, "auth") /\ wrote' = wrote)
  <2>1. /\ outcome = "panic" <=> id = Halved
        /\ outcome = "accepted" =>
              \E i \in issued : /\ i.id = id /\ Honours(process, i)
                                /\ caller # Nobody => id.caller = caller
        /\ outcome = "refused" =>
              \A i \in issued : i.id = id /\ (caller # Nobody => id.caller = caller) =>
                   ~(Honours(process, i) /\ Legible(id))
        /\ outcome \in {"panic", "accepted", "refused"}
    BY <1>2, Verified DEF outcome, RequestInv
  <2>2. /\ session'[r] = id /\ DOMAIN session' = Requests
        /\ \A t \in Requests \ {r} : session'[t] = session[t]
    BY <1>4, <1>8
  <2>3. PICK word \in Words, where \in {"done", "panicked", "auth"} :
          /\ \/ Reply(r, word) /\ where = "done"
             \/ Panic(r, wrote[r]) /\ where = "panicked" /\ word = "error"
             \/ Go(r, where) /\ (wrote' = wrote \/ Write(r, word))
          /\ word = "unauthorized" => outcome = "refused"
          /\ where = "auth" => outcome = "accepted"
    BY <1>8, <2>1 DEF Words
  <2>4. /\ pc' \in [Requests -> Places] /\ pc'[r] = where
        /\ wrote' \in [Requests -> Seq(Words)]
        /\ wrote'[r] # <<>> => wrote'[r][1] = word
        /\ \A t \in Requests \ {r} : pc'[t] = pc[t] /\ wrote'[t] = wrote[t]
    BY <1>1, <2>3, FirstMoves DEF Places, Ended
  <2>5. RequestTypes' /\ \A t \in Requests \ {r} : Unmoved(t)
    BY <1>1, <2>2, <2>4 DEF RequestInv, RequestTypes, Unmoved
  <2>6. outcome = "accepted" => session'[r] \in IssuedIds
    BY <2>1, <2>2 DEF IssuedIds
  <2>7. outcome = "accepted" => Honoured(r)'
    BY <1>1, <1>2, <1>8, <1>9, <2>1, <2>2 DEF Honoured, Honours, Belongs, Principal
  <2>8. outcome = "refused" => RefusedRightly(r)'
    BY <1>1, <1>2, <1>8, <1>9, <2>1, <2>2 DEF RefusedRightly, Honours, Belongs, Principal, Legible
  <2>9. First(r, "unauthorized")' => RefusedRightly(r)'
    BY <2>3, <2>4, <2>8 DEF First
  <2> QED BY <1>1, <1>2, <1>5, <1>8, <2>2, <2>3, <2>4, <2>5, <2>6, <2>7, <2>9, FirstKeeps
      DEF Messaging, Opening
<1> QED BY <1>3, <1>6, <1>7, <1>8

LEMMA HandleMessagePostKeeps ==
  ASSUME RequestInv, NEW r \in Requests, HandleMessagePost(r)
  PROVE  RequestInv'
<1> DEFINE q  == request[r]
           id == q.query
           outcome == VerifySessionId(id, Nobody)
<1>1. /\ pc[r] = "received" /\ q.endpoint = "POST /messages"
      /\ UNCHANGED <<process, configured, sessions, known, request>> /\ effects' = effects
      /\ issued' = issued
  BY DEF HandleMessagePost, Asks, At, lifeVars, idVars
<1>2. id \in Texts /\ q.process = process
  BY <1>1 DEF RequestInv, Asked, Active
<1>3. /\ session' = [session EXCEPT ![r] = id]
      /\ \/ id = NoId /\ Reply(r, "not found")
         \/ outcome = "panic" /\ Panic(r, wrote[r])
         \/ outcome = "refused" /\ Reply(r, "unauthorized")
         \/ /\ id # NoId /\ outcome # "panic" /\ outcome # "refused"
            /\ Reply(r, "error") \/ (Go(r, "auth") /\ wrote' = wrote)
  BY DEF HandleMessagePost
<1>4. q = request[r] /\ request'[r] = request[r]
  BY <1>1
<1> HIDE DEF q, id, outcome
<1>5. /\ outcome = "accepted" => \E i \in issued : i.id = id /\ Honours(process, i)
      /\ outcome = "refused" =>
            \A i \in issued : i.id = id => ~(Honours(process, i) /\ Legible(id))
      /\ outcome \in {"panic", "accepted", "refused"}
  BY <1>2, Verified DEF outcome, RequestInv
<1>6. /\ session'[r] = id /\ DOMAIN session' = Requests
      /\ \A t \in Requests \ {r} : session'[t] = session[t]
  BY <1>3 DEF RequestInv, RequestTypes
<1>7. PICK word \in Words, where \in {"done", "panicked", "auth"} :
        /\ \/ Reply(r, word) /\ where = "done"
           \/ Panic(r, wrote[r]) /\ where = "panicked" /\ word = "error"
           \/ Go(r, where) /\ (wrote' = wrote \/ Write(r, word))
        /\ word = "unauthorized" => outcome = "refused"
        /\ where = "auth" => outcome = "accepted"
  BY <1>3, <1>5 DEF Words
<1>8. /\ pc' \in [Requests -> Places] /\ pc'[r] = where
      /\ wrote' \in [Requests -> Seq(Words)]
      /\ wrote'[r] # <<>> => wrote'[r][1] = word
      /\ \A t \in Requests \ {r} : pc'[t] = pc[t] /\ wrote'[t] = wrote[t]
  BY <1>1, <1>7, FirstMoves DEF Places, Ended
<1>9. RequestTypes' /\ \A t \in Requests \ {r} : Unmoved(t)
  BY <1>1, <1>6, <1>8 DEF RequestInv, RequestTypes, Unmoved
<1>10. outcome = "accepted" => session'[r] \in IssuedIds /\ Honoured(r)'
  BY <1>1, <1>2, <1>4, <1>5, <1>6 DEF IssuedIds, Honoured, Honours, Belongs
<1>11. First(r, "unauthorized")' => RefusedRightly(r)'
  <2>1. outcome = "refused" => RefusedRightly(r)'
    BY <1>1, <1>2, <1>4, <1>5, <1>6 DEF RefusedRightly, Honours, Legible
  <2> QED BY <1>7, <1>8, <2>1 DEF First
<1>12. /\ Texts' = Texts /\ (IssuedIds \cup {Undelimited})' = IssuedIds \cup {Undelimited}
  BY <1>1 DEF Texts, IssuedIds, Undelimited, Halved, NoId
<1> QED BY <1>1, <1>2, <1>6, <1>7, <1>8, <1>9, <1>10, <1>11, <1>12, FirstKeeps
    DEF Messaging, Opening

LEMMA SSEGetKeeps ==
  ASSUME RequestInv, NEW r \in Requests, SSEGet(r)
  PROVE  RequestInv'
<1> DEFINE q   == request[r]
           new == GenerateSessionId(r, Nobody)
           id  == IF q.first # NoId THEN q.first ELSE IF q.query # NoId THEN q.query ELSE new
           outcome == VerifySessionId(id, Nobody)
<1>1. /\ pc[r] = "received" /\ q.endpoint # "POST /mcp"
      /\ UNCHANGED <<process, configured, sessions, known, request>> /\ effects' = effects
      /\ session' = [session EXCEPT ![r] = id]
  BY DEF SSEGet, Asks, At, lifeVars
<1>2. /\ \/ NewId(r, new) /\ id = new
         \/ issued' = issued /\ id \in Texts /\ id # NoId
      /\ q.process = process
  BY <1>1 DEF SSEGet, RequestInv, Asked, Active
<1>3. \/ outcome = "panic" /\ Panic(r, wrote[r])
      \/ outcome = "refused" /\ Go(r, "findSession") /\ Write(r, "forbidden")
      \/ outcome # "panic" /\ outcome # "refused" /\ Go(r, "findSession") /\ wrote' = wrote
  BY DEF SSEGet
<1>4. q = request[r] /\ request'[r] = request[r]
  BY <1>1
<1>5. new = GenerateSessionId(r, Nobody) /\ outcome = VerifySessionId(id, Nobody)
  OBVIOUS
<1> HIDE DEF q, id, new, outcome
<1>6. /\ session'[r] = id /\ DOMAIN session' = Requests
      /\ \A t \in Requests \ {r} : session'[t] = session[t]
  BY <1>1 DEF RequestInv, RequestTypes
<1>7. PICK word \in {"forbidden", "error"}, where \in {"panicked", "findSession"} :
        /\ \/ Panic(r, wrote[r]) /\ where = "panicked" /\ word = "error"
           \/ Go(r, where) /\ (wrote' = wrote \/ Write(r, word))
        /\ where = "panicked" <=> outcome = "panic"
        /\ outcome = "refused" => word = "forbidden" /\ Write(r, word)
  BY <1>3
<1>8. /\ pc' \in [Requests -> Places] /\ pc'[r] = where
      /\ wrote' \in [Requests -> Seq(Words)]
      /\ wrote'[r] # <<>> => wrote'[r][1] = word
      /\ Write(r, word) => wrote'[r] # <<>> /\ wrote'[r][1] = word
      /\ \A t \in Requests \ {r} : pc'[t] = pc[t] /\ wrote'[t] = wrote[t]
  BY <1>1, <1>7, FirstMoves DEF Places, Ended, Words
<1>9. RequestTypes' /\ \A t \in Requests \ {r} : Unmoved(t)
  BY <1>1, <1>6, <1>8 DEF RequestInv, RequestTypes, Unmoved
<1>10. ~First(r, "unauthorized")'
  BY <1>8 DEF First
<1>11. CASE NewId(r, new) /\ id = new
  <2>1. /\ MakesId(r) /\ session'[r] \in IssuedIds' /\ session'[r] \in Texts'
        /\ Honoured(r)' /\ Opened(r)'
    BY <1>1, <1>4, <1>5, <1>6, <1>11, MadeIsIssued
  <2> QED BY <1>1, <1>7, <1>8, <1>9, <1>10, <2>1, FirstKeeps DEF Messaging, Opening
<1>12. CASE issued' = issued /\ id \in Texts /\ id # NoId
  <2>1. /\ outcome = "panic" <=> id = Halved
        /\ outcome = "accepted" => \E i \in issued : i.id = id /\ Honours(process, i)
        /\ outcome \in {"panic", "accepted", "refused"}
    BY <1>5, <1>12, Verified DEF RequestInv
  <2>2. where = "findSession" => Opened(r)'
    <3>1. outcome = "accepted" => Opened(r)'
      BY <1>1, <1>2, <1>4, <1>6, <1>12, <2>1 DEF Opened, Honours
    <3>2. outcome = "refused" => Opened(r)'
      BY <1>7, <1>8 DEF Opened, First
    <3> QED BY <1>7, <2>1, <3>1, <3>2
  <2>3. where = "findSession" => session'[r] \in IssuedIds \cup {Undelimited}
    BY <1>6, <1>7, <1>12, <2>1 DEF Texts
  <2>4. /\ Texts' = Texts /\ (IssuedIds \cup {Undelimited})' = IssuedIds \cup {Undelimited}
    BY <1>12 DEF Texts, IssuedIds, Undelimited, Halved, NoId
  <2> QED BY <1>1, <1>6, <1>7, <1>8, <1>9, <1>10, <1>12, <2>2, <2>3, <2>4, FirstKeeps
      DEF Messaging, Opening
<1> QED BY <1>2, <1>11, <1>12

-----------------------------------------------------------------------------
LEMMA RequestInit == Init => RequestInv
<1> SUFFICES ASSUME Init PROVE RequestInv
  OBVIOUS
<1>1. RequestTypes
  BY DEF Init, RequestTypes, Places
<1>2. IdInv /\ SessionInv
  BY DEF Init, IdInv, SessionInv
<1>3. \A r \in Requests : Asked(r) /\ Taken(r)
  BY DEF Init, Asked, Taken, First, Messaging, Opening, Active, Texts
<1> QED BY <1>1, <1>2, <1>3 DEF RequestInv

LEMMA RequestStep == RequestInv /\ [Next]_vars => RequestInv'
<1> SUFFICES ASSUME RequestInv, [Next]_vars PROVE RequestInv'
  OBVIOUS
<1>1. CASE StartBegins \/ StartActors \/ StartRoot \/ Listen \/ StopActors \/ StopHttp
  BY <1>1, LifeKeepsRequests
  DEF StartBegins, StartActors, StartRoot, Listen, StopActors, StopHttp, lifeVars
<1>2. CASE Restart
  BY <1>2, RestartKeepsRequests
<1>3. ASSUME NEW id \in sessions, SessionEnds(id) PROVE RequestInv'
  BY <1>3, LifeKeepsRequests DEF SessionEnds, lifeVars
<1>4. ASSUME NEW r \in Requests, NEW q \in Inquiries, NEW first \in Ids, NEW query \in Ids,
             Arrive(r, q, first, query)
      PROVE  RequestInv'
  BY <1>4, ArriveKeepsRequests
<1>5. ASSUME NEW r \in Requests, Handle(r) PROVE RequestInv'
  BY <1>5, PreflightKeeps, HandleMCPPostKeeps, HandleMessagePostKeeps, SerializeAuthKeeps,
     FindRootKeeps, SendKeeps, SpawnSessionKeeps, InitializeKeeps, SSEGetKeeps, FindSessionKeeps,
     MakeSessionKeeps, ConnectKeeps, SpawnWatcherKeeps, StreamEndsKeeps DEF Handle
<1>6. CASE UNCHANGED vars
  BY <1>6, LifeKeepsRequests DEF vars, lifeVars
<1> QED BY <1>1, <1>2, <1>3, <1>4, <1>5, <1>6 DEF Next

\* Over every number of requests, starts and restarts, a message reaches a session
\* under an id of the present secret and of its own caller only, and a 401 is right
\* (stateless_session_manager.go with the handlers of internal/httphandlers).
THEOREM SessionsUnderTheirIds == Spec => []IdsHonoured
<1>1. RequestInv => IdsHonoured
  BY DEF RequestInv, IdsHonoured, Taken, Honoured, RefusedRightly, SessionInv, First
<1> QED
  BY <1>1, RequestInit, RequestStep, PTL DEF Spec

-----------------------------------------------------------------------------
(* Types.                                                                  *)

\* Sessions are there only while the actors are, and are sessions of requests.
TypeInv ==
  /\ process \in 1..MaxProcesses /\ starts \in 0..MaxStarts
  /\ {configured, router, root, createdServer} \subseteq BOOLEAN
  /\ started \in {"none", "ok", "error"} /\ actors \in {"new", "running", "stopped"}
  /\ listener \in {"none", "launched", "listening", "ended"}
  /\ root \/ sessions # {} => actors = "running"
  /\ sessions \cup known \subseteq {session[r] : r \in Requests}

\* What a handler does to the sessions and the ids that clients know.
LEMMA HandlerSessions ==
  ASSUME RequestInv, NEW r \in Requests, Handle(r)
  PROVE  /\ \A t \in Requests \ {r} : session'[t] = session[t]
         /\ session' = session \/ pc[r] = "received"
         /\ \/ sessions' = sessions
            \/ sessions' = sessions \cup {session[r]} /\ actors = "running" /\ session' = session
         /\ known' = known \/ known' = known \cup {session'[r]}
<1>1. CASE Preflight(r)
  BY <1>1 DEF Preflight, Asks, At, RequestInv, RequestTypes
<1>2. CASE HandleMCPPost(r)
  <2>1. pc[r] = "received" /\ sessions' = sessions /\ known' = known
    BY <1>2 DEF HandleMCPPost, Asks, At
  <2>2. session' = session \/ \E text : session' = [session EXCEPT ![r] = text]
    BY <1>2 DEF HandleMCPPost
  <2>3. \A t \in Requests \ {r} : session'[t] = session[t]
    BY <2>2 DEF RequestInv, RequestTypes
  <2> QED BY <2>1, <2>3
<1>3. CASE HandleMessagePost(r)
  <2>1. pc[r] = "received" /\ sessions' = sessions /\ known' = known
    BY <1>3 DEF HandleMessagePost, Asks, At, idVars
  <2>2. \E text : session' = [session EXCEPT ![r] = text]
    BY <1>3 DEF HandleMessagePost
  <2> QED BY <2>1, <2>2
<1>4. CASE SSEGet(r)
  <2>1. pc[r] = "received" /\ sessions' = sessions /\ known' = known
    BY <1>4 DEF SSEGet, Asks, At
  <2>2. \E text : session' = [session EXCEPT ![r] = text]
    BY <1>4 DEF SSEGet
  <2> QED BY <2>1, <2>2
<1>5. CASE \/ SerializeAuth(r) \/ FindRoot(r) \/ Send(r) \/ FindSession(r) \/ SpawnWatcher(r)
           \/ StreamEnds(r)
  BY <1>5 DEF SerializeAuth, FindRoot, Send, FindSession, SpawnWatcher, StreamEnds, idVars
<1>6. CASE SpawnSession(r) \/ MakeSession(r)
  BY <1>6 DEF SpawnSession, MakeSession, idVars
<1>7. CASE Initialize(r) \/ Connect(r)
  BY <1>7 DEF Initialize, Connect
<1> QED BY <1>1, <1>2, <1>3, <1>4, <1>5, <1>6, <1>7 DEF Handle

LEMMA TypeStep == TypeInv /\ LifeInv /\ RequestInv /\ [Next]_vars => TypeInv'
<1> SUFFICES ASSUME TypeInv, LifeInv, RequestInv, [Next]_vars PROVE TypeInv'
  OBVIOUS
<1>1. ASSUME StartBegins \/ StartActors \/ StartRoot \/ Listen \/ StopActors \/ StopHttp
      PROVE  TypeInv'
  <2>1. UNCHANGED <<process, configured, router, known, session>> /\ sessions' \subseteq sessions
    BY <1>1 DEF StartBegins, StartActors, StartRoot, Listen, StopActors, StopHttp, lifeVars,
       idVars, requestVars
  <2>2. started' \in {"none", "ok", "error"} /\ actors' \in {"new", "running", "stopped"}
    BY <1>1 DEF TypeInv, StartBegins, StartActors, StartRoot, Listen, StopActors, StopHttp,
       controlVars, systemVars
  <2>3. starts' \in 0..MaxStarts
    BY <1>1, BoundAssumption DEF TypeInv, StartBegins, StartActors, StartRoot, Listen, StopActors,
       StopHttp, controlVars
  <2>4. {root', createdServer'} \subseteq BOOLEAN
    BY <1>1 DEF TypeInv, StartBegins, StartActors, StartRoot, Listen, StopActors, StopHttp,
       controlVars, systemVars
  <2>5. listener' \in {"none", "launched", "listening", "ended"}
    BY <1>1 DEF TypeInv, StartBegins, StartActors, StartRoot, Listen, StopActors, StopHttp
  <2>6. root' \/ sessions' # {} => actors' = "running"
    BY <1>1, <2>1 DEF TypeInv, LifeInv, StartBegins, StartActors, StartRoot, Listen, StopActors,
       StopHttp, systemVars
  <2> QED BY <2>1, <2>2, <2>3, <2>4, <2>5, <2>6 DEF TypeInv
<1>2. CASE Restart
  <2>1. /\ process < MaxProcesses /\ process' = process + 1 /\ starts' = 0 /\ started' = "none"
        /\ actors' = "new" /\ root' = FALSE /\ createdServer' = FALSE /\ listener' = "none"
        /\ sessions' = {} /\ UNCHANGED <<configured, router, known, session>>
    BY <1>2 DEF Restart, idVars
  <2>2. process' \in 1..MaxProcesses /\ starts' \in 0..MaxStarts
    BY <2>1, BoundAssumption DEF TypeInv
  <2> QED BY <2>1, <2>2 DEF TypeInv
<1>3. ASSUME NEW id \in sessions, SessionEnds(id) PROVE TypeInv'
  BY <1>3 DEF SessionEnds, TypeInv, lifeVars, controlVars, systemVars, idVars, requestVars
<1>4. ASSUME NEW r \in Requests, NEW q \in Inquiries, NEW first \in Ids, NEW query \in Ids,
             Arrive(r, q, first, query)
      PROVE  TypeInv'
  BY <1>4 DEF Arrive, TypeInv, lifeVars, controlVars, systemVars, idVars
<1>5. ASSUME NEW r \in Requests, Handle(r) PROVE TypeInv'
  <2>1. UNCHANGED <<process, configured, router, starts, started, createdServer, actors, root, listener>>
    BY <1>5, OthersLeaveLife DEF lifeVars, controlVars, systemVars
  <2>2. pc[r] = "received" => session[r] \notin sessions \cup known
    BY TextKinds DEF RequestInv, Asked, IdInv
  <2>3. sessions' \cup known' \subseteq {session'[t] : t \in Requests}
    BY <1>5, <2>2, HandlerSessions DEF TypeInv
  <2>4. sessions' # {} => actors = "running"
    BY <1>5, HandlerSessions DEF TypeInv
  <2> QED BY <2>1, <2>3, <2>4 DEF TypeInv
<1>6. CASE UNCHANGED vars
  BY <1>6 DEF vars, TypeInv, lifeVars, controlVars, systemVars, idVars, requestVars
<1> QED BY <1>1, <1>2, <1>3, <1>4, <1>5, <1>6 DEF Next

\* The values of the variables; no actor without the actor system, and every session
\* and known id is that of a request (mcp_server.go with httphandlers).
THEOREM TypeCorrect == Spec => []TypeOK
<1>1. Init => TypeInv /\ LifeInv /\ RequestInv
  <2>1. ASSUME Init PROVE TypeInv
    <3>1. process \in 1..MaxProcesses /\ starts \in 0..MaxStarts
      BY <2>1, BoundAssumption DEF Init
    <3>2. configured \in BOOLEAN /\ router \in BOOLEAN
      BY <2>1, BoundAssumption DEF Init
    <3> QED BY <2>1, <3>1, <3>2 DEF Init, TypeInv
  <2> QED BY <2>1, LifeInit, RequestInit
<1>2. TypeInv /\ LifeInv /\ RequestInv => TypeOK
  BY TextKinds DEF TypeInv, LifeInv, RequestInv, RequestTypes, IdInv, TypeOK, Places, Words, Ended
<1> QED
  BY <1>1, <1>2, TypeStep, LifeStep, RequestStep, PTL DEF Spec

-----------------------------------------------------------------------------
(* Answers.                                                                *)

Streams(r) == request[r].endpoint \in {"GET /mcp", "GET /sse"}
Posts(r) == request[r].endpoint \in {"POST /mcp", "POST /messages"}

Silent(r) == wrote[r] = <<>>

\* Auth info that could not be serialized has been answered.
Excused(r) == Silent(r) \/ (wrote[r] = <<"error">> /\ request[r].caller # Nobody)

\* An id was refused, and the handler went on.
Forbidden(r) == Silent(r) \/ wrote[r] = <<"forbidden">>

\* What a handler that has ended, or waits for ever, has answered and done.
Told(r) ==
  LET q == request[r]
  IN /\ wrote[r] = <<>> => pc[r] = "panicked" /\ ~Recovered(q)
     /\ wrote[r] # <<>> =>
          /\ wrote[r][1] = "ok" =>
               /\ Streams(r) /\ "stream" \notin effects[r] =>
                    pc[r] # "done" /\ Len(wrote[r]) > 1 /\ wrote[r][2] = "error"
               /\ q.endpoint = "preflight" => effects[r] = {}
               /\ Posts(r) => "delivered" \in effects[r]
          /\ wrote[r][1] \in {"unauthorized", "not found"} => effects[r] = {} /\ Len(wrote[r]) = 1
          /\ wrote[r][1] = "forbidden" => Streams(r)
          /\ wrote[r][1] = "error" /\ Streams(r) => effects[r] = {}
          /\ wrote[r][1] = "error" /\ effects[r] = {"session"} => q.body = "initialize"
          /\ Len(wrote[r]) > 1 => Streams(r) \/ pc[r] = "panicked" \/ q.caller # Nobody
     /\ pc[r] = "stuck" => Streams(r) /\ "stream" \notin effects[r] /\ Len(wrote[r]) > 2

\* A stream that has been told success, after a refusal or not, is up or was told that
\* it is not.
Opens(r) ==
  /\ Streams(r)
  /\ \/ First(r, "forbidden")
     \/ /\ First(r, "ok")
        /\ "stream" \in effects[r] \/ (Len(wrote[r]) > 1 /\ wrote[r][2] = "error")

\* What it has on the way there.
Answering(r) ==
  /\ pc[r] \in {"none", "received", "auth", "spawnSession"} => Silent(r) /\ effects[r] = {}
  /\ pc[r] = "auth" => Posts(r)
  /\ pc[r] \in {"root", "send"} => Posts(r) /\ Excused(r) /\ effects[r] = {}
  /\ pc[r] \in {"spawnSession", "initialize"} =>
       request[r].endpoint = "POST /mcp" /\ request[r].body = "initialize"
  /\ pc[r] = "initialize" => Excused(r) /\ effects[r] = {"session"}
  /\ pc[r] \in {"findSession", "makeSession"} => Streams(r) /\ Forbidden(r) /\ effects[r] = {}
  /\ pc[r] = "connect" => Streams(r) /\ Forbidden(r) /\ effects[r] \subseteq {"session"}
  /\ pc[r] = "watch" => Opens(r) /\ ("stream" \notin effects[r] => Len(wrote[r]) > 1)
  /\ pc[r] = "streaming" => Opens(r) /\ "stream" \in effects[r]
  /\ pc[r] \in Ended \cup {"stuck"} => Told(r)

AnswerInv == \A r \in Requests : Answering(r)

LEMMA OthersUnmoved ==
  ASSUME RequestTypes, NEW r \in Requests, Handle(r), NEW t \in Requests \ {r}
  PROVE  Unmoved(t) /\ router' = router
<1>1. router' = router /\ request' = request
  BY OthersLeaveLife DEF lifeVars, Handle, Preflight, HandleMCPPost, HandleMessagePost, SerializeAuth,
     FindRoot, Send, SpawnSession, Initialize, SSEGet, FindSession, MakeSession, Connect, SpawnWatcher,
     StreamEnds
<1>2. pc' = pc \/ \E where : pc' = [pc EXCEPT ![r] = where]
  BY DEF Handle, Preflight, HandleMCPPost, HandleMessagePost, SerializeAuth, FindRoot, Send,
     SpawnSession, Initialize, SSEGet, FindSession, MakeSession, Connect, SpawnWatcher,
     StreamEnds,
     Reply, Go, Panic
<1>3. wrote' = wrote \/ \E what : wrote' = [wrote EXCEPT ![r] = what]
  BY DEF Handle, Preflight, HandleMCPPost, HandleMessagePost, SerializeAuth, FindRoot, Send,
     SpawnSession, Initialize, SSEGet, FindSession, MakeSession, Connect, SpawnWatcher,
     StreamEnds,
     Reply, Write, Panic
<1>4. effects' = effects \/ \E what : effects' = [effects EXCEPT ![r] = what]
  BY DEF Handle, Preflight, HandleMCPPost, HandleMessagePost, SerializeAuth, FindRoot, Send,
     SpawnSession, Initialize, SSEGet, FindSession, MakeSession, Connect, SpawnWatcher,
     StreamEnds, Effect
<1>5. session' = session \/ \E text : session' = [session EXCEPT ![r] = text]
  BY DEF Handle, Preflight, HandleMCPPost, HandleMessagePost, SerializeAuth, FindRoot, Send,
     SpawnSession, Initialize, SSEGet, FindSession, MakeSession, Connect, SpawnWatcher,
     StreamEnds
<1> QED BY <1>1, <1>2, <1>3, <1>4, <1>5 DEF RequestTypes, Unmoved

\* What a step does to the request it is of.
LEMMA StepMoves ==
  ASSUME RequestTypes, NEW r \in Requests
  PROVE  /\ \A where : Go(r, where) => pc'[r] = where
         /\ \A what : Write(r, what) => wrote'[r] = Append(wrote[r], what)
         /\ \A what : Reply(r, what) => pc'[r] = "done" /\ wrote'[r] = Append(wrote[r], what)
         /\ \A what : Effect(r, what) => effects'[r] = effects[r] \cup {what}
         /\ \A before : Panic(r, before) =>
              /\ pc'[r] = "panicked"
              /\ wrote'[r] = before \o IF Recovered(request[r]) THEN <<"error">> ELSE <<>>
  BY DEF RequestTypes, Go, Write, Reply, Effect, Panic

LEMMA OneAnswer ==
  ASSUME NEW what
  PROVE  <<what>> # <<>> /\ <<what>>[1] = what /\ Len(<<what>>) = 1 /\ ~(Len(<<what>>) > 1)
<1>1. <<what>> \in Seq({what})
  OBVIOUS
<1> QED BY <1>1

\* A handler that ends with one answer.
LEMMA EndsWithOne ==
  ASSUME NEW r \in Requests, NEW what \in Words, wrote'[r] = <<what>>, pc'[r] \in Ended,
         what = "ok" => /\ Streams(r)' => "stream" \in effects'[r]
                        /\ request'[r].endpoint = "preflight" => effects'[r] = {}
                        /\ Posts(r)' => "delivered" \in effects'[r],
         what \in {"unauthorized", "not found"} => effects'[r] = {},
         what = "forbidden" => Streams(r)',
         what = "error" => /\ Streams(r)' => effects'[r] = {}
                           /\ effects'[r] = {"session"} => request'[r].body = "initialize"
  PROVE  Answering(r)'
<1>1. wrote'[r] # <<>> /\ wrote'[r][1] = what /\ Len(wrote'[r]) = 1 /\ ~(Len(wrote'[r]) > 1)
  <2>1. wrote'[r] = <<what>>
    OBVIOUS
  <2> QED BY <2>1, OneAnswer, Zenon
<1>2. /\ wrote'[r][1] = "ok" => /\ Streams(r)' => "stream" \in effects'[r]
                                /\ request'[r].endpoint = "preflight" => effects'[r] = {}
                                /\ Posts(r)' => "delivered" \in effects'[r]
      /\ wrote'[r][1] \in {"unauthorized", "not found"} => effects'[r] = {}
      /\ wrote'[r][1] = "forbidden" => Streams(r)'
      /\ wrote'[r][1] = "error" => /\ Streams(r)' => effects'[r] = {}
                                   /\ effects'[r] = {"session"} => request'[r].body = "initialize"
  BY <1>1, Zenon
<1>3. Told(r)'
  BY <1>1, <1>2 DEF Told, Ended
<1> QED BY <1>3 DEF Answering, Ended

\* A handler that ends with more.
LEMMA EndsWithMore ==
  ASSUME NEW r \in Requests, NEW first \in {"error", "forbidden"},
         wrote'[r] # <<>>, wrote'[r][1] = first, pc'[r] \in Ended,
         first = "forbidden" => Streams(r)',
         first = "error" => /\ Streams(r)' => effects'[r] = {}
                            /\ effects'[r] = {"session"} => request'[r].body = "initialize",
         pc'[r] = "panicked" \/ first = "forbidden" \/ request'[r].caller # Nobody
  PROVE  Answering(r)'
<1>1. Told(r)'
  BY DEF Told, Ended
<1> QED BY <1>1 DEF Answering, Ended

\* A handler of a stream that ends, or waits for ever.
LEMMA EndsOpened ==
  ASSUME NEW r \in Requests, Opens(r)', pc'[r] \in Ended \cup {"stuck"},
         pc'[r] = "done" => "stream" \in effects'[r],
         pc'[r] = "stuck" => "stream" \notin effects'[r] /\ Len(wrote'[r]) > 2
  PROVE  Answering(r)'
<1>1. Streams(r)' /\ ~Posts(r)' /\ request'[r].endpoint # "preflight"
  BY DEF Opens, Streams, Posts
<1>2. /\ wrote'[r] # <<>> /\ wrote'[r][1] \in {"ok", "forbidden"}
      /\ wrote'[r][1] = "ok" =>
           "stream" \in effects'[r] \/ (Len(wrote'[r]) > 1 /\ wrote'[r][2] = "error")
  BY DEF Opens, First
<1>3. Told(r)'
  BY <1>1, <1>2 DEF Told
<1> QED BY <1>3 DEF Answering, Ended

\* A handler whose panic nobody here answers.
LEMMA EndsSilent ==
  ASSUME NEW r \in Requests, pc'[r] = "panicked", wrote'[r] = <<>>, ~Recovered(request[r])'
  PROVE  Answering(r)'
<1>1. Told(r)'
  BY DEF Told
<1> QED BY <1>1 DEF Answering, Ended

\* What an answer makes of what was written.
LEMMA Appended ==
  ASSUME NEW said \in Seq(Words), NEW what \in Words
  PROVE  /\ said = <<>> => Append(said, what) = <<what>>
         /\ Append(said, what) \in Seq(Words)
         /\ said # <<>> => Append(said, what) # <<>> /\ Append(said, what)[1] = said[1]
<1>1. said = <<>> => Append(said, what) = <<what>>
  OBVIOUS
<1>2. said # <<>> => Append(said, what) # <<>> /\ Append(said, what)[1] = said[1]
  OBVIOUS
<1>3. Append(said, what) \in Seq(Words)
  OBVIOUS
<1> QED BY <1>1, <1>2, <1>3

\* What is written after an answer leaves it as it is.
LEMMA Extended ==
  ASSUME NEW said \in Seq(Words), said # <<>>, NEW more,
         more = said \/ more = Append(said, "error") \/ more = said \o <<"error">>
  PROVE  /\ more # <<>> /\ more[1] = said[1] /\ Len(more) >= Len(said)
         /\ Len(said) > 1 => more[2] = said[2]
         /\ more = Append(said, "error") => Len(more) = Len(said) + 1
<1>0. "error" \in Words
  BY DEF Words
<1>1. "error" \in Words /\ Len(said) \in Nat
  BY <1>0
<1>2. CASE more = said
  BY <1>1, <1>2
<1>3. CASE more = Append(said, "error")
  BY <1>1, <1>3
<1>4. CASE more = said \o <<"error">>
  <2>1. <<"error">> \in Seq(Words) /\ Len(<<"error">>) = 1
    BY <1>1
  <2>2. more \in Seq(Words) /\ Len(more) = Len(said) + 1
    BY <1>4, <2>1
  <2>3. more # <<>> /\ more[1] = said[1] /\ (Len(said) > 1 => more[2] = said[2])
    BY <1>1, <1>4, <2>1, <2>2
  <2> QED BY <1>1, <2>2, <2>3
<1> QED BY <1>2, <1>3, <1>4

\* What is known of a request when its handler takes a step.
Same(r) ==
  /\ request' = request /\ router' = router
  /\ Streams(r)' <=> Streams(r)
  /\ Posts(r)' <=> Posts(r)
  /\ Recovered(request[r])' <=> Recovered(request[r])
  /\ Streams(r) => ~Posts(r) /\ request[r].endpoint # "preflight"
  /\ wrote[r] \in Seq(Words)

LEMMA StaysSame ==
  ASSUME RequestInv, NEW r \in Requests, Handle(r)
  PROVE  Same(r)
<1>1. request' = request /\ router' = router
  BY OthersLeaveLife DEF lifeVars, Handle, Preflight, HandleMCPPost, HandleMessagePost, SerializeAuth,
     FindRoot, Send, SpawnSession, Initialize, SSEGet, FindSession, MakeSession, Connect, SpawnWatcher,
     StreamEnds
<1>2. Recovered(request[r])' <=> Recovered(request[r])
  BY <1>1 DEF Recovered
<1> QED BY <1>1, <1>2 DEF Same, Streams, Posts, RequestInv, RequestTypes

LEMMA FirstAnswers ==
  ASSUME RequestInv, NEW r \in Requests, Answering(r), Same(r),
         Preflight(r) \/ HandleMCPPost(r) \/ HandleMessagePost(r) \/ SSEGet(r)
  PROVE  Answering(r)'
<1>1. /\ pc[r] = "received" /\ effects' = effects
      /\ request[r].endpoint = "preflight" \/ Posts(r) \/ Streams(r)
      /\ \/ Reply(r, "ok") /\ request[r].endpoint = "preflight"
         \/ Reply(r, "error") /\ Posts(r)
         \/ Reply(r, "unauthorized") \/ Reply(r, "not found")
         \/ Panic(r, wrote[r])
         \/ Go(r, "auth") /\ wrote' = wrote /\ Posts(r)
         \/ /\ Go(r, "spawnSession") /\ wrote' = wrote
            /\ request[r].endpoint = "POST /mcp" /\ request[r].body = "initialize"
         \/ Go(r, "findSession") /\ (wrote' = wrote \/ Write(r, "forbidden")) /\ Streams(r)
  <2>1. CASE Preflight(r)
    BY <2>1 DEF Preflight, Asks, At
  <2>2. CASE HandleMCPPost(r)
    BY <2>2 DEF HandleMCPPost, Asks, At, Posts
  <2>3. CASE HandleMessagePost(r)
    BY <2>3 DEF HandleMessagePost, Asks, At, Posts
  <2>4. CASE SSEGet(r)
    BY <2>4 DEF SSEGet, Asks, At, Streams
  <2> QED BY <2>1, <2>2, <2>3, <2>4
<1>2. wrote[r] = <<>> /\ effects'[r] = {}
  BY <1>1 DEF Answering, Silent
<1>3. /\ "error" \in Words /\ "ok" \in Words /\ "unauthorized" \in Words /\ "not found" \in Words
      /\ "forbidden" \in Words
  BY DEF Words
<1>4. ASSUME NEW word \in Words, Reply(r, word)
      PROVE  pc'[r] = "done" /\ wrote'[r] = <<word>>
  BY <1>2, <1>4, StepMoves, Appended DEF RequestInv, RequestTypes
<1>5. CASE Reply(r, "ok") /\ request[r].endpoint = "preflight"
  BY <1>2, <1>3, <1>4, <1>5, EndsWithOne DEF Same, Streams, Posts, Ended
<1>6. CASE Reply(r, "error") /\ Posts(r)
  BY <1>2, <1>3, <1>4, <1>6, EndsWithOne DEF Same, Ended
<1>7. CASE Reply(r, "unauthorized") \/ Reply(r, "not found")
  BY <1>2, <1>3, <1>4, <1>7, EndsWithOne DEF Ended
<1>8. CASE Panic(r, wrote[r])
  <2>1. pc'[r] = "panicked" /\ wrote'[r] = <<>> \o IF Recovered(request[r]) THEN <<"error">> ELSE <<>>
    BY <1>2, <1>8, StepMoves DEF RequestInv
  <2>2. CASE Recovered(request[r])
    <3>1. wrote'[r] = <<"error">>
      BY <2>1, <2>2
    <3> QED BY <1>2, <1>3, <2>1, <3>1, EndsWithOne DEF Ended
  <2>3. CASE ~Recovered(request[r])
    <3>1. wrote'[r] = <<>>
      BY <2>1, <2>3
    <3> QED BY <2>1, <2>3, <3>1, EndsSilent DEF Same
  <2> QED BY <2>2, <2>3
<1>9. CASE Go(r, "auth") /\ wrote' = wrote /\ Posts(r)
  BY <1>2, <1>9, StepMoves DEF RequestInv, Answering, Silent, Same, Ended
<1>10. CASE /\ Go(r, "spawnSession") /\ wrote' = wrote
            /\ request[r].endpoint = "POST /mcp" /\ request[r].body = "initialize"
  BY <1>2, <1>10, StepMoves DEF RequestInv, Answering, Silent, Same, Ended
<1>11. CASE Go(r, "findSession") /\ (wrote' = wrote \/ Write(r, "forbidden")) /\ Streams(r)
  <2>1. pc'[r] = "findSession" /\ (wrote'[r] = <<>> \/ wrote'[r] = <<"forbidden">>)
    <3>1. Go(r, "findSession") => pc'[r] = "findSession"
      BY StepMoves DEF RequestInv
    <3>2. Write(r, "forbidden") => wrote'[r] = <<"forbidden">>
      BY <1>2, <1>3, WriteMoves DEF RequestInv
    <3> QED BY <1>2, <1>11, <3>1, <3>2
  <2> QED BY <1>2, <1>11, <2>1 DEF Answering, Silent, Forbidden, Same, Ended
<1> QED BY <1>1, <1>5, <1>6, <1>7, <1>8, <1>9, <1>10, <1>11

LEMMA MessageAnswers ==
  ASSUME RequestInv, NEW r \in Requests, Answering(r), Same(r),
         SerializeAuth(r) \/ FindRoot(r) \/ Send(r) \/ SpawnSession(r) \/ Initialize(r)
  PROVE  Answering(r)'
<1>1. "error" \in Words /\ "ok" \in Words /\ "not found" \in Words /\ wrote[r] \in Seq(Words)
  BY DEF Words, Same
<1>2. ASSUME NEW word \in {"ok", "error", "not found"}, Reply(r, word), Excused(r), Posts(r),
             word = "ok" => "delivered" \in effects'[r],
             word = "not found" => effects'[r] = {},
             effects'[r] = {"session"} => request[r].body = "initialize"
      PROVE  Answering(r)'
  <2>1. pc'[r] = "done" /\ Write(r, word) /\ word \in Words
    BY <1>1, <1>2, StepMoves DEF RequestInv, Reply
  <2>2. Posts(r)' /\ ~Streams(r)' /\ request'[r] = request[r] /\ request[r].endpoint # "preflight"
    BY <1>2 DEF Same, Posts
  <2>3. CASE wrote[r] = <<>>
    <3>1. wrote'[r] = <<word>>
      BY <2>1, <2>3, WriteMoves DEF RequestInv
    <3> QED BY <1>2, <2>1, <2>2, <3>1, EndsWithOne DEF Ended
  <2>4. CASE wrote[r] = <<"error">> /\ request[r].caller # Nobody
    <3>1. wrote[r] # <<>> /\ wrote[r][1] = "error"
      BY <2>4, OneAnswer, Zenon
    <3>2. wrote'[r] # <<>> /\ wrote'[r][1] = "error"
      BY <2>1, <3>1, WriteMoves DEF RequestInv
    <3> QED BY <1>2, <2>1, <2>2, <2>4, <3>2, EndsWithMore DEF Ended
  <2> QED BY <1>2, <2>3, <2>4 DEF Excused, Silent
<1>3. CASE SerializeAuth(r)
  <2>1. /\ pc[r] = "auth" /\ Go(r, "root") /\ effects' = effects
        /\ wrote' = wrote \/ (request[r].caller # Nobody /\ Write(r, "error"))
    BY <1>3 DEF SerializeAuth, At
  <2>2. wrote[r] = <<>> /\ effects'[r] = {} /\ Posts(r)
    BY <2>1 DEF Answering, Silent
  <2>3. Write(r, "error") => wrote'[r] = <<"error">>
    BY <1>1, <2>2, WriteMoves DEF RequestInv
  <2>4. pc'[r] = "root"
    BY <2>1, StepMoves DEF RequestInv
  <2> QED BY <2>1, <2>2, <2>3, <2>4 DEF Answering, Excused, Silent, Same, Ended
<1>4. CASE FindRoot(r)
  <2>1. /\ pc[r] = "root" /\ effects' = effects
        /\ \/ Go(r, "send") /\ wrote' = wrote
           \/ Reply(r, "error")
           \/ Panic(r, Append(wrote[r], "error"))
    BY <1>4 DEF FindRoot, At
  <2>2. Posts(r) /\ Excused(r) /\ effects'[r] = {}
    BY <2>1 DEF Answering
  <2>3. CASE Go(r, "send") /\ wrote' = wrote
    BY <2>2, <2>3, StepMoves DEF RequestInv, Answering, Excused, Silent, Same, Ended
  <2>4. CASE Reply(r, "error")
    BY <1>2, <2>2, <2>4
  <2>5. CASE Panic(r, Append(wrote[r], "error"))
    <3>1. Append(wrote[r], "error") \in Seq(Words)
      BY <1>1, Appended
    <3>2. Append(wrote[r], "error") # <<>> /\ Append(wrote[r], "error")[1] = "error"
      <4>1. CASE wrote[r] = <<>>
        <5>1. Append(wrote[r], "error") = <<"error">>
          BY <1>1, <4>1, Appended
        <5> QED BY <5>1, OneAnswer, Zenon
      <4>2. CASE wrote[r] = <<"error">>
        <5>1. wrote[r] # <<>> /\ wrote[r][1] = "error"
          BY <4>2, OneAnswer, Zenon
        <5> QED BY <1>1, <5>1, Appended
      <4> QED BY <2>2, <4>1, <4>2 DEF Excused, Silent
    <3>3. pc'[r] = "panicked" /\ wrote'[r] # <<>> /\ wrote'[r][1] = "error"
      BY <2>5, <3>1, <3>2, PanicMoves DEF RequestInv
    <3> QED BY <2>2, <3>3, EndsWithMore DEF Same, Ended
  <2> QED BY <2>1, <2>3, <2>4, <2>5
<1>5. CASE Send(r)
  <2>1. /\ pc[r] = "send"
        /\ \/ Effect(r, "delivered") /\ (Reply(r, "ok") \/ Reply(r, "error"))
           \/ effects' = effects /\ (Reply(r, "not found") \/ Reply(r, "error"))
    BY <1>5 DEF Send, At
  <2>2. Posts(r) /\ Excused(r) /\ effects[r] = {}
    BY <2>1 DEF Answering
  <2>3. Effect(r, "delivered") => effects'[r] = {"delivered"}
    BY <2>2, StepMoves DEF RequestInv
  <2> QED BY <1>2, <2>1, <2>2, <2>3
<1>6. CASE SpawnSession(r)
  <2>1. /\ pc[r] = "spawnSession"
        /\ \/ /\ Effect(r, "session") /\ Go(r, "initialize")
              /\ wrote' = wrote \/ (request[r].caller # Nobody /\ Write(r, "error"))
           \/ effects' = effects /\ Reply(r, "error")
    BY <1>6 DEF SpawnSession, At
  <2>2. /\ wrote[r] = <<>> /\ effects[r] = {} /\ Posts(r)
        /\ request[r].endpoint = "POST /mcp" /\ request[r].body = "initialize"
    BY <2>1 DEF Answering, Silent, Posts
  <2>3. CASE /\ Effect(r, "session") /\ Go(r, "initialize")
             /\ wrote' = wrote \/ (request[r].caller # Nobody /\ Write(r, "error"))
    <3>1. effects'[r] = {"session"} /\ pc'[r] = "initialize"
      BY <2>2, <2>3, StepMoves DEF RequestInv
    <3>2. Write(r, "error") => wrote'[r] = <<"error">>
      BY <1>1, <2>2, WriteMoves DEF RequestInv
    <3> QED BY <2>2, <2>3, <3>1, <3>2 DEF Answering, Excused, Silent, Same, Ended
  <2>4. CASE effects' = effects /\ Reply(r, "error")
    BY <1>2, <2>2, <2>4 DEF Excused, Silent
  <2> QED BY <2>1, <2>3, <2>4
<1>7. CASE Initialize(r)
  <2>1. /\ pc[r] = "initialize"
        /\ \/ Effect(r, "delivered") /\ (Reply(r, "ok") \/ Reply(r, "error"))
           \/ effects' = effects /\ Reply(r, "error")
    BY <1>7 DEF Initialize, At
  <2>2. Posts(r) /\ Excused(r) /\ request[r].body = "initialize"
    BY <2>1 DEF Answering, Posts
  <2>3. Effect(r, "delivered") => "delivered" \in effects'[r]
    BY StepMoves DEF RequestInv
  <2> QED BY <1>2, <2>1, <2>2, <2>3
<1> QED BY <1>3, <1>4, <1>5, <1>6, <1>7

LEMMA StreamAnswers ==
  ASSUME RequestInv, NEW r \in Requests, Answering(r), Same(r),
         FindSession(r) \/ MakeSession(r) \/ Connect(r) \/ SpawnWatcher(r) \/ StreamEnds(r)
  PROVE  Answering(r)'
<1>1. "error" \in Words /\ "ok" \in Words /\ wrote[r] \in Seq(Words)
  BY DEF Words, Same
<1>2. ASSUME wrote[r] = <<"forbidden">>
      PROVE  wrote[r] # <<>> /\ wrote[r][1] = "forbidden"
  BY <1>2, OneAnswer, Zenon
<1>3. Streams(r) => /\ Streams(r)' /\ ~Posts(r)' /\ request'[r].endpoint # "preflight"
                    /\ request'[r] = request[r]
  BY DEF Same
<1>4. CASE FindSession(r)
  <2>1. /\ pc[r] = "findSession" /\ wrote' = wrote /\ effects' = effects
        /\ Go(r, "connect") \/ Go(r, "makeSession")
    BY <1>4 DEF FindSession, At
  <2>2. pc'[r] = "connect" \/ pc'[r] = "makeSession"
    BY <2>1, StepMoves DEF RequestInv
  <2>3. Streams(r) /\ Forbidden(r) /\ effects[r] = {}
    BY <2>1 DEF Answering
  <2> QED BY <1>3, <2>1, <2>2, <2>3 DEF Answering, Forbidden, Silent, Ended
<1>5. CASE MakeSession(r)
  <2>1. /\ pc[r] = "makeSession"
        /\ \/ Effect(r, "session") /\ Go(r, "connect") /\ wrote' = wrote
           \/ effects' = effects /\ Reply(r, "error")
    BY <1>5 DEF MakeSession, At
  <2>2. Streams(r) /\ Forbidden(r) /\ effects[r] = {}
    BY <2>1 DEF Answering
  <2>3. CASE Effect(r, "session") /\ Go(r, "connect") /\ wrote' = wrote
    <3>1. pc'[r] = "connect" /\ effects'[r] = {"session"}
      BY <2>2, <2>3, StepMoves DEF RequestInv
    <3> QED BY <1>3, <2>2, <2>3, <3>1 DEF Answering, Forbidden, Silent, Ended
  <2>4. CASE effects' = effects /\ Reply(r, "error")
    <3>1. pc'[r] = "done" /\ Write(r, "error") /\ effects'[r] = {}
      BY <2>2, <2>4, StepMoves DEF RequestInv, Reply
    <3>2. CASE wrote[r] = <<>>
      <4>1. wrote'[r] = <<"error">>
        BY <1>1, <3>1, <3>2, WriteMoves DEF RequestInv
      <4> QED BY <1>1, <1>3, <2>2, <3>1, <4>1, EndsWithOne DEF Ended
    <3>3. CASE wrote[r] = <<"forbidden">>
      <4>1. wrote'[r] # <<>> /\ wrote'[r][1] = "forbidden"
        BY <1>1, <1>2, <3>1, <3>3, WriteMoves DEF RequestInv
      <4> QED BY <1>3, <2>2, <3>1, <4>1, EndsWithMore DEF Ended
    <3> QED BY <2>2, <3>2, <3>3 DEF Forbidden, Silent
  <2> QED BY <2>1, <2>3, <2>4
<1>6. CASE Connect(r)
  <2> DEFINE more == wrote[r] \o <<"ok", "error">>
  <2>1. /\ pc[r] = "connect" /\ Go(r, "watch")
        /\ \/ Write(r, "ok") /\ Effect(r, "stream")
           \/ wrote' = [wrote EXCEPT ![r] = more] /\ effects' = effects
    BY <1>6 DEF Connect, At
  <2>2. Streams(r) /\ Forbidden(r) /\ pc'[r] = "watch"
    BY <2>1, StepMoves DEF Answering, RequestInv
  <2>3. CASE Write(r, "ok") /\ Effect(r, "stream")
    <3>1. "stream" \in effects'[r]
      BY <2>3, StepMoves DEF RequestInv
    <3>2. wrote[r] = <<>> => First(r, "ok")'
      BY <1>1, <2>3, WriteMoves, OneAnswer DEF RequestInv, First
    <3>3. wrote[r] = <<"forbidden">> => First(r, "forbidden")'
      BY <1>1, <1>2, <2>3, WriteMoves DEF RequestInv, First
    <3>4. Opens(r)'
      BY <1>3, <2>2, <3>1, <3>2, <3>3 DEF Opens, Forbidden, Silent
    <3> QED BY <2>2, <3>1, <3>4 DEF Answering, Ended
  <2>4. CASE wrote' = [wrote EXCEPT ![r] = more] /\ effects' = effects
    <3>1. wrote'[r] = more
      BY <2>4 DEF RequestInv, RequestTypes
    <3>2. /\ more # <<>> /\ Len(more) > 1
          /\ wrote[r] # <<>> => more[1] = wrote[r][1]
          /\ wrote[r] = <<>> => more[1] = "ok" /\ more[2] = "error"
      BY <1>1, FailureAdds
    <3> HIDE DEF more
    <3>3. Opens(r)'
      BY <1>2, <1>3, <2>2, <3>1, <3>2 DEF Opens, Forbidden, Silent, First
    <3> QED BY <2>2, <3>1, <3>2, <3>3 DEF Answering, Ended
  <2> QED BY <2>1, <2>3, <2>4
<1>7. CASE SpawnWatcher(r)
  <2>1. /\ pc[r] = "watch" /\ effects' = effects
        /\ \/ /\ Write(r, "error")
              /\ Go(r, IF "stream" \in effects[r] THEN "streaming" ELSE "stuck")
           \/ "stream" \in effects[r] /\ Go(r, "streaming") /\ wrote' = wrote
           \/ Panic(r, wrote[r])
    BY <1>7 DEF SpawnWatcher, At
  <2>2. Opens(r) /\ ("stream" \notin effects[r] => Len(wrote[r]) > 1)
    BY <2>1 DEF Answering
  <2>3. wrote[r] # <<>> /\ Streams(r)
    BY <2>2 DEF Opens, First
  <2>4. CASE \/ wrote'[r] = wrote[r]
             \/ wrote'[r] = Append(wrote[r], "error") \/ wrote'[r] = wrote[r] \o <<"error">>
    <3>1. /\ wrote'[r] # <<>> /\ wrote'[r][1] = wrote[r][1] /\ Len(wrote'[r]) >= Len(wrote[r])
          /\ Len(wrote[r]) > 1 => wrote'[r][2] = wrote[r][2]
          /\ wrote'[r] = Append(wrote[r], "error") => Len(wrote'[r]) = Len(wrote[r]) + 1
      BY <1>1, <2>3, <2>4, Extended
    <3>2. Opens(r)'
      BY <1>1, <1>3, <2>1, <2>2, <3>1 DEF Opens, First
    <3>3. CASE /\ Write(r, "error")
               /\ Go(r, IF "stream" \in effects[r] THEN "streaming" ELSE "stuck")
      <4>1. wrote'[r] = Append(wrote[r], "error") /\ Len(wrote[r]) \in Nat
        BY <1>1, <3>3, StepMoves DEF RequestInv
      <4>2. CASE "stream" \in effects[r]
        <5>1. pc'[r] = "streaming"
          BY <3>3, <4>2, StepMoves DEF RequestInv
        <5> QED BY <2>1, <3>2, <4>2, <5>1 DEF Answering, Ended
      <4>3. CASE "stream" \notin effects[r]
        <5>1. pc'[r] = "stuck"
          BY <3>3, <4>3, StepMoves DEF RequestInv
        <5>2. Len(wrote'[r]) > 2
          BY <2>2, <3>1, <4>1, <4>3
        <5> QED BY <2>1, <3>2, <4>3, <5>1, <5>2, EndsOpened DEF Ended
      <4> QED BY <4>2, <4>3
    <3>4. CASE "stream" \in effects[r] /\ Go(r, "streaming") /\ wrote' = wrote
      <4>1. pc'[r] = "streaming"
        BY <3>4, StepMoves DEF RequestInv
      <4> QED BY <2>1, <3>2, <3>4, <4>1 DEF Answering, Ended
    <3>5. CASE Panic(r, wrote[r])
      <4>1. pc'[r] = "panicked"
        BY <3>5, StepMoves DEF RequestInv
      <4> QED BY <3>2, <4>1, EndsOpened DEF Ended
    <3> QED BY <2>1, <3>3, <3>4, <3>5
  <2>5. \/ wrote'[r] = wrote[r]
        \/ wrote'[r] = Append(wrote[r], "error") \/ wrote'[r] = wrote[r] \o <<"error">>
    BY <1>1, <2>1, StepMoves, PanicMoves DEF RequestInv
  <2> QED BY <2>4, <2>5
<1>8. CASE StreamEnds(r)
  <2>1. /\ pc[r] = "streaming" /\ Go(r, "done") /\ wrote' = wrote /\ effects' = effects
    BY <1>8 DEF StreamEnds, At
  <2>2. Opens(r)' /\ "stream" \in effects'[r]
    BY <1>3, <2>1 DEF Answering, Opens, First
  <2>3. pc'[r] = "done"
    BY <2>1, StepMoves DEF RequestInv
  <2> QED BY <2>2, <2>3, EndsOpened DEF Ended
<1> QED BY <1>4, <1>5, <1>6, <1>7, <1>8

LEMMA AnswerStep == RequestInv /\ AnswerInv /\ [Next]_vars => AnswerInv'
<1> SUFFICES ASSUME RequestInv, AnswerInv, [Next]_vars, NEW t \in Requests PROVE Answering(t)'
  BY DEF AnswerInv
<1>1. Answering(t)
  BY DEF AnswerInv
<1>2. ASSUME Unmoved(t), router' = router PROVE Answering(t)'
  <2>1. (Recovered(request[t]))' <=> Recovered(request[t])
    BY <1>2 DEF Recovered, Unmoved
  <2>2. Streams(t)' = Streams(t) /\ Posts(t)' = Posts(t)
    BY <1>2 DEF Streams, Posts, Unmoved
  <2>3. Told(t) => Told(t)'
    BY <1>2, <2>1, <2>2 DEF Told, Unmoved
  <2> QED BY <1>1, <1>2, <2>2, <2>3 DEF Answering, Unmoved, Silent, Excused, Forbidden, Opens, First
<1>3. CASE StartBegins \/ StartActors \/ StartRoot \/ Listen \/ StopActors \/ StopHttp
  BY <1>2, <1>3 DEF StartBegins, StartActors, StartRoot, Listen, StopActors, StopHttp,
     lifeVars, requestVars, Unmoved
<1>4. CASE Restart
  <2>1. CASE pc[t] \in {"none", "done", "panicked"}
    BY <1>2, <1>4, <2>1 DEF Restart, Unmoved
  <2>2. CASE pc[t] \notin {"none", "done", "panicked"}
    BY <1>4, <2>2 DEF Restart, Answering, Ended
  <2> QED BY <2>1, <2>2
<1>5. ASSUME NEW id \in sessions, SessionEnds(id) PROVE Answering(t)'
  BY <1>2, <1>5 DEF SessionEnds, lifeVars, requestVars, Unmoved
<1>6. ASSUME NEW r \in Requests, NEW q \in Inquiries, NEW first \in Ids, NEW query \in Ids,
             Arrive(r, q, first, query)
      PROVE  Answering(t)'
  <2>1. /\ pc[r] = "none" /\ pc' = [pc EXCEPT ![r] = "received"] /\ router' = router
        /\ wrote' = wrote /\ effects' = effects /\ session' = session
        /\ \E asked : request' = [request EXCEPT ![r] = asked]
    BY <1>6 DEF Arrive, At, Go, lifeVars
  <2>2. CASE t = r
    <3>1. pc'[t] = "received" /\ wrote'[t] = wrote[t] /\ effects'[t] = effects[t]
      BY <2>1, <2>2 DEF RequestInv, RequestTypes
    <3> QED BY <1>1, <2>1, <2>2, <3>1 DEF Answering, Silent, Ended
  <2>3. CASE t # r
    BY <1>2, <2>1, <2>3 DEF RequestInv, RequestTypes, Unmoved
  <2> QED BY <2>2, <2>3
<1>7. ASSUME NEW r \in Requests, Handle(r) PROVE Answering(t)'
  <2>1. CASE t = r
    BY <1>1, <1>7, <2>1, StaysSame, FirstAnswers, MessageAnswers, StreamAnswers DEF Handle
  <2>2. CASE t # r
    BY <1>2, <1>7, <2>2, OthersUnmoved DEF RequestInv
  <2> QED BY <2>1, <2>2
<1>8. CASE UNCHANGED vars
  BY <1>2, <1>8 DEF vars, lifeVars, requestVars, Unmoved
<1> QED BY <1>3, <1>4, <1>5, <1>6, <1>7, <1>8 DEF Next

\* What a request was told is what it did, whatever happened to the server meanwhile
\* (the answers of httphandlers/*.go and the middleware of mcp_server.go).
THEOREM AnswersAreTrue == Spec => []AnswersTrue
<1>1. Init => AnswerInv
  BY DEF Init, AnswerInv, Answering, Silent, Ended
<1>2. RequestInv /\ AnswerInv => AnswersTrue
  BY DEF RequestInv, Asked, AnswerInv, Answering, Told, AnswersTrue, Streams, Posts
<1> QED
  BY <1>1, <1>2, RequestInit, RequestStep, AnswerStep, PTL DEF Spec
=============================================================================
