-------------------------- MODULE HttpClient_proofs --------------------------
(***************************************************************************)
(* Theorems about HttpClient, for every set of requests.                   *)
(*                                                                         *)
(* Ids are unique because the counter is read and written under one lock,  *)
(* so the entry the callback finds under the id of an answer is that of    *)
(* the request the answer is for; and a request is answered once, so its   *)
(* channel is empty when the callback sends. Until Close clears the map    *)
(* each request on its way has an entry, so that its answer finds it.      *)
(***************************************************************************)
EXTENDS HttpClient, TLAPS

\* Where a request has no answer on its way yet.
Before == {"idle", "checked", "registered"}

\* Where SendRequest has not yet decided what it returns.
Undecided == {"idle", "checked", "registered", "replied", "posted", "waiting"}

\* No id is given to two requests.
IdsUnique == \A r, s \in Requests : id[r] = id[s] /\ id[r] # None => r = s

\* A request has no result before it has decided on one.
ResultsLate == \A r \in Requests : pc[r] \in Undecided => result[r] = "none"

\* The one answer to a request is with the server, with the callback or in the
\* channel.
OneAnswer ==
  \A r \in Requests :
    /\ r \in unanswered => buffer[r] = Nobody /\ reader # r /\ pc[r] \notin Before
    /\ reader = r => buffer[r] = Nobody /\ carried = r /\ pc[r] \notin Before
    /\ buffer[r] # Nobody => buffer[r] = r /\ pc[r] \notin Before

\* Every entry of the map is the open channel of a request on its way.
EntriesOpen ==
  \A i \in DOMAIN responseMap :
    /\ id[responseMap[i]] = i /\ channel[responseMap[i]] = "open"
    /\ pc[responseMap[i]] \in {"registered", "replied", "posted", "waiting", "cleanup"}

\* An answer that finds its request registered finds room in its channel.
NoAnswerDropped == dropped = {}

\* The entries of the map.
MapInv == IdsUnique /\ EntriesOpen

\* The answers.
AnswerInv == ResultsLate /\ OneAnswer /\ OwnAnswer /\ NoAnswerDropped

-----------------------------------------------------------------------------
\* What the set of a map's values says of each entry.
LEMMA RangeTyped ==
  ASSUME NEW f, NEW S
  PROVE  Range(f) \subseteq S <=> \A i \in DOMAIN f : f[i] \in S
  BY DEF Range

\* The next id is none of those before it.
LEMMA CounterGrows ==
  ASSUME NEW n \in Nat
  PROVE  /\ n + 1 \in Nat /\ n + 1 # 0 /\ n + 1 \notin 0..n
         /\ 0..n \subseteq 0..(n + 1) /\ n + 1 \in 0..(n + 1)
  OBVIOUS

\* A map without entries has no values.
LEMMA EmptyMap == DOMAIN <<>> = {} /\ Range(<<>>) = {}
  BY DEF Range

-----------------------------------------------------------------------------
(* Types.                                                                  *)

\* Every reachable state is well typed, for every set of requests.
THEOREM TypeCorrect == Spec => []TypeOK
<1>1. Init => TypeOK
  BY EmptyMap DEF Init, TypeOK, Ids, None
<1>2. TypeOK /\ [Next]_vars => TypeOK'
  <2> SUFFICES ASSUME TypeOK, [Next]_vars PROVE TypeOK'
    OBVIOUS
  <2> USE DEF TypeOK, Ids, None, GoTo, Return, requestVars, channelVars, readerVars, closeVars
  <2>1. ASSUME NEW r \in Requests, Check(r) PROVE TypeOK'
    BY <2>1 DEF Check
  <2>2. ASSUME NEW r \in Requests, Register(r) PROVE TypeOK'
    <3>1. requestIDCounter' = requestIDCounter + 1 /\ requestIDCounter' \in Nat
      <4>1. requestIDCounter' = requestIDCounter + 1
        BY <2>2 DEF Register
      <4> QED
        BY <4>1, CounterGrows
    <3>2. id' \in [Requests -> 0..requestIDCounter']
      <4>1. id' = [id EXCEPT ![r] = requestIDCounter']
        BY <2>2, <3>1 DEF Register
      <4>2. 0..requestIDCounter \subseteq 0..requestIDCounter' /\ requestIDCounter' \in 0..requestIDCounter'
        BY <3>1, CounterGrows
      <4>3. id \in [Requests -> 0..requestIDCounter']
        BY <4>2
      <4> QED
        BY <4>1, <4>2, <4>3
    <3>3. /\ DOMAIN responseMap' = DOMAIN responseMap \cup {requestIDCounter'}
          /\ \A i \in DOMAIN responseMap' :
               responseMap'[i] = IF i = requestIDCounter' THEN r ELSE responseMap[i]
      BY <2>2, <3>1 DEF Register
    <3>4. DOMAIN responseMap' \subseteq (0..requestIDCounter') \ {0}
      <4> HIDE DEF Ids
      <4>1. DOMAIN responseMap \subseteq (0..requestIDCounter) \ {0}
        BY DEF Ids
      <4> QED
        <5>1. requestIDCounter' \in (0..requestIDCounter') \ {0}
          BY <3>1, CounterGrows
        <5>2. 0..requestIDCounter \subseteq 0..requestIDCounter'
          BY <3>1, CounterGrows
        <5> QED
          BY <3>3, <4>1, <5>1, <5>2
    <3>5. Range(responseMap') \subseteq Requests
      <4>1. \A i \in DOMAIN responseMap : responseMap[i] \in Requests
        BY RangeTyped
      <4>2. \A i \in DOMAIN responseMap' : responseMap'[i] \in Requests
        BY <3>3, <4>1
      <4> QED
        BY <4>2, RangeTyped
    <3>6. /\ pc' = [pc EXCEPT ![r] = "registered"] /\ channel' = [channel EXCEPT ![r] = "open"]
          /\ UNCHANGED <<connectionMethod, result, answer, buffer, readerVars, closeVars, panic>>
      BY <2>2 DEF Register
    <3> QED
      BY <3>1, <3>2, <3>4, <3>5, <3>6
  <2>3. ASSUME NEW r \in Requests, Post(r) PROVE TypeOK'
    BY <2>3 DEF Post
  <2>4. ASSUME NEW r \in Requests, PostFails(r) PROVE TypeOK'
    BY <2>4 DEF PostFails
  <2>5. ASSUME NEW r \in Requests, Accepted(r) PROVE TypeOK'
    <3>1. CASE GoTo(r, "waiting") /\ UNCHANGED result
      BY <2>5, <3>1 DEF Accepted
    <3>2. CASE Return(r, "made up")
      BY <2>5, <3>2 DEF Accepted
    <3> QED
      BY <2>5, <3>1, <3>2 DEF Accepted
  <2>6. ASSUME NEW r \in Requests, Take(r) PROVE TypeOK'
    <3>1. pc' \in [Requests -> {"idle", "checked", "registered", "replied", "posted", "waiting",
                                  "cleanup", "unregistered", "done"}]
      <4>1. pc' \in {pc, [pc EXCEPT ![r] = "cleanup"]}
        BY <2>6 DEF Take
      <4> QED
        BY <4>1
    <3>2. result' \in [Requests -> {"none", "answer", "made up", "error", "timeout"}]
      BY <2>6 DEF Take
    <3>3. /\ answer' \in [Requests -> Requests \cup {Nobody}]
          /\ buffer' \in [Requests -> Requests \cup {Nobody}]
      BY <2>6 DEF Take
    <3>4. panic' \in {panic, "nil response"}
      BY <2>6 DEF Take
    <3> QED
      BY <2>6, <3>1, <3>2, <3>3, <3>4 DEF Take
  <2>7. ASSUME NEW r \in Requests, GiveUp(r) PROVE TypeOK'
    BY <2>7 DEF GiveUp
  <2>8. ASSUME NEW r \in Requests, Unregister(r) PROVE TypeOK'
    <3>1. DOMAIN responseMap' \subseteq DOMAIN responseMap /\ Range(responseMap') \subseteq Requests
      BY <2>8, RangeTyped DEF Unregister, Restrict
    <3> QED
      BY <2>8, <3>1 DEF Unregister
  <2>9. ASSUME NEW r \in Requests, CloseChannel(r) PROVE TypeOK'
    <3>1. pc' \in [Requests -> {"idle", "checked", "registered", "replied", "posted", "waiting",
                                  "cleanup", "unregistered", "done"}]
      BY <2>9 DEF CloseChannel
    <3>2. channel' \in [Requests -> {"none", "open", "closed"}]
      BY <2>9 DEF CloseChannel
    <3>3. panic' \in {panic, "close of closed channel"}
      BY <2>9 DEF CloseChannel
    <3> QED
      BY <2>9, <3>1, <3>2, <3>3 DEF CloseChannel
  <2>10. ASSUME NEW r \in Requests, Arrive(r) PROVE TypeOK'
    <3>1. \A i \in DOMAIN responseMap : responseMap[i] \in Requests
      BY RangeTyped
    <3>2. reader' \in Requests \cup {Nobody} /\ carried' \in Requests \cup {Nobody}
      BY <2>10, <3>1 DEF Arrive
    <3> QED
      BY <2>10, <3>2 DEF Arrive
  <2>11. CASE Deliver
    <3>1. buffer' \in [Requests -> Requests \cup {Nobody}]
      BY <2>11 DEF Deliver
    <3>3. dropped' \subseteq Requests \cup {Nobody}
      BY <2>11 DEF Deliver
    <3>2. panic' \in {panic, "send on closed channel"}
      BY <2>11 DEF Deliver
    <3> QED
      BY <2>11, <3>1, <3>2, <3>3 DEF Deliver
  <2>12. CASE CancelStream
    BY <2>12 DEF CancelStream
  <2>13. CASE ClearResponseMap
    <3>1. /\ channel' \in [Requests -> {"none", "open", "closed"}]
          /\ panic' \in {panic, "close of closed channel"}
          /\ responseMap' \in {responseMap, <<>>}
      BY <2>13 DEF ClearResponseMap
    <3>2. DOMAIN responseMap' \subseteq Ids \ {None} /\ Range(responseMap') \subseteq Requests
      BY <3>1, EmptyMap
    <3> QED
      BY <2>13, <3>1, <3>2 DEF ClearResponseMap
  <2>14. CASE EndClose
    BY <2>14 DEF EndClose
  <2>15. CASE UNCHANGED vars
    BY <2>15 DEF vars
  <2>16. ASSUME NEW r \in Requests, PostForBody(r) PROVE TypeOK'
    BY <2>16 DEF PostForBody
  <2>17. ASSUME NEW r \in Requests, Replied(r) PROVE TypeOK'
    BY <2>17 DEF Replied
  <2> QED BY <2>1, <2>2, <2>3, <2>4, <2>5, <2>6, <2>7, <2>8, <2>9, <2>10, <2>11, <2>12, <2>13,
             <2>14, <2>15, <2>16, <2>17
          DEF Next, SendStep, CloseStep
<1> QED BY <1>1, <1>2, PTL DEF Spec

-----------------------------------------------------------------------------
(* The map.                                                                *)

\* Where a request may have an entry.
Registered == {"registered", "replied", "posted", "waiting", "cleanup"}

\* What MapInv says of one entry.
LEMMA EntryFacts ==
  ASSUME TypeOK, MapInv, NEW i \in DOMAIN responseMap
  PROVE  /\ i # None /\ responseMap[i] \in Requests /\ id[responseMap[i]] = i
         /\ channel[responseMap[i]] = "open" /\ pc[responseMap[i]] \in Registered
<1>1. responseMap[i] \in Requests
  BY RangeTyped DEF TypeOK
<1>2. i # None
  BY DEF TypeOK
<1> QED
  BY <1>1, <1>2 DEF MapInv, EntriesOpen, Registered

\* What happens to the requests without an entry does not disturb the others.
LEMMA OthersKeepEntries ==
  ASSUME TypeOK, MapInv, NEW r \in Requests, NEW i \in DOMAIN responseMap,
         responseMap'[i] = responseMap[i], responseMap[i] # r,
         \A q \in Requests \ {r} : pc'[q] = pc[q] /\ id'[q] = id[q] /\ channel'[q] = channel[q]
  PROVE  /\ id'[responseMap'[i]] = i /\ channel'[responseMap'[i]] = "open"
         /\ pc'[responseMap'[i]] \in {"registered", "replied", "posted", "waiting", "cleanup"}
  BY EntryFacts DEF Registered

\* A request that goes on without touching the map keeps its entry.
LEMMA MoveKeepsEntries ==
  ASSUME TypeOK, MapInv, NEW r \in Requests, NEW place,
         pc[r] \in Registered => place \in Registered,
         pc' \in {pc, [pc EXCEPT ![r] = place]}, UNCHANGED <<id, responseMap, channel>>
  PROVE  MapInv'
<1>1. IdsUnique'
  BY DEF MapInv, IdsUnique
<1>2. \A i \in DOMAIN responseMap : pc'[responseMap[i]] \in Registered
  BY EntryFacts DEF TypeOK
<1>3. EntriesOpen'
  BY <1>2 DEF MapInv, EntriesOpen, Registered
<1> QED
  BY <1>1, <1>3 DEF MapInv

\* A new id is not one of the ids given before.
LEMMA RegisterKeepsMapInv ==
  ASSUME TypeOK, MapInv, NEW r \in Requests, Register(r)
  PROVE  MapInv'
<1> DEFINE next == requestIDCounter + 1
<1>1. /\ id \in [Requests -> 0..requestIDCounter] /\ id' = [id EXCEPT ![r] = next]
      /\ next \notin 0..requestIDCounter
  BY CounterGrows DEF TypeOK, Ids, Register
<1>2. IdsUnique'
  <2> HIDE DEF next
  <2>1. ASSUME NEW s \in Requests, NEW q \in Requests, id'[s] = id'[q], id'[s] # None
        PROVE  s = q
    BY <1>1, <2>1 DEF MapInv, IdsUnique
  <2> QED
    BY <2>1 DEF IdsUnique
<1>3. ASSUME NEW i \in DOMAIN responseMap'
      PROVE  /\ id'[responseMap'[i]] = i /\ channel'[responseMap'[i]] = "open"
             /\ pc'[responseMap'[i]] \in {"registered", "replied", "posted", "waiting", "cleanup"}
  <2>1. CASE i = next
    BY <2>1 DEF Register, GoTo, TypeOK
  <2>2. CASE i # next
    <3>1. i \in DOMAIN responseMap /\ responseMap'[i] = responseMap[i]
      BY <2>2 DEF Register
    <3>2. responseMap[i] # r
      BY <3>1, EntryFacts DEF Register, Registered
    <3>3. \A q \in Requests \ {r} : pc'[q] = pc[q] /\ id'[q] = id[q] /\ channel'[q] = channel[q]
      BY DEF Register, GoTo, TypeOK
    <3> QED
      BY <3>1, <3>2, <3>3, OthersKeepEntries
  <2> QED
    BY <2>1, <2>2
<1> QED
  BY <1>2, <1>3 DEF MapInv, EntriesOpen

\* No step disturbs the entries.
LEMMA MapAlways == Spec => []MapInv
<1>1. Init => MapInv
  BY EmptyMap DEF Init, MapInv, IdsUnique, EntriesOpen, None
<1>2. TypeOK /\ MapInv /\ [Next]_vars => MapInv'
  <2> SUFFICES ASSUME TypeOK, MapInv, [Next]_vars PROVE MapInv'
    OBVIOUS
  <2> USE DEF requestVars, channelVars, readerVars, closeVars
  <2>1. CASE UNCHANGED <<id, pc, responseMap, channel>>
    BY <2>1 DEF MapInv, IdsUnique, EntriesOpen
  <2>2. ASSUME NEW r \in Requests,
               \/ Check(r) \/ PostForBody(r) \/ Post(r) \/ PostFails(r) \/ Replied(r)
               \/ Accepted(r) \/ Take(r) \/ GiveUp(r)
        PROVE  MapInv'
    <3>1. UNCHANGED <<id, responseMap, channel>>
      BY <2>2 DEF Check, PostForBody, Post, PostFails, Replied, Accepted, Take, GiveUp
    <3>2. \E place :
            /\ pc[r] \in Registered => place \in Registered
            /\ pc' \in {pc, [pc EXCEPT ![r] = place]}
      BY <2>2 DEF Check, PostForBody, Post, PostFails, Replied, Accepted, Take, GiveUp, GoTo, Return, Registered
    <3> QED
      BY <3>1, <3>2, MoveKeepsEntries
  <2>3. ASSUME NEW r \in Requests, Register(r) PROVE MapInv'
    BY <2>3, RegisterKeepsMapInv
  <2>4. ASSUME NEW r \in Requests, Unregister(r) PROVE MapInv'
    <3>1. \A i \in DOMAIN responseMap' :
            /\ i \in DOMAIN responseMap /\ i # id[r] /\ responseMap'[i] = responseMap[i]
      BY <2>4 DEF Unregister, Restrict
    <3>2. \A i \in DOMAIN responseMap' : responseMap[i] # r
      BY <3>1, EntryFacts
    <3>3. \A q \in Requests \ {r} : pc'[q] = pc[q] /\ id'[q] = id[q] /\ channel'[q] = channel[q]
      BY <2>4 DEF Unregister, GoTo, TypeOK
    <3>4. EntriesOpen'
      BY <3>1, <3>2, <3>3, OthersKeepEntries DEF EntriesOpen
    <3> QED
      BY <2>4, <3>4 DEF MapInv, IdsUnique, Unregister
  <2>5. ASSUME NEW r \in Requests, CloseChannel(r) PROVE MapInv'
    <3>1. responseMap' = responseMap /\ \A i \in DOMAIN responseMap : responseMap[i] # r
      BY <2>5, EntryFacts DEF CloseChannel, Registered
    <3>2. \A q \in Requests \ {r} : pc'[q] = pc[q] /\ id'[q] = id[q] /\ channel'[q] = channel[q]
      BY <2>5 DEF CloseChannel, GoTo, TypeOK
    <3>3. EntriesOpen'
      BY <3>1, <3>2, OthersKeepEntries DEF EntriesOpen
    <3> QED
      BY <2>5, <3>3 DEF MapInv, IdsUnique, CloseChannel
  <2>6. CASE ClearResponseMap
    <3>1. responseMap' = <<>> \/ UNCHANGED <<responseMap, channel>>
      BY <2>6 DEF ClearResponseMap
    <3>2. EntriesOpen'
      BY <2>6, <3>1, EmptyMap DEF MapInv, EntriesOpen, ClearResponseMap
    <3> QED
      BY <2>6, <3>2 DEF MapInv, IdsUnique, ClearResponseMap
  <2>7. ASSUME NEW r \in Requests, Arrive(r) PROVE MapInv'
    BY <2>1, <2>7 DEF Arrive
  <2>8. CASE Deliver \/ CancelStream \/ EndClose \/ UNCHANGED vars
    BY <2>1, <2>8 DEF Deliver, CancelStream, EndClose, vars
  <2> QED
    BY <2>2, <2>3, <2>4, <2>5, <2>6, <2>7, <2>8 DEF Next, SendStep, CloseStep
<1> QED
  BY <1>1, <1>2, TypeCorrect, PTL DEF Spec

\* The map holds the open channels of requests on their way: Close never closes a
\* channel that cleanup has closed before.
THEOREM EntriesAlwaysOpen == Spec => []EntriesOpen
  BY MapAlways, PTL DEF MapInv

-----------------------------------------------------------------------------
(* The answers.                                                            *)

\* The callback sends to the request the answer is for, and finds its channel empty.
LEMMA ArriveKeepsAnswers ==
  ASSUME TypeOK, MapInv, AnswerInv, NEW r \in Requests, Arrive(r)
  PROVE  AnswerInv'
<1>1. id[r] \in DOMAIN responseMap => responseMap[id[r]] = r
  BY EntryFacts DEF MapInv, IdsUnique
<1>2. unanswered' = unanswered \ {r} /\ r \in unanswered /\ reader = Nobody
  BY DEF Arrive
<1>3. \/ reader' = r /\ carried' = r
      \/ UNCHANGED <<reader, carried>>
  BY <1>1 DEF Arrive
<1>4. UNCHANGED <<connectionMethod, pc, result, answer, buffer, dropped>>
  BY DEF Arrive, requestVars, channelVars
<1>5. OneAnswer'
  BY <1>2, <1>3, <1>4, RequestsAssumption DEF AnswerInv, OneAnswer
<1> QED
  BY <1>4, <1>5 DEF AnswerInv, ResultsLate, OwnAnswer, NoAnswerDropped

\* The send finds the channel empty, and puts the request's own answer into it.
LEMMA DeliverKeepsAnswers ==
  ASSUME TypeOK, AnswerInv, Deliver
  PROVE  AnswerInv'
<1>1. reader \in Requests /\ carried = reader /\ buffer[reader] = Nobody
      /\ pc[reader] \notin Before /\ reader \notin unanswered
  BY DEF Deliver, TypeOK, AnswerInv, OneAnswer
<1>2. buffer' \in {buffer, [buffer EXCEPT ![reader] = reader]} /\ dropped' = dropped
  BY <1>1 DEF Deliver
<1>3. reader' = Nobody /\ UNCHANGED <<connectionMethod, pc, result, answer, unanswered>>
  BY DEF Deliver, requestVars
<1>4. OneAnswer'
  BY <1>1, <1>2, <1>3, RequestsAssumption DEF AnswerInv, OneAnswer, TypeOK
<1> QED
  BY <1>2, <1>3, <1>4 DEF AnswerInv, ResultsLate, OwnAnswer, NoAnswerDropped

\* A request that goes on, or returns something else than an answer, leaves the
\* answers where they are.
LEMMA MoveKeepsAnswers ==
  ASSUME TypeOK, AnswerInv, NEW r \in Requests, NEW place,
         UNCHANGED <<connectionMethod, answer, unanswered, buffer, reader, carried, dropped>>,
         pc' = [pc EXCEPT ![r] = place], pc[r] \notin Before => place \notin Before,
         \/ result' = result /\ (place \in Undecided => pc[r] \in Undecided)
         \/ /\ \/ result' = [result EXCEPT ![r] = "error"]
               \/ result' = [result EXCEPT ![r] = "timeout"]
               \/ result' = [result EXCEPT ![r] = "made up"] /\ connectionMethod = "http"
            /\ pc[r] \in Undecided /\ place \notin Undecided
  PROVE  AnswerInv'
<1>1. OneAnswer'
  BY DEF AnswerInv, OneAnswer, TypeOK
<1>2. ResultsLate'
  BY DEF AnswerInv, ResultsLate, TypeOK
<1>3. OwnAnswer'
  <2> SUFFICES ASSUME NEW q \in Requests
               PROVE  /\ answer'[q] = IF result'[q] = "answer" THEN q ELSE Nobody
                      /\ result'[q] = "made up" => connectionMethod' = "http"
    BY DEF OwnAnswer
  <2>1. /\ answer[q] = IF result[q] = "answer" THEN q ELSE Nobody
        /\ result[q] = "made up" => connectionMethod = "http"
        /\ pc[q] \in Undecided => result[q] = "none"
    BY DEF AnswerInv, OwnAnswer, ResultsLate
  <2>2. CASE result'[q] = result[q]
    BY <2>1, <2>2
  <2>3. CASE result'[q] # result[q]
    <3>1. q = r /\ pc[r] \in Undecided
      BY <2>3 DEF TypeOK
    <3>2. \/ result'[r] \in {"error", "timeout"}
          \/ result'[r] = "made up" /\ connectionMethod = "http"
      BY <2>3, <3>1 DEF TypeOK
    <3> QED
      BY <2>1, <3>1, <3>2
  <2> QED
    BY <2>2, <2>3
<1> QED
  BY <1>1, <1>2, <1>3 DEF AnswerInv, NoAnswerDropped

\* The body of a 200 is the request's own answer.
LEMMA RepliedKeepsAnswers ==
  ASSUME TypeOK, AnswerInv, NEW r \in Requests, Replied(r)
  PROVE  AnswerInv'
<1>1. /\ pc[r] = "replied" /\ Return(r, "answer") /\ answer' = [answer EXCEPT ![r] = r]
      /\ UNCHANGED <<connectionMethod, unanswered, buffer, reader, carried, dropped>>
  BY DEF Replied, channelVars, readerVars
<1>2. OneAnswer'
  BY <1>1 DEF AnswerInv, OneAnswer, TypeOK, Return, GoTo, Before
<1>3. ResultsLate'
  BY <1>1 DEF AnswerInv, ResultsLate, TypeOK, Return, GoTo, Undecided
<1>4. OwnAnswer'
  BY <1>1 DEF AnswerInv, OwnAnswer, TypeOK, Return
<1> QED
  BY <1>1, <1>2, <1>3, <1>4 DEF AnswerInv, NoAnswerDropped

\* A 202 is no answer: over SSE the request waits for it, over HTTP it returns a
\* result of its own.
LEMMA AcceptedKeepsAnswers ==
  ASSUME TypeOK, AnswerInv, NEW r \in Requests, Accepted(r)
  PROVE  AnswerInv'
<1>1. CASE GoTo(r, "waiting") /\ UNCHANGED result
  BY <1>1, MoveKeepsAnswers DEF Accepted, GoTo, Before, Undecided, channelVars, readerVars
<1>2. CASE connectionMethod = "http" /\ Return(r, "made up")
  BY <1>2, MoveKeepsAnswers DEF Accepted, Return, GoTo, Before, Undecided, channelVars, readerVars
<1> QED
  BY <1>1, <1>2 DEF Accepted

\* What is in a request's channel is its own answer.
LEMMA TakeKeepsAnswers ==
  ASSUME TypeOK, AnswerInv, NEW r \in Requests, Take(r)
  PROVE  AnswerInv'
<1>1. CASE buffer[r] # Nobody
  <2>1. /\ buffer[r] = r /\ answer' = [answer EXCEPT ![r] = r]
        /\ Return(r, "answer") /\ buffer' = [buffer EXCEPT ![r] = Nobody]
    BY <1>1 DEF Take, AnswerInv, OneAnswer
  <2>2. UNCHANGED <<connectionMethod, unanswered, reader, carried, dropped>>
    BY DEF Take, readerVars
  <2>3. OneAnswer'
    BY <2>1, <2>2 DEF AnswerInv, OneAnswer, TypeOK, Return, GoTo, Before
  <2>4. ResultsLate'
    BY <2>1 DEF AnswerInv, ResultsLate, TypeOK, Return, GoTo, Undecided
  <2>5. OwnAnswer'
    BY <2>1, <2>2 DEF AnswerInv, OwnAnswer, TypeOK, Return
  <2> QED
    BY <2>2, <2>3, <2>4, <2>5 DEF AnswerInv, NoAnswerDropped
<1>2. CASE buffer[r] = Nobody
  <2>1. UNCHANGED <<connectionMethod, pc, result, answer, buffer, unanswered, reader, carried, dropped>>
    BY <1>2 DEF Take, readerVars
  <2> QED
    BY <2>1 DEF AnswerInv, ResultsLate, OneAnswer, OwnAnswer, NoAnswerDropped
<1> QED
  BY <1>1, <1>2

\* No step disturbs the answers.
LEMMA AnswersInductive == TypeOK /\ MapInv /\ AnswerInv /\ [Next]_vars => AnswerInv'
<1> SUFFICES ASSUME TypeOK, MapInv, AnswerInv, [Next]_vars PROVE AnswerInv'
  OBVIOUS
<1> USE DEF requestVars, channelVars, readerVars
<1>1. CASE UNCHANGED <<connectionMethod, pc, result, answer, unanswered, buffer, reader, carried, dropped>>
  BY <1>1 DEF AnswerInv, ResultsLate, OneAnswer, OwnAnswer, NoAnswerDropped
<1>2. CASE CancelStream \/ CloseStep \/ UNCHANGED vars
  BY <1>1, <1>2 DEF CancelStream, CloseStep, ClearResponseMap, EndClose, vars
<1>3. ASSUME NEW r \in Requests, Check(r) PROVE AnswerInv'
  BY <1>3, MoveKeepsAnswers DEF Check, GoTo, Before, Undecided
<1>4. ASSUME NEW r \in Requests, Register(r) PROVE AnswerInv'
  BY <1>4, MoveKeepsAnswers DEF Register, GoTo, Before, Undecided
<1>5. ASSUME NEW r \in Requests, Post(r) PROVE AnswerInv'
  <2>1. unanswered' = unanswered \cup {r} /\ pc[r] = "registered"
        /\ pc' = [pc EXCEPT ![r] = "posted"] /\ UNCHANGED <<connectionMethod, result, answer, buffer, reader, carried, dropped>>
    BY <1>5 DEF Post, GoTo
  <2>2. OneAnswer'
    BY <2>1 DEF AnswerInv, OneAnswer, TypeOK, Before
  <2>3. ResultsLate'
    BY <2>1 DEF AnswerInv, ResultsLate, TypeOK, Undecided
  <2> QED
    BY <2>1, <2>2, <2>3 DEF AnswerInv, OwnAnswer, NoAnswerDropped
<1>6. ASSUME NEW r \in Requests, PostFails(r) \/ GiveUp(r) PROVE AnswerInv'
  BY <1>6, MoveKeepsAnswers DEF PostFails, GiveUp, Return, GoTo, Before, Undecided
<1>7. ASSUME NEW r \in Requests, Accepted(r) PROVE AnswerInv'
  BY <1>7, AcceptedKeepsAnswers
<1>8. ASSUME NEW r \in Requests, Take(r) PROVE AnswerInv'
  BY <1>8, TakeKeepsAnswers
<1>12. ASSUME NEW r \in Requests, PostForBody(r) PROVE AnswerInv'
  BY <1>12, MoveKeepsAnswers DEF PostForBody, GoTo, Before, Undecided
<1>13. ASSUME NEW r \in Requests, Replied(r) PROVE AnswerInv'
  BY <1>13, RepliedKeepsAnswers
<1>9. ASSUME NEW r \in Requests, Unregister(r) \/ CloseChannel(r) PROVE AnswerInv'
  BY <1>1, <1>9, MoveKeepsAnswers DEF Unregister, CloseChannel, GoTo, Before, Undecided
<1>10. ASSUME NEW r \in Requests, Arrive(r) PROVE AnswerInv'
  BY <1>10, ArriveKeepsAnswers
<1>11. CASE Deliver
  BY <1>11, DeliverKeepsAnswers
<1> QED
  BY <1>2, <1>3, <1>4, <1>5, <1>6, <1>7, <1>8, <1>9, <1>10, <1>11, <1>12, <1>13
  DEF Next, SendStep

\* The answers are as AnswerInv says in every reachable state.
LEMMA AnswersAlways == Spec => []AnswerInv
<1>1. Init => AnswerInv
  BY RequestsAssumption DEF Init, AnswerInv, ResultsLate, OneAnswer, OwnAnswer, NoAnswerDropped
<1> QED
  BY <1>1, AnswersInductive, TypeCorrect, MapAlways, PTL DEF Spec

\* What SendRequest returns of the server's is the answer to its own request, and it
\* makes up a result with the connection method HTTP only, for any number of requests
\* and any order of answers, timeouts and Close.
THEOREM AnswersAreOwn == Spec => []OwnAnswer
  BY AnswersAlways, PTL DEF AnswerInv

\* The callback always finds room for an answer whose request is registered.
THEOREM AnswersFindRoom == Spec => []NoAnswerDropped
  BY AnswersAlways, PTL DEF AnswerInv

-----------------------------------------------------------------------------
(* What Close leaves.                                                      *)

\* Until Close clears the map a request on its way has its entry in it, and only a
\* request that has returned has closed its channel.
RegisteredInv ==
  ~Cleared =>
    \A r \in Requests :
      /\ pc[r] \in Registered => id[r] \in DOMAIN responseMap /\ responseMap[id[r]] = r
      /\ channel[r] = "closed" => pc[r] = "done"

\* A request that goes on to a place where it still has its entry, or that had none
\* and takes none, leaves map and channels as RegisteredInv says.
LEMMA MoveKeepsRegistered ==
  ASSUME TypeOK, RegisteredInv, NEW r \in Requests, NEW place,
         pc' \in {pc, [pc EXCEPT ![r] = place]}, UNCHANGED <<id, responseMap, channel, closer>>,
         place \in Registered => pc[r] \in Registered, pc[r] = "done" => place = "done"
  PROVE  RegisteredInv'
  BY DEF RegisteredInv, Cleared, TypeOK

\* No step takes the entry of a request on its way, or closes its channel, but Close.
LEMMA RegisteredInductive ==
  TypeOK /\ MapInv /\ RegisteredInv /\ [Next]_vars => RegisteredInv'
<1> SUFFICES ASSUME TypeOK, MapInv, RegisteredInv, [Next]_vars PROVE RegisteredInv'
  OBVIOUS
<1> USE DEF requestVars, channelVars, readerVars, closeVars
<1>1. CASE UNCHANGED <<id, pc, responseMap, channel, closer>>
  BY <1>1 DEF RegisteredInv, Cleared
<1>2. ASSUME NEW r \in Requests,
             \/ Check(r) \/ PostForBody(r) \/ Post(r) \/ PostFails(r) \/ Replied(r)
             \/ Accepted(r) \/ Take(r) \/ GiveUp(r)
      PROVE  RegisteredInv'
  <2>1. UNCHANGED <<id, responseMap, channel, closer>>
    BY <1>2 DEF Check, PostForBody, Post, PostFails, Replied, Accepted, Take, GiveUp
  <2>2. \E place :
          /\ place \in Registered => pc[r] \in Registered
          /\ pc[r] # "done"
          /\ pc' \in {pc, [pc EXCEPT ![r] = place]}
    BY <1>2 DEF Check, PostForBody, Post, PostFails, Replied, Accepted, Take, GiveUp, GoTo, Return, Registered
  <2> QED
    BY <2>1, <2>2, MoveKeepsRegistered
<1>3. ASSUME NEW r \in Requests, Register(r) PROVE RegisteredInv'
  <2> DEFINE next == requestIDCounter + 1
  <2>1. /\ id' = [id EXCEPT ![r] = next] /\ pc' = [pc EXCEPT ![r] = "registered"]
        /\ channel' = [channel EXCEPT ![r] = "open"] /\ closer' = closer
        /\ responseMap' = [i \in DOMAIN responseMap \cup {next} |-> IF i = next THEN r ELSE responseMap[i]]
    BY <1>3 DEF Register, GoTo
  <2>2. \A q \in Requests : id[q] # next
    <3>1. next \notin 0..requestIDCounter
      BY CounterGrows DEF TypeOK
    <3>2. \A q \in Requests : id[q] \in 0..requestIDCounter
      BY DEF TypeOK, Ids
    <3> HIDE DEF next
    <3> QED
      BY <3>1, <3>2
  <2> HIDE DEF next
  <2>3. ASSUME ~Cleared', NEW q \in Requests
        PROVE  /\ pc'[q] \in Registered => id'[q] \in DOMAIN responseMap' /\ responseMap'[id'[q]] = q
               /\ channel'[q] = "closed" => pc'[q] = "done"
    <3>1. CASE q = r
      BY <2>1, <3>1 DEF TypeOK
    <3>2. CASE q # r
      <4>1. pc'[q] = pc[q] /\ id'[q] = id[q] /\ channel'[q] = channel[q]
        BY <2>1, <3>2 DEF TypeOK
      <4>2. /\ pc[q] \in Registered => id[q] \in DOMAIN responseMap /\ responseMap[id[q]] = q
            /\ channel[q] = "closed" => pc[q] = "done"
        BY <2>1, <2>3 DEF RegisteredInv, Cleared
      <4> QED
        BY <2>1, <2>2, <4>1, <4>2
    <3> QED
      BY <3>1, <3>2
  <2> QED
    BY <2>3 DEF RegisteredInv
<1>4. ASSUME NEW r \in Requests, Unregister(r) PROVE RegisteredInv'
  <2>1. /\ pc' = [pc EXCEPT ![r] = "unregistered"] /\ UNCHANGED <<id, channel, closer>>
        /\ DOMAIN responseMap' = DOMAIN responseMap \ {id[r]}
        /\ \A i \in DOMAIN responseMap' : responseMap'[i] = responseMap[i]
        /\ pc[r] = "cleanup"
    BY <1>4 DEF Unregister, GoTo, Restrict
  <2>2. ASSUME ~Cleared', NEW q \in Requests
        PROVE  /\ pc'[q] \in Registered => id'[q] \in DOMAIN responseMap' /\ responseMap'[id'[q]] = q
               /\ channel'[q] = "closed" => pc'[q] = "done"
    <3>1. ~Cleared
      BY <2>1, <2>2 DEF Cleared
    <3>2. CASE q = r
      BY <2>1, <3>1, <3>2 DEF RegisteredInv, TypeOK, Registered
    <3>3. CASE q # r
      <4>1. pc[q] \in Registered => id[q] # id[r]
        BY <3>1, <3>3, <2>1 DEF RegisteredInv, Registered
      <4> QED
        BY <2>1, <3>1, <3>3, <4>1 DEF RegisteredInv, TypeOK
    <3> QED
      BY <3>2, <3>3
  <2> QED
    BY <2>2 DEF RegisteredInv
<1>5. ASSUME NEW r \in Requests, CloseChannel(r) PROVE RegisteredInv'
  <2>1. CASE channel[r] = "open"
    <3>1. /\ channel' = [channel EXCEPT ![r] = "closed"] /\ pc' = [pc EXCEPT ![r] = "done"]
          /\ UNCHANGED <<id, responseMap, closer>>
      BY <1>5, <2>1 DEF CloseChannel, GoTo
    <3> QED
      BY <3>1 DEF RegisteredInv, Cleared, TypeOK, Registered
  <2>2. CASE channel[r] = "closed"
    BY <1>1, <1>5, <2>2 DEF CloseChannel
  <2> QED
    BY <1>5, <2>1, <2>2 DEF CloseChannel
<1>6. CASE ClearResponseMap \/ EndClose
  BY <1>6 DEF ClearResponseMap, EndClose, RegisteredInv, Cleared
<1>7. CASE CancelStream
  BY <1>7 DEF CancelStream, RegisteredInv, Cleared
<1>8. ASSUME NEW r \in Requests, Arrive(r) PROVE RegisteredInv'
  BY <1>1, <1>8 DEF Arrive
<1>9. CASE Deliver \/ UNCHANGED vars
  BY <1>1, <1>9 DEF Deliver, vars
<1> QED
  BY <1>2, <1>3, <1>4, <1>5, <1>6, <1>7, <1>8, <1>9 DEF Next, SendStep, CloseStep

\* In every reachable state only Close takes entries from requests on their way.
LEMMA RegisteredAlways == Spec => []RegisteredInv
<1>1. Init => RegisteredInv
  BY DEF Init, RegisteredInv, Registered
<1> QED
  BY <1>1, RegisteredInductive, TypeCorrect, MapAlways, PTL DEF Spec

\* Only a request of Close's, or one that has returned, is a reason to panic, for
\* any number of requests.
THEOREM PanicsHaveTheirCause == Spec => PanicsExplained
<1> DEFINE Step == panic' # panic => Cleared \/ (panic' = "send on closed channel" /\ pc[reader] = "done")
<1>1. TypeOK /\ MapInv /\ RegisteredInv /\ [Next]_vars => [Step]_vars
  <2> SUFFICES ASSUME TypeOK, MapInv, RegisteredInv, Next, ~Cleared, panic' # panic
               PROVE  panic' = "send on closed channel" /\ pc[reader] = "done"
    OBVIOUS
  <2>1. ASSUME NEW r \in Requests, Take(r) PROVE FALSE
    BY <2>1 DEF Take, RegisteredInv
  <2>2. ASSUME NEW r \in Requests, CloseChannel(r) PROVE FALSE
    BY <2>2 DEF CloseChannel, RegisteredInv
  <2>3. CASE ClearResponseMap
    <3>1. \A i \in DOMAIN responseMap : channel[responseMap[i]] = "open"
      BY EntryFacts
    <3> QED
      BY <2>3, <3>1 DEF ClearResponseMap, Range
  <2>4. CASE Deliver
    <3>1. panic' = "send on closed channel" /\ channel[reader] = "closed" /\ reader \in Requests
      BY <2>4 DEF Deliver, TypeOK
    <3> QED
      BY <3>1 DEF RegisteredInv
  <2>5. ASSUME NEW r \in Requests,
               \/ Check(r) \/ Register(r) \/ PostForBody(r) \/ Post(r) \/ PostFails(r)
               \/ Replied(r) \/ Accepted(r)
               \/ GiveUp(r) \/ Unregister(r) \/ Arrive(r)
        PROVE  FALSE
    BY <2>5 DEF Check, Register, PostForBody, Post, PostFails, Replied, Accepted, GiveUp, Unregister, Arrive
  <2>6. CASE CancelStream \/ EndClose
    BY <2>6 DEF CancelStream, EndClose
  <2> QED
    BY <2>1, <2>2, <2>3, <2>4, <2>5, <2>6 DEF Next, SendStep, CloseStep
<1>2. Step <=> (panic' # panic => Cleared \/ (panic' = "send on closed channel" /\ pc[reader] = "done"))
  OBVIOUS
<1> QED
  BY <1>1, <1>2, TypeCorrect, MapAlways, RegisteredAlways, PTL DEF Spec, PanicsExplained

-----------------------------------------------------------------------------
(* No answer is lost.                                                      *)

\* A request moves from where it has no answer coming, or stays where it may have one,
\* and its answer stays where it is.
LEMMA MoveKeepsAnswer ==
  ASSUME TypeOK, AnswerKept, NEW r \in Requests, NEW place,
         pc' \in {pc, [pc EXCEPT ![r] = place]},
         place \in {"posted", "waiting"} => pc[r] \in {"posted", "waiting"},
         UNCHANGED <<connectionMethod, closer, unanswered, reader, carried, buffer>>
  PROVE  AnswerKept'
  BY DEF AnswerKept, Cleared, TypeOK

\* The answer to a request goes from the server to the callback and from there to the
\* channel of the request, whatever the others do.
LEMMA KeptInductive ==
  TypeOK /\ MapInv /\ AnswerInv /\ RegisteredInv /\ AnswerKept /\ [Next]_vars => AnswerKept'
<1> SUFFICES ASSUME TypeOK, MapInv, AnswerInv, RegisteredInv, AnswerKept, [Next]_vars PROVE AnswerKept'
  OBVIOUS
<1> USE DEF requestVars, channelVars, readerVars, closeVars
<1>1. ASSUME NEW r \in Requests,
             \/ Check(r) \/ Register(r) \/ PostForBody(r) \/ PostFails(r) \/ Replied(r)
             \/ GiveUp(r) \/ Unregister(r) \/ CloseChannel(r)
      PROVE  AnswerKept'
  <2>1. UNCHANGED <<connectionMethod, closer, unanswered, reader, carried, buffer>>
    BY <1>1 DEF Check, Register, PostForBody, PostFails, Replied, GiveUp, Unregister, CloseChannel
  <2>2. CASE pc' = pc
    BY <2>1, <2>2 DEF AnswerKept, Cleared
  <2>3. CASE pc' # pc
    <3>1. \/ pc' = [pc EXCEPT ![r] = "checked"] \/ pc' = [pc EXCEPT ![r] = "registered"]
          \/ pc' = [pc EXCEPT ![r] = "cleanup"] \/ pc' = [pc EXCEPT ![r] = "unregistered"]
          \/ pc' = [pc EXCEPT ![r] = "replied"] \/ pc' = [pc EXCEPT ![r] = "done"]
      BY <1>1, <2>3 DEF Check, Register, PostForBody, PostFails, Replied, GiveUp, Unregister, CloseChannel,
         GoTo, Return
    <3> QED
      BY <2>1, <3>1, MoveKeepsAnswer
  <2> QED
    BY <2>2, <2>3
<1>2. ASSUME NEW r \in Requests, Post(r) PROVE AnswerKept'
  <2>1. /\ pc' = [pc EXCEPT ![r] = "posted"]
        /\ unanswered' = unanswered \cup {r}
        /\ UNCHANGED <<connectionMethod, closer, reader, carried, buffer>>
    BY <1>2 DEF Post, GoTo
  <2> QED
    BY <2>1 DEF AnswerKept, Cleared, TypeOK
<1>3. ASSUME NEW r \in Requests, Accepted(r) PROVE AnswerKept'
  <2>1. pc[r] = "posted" /\ pc' \in {[pc EXCEPT ![r] = "waiting"], [pc EXCEPT ![r] = "cleanup"]}
        /\ UNCHANGED <<connectionMethod, closer, unanswered, reader, carried, buffer>>
    BY <1>3 DEF Accepted, GoTo, Return
  <2> QED
    BY <2>1, MoveKeepsAnswer
<1>4. ASSUME NEW r \in Requests, Take(r) PROVE AnswerKept'
  <2>1. CASE buffer[r] # Nobody
    <3>1. /\ pc' = [pc EXCEPT ![r] = "cleanup"] /\ buffer' = [buffer EXCEPT ![r] = Nobody]
          /\ UNCHANGED <<connectionMethod, closer, unanswered, reader, carried>>
      BY <1>4, <2>1 DEF Take, Return, GoTo
    <3> QED
      BY <3>1 DEF AnswerKept, Cleared, TypeOK
  <2>2. CASE buffer[r] = Nobody
    BY <1>4, <2>2 DEF Take, AnswerKept, Cleared
  <2> QED
    BY <2>1, <2>2
<1>5. ASSUME NEW r \in Requests, Arrive(r) PROVE AnswerKept'
  <2>1. /\ UNCHANGED <<connectionMethod, closer, pc, buffer>> /\ unanswered' = unanswered \ {r}
        /\ reader = Nobody
        /\ id[r] \in DOMAIN responseMap => reader' = responseMap[id[r]] /\ carried' = r
        /\ id[r] \notin DOMAIN responseMap => reader' = Nobody
    BY <1>5 DEF Arrive
  <2>2. ASSUME connectionMethod' = "sse", ~Cleared', NEW q \in Requests, pc'[q] \in {"posted", "waiting"}
        PROVE  q \in unanswered' \/ (reader' = q /\ carried' = q) \/ buffer'[q] = q
    <3>1. ~Cleared /\ (q \in unanswered \/ buffer[q] = q)
      BY <2>1, <2>2, RequestsAssumption DEF AnswerKept, Cleared
    <3>2. CASE q = r
      BY <2>1, <2>2, <3>1, <3>2 DEF RegisteredInv, Registered
    <3>3. CASE q # r
      BY <2>1, <3>1, <3>3
    <3> QED
      BY <3>2, <3>3
  <2> QED
    BY <2>2 DEF AnswerKept
<1>6. CASE Deliver
  <2>1. /\ reader \in Requests /\ carried = reader /\ buffer[reader] = Nobody
        /\ reader \notin unanswered
    BY <1>6 DEF Deliver, TypeOK, AnswerInv, OneAnswer
  <2>2. /\ UNCHANGED <<connectionMethod, closer, pc, unanswered>>
        /\ \A q \in Requests \ {reader} : buffer'[q] = buffer[q]
    BY <1>6, <2>1 DEF Deliver, TypeOK
  <2>3. ASSUME ~Cleared, pc[reader] \in {"posted", "waiting"} PROVE buffer'[reader] = reader
    <3>1. channel[reader] = "open"
      BY <2>1, <2>3, EntryFacts DEF RegisteredInv, Registered
    <3> QED
      BY <1>6, <2>1, <3>1 DEF Deliver, TypeOK
  <2> QED
    BY <2>1, <2>2, <2>3 DEF AnswerKept, Cleared
<1>7. CASE CancelStream \/ EndClose \/ ClearResponseMap
  BY <1>7 DEF CancelStream, EndClose, ClearResponseMap, AnswerKept, Cleared
<1>8. CASE UNCHANGED vars
  BY <1>8 DEF vars, AnswerKept, Cleared
<1> QED
  BY <1>1, <1>2, <1>3, <1>4, <1>5, <1>6, <1>7, <1>8 DEF Next, SendStep, CloseStep

\* Until Close clears the map, no answer to a request that can still be answered is
\* lost, for any number of requests.
THEOREM AnswersAreKept == Spec => []AnswerKept
<1>1. Init => AnswerKept
  BY DEF Init, AnswerKept
<1> QED
  BY <1>1, KeptInductive, TypeCorrect, MapAlways, AnswersAlways, RegisteredAlways, PTL DEF Spec
=============================================================================
