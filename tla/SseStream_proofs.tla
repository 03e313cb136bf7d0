--------------------------- MODULE SseStream_proofs ---------------------------
(***************************************************************************)
(* Proofs about SseStream, for any number of streams, both routes and      *)
(* every choice of what the library may do.                                *)
(*                                                                         *)
(* The inductive invariant ties a stream to its connection actor: it has   *)
(* none before its handler spawned one, none of its own when it was given  *)
(* another's, and none that still opens or is open once something has let  *)
(* the handler out of its select. On it rest the account of the handlers   *)
(* that are lost and the proof that SseStream implements EventStream.      *)
(***************************************************************************)
EXTENDS SseStream, TLAPS

\* A handler that has not spawned yet left nothing behind.
Fresh(s) ==
  handler[s] \in {"none", "spawnConnection"} =>
    cca[s] = "none" /\ pid[s] = NoStream /\ ~watching[s] /\ ~notice[s] /\ ~offer[s]

\* Without an actor of its own a stream is untouched.
Silent(s) == cca[s] = "none" => closed[s] = 0 /\ events[s] = <<>> /\ inbox[s] = 0

OwnActor(s) == pid[s] # s => cca[s] = "none"

\* What lets the handler out, or has let it out, came from an actor that had ended
\* or was closing.
Released(s) ==
  /\ notice[s] => pid[s] # NoStream /\ cca[pid[s]] = "stopped"
  /\ offer[s] => ~CcaRuns(s)
  /\ Ended(s) => cca[s] \notin {"starting", "registering", "open"}

ClosedOnce(s) == closed[s] \in {0, 1} /\ (closed[s] = 1 => cca[s] \in {"closing", "stopped"})

\* An open stream of GET /sse has its endpoint event; no response goes to GET /mcp.
Announced(s) ==
  /\ events[s] # <<>> => Head(events[s]) = "endpoint"
  /\ route = "sse" /\ cca[s] = "open" => events[s] # <<>>
  /\ route = "mcp" => inbox[s] = 0
  /\ inbox[s] <= sent[s]

OneRuns == \A s, t \in Streams : CcaRuns(s) /\ CcaRuns(t) => s = t

StreamInv(s) ==
  Fresh(s) /\ Silent(s) /\ OwnActor(s) /\ Released(s) /\ ClosedOnce(s) /\ Announced(s)

IInv == TypeOK /\ OneRuns /\ \A s \in Streams : StreamInv(s)

-----------------------------------------------------------------------------
LEMMA InitIInv == Init => IInv
<1> SUFFICES ASSUME Init PROVE IInv
  OBVIOUS
<1>1. TypeOK
  <2>1. handler \in [Streams -> {"none", "spawnConnection"}] /\ route \in {"sse", "mcp"}
    BY StreamsAssumption DEF Init, All
  <2>2. /\ closed \in [Streams -> Nat] /\ sent \in [Streams -> 0..MaxEvents]
        /\ inbox \in [Streams -> 0..MaxEvents]
    <3>1. /\ closed = [s \in Streams |-> 0] /\ sent = [s \in Streams |-> 0]
          /\ inbox = [s \in Streams |-> 0]
      BY DEF Init, All
    <3> QED
      BY <3>1, StreamsAssumption
  <2>3. events \in [Streams -> Seq({"endpoint", "message"})]
    <3>1. events = [s \in Streams |-> <<>>]
      BY DEF Init, All
    <3> QED
      BY <3>1
  <2>4. /\ pid \in [Streams -> Streams \cup {NoStream}] /\ cca \in [Streams -> {"none"}]
        /\ watcher \in [Streams -> {"none"}] /\ entry \in [Streams -> {"none"}]
        /\ watching \in [Streams -> BOOLEAN] /\ notice \in [Streams -> BOOLEAN]
        /\ offer \in [Streams -> BOOLEAN] /\ session \in {"up", "down"}
    BY DEF Init, All
  <2> QED
    BY <2>1, <2>2, <2>3, <2>4 DEF TypeOK
<1>2. OneRuns
  BY DEF Init, OneRuns, CcaRuns, All
<1>3. ASSUME NEW s \in Streams PROVE StreamInv(s)
  <2>1. /\ handler[s] \in {"none", "spawnConnection"} /\ pid[s] = NoStream /\ cca[s] = "none"
        /\ closed[s] = 0 /\ inbox[s] = 0 /\ sent[s] = 0 /\ events[s] = <<>>
        /\ ~watching[s] /\ ~notice[s] /\ ~offer[s]
    BY DEF Init, All
  <2> QED
    BY <2>1 DEF StreamInv, Fresh, Silent, OwnActor, Released, ClosedOnce, Announced, CcaRuns, Ended
<1> QED
  BY <1>1, <1>2, <1>3 DEF IInv

LEMMA StepTypeOK == TypeOK /\ (\A s \in Streams : StreamInv(s)) /\ [Next]_vars => TypeOK'
<1> SUFFICES ASSUME TypeOK, \A s \in Streams : StreamInv(s), [Next]_vars PROVE TypeOK'
  OBVIOUS
<1> USE StreamsAssumption, LibraryAssumption DEF TypeOK
<1>1. ASSUME NEW s \in Streams, SpawnConnection(s) PROVE TypeOK'
  <2>1. handler' \in [Streams -> {"none", "spawnConnection", "spawnWatcher", "asleep", "watch",
                                 "returning", "select", "returned", "panicked"}]
    BY <1>1 DEF SpawnConnection, Go
  <2>2. pid' \in [Streams -> Streams \cup {NoStream}]
    BY <1>1 DEF SpawnConnection
  <2>3. cca' \in [Streams -> {"none", "starting", "registering", "open", "closing", "suspended", "stopped"}]
    BY <1>1 DEF SpawnConnection, Become
  <2> QED
    BY <1>1, <2>1, <2>2, <2>3 DEF SpawnConnection, watchVars, outsideVars
<1>2. ASSUME NEW s \in Streams, SpawnWatcher(s) PROVE TypeOK'
  BY <1>2 DEF SpawnWatcher, At, Go, Become, handlerVars, streamVars, watchVars, outsideVars
<1>3. ASSUME NEW s \in Streams, LookUpConnection(s) PROVE TypeOK'
  BY <1>3 DEF LookUpConnection, NotStarted, NameRuns, At, Go, Become, handlerVars, streamVars, watchVars, outsideVars
<1>4. ASSUME NEW s \in Streams, Watch(s) PROVE TypeOK'
  BY <1>4 DEF Watch, At, Go, Become, handlerVars, streamVars, watchVars, outsideVars
<1>5. ASSUME NEW s \in Streams, EnterSelect(s) PROVE TypeOK'
  BY <1>5 DEF EnterSelect, At, Go, Become, handlerVars, streamVars, watchVars, outsideVars
<1>6. ASSUME NEW s \in Streams, SelectDone(s) PROVE TypeOK'
  BY <1>6 DEF SelectDone, At, Go, Become, handlerVars, streamVars, watchVars, outsideVars
<1>7. ASSUME NEW s \in Streams, SelectNotStarted(s) PROVE TypeOK'
  BY <1>7 DEF SelectNotStarted, At, Go, Become, handlerVars, streamVars, watchVars, outsideVars
<1>8. ASSUME NEW s \in Streams, HandleTerminated(s) PROVE TypeOK'
  BY <1>8 DEF HandleTerminated, At, Go, Become, handlerVars, streamVars, watchVars, outsideVars
<1>9. ASSUME NEW s \in Streams, PassivateWatcher(s) PROVE TypeOK'
  BY <1>9 DEF PassivateWatcher, At, Go, Become, handlerVars, streamVars, watchVars, outsideVars
<1>10. ASSUME NEW s \in Streams, HandlePostStart(s) PROVE TypeOK'
  <2>1. CASE session = "up"
    BY <1>10, <2>1 DEF HandlePostStart, Become, handlerVars, watchVars
  <2>2. CASE session # "up"
    <3>1. Close(s) /\ UNCHANGED outsideVars
      BY <1>10, <2>2 DEF HandlePostStart
    <3> QED
      BY <3>1 DEF Close, Become, handlerVars, watchVars, outsideVars
  <2> QED
    BY <2>1, <2>2
<1>11. ASSUME NEW s \in Streams, SendEndpoint(s) PROVE TypeOK'
  BY <1>11 DEF SendEndpoint, At, Go, Become, handlerVars, streamVars, watchVars, outsideVars
<1>12. ASSUME NEW s \in Streams, RegisterFails(s) PROVE TypeOK'
  BY <1>12 DEF RegisterFails, Close, At, Go, Become, handlerVars, streamVars, watchVars, outsideVars
<1>13. ASSUME NEW s \in Streams, Shutdown(s) PROVE TypeOK'
  BY <1>13 DEF Shutdown, EndCca, At, Go, Become, handlerVars, streamVars, watchVars, outsideVars
<1>14. ASSUME NEW s \in Streams, Deliver(s) PROVE TypeOK'
  BY <1>14 DEF Deliver, At, Go, Become, handlerVars, streamVars, watchVars, outsideVars, StreamInv, Announced
<1>15. ASSUME NEW s \in Streams, DeliverFails(s) PROVE TypeOK'
  BY <1>15 DEF DeliverFails, EndCca, At, Go, Become, handlerVars, streamVars, watchVars, outsideVars
<1>16. ASSUME NEW s \in Streams, PassivateCca(s) PROVE TypeOK'
  BY <1>16 DEF PassivateCca, EndCca, At, Go, Become, handlerVars, streamVars, watchVars, outsideVars
<1>17. ASSUME NEW s \in Streams, SessionRegisters(s) PROVE TypeOK'
  BY <1>17 DEF SessionRegisters, At, Go, Become, handlerVars, streamVars, watchVars, outsideVars
<1>18. ASSUME NEW s \in Streams, SessionTells(s) PROVE TypeOK'
  BY <1>18 DEF SessionTells, At, Go, Become, handlerVars, streamVars, watchVars, outsideVars, StreamInv, Announced
<1>19. CASE SessionStops
  BY <1>19 DEF SessionStops, At, Go, Become, handlerVars, streamVars, watchVars, outsideVars
<1>20. CASE UNCHANGED vars
  BY <1>20 DEF vars, At, Go, Become, handlerVars, streamVars, watchVars, outsideVars
<1> QED
  BY <1>1, <1>2, <1>3, <1>4, <1>5, <1>6, <1>7, <1>8, <1>9, <1>10, <1>11, <1>12, <1>13, <1>14, <1>15, <1>16, <1>17, <1>18, <1>19, <1>20 DEF Next, HandlerStep, CcaStep

LEMMA StepStreams ==
  ASSUME IInv, [Next]_vars
  PROVE  OneRuns' /\ \A t \in Streams : StreamInv(t)'
<1>0. TypeOK /\ OneRuns /\ \A t \in Streams : StreamInv(t)
  BY DEF IInv
<1> USE StreamsAssumption DEF TypeOK
<1>1. ASSUME NEW s \in Streams, SpawnConnection(s) PROVE OneRuns' /\ \A t \in Streams : StreamInv(t)'
  <2>1. OneRuns'
    BY <1>0, <1>1 DEF OneRuns, CcaRuns, SpawnConnection, At, Go, Become, handlerVars, streamVars, watchVars, outsideVars
  <2>2. ASSUME NEW t \in Streams PROVE StreamInv(t)'
    BY <1>0, <1>1 DEF SpawnConnection, At, Go, Become, handlerVars, streamVars, watchVars, outsideVars,
       StreamInv, Fresh, Silent, OwnActor, Released, ClosedOnce, Announced, CcaRuns, Ended, OneRuns
  <2> QED
    BY <2>1, <2>2
<1>2. ASSUME NEW s \in Streams, SpawnWatcher(s) PROVE OneRuns' /\ \A t \in Streams : StreamInv(t)'
  <2>1. OneRuns'
    BY <1>0, <1>2 DEF OneRuns, CcaRuns, SpawnWatcher, At, Go, Become, handlerVars, streamVars, watchVars, outsideVars
  <2>2. ASSUME NEW t \in Streams PROVE StreamInv(t)'
    BY <1>0, <1>2 DEF SpawnWatcher, At, Go, Become, handlerVars, streamVars, watchVars, outsideVars,
       StreamInv, Fresh, Silent, OwnActor, Released, ClosedOnce, Announced, CcaRuns, Ended, OneRuns
  <2> QED
    BY <2>1, <2>2
<1>3. ASSUME NEW s \in Streams, LookUpConnection(s) PROVE OneRuns' /\ \A t \in Streams : StreamInv(t)'
  <2>1. OneRuns'
    BY <1>0, <1>3 DEF OneRuns, CcaRuns, LookUpConnection, NotStarted, NameRuns, At, Go, Become, handlerVars, streamVars, watchVars, outsideVars
  <2>2. ASSUME NEW t \in Streams PROVE StreamInv(t)'
    <3>1. StreamInv(t) /\ StreamInv(s)
      BY <1>0
    <3>2. CASE pid[s] = NoStream /\ Go(s, "panicked") /\ UNCHANGED watchVars
      BY <1>0, <1>3, <3>1, <3>2 DEF LookUpConnection, At, Go, Become, handlerVars, streamVars, watchVars, outsideVars,
         StreamInv, Fresh, Silent, OwnActor, Released, ClosedOnce, Announced, CcaRuns, Ended
    <3>3. CASE Go(s, "watch") /\ UNCHANGED watchVars
      BY <1>0, <1>3, <3>1, <3>3 DEF LookUpConnection, At, Go, Become, handlerVars, streamVars, watchVars, outsideVars,
         StreamInv, Fresh, Silent, OwnActor, Released, ClosedOnce, Announced, CcaRuns, Ended
    <3>4. CASE pid[s] # NoStream /\ ~NameRuns /\ NotStarted(s) /\ UNCHANGED <<watching, notice>>
      BY <1>0, <1>3, <3>1, <3>4 DEF LookUpConnection, NotStarted, NameRuns, At, Go, Become, handlerVars, streamVars, watchVars, outsideVars,
         StreamInv, Fresh, Silent, OwnActor, Released, ClosedOnce, Announced, CcaRuns, Ended
    <3> QED
      BY <1>3, <3>2, <3>3, <3>4 DEF LookUpConnection
  <2> QED
    BY <2>1, <2>2
<1>4. ASSUME NEW s \in Streams, Watch(s) PROVE OneRuns' /\ \A t \in Streams : StreamInv(t)'
  <2>1. OneRuns'
    BY <1>0, <1>4 DEF OneRuns, CcaRuns, Watch, At, Go, Become, handlerVars, streamVars, watchVars, outsideVars
  <2>2. ASSUME NEW t \in Streams PROVE StreamInv(t)'
    BY <1>0, <1>4 DEF Watch, At, Go, Become, handlerVars, streamVars, watchVars, outsideVars,
       StreamInv, Fresh, Silent, OwnActor, Released, ClosedOnce, Announced, CcaRuns, Ended, OneRuns
  <2> QED
    BY <2>1, <2>2
<1>5. ASSUME NEW s \in Streams, EnterSelect(s) PROVE OneRuns' /\ \A t \in Streams : StreamInv(t)'
  <2>1. OneRuns'
    BY <1>0, <1>5 DEF OneRuns, CcaRuns, EnterSelect, At, Go, Become, handlerVars, streamVars, watchVars, outsideVars
  <2>2. ASSUME NEW t \in Streams PROVE StreamInv(t)'
    BY <1>0, <1>5 DEF EnterSelect, At, Go, Become, handlerVars, streamVars, watchVars, outsideVars,
       StreamInv, Fresh, Silent, OwnActor, Released, ClosedOnce, Announced, CcaRuns, Ended, OneRuns
  <2> QED
    BY <2>1, <2>2
<1>6. ASSUME NEW s \in Streams, SelectDone(s) PROVE OneRuns' /\ \A t \in Streams : StreamInv(t)'
  <2>1. OneRuns'
    BY <1>0, <1>6 DEF OneRuns, CcaRuns, SelectDone, At, Go, Become, handlerVars, streamVars, watchVars, outsideVars
  <2>2. ASSUME NEW t \in Streams PROVE StreamInv(t)'
    BY <1>0, <1>6 DEF SelectDone, At, Go, Become, handlerVars, streamVars, watchVars, outsideVars,
       StreamInv, Fresh, Silent, OwnActor, Released, ClosedOnce, Announced, CcaRuns, Ended, OneRuns
  <2> QED
    BY <2>1, <2>2
<1>7. ASSUME NEW s \in Streams, SelectNotStarted(s) PROVE OneRuns' /\ \A t \in Streams : StreamInv(t)'
  <2>1. OneRuns'
    BY <1>0, <1>7 DEF OneRuns, CcaRuns, SelectNotStarted, At, Go, Become, handlerVars, streamVars, watchVars, outsideVars
  <2>2. ASSUME NEW t \in Streams PROVE StreamInv(t)'
    BY <1>0, <1>7 DEF SelectNotStarted, At, Go, Become, handlerVars, streamVars, watchVars, outsideVars,
       StreamInv, Fresh, Silent, OwnActor, Released, ClosedOnce, Announced, CcaRuns, Ended, OneRuns
  <2> QED
    BY <2>1, <2>2
<1>8. ASSUME NEW s \in Streams, HandleTerminated(s) PROVE OneRuns' /\ \A t \in Streams : StreamInv(t)'
  <2>1. OneRuns'
    BY <1>0, <1>8 DEF OneRuns, CcaRuns, HandleTerminated, At, Go, Become, handlerVars, streamVars, watchVars, outsideVars
  <2>2. ASSUME NEW t \in Streams PROVE StreamInv(t)'
    BY <1>0, <1>8 DEF HandleTerminated, At, Go, Become, handlerVars, streamVars, watchVars, outsideVars,
       StreamInv, Fresh, Silent, OwnActor, Released, ClosedOnce, Announced, CcaRuns, Ended, OneRuns
  <2> QED
    BY <2>1, <2>2
<1>9. ASSUME NEW s \in Streams, PassivateWatcher(s) PROVE OneRuns' /\ \A t \in Streams : StreamInv(t)'
  <2>1. OneRuns'
    BY <1>0, <1>9 DEF OneRuns, CcaRuns, PassivateWatcher, At, Go, Become, handlerVars, streamVars, watchVars, outsideVars
  <2>2. ASSUME NEW t \in Streams PROVE StreamInv(t)'
    BY <1>0, <1>9 DEF PassivateWatcher, At, Go, Become, handlerVars, streamVars, watchVars, outsideVars,
       StreamInv, Fresh, Silent, OwnActor, Released, ClosedOnce, Announced, CcaRuns, Ended, OneRuns
  <2> QED
    BY <2>1, <2>2
<1>10. ASSUME NEW s \in Streams, HandlePostStart(s) PROVE OneRuns' /\ \A t \in Streams : StreamInv(t)'
  <2>1. OneRuns'
    BY <1>0, <1>10 DEF OneRuns, CcaRuns, HandlePostStart, Close, At, Go, Become, handlerVars, streamVars, watchVars, outsideVars
  <2>2. ASSUME NEW t \in Streams PROVE StreamInv(t)'
    BY <1>0, <1>10 DEF HandlePostStart, Close, At, Go, Become, handlerVars, streamVars, watchVars, outsideVars,
       StreamInv, Fresh, Silent, OwnActor, Released, ClosedOnce, Announced, CcaRuns, Ended, OneRuns
  <2> QED
    BY <2>1, <2>2
<1>11. ASSUME NEW s \in Streams, SendEndpoint(s) PROVE OneRuns' /\ \A t \in Streams : StreamInv(t)'
  <2>1. OneRuns'
    BY <1>0, <1>11 DEF OneRuns, CcaRuns, SendEndpoint, At, Go, Become, handlerVars, streamVars, watchVars, outsideVars
  <2>2. ASSUME NEW t \in Streams PROVE StreamInv(t)'
    <3>1. StreamInv(t) /\ StreamInv(s)
      BY <1>0
    <3>2. Fresh(t)' /\ Silent(t)' /\ OwnActor(t)' /\ ClosedOnce(t)'
      BY <1>0, <1>11, <3>1 DEF SendEndpoint, At, Go, Become, handlerVars, streamVars, watchVars, outsideVars,
         StreamInv, Fresh, Silent, OwnActor, ClosedOnce
    <3>3. Released(t)'
      BY <1>0, <1>11, <3>1 DEF SendEndpoint, At, Go, Become, handlerVars, streamVars, watchVars, outsideVars,
         StreamInv, Released, CcaRuns, Ended
    <3>4. Announced(t)'
      <4>1. CASE route = "sse"
        <5>1. events[s] \in Seq({"endpoint", "message"}) /\ events \in [Streams -> Seq({"endpoint", "message"})]
          BY <1>0
        <5>2. events[s] # <<>> => Head(events[s]) = "endpoint"
          BY <3>1 DEF StreamInv, Announced
        <5>4. Append(events[s], "endpoint") # <<>> /\ Head(Append(events[s], "endpoint")) = "endpoint"
          <6>1. CASE events[s] = <<>>
            BY <6>1
          <6>2. CASE events[s] # <<>>
            BY <5>1, <5>2, <6>2
          <6> QED
            BY <6>1, <6>2
        <5>3. events' = [events EXCEPT ![s] = Append(@, "endpoint")]
          BY <1>11, <4>1 DEF SendEndpoint
        <5> QED
          BY <1>0, <1>11, <3>1, <4>1, <5>4, <5>3 DEF SendEndpoint, Become, handlerVars, outsideVars,
             StreamInv, Announced
      <4>2. CASE route # "sse"
        BY <1>0, <1>11, <3>1, <4>2 DEF SendEndpoint, Become, handlerVars, outsideVars, StreamInv, Announced
      <4> QED
        BY <4>1, <4>2
    <3> QED
      BY <3>2, <3>3, <3>4 DEF StreamInv
  <2> QED
    BY <2>1, <2>2
<1>12. ASSUME NEW s \in Streams, RegisterFails(s) PROVE OneRuns' /\ \A t \in Streams : StreamInv(t)'
  <2>1. OneRuns'
    BY <1>0, <1>12 DEF OneRuns, CcaRuns, RegisterFails, Close, At, Go, Become, handlerVars, streamVars, watchVars, outsideVars
  <2>2. ASSUME NEW t \in Streams PROVE StreamInv(t)'
    BY <1>0, <1>12 DEF RegisterFails, Close, At, Go, Become, handlerVars, streamVars, watchVars, outsideVars,
       StreamInv, Fresh, Silent, OwnActor, Released, ClosedOnce, Announced, CcaRuns, Ended, OneRuns
  <2> QED
    BY <2>1, <2>2
<1>13. ASSUME NEW s \in Streams, Shutdown(s) PROVE OneRuns' /\ \A t \in Streams : StreamInv(t)'
  <2>1. OneRuns'
    BY <1>0, <1>13 DEF OneRuns, CcaRuns, Shutdown, EndCca, At, Go, Become, handlerVars, streamVars, watchVars, outsideVars
  <2>2. ASSUME NEW t \in Streams PROVE StreamInv(t)'
    BY <1>0, <1>13 DEF Shutdown, EndCca, At, Go, Become, handlerVars, streamVars, watchVars, outsideVars,
       StreamInv, Fresh, Silent, OwnActor, Released, ClosedOnce, Announced, CcaRuns, Ended, OneRuns
  <2> QED
    BY <2>1, <2>2
<1>14. ASSUME NEW s \in Streams, Deliver(s) PROVE OneRuns' /\ \A t \in Streams : StreamInv(t)'
  <2>1. OneRuns'
    BY <1>0, <1>14 DEF OneRuns, CcaRuns, Deliver, At, Go, Become, handlerVars, streamVars, watchVars, outsideVars
  <2>2. ASSUME NEW t \in Streams PROVE StreamInv(t)'
    BY <1>0, <1>14 DEF Deliver, At, Go, Become, handlerVars, streamVars, watchVars, outsideVars,
       StreamInv, Fresh, Silent, OwnActor, Released, ClosedOnce, Announced, CcaRuns, Ended, OneRuns
  <2> QED
    BY <2>1, <2>2
<1>15. ASSUME NEW s \in Streams, DeliverFails(s) PROVE OneRuns' /\ \A t \in Streams : StreamInv(t)'
  <2>1. OneRuns'
    BY <1>0, <1>15 DEF OneRuns, CcaRuns, DeliverFails, EndCca, At, Go, Become, handlerVars, streamVars, watchVars, outsideVars
  <2>2. ASSUME NEW t \in Streams PROVE StreamInv(t)'
    <3>1. StreamInv(t) /\ StreamInv(s)
      BY <1>0
    <3>2. PICK how \in {"stopped", "suspended"} : EndCca(s, how)
      BY <1>15, LibraryAssumption DEF DeliverFails
    <3> QED
      BY <1>0, <1>15, <3>1, <3>2 DEF DeliverFails, EndCca, At, Go, Become, handlerVars, streamVars, watchVars, outsideVars,
         StreamInv, Fresh, Silent, OwnActor, Released, ClosedOnce, Announced, CcaRuns, Ended
  <2> QED
    BY <2>1, <2>2
<1>16. ASSUME NEW s \in Streams, PassivateCca(s) PROVE OneRuns' /\ \A t \in Streams : StreamInv(t)'
  <2>1. OneRuns'
    BY <1>0, <1>16 DEF OneRuns, CcaRuns, PassivateCca, EndCca, At, Go, Become, handlerVars, streamVars, watchVars, outsideVars
  <2>2. ASSUME NEW t \in Streams PROVE StreamInv(t)'
    BY <1>0, <1>16 DEF PassivateCca, EndCca, At, Go, Become, handlerVars, streamVars, watchVars, outsideVars,
       StreamInv, Fresh, Silent, OwnActor, Released, ClosedOnce, Announced, CcaRuns, Ended, OneRuns
  <2> QED
    BY <2>1, <2>2
<1>17. ASSUME NEW s \in Streams, SessionRegisters(s) PROVE OneRuns' /\ \A t \in Streams : StreamInv(t)'
  <2>1. OneRuns'
    BY <1>0, <1>17 DEF OneRuns, CcaRuns, SessionRegisters, At, Go, Become, handlerVars, streamVars, watchVars, outsideVars
  <2>2. ASSUME NEW t \in Streams PROVE StreamInv(t)'
    BY <1>0, <1>17 DEF SessionRegisters, At, Go, Become, handlerVars, streamVars, watchVars, outsideVars,
       StreamInv, Fresh, Silent, OwnActor, Released, ClosedOnce, Announced, CcaRuns, Ended, OneRuns
  <2> QED
    BY <2>1, <2>2
<1>18. ASSUME NEW s \in Streams, SessionTells(s) PROVE OneRuns' /\ \A t \in Streams : StreamInv(t)'
  <2>1. OneRuns'
    BY <1>0, <1>18 DEF OneRuns, CcaRuns, SessionTells, At, Go, Become, handlerVars, streamVars, watchVars, outsideVars
  <2>2. ASSUME NEW t \in Streams PROVE StreamInv(t)'
    BY <1>0, <1>18 DEF SessionTells, At, Go, Become, handlerVars, streamVars, watchVars, outsideVars,
       StreamInv, Fresh, Silent, OwnActor, Released, ClosedOnce, Announced, CcaRuns, Ended, OneRuns
  <2> QED
    BY <2>1, <2>2
<1>19. CASE SessionStops
  BY <1>0, <1>19 DEF SessionStops, OneRuns, At, Go, Become, handlerVars, streamVars, watchVars, outsideVars,
     StreamInv, Fresh, Silent, OwnActor, Released, ClosedOnce, Announced, CcaRuns, Ended
<1>20. CASE UNCHANGED vars
  BY <1>0, <1>20 DEF vars, OneRuns, At, Go, Become, handlerVars, streamVars, watchVars, outsideVars,
     StreamInv, Fresh, Silent, OwnActor, Released, ClosedOnce, Announced, CcaRuns, Ended
<1> QED
  BY <1>1, <1>2, <1>3, <1>4, <1>5, <1>6, <1>7, <1>8, <1>9, <1>10, <1>11, <1>12, <1>13, <1>14, <1>15, <1>16, <1>17, <1>18, <1>19, <1>20 DEF Next, HandlerStep, CcaStep

-----------------------------------------------------------------------------
LEMMA Invariant == Spec => []IInv
<1>1. Init => IInv
  BY InitIInv
<1>2. IInv /\ [Next]_vars => IInv'
  BY StepTypeOK, StepStreams DEF IInv
<1> QED
  BY <1>1, <1>2, PTL DEF Spec

\* The type invariant, for any number of streams (sse_get_handler.go, mcp_get_handler.go).
THEOREM TypeCorrect == Spec => []TypeOK
<1>1. IInv => TypeOK
  BY DEF IInv
<1> QED
  BY <1>1, Invariant, PTL

\* On every stream of GET /sse the endpoint event is the first, however early the
\* session answers; on GET /mcp there is no event (client_connection_actor.go:142).
EndpointFirst == \A s \in Streams : events[s] # <<>> => Head(events[s]) = "endpoint"

THEOREM EndpointIsFirst == Spec => []EndpointFirst
<1>1. IInv => EndpointFirst
  BY DEF IInv, StreamInv, Announced, EndpointFirst
<1> QED
  BY <1>1, Invariant, PTL

\* Done is never closed twice, by whatever order of failures
\* (client_connection_actor.go:95, 127, 137).
THEOREM DoneNeverClosedTwice == Spec => []DoneClosedOnce
<1>1. IInv => DoneClosedOnce
  <2>1. (\A s \in Streams : ClosedOnce(s)) => DoneClosedOnce
    <3> SUFFICES ASSUME NEW s \in Streams, ClosedOnce(s)
                 PROVE  closed[s] <= 1 /\ (closed[s] = 1 => cca[s] \in {"closing", "stopped"})
      BY DEF DoneClosedOnce
    <3>1. closed[s] = 0 \/ closed[s] = 1
      BY DEF ClosedOnce
    <3>2. closed[s] <= 1
      BY <3>1
    <3> QED
      BY <3>2 DEF ClosedOnce
  <2> QED
    BY <2>1 DEF IInv, StreamInv
<1> QED
  BY <1>1, Invariant, PTL

\* However many streams a session has on GET /mcp, one connection actor runs at a time
\* and the others are silent (mcp_get_handler.go:33).
THEOREM OneStreamIsServed == Spec => []OneServed
<1>1. IInv => OneServed
  BY DEF IInv, StreamInv, OwnActor, Silent, OneRuns, OneServed
<1> QED
  BY <1>1, Invariant, PTL

\* No event is written to a response whose handler has returned (sse_get_handler.go,
\* the select).
NoWriteAfterReturn == [][\A s \in Streams : events'[s] # events[s] => ~Ended(s)]_vars

THEOREM WriterNotUsedAfterReturn == Spec => NoWriteAfterReturn
<1>1. IInv /\ [Next]_vars => [\A s \in Streams : events'[s] # events[s] => ~Ended(s)]_vars
  <2> SUFFICES ASSUME IInv, [Next]_vars, NEW t \in Streams, events'[t] # events[t] PROVE ~Ended(t)
    BY DEF vars
  <2>1. StreamInv(t) /\ events \in [Streams -> Seq({"endpoint", "message"})]
    BY DEF IInv, TypeOK
  <2>2. ASSUME NEW s \in Streams, SendEndpoint(s) \/ Deliver(s) PROVE cca[t] \in {"registering", "open"}
    BY <2>1, <2>2 DEF SendEndpoint, Deliver
  <2>3. \E s \in Streams : SendEndpoint(s) \/ Deliver(s)
    BY <2>1 DEF Next, HandlerStep, CcaStep, vars, streamVars, SpawnConnection, SpawnWatcher, LookUpConnection,
       Watch, EnterSelect, SelectDone, SelectNotStarted, HandleTerminated, PassivateWatcher,
       HandlePostStart, Close, RegisterFails, Shutdown, EndCca, DeliverFails, PassivateCca,
       SessionRegisters, SessionTells, SessionStops
  <2> QED
    BY <2>1, <2>2, <2>3 DEF StreamInv, Released
<1> QED
  BY <1>1, Invariant, PTL DEF Spec, NoWriteAfterReturn

-----------------------------------------------------------------------------
(* Handlers that are lost.                                                 *)

\* The actor a handler was given has been spawned; its end is announced to a watcher
\* only after the handler has called Watch.
Attached(s) ==
  /\ pid[s] # NoStream => cca[pid[s]] # "none"
  /\ notice[s] => watching[s]
  /\ watching[s] => handler[s] \in {"returning", "select", "returned"}

\* On GET /sse one handler is looked at.
Alone == route = "sse" => \A s, t \in Streams : handler[s] # "none" /\ handler[t] # "none" => s = t

LostInv == Alone /\ \A s \in Streams : Attached(s)

\* The steps of the connection actors and of the session move no handler and give none
\* another actor; they announce the end of an actor to those that watch it.
Outside ==
  /\ UNCHANGED <<route, handler, pid, watcher, watching, offer>>
  /\ \A s \in Streams : /\ cca[s] # "none" => cca'[s] # "none"
                        /\ notice'[s] => notice[s] \/ watching[s]

LEMMA OutsideSteps ==
  ASSUME TypeOK, NEW s \in Streams,
         \/ CcaStep(s) \/ PassivateCca(s) \/ SessionRegisters(s) \/ SessionTells(s)
         \/ SessionStops \/ UNCHANGED vars
  PROVE  Outside
<1> USE DEF Outside, TypeOK, handlerVars, streamVars, watchVars, outsideVars, Become
<1>1. CASE HandlePostStart(s) \/ RegisterFails(s)
  BY <1>1 DEF HandlePostStart, RegisterFails, Close
<1>2. CASE SendEndpoint(s) \/ Deliver(s)
  BY <1>2 DEF SendEndpoint, Deliver
<1>3. CASE \E how \in {"stopped", "suspended"} : EndCca(s, how)
  BY <1>3 DEF EndCca
<1>4. CASE Shutdown(s) \/ DeliverFails(s) \/ PassivateCca(s)
  BY <1>3, <1>4, LibraryAssumption DEF Shutdown, DeliverFails, PassivateCca
<1>5. CASE SessionRegisters(s) \/ SessionTells(s) \/ SessionStops \/ UNCHANGED vars
  BY <1>5 DEF SessionRegisters, SessionTells, SessionStops, vars
<1> QED BY <1>1, <1>2, <1>4, <1>5 DEF CcaStep

\* No step starts another handler.
LEMMA AloneStep == TypeOK /\ Alone /\ [Next]_vars => Alone'
<1> SUFFICES ASSUME TypeOK, Alone, [Next]_vars PROVE Alone'
  OBVIOUS
<1>1. ASSUME UNCHANGED route, NEW t \in Streams, handler[t] # "none", NEW x,
             handler' = [handler EXCEPT ![t] = x] \/ handler' = handler
      PROVE  Alone'
  BY <1>1 DEF Alone, TypeOK
<1>2. ASSUME UNCHANGED <<route, handler>> PROVE Alone'
  BY <1>2 DEF Alone
<1>3. ASSUME NEW t \in Streams, HandlerStep(t) PROVE Alone'
  <2>1. UNCHANGED route /\ handler[t] # "none" /\ \E x : handler' = [handler EXCEPT ![t] = x]
    BY <1>3 DEF HandlerStep, SpawnConnection, SpawnWatcher, LookUpConnection, NotStarted, Watch,
       EnterSelect, SelectDone, SelectNotStarted, At, Go
  <2> QED BY <1>1, <2>1
<1>4. ASSUME NEW t \in Streams, HandleTerminated(t) PROVE Alone'
  <2>1. UNCHANGED route
        /\ \/ handler[t] = "select" /\ handler' = [handler EXCEPT ![t] = "returned"]
           \/ handler' = handler
    BY <1>4 DEF HandleTerminated, Go, TypeOK
  <2> QED BY <1>1, <1>2, <2>1
<1>5. ASSUME NEW t \in Streams, PassivateWatcher(t) PROVE Alone'
  BY <1>2, <1>5 DEF PassivateWatcher, handlerVars
<1>6. ASSUME NEW t \in Streams, CcaStep(t) \/ PassivateCca(t) \/ SessionRegisters(t) \/ SessionTells(t)
      PROVE  Alone'
  BY <1>2, <1>6, OutsideSteps DEF Outside
<1>7. CASE SessionStops \/ UNCHANGED vars
  BY <1>2, <1>7 DEF SessionStops, vars, handlerVars
<1> QED BY <1>3, <1>4, <1>5, <1>6, <1>7 DEF Next

LEMMA AttachedStep ==
  ASSUME TypeOK, \A s \in Streams : StreamInv(s), \A s \in Streams : Attached(s), [Next]_vars,
         NEW s \in Streams
  PROVE  Attached(s)'
<1> USE StreamsAssumption DEF TypeOK, handlerVars, streamVars, watchVars, outsideVars, At, Go
<1>0. Attached(s) /\ StreamInv(s)
  OBVIOUS
<1>1. ASSUME Outside PROVE Attached(s)'
  BY <1>0, <1>1 DEF Outside, Attached
<1>2. ASSUME NEW t \in Streams, SpawnConnection(t) PROVE Attached(s)'
  <2>1. /\ handler[t] = "spawnConnection" /\ UNCHANGED <<notice, watching>>
        /\ \A u \in Streams : cca[u] # "none" => cca'[u] # "none"
    BY <1>2 DEF SpawnConnection, Become
  <2>2. CASE s = t
    <3>1. ~watching[s] /\ ~notice[s]
      BY <1>0, <2>1, <2>2 DEF StreamInv, Fresh
    <3>2. pid'[s] # NoStream => cca'[pid'[s]] # "none"
      BY <1>0, <1>2, <2>1, <2>2 DEF SpawnConnection, Become, CcaRuns, StreamInv, Fresh
    <3> QED BY <2>1, <3>1, <3>2 DEF Attached
  <2>3. CASE s # t
    <3>1. handler'[s] = handler[s] /\ pid'[s] = pid[s]
      BY <1>2, <2>3 DEF SpawnConnection
    <3> QED BY <1>0, <2>1, <3>1 DEF Attached
  <2> QED BY <2>2, <2>3
<1>3. ASSUME NEW t \in Streams, SpawnWatcher(t) \/ LookUpConnection(t) PROVE Attached(s)'
  <2>1. /\ handler[t] \in {"spawnWatcher", "asleep"} /\ UNCHANGED <<pid, cca, watching, notice>>
        /\ s # t => handler'[s] = handler[s]
    BY <1>3 DEF SpawnWatcher, LookUpConnection, NotStarted
  <2> QED BY <1>0, <2>1 DEF Attached
<1>4. ASSUME NEW t \in Streams, Watch(t) \/ EnterSelect(t) \/ SelectDone(t) \/ SelectNotStarted(t)
      PROVE  Attached(s)'
  BY <1>0, <1>4 DEF Watch, EnterSelect, SelectDone, SelectNotStarted, Attached
<1>5. ASSUME NEW t \in Streams, HandleTerminated(t) \/ PassivateWatcher(t) PROVE Attached(s)'
  BY <1>0, <1>5 DEF HandleTerminated, PassivateWatcher, Attached
<1>6. ASSUME NEW t \in Streams, CcaStep(t) \/ PassivateCca(t) \/ SessionRegisters(t) \/ SessionTells(t)
      PROVE  Attached(s)'
  BY <1>1, <1>6, OutsideSteps
<1>7. CASE SessionStops \/ UNCHANGED vars
  BY <1>1, <1>7, OutsideSteps
<1> QED BY <1>2, <1>3, <1>4, <1>5, <1>6, <1>7 DEF Next, HandlerStep

LEMMA LostInvariant == Spec => []LostInv
<1>1. Init => LostInv
  <2> SUFFICES ASSUME Init PROVE LostInv
    OBVIOUS
  <2>1. \A s \in Streams : Attached(s)
    BY DEF Init, Attached, All
  <2>2. ASSUME route = "sse" PROVE Alone
    <3>1. PICK s \in Streams : handler = [All("none") EXCEPT ![s] = "spawnConnection"]
      BY <2>2 DEF Init
    <3> QED BY <3>1 DEF Alone, All
  <2> QED BY <2>1, <2>2 DEF LostInv, Alone
<1>2. IInv /\ LostInv /\ [Next]_vars => LostInv'
  BY AloneStep, AttachedStep DEF IInv, LostInv
<1> QED BY <1>1, <1>2, Invariant, PTL DEF Spec

\* What LostHandlers says of one stream and one step.
Accounted(s) ==
  /\ ~Lost(s) /\ Lost(s)' =>
       \/ /\ Served(s)
          /\ ~watching[s] \/ watcher[s] # "running" \/ cca'[pid[s]] = "suspended"
       \/ At(s, "returning") /\ notice[s]
       \/ At(s, "spawnWatcher") /\ ~Served(s)
       \/ At(s, "asleep") /\ route = "mcp" /\ ~Served(s)
  /\ Lost(s) => Lost(s)'

\* On GET /sse no other stream's actor is in the way.
LEMMA OwnName ==
  ASSUME IInv, LostInv, NEW s \in Streams, route = "sse", handler[s] # "none", NameRuns
  PROVE  Served(s)
<1>1. PICK u \in Streams : CcaRuns(u)
  BY DEF NameRuns
<1>2. StreamInv(u) /\ cca[u] # "none"
  BY <1>1 DEF IInv, CcaRuns
<1>3. handler[u] # "none" /\ pid[u] = u
  BY <1>2 DEF StreamInv, Fresh, OwnActor
<1>4. u = s
  BY <1>3 DEF LostInv, Alone
<1> QED BY <1>1, <1>3, <1>4, StreamsAssumption DEF Served

\* The handler's own steps, and those of the others.
LEMMA HandlersAccounted ==
  ASSUME IInv, LostInv, NEW s \in Streams, NEW t \in Streams,
         HandlerStep(t) \/ HandleTerminated(t) \/ PassivateWatcher(t)
  PROVE  Accounted(s)
<1>0. TypeOK /\ StreamInv(s) /\ StreamInv(t)
  BY DEF IInv
<1> USE <1>0, StreamsAssumption
    DEF TypeOK, handlerVars, streamVars, watchVars, outsideVars, At, Go, Accounted, Lost
<1>1. CASE SpawnConnection(t)
  <2>1. handler'[t] = "spawnWatcher" /\ handler[t] = "spawnConnection"
          /\ UNCHANGED <<closed, offer, notice>>
    BY <1>1 DEF SpawnConnection
  <2>2. ASSUME s # t PROVE handler'[s] = handler[s] /\ pid'[s] = pid[s] /\ (Served(s) <=> Served(s)')
    <3>1. handler'[s] = handler[s] /\ pid'[s] = pid[s]
      BY <1>1, <2>2 DEF SpawnConnection
    <3>2. cca[t] = "none" /\ (pid[s] # NoStream => pid[s] # t)
      BY <2>1 DEF StreamInv, Fresh, LostInv, Attached
    <3>3. pid[s] # NoStream => cca'[pid[s]] = cca[pid[s]]
      BY <1>1, <3>2 DEF SpawnConnection, Become
    <3> QED BY <3>1, <3>3 DEF Served, CcaRuns
  <2> QED BY <2>1, <2>2
<1>2. CASE SpawnWatcher(t)
  BY <1>2 DEF SpawnWatcher, Served, CcaRuns
<1>3. CASE LookUpConnection(t)
  <2>1. UNCHANGED <<pid, cca, closed, notice>> /\ (Served(s) <=> Served(s)')
    BY <1>3 DEF LookUpConnection, Served, CcaRuns
  <2>2. CASE s # t
    <3>1. handler'[s] = handler[s] /\ offer'[s] = offer[s]
      BY <1>3, <2>2 DEF LookUpConnection, NotStarted
    <3> QED BY <2>1, <3>1
  <2>3. CASE s = t
    <3>1. handler[s] = "asleep"
      BY <1>3, <2>3 DEF LookUpConnection
    <3>2. CASE handler'[s] = "watch" /\ NameRuns
      BY <2>1, <3>1, <3>2, OwnName DEF IInv
    <3>3. CASE handler'[s] = "panicked" \/ offer'[s]
      BY <3>1, <3>3
    <3> QED BY <1>3, <2>3, <3>2, <3>3 DEF LookUpConnection, NotStarted
  <2> QED BY <2>2, <2>3
<1>4. CASE Watch(t) \/ EnterSelect(t) \/ SelectDone(t) \/ SelectNotStarted(t)
  <2>1. Served(s) <=> Served(s)'
    BY <1>4 DEF Watch, EnterSelect, SelectDone, SelectNotStarted, Served, CcaRuns
  <2> QED BY <1>4, <2>1 DEF Watch, EnterSelect, SelectDone, SelectNotStarted
<1>5. CASE HandleTerminated(t)
  <2>1. Served(s) <=> Served(s)'
    BY <1>5 DEF HandleTerminated, Served, CcaRuns
  <2>2. notice[t] /\ handler[t] \in {"returning", "select", "returned"}
    BY <1>5 DEF HandleTerminated, LostInv, Attached
  <2> QED BY <1>5, <2>1, <2>2 DEF HandleTerminated
<1>6. CASE PassivateWatcher(t)
  BY <1>6 DEF PassivateWatcher, Served, CcaRuns
<1> QED BY <1>1, <1>2, <1>3, <1>4, <1>5, <1>6 DEF HandlerStep

\* The actor of a lost handler does not run, nor does one of its own.
LEMMA LostHasNoActor ==
  ASSUME IInv, NEW s \in Streams, Lost(s)
  PROVE  ~CcaRuns(s) /\ (pid[s] # NoStream => ~CcaRuns(pid[s]))
  BY StreamsAssumption DEF IInv, StreamInv, OwnActor, Lost, Served, CcaRuns

\* The steps of the connection actors and of the session.
LEMMA ActorsAccounted ==
  ASSUME IInv, LostInv, NEW s \in Streams, NEW t \in Streams,
         \/ CcaStep(t) \/ PassivateCca(t) \/ SessionRegisters(t) \/ SessionTells(t)
         \/ SessionStops \/ UNCHANGED vars
  PROVE  Accounted(s)
<1>0. TypeOK /\ UNCHANGED <<route, handler, pid, offer>>
  BY OutsideSteps DEF IInv, Outside
<1> USE <1>0, StreamsAssumption
    DEF TypeOK, handlerVars, streamVars, watchVars, outsideVars, Accounted
<1>1. ASSUME UNCHANGED <<cca, closed, notice>> PROVE Accounted(s)
  BY <1>1 DEF Lost, Served, CcaRuns
<1>2. ASSUME CcaRuns(t), CcaRuns(t)', UNCHANGED notice,
             \A u \in Streams \ {t} : cca'[u] = cca[u] /\ closed'[u] = closed[u],
             closed'[t] >= closed[t]
      PROVE  Accounted(s)
  <2>1. Served(s) <=> Served(s)'
    BY <1>2 DEF Served, CcaRuns
  <2>2. Lost(s)' => Lost(s)
    BY <1>2, <2>1 DEF Lost
  <2>3. Lost(s) => s # t
    BY <1>2, LostHasNoActor
  <2>4. Lost(s) => Lost(s)'
    BY <1>2, <2>1, <2>3 DEF Lost
  <2> QED BY <2>2, <2>4
<1>3. CASE HandlePostStart(t) \/ RegisterFails(t)
  <2>1. CcaRuns(t) /\ CcaRuns(t)' /\ UNCHANGED notice /\ closed'[t] >= closed[t]
          /\ \A u \in Streams \ {t} : cca'[u] = cca[u] /\ closed'[u] = closed[u]
    BY <1>3 DEF HandlePostStart, RegisterFails, Close, Become, CcaRuns
  <2> QED BY <1>2, <2>1
<1>4. CASE SendEndpoint(t)
  <2>1. CcaRuns(t) /\ CcaRuns(t)' /\ UNCHANGED notice /\ closed'[t] >= closed[t]
          /\ \A u \in Streams \ {t} : cca'[u] = cca[u] /\ closed'[u] = closed[u]
    BY <1>4 DEF SendEndpoint, Become, CcaRuns
  <2> QED BY <1>2, <2>1
<1>5. ASSUME NEW how \in {"stopped", "suspended"}, EndCca(t, how), CcaRuns(t), UNCHANGED closed
      PROVE  Accounted(s)
  <2>1. /\ cca'[t] = how /\ \A u \in Streams \ {t} : cca'[u] = cca[u]
        /\ notice'[s] <=> notice[s] \/ (how = "stopped" /\ pid[s] = t /\ watching[s] /\ watcher[s] = "running")
    BY <1>5 DEF EndCca, Become
  <2>2. CASE pid[s] = t
    <3>1. Served(s) /\ ~Lost(s)
      BY <1>5, <2>2 DEF Served, Lost
    <3>2. Lost(s)' => ~notice'[s]
      BY DEF Lost
    <3> QED BY <2>1, <2>2, <3>1, <3>2
  <2>3. CASE pid[s] # t
    <3>1. Served(s) <=> Served(s)'
      BY <2>1, <2>3 DEF Served, CcaRuns
    <3>2. Lost(s) <=> Lost(s)'
      BY <1>5, <2>1, <2>3, <3>1 DEF Lost
    <3> QED BY <3>2
  <2> QED BY <2>2, <2>3
<1>6. CASE Shutdown(t) \/ DeliverFails(t) \/ PassivateCca(t)
  <2>1. CcaRuns(t) /\ UNCHANGED closed
    BY <1>6 DEF Shutdown, DeliverFails, PassivateCca, CcaRuns
  <2>2. \E how \in {"stopped", "suspended"} : EndCca(t, how)
    BY <1>6, LibraryAssumption DEF Shutdown, DeliverFails, PassivateCca
  <2> QED BY <1>5, <2>1, <2>2
<1>7. CASE Deliver(t) \/ SessionRegisters(t) \/ SessionTells(t) \/ SessionStops \/ UNCHANGED vars
  BY <1>1, <1>7 DEF Deliver, SessionRegisters, SessionTells, SessionStops, vars
<1> QED BY <1>3, <1>4, <1>6, <1>7 DEF CcaStep

\* The ways in which a handler can be left waiting for ever are those LostHandlers
\* names, for any number of streams (death_watcher.go:83, sse_get_handler.go:44,
\* mcp_get_handler.go:33).
THEOREM LostHandlersAccounted == Spec => LostHandlers
<1> DEFINE Step == \A s \in Streams :
       /\ ~Lost(s) /\ Lost(s)' =>
            \/ /\ Served(s)
               /\ ~watching[s] \/ watcher[s] # "running" \/ cca'[pid[s]] = "suspended"
            \/ At(s, "returning") /\ notice[s]
            \/ At(s, "spawnWatcher") /\ ~Served(s)
            \/ At(s, "asleep") /\ route = "mcp" /\ ~Served(s)
       /\ Lost(s) => Lost(s)'
<1>1. (\A s \in Streams : Accounted(s)) => Step
  BY DEF Accounted
<1>2. ASSUME IInv, LostInv, [Next]_vars, NEW s \in Streams PROVE Accounted(s)
  <2>1. UNCHANGED vars \/ SessionStops => Accounted(s)
    BY <1>2, ActorsAccounted
  <2>2. ASSUME NEW t \in Streams, HandlerStep(t) \/ HandleTerminated(t) \/ PassivateWatcher(t)
        PROVE  Accounted(s)
    BY <1>2, <2>2, HandlersAccounted
  <2>3. ASSUME NEW t \in Streams, CcaStep(t) \/ PassivateCca(t) \/ SessionRegisters(t) \/ SessionTells(t)
        PROVE  Accounted(s)
    BY <1>2, <2>3, ActorsAccounted
  <2> QED BY <1>2, <2>1, <2>2, <2>3 DEF Next
<1>3. IInv /\ LostInv /\ [Next]_vars => [Step]_vars
  BY <1>1, <1>2
<1> QED BY <1>3, Invariant, LostInvariant, PTL DEF Spec, LostHandlers

-----------------------------------------------------------------------------
(* The streams as event streams.                                           *)

\* Nothing is written before the registration is answered; from then on every response
\* the session sent was written, still waits, or is lost.
Counted(s) ==
  /\ cca[s] \in {"none", "starting", "registering"} => events[s] = <<>>
  /\ events[s] # <<>> => Len(events[s]) + inbox[s] <= sent[s] + 1

\* A step of the promise, or none.
PromiseStep == Promise!Next \/ UNCHANGED <<sent, events, {s \in Streams : Ended(s)}>>

LEMMA EventTypes ==
  ASSUME TypeOK, NEW s \in Streams
  PROVE  /\ events[s] \in Seq({"endpoint", "message"}) /\ Len(events[s]) \in Nat
         /\ (events[s] = <<>> <=> Len(events[s]) = 0)
         /\ sent[s] \in Nat /\ inbox[s] \in Nat
<1>1. events[s] \in Seq({"endpoint", "message"})
  BY DEF TypeOK
<1>2. sent[s] \in Nat /\ inbox[s] \in Nat
  BY StreamsAssumption DEF TypeOK
<1> QED BY <1>1, <1>2

\* A handler that returns, or panics, ends its stream and no other.
LEMMA ReturnEnds ==
  ASSUME TypeOK, NEW t \in Streams, NEW where, Go(t, where), UNCHANGED <<sent, events>>,
         ~Ended(t)
  PROVE  PromiseStep
<1>1. \A s \in Streams \ {t} : Ended(s)' <=> Ended(s)
  BY DEF TypeOK, Go, Ended
<1>2. CASE Ended(t)'
  <2>1. {s \in Streams : Ended(s)}' = {s \in Streams : Ended(s)} \cup {t}
    BY <1>1, <1>2
  <2>2. Promise!End(t)
    BY <2>1 DEF Promise!End
  <2> QED BY <2>2 DEF PromiseStep, Promise!Next
<1>3. CASE ~Ended(t)'
  BY <1>1, <1>3 DEF PromiseStep
<1> QED BY <1>2, <1>3

LEMMA HandlersKeepPromise ==
  ASSUME TypeOK, NEW t \in Streams, HandlerStep(t) \/ HandleTerminated(t) \/ PassivateWatcher(t)
  PROVE  PromiseStep
<1>1. UNCHANGED <<sent, events>>
  BY DEF HandlerStep, SpawnConnection, SpawnWatcher, LookUpConnection, Watch, EnterSelect,
     SelectDone, SelectNotStarted, HandleTerminated, PassivateWatcher, streamVars, outsideVars
<1>2. CASE HandlerStep(t)
  <2>1. ~Ended(t) /\ \E where : Go(t, where)
    BY <1>2 DEF HandlerStep, SpawnConnection, SpawnWatcher, LookUpConnection, NotStarted, Watch,
       EnterSelect, SelectDone, SelectNotStarted, At, Ended
  <2> QED BY <1>1, <2>1, ReturnEnds
<1>3. CASE HandleTerminated(t)
  <2>1. CASE Ended(t)
    <3>1. handler' = handler
      BY <1>3, <2>1 DEF HandleTerminated, Go, Ended, TypeOK
    <3> QED BY <1>1, <3>1 DEF PromiseStep, Ended
  <2>2. CASE ~Ended(t)
    BY <1>1, <1>3, <2>2, ReturnEnds DEF HandleTerminated
  <2> QED BY <2>1, <2>2
<1>4. CASE PassivateWatcher(t)
  BY <1>1, <1>4 DEF PassivateWatcher, handlerVars, PromiseStep, Ended
<1> QED BY <1>1, <1>2, <1>3, <1>4

\* Writing an event to a stream whose handler has not returned.
LEMMA EventsCarried ==
  ASSUME IInv, \A s \in Streams : Counted(s), NEW t \in Streams,
         SendEndpoint(t) \/ Deliver(t)
  PROVE  PromiseStep
<1>0. TypeOK /\ StreamInv(t) /\ Counted(t)
  BY DEF IInv
<1>1. UNCHANGED <<sent, {s \in Streams : Ended(s)}>>
  BY DEF SendEndpoint, Deliver, handlerVars, outsideVars, Ended
<1>2. t \notin {s \in Streams : Ended(s)}
  BY <1>0 DEF StreamInv, Released, SendEndpoint, Deliver
<1>3. CASE SendEndpoint(t)
  <2>1. CASE route = "sse"
    <3>1. events' = [events EXCEPT ![t] = Append(@, "endpoint")] /\ events[t] = <<>>
      BY <1>0, <1>3, <2>1 DEF SendEndpoint, Counted
    <3>2. Promise!Announce(t)
      BY <1>1, <1>2, <3>1 DEF Promise!Announce, Promise!Carry
    <3> QED BY <3>2 DEF PromiseStep, Promise!Next
  <2>2. CASE route # "sse"
    BY <1>1, <1>3, <2>2 DEF SendEndpoint, PromiseStep
  <2> QED BY <2>1, <2>2
<1>4. CASE Deliver(t)
  <2>1. /\ events' = [events EXCEPT ![t] = Append(@, "message")]
        /\ cca[t] = "open" /\ inbox[t] > 0
    BY <1>4 DEF Deliver
  <2>2. events[t] # <<>>
    BY <1>0, <2>1, EventTypes DEF StreamInv, Announced, TypeOK
  <2>3. Len(events[t]) + inbox[t] <= sent[t] + 1
    BY <1>0, <2>2 DEF Counted
  <2>4. Len(events[t]) \in 1..sent[t]
    BY <1>0, <2>1, <2>2, <2>3, EventTypes
  <2>5. Promise!Write(t)
    BY <1>1, <1>2, <2>1, <2>4 DEF Promise!Write, Promise!Carry
  <2> QED BY <2>5 DEF PromiseStep, Promise!Next
<1> QED BY <1>3, <1>4

\* Every step keeps the promise.
LEMMA StepKeepsPromise ==
  IInv /\ (\A s \in Streams : Counted(s)) /\ [Next]_vars => PromiseStep
<1> SUFFICES ASSUME IInv, \A s \in Streams : Counted(s), [Next]_vars PROVE PromiseStep
  OBVIOUS
<1>0. TypeOK
  BY DEF IInv
<1>1. ASSUME UNCHANGED <<sent, events, handler>> PROVE PromiseStep
  BY <1>1 DEF PromiseStep, Ended
<1>2. ASSUME NEW t \in Streams, HandlerStep(t) \/ HandleTerminated(t) \/ PassivateWatcher(t)
      PROVE  PromiseStep
  BY <1>0, <1>2, HandlersKeepPromise
<1>3. ASSUME NEW t \in Streams, SendEndpoint(t) \/ Deliver(t) PROVE PromiseStep
  BY <1>3, EventsCarried
<1>4. ASSUME NEW t \in Streams, \/ HandlePostStart(t) \/ RegisterFails(t) \/ Shutdown(t)
                                \/ DeliverFails(t) \/ PassivateCca(t) \/ SessionRegisters(t)
      PROVE  PromiseStep
  BY <1>1, <1>4 DEF HandlePostStart, RegisterFails, Close, Shutdown, DeliverFails, EndCca,
     PassivateCca, SessionRegisters, handlerVars, streamVars, outsideVars
<1>5. ASSUME NEW t \in Streams, SessionTells(t) PROVE PromiseStep
  <2>1. Promise!Give(t)
    BY <1>5 DEF SessionTells, handlerVars, Promise!Give, Ended
  <2> QED BY <2>1 DEF PromiseStep, Promise!Next
<1>6. CASE SessionStops \/ UNCHANGED vars
  BY <1>1, <1>6 DEF SessionStops, vars, handlerVars, streamVars, outsideVars
<1> QED BY <1>2, <1>3, <1>4, <1>5, <1>6 DEF Next, CcaStep

LEMMA CountedStep ==
  ASSUME IInv, \A s \in Streams : Counted(s), [Next]_vars, NEW s \in Streams
  PROVE  Counted(s)'
<1>0. TypeOK /\ StreamInv(s) /\ Counted(s)
  BY DEF IInv
<1>1. /\ events[s] \in Seq({"endpoint", "message"}) /\ Len(events[s]) \in Nat
      /\ (events[s] = <<>> <=> Len(events[s]) = 0) /\ sent[s] \in Nat /\ inbox[s] \in Nat
  BY <1>0, EventTypes
<1> USE DEF TypeOK, handlerVars, streamVars, watchVars, outsideVars, Become
<1>2. ASSUME cca'[s] \in {"none", "starting", "registering"} => cca[s] \in {"none", "starting", "registering"},
             events'[s] = events[s],
             \/ inbox'[s] = inbox[s] /\ sent'[s] = sent[s]
             \/ inbox'[s] = inbox[s] + 1 /\ sent'[s] = sent[s] + 1
             \/ inbox'[s] = 0 /\ sent'[s] = sent[s]
      PROVE  Counted(s)'
  BY <1>0, <1>1, <1>2 DEF Counted
<1>3. ASSUME NEW t \in Streams, SpawnConnection(t) PROVE Counted(s)'
  <2>1. /\ UNCHANGED <<events, inbox, sent>>
        /\ cca[t] = "none" /\ (cca'[s] = cca[s] \/ s = t)
    BY <1>0, <1>3 DEF SpawnConnection, IInv, StreamInv, Fresh, At
  <2> QED BY <1>2, <2>1
<1>4. ASSUME NEW t \in Streams, \/ SpawnWatcher(t) \/ LookUpConnection(t) \/ Watch(t)
                                \/ EnterSelect(t) \/ SelectDone(t) \/ SelectNotStarted(t)
                                \/ HandleTerminated(t) \/ PassivateWatcher(t)
      PROVE  Counted(s)'
  BY <1>2, <1>4 DEF SpawnWatcher, LookUpConnection, Watch, EnterSelect, SelectDone,
     SelectNotStarted, HandleTerminated, PassivateWatcher
<1>5. ASSUME NEW t \in Streams, HandlePostStart(t) \/ RegisterFails(t) PROVE Counted(s)'
  <2>1. /\ UNCHANGED <<events, inbox, sent>>
        /\ cca[t] \in {"starting", "registering"} /\ (cca'[s] = cca[s] \/ s = t)
    BY <1>0, <1>5 DEF HandlePostStart, RegisterFails, Close
  <2> QED BY <1>2, <2>1
<1>6. ASSUME NEW t \in Streams, SendEndpoint(t) PROVE Counted(s)'
  <2>1. CASE s # t \/ route # "sse"
    <3>1. /\ events'[s] = events[s] /\ inbox'[s] = inbox[s] /\ sent'[s] = sent[s]
          /\ cca'[s] = cca[s] \/ cca'[s] = "open"
      BY <1>0, <1>6, <2>1 DEF SendEndpoint
    <3> QED BY <1>2, <3>1
  <2>2. CASE s = t /\ route = "sse"
    <3>1. /\ cca'[s] = "open" /\ events'[s] = Append(events[s], "endpoint")
          /\ inbox'[s] = inbox[s] /\ sent'[s] = sent[s] /\ events[s] = <<>>
      BY <1>0, <1>6, <2>2 DEF SendEndpoint, Counted
    <3>2. Len(events'[s]) = 1
      BY <3>1
    <3>3. inbox[s] <= sent[s]
      BY <1>0 DEF StreamInv, Announced
    <3> QED BY <1>1, <3>1, <3>2, <3>3 DEF Counted
  <2> QED BY <2>1, <2>2
<1>7. ASSUME NEW t \in Streams, Deliver(t) PROVE Counted(s)'
  <2>1. CASE s # t
    <3>1. /\ events'[s] = events[s] /\ inbox'[s] = inbox[s] /\ sent'[s] = sent[s] /\ cca'[s] = cca[s]
      BY <1>0, <1>7, <2>1 DEF Deliver
    <3> QED BY <1>2, <3>1
  <2>2. CASE s = t
    <3>1. /\ cca[s] = "open" /\ cca'[s] = "open" /\ events'[s] = Append(events[s], "message")
          /\ inbox[s] > 0 /\ inbox'[s] = inbox[s] - 1 /\ sent'[s] = sent[s]
      BY <1>0, <1>7, <2>2 DEF Deliver
    <3>2. events[s] # <<>>
      BY <1>0, <1>1, <3>1 DEF StreamInv, Announced
    <3>3. Len(events'[s]) = Len(events[s]) + 1
      BY <1>1, <3>1
    <3> QED BY <1>0, <1>1, <3>1, <3>2, <3>3 DEF Counted
  <2> QED BY <2>1, <2>2
<1>8. ASSUME NEW t \in Streams, Shutdown(t) \/ DeliverFails(t) \/ PassivateCca(t) PROVE Counted(s)'
  <2>1. /\ cca[t] \in {"closing", "open"} /\ UNCHANGED <<events, sent>>
        /\ \E how \in {"stopped", "suspended"} : EndCca(t, how)
    BY <1>8, LibraryAssumption DEF Shutdown, DeliverFails, PassivateCca
  <2>2. s # t => cca'[s] = cca[s] /\ inbox'[s] = inbox[s]
    BY <1>0, <2>1 DEF EndCca
  <2>3. s = t => cca'[s] \in {"stopped", "suspended"} /\ inbox'[s] = 0
    BY <1>0, <2>1 DEF EndCca
  <2> QED BY <1>2, <2>1, <2>2, <2>3
<1>9. ASSUME NEW t \in Streams, SessionTells(t) PROVE Counted(s)'
  <2>1. /\ cca'[s] = cca[s] /\ events'[s] = events[s]
        /\ s # t => inbox'[s] = inbox[s] /\ sent'[s] = sent[s]
        /\ s = t => inbox'[s] = inbox[s] + 1 /\ sent'[s] = sent[s] + 1
    BY <1>0, <1>9 DEF SessionTells
  <2> QED BY <1>2, <2>1
<1>10. ASSUME NEW t \in Streams, SessionRegisters(t) PROVE Counted(s)'
  BY <1>2, <1>10 DEF SessionRegisters
<1>11. CASE SessionStops \/ UNCHANGED vars
  BY <1>2, <1>11 DEF SessionStops, vars
<1> QED BY <1>3, <1>4, <1>5, <1>6, <1>7, <1>8, <1>9, <1>10, <1>11 DEF Next, HandlerStep, CcaStep

LEMMA CountedInvariant == Spec => [](\A s \in Streams : Counted(s))
<1>1. Init => \A s \in Streams : Counted(s)
  BY DEF Init, Counted, All
<1>2. IInv /\ (\A s \in Streams : Counted(s)) /\ [Next]_vars => (\A s \in Streams : Counted(s))'
  BY CountedStep
<1> QED BY <1>1, <1>2, Invariant, PTL DEF Spec

\* The streams of a session keep what EventStream promises: the endpoint event first and
\* once, no message that was not sent, and nothing after the end
\* (client_connection_actor.go, sse_get_handler.go, mcp_get_handler.go).
THEOREM EventStreamImplemented == Spec => ImplementsEventStream
<1>1. Init => Promise!Init
  BY DEF Init, Promise!Init, All, Ended
<1>2. PromiseStep => [Promise!Next]_(Promise!streamVars)
  BY DEF PromiseStep, Promise!streamVars
<1>3. IInv /\ (\A s \in Streams : Counted(s)) /\ [Next]_vars
        => [Promise!Next]_(Promise!streamVars)
  BY <1>2, StepKeepsPromise
<1> QED BY <1>1, <1>3, Invariant, CountedInvariant, PTL
        DEF Spec, ImplementsEventStream, Promise!Spec
=============================================================================
