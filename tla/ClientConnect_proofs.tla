------------------------- MODULE ClientConnect_proofs -------------------------
(***************************************************************************)
(* Proofs about ClientConnect, for every server, option and order of       *)
(* events.                                                                 *)
(*                                                                         *)
(* The inductive invariant says how many streams have been opened at each  *)
(* point, that only the last of them can be alive, and that a client is    *)
(* initialized exactly while it is connected and not closed: this is what  *)
(* makes Close find the stream it has to end.                              *)
(***************************************************************************)
EXTENDS ClientConnect, FiniteSetTheorems, TLAPS

\* One stream before the fallback, two after it, none alive but the last.
StreamsInv ==
  /\ pc = "start" => current = 0 /\ ~fellBack
  /\ ~fellBack => current \in {0, 1}
  /\ \A k \in Streams : Live(k) => k = current

\* Close meets the flag that Connect has set.
CloseInv ==
  /\ closed => pc \in {"connected", "failed"}
  /\ initialized => pc = "connected"
  /\ pc = "connected" /\ ~closed => initialized
  /\ pc = "connected" /\ closed => \A k \in Streams : ~Live(k)

IInv == TypeOK /\ StreamsInv /\ CloseInv

-----------------------------------------------------------------------------
LEMMA InitIInv == Init => IInv
  BY DEF Init, IInv, TypeOK, StreamsInv, CloseInv, Live, Streams

\* What opening a stream does to the types: the streams stay functions over Streams.
LEMMA OpenStreamTypes ==
  ASSUME TypeOK, current \in {0, 1}, NEW url \in {"mcp", "sse"}, NEW cancelled,
         OpenStream(url, cancelled)
  PROVE  /\ pc' = "dial" /\ current' \in {0} \cup Streams /\ failed' \in BOOLEAN
         /\ stream' \in [Streams -> {"none", "dialing", "open", "over"}]
         /\ path' \in [Streams -> {"none", "mcp", "sse"}]
         /\ callback' \in [Streams -> {"none", "signalled", "stored"}]
<1>1. pc' = "dial" /\ failed' \in BOOLEAN
  BY DEF OpenStream
<1>2. current' \in {0} \cup Streams
  BY DEF OpenStream, Streams
<1>3. stream' \in [Streams -> {"none", "dialing", "open", "over"}]
  <2>1. \A k \in Streams : stream[k] \in {"none", "dialing", "open", "over"}
    BY DEF TypeOK
  <2> QED
    BY <2>1 DEF OpenStream
<1>4. path' \in [Streams -> {"none", "mcp", "sse"}]
  BY DEF OpenStream, TypeOK
<1>5. callback' \in [Streams -> {"none", "signalled", "stored"}]
  BY DEF OpenStream, TypeOK
<1> QED
  BY <1>1, <1>2, <1>3, <1>4, <1>5

LEMMA Step == IInv /\ [Next]_vars => IInv'
<1> SUFFICES ASSUME IInv, [Next]_vars PROVE IInv'
  OBVIOUS
<1>0. TypeOK /\ StreamsInv /\ CloseInv
  BY DEF IInv
<1> USE DEF serverVars, connectVars, streamVars
<1>1. CASE Await
  <2>1. TypeOK'
    BY <1>0, <1>1 DEF TypeOK, StreamsInv, Streams, Await
  <2>2. StreamsInv'
    BY <1>0, <1>1 DEF TypeOK, StreamsInv, Live, Streams, Await
  <2>3. CloseInv'
    BY <1>0, <1>1 DEF TypeOK, StreamsInv, CloseInv, Live, Streams, Await
  <2> QED
    BY <2>1, <2>2, <2>3 DEF IInv
<1>2. CASE SetupFails
  <2>1. TypeOK'
    BY <1>0, <1>2 DEF TypeOK, StreamsInv, Streams, SetupFails
  <2>2. StreamsInv'
    BY <1>0, <1>2 DEF TypeOK, StreamsInv, Live, Streams, SetupFails
  <2>3. CloseInv'
    BY <1>0, <1>2 DEF TypeOK, StreamsInv, CloseInv, Live, Streams, SetupFails
  <2> QED
    BY <2>1, <2>2, <2>3 DEF IInv
<1>3. CASE UseLegacy
  <2>1. TypeOK'
    <3>1. OpenStream("sse", {}) /\ current \in {0, 1}
      BY <1>0, <1>3 DEF StreamsInv, UseLegacy
    <3> QED
      BY <1>0, <1>3, <3>1, OpenStreamTypes DEF TypeOK, UseLegacy
  <2>2. StreamsInv'
    BY <1>0, <1>3 DEF TypeOK, StreamsInv, Live, Streams, UseLegacy, OpenStream
  <2>3. CloseInv'
    BY <1>0, <1>3 DEF TypeOK, StreamsInv, CloseInv, Live, Streams, UseLegacy, OpenStream
  <2> QED
    BY <2>1, <2>2, <2>3 DEF IInv
<1>4. CASE UseModern
  <2>1. TypeOK'
    <3>1. CASE OpenStream("mcp", {})
      <4>1. current \in {0, 1}
        BY <1>0, <1>4 DEF StreamsInv, UseModern
      <4> QED
        BY <1>0, <1>4, <3>1, <4>1, OpenStreamTypes DEF TypeOK, UseModern
    <3>2. CASE pc' = "initialize" /\ UNCHANGED streamVars
      BY <1>0, <1>4, <3>2 DEF TypeOK, UseModern
    <3> QED
      BY <1>4, <3>1, <3>2 DEF UseModern
  <2>2. StreamsInv'
    BY <1>0, <1>4 DEF TypeOK, StreamsInv, Live, Streams, UseModern, OpenStream
  <2>3. CloseInv'
    BY <1>0, <1>4 DEF TypeOK, StreamsInv, CloseInv, Live, Streams, UseModern, OpenStream
  <2> QED
    BY <2>1, <2>2, <2>3 DEF IInv
<1>5. CASE PostInitialize
  <2>1. TypeOK'
    BY <1>0, <1>5 DEF TypeOK, StreamsInv, Streams, PostInitialize
  <2>2. StreamsInv'
    BY <1>0, <1>5 DEF TypeOK, StreamsInv, Live, Streams, PostInitialize
  <2>3. CloseInv'
    BY <1>0, <1>5 DEF TypeOK, StreamsInv, CloseInv, Live, Streams, PostInitialize
  <2> QED
    BY <2>1, <2>2, <2>3 DEF IInv
<1>6. CASE InitializeSucceeds
  <2>1. TypeOK'
    <3>1. CASE answered' = TRUE
      BY <1>0, <1>6, <3>1 DEF TypeOK, InitializeSucceeds
    <3>2. CASE UNCHANGED answered
      BY <1>0, <1>6, <3>2 DEF TypeOK, InitializeSucceeds
    <3> QED
      BY <1>6, <3>1, <3>2 DEF InitializeSucceeds
  <2>2. StreamsInv'
    BY <1>0, <1>6 DEF TypeOK, StreamsInv, Live, Streams, InitializeSucceeds
  <2>3. CloseInv'
    BY <1>0, <1>6 DEF TypeOK, StreamsInv, CloseInv, Live, Streams, InitializeSucceeds
  <2> QED
    BY <2>1, <2>2, <2>3 DEF IInv
<1>7. CASE InitializeFails
  <2>1. TypeOK'
    BY <1>0, <1>7 DEF TypeOK, StreamsInv, Streams, InitializeFails
  <2>2. StreamsInv'
    BY <1>0, <1>7 DEF TypeOK, StreamsInv, Live, Streams, InitializeFails
  <2>3. CloseInv'
    BY <1>0, <1>7 DEF TypeOK, StreamsInv, CloseInv, Live, Streams, InitializeFails
  <2> QED
    BY <2>1, <2>2, <2>3 DEF IInv
<1>8. CASE FallBack
  <2>1. TypeOK'
    <3>1. OpenStream("sse", {current}) /\ current \in {0, 1}
      BY <1>0, <1>8 DEF StreamsInv, FallBack
    <3> QED
      BY <1>0, <1>8, <3>1, OpenStreamTypes DEF TypeOK, FallBack
  <2>2. StreamsInv'
    BY <1>0, <1>8 DEF TypeOK, StreamsInv, Live, Streams, FallBack, OpenStream
  <2>3. CloseInv'
    BY <1>0, <1>8 DEF TypeOK, StreamsInv, CloseInv, Live, Streams, FallBack, OpenStream
  <2> QED
    BY <2>1, <2>2, <2>3 DEF IInv
<1>9. CASE AssumeEndpoint
  <2>1. TypeOK'
    BY <1>0, <1>9 DEF TypeOK, StreamsInv, Streams, AssumeEndpoint
  <2>2. StreamsInv'
    BY <1>0, <1>9 DEF TypeOK, StreamsInv, Live, Streams, AssumeEndpoint
  <2>3. CloseInv'
    BY <1>0, <1>9 DEF TypeOK, StreamsInv, CloseInv, Live, Streams, AssumeEndpoint
  <2> QED
    BY <2>1, <2>2, <2>3 DEF IInv
<1>10. CASE Notify
  <2>1. TypeOK'
    <3>1. CASE pc' = "connected" /\ initialized' = TRUE
      BY <1>0, <1>10, <3>1 DEF TypeOK, Notify
    <3>2. CASE pc' = "failed" /\ UNCHANGED initialized
      BY <1>0, <1>10, <3>2 DEF TypeOK, Notify
    <3> QED
      BY <1>10, <3>1, <3>2 DEF Notify
  <2>2. StreamsInv'
    BY <1>0, <1>10 DEF TypeOK, StreamsInv, Live, Streams, Notify
  <2>3. CloseInv'
    BY <1>0, <1>10 DEF TypeOK, StreamsInv, CloseInv, Live, Streams, Notify
  <2> QED
    BY <2>1, <2>2, <2>3 DEF IInv
<1>11. CASE Close
  <2>1. TypeOK'
    <3>1. stream' \in [Streams -> {"none", "dialing", "open", "over"}]
      <4>1. \A k \in Streams : stream[k] \in {"none", "dialing", "open", "over"}
        BY <1>0 DEF TypeOK
      <4> QED
        BY <1>11, <4>1 DEF Close
    <3>2. /\ closed' = TRUE /\ initialized' = FALSE
          /\ UNCHANGED <<serverVars, pc, protocolVersion, connectionMethod, fellBack, postedTo,
                         answered, messageEndpoint, current, path, failed, callback>>
      BY <1>11 DEF Close
    <3>3. /\ events' \in BOOLEAN /\ fellBack' \in BOOLEAN /\ answered' \in BOOLEAN
          /\ initialized' \in BOOLEAN /\ failed' \in BOOLEAN /\ closed' \in BOOLEAN
      BY <1>0, <3>2, Zenon DEF TypeOK
    <3>4. /\ wanted' \in {"2024", "2025"} /\ serves' \subseteq {"mcp", "sse"}
          /\ announces' \in {"mcp", "messages"} /\ pc' = pc
      BY <1>0, <3>2 DEF TypeOK
    <3>5. /\ UNCHANGED <<protocolVersion, connectionMethod, messageEndpoint, postedTo, current,
                         path, callback>>
      BY <3>2
    <3> QED
      BY <1>0, <3>1, <3>3, <3>4, <3>5 DEF TypeOK
  <2>2. StreamsInv'
    BY <1>0, <1>11 DEF TypeOK, StreamsInv, Live, Streams, Close
  <2>3. CloseInv'
    BY <1>0, <1>11 DEF TypeOK, StreamsInv, CloseInv, Live, Streams, Close
  <2> QED
    BY <2>1, <2>2, <2>3 DEF IInv
<1>12. ASSUME NEW k \in Streams, Dial(k) PROVE IInv'
  <2>1. TypeOK'
    <3>1. stream' \in [Streams -> {"none", "dialing", "open", "over"}]
      BY <1>0, <1>12 DEF TypeOK, Dial
    <3>2. failed' \in BOOLEAN
      <4>1. CASE UNCHANGED failed
        BY <1>0, <4>1 DEF TypeOK
      <4>2. CASE failed' = (failed \/ k = current)
        BY <4>2
      <4> QED
        BY <1>12, <4>1, <4>2 DEF Dial
    <3> QED
      BY <1>0, <1>12, <3>1, <3>2 DEF TypeOK, Dial
  <2>2. StreamsInv'
    BY <1>0, <1>12 DEF TypeOK, StreamsInv, Live, Streams, Dial
  <2>3. CloseInv'
    BY <1>0, <1>12 DEF TypeOK, CloseInv, Live, Streams, Dial
  <2> QED
    BY <2>1, <2>2, <2>3 DEF IInv
<1>13. ASSUME NEW k \in Streams, ReceiveEvent(k) PROVE IInv'
  <2>1. TypeOK'
    BY <1>0, <1>13 DEF TypeOK, Streams, ReceiveEvent
  <2>2. StreamsInv'
    BY <1>0, <1>13 DEF TypeOK, StreamsInv, Live, Streams, ReceiveEvent
  <2>3. CloseInv'
    BY <1>0, <1>13 DEF TypeOK, CloseInv, Live, Streams, ReceiveEvent
  <2> QED
    BY <2>1, <2>2, <2>3 DEF IInv
<1>14. ASSUME NEW k \in Streams, StoreEndpoint(k) PROVE IInv'
  <2>1. TypeOK'
    BY <1>0, <1>14 DEF TypeOK, Streams, StoreEndpoint
  <2>2. StreamsInv'
    BY <1>0, <1>14 DEF TypeOK, StreamsInv, Live, Streams, StoreEndpoint
  <2>3. CloseInv'
    BY <1>0, <1>14 DEF TypeOK, CloseInv, Live, Streams, StoreEndpoint
  <2> QED
    BY <2>1, <2>2, <2>3 DEF IInv
<1>15. CASE UNCHANGED vars
  BY <1>0, <1>15 DEF vars, IInv, TypeOK, StreamsInv, CloseInv, Live
<1> QED
  BY <1>1, <1>2, <1>3, <1>4, <1>5, <1>6, <1>7, <1>8, <1>9, <1>10, <1>11, <1>12, <1>13, <1>14, <1>15 DEF Next, ConnectStep

LEMMA Invariant == Spec => []IInv
  BY InitIInv, Step, PTL DEF Spec

-----------------------------------------------------------------------------
\* The type invariant of Connect and Close (http_client.go:68, 389).
THEOREM TypeCorrect == Spec => []TypeOK
<1>1. IInv => TypeOK
  BY DEF IInv
<1> QED
  BY <1>1, Invariant, PTL

\* The client holds one stream at most, whatever way it connects, and none after Close
\* (http_client.go:139, 389).
THEOREM StreamsAreEnded == Spec => []OneStream
<1>1. IInv => OneStream
  <2> SUFFICES ASSUME IInv PROVE OneStream
    OBVIOUS
  <2> DEFINE held == {k \in Streams : Live(k)}
  <2>1. CASE closed /\ pc = "connected"
    <3>1. held = {}
      BY <2>1 DEF IInv, CloseInv
    <3> QED
      BY <2>1, <3>1, FS_EmptySet DEF OneStream
  <2>2. CASE ~(closed /\ pc = "connected")
    <3>1. held \subseteq {current}
      BY DEF IInv, StreamsInv
    <3>2. IsFiniteSet({current}) /\ Cardinality({current}) = 1
      BY FS_Singleton
    <3>3. Cardinality(held) <= Cardinality({current})
      BY <3>1, <3>2, FS_Subset
    <3> QED
      BY <2>2, <3>2, <3>3 DEF OneStream
  <2> QED
    BY <2>1, <2>2
<1> QED
  BY <1>1, Invariant, PTL

-----------------------------------------------------------------------------
\* Without the fallback there is one stream, which has signalled before initialize is
\* posted, and what it stored is not overwritten.
WindowInv ==
  wanted = "2024" =>
    /\ ~fellBack /\ pc # "assume"
    /\ pc = "start" => callback[1] = "none"
    /\ pc # "start" => current = 1 /\ protocolVersion = "2024"
    /\ pc = "initialize" => callback[1] \in {"signalled", "stored"}
    /\ callback[1] = "stored" => messageEndpoint = "announced"

LEMMA WindowStep == IInv /\ WindowInv /\ [Next]_vars => WindowInv'
<1> SUFFICES ASSUME IInv, WindowInv, [Next]_vars PROVE WindowInv'
  OBVIOUS
<1>0. callback \in [Streams -> {"none", "signalled", "stored"}] /\ 1 \in Streams
  BY DEF IInv, TypeOK, Streams
<1> USE DEF WindowInv, serverVars, connectVars, streamVars
<1>1. CASE Await \/ SetupFails
  BY <1>1 DEF Await, SetupFails
<1>2. CASE UseLegacy
  <2>1. pc = "start" /\ current = 0
    BY <1>2 DEF UseLegacy, IInv, StreamsInv
  <2>2. /\ protocolVersion' = "2024" /\ pc' = "dial" /\ current' = 1 /\ callback' = callback
        /\ wanted' = wanted /\ fellBack' = fellBack
    BY <1>2, <2>1 DEF UseLegacy, OpenStream
  <2> QED BY <2>1, <2>2
<1>3. CASE UseModern
  BY <1>3 DEF UseModern
<1>4. CASE PostInitialize \/ InitializeSucceeds \/ InitializeFails
  BY <1>4 DEF PostInitialize, InitializeSucceeds, InitializeFails
<1>5. CASE FallBack
  BY <1>5 DEF FallBack
<1>6. CASE AssumeEndpoint \/ Notify
  BY <1>6 DEF AssumeEndpoint, Notify
<1>7. CASE Close
  BY <1>7 DEF Close
<1>8. ASSUME NEW k \in Streams, Dial(k) PROVE WindowInv'
  BY <1>8 DEF Dial
<1>9. ASSUME NEW k \in Streams, ReceiveEvent(k) PROVE WindowInv'
  BY <1>0, <1>9 DEF ReceiveEvent, IInv, StreamsInv, Live
<1>10. ASSUME NEW k \in Streams, StoreEndpoint(k) PROVE WindowInv'
  BY <1>0, <1>10 DEF StoreEndpoint
<1>11. CASE UNCHANGED vars
  BY <1>11 DEF vars
<1> QED
  BY <1>1, <1>2, <1>3, <1>4, <1>5, <1>6, <1>7, <1>8, <1>9, <1>10, <1>11 DEF Next, ConnectStep

\* Whatever the server announces and when, initialize goes to the assumed endpoint of
\* the 2024 transport only between the signal and the store (http_client.go:288, 305).
THEOREM AssumedEndpointHasItsWindow == Spec => AssumedOnlyInWindow
<1>1. Init => WindowInv
  BY DEF Init, WindowInv, Streams
<1>2. IInv /\ WindowInv =>
        (PostInitialize /\ wanted = "2024" /\ messageEndpoint = "messages"
           => callback[current] = "signalled")
  BY DEF WindowInv, PostInitialize
<1> QED
  BY <1>1, <1>2, Invariant, WindowStep, PTL DEF Spec, AssumedOnlyInWindow
=============================================================================
