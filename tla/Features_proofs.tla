--------------------------- MODULE Features_proofs ---------------------------
(***************************************************************************)
(* Theorems about Features, for every set of names, page size and set of   *)
(* clients.                                                                *)
(*                                                                         *)
(* A walk is described by its cursor: what was there when the walk began   *)
(* has been seen up to the cursor, and nothing has been seen beyond it.    *)
(* Registration only adds names, so a cursor that was given is found.      *)
(***************************************************************************)
EXTENDS Features, TLAPS

\* The walk of client c, between two pages and after the last one.
WalkInv(c) ==
  /\ seen[c] \subseteq Items /\ twice[c] = {}
  /\ walk[c] = "idle" => cursor[c] = 0 /\ seen[c] = {}
  /\ walk[c] = "on" =>
       /\ cursor[c] \in Items
       /\ \A n \in seen[c] : n <= cursor[c]
       /\ present[c] \subseteq Items
       /\ \A n \in present[c] : n <= cursor[c] => n \in seen[c]
  /\ walk[c] = "over" => present[c] \subseteq seen[c]

\* The prompts/get of client c.
GetInv(c) ==
  /\ get[c] = "read" => wanted[c] \in Names /\ description[c] <= version[wanted[c]]
  /\ get[c] = "processed" => description[c] <= messages[c]

IInv == TypeOK /\ \A c \in Clients : WalkInv(c) /\ GetInv(c)

-----------------------------------------------------------------------------
\* Registering a name adds it to the items and leaves the others there.
LEMMA StoreGrows ==
  ASSUME TypeOK, NEW n \in Names, Store(n)
  PROVE  /\ Items \subseteq Items'
         /\ version' \in [Names -> 0..MaxVersion]
         /\ \A m \in Names : version[m] <= version'[m]
<1>1. version \in [Names -> 0..MaxVersion]
  BY MaxVersionAssumption DEF TypeOK
<1>2. version' \in [Names -> 0..MaxVersion]
  BY <1>1, MaxVersionAssumption DEF Store
<1>3. \A m \in Names : version[m] <= version'[m]
  BY <1>1, MaxVersionAssumption DEF Store
<1> QED
  BY <1>1, <1>2, <1>3, MaxVersionAssumption DEF Items

\* Registration preserves the invariant, whatever is registered.
LEMMA StorePreserves ==
  ASSUME IInv, NEW n \in Names, Store(n), kind = "tools" => n \notin Items
  PROVE  IInv'
<1>1. TypeOK'
  <2>1. version' \in [Names -> 0..(IF kind = "tools" THEN 1 ELSE MaxVersion)]
    BY MaxVersionAssumption DEF IInv, TypeOK, Store, Items
  <2> QED
    BY <2>1 DEF IInv, TypeOK, Store, walkVars, getVars
<1>2. ASSUME NEW c \in Clients PROVE WalkInv(c)' /\ GetInv(c)'
  <2>1. WalkInv(c) /\ GetInv(c)
    BY DEF IInv
  <2>2. /\ Items \subseteq Items' /\ \A m \in Names : version[m] <= version'[m]
        /\ version' \in [Names -> 0..MaxVersion] /\ version \in [Names -> 0..MaxVersion]
    BY StoreGrows, MaxVersionAssumption DEF IInv, TypeOK
  <2>3. WalkInv(c)'
    BY <2>1, <2>2 DEF WalkInv, Store, walkVars
  <2>4. GetInv(c)'
    <3>1. description[c] \in Nat
      BY MaxVersionAssumption DEF IInv, TypeOK
    <3> QED
      BY <2>1, <2>2, <3>1, MaxVersionAssumption DEF GetInv, Store, getVars
  <2> QED
    BY <2>3, <2>4
<1> QED
  BY <1>1, <1>2 DEF IInv

\* A page of the walk of client c. The set old is what was there when it began.
LEMMA PagePreserves ==
  ASSUME IInv, NEW c \in Clients, List(c), NEW old \in SUBSET Items,
         present' = [present EXCEPT ![c] = old],
         \/ walk[c] = "idle" /\ old = Items
         \/ walk[c] = "on" /\ old = present[c]
  PROVE  IInv'
<1> DEFINE rest == From(cursor[c])
<1>1. Items \subseteq Names /\ Names \subseteq Nat /\ 0 \notin Names
  BY NamesAssumption DEF Items
<1>2. /\ seen[c] \subseteq Items /\ twice[c] = {} /\ rest \subseteq Items
      /\ rest \cap seen[c] = {}
      /\ \A n \in old : n \in seen[c] \/ n \in rest
      /\ \A n \in seen[c], m \in rest : n <= m
  <2>1. WalkInv(c)
    BY DEF IInv
  <2>2. CASE walk[c] = "idle"
    BY <1>1, <2>1, <2>2 DEF WalkInv, From
  <2>3. CASE walk[c] = "on"
    <3>1. rest = {n \in Items : n > cursor[c]} /\ cursor[c] \in Nat
      BY <1>1, <2>1, <2>3 DEF WalkInv, From
    <3>2. seen[c] \subseteq Nat /\ rest \subseteq Nat
      BY <1>1, <2>1, <3>1 DEF WalkInv
    <3>3. \A n \in seen[c], m \in rest : n <= m /\ n # m
      BY <2>1, <2>3, <3>1, <3>2 DEF WalkInv
    <3>4. ASSUME NEW n \in old PROVE n \in seen[c] \/ n \in rest
      <4>1. old = present[c] /\ n \in Items /\ n \in Nat
        BY <1>1, <2>3
      <4>2. n <= cursor[c] => n \in seen[c]
        BY <2>1, <2>3, <4>1 DEF WalkInv
      <4> QED
        BY <3>1, <4>1, <4>2
    <3> QED
      BY <2>1, <3>1, <3>3, <3>4 DEF WalkInv
  <2> QED
    BY <2>2, <2>3
<1>3. PICK page, next :
        /\ GetPage(c, page, next)
        /\ \/ page = rest /\ next = 0
           \/ next \in rest /\ page = UpTo(rest, next)
  BY DEF List
<1>4. /\ next \in Names \cup {0} /\ page \subseteq rest
  BY <1>1, <1>2, <1>3 DEF UpTo
<1>5. TypeOK'
  <2>1. cursor' \in [Clients -> Names \cup {0}]
    BY <1>3, <1>4 DEF IInv, TypeOK, GetPage
  <2>2. walk' \in [Clients -> {"idle", "on", "over"}]
    BY <1>3 DEF IInv, TypeOK, GetPage
  <2>3. {present, seen, twice}' \subseteq [Clients -> SUBSET Names]
    <3>1. present' \in [Clients -> SUBSET Names]
      BY <1>1 DEF IInv, TypeOK
    <3>2. seen' \in [Clients -> SUBSET Names]
      BY <1>1, <1>2, <1>3, <1>4 DEF IInv, TypeOK, GetPage
    <3>3. twice' \in [Clients -> SUBSET Names]
      BY <1>1, <1>2, <1>3, <1>4 DEF IInv, TypeOK, GetPage
    <3> QED
      BY <3>1, <3>2, <3>3
  <2> QED
    BY <1>3, <2>1, <2>2, <2>3 DEF IInv, TypeOK, GetPage, registry, getVars
<1>6. Items' = Items
  BY <1>3 DEF GetPage, registry, Items
<1>7. WalkInv(c)'
  <2>1. /\ seen'[c] = seen[c] \cup page /\ twice'[c] = twice[c] \cup (page \cap seen[c])
        /\ walk'[c] = (IF next = 0 THEN "over" ELSE "on") /\ cursor'[c] = next
        /\ present'[c] = old
    BY <1>3 DEF GetPage, IInv, TypeOK
  <2>2. CASE page = rest /\ next = 0
    BY <1>2, <1>4, <1>6, <2>1, <2>2 DEF WalkInv
  <2>3. CASE next \in rest /\ page = UpTo(rest, next)
    <3>1. next \in Items /\ next # 0
      BY <1>1, <1>2, <2>3
    <3>2. \A n \in seen'[c] : n <= next
      BY <1>2, <2>1, <2>3 DEF UpTo
    <3>3. \A n \in old : n <= next => n \in seen'[c]
      BY <1>2, <2>1, <2>3 DEF UpTo
    <3> QED
      BY <1>2, <1>4, <1>6, <2>1, <3>1, <3>2, <3>3 DEF WalkInv
  <2> QED
    BY <1>3, <2>2, <2>3
<1>8. ASSUME NEW d \in Clients PROVE WalkInv(d)' /\ GetInv(d)'
  <2>1. WalkInv(d) /\ GetInv(d)
    BY DEF IInv
  <2>2. GetInv(d)'
    BY <1>3, <2>1 DEF GetInv, GetPage, registry, getVars
  <2>3. CASE d # c
    <3>1. /\ seen'[d] = seen[d] /\ twice'[d] = twice[d] /\ walk'[d] = walk[d]
          /\ cursor'[d] = cursor[d] /\ present'[d] = present[d]
      BY <1>3, <2>3 DEF GetPage, IInv, TypeOK
    <3> QED
      BY <1>6, <2>1, <2>2, <3>1 DEF WalkInv
  <2> QED
    BY <1>7, <2>2, <2>3
<1> QED
  BY <1>5, <1>8 DEF IInv

-----------------------------------------------------------------------------
\* The invariant holds of empty registries.
LEMMA InitInvariant == Init => IInv
<1> SUFFICES ASSUME Init PROVE IInv
  OBVIOUS
<1>1. TypeOK
  BY MaxVersionAssumption DEF Init, TypeOK
<1>2. \A c \in Clients : WalkInv(c) /\ GetInv(c)
  BY DEF Init, WalkInv, GetInv, Items
<1> QED
  BY <1>1, <1>2 DEF IInv

\* Every registration, page and read keeps it.
LEMMA NextInvariant == IInv /\ [Next]_vars => IInv'
<1> SUFFICES ASSUME IInv, [Next]_vars PROVE IInv'
  OBVIOUS
<1> USE DEF IInv
<1>1. ASSUME NEW n \in Names, RegisterTool(n) PROVE IInv'
  BY <1>1, StorePreserves DEF RegisterTool
<1>2. ASSUME NEW n \in Names,
             RegisterPrompt(n) \/ RegisterResource(n) \/ RegisterResourceTemplate(n)
      PROVE IInv'
  BY <1>2, StorePreserves DEF RegisterPrompt, RegisterResource, RegisterResourceTemplate
<1>3. ASSUME NEW c \in Clients, BeginWalk(c) PROVE IInv'
  BY <1>3, PagePreserves DEF BeginWalk
<1>4. ASSUME NEW c \in Clients, NextPage(c) PROVE IInv'
  <2>1. present' = [present EXCEPT ![c] = present[c]] /\ present[c] \subseteq Items
    BY <1>4 DEF NextPage, TypeOK, WalkInv
  <2> QED
    BY <1>4, <2>1, PagePreserves DEF NextPage
<1>5. ASSUME NEW c \in Clients, GetPrompt(c) PROVE IInv'
  <2>1. PICK n \in Items : /\ wanted' = [wanted EXCEPT ![c] = n]
                           /\ description' = [description EXCEPT ![c] = version[n]]
    BY <1>5 DEF GetPrompt
  <2>2. n \in Names /\ version[n] \in 0..MaxVersion /\ version[n] \in Nat
    BY <1>5, <2>1, MaxVersionAssumption DEF Items, TypeOK
  <2>3. TypeOK'
    BY <1>5, <2>1, <2>2 DEF GetPrompt, TypeOK, registry, walkVars
  <2>4. ASSUME NEW d \in Clients PROVE WalkInv(d)' /\ GetInv(d)'
    BY <1>5, <2>1, <2>2 DEF GetPrompt, TypeOK, registry, walkVars, WalkInv, GetInv, Items
  <2> QED
    BY <2>3, <2>4
<1>6. ASSUME NEW c \in Clients, ProcessPrompt(c) PROVE IInv'
  <2>1. wanted[c] \in Names /\ description[c] <= version[wanted[c]]
    BY <1>6 DEF ProcessPrompt, GetInv
  <2>2. TypeOK'
    BY <1>6, <2>1, MaxVersionAssumption DEF ProcessPrompt, TypeOK, registry, walkVars
  <2>3. ASSUME NEW d \in Clients PROVE WalkInv(d)' /\ GetInv(d)'
    BY <1>6, <2>1 DEF ProcessPrompt, TypeOK, registry, walkVars, WalkInv, GetInv, Items
  <2> QED
    BY <2>2, <2>3
<1>7. CASE UNCHANGED vars
  BY <1>7 DEF vars, registry, walkVars, getVars, TypeOK, WalkInv, GetInv, Items
<1> QED
  BY <1>1, <1>2, <1>3, <1>4, <1>5, <1>6, <1>7 DEF Next

\* The inductive invariant: every walk has seen exactly what it should up to its
\* cursor, and every prompts/get holds a version that has been registered.
THEOREM Invariant == Spec => []IInv
  BY InitInvariant, NextInvariant, PTL DEF Spec

\* The registries and their clients keep their types (TypeOK).
THEOREM TypeCorrect == Spec => []TypeOK
<1>1. IInv => TypeOK
  BY DEF IInv
<1> QED
  BY Invariant, <1>1, PTL

\* A walk that has come to its end has got everything that was there when it began,
\* for every page size and whatever is registered meanwhile.
THEOREM WalksAreComplete == Spec => []WalkComplete
<1>1. IInv => WalkComplete
  BY DEF IInv, WalkInv, WalkComplete
<1> QED
  BY Invariant, <1>1, PTL

\* No walk gets an item twice.
THEOREM WalksRepeatNothing == Spec => []NothingTwice
<1>1. IInv => NothingTwice
  BY DEF IInv, WalkInv, NothingTwice
<1> QED
  BY Invariant, <1>1, PTL

\* The messages of prompts/get are never older than its description.
THEOREM MessagesFollowDescription == Spec => []MessagesNotOlder
<1>1. IInv => MessagesNotOlder
  BY DEF IInv, GetInv, MessagesNotOlder
<1> QED
  BY Invariant, <1>1, PTL

-----------------------------------------------------------------------------
\* The first to accept is the one that accepts and has none before it.
LEMMA FirstIsFirst ==
  ASSUME NEW m, NEW i \in 1..5, Handles(Order[i], m), \A j \in 1..(i - 1) : ~Handles(Order[j], m)
  PROVE  FirstToAccept(m) = Order[i]
<1> DEFINE First(k) == /\ Handles(Order[k], m)
                       /\ \A j \in 1..(k - 1) : ~Handles(Order[j], m)
<1>1. DOMAIN Order = 1..5
  BY DEF Order
<1>2. First(i)
  OBVIOUS
<1>3. \A k \in 1..5 : First(k) => k = i
  <2> SUFFICES ASSUME NEW k \in 1..5, First(k), k # i PROVE FALSE
    OBVIOUS
  <2>1. CASE k < i
    BY <2>1
  <2>2. CASE k > i
    BY <1>2, <2>2
  <2> QED
    BY <2>1, <2>2
<1> HIDE DEF First
<1>4. (CHOOSE k \in 1..5 : First(k)) = i
  BY <1>2, <1>3
<1> QED
  BY <1>1, <1>4 DEF FirstToAccept, First

\* The shapes of the methods the executors of the repository know.
LEMMA KnownMethods ==
  /\ \A m \in ToolMethods : Len(m) \in {2, 3} /\ m[1] = "tools"
  /\ \A m \in PromptMethods : Len(m) \in {2, 3} /\ m[1] = "prompts"
  /\ \A m \in ResourceMethods : Len(m) \in {2, 3} /\ m[1] = "resources"
  /\ \A m \in UtilityMethods : Len(m) = 1
  BY DEF ToolMethods, PromptMethods, ResourceMethods, UtilityMethods

\* Whatever an experimental handler accepts, the executor that is given a method is
\* the first of those that accept it, in the order of CanHandleMethod.
THEOREM ExecutorsAgree == Spec => []HandledByAcceptor
<1>1. HandledByAcceptor
  <2> SUFFICES ASSUME NEW m \in Methods, CanHandleMethod(m)
               PROVE  HandleMethod(m) = FirstToAccept(m)
    BY DEF HandledByAcceptor
  <2>1. /\ Order[1] = "tools" /\ Order[2] = "prompts" /\ Order[3] = "resources"
        /\ Order[4] = "utilities" /\ Order[5] = "experimental" /\ DOMAIN Order = 1..5
    BY DEF Order
  <2>2. /\ Handles(Order[1], m) <=> m \in ToolMethods
        /\ Handles(Order[2], m) <=> m \in PromptMethods
        /\ Handles(Order[3], m) <=> m \in ResourceMethods
        /\ Handles(Order[4], m) <=> m \in UtilityMethods
        /\ Handles(Order[5], m) <=> m \in experimental
    BY <2>1 DEF Handles
  <2>3. CASE m \in ToolMethods
    <3>1. HandleMethod(m) = "tools"
      BY <2>3, KnownMethods DEF HandleMethod, Handles
    <3>2. FirstToAccept(m) = Order[1]
      BY <2>2, <2>3, FirstIsFirst
    <3> QED
      BY <2>1, <3>1, <3>2
  <2>4. CASE m \in PromptMethods
    <3>1. m \notin ToolMethods
      BY <2>4, KnownMethods
    <3>2. HandleMethod(m) = "prompts"
      BY <2>4, KnownMethods DEF HandleMethod, Handles
    <3>3. FirstToAccept(m) = Order[2]
      BY <2>2, <2>4, <3>1, FirstIsFirst
    <3> QED
      BY <2>1, <3>2, <3>3
  <2>5. CASE m \in ResourceMethods
    <3>1. m \notin ToolMethods /\ m \notin PromptMethods
      BY <2>5, KnownMethods
    <3>2. HandleMethod(m) = "resources"
      BY <2>5, KnownMethods DEF HandleMethod, Handles
    <3>3. \A j \in 1..2 : ~Handles(Order[j], m)
      BY <2>2, <3>1
    <3>4. FirstToAccept(m) = Order[3]
      BY <2>2, <2>5, <3>3, FirstIsFirst
    <3> QED
      BY <2>1, <3>2, <3>4
  <2>6. CASE m \in UtilityMethods
    <3>1. m \notin ToolMethods /\ m \notin PromptMethods /\ m \notin ResourceMethods
      BY <2>6, KnownMethods
    <3>2. HandleMethod(m) = "utilities"
      BY <2>6, KnownMethods DEF HandleMethod, Handles
    <3>3. \A j \in 1..3 : ~Handles(Order[j], m)
      BY <2>2, <3>1
    <3>4. FirstToAccept(m) = Order[4]
      BY <2>2, <2>6, <3>3, FirstIsFirst
    <3> QED
      BY <2>1, <3>2, <3>4
  <2>7. CASE m \notin ToolMethods \cup PromptMethods \cup ResourceMethods \cup UtilityMethods
    <3>1. \A j \in 1..4 : ~Handles(Order[j], m)
      BY <2>2, <2>7
    <3>2. m \in experimental
      BY <2>1, <2>2, <3>1 DEF CanHandleMethod
    <3>3. HandleMethod(m) = "experimental"
      BY <2>7, <3>2 DEF HandleMethod, Handles
    <3>4. FirstToAccept(m) = Order[5]
      BY <2>2, <3>1, <3>2, FirstIsFirst
    <3> QED
      BY <2>1, <3>3, <3>4
  <2> QED
    BY <2>3, <2>4, <2>5, <2>6, <2>7
<1> QED
  BY <1>1, PTL
=============================================================================
