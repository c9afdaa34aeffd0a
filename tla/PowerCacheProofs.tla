--------------------------- MODULE PowerCacheProofs ---------------------------
(***************************************************************************)
(* Proofs about DBusPower's cache (module PowerCache), for every set of    *)
(* properties, every supply of calls and all bounds:                       *)
(*   TypeCorrect       the type invariant                                  *)
(*   ForwardOnly       NeverGoesBack, the refinement of ForwardView        *)
(*   IdleCacheIsExact  the invariant ExactWhenIdle                         *)
(***************************************************************************)
EXTENDS PowerCache, SequenceTheorems, TLAPS

Pos == 1 .. Len(inbox)

Changed(i, p)  == inbox[i].type = "changed" /\ inbox[i].prop = p
Invalid(i, p)  == inbox[i].type = "invalidated" /\ inbox[i].prop = p
Replied(i, c)  == inbox[i].type = "reply" /\ inbox[i].call = c
Errored(i, c)  == inbox[i].type = "error" /\ inbox[i].call = c
Answers(i, c)  == Replied(i, c) \/ Errored(i, c)
OwnerNews(i)   == inbox[i].type = "owner"

\* Nothing the client has or will receive is ahead of the service.
NotAhead ==
  /\ \A p \in Props : cache[p] <= value[p]
  /\ \A c \in Calls : \A p \in Props : snap[c][p] <= value[p]
  /\ \A i \in Pos : \A p \in Props :
       /\ Changed(i, p) => cache[p] <= inbox[i].val /\ inbox[i].val <= value[p]
       /\ inbox[i].type = "reply" => inbox[i].snapshot[p] <= value[p]

\* News of one property is queued oldest first.
InOrder ==
  \A i, j \in Pos : \A p \in Props :
    i < j /\ Changed(j, p) =>
      /\ Changed(i, p) => inbox[i].val <= inbox[j].val
      /\ inbox[i].type = "reply" => inbox[i].snapshot[p] <= inbox[j].val

\* The awaited snapshot is as new as the cache, live properties excepted.
SnapshotIsNewer ==
  \A p \in Props \ live :
    /\ pending \in Calls /\ stage[pending] = "read" => cache[p] <= snap[pending][p]
    /\ \A i \in Pos : Replied(i, pending) => cache[p] <= inbox[i].snapshot[p]

ForwardInv == TypeOK /\ NotAhead /\ InOrder /\ SnapshotIsNewer

\* The awaited call is answered once, when it is over on the service's side.
OneAnswer ==
  \A i \in Pos : pending \in Calls /\ Answers(i, pending) =>
    /\ stage[pending] = "free"
    /\ \A j \in Pos : Answers(j, pending) => i = j

RefreshNeedsCall == refreshPending => pending # NoCall

\* The last word on the owner is right.
OwnerIsKnown ==
  \/ currentOwner = owner
  \/ \E i \in Pos : OwnerNews(i)
LastOwnerNews ==
  \A i \in Pos : OwnerNews(i) => 
    \/ inbox[i].owner = owner
    \/ \E j \in Pos : i < j /\ OwnerNews(j)

\* Something after position i makes the client look at p again.
NewsAfter(i, p) ==
  \E j \in Pos : /\ i < j
                 /\ \/ OwnerNews(j)
                    \/ Invalid(j, p)
                    \/ Changed(j, p) /\ inbox[j].val = value[p]

\* A signal that is out of date is followed by newer news.
OldNewsFollowed ==
  owner # 0 =>
    \A i \in Pos : \A p \in Props :
      Changed(i, p) => inbox[i].val = value[p] \/ NewsAfter(i, p)

\* A snapshot that will bring the current value of p is on its way.
SnapshotComing(p) ==
  /\ pending \in Calls /\ p \notin live
  /\ \/ stage[pending] = "sent"
     \/ stage[pending] = "read" /\ snap[pending][p] = value[p]
     \/ \E i \in Pos : Replied(i, pending) /\ inbox[i].snapshot[p] = value[p]

\* The cache is exact for p, or something is on its way that will see to it.
WillBeExact(p) ==
  \/ cache[p] = value[p]
  \/ NewsAfter(0, p)
  \/ timer # "off"
  \/ refreshPending
  \/ SnapshotComing(p)
  \/ pending \in Calls /\ \E i \in Pos : Errored(i, pending)

ExactInv ==
  /\ OneAnswer /\ RefreshNeedsCall
  /\ OwnerIsKnown /\ LastOwnerNews /\ OldNewsFollowed
  /\ owner # 0 => \A p \in Props : WillBeExact(p)
------------------------------------------------------------------------------
(* The queue of the bus *)

\* What the fields of a queued message are.
LEMMA MessageFields ==
  ASSUME NEW m \in Message
  PROVE  /\ m.type \in {"changed", "invalidated", "reply", "error", "owner"}
         /\ m.type = "changed" => m.prop \in Props /\ m.val \in Nat
         /\ m.type = "invalidated" => m.prop \in Props
         /\ m.type = "reply" => m.call \in Calls /\ m.snapshot \in [Props -> Nat]
         /\ m.type = "error" => m.call \in Calls
         /\ m.type = "owner" => m.owner \in Nat
BY DEF Message

\* The messages the bus sends are messages.
LEMMA MessageKinds ==
  /\ \A p \in Props, v \in Nat : [type |-> "changed", prop |-> p, val |-> v] \in Message
  /\ \A p \in Props : [type |-> "invalidated", prop |-> p] \in Message
  /\ \A c \in Calls, s \in [Props -> Nat] :
       [type |-> "reply", call |-> c, snapshot |-> s] \in Message
  /\ \A c \in Calls : [type |-> "error", call |-> c] \in Message
  /\ \A o \in Nat : [type |-> "owner", owner |-> o] \in Message
BY DEF Message

\* Sending adds one message behind the others.
LEMMA SendAppends ==
  ASSUME inbox \in Seq(Message), NEW m \in Message, Send(m)
  PROVE  /\ inbox' \in Seq(Message)
         /\ Len(inbox) \in Nat /\ Len(inbox') = Len(inbox) + 1
         /\ \A i \in Pos : inbox'[i] = inbox[i]
         /\ inbox'[Len(inbox) + 1] = m
         /\ Pos' = Pos \cup {Len(inbox) + 1}
BY DEF Send, Pos

\* Receiving takes the first message and moves the others up.
LEMMA ReceiveTakesFirst ==
  ASSUME inbox \in Seq(Message), NEW type, Receive(type)
  PROVE  /\ inbox' \in Seq(Message)
         /\ Len(inbox) \in Nat /\ Len(inbox') = Len(inbox) - 1
         /\ 1 \in Pos /\ Head(inbox) = inbox[1]
         /\ inbox[1] \in Message /\ inbox[1].type = type
         /\ \A i \in Pos' : i \in Nat /\ 0 < i /\ i + 1 \in Pos /\ inbox'[i] = inbox[i + 1]
         /\ \A i \in Pos : i # 1 => i - 1 \in Pos' /\ inbox[i] = inbox'[i - 1]
<1>1. inbox # << >> /\ Head(inbox).type = type /\ inbox' = Tail(inbox)
  BY DEF Receive
<1>2. /\ Head(inbox) \in Message
      /\ inbox' \in Seq(Message)
      /\ Len(inbox') = Len(inbox) - 1
      /\ \A i \in 1 .. Len(inbox') : inbox'[i] = inbox[i + 1]
  BY <1>1, HeadTailProperties
<1>3. Len(inbox) \in Nat /\ Len(inbox) # 0 /\ Head(inbox) = inbox[1]
  BY <1>1, EmptySeq
<1>4. QED
  BY <1>1, <1>2, <1>3 DEF Pos

------------------------------------------------------------------------------
(* Type correctness *)

LEMMA InitType == Init => TypeOK
<1> SUFFICES ASSUME Init PROVE TypeOK
  OBVIOUS
<1>1. Blank \in [Props -> Nat]
  BY DEF Blank
<1>2. inbox \in Seq(Message)
  BY EmptySeq DEF Init
<1>3. owner \in Nat
  BY DEF Init
<1>4. value \in [Props -> Nat] /\ snap \in [Calls -> [Props -> Nat]]
  BY <1>1, <1>3 DEF Init
<1>5. pending \in Calls \cup {NoCall} /\ stage \in [Calls -> {"free", "sent", "read"}]
  BY DEF Init
<1>6. QED
  BY <1>1, <1>2, <1>3, <1>4, <1>5 DEF Init, TypeOK

\* A fresh or shortened queue is all that the calls below can do to the types.
LEMMA GetAllType ==
  ASSUME TypeOK, NEW L \in SUBSET Props, NEW t \in {"off", "now", "retry"},
         GetAllProperties(L, t)
  PROVE  /\ pending' \in Calls \cup {NoCall} /\ live' \subseteq Props
         /\ refreshPending' \in BOOLEAN /\ timer' \in {"off", "now", "retry"}
         /\ stage' \in [Calls -> {"free", "sent", "read"}]
         /\ reader' \in [Calls -> Nat] /\ snap' \in [Calls -> [Props -> Nat]]
BY DEF TypeOK, GetAllProperties, Dispatch, FreeCalls, flight

LEMMA NextType == TypeOK /\ [Next]_vars => TypeOK'
<1> SUFFICES ASSUME TypeOK, [Next]_vars PROVE TypeOK'
  OBVIOUS
<1> USE DEF service, flight, client
<1>1. ASSUME NEW p \in Props, ServiceUpdates(p) PROVE TypeOK'
  <2>1. value[p] + 1 \in Nat
    BY DEF TypeOK
  <2>2. /\ [type |-> "changed", prop |-> p, val |-> value[p] + 1] \in Message
        /\ [type |-> "invalidated", prop |-> p] \in Message
    BY <2>1, MessageKinds
  <2>3. inbox' \in Seq(Message)
    BY <1>1, <2>2, SendAppends DEF ServiceUpdates, TypeOK
  <2>4. QED
    BY <1>1, <2>3 DEF ServiceUpdates, TypeOK
<1>2. ASSUME NEW c \in Calls, ServiceReads(c) PROVE TypeOK'
  BY <1>2 DEF ServiceReads, TypeOK
<1>3. ASSUME NEW c \in Calls, ServiceReplies(c) PROVE TypeOK'
  <2>1. inbox' \in Seq(Message)
    BY <1>3, SendAppends, MessageKinds DEF ServiceReplies, TypeOK
  <2>2. QED
    BY <1>3, <2>1 DEF ServiceReplies, Release, Blank, TypeOK
<1>4. ASSUME NEW c \in Calls, CallFails(c) PROVE TypeOK'
  <2>1. inbox' \in Seq(Message)
    BY <1>4, SendAppends, MessageKinds DEF CallFails, TypeOK
  <2>2. failures' \in Nat
    BY <1>4 DEF CallFails, TypeOK
  <2>3. QED
    BY <1>4, <2>1, <2>2 DEF CallFails, Release, Blank, TypeOK
<1>5. CASE OwnerLeaves
  <2>1. inbox' \in Seq(Message)
    BY <1>5, SendAppends, MessageKinds DEF OwnerLeaves, TypeOK
  <2>2. QED
    BY <1>5, <2>1 DEF OwnerLeaves, TypeOK
<1>6. CASE OwnerArrives
  <2>1. lastIncarnation' \in Nat
    BY <1>6 DEF OwnerArrives, TypeOK
  <2>2. inbox' \in Seq(Message)
    BY <1>6, <2>1, SendAppends, MessageKinds DEF OwnerArrives, TypeOK
  <2>3. QED
    BY <1>6, <2>1, <2>2 DEF OwnerArrives, TypeOK
<1>7. CASE PropertyChanged
  <2>1. /\ inbox' \in Seq(Message)
        /\ Head(inbox).prop \in Props /\ Head(inbox).val \in Nat
    BY <1>7, ReceiveTakesFirst, MessageFields DEF PropertyChanged, TypeOK
  <2>2. live' \subseteq Props /\ cache' \in [Props -> Nat]
    BY <1>7, <2>1 DEF PropertyChanged, MarkLive, UpdateProperties, TypeOK
  <2>3. QED
    BY <1>7, <2>1, <2>2 DEF PropertyChanged, TypeOK
<1>8. CASE PropertyInvalidated
  <2>1. inbox' \in Seq(Message) /\ Head(inbox).prop \in Props
    BY <1>8, ReceiveTakesFirst, MessageFields DEF PropertyInvalidated, TypeOK
  <2>2. MarkLive(Head(inbox).prop) \in SUBSET Props /\ timer \in {"off", "now", "retry"}
    BY <2>1 DEF MarkLive, TypeOK
  <2>3. QED
    BY <1>8, <2>1, <2>2, GetAllType DEF PropertyInvalidated, TypeOK
<1>9. CASE SnapshotArrives
  <2>1. inbox' \in Seq(Message) /\ Head(inbox).snapshot \in [Props -> Nat]
    BY <1>9, ReceiveTakesFirst, MessageFields DEF SnapshotArrives, TypeOK
  <2>2. cache' \in [Props -> Nat]
    BY <1>9, <2>1 DEF SnapshotArrives, UpdateProperties, TypeOK
  <2>3. QED
    BY <1>9, <2>1, <2>2 DEF SnapshotArrives, TimerAfterSnapshot, TypeOK
<1>10. CASE SnapshotFails
  <2>1. inbox' \in Seq(Message)
    BY <1>10, ReceiveTakesFirst DEF SnapshotFails, TypeOK
  <2>2. QED
    BY <1>10, <2>1 DEF SnapshotFails, TimerAfterFailure, TypeOK
<1>11. CASE AnswerDropped
  <2>1. inbox' \in Seq(Message)
    BY <1>11, ReceiveTakesFirst DEF AnswerDropped, TypeOK
  <2>2. QED
    BY <1>11, <2>1 DEF AnswerDropped, TypeOK
<1>12. CASE ServiceOwnerChanged
  <2>1. inbox' \in Seq(Message) /\ Head(inbox).owner \in Nat
    BY <1>12, ReceiveTakesFirst, MessageFields DEF ServiceOwnerChanged, TypeOK
  <2>2. QED
    BY <1>12, <2>1 DEF ServiceOwnerChanged, TypeOK
<1>13. CASE RefreshTimeout
  <2>1. live \in SUBSET Props
    BY DEF TypeOK
  <2>2. QED
    BY <1>13, <2>1, GetAllType DEF RefreshTimeout, TypeOK
<1>14. CASE UNCHANGED vars
  BY <1>14 DEF vars, TypeOK
<1>15. QED
  BY <1>1, <1>2, <1>3, <1>4, <1>5, <1>6, <1>7, <1>8, <1>9, <1>10, <1>11,
     <1>12, <1>13, <1>14 DEF Next, ClientNext

\* Every reachable state is well typed: in particular a partial update never
\* leaves the cache without one of its properties.
THEOREM TypeCorrect == Spec => []TypeOK
BY InitType, NextType, PTL DEF Spec

------------------------------------------------------------------------------
(* The cache only moves forward *)

\* A message sent last keeps the order of the queue when news carries the
\* service's current value and a snapshot is not ahead of the service.
LEMMA SendKeepsOrder ==
  ASSUME TypeOK, TypeOK', NotAhead, InOrder,
         NEW m \in Message, Send(m),
         \A p \in Props : value[p] <= value'[p],
         cache' = cache,
         \A c \in Calls : \A p \in Props : snap'[c][p] <= value'[p],
         m.type = "changed" => m.val = value'[m.prop],
         m.type = "reply" => \A p \in Props : m.snapshot[p] <= value'[p]
  PROVE  NotAhead' /\ InOrder'
<1> DEFINE n == Len(inbox) + 1
<1>0. /\ Len(inbox) \in Nat /\ Pos = 1..Len(inbox)
      /\ \A i \in Pos : inbox'[i] = inbox[i]
      /\ inbox'[n] = m
      /\ Pos' = Pos \cup {n}
  BY SendAppends DEF TypeOK, Pos
<1>1. /\ n \in Nat
      /\ \A i \in Pos : inbox'[i] = inbox[i]
      /\ inbox'[n] = m
      /\ Pos' = Pos \cup {n}
      /\ \A i \in Pos : i \in Nat /\ i < n
  BY <1>0
<1>2. /\ \A p \in Props : cache[p] \in Nat /\ value[p] \in Nat /\ value'[p] \in Nat
      /\ \A i \in Pos : inbox[i] \in Message
  BY ElementOfSeq DEF TypeOK, Pos
<1> HIDE DEF n
<1>3. \A p \in Props : cache'[p] <= value'[p]
  BY <1>2 DEF NotAhead
<1>4. ASSUME NEW i \in Pos', NEW p \in Props
      PROVE  /\ Changed(i, p)' => cache'[p] <= inbox'[i].val /\ inbox'[i].val <= value'[p]
             /\ inbox'[i].type = "reply" => inbox'[i].snapshot[p] <= value'[p]
  <2>1. CASE i \in Pos
    <3>1. inbox'[i] = inbox[i] /\ inbox[i] \in Message
      BY <2>1, <1>1, <1>2
    <3>2. Changed(i, p) => cache[p] <= inbox[i].val /\ inbox[i].val <= value[p]
                           /\ inbox[i].val \in Nat
      BY <2>1, <3>1, MessageFields DEF NotAhead, Changed
    <3>3. inbox[i].type = "reply" => inbox[i].snapshot[p] <= value[p]
                                     /\ inbox[i].snapshot[p] \in Nat
      BY <2>1, <3>1, MessageFields DEF NotAhead
    <3>4. QED
      BY <3>1, <3>2, <3>3, <1>2 DEF Changed
  <2>2. CASE i = n
    <3>1. inbox'[i] = m
      BY <2>2, <1>1
    <3>2. Changed(i, p)' => m.type = "changed" /\ m.prop = p /\ inbox'[i].val = value'[p]
      BY <3>1 DEF Changed
    <3>3. QED
      BY <3>1, <3>2, <1>2, <1>3
  <2>3. QED
    BY <2>1, <2>2, <1>1
<1>5. ASSUME NEW i \in Pos', NEW j \in Pos', NEW p \in Props, i < j, Changed(j, p)'
      PROVE  /\ Changed(i, p)' => inbox'[i].val <= inbox'[j].val
             /\ inbox'[i].type = "reply" => inbox'[i].snapshot[p] <= inbox'[j].val
  <2>1. i \in Pos
    BY <1>5, <1>1
  <2>2. CASE j \in Pos
    BY <2>1, <2>2, <1>5, <1>1 DEF InOrder, Changed
  <2>3. CASE j = n
    BY <2>3, <1>1, <1>4, <1>5 DEF Changed
  <2>4. QED
    BY <2>2, <2>3, <1>1
<1>6. QED
  BY <1>3, <1>4, <1>5 DEF NotAhead, InOrder

\* Taking the first message leaves the others in order.
LEMMA ReceiveKeepsOrder ==
  ASSUME TypeOK, InOrder, NEW type, Receive(type)
  PROVE  InOrder'
<1>1. \A i \in Pos' : i \in Nat /\ 0 < i /\ i + 1 \in Pos /\ inbox'[i] = inbox[i + 1]
  BY ReceiveTakesFirst DEF TypeOK
<1>2. ASSUME NEW i \in Pos', NEW j \in Pos', NEW p \in Props, i < j, Changed(j, p)'
      PROVE  /\ Changed(i, p)' => inbox'[i].val <= inbox'[j].val
             /\ inbox'[i].type = "reply" => inbox'[i].snapshot[p] <= inbox'[j].val
  <2>1. i + 1 \in Pos /\ j + 1 \in Pos /\ i + 1 < j + 1
    BY <1>1, <1>2
  <2>2. inbox'[i] = inbox[i + 1] /\ inbox'[j] = inbox[j + 1]
    BY <1>1
  <2>3. Changed(j + 1, p)
    BY <1>2, <2>2 DEF Changed
  <2>4. /\ Changed(i + 1, p) => inbox[i + 1].val <= inbox[j + 1].val
        /\ inbox[i + 1].type = "reply" => inbox[i + 1].snapshot[p] <= inbox[j + 1].val
    BY <2>1, <2>3 DEF InOrder
  <2>5. QED
    BY <2>2, <2>4 DEF Changed
<1>3. QED
  BY <1>2 DEF InOrder

\* Taking the first message without touching the cache keeps the bounds.
LEMMA ReceiveKeepsBounds ==
  ASSUME TypeOK, NotAhead, NEW type, Receive(type),
         UNCHANGED <<value, cache, snap>>
  PROVE  NotAhead'
<1>1. \A i \in Pos' : i + 1 \in Pos /\ inbox'[i] = inbox[i + 1]
  BY ReceiveTakesFirst DEF TypeOK
<1>2. QED
  BY <1>1 DEF NotAhead, Changed

\* Taking the first message keeps the awaited snapshot new enough when neither
\* the call nor the cache changes and no property stops being live.
LEMMA ReceiveKeepsSnapshot ==
  ASSUME TypeOK, SnapshotIsNewer, NEW type, Receive(type),
         UNCHANGED <<stage, snap>>,
         pending' = pending,
         live \subseteq live',
         \A p \in Props \ live' : cache'[p] = cache[p]
  PROVE  SnapshotIsNewer'
<1>1. \A i \in Pos' : i + 1 \in Pos /\ inbox'[i] = inbox[i + 1]
  BY ReceiveTakesFirst DEF TypeOK
<1>2. QED
  BY <1>1 DEF SnapshotIsNewer, Replied

\* Without a call nothing is awaited.
LEMMA NoCallNoSnapshot ==
  ASSUME TypeOK', pending' = NoCall
  PROVE  SnapshotIsNewer'
<1>1. \A i \in Pos' : ~Replied(i, pending)'
  <2> SUFFICES ASSUME NEW i \in Pos', Replied(i, pending)' PROVE FALSE
    OBVIOUS
  <2>1. inbox'[i] \in Message
    BY ElementOfSeq DEF TypeOK, Pos
  <2>2. QED
    BY <2>1, MessageFields, NoCallAssumption DEF Replied
<1>2. QED
  BY <1>1, NoCallAssumption DEF SnapshotIsNewer

LEMMA InitForward == Init => ForwardInv
<1> SUFFICES ASSUME Init PROVE ForwardInv
  OBVIOUS
<1>1. TypeOK
  BY InitType
<1>2. Pos = {}
  BY DEF Init, Pos
<1>3. NotAhead /\ InOrder
  BY <1>1, <1>2 DEF Init, NotAhead, InOrder, Blank, TypeOK
<1>4. SnapshotIsNewer
  BY <1>2 DEF Init, SnapshotIsNewer
<1>5. QED
  BY <1>1, <1>3, <1>4 DEF ForwardInv

\* getAllProperties() asks with a call that nothing in the queue answers.
LEMMA GetAllKeepsSnapshot ==
  ASSUME TypeOK, TypeOK', SnapshotIsNewer, NEW L \in SUBSET Props, NEW t,
         live \subseteq L, GetAllProperties(L, t), cache' = cache,
         \A i \in Pos' : \E j \in Pos : inbox'[i] = inbox[j]
  PROVE  SnapshotIsNewer'
<1>1. CASE pending' = NoCall
  BY <1>1, NoCallNoSnapshot
<1>2. CASE pending # NoCall
  <2>1. pending' = pending /\ live' = L /\ UNCHANGED flight
    BY <1>2 DEF GetAllProperties
  <2>2. QED
    BY <2>1 DEF SnapshotIsNewer, Replied, flight
<1>3. CASE pending = NoCall /\ pending' # NoCall
  <2>1. /\ pending' \in FreeCalls /\ pending' \in Calls
        /\ stage' = [stage EXCEPT ![pending'] = "sent"]
    BY <1>3 DEF GetAllProperties, Dispatch, FreeCalls
  <2>2. stage'[pending'] = "sent"
    BY <2>1 DEF TypeOK
  <2>3. ASSUME NEW i \in Pos', Replied(i, pending)' PROVE FALSE
    <3>1. PICK j \in Pos : inbox'[i] = inbox[j]
      OBVIOUS
    <3>2. j \in DOMAIN inbox
      BY <3>1, LenProperties DEF Pos, TypeOK
    <3>3. QED
      BY <2>1, <2>3, <3>1, <3>2 DEF FreeCalls, Replied
  <2>4. QED
    BY <2>2, <2>3 DEF SnapshotIsNewer
<1>4. QED
  BY <1>1, <1>2, <1>3

LEMMA ForwardStep == ForwardInv /\ [Next]_vars => ForwardInv'
<1> SUFFICES ASSUME ForwardInv, [Next]_vars PROVE ForwardInv'
  OBVIOUS
<1>0. TypeOK /\ TypeOK' /\ NotAhead /\ InOrder /\ SnapshotIsNewer
  BY NextType DEF ForwardInv
<1>t. /\ \A p \in Props : cache[p] \in Nat /\ value[p] \in Nat
      /\ \A c \in Calls : \A p \in Props : snap[c][p] \in Nat
  BY <1>0 DEF TypeOK
<1> USE DEF service, flight, client
<1>1. ASSUME NEW p \in Props, ServiceUpdates(p) PROVE ForwardInv'
  <2>1. PICK m \in Message :
          /\ Send(m)
          /\ m.type = "changed" => m.val = value'[m.prop]
          /\ m.type # "reply"
    <3>1. value[p] + 1 \in Nat /\ value'[p] = value[p] + 1
      BY <1>1, <1>0 DEF ServiceUpdates, TypeOK
    <3>2. QED
      BY <1>1, <3>1, MessageKinds DEF ServiceUpdates
  <2>2. \A q \in Props : value[q] <= value'[q]
    BY <1>1, <1>0 DEF ServiceUpdates, TypeOK
  <2>3. \A c \in Calls : \A q \in Props : snap'[c][q] <= value'[q]
    BY <1>1, <1>0, <1>t, <2>2 DEF ServiceUpdates, NotAhead, TypeOK
  <2>4. NotAhead' /\ InOrder'
    BY <1>1, <1>0, <2>1, <2>2, <2>3, SendKeepsOrder DEF ServiceUpdates
  <2>5. SnapshotIsNewer'
    <3>1. /\ \A i \in Pos : inbox'[i] = inbox[i]
          /\ inbox'[Len(inbox) + 1] = m
          /\ Pos' = Pos \cup {Len(inbox) + 1}
      BY <1>0, <2>1, SendAppends DEF TypeOK
    <3>2. UNCHANGED <<cache, pending, live, stage, snap>>
      BY <1>1 DEF ServiceUpdates
    <3>3. \A i \in Pos' : Replied(i, pending)' => i \in Pos /\ Replied(i, pending)
      BY <2>1, <3>1, <3>2 DEF Replied
    <3>4. QED
      BY <3>1, <3>2, <3>3, <1>0 DEF SnapshotIsNewer
  <2>6. QED
    BY <1>0, <2>4, <2>5 DEF ForwardInv
<1>2. ASSUME NEW c \in Calls, ServiceReads(c) PROVE ForwardInv'
  <2>1. snap' = [snap EXCEPT ![c] = value] /\ UNCHANGED <<value, cache, inbox, pending, live>>
    BY <1>2 DEF ServiceReads
  <2>2. NotAhead'
    <3>1. \A d \in Calls : \A p \in Props : snap'[d][p] <= value[p]
      <4>1. snap \in [Calls -> [Props -> Nat]]
        BY <1>0 DEF TypeOK
      <4>2. \A d \in Calls : snap'[d] = IF d = c THEN value ELSE snap[d]
        BY <2>1, <4>1
      <4>3. \A d \in Calls : \A p \in Props : snap[d][p] <= value[p]
        BY <1>0 DEF NotAhead
      <4>4. QED
        BY <1>t, <4>2, <4>3
    <3>2. \A i \in Pos' : \A p \in Props :
            /\ Changed(i, p)' => cache[p] <= inbox[i].val /\ inbox[i].val <= value[p]
            /\ inbox[i].type = "reply" => inbox[i].snapshot[p] <= value[p]
      BY <2>1, <1>0 DEF NotAhead, Changed, Pos
    <3>3. QED
      BY <2>1, <1>0, <3>1, <3>2 DEF NotAhead, Pos
  <2>3. InOrder'
    BY <2>1, <1>0 DEF InOrder, Changed, Pos
  <2>4. SnapshotIsNewer'
    BY <2>1, <1>2, <1>0 DEF ServiceReads, SnapshotIsNewer, NotAhead, Replied, Pos, TypeOK
  <2>5. QED
    BY <1>0, <2>2, <2>3, <2>4 DEF ForwardInv
<1>3. ASSUME NEW c \in Calls, ServiceReplies(c) PROVE ForwardInv'
  <2> DEFINE m == [type |-> "reply", call |-> c, snapshot |-> snap[c]]
  <2>1. m \in Message /\ Send(m)
    BY <1>3, <1>0, MessageKinds DEF ServiceReplies, TypeOK
  <2>2. UNCHANGED <<value, cache, pending, live>>
    BY <1>3 DEF ServiceReplies
  <2>3. /\ \A p \in Props : m.snapshot[p] <= value'[p]
        /\ \A d \in Calls : \A p \in Props : snap'[d][p] <= value'[p]
    BY <1>3, <1>0, <1>t, <2>2 DEF ServiceReplies, Release, Blank, NotAhead, TypeOK
  <2>4. \A p \in Props : value[p] <= value'[p]
    BY <2>2, <1>t
  <2>5. NotAhead' /\ InOrder'
    BY <2>1, <2>2, <2>3, <2>4, <1>0, SendKeepsOrder
  <2>6. SnapshotIsNewer'
    <3>1. /\ \A i \in Pos : inbox'[i] = inbox[i]
          /\ inbox'[Len(inbox) + 1] = m
          /\ Pos' = Pos \cup {Len(inbox) + 1}
      BY <1>0, <2>1, SendAppends DEF TypeOK
    <3>2. ASSUME NEW p \in Props \ live, pending \in Calls, stage'[pending] = "read"
          PROVE  cache'[p] <= snap'[pending][p]
      BY <1>3, <1>0, <2>2, <3>2 DEF ServiceReplies, Release, SnapshotIsNewer, TypeOK
    <3>3. ASSUME NEW p \in Props \ live, NEW i \in Pos', Replied(i, pending)'
          PROVE  cache'[p] <= inbox'[i].snapshot[p]
      <4>1. CASE i \in Pos
        BY <4>1, <3>1, <3>3, <2>2, <1>0 DEF SnapshotIsNewer, Replied
      <4>2. CASE i = Len(inbox) + 1
        <5>1. pending = c /\ inbox'[i].snapshot = snap[c] /\ stage[c] = "read"
          BY <4>2, <3>1, <3>3, <2>2, <1>3 DEF Replied, ServiceReplies
        <5>2. QED
          BY <5>1, <2>2, <1>0 DEF SnapshotIsNewer
      <4>3. QED
        BY <4>1, <4>2, <3>1
    <3>4. QED
      BY <3>2, <3>3, <2>2 DEF SnapshotIsNewer
  <2>7. QED
    BY <1>0, <2>5, <2>6 DEF ForwardInv
<1>4. ASSUME NEW c \in Calls, CallFails(c) PROVE ForwardInv'
  <2> DEFINE m == [type |-> "error", call |-> c]
  <2>1. m \in Message /\ Send(m)
    BY <1>4, MessageKinds DEF CallFails
  <2>2. UNCHANGED <<value, cache, pending, live>>
    BY <1>4 DEF CallFails
  <2>3. \A d \in Calls : \A p \in Props : snap'[d][p] <= value'[p]
    BY <1>4, <1>0, <1>t, <2>2 DEF CallFails, Release, Blank, NotAhead, TypeOK
  <2>4. \A p \in Props : value[p] <= value'[p]
    BY <2>2, <1>t
  <2>5. NotAhead' /\ InOrder'
    BY <2>1, <2>2, <2>3, <2>4, <1>0, SendKeepsOrder
  <2>6. SnapshotIsNewer'
    <3>1. /\ \A i \in Pos : inbox'[i] = inbox[i]
          /\ inbox'[Len(inbox) + 1] = m
          /\ Pos' = Pos \cup {Len(inbox) + 1}
      BY <1>0, <2>1, SendAppends DEF TypeOK
    <3>2. \A i \in Pos' : Replied(i, pending)' => i \in Pos /\ Replied(i, pending)
      BY <3>1, <2>2 DEF Replied
    <3>3. \A d \in Calls : stage'[d] = "read" => stage[d] = "read" /\ snap'[d] = snap[d]
      BY <1>4, <1>0 DEF CallFails, Release, TypeOK
    <3>4. QED
      BY <3>1, <3>2, <3>3, <2>2, <1>0 DEF SnapshotIsNewer
  <2>7. QED
    BY <1>0, <2>5, <2>6 DEF ForwardInv
<1>5. ASSUME OwnerLeaves \/ OwnerArrives PROVE ForwardInv'
  <2>1. PICK o \in Nat : Send([type |-> "owner", owner |-> o])
    BY <1>5, <1>0 DEF OwnerLeaves, OwnerArrives, TypeOK
  <2>2. [type |-> "owner", owner |-> o] \in Message
    BY MessageKinds
  <2>3. \A p \in Props : value[p] <= value'[p]
    BY <1>5, <1>0, <1>t DEF OwnerLeaves, OwnerArrives, TypeOK
  <2>4. UNCHANGED <<flight, cache, pending, live>>
    BY <1>5 DEF OwnerLeaves, OwnerArrives
  <2>5. \A c \in Calls : \A p \in Props : snap'[c][p] <= value'[p]
    BY <1>0, <1>t, <2>3, <2>4 DEF NotAhead, TypeOK
  <2>6. NotAhead' /\ InOrder'
    BY <2>1, <2>2, <2>3, <2>4, <2>5, <1>0, SendKeepsOrder
  <2>7. SnapshotIsNewer'
    <3>1. /\ \A i \in Pos : inbox'[i] = inbox[i]
          /\ inbox'[Len(inbox) + 1] = [type |-> "owner", owner |-> o]
          /\ Pos' = Pos \cup {Len(inbox) + 1}
      BY <2>1, <2>2, <1>0, SendAppends DEF TypeOK
    <3>2. \A i \in Pos' : Replied(i, pending)' => i \in Pos /\ Replied(i, pending)
      BY <2>4, <3>1 DEF Replied
    <3>3. QED
      BY <2>4, <3>1, <3>2, <1>0 DEF SnapshotIsNewer
  <2>8. QED
    BY <1>0, <2>6, <2>7 DEF ForwardInv
<1>6. CASE PropertyChanged
  <2> DEFINE m == inbox[1]
  <2>1. /\ 1 \in Pos /\ Head(inbox) = m /\ m \in Message /\ m.type = "changed"
        /\ \A i \in Pos' : i \in Nat /\ 0 < i /\ i + 1 \in Pos /\ inbox'[i] = inbox[i + 1]
        /\ Receive("changed")
    BY <1>6, <1>0, ReceiveTakesFirst DEF PropertyChanged, TypeOK
  <2>2. m.prop \in Props /\ m.val \in Nat
    BY <2>1, MessageFields
  <2>3. /\ \A p \in Props : cache'[p] = IF p = m.prop THEN m.val ELSE cache[p]
        /\ live' = MarkLive(m.prop)
        /\ UNCHANGED <<value, pending, flight>>
    BY <1>6, <2>1 DEF PropertyChanged, UpdateProperties
  <2>4. InOrder'
    BY <2>1, <1>0, ReceiveKeepsOrder
  <2>5. cache[m.prop] <= m.val /\ m.val <= value[m.prop]
    BY <2>1, <2>2, <1>0 DEF NotAhead, Changed
  <2>6. NotAhead'
    <3>1. \A p \in Props : cache'[p] <= value'[p]
      BY <2>3, <2>5, <1>0 DEF NotAhead
    <3>2. ASSUME NEW i \in Pos', NEW p \in Props
          PROVE  /\ Changed(i, p)' => cache'[p] <= inbox'[i].val /\ inbox'[i].val <= value'[p]
                 /\ inbox'[i].type = "reply" => inbox'[i].snapshot[p] <= value'[p]
      <4>1. i + 1 \in Pos /\ 1 < i + 1 /\ inbox'[i] = inbox[i + 1]
        BY <2>1
      <4>2. Changed(i + 1, p) /\ p = m.prop => m.val <= inbox[i + 1].val
        BY <4>1, <2>1, <2>2, <1>0 DEF InOrder, Changed
      <4>3. QED
        BY <4>1, <4>2, <2>3, <1>0 DEF NotAhead, Changed
    <3>3. QED
      BY <3>1, <3>2, <2>3, <1>0 DEF NotAhead
  <2>7. SnapshotIsNewer'
    <3>1. CASE pending = NoCall
      BY <3>1, <2>3, <1>0, NoCallNoSnapshot
    <3>2. CASE pending # NoCall
      <4>1. live \subseteq live' /\ \A p \in Props \ live' : cache'[p] = cache[p]
        BY <3>2, <2>3 DEF MarkLive
      <4>2. QED
        BY <4>1, <2>1, <2>3, <1>0, ReceiveKeepsSnapshot
    <3>3. QED
      BY <3>1, <3>2
  <2>8. QED
    BY <1>0, <2>4, <2>6, <2>7 DEF ForwardInv
<1>7. CASE PropertyInvalidated
  <2>1. Receive("invalidated") /\ UNCHANGED <<service, cache>>
    BY <1>7 DEF PropertyInvalidated
  <2>2. snap' = snap
    BY <1>7 DEF PropertyInvalidated, GetAllProperties, Dispatch
  <2>3. NotAhead' /\ InOrder'
    BY <2>1, <2>2, <1>0, ReceiveKeepsOrder, ReceiveKeepsBounds
  <2>4. SnapshotIsNewer'
    <3>1. \A i \in Pos' : \E j \in Pos : inbox'[i] = inbox[j]
      BY <2>1, <1>0, ReceiveTakesFirst DEF TypeOK
    <3>2. Head(inbox).prop \in Props
      BY <2>1, <1>0, ReceiveTakesFirst, MessageFields DEF TypeOK
    <3>3. MarkLive(Head(inbox).prop) \in SUBSET Props /\ live \subseteq MarkLive(Head(inbox).prop)
      BY <3>2, <1>0 DEF MarkLive, TypeOK
    <3>4. QED
      BY <1>7, <2>1, <3>1, <3>3, <1>0, GetAllKeepsSnapshot DEF PropertyInvalidated
  <2>5. QED
    BY <1>0, <2>3, <2>4 DEF ForwardInv
<1>8. CASE SnapshotArrives
  <2> DEFINE m == inbox[1]
  <2>1. /\ 1 \in Pos /\ Head(inbox) = m /\ m \in Message /\ m.type = "reply"
        /\ \A i \in Pos' : i \in Nat /\ 0 < i /\ i + 1 \in Pos /\ inbox'[i] = inbox[i + 1]
        /\ Receive("reply")
    BY <1>8, <1>0, ReceiveTakesFirst DEF SnapshotArrives, TypeOK
  <2>2. /\ m.call = pending /\ m.snapshot \in [Props -> Nat]
        /\ pending' = NoCall /\ UNCHANGED <<value, flight>>
        /\ \A p \in Props : cache'[p] = IF p \in live THEN cache[p] ELSE m.snapshot[p]
    BY <1>8, <2>1, MessageFields DEF SnapshotArrives, UpdateProperties
  <2>3. InOrder'
    BY <2>1, <1>0, ReceiveKeepsOrder
  <2>4. NotAhead'
    <3>1. \A p \in Props : m.snapshot[p] <= value[p] /\ cache'[p] <= value'[p]
      BY <2>1, <2>2, <1>0 DEF NotAhead
    <3>2. ASSUME NEW i \in Pos', NEW p \in Props
          PROVE  /\ Changed(i, p)' => cache'[p] <= inbox'[i].val /\ inbox'[i].val <= value'[p]
                 /\ inbox'[i].type = "reply" => inbox'[i].snapshot[p] <= value'[p]
      <4>1. i + 1 \in Pos /\ 1 < i + 1 /\ inbox'[i] = inbox[i + 1]
        BY <2>1
      <4>2. Changed(i + 1, p) => m.snapshot[p] <= inbox[i + 1].val
        BY <4>1, <2>1, <1>0 DEF InOrder
      <4>3. QED
        BY <4>1, <4>2, <2>2, <1>0 DEF NotAhead, Changed
    <3>3. QED
      BY <3>1, <3>2, <2>2, <1>0 DEF NotAhead
  <2>5. SnapshotIsNewer'
    BY <2>2, <1>0, NoCallNoSnapshot
  <2>6. QED
    BY <1>0, <2>3, <2>4, <2>5 DEF ForwardInv
<1>9. ASSUME SnapshotFails \/ AnswerDropped \/ ServiceOwnerChanged PROVE ForwardInv'
  <2>1. PICK type \in {"reply", "error", "owner"} : Receive(type)
    BY <1>9 DEF SnapshotFails, AnswerDropped, ServiceOwnerChanged
  <2>2. UNCHANGED <<value, cache, flight>>
    BY <1>9 DEF SnapshotFails, AnswerDropped, ServiceOwnerChanged
  <2>3. NotAhead' /\ InOrder'
    BY <2>1, <2>2, <1>0, ReceiveKeepsOrder, ReceiveKeepsBounds
  <2>4. SnapshotIsNewer'
    <3>1. CASE pending' = NoCall
      BY <3>1, <1>0, NoCallNoSnapshot
    <3>2. CASE AnswerDropped
      BY <3>2, <2>1, <2>2, <1>0, ReceiveKeepsSnapshot DEF AnswerDropped
    <3>3. QED
      BY <1>9, <3>1, <3>2 DEF SnapshotFails, ServiceOwnerChanged
  <2>5. QED
    BY <1>0, <2>3, <2>4 DEF ForwardInv
<1>10. CASE RefreshTimeout
  <2>1. UNCHANGED <<value, cache, inbox>> /\ snap' = snap
    BY <1>10 DEF RefreshTimeout, GetAllProperties, Dispatch
  <2>2. NotAhead' /\ InOrder'
    BY <2>1, <1>0 DEF NotAhead, InOrder, Changed, Pos
  <2>3. SnapshotIsNewer'
    <3>1. live \in SUBSET Props /\ \A i \in Pos' : \E j \in Pos : inbox'[i] = inbox[j]
      BY <2>1, <1>0 DEF Pos, TypeOK
    <3>2. QED
      BY <1>10, <2>1, <3>1, <1>0, GetAllKeepsSnapshot DEF RefreshTimeout
  <2>4. QED
    BY <1>0, <2>2, <2>3 DEF ForwardInv
<1>11. CASE UNCHANGED vars
  BY <1>11, <1>0 DEF vars, ForwardInv, NotAhead, InOrder, SnapshotIsNewer, Changed, Replied, Pos
<1>12. QED
  BY <1>1, <1>2, <1>3, <1>4, <1>5, <1>6, <1>7, <1>8, <1>9, <1>10, <1>11
     DEF Next, ClientNext

LEMMA ForwardInvariant == Spec => []ForwardInv
BY InitForward, ForwardStep, PTL DEF Spec

\* A step of DBusPower and its environment is a step of the abstract view.
LEMMA StepMovesForward ==
  ASSUME ForwardInv, ForwardInv', [Next]_vars
  PROVE  [View!Next]_(View!vars)
<1> USE DEF service, flight, client
<1>t. /\ value \in [Props -> Nat] /\ value' \in [Props -> Nat]
      /\ cache \in [Props -> Nat] /\ cache' \in [Props -> Nat]
      /\ \A p \in Props : value[p] \in Nat /\ cache[p] \in Nat
  BY DEF ForwardInv, TypeOK
<1>1. CASE value' = value /\ cache' = cache
  BY <1>1 DEF View!vars
<1>2. ASSUME \/ \E p \in Props : ServiceUpdates(p)
             \/ OwnerArrives
      PROVE  View!ServiceMoves
  <2>1. UNCHANGED cache
    BY <1>2 DEF ServiceUpdates, OwnerArrives
  <2>2. ASSUME OwnerArrives
        PROVE  \A p \in Props : value'[p] >= value[p]
    BY <2>2, <1>t DEF OwnerArrives
  <2>3. ASSUME NEW q \in Props, ServiceUpdates(q)
        PROVE  \A p \in Props : value'[p] >= value[p]
    BY <2>3, <1>t DEF ServiceUpdates
  <2>4. \A p \in Props : value'[p] >= value[p]
    BY <1>2, <2>2, <2>3
  <2>5. QED
    BY <1>t, <2>1, <2>4 DEF View!ServiceMoves
<1>3. CASE PropertyChanged
  <2> DEFINE m == inbox[1]
  <2>1. /\ 1 \in Pos /\ Head(inbox) = m /\ m \in Message /\ m.type = "changed"
    BY <1>3, ReceiveTakesFirst DEF PropertyChanged, ForwardInv, TypeOK
  <2>2. m.prop \in Props /\ m.val \in Nat
    BY <2>1, MessageFields
  <2>3. cache[m.prop] <= m.val /\ m.val <= value[m.prop]
    BY <2>1, <2>2 DEF ForwardInv, NotAhead, Changed
  <2>4. \A p \in Props : cache'[p] = IF p = m.prop THEN m.val ELSE cache[p]
    BY <1>3, <2>1 DEF PropertyChanged, UpdateProperties
  <2>5. \A p \in Props : cache'[p] >= cache[p] /\ cache'[p] <= value[p]
    BY <1>t, <2>2, <2>3, <2>4 DEF ForwardInv, NotAhead
  <2>6. View!ViewMoves
    BY <1>t, <1>3, <2>5 DEF View!ViewMoves, PropertyChanged
  <2>7. QED
    BY <2>6 DEF View!Next
<1>4. CASE SnapshotArrives
  <2> DEFINE m == inbox[1]
  <2>1. /\ 1 \in Pos /\ Head(inbox) = m /\ m \in Message /\ m.type = "reply"
    BY <1>4, ReceiveTakesFirst DEF SnapshotArrives, ForwardInv, TypeOK
  <2>2. m.snapshot \in [Props -> Nat] /\ Replied(1, pending)
    BY <1>4, <2>1, MessageFields DEF SnapshotArrives, Replied
  <2>3. /\ \A p \in Props \ live : cache[p] <= m.snapshot[p]
        /\ \A p \in Props : m.snapshot[p] <= value[p]
    BY <2>1, <2>2 DEF ForwardInv, SnapshotIsNewer, NotAhead
  <2>4. \A p \in Props : cache'[p] = IF p \in live THEN cache[p] ELSE m.snapshot[p]
    BY <1>4, <2>1 DEF SnapshotArrives, UpdateProperties
  <2>5. \A p \in Props : cache'[p] >= cache[p] /\ cache'[p] <= value[p]
    BY <1>t, <2>2, <2>3, <2>4 DEF ForwardInv, NotAhead
  <2>6. View!ViewMoves
    BY <1>t, <1>4, <2>5 DEF View!ViewMoves, SnapshotArrives
  <2>7. QED
    BY <2>6 DEF View!Next
<1>5. ASSUME \/ \E c \in Calls : ServiceReads(c) \/ ServiceReplies(c) \/ CallFails(c)
             \/ OwnerLeaves \/ PropertyInvalidated \/ SnapshotFails \/ AnswerDropped
             \/ ServiceOwnerChanged \/ RefreshTimeout \/ UNCHANGED vars
      PROVE  value' = value /\ cache' = cache
  BY <1>5 DEF ServiceReads, ServiceReplies, CallFails, OwnerLeaves, PropertyInvalidated,
     SnapshotFails, AnswerDropped, ServiceOwnerChanged, RefreshTimeout, vars
<1>6. QED
  BY <1>1, <1>2, <1>3, <1>4, <1>5 DEF Next, ClientNext, View!Next

\* The cache never shows a value the service has not had and never returns to
\* an older one, whatever the bus delays, fails or reorders: DBusPower
\* implements ForwardView.
THEOREM ForwardOnly == Spec => NeverGoesBack
<1>1. Init => View!Init
  BY DEF Init, View!Init, Blank
<1>2. ForwardInv /\ ForwardInv' /\ [Next]_vars => [View!Next]_(View!vars)
  BY StepMovesForward
<1>3. QED
  BY <1>1, <1>2, ForwardInvariant, PTL DEF Spec, NeverGoesBack, View!Spec

------------------------------------------------------------------------------
(* An idle cache is exact *)

\* What is queued stays queued when more is sent.
LEMMA SendKeepsNews ==
  ASSUME TypeOK, NEW m \in Message, Send(m), NEW p \in Props, value'[p] = value[p],
         NEW i \in Nat, NewsAfter(i, p)
  PROVE  NewsAfter(i, p)'
<1>1. Pos \subseteq Pos' /\ \A j \in Pos : inbox'[j] = inbox[j]
  BY SendAppends DEF TypeOK
<1>2. QED
  BY <1>1 DEF NewsAfter, OwnerNews, Invalid, Changed

\* News sent last comes after everything queued before it.
LEMMA SendAddsNews ==
  ASSUME TypeOK, NEW m \in Message, Send(m), NEW p \in Props,
         \/ m.type = "owner"
         \/ m.type = "invalidated" /\ m.prop = p
         \/ m.type = "changed" /\ m.prop = p /\ m.val = value'[p],
         NEW i \in {0} \cup Pos
  PROVE  NewsAfter(i, p)'
<1>1. /\ Len(inbox) + 1 \in Pos' /\ inbox'[Len(inbox) + 1] = m
      /\ Len(inbox) \in Nat
  BY SendAppends DEF TypeOK
<1>2. i < Len(inbox) + 1
  BY <1>1 DEF Pos
<1>3. QED
  BY <1>1, <1>2 DEF NewsAfter, OwnerNews, Invalid, Changed

\* Taking the first message brings the news behind it closer.
LEMMA ReceiveKeepsNews ==
  ASSUME TypeOK, NEW type, Receive(type), NEW p \in Props, value'[p] = value[p],
         NEW i \in Nat, NewsAfter(i + 1, p)
  PROVE  NewsAfter(i, p)'
<1>1. PICK j \in Pos : /\ i + 1 < j
                       /\ \/ OwnerNews(j)
                          \/ Invalid(j, p)
                          \/ Changed(j, p) /\ inbox[j].val = value[p]
  BY DEF NewsAfter
<1>2. j \in Nat /\ j # 1
  BY <1>1 DEF Pos
<1>3. j - 1 \in Pos' /\ inbox[j] = inbox'[j - 1]
  BY <1>2, ReceiveTakesFirst DEF TypeOK
<1>4. i < j - 1
  BY <1>1, <1>2
<1>5. QED
  BY <1>1, <1>3, <1>4 DEF NewsAfter, OwnerNews, Invalid, Changed

\* News of p is the first message or is behind it.
LEMMA NewsFirstOrLater ==
  ASSUME TypeOK, NEW type, Receive(type), NEW p \in Props, NewsAfter(0, p)
  PROVE  \/ NewsAfter(1, p)
         \/ OwnerNews(1)
         \/ Invalid(1, p)
         \/ Changed(1, p) /\ inbox[1].val = value[p]
<1>1. PICK j \in Pos : /\ 0 < j
                       /\ \/ OwnerNews(j)
                          \/ Invalid(j, p)
                          \/ Changed(j, p) /\ inbox[j].val = value[p]
  BY DEF NewsAfter
<1>2. j = 1 \/ 1 < j
  BY <1>1 DEF Pos
<1>3. QED
  BY <1>1, <1>2 DEF NewsAfter

\* Old news stays followed by newer news.
LEMMA OldNewsStep ==
  ASSUME TypeOK, TypeOK', OldNewsFollowed, [Next]_vars
  PROVE  OldNewsFollowed'
<1> USE DEF service, flight, client
<1> SUFFICES ASSUME owner' # 0, NEW i \in Pos', NEW p \in Props, Changed(i, p)'
             PROVE  inbox'[i].val = value'[p] \/ NewsAfter(i, p)'
  BY DEF OldNewsFollowed
<1>1. ASSUME NEW type, Receive(type), UNCHANGED <<owner, value>>
      PROVE  inbox'[i].val = value'[p] \/ NewsAfter(i, p)'
  <2>1. i \in Nat /\ i + 1 \in Pos /\ inbox'[i] = inbox[i + 1]
    BY <1>1, ReceiveTakesFirst DEF TypeOK
  <2>2. inbox[i + 1].val = value[p] \/ NewsAfter(i + 1, p)
    BY <1>1, <2>1 DEF OldNewsFollowed, Changed
  <2>3. QED
    BY <1>1, <2>1, <2>2, ReceiveKeepsNews
<1>2. ASSUME NEW m \in Message, Send(m), owner' = owner, value'[p] = value[p],
             m.type = "changed" /\ m.prop = p => m.val = value'[p]
      PROVE  inbox'[i].val = value'[p] \/ NewsAfter(i, p)'
  <2>0. \A j \in Pos : j \in Nat
    BY DEF Pos
  <2>1. /\ \A j \in Pos : j \in Nat /\ inbox'[j] = inbox[j]
        /\ inbox'[Len(inbox) + 1] = m
        /\ Pos' = Pos \cup {Len(inbox) + 1}
    BY <1>2, <2>0, SendAppends DEF TypeOK
  <2>2. CASE i \in Pos
    <3>1. inbox[i].val = value[p] \/ NewsAfter(i, p)
      BY <1>2, <2>1, <2>2 DEF OldNewsFollowed, Changed
    <3>2. QED
      BY <1>2, <2>1, <2>2, <3>1, SendKeepsNews
  <2>3. CASE i = Len(inbox) + 1
    BY <1>2, <2>1, <2>3 DEF Changed
  <2>4. QED
    BY <2>1, <2>2, <2>3
<1>3. ASSUME NEW q \in Props, ServiceUpdates(q)
      PROVE  inbox'[i].val = value'[p] \/ NewsAfter(i, p)'
  <2>1. value[q] + 1 \in Nat /\ value'[q] = value[q] + 1
    BY <1>3 DEF ServiceUpdates, TypeOK
  <2>2. PICK m \in Message :
          /\ Send(m) /\ m.prop = q
          /\ \/ m.type = "changed" /\ m.val = value'[q]
             \/ m.type = "invalidated"
    BY <1>3, <2>1, MessageKinds DEF ServiceUpdates
  <2>3. CASE p = q
    <3>1. /\ inbox'[Len(inbox) + 1] = m
          /\ Pos' = Pos \cup {Len(inbox) + 1}
      BY <2>2, SendAppends DEF TypeOK
    <3>2. CASE i \in Pos
      BY <2>2, <2>3, <3>2, SendAddsNews
    <3>3. CASE i = Len(inbox) + 1
      BY <2>2, <2>3, <3>1, <3>3 DEF Changed
    <3>4. QED
      BY <3>1, <3>2, <3>3
  <2>4. CASE p # q
    <3>1. value'[p] = value[p] /\ owner' = owner
      BY <1>3, <2>4 DEF ServiceUpdates, TypeOK
    <3>2. QED
      BY <2>2, <2>4, <3>1, <1>2
  <2>5. QED
    BY <2>3, <2>4
<1>4. ASSUME NEW c \in Calls, ServiceReplies(c) \/ CallFails(c)
      PROVE  inbox'[i].val = value'[p] \/ NewsAfter(i, p)'
  <2>1. PICK m \in Message : Send(m) /\ m.type # "changed"
    <3>1. snap[c] \in [Props -> Nat]
      BY DEF TypeOK
    <3>2. QED
      BY <1>4, <3>1, MessageKinds DEF ServiceReplies, CallFails
  <2>2. UNCHANGED <<owner, value>>
    BY <1>4 DEF ServiceReplies, CallFails
  <2>3. QED
    BY <2>1, <2>2, <1>2
<1>5. CASE OwnerArrives
  <2>1. lastIncarnation' \in Nat
    BY DEF TypeOK
  <2>2. PICK m \in Message : Send(m) /\ m.type = "owner"
    BY <1>5, <2>1, MessageKinds DEF OwnerArrives
  <2>3. /\ inbox'[Len(inbox) + 1] = m
        /\ Pos' = Pos \cup {Len(inbox) + 1}
    BY <2>2, SendAppends DEF TypeOK
  <2>4. i \in Pos
    BY <2>2, <2>3 DEF Changed
  <2>5. QED
    BY <2>2, <2>4, SendAddsNews
<1>6. CASE OwnerLeaves
  BY <1>6 DEF OwnerLeaves
<1>7. ASSUME \/ \E c \in Calls : ServiceReads(c)
             \/ RefreshTimeout \/ UNCHANGED vars
      PROVE  inbox'[i].val = value'[p] \/ NewsAfter(i, p)'
  <2>1. UNCHANGED <<owner, value, inbox>>
    BY <1>7 DEF ServiceReads, RefreshTimeout, vars
  <2>2. QED
    BY <2>1 DEF OldNewsFollowed, NewsAfter, Changed, Invalid, OwnerNews, Pos
<1>8. ASSUME \/ PropertyChanged \/ PropertyInvalidated \/ SnapshotArrives
             \/ SnapshotFails \/ AnswerDropped \/ ServiceOwnerChanged
      PROVE  inbox'[i].val = value'[p] \/ NewsAfter(i, p)'
  <2>1. PICK type \in {"changed", "invalidated", "reply", "error", "owner"} : Receive(type)
    BY <1>8 DEF PropertyChanged, PropertyInvalidated, SnapshotArrives, SnapshotFails,
       AnswerDropped, ServiceOwnerChanged
  <2>2. UNCHANGED <<owner, value>>
    BY <1>8 DEF PropertyChanged, PropertyInvalidated, SnapshotArrives, SnapshotFails,
       AnswerDropped, ServiceOwnerChanged
  <2>3. QED
    BY <2>1, <2>2, <1>1
<1>9. QED
  BY <1>3, <1>4, <1>5, <1>6, <1>7, <1>8 DEF Next, ClientNext

\* A call that is dispatched has no answer in the queue yet.
LEMMA DispatchedUnanswered ==
  ASSUME TypeOK, NEW L, NEW t, GetAllProperties(L, t), pending = NoCall, pending' # NoCall
  PROVE  /\ pending' \in Calls /\ stage'[pending'] = "sent" /\ live' = {}
         /\ \A i \in Pos : ~Answers(i, pending')
<1>1. /\ pending' \in FreeCalls /\ pending' \in Calls /\ live' = {}
      /\ stage' = [stage EXCEPT ![pending'] = "sent"]
  BY DEF GetAllProperties, Dispatch, FreeCalls
<1>2. stage'[pending'] = "sent"
  BY <1>1 DEF TypeOK
<1>3. ASSUME NEW i \in Pos, Answers(i, pending') PROVE FALSE
  <2>1. i \in DOMAIN inbox
    BY LenProperties DEF Pos, TypeOK
  <2>2. QED
    BY <1>1, <1>3, <2>1 DEF FreeCalls, Answers, Replied, Errored
<1>4. QED
  BY <1>1, <1>2, <1>3

\* At most one answer to the awaited call is queued, and only when it is over.
LEMMA OneAnswerStep ==
  ASSUME TypeOK, TypeOK', OneAnswer, [Next]_vars
  PROVE  OneAnswer'
<1> USE DEF service, flight, client
<1>1. ASSUME NEW m \in Message, Send(m), UNCHANGED <<pending, stage>>,
             m.type \notin {"reply", "error"}
      PROVE  OneAnswer'
  <2>1. /\ \A j \in Pos : inbox'[j] = inbox[j]
        /\ inbox'[Len(inbox) + 1] = m
        /\ Pos' = Pos \cup {Len(inbox) + 1}
    BY <1>1, SendAppends DEF TypeOK
  <2>2. \A i \in Pos' : Answers(i, pending)' => i \in Pos /\ Answers(i, pending)
    BY <1>1, <2>1 DEF Answers, Replied, Errored
  <2>3. QED
    BY <1>1, <2>2 DEF OneAnswer
<1>2. ASSUME NEW c \in Calls, ServiceReplies(c) \/ CallFails(c)
      PROVE  OneAnswer'
  <2>1. PICK m \in Message : Send(m) /\ m.type \in {"reply", "error"} /\ m.call = c
    <3>1. snap[c] \in [Props -> Nat]
      BY DEF TypeOK
    <3>2. QED
      BY <1>2, <3>1, MessageKinds DEF ServiceReplies, CallFails
  <2>2. /\ \A j \in Pos : inbox'[j] = inbox[j]
        /\ inbox'[Len(inbox) + 1] = m
        /\ Pos' = Pos \cup {Len(inbox) + 1}
    BY <2>1, SendAppends DEF TypeOK
  <2>3. /\ pending' = pending /\ stage[c] # "free"
        /\ \A d \in Calls : stage'[d] = IF d = c THEN "free" ELSE stage[d]
    BY <1>2 DEF ServiceReplies, CallFails, Release, TypeOK
  <2>4. CASE pending = c
    <3>1. \A i \in Pos : ~Answers(i, pending)
      BY <2>3, <2>4 DEF OneAnswer
    <3>2. \A i \in Pos' : Answers(i, pending)' => i = Len(inbox) + 1
      BY <2>2, <2>3, <3>1 DEF Answers, Replied, Errored
    <3>3. QED
      BY <2>3, <2>4, <3>2 DEF OneAnswer
  <2>5. CASE pending # c
    <3>1. \A i \in Pos' : Answers(i, pending)' => i \in Pos /\ Answers(i, pending)
      BY <2>1, <2>2, <2>3, <2>5 DEF Answers, Replied, Errored
    <3>2. QED
      BY <2>3, <2>5, <3>1 DEF OneAnswer
  <2>6. QED
    BY <2>4, <2>5
<1>3. ASSUME NEW type, Receive(type), UNCHANGED <<pending, stage>>
      PROVE  OneAnswer'
  <2>1. \A i \in Pos' : i \in Nat /\ i + 1 \in Pos /\ inbox'[i] = inbox[i + 1]
    BY <1>3, ReceiveTakesFirst DEF TypeOK
  <2>2. \A i \in Pos' : Answers(i, pending)' => Answers(i + 1, pending)
    BY <1>3, <2>1 DEF Answers, Replied, Errored
  <2>3. ASSUME NEW i \in Pos', NEW j \in Pos', pending \in Calls,
               Answers(i, pending)', Answers(j, pending)'
        PROVE  stage[pending] = "free" /\ i = j
    <3>1. stage[pending] = "free" /\ i + 1 = j + 1
      BY <2>1, <2>2, <2>3 DEF OneAnswer
    <3>2. QED
      BY <2>1, <3>1
  <2>4. QED
    BY <1>3, <2>3 DEF OneAnswer
<1>4. ASSUME NEW L, NEW t, GetAllProperties(L, t),
             \A i \in Pos' : \E j \in Pos : inbox'[i] = inbox[j],
             pending = NoCall
      PROVE  OneAnswer'
  <2>1. CASE pending' = NoCall
    BY <2>1, NoCallAssumption DEF OneAnswer
  <2>2. CASE pending' # NoCall
    <3>1. \A i \in Pos : ~Answers(i, pending')
      BY <1>4, <2>2, DispatchedUnanswered
    <3>2. \A i \in Pos' : ~Answers(i, pending)'
      BY <1>4, <3>1 DEF Answers, Replied, Errored
    <3>3. QED
      BY <3>2 DEF OneAnswer
  <2>3. QED
    BY <2>1, <2>2
<1>5. ASSUME NEW p \in Props, ServiceUpdates(p) PROVE OneAnswer'
  <2>0. value \in [Props -> Nat]
    BY DEF TypeOK
  <2>1. value[p] + 1 \in Nat
    BY <2>0
  <2>2. PICK m \in Message : Send(m) /\ m.type \notin {"reply", "error"}
    BY <1>5, <2>1, MessageKinds DEF ServiceUpdates
  <2>3. QED
    BY <1>5, <2>2, <1>1 DEF ServiceUpdates
<1>6. ASSUME OwnerLeaves \/ OwnerArrives PROVE OneAnswer'
  <2>1. PICK o \in Nat : Send([type |-> "owner", owner |-> o])
    BY <1>6 DEF OwnerLeaves, OwnerArrives, TypeOK
  <2>2. [type |-> "owner", owner |-> o] \in Message
    BY MessageKinds
  <2>3. UNCHANGED <<pending, stage>>
    BY <1>6 DEF OwnerLeaves, OwnerArrives
  <2>4. QED
    BY <2>1, <2>2, <2>3, <1>1
<1>7. ASSUME NEW c \in Calls, ServiceReads(c) PROVE OneAnswer'
  <2>1. /\ UNCHANGED <<pending, inbox>> /\ stage[c] = "sent"
        /\ \A d \in Calls : d # c => stage'[d] = stage[d]
    BY <1>7 DEF ServiceReads, TypeOK
  <2>2. Pos' = Pos /\ \A i : Answers(i, pending)' <=> Answers(i, pending)
    BY <2>1 DEF Answers, Replied, Errored, Pos
  <2>3. QED
    BY <2>1, <2>2 DEF OneAnswer
<1>8. ASSUME PropertyChanged \/ AnswerDropped PROVE OneAnswer'
  <2>1. PICK type \in {"changed", "reply", "error"} : Receive(type)
    BY <1>8 DEF PropertyChanged, AnswerDropped
  <2>2. UNCHANGED <<pending, stage>>
    BY <1>8 DEF PropertyChanged, AnswerDropped
  <2>3. QED
    BY <2>1, <2>2, <1>3
<1>9. ASSUME SnapshotArrives \/ SnapshotFails \/ ServiceOwnerChanged PROVE OneAnswer'
  BY <1>9, NoCallAssumption
     DEF SnapshotArrives, SnapshotFails, ServiceOwnerChanged, OneAnswer
<1>10. CASE PropertyInvalidated
  <2>1. Receive("invalidated")
    BY <1>10 DEF PropertyInvalidated
  <2>2. CASE pending # NoCall
    <3>1. UNCHANGED <<pending, stage>>
      BY <1>10, <2>2 DEF PropertyInvalidated, GetAllProperties
    <3>2. QED
      BY <2>1, <3>1, <1>3
  <2>3. CASE pending = NoCall
    <3>1. \A i \in Pos' : \E j \in Pos : inbox'[i] = inbox[j]
      BY <2>1, ReceiveTakesFirst DEF TypeOK
    <3>2. QED
      BY <1>10, <2>3, <3>1, <1>4 DEF PropertyInvalidated
  <2>4. QED
    BY <2>2, <2>3
<1>11. CASE RefreshTimeout
  <2>1. inbox' = inbox
    BY <1>11 DEF RefreshTimeout
  <2>2. CASE pending # NoCall
    <3>1. UNCHANGED <<pending, stage>>
      BY <1>11, <2>2 DEF RefreshTimeout, GetAllProperties
    <3>2. QED
      BY <2>1, <3>1 DEF OneAnswer, Answers, Replied, Errored, Pos
  <2>3. CASE pending = NoCall
    <3>1. \A i \in Pos' : \E j \in Pos : inbox'[i] = inbox[j]
      BY <2>1 DEF Pos
    <3>2. QED
      BY <1>11, <2>3, <3>1, <1>4 DEF RefreshTimeout
  <2>4. QED
    BY <2>2, <2>3
<1>12. CASE UNCHANGED vars
  BY <1>12 DEF vars, OneAnswer, Answers, Replied, Errored, Pos
<1>13. QED
  BY <1>2, <1>5, <1>6, <1>7, <1>8, <1>9, <1>10, <1>11, <1>12 DEF Next, ClientNext

\* What the client knows of the owner, once the queue is empty, is right.
LEMMA OwnerStep ==
  ASSUME TypeOK, TypeOK', OwnerIsKnown, LastOwnerNews, [Next]_vars
  PROVE  OwnerIsKnown' /\ LastOwnerNews'
<1> USE DEF service, flight, client
<1>1. ASSUME NEW m \in Message, Send(m), UNCHANGED <<owner, currentOwner>>, m.type # "owner"
      PROVE  OwnerIsKnown' /\ LastOwnerNews'
  <2>1. /\ \A j \in Pos : inbox'[j] = inbox[j]
        /\ inbox'[Len(inbox) + 1] = m
        /\ Pos' = Pos \cup {Len(inbox) + 1}
    BY <1>1, SendAppends DEF TypeOK
  <2>2. QED
    BY <1>1, <2>1 DEF OwnerIsKnown, LastOwnerNews, OwnerNews
<1>2. ASSUME NEW m \in Message, Send(m), m.type = "owner", m.owner = owner'
      PROVE  OwnerIsKnown' /\ LastOwnerNews'
  <2>1. /\ \A j \in Pos : inbox'[j] = inbox[j] /\ j < Len(inbox) + 1
        /\ inbox'[Len(inbox) + 1] = m
        /\ Pos' = Pos \cup {Len(inbox) + 1}
    BY <1>2, SendAppends DEF TypeOK, Pos
  <2>2. QED
    BY <1>2, <2>1 DEF OwnerIsKnown, LastOwnerNews, OwnerNews
<1>3. ASSUME NEW type, Receive(type), UNCHANGED owner,
             currentOwner' = IF type = "owner" THEN inbox[1].owner ELSE currentOwner
      PROVE  OwnerIsKnown' /\ LastOwnerNews'
  <2>1. /\ 1 \in Pos /\ inbox[1].type = type
        /\ \A i \in Pos' : i \in Nat /\ i + 1 \in Pos /\ inbox'[i] = inbox[i + 1]
        /\ \A i \in Pos : i # 1 => i - 1 \in Pos' /\ inbox[i] = inbox'[i - 1]
    BY <1>3, ReceiveTakesFirst DEF TypeOK
  <2>2. \A i \in Pos : i \in Nat
    BY DEF Pos
  <2>3. OwnerIsKnown'
    <3>1. ASSUME NEW i \in Pos, i # 1, OwnerNews(i) PROVE OwnerIsKnown'
      BY <2>1, <3>1 DEF OwnerIsKnown, OwnerNews
    <3>2. CASE type = "owner"
      <4>1. inbox[1].owner = owner \/ \E j \in Pos : 1 < j /\ OwnerNews(j)
        BY <2>1, <3>2 DEF LastOwnerNews, OwnerNews
      <4>2. QED
        BY <1>3, <3>1, <3>2, <4>1 DEF OwnerIsKnown
    <3>3. CASE type # "owner"
      BY <1>3, <2>1, <3>1, <3>3 DEF OwnerIsKnown, OwnerNews
    <3>4. QED
      BY <3>2, <3>3
  <2>4. LastOwnerNews'
    <3> SUFFICES ASSUME NEW i \in Pos', OwnerNews(i)'
                 PROVE  inbox'[i].owner = owner' \/ \E j \in Pos' : i < j /\ OwnerNews(j)'
      BY DEF LastOwnerNews
    <3>1. i + 1 \in Pos /\ inbox'[i] = inbox[i + 1] /\ OwnerNews(i + 1)
      BY <2>1 DEF OwnerNews
    <3>2. CASE inbox[i + 1].owner = owner
      BY <1>3, <3>1, <3>2
    <3>3. ASSUME NEW j \in Pos, i + 1 < j, OwnerNews(j)
          PROVE  \E k \in Pos' : i < k /\ OwnerNews(k)'
      <4>1. j # 1 /\ i < j - 1
        BY <2>1, <2>2, <3>3
      <4>2. j - 1 \in Pos' /\ OwnerNews(j - 1)'
        BY <2>1, <3>3, <4>1 DEF OwnerNews
      <4>3. QED
        BY <4>1, <4>2
    <3>4. QED
      BY <3>1, <3>2, <3>3 DEF LastOwnerNews
  <2>5. QED
    BY <2>3, <2>4
<1>4. ASSUME NEW p \in Props, ServiceUpdates(p) PROVE OwnerIsKnown' /\ LastOwnerNews'
  <2>0. value \in [Props -> Nat]
    BY DEF TypeOK
  <2>1. value[p] + 1 \in Nat
    BY <2>0
  <2>2. PICK m \in Message : Send(m) /\ m.type # "owner"
    BY <1>4, <2>1, MessageKinds DEF ServiceUpdates
  <2>3. QED
    BY <1>4, <2>2, <1>1 DEF ServiceUpdates
<1>5. ASSUME NEW c \in Calls, ServiceReplies(c) \/ CallFails(c)
      PROVE  OwnerIsKnown' /\ LastOwnerNews'
  <2>1. PICK m \in Message : Send(m) /\ m.type # "owner"
    <3>1. snap[c] \in [Props -> Nat]
      BY DEF TypeOK
    <3>2. QED
      BY <1>5, <3>1, MessageKinds DEF ServiceReplies, CallFails
  <2>2. UNCHANGED <<owner, currentOwner>>
    BY <1>5 DEF ServiceReplies, CallFails
  <2>3. QED
    BY <2>1, <2>2, <1>1
<1>6. ASSUME OwnerLeaves \/ OwnerArrives PROVE OwnerIsKnown' /\ LastOwnerNews'
  <2>1. owner' \in Nat /\ Send([type |-> "owner", owner |-> owner'])
    BY <1>6 DEF OwnerLeaves, OwnerArrives, TypeOK
  <2>2. [type |-> "owner", owner |-> owner'] \in Message
    BY <2>1, MessageKinds
  <2>3. QED
    BY <2>1, <2>2, <1>2
<1>7. CASE ServiceOwnerChanged
  <2>1. Receive("owner") /\ Head(inbox) = inbox[1]
    BY <1>7, ReceiveTakesFirst DEF ServiceOwnerChanged, TypeOK
  <2>2. QED
    BY <1>7, <2>1, <1>3 DEF ServiceOwnerChanged
<1>8. ASSUME \/ PropertyChanged \/ PropertyInvalidated \/ SnapshotArrives
             \/ SnapshotFails \/ AnswerDropped
      PROVE  OwnerIsKnown' /\ LastOwnerNews'
  <2>1. PICK type \in {"changed", "invalidated", "reply", "error"} : Receive(type)
    BY <1>8 DEF PropertyChanged, PropertyInvalidated, SnapshotArrives, SnapshotFails,
       AnswerDropped
  <2>2. UNCHANGED <<owner, currentOwner>>
    BY <1>8 DEF PropertyChanged, PropertyInvalidated, SnapshotArrives, SnapshotFails,
       AnswerDropped
  <2>3. QED
    BY <2>1, <2>2, <1>3
<1>9. ASSUME (\E c \in Calls : ServiceReads(c)) \/ RefreshTimeout \/ UNCHANGED vars
      PROVE  OwnerIsKnown' /\ LastOwnerNews'
  <2>1. UNCHANGED <<owner, currentOwner, inbox>>
    BY <1>9 DEF ServiceReads, RefreshTimeout, vars
  <2>2. QED
    BY <2>1 DEF OwnerIsKnown, LastOwnerNews, OwnerNews, Pos
<1>10. QED
  BY <1>4, <1>5, <1>6, <1>7, <1>8, <1>9 DEF Next, ClientNext

\* Sending leaves every promise about p standing.
LEMMA SendKeepsPromise ==
  ASSUME TypeOK, NEW m \in Message, Send(m), NEW p \in Props, WillBeExact(p),
         value'[p] = value[p], UNCHANGED client,
         pending \in Calls =>
           stage'[pending] = stage[pending] /\ snap'[pending] = snap[pending]
  PROVE  WillBeExact(p)'
<1> USE DEF client
<1>1. Pos \subseteq Pos' /\ \A j \in Pos : inbox'[j] = inbox[j]
  BY SendAppends DEF TypeOK
<1>2. NewsAfter(0, p) => NewsAfter(0, p)'
  BY SendKeepsNews
<1>3. SnapshotComing(p) => SnapshotComing(p)'
  BY <1>1 DEF SnapshotComing, Replied
<1>4. (pending \in Calls /\ \E i \in Pos : Errored(i, pending))
        => (pending \in Calls /\ \E i \in Pos : Errored(i, pending))'
  BY <1>1 DEF Errored
<1>5. QED
  BY <1>2, <1>3, <1>4 DEF WillBeExact

\* Taking a message that says nothing about p and answers no awaited call
\* leaves every promise about p standing.
LEMMA ReceiveKeepsPromise ==
  ASSUME TypeOK, NEW type, Receive(type), NEW p \in Props, WillBeExact(p),
         UNCHANGED <<pending, refreshPending, timer, stage, snap>>,
         value'[p] = value[p], cache'[p] = cache[p], p \notin live => p \notin live',
         ~OwnerNews(1), ~Invalid(1, p), ~Changed(1, p),
         pending \in Calls => ~Answers(1, pending)
  PROVE  WillBeExact(p)'
<1>1. \A i \in Pos : i # 1 => i - 1 \in Pos' /\ inbox[i] = inbox'[i - 1]
  BY ReceiveTakesFirst DEF TypeOK
<1>2. NewsAfter(0, p) => NewsAfter(0, p)'
  BY NewsFirstOrLater, ReceiveKeepsNews
<1>3. ASSUME SnapshotComing(p) PROVE SnapshotComing(p)'
  <2>1. CASE \E i \in Pos : Replied(i, pending) /\ inbox[i].snapshot[p] = value[p]
    <3>1. PICK i \in Pos : Replied(i, pending) /\ inbox[i].snapshot[p] = value[p]
      BY <2>1
    <3>2. i # 1
      BY <1>3, <3>1 DEF SnapshotComing, Answers
    <3>3. QED
      BY <1>1, <1>3, <3>1, <3>2 DEF SnapshotComing, Replied
  <2>2. QED
    BY <1>3, <2>1 DEF SnapshotComing
<1>4. ASSUME pending \in Calls, NEW i \in Pos, Errored(i, pending)
      PROVE  \E j \in Pos' : Errored(j, pending)'
  <2>1. i # 1
    BY <1>4 DEF Answers
  <2>2. QED
    BY <1>1, <1>4, <2>1 DEF Errored
<1>5. QED
  BY <1>2, <1>3, <1>4 DEF WillBeExact

\* An owner message that is not the last is followed by another one.
LEMMA UnknownOwnerIsNews ==
  ASSUME TypeOK, NEW type, Receive(type), NEW p \in Props, value'[p] = value[p],
         OwnerIsKnown, LastOwnerNews,
         IF type = "owner" THEN inbox[1].owner # owner ELSE currentOwner # owner
  PROVE  NewsAfter(0, p)'
<1>1. 1 \in Pos /\ inbox[1].type = type /\ \A i \in Pos : i \in Nat /\ 0 < i
  BY ReceiveTakesFirst DEF TypeOK, Pos
<1>2. PICK j \in Pos : OwnerNews(j) /\ 1 < j
  <2>1. CASE type = "owner"
    BY <1>1, <2>1 DEF LastOwnerNews, OwnerNews
  <2>2. CASE type # "owner"
    <3>1. PICK i \in Pos : OwnerNews(i)
      BY <2>2 DEF OwnerIsKnown
    <3>2. i # 1
      BY <1>1, <2>2, <3>1 DEF OwnerNews
    <3>3. QED
      BY <1>1, <3>1, <3>2
  <2>3. QED
    BY <2>1, <2>2
<1>3. NewsAfter(0 + 1, p)
  BY <1>2 DEF NewsAfter
<1>4. QED
  BY <1>3, ReceiveKeepsNews

\* Whatever happens, the cache is exact for p or something will see to it.
LEMMA PromiseStep ==
  ASSUME ForwardInv, ForwardInv', ExactInv, [Next]_vars, owner' # 0, NEW p \in Props
  PROVE  WillBeExact(p)'
<1> USE DEF service, flight, client
<1>0. /\ TypeOK /\ TypeOK' /\ NotAhead /\ SnapshotIsNewer
      /\ OneAnswer /\ RefreshNeedsCall /\ OwnerIsKnown /\ LastOwnerNews /\ OldNewsFollowed
  BY DEF ForwardInv, ExactInv
<1>t. value \in [Props -> Nat] /\ cache \in [Props -> Nat] /\ snap \in [Calls -> [Props -> Nat]]
  BY <1>0 DEF TypeOK
<1>p. owner # 0 => WillBeExact(p)
  BY DEF ExactInv
<1>1. ASSUME NEW q \in Props, ServiceUpdates(q) PROVE WillBeExact(p)'
  <2>1. value[q] + 1 \in Nat /\ value'[q] = value[q] + 1
    BY <1>1, <1>t DEF ServiceUpdates
  <2>2. PICK m \in Message :
          /\ Send(m) /\ m.prop = q
          /\ \/ m.type = "changed" /\ m.val = value'[q]
             \/ m.type = "invalidated"
    BY <1>1, <2>1, MessageKinds DEF ServiceUpdates
  <2>3. CASE p = q
    <3>1. NewsAfter(0, p)'
      BY <1>0, <2>2, <2>3, SendAddsNews
    <3>2. QED
      BY <3>1 DEF WillBeExact
  <2>4. CASE p # q
    <3>1. value'[p] = value[p] /\ owner # 0 /\ UNCHANGED <<flight, client>>
      BY <1>1, <1>t, <2>4 DEF ServiceUpdates
    <3>2. QED
      BY <1>0, <1>p, <2>2, <3>1, SendKeepsPromise
  <2>5. QED
    BY <2>3, <2>4
<1>2. ASSUME NEW c \in Calls, ServiceReads(c) PROVE WillBeExact(p)'
  <2>1. /\ UNCHANGED <<service, inbox, client>> /\ owner # 0 /\ stage[c] = "sent"
        /\ \A d \in Calls : stage'[d] = IF d = c THEN "read" ELSE stage[d]
        /\ \A d \in Calls : snap'[d] = IF d = c THEN value ELSE snap[d]
    BY <1>2, <1>0 DEF ServiceReads, TypeOK
  <2>2. Pos' = Pos /\ (NewsAfter(0, p) => NewsAfter(0, p)')
    BY <2>1 DEF Pos, NewsAfter, OwnerNews, Invalid, Changed
  <2>3. SnapshotComing(p) => SnapshotComing(p)'
    BY <2>1, <2>2 DEF SnapshotComing, Replied
  <2>4. QED
    BY <1>p, <2>1, <2>2, <2>3 DEF WillBeExact, Errored
<1>3. ASSUME NEW c \in Calls, ServiceReplies(c) \/ CallFails(c) PROVE WillBeExact(p)'
  <2>1. PICK m \in Message :
          /\ Send(m) /\ m.call = c
          /\ \/ m.type = "reply" /\ m.snapshot = snap[c] /\ stage[c] = "read"
             \/ m.type = "error"
    BY <1>3, <1>t, MessageKinds DEF ServiceReplies, CallFails
  <2>2. /\ UNCHANGED <<owner, value, client>> /\ stage[c] # "free"
        /\ \A d \in Calls : d # c => stage'[d] = stage[d] /\ snap'[d] = snap[d]
    BY <1>3, <1>0 DEF ServiceReplies, CallFails, Release, TypeOK
  <2>3. CASE pending # c
    BY <1>0, <1>p, <2>1, <2>2, <2>3, SendKeepsPromise
  <2>4. CASE pending = c
    <3>1. /\ \A j \in Pos : inbox'[j] = inbox[j]
          /\ inbox'[Len(inbox) + 1] = m
          /\ Pos' = Pos \cup {Len(inbox) + 1}
      BY <1>0, <2>1, SendAppends DEF TypeOK
    <3>2. \A i \in Pos : ~Answers(i, pending)
      BY <1>0, <2>2, <2>4 DEF OneAnswer
    <3>3. NewsAfter(0, p) => NewsAfter(0, p)'
      BY <1>0, <2>1, <2>2, SendKeepsNews
    <3>4. m.type = "error" => WillBeExact(p)'
      BY <2>1, <2>2, <2>4, <3>1 DEF WillBeExact, Errored
    <3>5. ASSUME m.type = "reply", SnapshotComing(p) PROVE SnapshotComing(p)'
      <4>1. snap[c][p] = value[p] /\ p \notin live
        BY <2>1, <2>4, <3>2, <3>5 DEF SnapshotComing, Answers
      <4>2. QED
        BY <2>1, <2>2, <2>4, <3>1, <3>5, <4>1 DEF SnapshotComing, Replied
    <3>6. QED
      BY <1>p, <2>1, <2>2, <3>2, <3>3, <3>4, <3>5 DEF WillBeExact, Answers
  <2>5. QED
    BY <2>3, <2>4
<1>4. CASE OwnerArrives
  <2>1. owner' \in Nat /\ Send([type |-> "owner", owner |-> owner'])
    BY <1>0, <1>4 DEF OwnerArrives, TypeOK
  <2>2. [type |-> "owner", owner |-> owner'] \in Message
    BY <2>1, MessageKinds
  <2>3. NewsAfter(0, p)'
    BY <1>0, <2>1, <2>2, SendAddsNews
  <2>4. QED
    BY <2>3 DEF WillBeExact
<1>5. CASE OwnerLeaves
  BY <1>5 DEF OwnerLeaves
<1>6. CASE PropertyChanged
  <2> DEFINE m == inbox[1]
  <2>1. /\ 1 \in Pos /\ Head(inbox) = m /\ m \in Message /\ m.type = "changed"
        /\ Receive("changed")
    BY <1>6, <1>0, ReceiveTakesFirst DEF PropertyChanged, TypeOK
  <2>2. m.prop \in Props
    BY <2>1, MessageFields
  <2>3. /\ cache'[p] = IF p = m.prop THEN m.val ELSE cache[p]
        /\ live' = MarkLive(m.prop) /\ owner # 0
        /\ UNCHANGED <<service, flight, pending, refreshPending, timer>>
    BY <1>6, <2>1 DEF PropertyChanged, UpdateProperties
  <2>4. CASE p = m.prop
    <3>1. m.val = value[p] \/ NewsAfter(0 + 1, p)
      BY <1>0, <2>1, <2>3, <2>4 DEF OldNewsFollowed, Changed
    <3>2. NewsAfter(0 + 1, p) => NewsAfter(0, p)'
      BY <1>0, <2>1, <2>3, ReceiveKeepsNews
    <3>3. QED
      BY <2>3, <2>4, <3>1, <3>2 DEF WillBeExact
  <2>5. CASE p # m.prop
    <3>1. p \notin live => p \notin live'
      BY <2>3, <2>5 DEF MarkLive
    <3>2. ~OwnerNews(1) /\ ~Invalid(1, p) /\ ~Changed(1, p) /\ ~Answers(1, pending)
      BY <2>1, <2>5 DEF OwnerNews, Invalid, Changed, Answers, Replied, Errored
    <3>3. QED
      BY <1>0, <1>p, <2>1, <2>3, <2>5, <3>1, <3>2, ReceiveKeepsPromise
  <2>6. QED
    BY <2>4, <2>5
<1>7. ASSUME NEW L, NEW t, GetAllProperties(L, t), pending = NoCall,
             currentOwner # 0
      PROVE  WillBeExact(p)'
  <2>1. pending' \in Calls
    BY <1>7 DEF GetAllProperties, FreeCalls
  <2>2. stage'[pending'] = "sent" /\ live' = {}
    BY <1>0, <1>7, <2>1, NoCallAssumption, DispatchedUnanswered
  <2>3. SnapshotComing(p)'
    BY <2>1, <2>2 DEF SnapshotComing
  <2>4. QED
    BY <2>3 DEF WillBeExact
<1>8. CASE PropertyInvalidated
  <2> DEFINE m == inbox[1]
  <2>1. /\ 1 \in Pos /\ Head(inbox) = m /\ m \in Message /\ m.type = "invalidated"
        /\ Receive("invalidated")
    BY <1>8, <1>0, ReceiveTakesFirst DEF PropertyInvalidated, TypeOK
  <2>2. /\ GetAllProperties(MarkLive(m.prop), timer)
        /\ UNCHANGED <<service, currentOwner, cache>> /\ owner # 0
    BY <1>8, <2>1 DEF PropertyInvalidated
  <2>3. CASE pending # NoCall
    BY <2>2, <2>3 DEF GetAllProperties, WillBeExact
  <2>4. CASE pending = NoCall /\ currentOwner # 0
    BY <2>2, <2>4, <1>7
  <2>5. CASE currentOwner = 0
    <3>1. NewsAfter(0, p)'
      BY <1>0, <2>1, <2>2, <2>5, UnknownOwnerIsNews
    <3>2. QED
      BY <3>1 DEF WillBeExact
  <2>6. QED
    BY <2>3, <2>4, <2>5
<1>9. CASE RefreshTimeout
  <2>1. /\ GetAllProperties(live, "off")
        /\ UNCHANGED <<service, inbox, currentOwner, cache>> /\ owner # 0
    BY <1>9 DEF RefreshTimeout
  <2>2. CASE pending # NoCall
    BY <2>1, <2>2 DEF GetAllProperties, WillBeExact
  <2>3. CASE pending = NoCall /\ currentOwner # 0
    BY <2>1, <2>3, <1>7
  <2>4. CASE currentOwner = 0
    <3>1. PICK i \in Pos : OwnerNews(i) /\ 0 < i
      BY <1>0, <2>1, <2>4 DEF OwnerIsKnown, Pos
    <3>2. NewsAfter(0, p)'
      BY <2>1, <3>1 DEF NewsAfter, OwnerNews, Pos
    <3>3. QED
      BY <3>2 DEF WillBeExact
  <2>5. QED
    BY <2>2, <2>3, <2>4
<1>10. CASE SnapshotArrives
  <2> DEFINE m == inbox[1]
  <2>1. /\ 1 \in Pos /\ Head(inbox) = m /\ m \in Message /\ m.type = "reply"
        /\ Receive("reply")
    BY <1>10, <1>0, ReceiveTakesFirst DEF SnapshotArrives, TypeOK
  <2>2. /\ m.call = pending /\ m.snapshot \in [Props -> Nat] /\ pending \in Calls
        /\ cache'[p] = IF p \in live THEN cache[p] ELSE m.snapshot[p]
        /\ timer' = TimerAfterSnapshot /\ UNCHANGED <<service, flight>> /\ owner # 0
    BY <1>10, <2>1, MessageFields DEF SnapshotArrives, UpdateProperties
  <2>3. /\ Replied(1, pending) /\ stage[pending] = "free"
        /\ \A i \in Pos : Answers(i, pending) => i = 1
    BY <1>0, <2>1, <2>2 DEF OneAnswer, Answers, Replied
  <2>4. CASE cache[p] = value[p]
    <3>1. p \notin live => value[p] <= m.snapshot[p] /\ m.snapshot[p] <= value[p]
      BY <1>0, <2>1, <2>3, <2>4 DEF SnapshotIsNewer, NotAhead
    <3>2. m.snapshot[p] \in Nat /\ value[p] \in Nat
      BY <1>t, <2>2
    <3>3. cache'[p] = value'[p]
      BY <2>2, <2>4, <3>1, <3>2
    <3>4. QED
      BY <3>3 DEF WillBeExact
  <2>5. CASE NewsAfter(0, p)
    <3>1. NewsAfter(0 + 1, p)
      BY <1>0, <2>1, <2>2, <2>5, NewsFirstOrLater DEF OwnerNews, Invalid, Changed
    <3>2. NewsAfter(0, p)'
      BY <1>0, <2>1, <2>2, <3>1, ReceiveKeepsNews
    <3>3. QED
      BY <3>2 DEF WillBeExact
  <2>6. CASE timer # "off" \/ refreshPending
    BY <2>2, <2>6 DEF TimerAfterSnapshot, WillBeExact
  <2>7. CASE SnapshotComing(p)
    <3>1. p \notin live /\ m.snapshot[p] = value[p]
      BY <2>3, <2>7 DEF SnapshotComing, Answers
    <3>2. QED
      BY <2>2, <3>1 DEF WillBeExact
  <2>8. ~\E i \in Pos : Errored(i, pending)
    BY <2>1, <2>3 DEF Errored, Answers
  <2>9. QED
    BY <1>p, <2>2, <2>4, <2>5, <2>6, <2>7, <2>8 DEF WillBeExact
<1>11. CASE SnapshotFails
  <2>1. /\ Receive("error") /\ owner # 0
        /\ timer' = TimerAfterFailure /\ UNCHANGED service
    BY <1>11 DEF SnapshotFails
  <2>2. CASE currentOwner # 0
    BY <2>1, <2>2 DEF TimerAfterFailure, WillBeExact
  <2>3. CASE currentOwner = 0
    <3>1. NewsAfter(0, p)'
      BY <1>0, <2>1, <2>3, UnknownOwnerIsNews
    <3>2. QED
      BY <3>1 DEF WillBeExact
  <2>4. QED
    BY <2>2, <2>3
<1>12. CASE AnswerDropped
  <2>1. PICK type \in {"reply", "error"} : Receive(type)
    BY <1>12 DEF AnswerDropped
  <2>2. inbox[1].type \in {"reply", "error"} /\ inbox[1].call # pending
    BY <1>0, <1>12, <2>1, ReceiveTakesFirst DEF AnswerDropped, TypeOK
  <2>3. ~OwnerNews(1) /\ ~Invalid(1, p) /\ ~Changed(1, p) /\ ~Answers(1, pending)
    BY <2>2 DEF OwnerNews, Invalid, Changed, Answers, Replied, Errored
  <2>4. UNCHANGED <<service, flight, client>> /\ owner # 0
    BY <1>12 DEF AnswerDropped
  <2>5. QED
    BY <1>0, <1>p, <2>1, <2>3, <2>4, ReceiveKeepsPromise
<1>13. CASE ServiceOwnerChanged
  <2>1. /\ Receive("owner") /\ Head(inbox) = inbox[1]
        /\ UNCHANGED service
        /\ timer' = IF inbox[1].owner # 0 THEN "now" ELSE "off"
    BY <1>0, <1>13, ReceiveTakesFirst DEF ServiceOwnerChanged, TypeOK
  <2>2. CASE inbox[1].owner # 0
    BY <2>1, <2>2 DEF WillBeExact
  <2>3. CASE inbox[1].owner = 0
    <3>1. NewsAfter(0, p)'
      BY <1>0, <2>1, <2>3, UnknownOwnerIsNews
    <3>2. QED
      BY <3>1 DEF WillBeExact
  <2>4. QED
    BY <2>2, <2>3
<1>14. CASE UNCHANGED vars
  BY <1>14, <1>p DEF vars, WillBeExact, NewsAfter, SnapshotComing, OwnerNews, Invalid,
     Changed, Replied, Errored, Pos
<1>15. QED
  BY <1>1, <1>2, <1>3, <1>4, <1>5, <1>6, <1>8, <1>9, <1>10, <1>11, <1>12, <1>13, <1>14
     DEF Next, ClientNext

LEMMA InitExact == Init => ExactInv
<1> SUFFICES ASSUME Init PROVE ExactInv
  OBVIOUS
<1>1. Pos = {}
  BY DEF Init, Pos
<1>2. OneAnswer /\ RefreshNeedsCall /\ OwnerIsKnown /\ LastOwnerNews /\ OldNewsFollowed
  BY <1>1 DEF Init, OneAnswer, RefreshNeedsCall, OwnerIsKnown, LastOwnerNews, OldNewsFollowed
<1>3. ASSUME owner # 0, NEW p \in Props PROVE SnapshotComing(p)
  BY <1>3 DEF Init, SnapshotComing
<1>4. QED
  BY <1>2, <1>3 DEF ExactInv, WillBeExact

LEMMA ExactStep == ForwardInv /\ ForwardInv' /\ ExactInv /\ [Next]_vars => ExactInv'
<1> SUFFICES ASSUME ForwardInv, ForwardInv', ExactInv, [Next]_vars PROVE ExactInv'
  OBVIOUS
<1>1. TypeOK /\ TypeOK'
  BY DEF ForwardInv
<1>2. OneAnswer' /\ OwnerIsKnown' /\ LastOwnerNews' /\ OldNewsFollowed'
  BY <1>1, OneAnswerStep, OwnerStep, OldNewsStep DEF ExactInv
<1>3. RefreshNeedsCall'
  <2> USE DEF RefreshNeedsCall, client
  <2>1. RefreshNeedsCall
    BY DEF ExactInv
  <2>2. ASSUME NEW L, NEW t, GetAllProperties(L, t) PROVE RefreshNeedsCall'
    BY <2>1, <2>2 DEF GetAllProperties
  <2>3. QED
    BY <2>1, <2>2 DEF Next, ClientNext, vars, ServiceUpdates, ServiceReads, ServiceReplies,
       CallFails, OwnerLeaves, OwnerArrives, PropertyChanged, PropertyInvalidated,
       SnapshotArrives, SnapshotFails, AnswerDropped, ServiceOwnerChanged, RefreshTimeout
<1>4. owner' # 0 => \A p \in Props : WillBeExact(p)'
  BY PromiseStep
<1>5. QED
  BY <1>2, <1>3, <1>4 DEF ExactInv

\* A client with nothing left to do has an exact cache: every update the
\* service announced, with or without its value, reached the cache or has a
\* refresh on its way, through failures and changes of owner.
THEOREM IdleCacheIsExact == Spec => []ExactWhenIdle
<1>1. ForwardInv /\ ExactInv => ExactWhenIdle
  <2> SUFFICES ASSUME ForwardInv, ExactInv, pending = NoCall, timer = "off",
                      inbox = << >>, owner # 0
               PROVE  cache = value
    BY DEF ExactWhenIdle
  <2>1. Pos = {}
    BY DEF Pos
  <2>2. \A p \in Props : cache[p] = value[p]
    BY <2>1, NoCallAssumption
       DEF ExactInv, WillBeExact, NewsAfter, SnapshotComing, RefreshNeedsCall
  <2>3. QED
    BY <2>2 DEF ForwardInv, TypeOK
<1>2. QED
  BY <1>1, InitExact, ExactStep, ForwardInvariant, PTL DEF Spec
==============================================================================
