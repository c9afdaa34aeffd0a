------------------------- MODULE CastingModelProofs --------------------------
(***************************************************************************)
(* Theorems about CastingModel for any sinks and any bounds.               *)
(***************************************************************************)
EXTENDS CastingModel, TLAPS

OwnerComes(queue) == \E k \in DOMAIN queue : queue[k].type = "owner"

\* There is no monitor, and no owner listened to, before the service answers.
QuietBefore == ~available => monitors = NoSinks /\ connected = None /\ ~OwnerComes(inbox)

CastingInv == TypeOK /\ QuietBefore /\ ConnectedIsMonitor

\* The connected monitor is there.
IsMonitor(current, list) == current = None \/ (current \in Sinks /\ list[current] # Absent)

------------------------------------------------------------------------------
(* Lemmas *)

\* The news that the service has started is still there when other news are added
\* or taken away.
LEMMA OwnerStillComes ==
  ASSUME NEW queue \in Seq(Message)
  PROVE  /\ \A m \in Message :
              /\ Append(queue, m) \in Seq(Message)
              /\ OwnerComes(Append(queue, m)) <=> OwnerComes(queue) \/ m.type = "owner"
         /\ queue # << >> =>
              /\ Tail(queue) \in Seq(Message) /\ Head(queue) \in Message
              /\ OwnerComes(queue) <=> OwnerComes(Tail(queue)) \/ Head(queue).type = "owner"
<1>1. ASSUME NEW m \in Message
      PROVE  /\ Append(queue, m) \in Seq(Message)
             /\ OwnerComes(Append(queue, m)) <=> OwnerComes(queue) \/ m.type = "owner"
  <2> DEFINE q == Append(queue, m)
  <2>1. /\ q \in Seq(Message) /\ Len(queue) + 1 \in DOMAIN q /\ q[Len(queue) + 1] = m
        /\ \A k \in DOMAIN queue : k \in DOMAIN q /\ q[k] = queue[k]
        /\ \A k \in DOMAIN q : k \in DOMAIN queue \/ k = Len(queue) + 1
    OBVIOUS
  <2> HIDE DEF q
  <2>2. OwnerComes(q) <=> OwnerComes(queue) \/ m.type = "owner"
    BY <2>1 DEF OwnerComes
  <2>3. QED
    BY <2>1, <2>2 DEF q
<1>2. ASSUME queue # << >>
      PROVE  /\ Tail(queue) \in Seq(Message) /\ Head(queue) \in Message
             /\ OwnerComes(queue) <=> OwnerComes(Tail(queue)) \/ Head(queue).type = "owner"
  <2> DEFINE t == Tail(queue)
  <2>1. /\ t \in Seq(Message) /\ Head(queue) \in Message /\ Head(queue) = queue[1]
        /\ 1 \in DOMAIN queue
    BY <1>2
  <2>2. \A k \in DOMAIN queue : k = 1 \/ (k - 1 \in DOMAIN t /\ t[k - 1] = queue[k])
    BY <1>2
  <2>3. \A k \in DOMAIN t : k + 1 \in DOMAIN queue /\ queue[k + 1] = t[k]
    BY <1>2
  <2> HIDE DEF t
  <2>4. OwnerComes(queue) <=> OwnerComes(t) \/ Head(queue).type = "owner"
    BY <2>1, <2>2, <2>3 DEF OwnerComes
  <2>5. QED
    BY <2>1, <2>4 DEF t
<1>3. QED
  BY <1>1, <1>2

\* What a sink list leaves connected is a monitor.
LEMMA UpdateConnectsMonitor ==
  ASSUME NEW known \in [Sinks -> Status \cup {Absent}], NEW list \in SUBSET Sinks,
         sinks \in [Sinks -> Status \cup {Absent}], UpdateSinkList(known, list)
  PROVE  /\ monitors' \in [Sinks -> Status \cup {Absent}]
         /\ connected' \in Sinks \cup {None} /\ IsMonitor(connected', monitors')
         /\ ignored' \subseteq Sinks
<1>1. \A s \in Sinks : MonitorFor(s) \in Status
  BY DEF MonitorFor, Status, Absent
<1>2. monitors' \in [Sinks -> Status \cup {Absent}]
  BY <1>1 DEF UpdateSinkList
<1>3. connected' = None \/ (connected' \in Sinks /\ monitors'[connected'] = "streaming")
  <2>1. connected' \in Streaming(monitors')
    BY DEF UpdateSinkList
  <2>2. QED
    BY <2>1 DEF Streaming
<1>4. ignored' \subseteq Sinks
  BY DEF UpdateSinkList
<1>5. QED
  BY <1>2, <1>3, <1>4 DEF IsMonitor, Absent

LEMMA StateForType ==
  ASSUME state \in CastingState, NEW a, NEW d, NEW e, NEW list, NEW current
  PROVE  StateFor(a, d, e, list, current) \in CastingState
BY DEF StateFor, CastingState

------------------------------------------------------------------------------
(* The invariant *)

LEMMA CastingInit == Init => CastingInv
<1> SUFFICES ASSUME Init PROVE CastingInv
  OBVIOUS
<1>1. sinks \in [Sinks -> Status \cup {Absent}] /\ monitors \in [Sinks -> Status \cup {Absent}]
  BY DEF Init, Status, NoSinks
<1>2. inbox \in Seq(Message) /\ starts \in 0..MaxStarts /\ state \in CastingState
  BY LimitAssumption DEF Init, CastingState
<1>3. TypeOK
  BY <1>1, <1>2 DEF Init, TypeOK
<1>4. QED
  BY <1>3 DEF Init, CastingInv, QuietBefore, ConnectedIsMonitor, OwnerComes

\* Steps of the service and of NetworkManager.
LEMMA EnvironmentStep ==
  ASSUME CastingInv, Environment
  PROVE  CastingInv'
<1> USE DEF CastingInv
<1>0. /\ Absent \notin Status /\ "disconnected" \in Status
      /\ \A s \in Sinks : Listed(sinks') \in SUBSET Sinks
  BY DEF Absent, Status, Listed
<1>1. CASE ServiceStops
  <2>1. NoSinks \in [Sinks -> Status \cup {Absent}]
    BY DEF NoSinks
  <2>2. QED
    BY <1>1, <2>1 DEF ServiceStops, model, network, setup, checks, mirror, TypeOK,
                      QuietBefore, ConnectedIsMonitor
<1>2. CASE ServiceStarts
  <2>1. [type |-> "owner"] \in Message
    BY DEF Message
  <2>2. inbox' \in Seq(Message)
    BY <1>2, <2>1, OwnerStillComes DEF ServiceStarts, Tell, TypeOK
  <2>3. IF available THEN OwnerComes(inbox') ELSE inbox' = inbox
    <3>1. CASE available
      <4>1. inbox' = Append(inbox, [type |-> "owner"])
        BY <1>2, <3>1 DEF ServiceStarts, Tell
      <4>2. QED
        BY <2>1, <3>1, <4>1, OwnerStillComes DEF TypeOK
    <3>2. CASE ~available
      BY <1>2, <3>2 DEF ServiceStarts
    <3>3. QED
      BY <3>1, <3>2
  <2>4. /\ starts' \in 0..MaxStarts /\ missing' \in Missing /\ sinks' = sinks /\ up'
        /\ UNCHANGED <<network, nmChanged, model>>
    BY <1>2, LimitAssumption DEF ServiceStarts, TypeOK
  <2>5. TypeOK'
    BY <2>2, <2>4 DEF model, network, setup, checks, mirror, TypeOK
  <2>6. QED
    BY <2>3, <2>4, <2>5 DEF model, setup, mirror, QuietBefore, ConnectedIsMonitor, OwnerComes
<1>3. ASSUME NEW m \in Message, m.type # "owner", Tell(m), up' = up, starts' = starts,
             UNCHANGED <<network, nmChanged, setup, needRefresh, mirror, state>>,
             sinks' \in [Sinks -> Status \cup {Absent}], missing' \in Missing,
             asking' \in BOOLEAN
      PROVE  CastingInv'
  <2>1. inbox' \in Seq(Message) /\ (OwnerComes(inbox) <=> OwnerComes(inbox'))
    BY <1>3, OwnerStillComes DEF Tell, TypeOK
  <2>2. TypeOK'
    BY <1>3, <2>1 DEF network, setup, checks, mirror, TypeOK
  <2>3. QED
    BY <1>3, <2>1, <2>2 DEF setup, mirror, QuietBefore, ConnectedIsMonitor, OwnerComes
<1>4. ASSUME NEW s \in Sinks, SinkAppears(s) \/ SinkVanishes(s) PROVE CastingInv'
  <2>1. sinks' \in [Sinks -> Status \cup {Absent}]
    BY <1>0, <1>4 DEF SinkAppears, SinkVanishes, TypeOK
  <2>2. [type |-> "list", sinks |-> Listed(sinks')] \in Message
    BY <1>0 DEF Message
  <2>3. QED
    BY <1>3, <1>4, <2>1, <2>2 DEF SinkAppears, SinkVanishes, model, TypeOK
<1>5. ASSUME NEW s \in Sinks, SinkMoves(s) PROVE CastingInv'
  <2>1. sinks' \in [Sinks -> Status \cup {Absent}] /\ sinks'[s] \in Status
    BY <1>5 DEF SinkMoves, TypeOK, Status
  <2>2. [type |-> "status", sink |-> s, status |-> sinks'[s]] \in Message
    BY <2>1 DEF Message
  <2>3. QED
    BY <1>3, <1>5, <2>1, <2>2 DEF SinkMoves, model, TypeOK
<1>6. CASE AnswersCall
  <2>1. [type |-> "answer"] \in Message
    BY DEF Message
  <2>2. QED
    BY <1>3, <1>6, <2>1 DEF AnswersCall, service, TypeOK
<1>7. CASE CapabilitiesChange
  <2>1. [type |-> "missing"] \in Message
    BY DEF Message
  <2>2. QED
    BY <1>3, <1>7, <2>1 DEF CapabilitiesChange, model, TypeOK
<1>8. CASE NetworkChanges
  BY <1>8 DEF NetworkChanges, service, model, setup, checks, mirror, TypeOK,
              QuietBefore, ConnectedIsMonitor
<1>9. QED
  BY <1>1, <1>2, <1>4, <1>5, <1>6, <1>7, <1>8 DEF Environment

\* Handlers that read the sinks anew.
LEMMA InitDataStep ==
  ASSUME CastingInv, NEW known \in [Sinks -> Status \cup {Absent}],
         NEW current \in Sinks \cup {None, Dangling}, InitData(known, current)
  PROVE  /\ monitors' \in [Sinks -> Status \cup {Absent}]
         /\ connected' \in Sinks \cup {None, Dangling}
         /\ subscribed' \in {subscribed, TRUE} /\ ignored' \subseteq Sinks
         /\ up => IsMonitor(connected', monitors')
<1>1. Listed(sinks) \in SUBSET Sinks
  BY DEF Listed
<1>2. CASE up
  BY <1>1, <1>2, UpdateConnectsMonitor DEF InitData, CastingInv, TypeOK
<1>3. CASE ~up
  BY <1>3 DEF InitData, CastingInv, TypeOK
<1>4. QED
  BY <1>2, <1>3 DEF CastingInv, TypeOK

\* Handlers of other news than the start of the service.
LEMMA HandlerStep ==
  ASSUME CastingInv, NEW type, type # "owner", Receive(type),
         UNCHANGED <<setup, subscribed>>,
         monitors' \in [Sinks -> Status \cup {Absent}],
         connected' \in Sinks \cup {None, Dangling}, ignored' \subseteq Sinks,
         IsMonitor(connected, monitors) => IsMonitor(connected', monitors'),
         available \/ UNCHANGED <<monitors, connected>>, state' \in CastingState
  PROVE  CastingInv'
<1>1. inbox' \in Seq(Message) /\ (OwnerComes(inbox) <=> OwnerComes(inbox'))
  BY OwnerStillComes DEF Receive, CastingInv, TypeOK
<1>2. TypeOK'
  BY <1>1 DEF Receive, service, network, setup, checks, CastingInv, TypeOK
<1>3. QED
  BY <1>1, <1>2 DEF Receive, service, setup, CastingInv, QuietBefore, ConnectedIsMonitor,
                    IsMonitor, OwnerComes

LEMMA ModelStep ==
  ASSUME CastingInv, [Next]_vars
  PROVE  CastingInv'
<1> USE DEF CastingInv
<1>0. NoSinks \in [Sinks -> Status \cup {Absent}] /\ Listed(sinks) \in SUBSET Sinks
  BY DEF NoSinks, Listed
<1>1. CASE ServiceAvailable
  <2>1. /\ inbox' \in Seq(Message)
    BY <1>1, OwnerStillComes DEF ServiceAvailable, Receive, TypeOK
  <2>2. /\ monitors' \in [Sinks -> Status \cup {Absent}]
        /\ connected' \in Sinks \cup {None, Dangling} /\ subscribed' \in {subscribed, TRUE}
        /\ ignored' \subseteq Sinks
        /\ up => IsMonitor(connected', monitors')
    BY <1>1, InitDataStep DEF ServiceAvailable, TypeOK
  <2>3. state' \in CastingState
    BY <1>1, StateForType DEF ServiceAvailable, CheckState, TypeOK
  <2>4. TypeOK'
    <3>1. /\ UNCHANGED <<up, starts, sinks, missing, device, enabled, nmChanged, asking, needRefresh>>
          /\ available' = TRUE /\ deviceCheck' = device /\ enabledCheck' = (device /\ enabled)
      BY <1>1 DEF ServiceAvailable, Receive, CheckWirelessDev, service, network
    <3>2. QED
      BY <2>1, <2>2, <2>3, <3>1 DEF TypeOK
  <2>5. QED
    BY <1>1, <2>2, <2>4 DEF ServiceAvailable, Receive, service, QuietBefore,
                            ConnectedIsMonitor, IsMonitor
<1>2. CASE ServiceUnavailable
  <2>1. /\ asking' = FALSE
        /\ UNCHANGED <<up, starts, sinks, missing, device, enabled, inbox, nmChanged, available,
                       deviceCheck, enabledCheck, needRefresh, subscribed, monitors, connected,
                       ignored, state>>
    BY <1>2 DEF ServiceUnavailable, service, network, setup, checks, mirror
  <2>2. TypeOK'
    BY <2>1 DEF TypeOK
  <2>3. QED
    BY <2>1, <2>2 DEF QuietBefore, ConnectedIsMonitor
<1>3. CASE OnDBusNameOwnerChanged
  <2>1. inbox' \in Seq(Message) /\ OwnerComes(inbox)
    BY <1>3, OwnerStillComes DEF OnDBusNameOwnerChanged, Receive, TypeOK
  <2>2. /\ monitors' \in [Sinks -> Status \cup {Absent}]
        /\ connected' \in Sinks \cup {None, Dangling} /\ subscribed' \in {subscribed, TRUE}
        /\ ignored' \subseteq Sinks
        /\ up => IsMonitor(connected', monitors')
    BY <1>0, <1>3, InitDataStep DEF OnDBusNameOwnerChanged
  <2>3. state' \in CastingState
    BY <1>3, StateForType DEF OnDBusNameOwnerChanged, CheckState, TypeOK
  <2>4. available
    BY <2>1 DEF QuietBefore
  <2>5. TypeOK'
    BY <1>3, <2>1, <2>2, <2>3, <2>4
       DEF OnDBusNameOwnerChanged, Receive, service, network, setup, checks, TypeOK
  <2>6. QED
    BY <1>3, <2>2, <2>4, <2>5 DEF OnDBusNameOwnerChanged, Receive, service, setup,
                                  QuietBefore, ConnectedIsMonitor, IsMonitor
<1>4. CASE SinkListChanged
  <2>1. CASE subscribed /\ needRefresh /\ UpdateSinkList(monitors, Head(inbox).sinks)
    <3>1. Head(inbox).sinks \in SUBSET Sinks
      BY <1>4, OwnerStillComes DEF SinkListChanged, Receive, TypeOK, Message
    <3>2. /\ monitors' \in [Sinks -> Status \cup {Absent}]
          /\ connected' \in Sinks \cup {None} /\ IsMonitor(connected', monitors')
          /\ ignored' \subseteq Sinks
      BY <2>1, <3>1, UpdateConnectsMonitor DEF TypeOK
    <3>3. available /\ state' \in CastingState /\ subscribed' = subscribed
      BY <1>4, <2>1, StateForType DEF SinkListChanged, CheckState, mirror, TypeOK
    <3>4. QED
      BY <1>4, <3>2, <3>3, HandlerStep DEF SinkListChanged
  <2>2. CASE UNCHANGED <<mirror, state>>
    BY <1>4, <2>2, HandlerStep DEF SinkListChanged, mirror, TypeOK, QuietBefore
  <2>3. QED
    BY <1>4, <2>1, <2>2 DEF SinkListChanged
<1>5. CASE MissingCapabilitiesChanged
  <2>1. state' \in CastingState
    BY <1>5, StateForType DEF MissingCapabilitiesChanged, CheckState, TypeOK
  <2>2. QED
    BY <1>5, <2>1, HandlerStep DEF MissingCapabilitiesChanged, mirror, TypeOK, QuietBefore
<1>6. CASE HandleMonitorStateChanged
  <2> DEFINE s == Head(inbox).sink
             status == Head(inbox).status
  <2>1. s \in Sinks /\ status \in Status /\ ignored' \subseteq Sinks
    BY <1>6, OwnerStillComes DEF HandleMonitorStateChanged, Receive, TypeOK, Message
  <2>2. CASE /\ monitors[s] \notin {Absent, status}
             /\ monitors' = [monitors EXCEPT ![s] = status]
             /\ connected' = CASE status = "streaming" -> s
                               [] status = "disconnected" /\ connected = s -> None
                               [] OTHER -> connected
             /\ CheckState
    <3>1. monitors' \in [Sinks -> Status \cup {Absent}] /\ monitors'[s] # Absent
      BY <2>1, <2>2 DEF TypeOK, Status, Absent
    <3>2. connected' \in {s, None, connected}
      BY <2>2
    <3>3. IsMonitor(connected, monitors) => IsMonitor(connected', monitors')
      BY <2>1, <2>2, <3>1, <3>2 DEF IsMonitor, TypeOK
    <3>4. state' \in CastingState
      BY <2>2, StateForType DEF CheckState, TypeOK
    <3>5. available
      BY <2>1, <2>2 DEF QuietBefore, NoSinks
    <3>6. QED
      BY <1>6, <2>1, <3>1, <3>2, <3>3, <3>4, <3>5, HandlerStep
         DEF HandleMonitorStateChanged, TypeOK
  <2>3. CASE UNCHANGED <<monitors, connected, state>>
    BY <1>6, <2>1, <2>3, HandlerStep DEF HandleMonitorStateChanged, TypeOK, QuietBefore
  <2>4. QED
    BY <1>6, <2>2, <2>3 DEF HandleMonitorStateChanged
<1>7. CASE WirelessChanged
  <2>1. state' \in CastingState
    BY <1>7, StateForType DEF WirelessChanged, CheckState, TypeOK
  <2>2. QED
    BY <1>7, <2>1 DEF WirelessChanged, CheckWirelessDev, service, network, mirror,
                      TypeOK, QuietBefore, ConnectedIsMonitor
<1>8. ASSUME NEW on \in BOOLEAN, EnableRefresh(on) PROVE CastingInv'
  <2>1. state' \in CastingState
    <3>1. \/ state' = StateFor(available, deviceCheck, enabledCheck, monitors', connected')
          \/ state' = state
      BY <1>8 DEF EnableRefresh, RefreshNow
    <3>2. QED
      BY <3>1, StateForType DEF TypeOK
  <2>2. /\ monitors' \in [Sinks -> Status \cup {Absent}]
        /\ connected' \in Sinks \cup {None, Dangling} /\ subscribed' = subscribed
        /\ ignored' \subseteq Sinks
        /\ IsMonitor(connected', monitors') \/ UNCHANGED <<monitors, connected>>
    BY <1>0, <1>8, UpdateConnectsMonitor DEF EnableRefresh, RefreshNow, mirror, TypeOK
  <2>3. /\ available /\ needRefresh' \in BOOLEAN
        /\ UNCHANGED <<service, network, inbox, nmChanged, asking, setup>>
    BY <1>8 DEF EnableRefresh, RefreshNow
  <2>4. TypeOK'
    BY <2>1, <2>2, <2>3 DEF service, network, setup, checks, TypeOK
  <2>5. QED
    BY <2>2, <2>3, <2>4 DEF service, setup, QuietBefore, ConnectedIsMonitor, IsMonitor
<1>9. CASE UNCHANGED vars
  BY <1>9 DEF vars, service, network, setup, checks, mirror, TypeOK, QuietBefore,
              ConnectedIsMonitor
<1>10. QED
  BY <1>1, <1>2, <1>3, <1>4, <1>5, <1>6, <1>7, <1>8, <1>9, EnvironmentStep DEF Next

LEMMA CastingInvariant == Spec => []CastingInv
<1>1. CastingInv /\ [Next]_vars => CastingInv'
  BY ModelStep
<1>2. QED
  BY <1>1, CastingInit, PTL DEF Spec

------------------------------------------------------------------------------
(* News that is on its way *)

Reads == {m \in Message : m.type \in {"answer", "owner"}}
Answers == {m \in Message : m.type = "answer"}
Lists == {m \in Message : m.type = "list"}
ListsOf(listed) == {m \in Lists : m.sinks = listed}
Statuses(s) == {m \in Message : m.type = "status" /\ m.sink = s}
StatusesOf(s, S) == {m \in Statuses(s) : m.status \in S}
Capabilities == {m \in Message : m.type = "missing"}

Has(queue, M) == \E k \in DOMAIN queue : queue[k] \in M

\* News that arrives after everything is read anew.
Fresh(queue, k) == \A l \in DOMAIN queue : queue[l] \in Reads => l < k

\* The last of the fresh news of the kind M, if there is any, is in T.
EndsIn(queue, M, T) ==
  (\E k \in DOMAIN queue : Fresh(queue, k) /\ queue[k] \in M) =>
     \E k \in DOMAIN queue : /\ Fresh(queue, k) /\ queue[k] \in T
                             /\ \A l \in DOMAIN queue : l > k => queue[l] \notin M

\* A sink that streams is disconnected before it has another status.
StreamEnds(queue, s) ==
  \A k, l \in DOMAIN queue :
    Fresh(queue, k) /\ queue[k] \in StatusesOf(s, {"streaming"}) /\ l > k /\ queue[l] \in Statuses(s)
      => \E n \in DOMAIN queue : n > k /\ queue[n] \in StatusesOf(s, {"disconnected"})

LEMMA AppendAt ==
  ASSUME NEW queue \in Seq(Message), NEW m \in Message, NEW longer, longer = Append(queue, m)
  PROVE  /\ longer \in Seq(Message) /\ Len(queue) + 1 \in DOMAIN longer
         /\ longer[Len(queue) + 1] = m /\ Len(queue) + 1 \in Nat
         /\ \A k \in DOMAIN queue : /\ k \in DOMAIN longer /\ longer[k] = queue[k]
                                    /\ k \in Nat /\ k < Len(queue) + 1
         /\ \A k \in DOMAIN longer : k \in DOMAIN queue \/ k = Len(queue) + 1
OBVIOUS

LEMMA TailAt ==
  ASSUME NEW queue \in Seq(Message), queue # << >>, NEW rest, rest = Tail(queue)
  PROVE  /\ rest \in Seq(Message) /\ Head(queue) \in Message /\ Head(queue) = queue[1]
         /\ 1 \in DOMAIN queue
         /\ \A k \in DOMAIN queue : /\ k \in Nat
                                    /\ k = 1 \/ (k - 1 \in DOMAIN rest /\ rest[k - 1] = queue[k] /\ k > 1)
         /\ \A k \in DOMAIN rest : k \in Nat /\ k > 0 /\ k + 1 \in DOMAIN queue /\ queue[k + 1] = rest[k]
OBVIOUS

LEMMA HasAppend ==
  ASSUME NEW queue \in Seq(Message), NEW m \in Message, NEW longer, longer = Append(queue, m), NEW M
  PROVE  Has(longer, M) <=> Has(queue, M) \/ m \in M
BY AppendAt DEF Has

LEMMA HasTail ==
  ASSUME NEW queue \in Seq(Message), queue # << >>, NEW rest, rest = Tail(queue), NEW M
  PROVE  Has(queue, M) <=> Has(rest, M) \/ Head(queue) \in M
<1>1. ASSUME Has(queue, M) PROVE Has(rest, M) \/ Head(queue) \in M
  <2>1. PICK k \in DOMAIN queue : queue[k] \in M
    BY <1>1 DEF Has
  <2>2. k = 1 \/ (k - 1 \in DOMAIN rest /\ rest[k - 1] = queue[k])
    BY TailAt
  <2>3. QED
    BY <2>1, <2>2, TailAt DEF Has
<1>2. ASSUME Has(rest, M) \/ Head(queue) \in M PROVE Has(queue, M)
  <2>1. CASE Head(queue) \in M
    BY <2>1, TailAt DEF Has
  <2>2. CASE Has(rest, M)
    <3>1. PICK k \in DOMAIN rest : rest[k] \in M
      BY <2>2 DEF Has
    <3>2. k + 1 \in DOMAIN queue /\ queue[k + 1] = rest[k]
      BY TailAt
    <3>3. QED
      BY <3>1, <3>2 DEF Has
  <2>3. QED
    BY <1>2, <2>1, <2>2
<1>3. QED
  BY <1>1, <1>2

LEMMA FreshAppend ==
  ASSUME NEW queue \in Seq(Message), NEW m \in Message, NEW longer, longer = Append(queue, m)
  PROVE  /\ m \in Reads => \A k \in DOMAIN longer : ~Fresh(longer, k)
         /\ m \notin Reads => /\ \A k \in DOMAIN queue : Fresh(longer, k) <=> Fresh(queue, k)
                              /\ Fresh(longer, Len(queue) + 1)
<1>1. ASSUME m \in Reads, NEW k \in DOMAIN longer PROVE ~Fresh(longer, k)
  <2>1. k \in Nat /\ k <= Len(queue) + 1
    BY AppendAt
  <2>2. QED
    BY <1>1, <2>1, AppendAt DEF Fresh
<1>2. ASSUME m \notin Reads
      PROVE  /\ \A k \in DOMAIN queue : Fresh(longer, k) <=> Fresh(queue, k)
             /\ Fresh(longer, Len(queue) + 1)
  BY <1>2, AppendAt DEF Fresh
<1>3. QED
  BY <1>1, <1>2

LEMMA FreshTail ==
  ASSUME NEW queue \in Seq(Message), queue # << >>, NEW rest, rest = Tail(queue)
  PROVE  \A k \in DOMAIN rest : Fresh(rest, k) <=> Fresh(queue, k + 1)
<1> SUFFICES ASSUME NEW k \in DOMAIN rest PROVE Fresh(rest, k) <=> Fresh(queue, k + 1)
  OBVIOUS
<1>1. k \in Nat /\ k > 0
  BY TailAt
<1>2. ASSUME Fresh(rest, k), NEW l \in DOMAIN queue, queue[l] \in Reads PROVE l < k + 1
  <2>1. l = 1 \/ (l \in Nat /\ l - 1 \in DOMAIN rest /\ rest[l - 1] \in Reads)
    BY <1>2, TailAt
  <2>2. l = 1 \/ (l \in Nat /\ l - 1 < k)
    BY <1>2, <2>1 DEF Fresh
  <2>3. QED
    BY <1>1, <2>2
<1>3. ASSUME Fresh(queue, k + 1), NEW l \in DOMAIN rest, rest[l] \in Reads PROVE l < k
  <2>1. l \in Nat /\ l + 1 \in DOMAIN queue /\ queue[l + 1] \in Reads
    BY <1>3, TailAt
  <2>2. l + 1 < k + 1
    BY <1>3, <2>1 DEF Fresh
  <2>3. QED
    BY <1>1, <2>1, <2>2
<1>4. QED
  BY <1>2, <1>3 DEF Fresh

LEMMA EndsAppend ==
  ASSUME NEW queue \in Seq(Message), NEW m \in Message, NEW longer, longer = Append(queue, m),
         NEW M, NEW T,
         \/ m \in Reads
         \/ m \in T
         \/ m \notin M /\ EndsIn(queue, M, T)
  PROVE  EndsIn(longer, M, T)
<1>1. CASE m \in Reads
  BY <1>1, FreshAppend DEF EndsIn
<1>2. CASE m \notin Reads /\ m \in T
  <2> DEFINE last == Len(queue) + 1
  <2>1. last \in DOMAIN longer /\ Fresh(longer, last) /\ longer[last] \in T
    BY <1>2, AppendAt, FreshAppend
  <2>2. \A l \in DOMAIN longer : ~(l > last)
    BY AppendAt
  <2>3. QED
    BY <2>1, <2>2 DEF EndsIn
<1>3. CASE m \notin Reads /\ m \notin M /\ EndsIn(queue, M, T)
  <2> SUFFICES ASSUME NEW k \in DOMAIN longer, Fresh(longer, k), longer[k] \in M
               PROVE  \E n \in DOMAIN longer :
                        /\ Fresh(longer, n) /\ longer[n] \in T
                        /\ \A l \in DOMAIN longer : l > n => longer[l] \notin M
    BY DEF EndsIn
  <2>1. k \in DOMAIN queue /\ Fresh(queue, k) /\ queue[k] \in M
    <3>1. k \in DOMAIN queue /\ longer[k] = queue[k]
      BY <1>3, AppendAt
    <3>2. QED
      BY <1>3, <3>1, FreshAppend
  <2>2. PICK n \in DOMAIN queue : /\ Fresh(queue, n) /\ queue[n] \in T
                                  /\ \A l \in DOMAIN queue : l > n => queue[l] \notin M
    BY <1>3, <2>1 DEF EndsIn
  <2>3. n \in DOMAIN longer /\ Fresh(longer, n) /\ longer[n] \in T
    <3>1. n \in DOMAIN longer /\ longer[n] = queue[n]
      BY AppendAt
    <3>2. QED
      BY <1>3, <2>2, <3>1, FreshAppend
  <2>4. \A l \in DOMAIN longer : l > n => longer[l] \notin M
    BY <1>3, <2>2, AppendAt
  <2>5. QED
    BY <2>3, <2>4
<1>4. QED
  BY <1>1, <1>2, <1>3

LEMMA EndsTail ==
  ASSUME NEW queue \in Seq(Message), queue # << >>, NEW rest, rest = Tail(queue),
         NEW M, NEW T, EndsIn(queue, M, T)
  PROVE  EndsIn(rest, M, T)
<1> SUFFICES ASSUME NEW k \in DOMAIN rest, Fresh(rest, k), rest[k] \in M
             PROVE  \E n \in DOMAIN rest :
                      /\ Fresh(rest, n) /\ rest[n] \in T
                      /\ \A l \in DOMAIN rest : l > n => rest[l] \notin M
  BY DEF EndsIn
<1>1. /\ k \in Nat /\ k > 0 /\ k + 1 \in DOMAIN queue
      /\ Fresh(queue, k + 1) /\ queue[k + 1] \in M
  <2>1. k \in Nat /\ k > 0 /\ k + 1 \in DOMAIN queue /\ queue[k + 1] \in M
    BY TailAt
  <2>2. QED
    BY <2>1, FreshTail
<1>2. PICK n \in DOMAIN queue : /\ Fresh(queue, n) /\ queue[n] \in T
                                /\ \A l \in DOMAIN queue : l > n => queue[l] \notin M
  BY <1>1 DEF EndsIn
<1>3. n \in Nat /\ n # 1
  BY <1>1, <1>2, TailAt
<1>4. n - 1 \in DOMAIN rest /\ rest[n - 1] \in T
  BY <1>2, <1>3, TailAt
<1>5. Fresh(rest, n - 1)
  <2>1. (n - 1) + 1 = n
    BY <1>3
  <2>2. QED
    BY <1>2, <1>4, <2>1, FreshTail
<1>6. ASSUME NEW l \in DOMAIN rest, l > n - 1 PROVE rest[l] \notin M
  BY <1>2, <1>3, <1>6, TailAt
<1>7. QED
  BY <1>4, <1>5, <1>6

\* When nothing will be read anew, the last news of a kind is what it ends in.
LEMMA EndsThere ==
  ASSUME NEW queue \in Seq(Message), NEW M, NEW T, EndsIn(queue, M, T), Has(queue, M),
         ~Has(queue, Reads)
  PROVE  Has(queue, T)
BY DEF EndsIn, Has, Fresh

LEMMA StreamAppend ==
  ASSUME NEW queue \in Seq(Message), NEW m \in Message, NEW longer, longer = Append(queue, m),
         NEW s \in Sinks, NEW status,
         \/ m \in Reads
         \/ /\ StreamEnds(queue, s)
            /\ \/ m \notin Statuses(s)
               \/ m \in StatusesOf(s, {"disconnected"})
               \/ status # "streaming" /\ EndsIn(queue, Statuses(s), StatusesOf(s, {status}))
  PROVE  StreamEnds(longer, s)
<1> SUFFICES ASSUME NEW k \in DOMAIN longer, NEW l \in DOMAIN longer, Fresh(longer, k),
                    longer[k] \in StatusesOf(s, {"streaming"}), l > k, longer[l] \in Statuses(s)
             PROVE  \E n \in DOMAIN longer : n > k /\ longer[n] \in StatusesOf(s, {"disconnected"})
  BY DEF StreamEnds
<1>1. m \notin Reads /\ StreamEnds(queue, s)
  BY FreshAppend
<1> DEFINE last == Len(queue) + 1
<1>2. k \in DOMAIN queue /\ Fresh(queue, k) /\ queue[k] \in StatusesOf(s, {"streaming"})
  <2>1. l \in Nat /\ l <= last /\ k \in Nat
    BY AppendAt
  <2>2. k \in DOMAIN queue /\ longer[k] = queue[k]
    BY <2>1, AppendAt
  <2>3. QED
    BY <1>1, <2>2, FreshAppend
<1>3. CASE l \in DOMAIN queue
  BY <1>1, <1>2, <1>3, AppendAt DEF StreamEnds
<1>4. CASE l = last /\ m \in StatusesOf(s, {"disconnected"})
  BY <1>4, AppendAt
<1>5. CASE l = last /\ status # "streaming" /\ EndsIn(queue, Statuses(s), StatusesOf(s, {status}))
  <2>1. queue[k] \in Statuses(s)
    BY <1>2 DEF StatusesOf
  <2>2. PICK n \in DOMAIN queue :
          /\ queue[n] \in StatusesOf(s, {status})
          /\ \A j \in DOMAIN queue : j > n => queue[j] \notin Statuses(s)
    BY <1>2, <1>5, <2>1 DEF EndsIn
  <2>3. n # k /\ ~(k > n)
    BY <1>2, <1>5, <2>1, <2>2 DEF StatusesOf
  <2>4. n > k /\ queue[n] \in Statuses(s)
    BY <1>2, <2>2, <2>3, AppendAt DEF StatusesOf
  <2>5. \E j \in DOMAIN queue : j > k /\ queue[j] \in StatusesOf(s, {"disconnected"})
    BY <1>1, <1>2, <2>4 DEF StreamEnds
  <2>6. QED
    BY <2>5, AppendAt
<1>6. QED
  BY <1>1, <1>3, <1>4, <1>5, AppendAt

LEMMA StreamTail ==
  ASSUME NEW queue \in Seq(Message), queue # << >>, NEW rest, rest = Tail(queue),
         NEW s, StreamEnds(queue, s)
  PROVE  StreamEnds(rest, s)
<1> SUFFICES ASSUME NEW k \in DOMAIN rest, NEW l \in DOMAIN rest, Fresh(rest, k),
                    rest[k] \in StatusesOf(s, {"streaming"}), l > k, rest[l] \in Statuses(s)
             PROVE  \E n \in DOMAIN rest : n > k /\ rest[n] \in StatusesOf(s, {"disconnected"})
  BY DEF StreamEnds
<1>1. /\ k + 1 \in DOMAIN queue /\ queue[k + 1] = rest[k] /\ Fresh(queue, k + 1) /\ k \in Nat /\ k > 0
      /\ l + 1 \in DOMAIN queue /\ queue[l + 1] = rest[l] /\ l \in Nat
  <2>1. /\ k + 1 \in DOMAIN queue /\ queue[k + 1] = rest[k] /\ k \in Nat /\ k > 0
        /\ l + 1 \in DOMAIN queue /\ queue[l + 1] = rest[l] /\ l \in Nat
    BY TailAt
  <2>2. QED
    BY <2>1, FreshTail
<1>2. l + 1 > k + 1
  BY <1>1
<1>3. PICK n \in DOMAIN queue : n > k + 1 /\ queue[n] \in StatusesOf(s, {"disconnected"})
  BY <1>1, <1>2 DEF StreamEnds
<1>4. n \in Nat /\ n - 1 \in DOMAIN rest /\ rest[n - 1] = queue[n]
  BY <1>1, <1>3, TailAt
<1>5. QED
  BY <1>1, <1>3, <1>4

LEMMA StreamHead ==
  ASSUME NEW queue \in Seq(Message), queue # << >>, NEW rest, rest = Tail(queue),
         NEW s, StreamEnds(queue, s), ~Has(queue, Reads),
         Head(queue) \in StatusesOf(s, {"streaming"}), Has(rest, Statuses(s))
  PROVE  Has(rest, StatusesOf(s, {"disconnected"}))
<1>1. Fresh(queue, 1) /\ 1 \in DOMAIN queue /\ queue[1] \in StatusesOf(s, {"streaming"})
  BY TailAt DEF Has, Fresh
<1>2. PICK l \in DOMAIN rest : rest[l] \in Statuses(s)
  BY DEF Has
<1>3. l + 1 \in DOMAIN queue /\ l + 1 > 1 /\ queue[l + 1] \in Statuses(s)
  BY <1>2, TailAt
<1>4. PICK n \in DOMAIN queue : n > 1 /\ queue[n] \in StatusesOf(s, {"disconnected"})
  BY <1>1, <1>3 DEF StreamEnds
<1>5. n - 1 \in DOMAIN rest /\ rest[n - 1] = queue[n]
  BY <1>4, TailAt
<1>6. QED
  BY <1>4, <1>5 DEF Has

------------------------------------------------------------------------------
(* What the model will know when the news has arrived *)

\* checkServiceAvailable() asks once.
OneAnswer ==
  /\ asking \/ available => ~Has(inbox, Answers)
  /\ available => ~asking
  /\ \A k, l \in DOMAIN inbox : inbox[k] \in Answers /\ inbox[l] \in Answers => k = l

\* The news ends in what the service has now.
Tracked == up /\ (available \/ Has(inbox, Answers))
NewsExact ==
  /\ EndsIn(inbox, Lists, ListsOf(Listed(sinks)))
  /\ \A s \in Sinks : /\ EndsIn(inbox, Statuses(s), StatusesOf(s, {MonitorFor(s)}))
                      /\ StreamEnds(inbox, s)

\* A monitor is exact, or news of its sink is on its way; one that streams, or is
\* taken to stream, does so, or will be told that it does or no longer does.
MonitorExact(s) == ~Has(inbox, Statuses(s)) => monitors[s] \in {Absent, MonitorFor(s)}
StreamComes(s) ==
  \/ Has(inbox, StatusesOf(s, {"streaming", "disconnected"}))
  \/ ~Has(inbox, Statuses(s)) /\ monitors[s] = "streaming"
ConnectedComes ==
  /\ connected \in Sinks \cup {None}
  /\ \A s \in Sinks :
       /\ monitors[s] = "streaming" \/ connected = s => StreamComes(s)
       /\ connected = s => monitors[s] \notin {Absent, "disconnected"}

\* Unless everything will be read anew, the mirror follows the news.
Following == up /\ available /\ ~Has(inbox, Reads)
MirrorComes ==
  /\ subscribed
  /\ needRefresh /\ ~Has(inbox, Lists) => Listed(monitors) = Listed(sinks)
  /\ \A s \in Sinks : MonitorExact(s)
  /\ ConnectedComes
StateComes ==
  ~Has(inbox, Capabilities)
    => state = StateFor(TRUE, deviceCheck, enabledCheck, monitors, connected)
ChecksCome == available /\ ~nmChanged => deviceCheck = device /\ enabledCheck = (device /\ enabled)

ExactInv ==
  /\ OneAnswer
  /\ Tracked => NewsExact
  /\ Following => MirrorComes /\ StateComes
  /\ ChecksCome

LEMMA ExactInit == Init => ExactInv
<1> SUFFICES ASSUME Init PROVE ExactInv
  OBVIOUS
<1>1. DOMAIN inbox = {} /\ ~available
  BY DEF Init
<1>2. QED
  BY <1>1 DEF ExactInv, OneAnswer, Tracked, Following, ChecksCome, Has

\* No owner is listened to before the service has answered.
LEMMA NoReads ==
  ASSUME CastingInv, NEW queue \in Seq(Message)
  PROVE  /\ Has(queue, Reads) <=> Has(queue, Answers) \/ OwnerComes(queue)
         /\ ~available => ~OwnerComes(inbox)
BY DEF Has, Reads, Answers, OwnerComes, CastingInv, QuietBefore

\* News is added.
LEMMA OneAnswerAdded ==
  ASSUME CastingInv, OneAnswer, NEW m \in Message, inbox' = Append(inbox, m),
         UNCHANGED available, asking' => asking, m \in Answers => asking /\ ~asking'
  PROVE  OneAnswer'
<1>0. inbox \in Seq(Message)
  BY DEF CastingInv, TypeOK
<1>1. Has(inbox', Answers) <=> Has(inbox, Answers) \/ m \in Answers
  BY <1>0, HasAppend
<1>2. \A k, l \in DOMAIN inbox' : inbox'[k] \in Answers /\ inbox'[l] \in Answers => k = l
  <2> SUFFICES ASSUME NEW k \in DOMAIN inbox', NEW l \in DOMAIN inbox',
                      inbox'[k] \in Answers, inbox'[l] \in Answers
               PROVE  k = l
    OBVIOUS
  <2>1. \A n \in DOMAIN inbox' : (n \in DOMAIN inbox /\ inbox'[n] = inbox[n])
                                   \/ (n = Len(inbox) + 1 /\ inbox'[n] = m)
    BY <1>0, AppendAt
  <2>2. m \in Answers => \A n \in DOMAIN inbox : inbox[n] \notin Answers
    BY DEF OneAnswer, Has
  <2>3. QED
    BY <2>1, <2>2 DEF OneAnswer
<1>3. QED
  BY <1>1, <1>2 DEF OneAnswer

\* News is taken.
LEMMA OneAnswerTaken ==
  ASSUME CastingInv, OneAnswer, inbox # << >>, inbox' = Tail(inbox), UNCHANGED asking,
         available' => available \/ Head(inbox) \in Answers
  PROVE  OneAnswer'
<1>0. inbox \in Seq(Message)
  BY DEF CastingInv, TypeOK
<1>1. Has(inbox, Answers) <=> Has(inbox', Answers) \/ Head(inbox) \in Answers
  BY <1>0, HasTail
<1>2. \A k, l \in DOMAIN inbox' : inbox'[k] \in Answers /\ inbox'[l] \in Answers => k = l
  <2> SUFFICES ASSUME NEW k \in DOMAIN inbox', NEW l \in DOMAIN inbox',
                      inbox'[k] \in Answers, inbox'[l] \in Answers
               PROVE  k = l
    OBVIOUS
  <2>1. /\ k \in Nat /\ k + 1 \in DOMAIN inbox /\ inbox[k + 1] = inbox'[k]
        /\ l \in Nat /\ l + 1 \in DOMAIN inbox /\ inbox[l + 1] = inbox'[l]
    BY <1>0, TailAt
  <2>2. k + 1 = l + 1
    BY <2>1 DEF OneAnswer
  <2>3. QED
    BY <2>1, <2>2
<1>3. Head(inbox) \in Answers => ~Has(inbox', Answers)
  <2> SUFFICES ASSUME Head(inbox) \in Answers, NEW k \in DOMAIN inbox', inbox'[k] \in Answers
               PROVE  FALSE
    BY DEF Has
  <2>1. /\ k \in Nat /\ k > 0 /\ k + 1 \in DOMAIN inbox /\ inbox[k + 1] = inbox'[k]
        /\ 1 \in DOMAIN inbox /\ inbox[1] = Head(inbox)
    BY <1>0, TailAt
  <2>2. k + 1 = 1
    BY <2>1 DEF OneAnswer
  <2>3. QED
    BY <2>1, <2>2
<1>4. QED
  BY <1>1, <1>2, <1>3 DEF OneAnswer

LEMMA NewsTaken ==
  ASSUME CastingInv, ExactInv, inbox # << >>, inbox' = Tail(inbox), UNCHANGED service,
         available' => available \/ Head(inbox) \in Answers
  PROVE  Tracked' => NewsExact'
<1>0. inbox \in Seq(Message)
  BY DEF CastingInv, TypeOK
<1>1. SUFFICES ASSUME Tracked' PROVE NewsExact'
  OBVIOUS
<1>2. Has(inbox, Answers) <=> Has(inbox', Answers) \/ Head(inbox) \in Answers
  BY <1>0, HasTail
<1>3. NewsExact
  BY <1>1, <1>2 DEF Tracked, service, ExactInv
<1>4. Listed(sinks)' = Listed(sinks) /\ \A s \in Sinks : MonitorFor(s)' = MonitorFor(s)
  BY DEF service, Listed, MonitorFor
<1>5. EndsIn(inbox', Lists, ListsOf(Listed(sinks)))
  BY <1>0, <1>3, EndsTail DEF NewsExact
<1>6. ASSUME NEW s \in Sinks
      PROVE  EndsIn(inbox', Statuses(s), StatusesOf(s, {MonitorFor(s)})) /\ StreamEnds(inbox', s)
  BY <1>0, <1>3, EndsTail, StreamTail DEF NewsExact
<1>7. QED
  BY <1>4, <1>5, <1>6 DEF NewsExact

\* News of another kind than the service's answer or start is added: the sinks
\* change as it says, and one that streams is disconnected.
Announced(m) ==
  /\ inbox' = Append(inbox, m) /\ UNCHANGED <<up, network, nmChanged, model>>
  /\ m \notin Reads
  /\ m \in Capabilities \/ missing' = missing
  /\ m \in ListsOf(Listed(sinks')) \/ (m \notin Lists /\ Listed(sinks') = Listed(sinks))
  /\ \A s \in Sinks :
       \/ /\ m \in StatusesOf(s, {MonitorFor(s)'})
          /\ MonitorFor(s) = "streaming" => MonitorFor(s)' = "disconnected"
       \/ m \notin Statuses(s) /\ MonitorFor(s)' = MonitorFor(s)

LEMMA NewsAnnounced ==
  ASSUME CastingInv, ExactInv, NEW m \in Message, Announced(m), Tracked
  PROVE  NewsExact'
<1>0. inbox \in Seq(Message) /\ inbox' = Append(inbox, m) /\ m \notin Reads /\ NewsExact
  BY DEF CastingInv, TypeOK, Announced, ExactInv
<1>1. EndsIn(inbox', Lists, ListsOf(Listed(sinks')))
  <2>1. m \in ListsOf(Listed(sinks')) \/ (m \notin Lists /\ Listed(sinks') = Listed(sinks))
    BY DEF Announced
  <2>2. CASE m \in ListsOf(Listed(sinks'))
    BY <1>0, <2>2, EndsAppend
  <2>3. CASE m \notin Lists /\ Listed(sinks') = Listed(sinks)
    <3>1. EndsIn(inbox, Lists, ListsOf(Listed(sinks')))
      BY <1>0, <2>3 DEF NewsExact
    <3>2. QED
      BY <1>0, <2>3, <3>1, EndsAppend
  <2>4. QED
    BY <2>1, <2>2, <2>3
<1>2. ASSUME NEW s \in Sinks
      PROVE  EndsIn(inbox', Statuses(s), StatusesOf(s, {MonitorFor(s)'})) /\ StreamEnds(inbox', s)
  <2>0. EndsIn(inbox, Statuses(s), StatusesOf(s, {MonitorFor(s)})) /\ StreamEnds(inbox, s)
    BY <1>0 DEF NewsExact
  <2>1. CASE /\ m \in StatusesOf(s, {MonitorFor(s)'})
             /\ MonitorFor(s) = "streaming" => MonitorFor(s)' = "disconnected"
    <3>1. EndsIn(inbox', Statuses(s), StatusesOf(s, {MonitorFor(s)'}))
      BY <1>0, <2>1, EndsAppend
    <3>2. CASE MonitorFor(s)' = "disconnected"
      BY <1>0, <2>0, <2>1, <3>1, <3>2, StreamAppend
    <3>3. CASE MonitorFor(s) # "streaming"
      BY <1>0, <2>0, <3>1, <3>3, StreamAppend
    <3>4. QED
      BY <2>1, <3>2, <3>3
  <2>2. CASE m \notin Statuses(s) /\ MonitorFor(s)' = MonitorFor(s)
    <3>1. EndsIn(inbox, Statuses(s), StatusesOf(s, {MonitorFor(s)'}))
      BY <2>0, <2>2
    <3>2. EndsIn(inbox', Statuses(s), StatusesOf(s, {MonitorFor(s)'}))
      BY <1>0, <2>2, <3>1, EndsAppend
    <3>3. QED
      BY <1>0, <2>0, <2>2, <3>2, StreamAppend
  <2>3. QED
    BY <2>1, <2>2 DEF Announced
<1>3. QED
  BY <1>1, <1>2 DEF NewsExact

LEMMA MirrorAnnounced ==
  ASSUME CastingInv, ExactInv, NEW m \in Message, Announced(m), Following
  PROVE  MirrorComes' /\ StateComes'
<1>0. /\ inbox \in Seq(Message) /\ inbox' = Append(inbox, m) /\ m \notin Reads
      /\ MirrorComes /\ StateComes
      /\ UNCHANGED <<up, subscribed, needRefresh, monitors, connected, state, checks>>
  BY DEF CastingInv, TypeOK, Announced, ExactInv, model, setup, mirror
<1>1. \A M : Has(inbox', M) <=> Has(inbox, M) \/ m \in M
  BY <1>0, HasAppend
<1>2. needRefresh' /\ ~Has(inbox', Lists) => Listed(monitors)' = Listed(sinks)'
  <2>1. Listed(monitors)' = Listed(monitors) /\ Listed(sinks)' = Listed(sinks')
    BY <1>0 DEF Listed
  <2>2. m \notin Lists => Listed(sinks') = Listed(sinks)
    BY DEF Announced, ListsOf
  <2>3. QED
    BY <1>0, <1>1, <2>1, <2>2 DEF MirrorComes
<1>3. ASSUME NEW s \in Sinks
      PROVE  /\ MonitorExact(s)'
             /\ monitors'[s] = "streaming" \/ connected' = s => StreamComes(s)'
             /\ connected' = s => monitors'[s] \notin {Absent, "disconnected"}
  <2>0. /\ MonitorExact(s)
        /\ monitors[s] = "streaming" \/ connected = s => StreamComes(s)
        /\ connected = s => monitors[s] \notin {Absent, "disconnected"}
    BY <1>0 DEF MirrorComes, ConnectedComes
  <2>1. m \in StatusesOf(s, {MonitorFor(s)'}) \/ MonitorFor(s)' = MonitorFor(s)
    BY DEF Announced
  <2>2. m \in StatusesOf(s, {MonitorFor(s)'}) => m \in Statuses(s)
    BY DEF StatusesOf
  <2>3. MonitorExact(s)'
    BY <1>0, <1>1, <2>0, <2>1, <2>2 DEF MonitorExact
  <2>4. StreamComes(s) => StreamComes(s)'
    <3>1. CASE Has(inbox, StatusesOf(s, {"streaming", "disconnected"}))
      BY <1>1, <3>1 DEF StreamComes
    <3>2. CASE ~Has(inbox, Statuses(s)) /\ monitors[s] = "streaming" /\ m \notin Statuses(s)
      BY <1>0, <1>1, <3>2 DEF StreamComes
    <3>3. CASE ~Has(inbox, Statuses(s)) /\ monitors[s] = "streaming" /\ m \in Statuses(s)
      <4>1. MonitorFor(s) = "streaming"
        BY <2>0, <3>3 DEF MonitorExact, Absent
      <4>2. m \in StatusesOf(s, {"disconnected"})
        BY <3>3, <4>1 DEF Announced
      <4>3. m \in StatusesOf(s, {"streaming", "disconnected"})
        BY <4>2 DEF StatusesOf
      <4>4. QED
        BY <1>1, <4>3 DEF StreamComes
    <3>4. QED
      BY <3>1, <3>2, <3>3 DEF StreamComes
  <2>5. QED
    BY <1>0, <2>0, <2>3, <2>4
<1>4. MirrorComes'
  BY <1>0, <1>2, <1>3 DEF MirrorComes, ConnectedComes
<1>5. StateComes'
  <2> SUFFICES ASSUME ~Has(inbox', Capabilities)
               PROVE  state' = StateFor(TRUE, deviceCheck, enabledCheck, monitors, connected)'
    BY DEF StateComes
  <2>1. ~Has(inbox, Capabilities) /\ missing' = missing
    BY <1>1 DEF Announced
  <2>2. Listed(monitors)' = Listed(monitors)
    BY <1>0 DEF Listed
  <2>3. QED
    BY <1>0, <2>1, <2>2 DEF StateComes, StateFor, checks
<1>6. QED
  BY <1>4, <1>5

LEMMA ExactAnnounced ==
  ASSUME CastingInv, ExactInv, NEW m \in Message, Announced(m)
  PROVE  ExactInv'
<1>0. /\ inbox \in Seq(Message) /\ inbox' = Append(inbox, m) /\ m \notin Reads
      /\ UNCHANGED <<up, asking, available, network, checks, nmChanged>>
  BY DEF CastingInv, TypeOK, Announced, model, setup
<1>1. m \notin Answers
  BY <1>0 DEF Reads, Answers
<1>2. OneAnswer'
  BY <1>0, <1>1, OneAnswerAdded DEF ExactInv
<1>3. Tracked' => Tracked
  BY <1>0, <1>1, HasAppend DEF Tracked
<1>4. Following' => Following
  BY <1>0, HasAppend DEF Following
<1>5. ChecksCome'
  BY <1>0 DEF ExactInv, ChecksCome, network, checks
<1>6. QED
  BY <1>2, <1>3, <1>4, <1>5, NewsAnnounced, MirrorAnnounced DEF ExactInv

\* News that everything is to be read is added.
LEMMA ReadAnnounced ==
  ASSUME CastingInv, ExactInv, NEW m \in Message, m \in Reads, inbox' = Append(inbox, m),
         UNCHANGED <<available, network, nmChanged, checks>>,
         asking' => asking, m \in Answers => asking /\ ~asking'
  PROVE  ExactInv'
<1>0. inbox \in Seq(Message)
  BY DEF CastingInv, TypeOK
<1>1. OneAnswer'
  BY OneAnswerAdded DEF ExactInv
<1>2. Has(inbox', Reads)
  BY <1>0, HasAppend
<1>3. NewsExact'
  <2>1. \A M, T : EndsIn(inbox', M, T)
    BY <1>0, EndsAppend
  <2>2. \A s \in Sinks : StreamEnds(inbox', s)
    BY <1>0, StreamAppend
  <2>3. QED
    BY <2>1, <2>2 DEF NewsExact
<1>4. ChecksCome'
  BY DEF ExactInv, ChecksCome, network, checks
<1>5. QED
  BY <1>1, <1>2, <1>3, <1>4 DEF ExactInv, Following

\* Steps of the service that change what the model mirrors say so.
LEMMA EnvironmentAnnounces ==
  ASSUME CastingInv,
         \/ \E s \in Sinks : SinkAppears(s) \/ SinkVanishes(s) \/ SinkMoves(s)
         \/ CapabilitiesChange
  PROVE  \E m \in Message : Announced(m)
<1>0. /\ sinks \in [Sinks -> Status \cup {Absent}] /\ Absent \notin Status
      /\ "disconnected" \in Status
  BY DEF CastingInv, TypeOK, Absent, Status
<1>1. ASSUME NEW s \in Sinks, SinkAppears(s) \/ SinkVanishes(s)
      PROVE  \E m \in Message : Announced(m)
  <2> DEFINE m == [type |-> "list", sinks |-> Listed(sinks')]
  <2>1. m \in Message /\ m \in ListsOf(Listed(sinks'))
    BY DEF Message, Lists, ListsOf, Listed
  <2>2. m \notin Reads /\ \A r \in Sinks : m \notin Statuses(r)
    BY DEF Reads, Statuses
  <2>3. \A r \in Sinks : MonitorFor(r)' = MonitorFor(r)
    BY <1>0, <1>1 DEF SinkAppears, SinkVanishes, MonitorFor
  <2>4. /\ inbox' = Append(inbox, m)
        /\ UNCHANGED <<up, missing, network, nmChanged, model>>
    BY <1>1 DEF SinkAppears, SinkVanishes, Tell
  <2>5. Announced(m)
    BY <2>1, <2>2, <2>3, <2>4 DEF Announced
  <2>6. QED
    BY <2>1, <2>5
<1>2. ASSUME NEW s \in Sinks, SinkMoves(s) PROVE \E m \in Message : Announced(m)
  <2> DEFINE m == [type |-> "status", sink |-> s, status |-> sinks'[s]]
  <2>1. /\ sinks[s] \in Status /\ sinks'[s] \in Status
        /\ sinks[s] = "streaming" => sinks'[s] = "disconnected"
        /\ sinks' = [sinks EXCEPT ![s] = sinks'[s]]
    BY <1>0, <1>2 DEF SinkMoves, Status
  <2>2. /\ m \in Message /\ m \notin Reads /\ m \notin Lists
        /\ m \in StatusesOf(s, {sinks'[s]}) /\ \A r \in Sinks \ {s} : m \notin Statuses(r)
    BY <2>1 DEF Message, Reads, Lists, Statuses, StatusesOf
  <2>3. Listed(sinks') = Listed(sinks)
    BY <1>0, <2>1 DEF Listed
  <2>4. /\ MonitorFor(s) = sinks[s] /\ MonitorFor(s)' = sinks'[s]
        /\ \A r \in Sinks \ {s} : MonitorFor(r)' = MonitorFor(r)
    BY <1>0, <2>1 DEF MonitorFor
  <2>5. /\ inbox' = Append(inbox, m)
        /\ UNCHANGED <<up, missing, network, nmChanged, model>>
    BY <1>2 DEF SinkMoves, Tell
  <2> HIDE DEF m
  <2>6. Announced(m)
    BY <2>1, <2>2, <2>3, <2>4, <2>5 DEF Announced
  <2>7. QED
    BY <2>2, <2>6
<1>3. ASSUME CapabilitiesChange PROVE \E m \in Message : Announced(m)
  <2> DEFINE m == [type |-> "missing"]
  <2>1. /\ m \in Message /\ m \notin Reads /\ m \notin Lists /\ m \in Capabilities
        /\ \A s \in Sinks : m \notin Statuses(s)
    BY DEF Message, Reads, Lists, Capabilities, Statuses
  <2>2. /\ inbox' = Append(inbox, m)
        /\ UNCHANGED <<up, sinks, network, nmChanged, model>>
    BY <1>3 DEF CapabilitiesChange, Tell
  <2>3. /\ Listed(sinks') = Listed(sinks)
        /\ \A s \in Sinks : MonitorFor(s)' = MonitorFor(s)
    BY <2>2 DEF MonitorFor
  <2> HIDE DEF m
  <2>4. Announced(m)
    BY <2>1, <2>2, <2>3 DEF Announced
  <2>5. QED
    BY <2>1, <2>4
<1>4. QED
  BY <1>1, <1>2, <1>3

LEMMA EnvironmentExact ==
  ASSUME CastingInv, ExactInv, Environment
  PROVE  ExactInv'
<1>1. CASE ServiceStops
  BY <1>1 DEF ServiceStops, model, network, setup, checks, ExactInv, OneAnswer, Tracked,
              Following, ChecksCome
<1>2. CASE ServiceStarts
  <2>0. UNCHANGED <<asking, available, network, checks, nmChanged>>
    BY <1>2 DEF ServiceStarts, model, setup
  <2>1. CASE available
    <3>1. inbox' = Append(inbox, [type |-> "owner"])
      BY <1>2, <2>1 DEF ServiceStarts, Tell
    <3>2. /\ [type |-> "owner"] \in Message /\ [type |-> "owner"] \in Reads
          /\ [type |-> "owner"] \notin Answers
      BY DEF Message, Reads, Answers
    <3>3. QED
      BY <2>0, <3>1, <3>2, ReadAnnounced
  <2>2. CASE ~available
    <3>1. inbox' = inbox /\ ~Has(inbox, Answers)
      BY <1>2, <2>2 DEF ServiceStarts, Has, Answers
    <3>2. QED
      BY <2>0, <2>2, <3>1 DEF ExactInv, OneAnswer, Tracked, Following, ChecksCome, checks, network
  <2>3. QED
    BY <2>1, <2>2
<1>3. ASSUME \/ \E s \in Sinks : SinkAppears(s) \/ SinkVanishes(s) \/ SinkMoves(s)
             \/ CapabilitiesChange
      PROVE  ExactInv'
  BY <1>3, EnvironmentAnnounces, ExactAnnounced
<1>4. CASE AnswersCall
  <2>1. [type |-> "answer"] \in Message /\ [type |-> "answer"] \in Reads
    BY DEF Message, Reads
  <2>2. inbox' = Append(inbox, [type |-> "answer"]) /\ asking /\ ~asking'
        /\ UNCHANGED <<available, network, nmChanged, checks>>
    BY <1>4 DEF AnswersCall, Tell, setup
  <2>3. [type |-> "answer"] \in Answers
    BY <2>1 DEF Answers
  <2>4. QED
    BY <2>1, <2>2, <2>3, ReadAnnounced
<1>5. CASE NetworkChanges
  <2>1. /\ UNCHANGED <<service, inbox, model>> /\ nmChanged' = available
    BY <1>5 DEF NetworkChanges
  <2>2. UNCHANGED <<asking, available, needRefresh, monitors, connected, subscribed, checks, state>>
    BY <2>1 DEF model, setup, mirror
  <2>3. OneAnswer' /\ (Tracked' => NewsExact') /\ ChecksCome'
    BY <2>1, <2>2 DEF ExactInv, OneAnswer, Tracked, NewsExact, ChecksCome, Has, EndsIn, Fresh,
                      StreamEnds, MonitorFor, Listed, service
  <2>4. Following' => MirrorComes' /\ StateComes'
    BY <2>1, <2>2 DEF ExactInv, Following, MirrorComes, MonitorExact, ConnectedComes,
                      StreamComes, StateComes, StateFor, MonitorFor, Listed, service, checks, Has
  <2>5. QED
    BY <2>3, <2>4 DEF ExactInv
<1>6. QED
  BY <1>1, <1>2, <1>3, <1>4, <1>5 DEF Environment

\* The mirror takes a list that is what the service has, or that another follows.
LEMMA MirrorRead ==
  ASSUME CastingInv, NewsExact', UNCHANGED sinks, inbox' \in Seq(Message), ~Has(inbox', Reads),
         NEW known \in [Sinks -> Status \cup {Absent}], NEW list \in SUBSET Sinks,
         UpdateSinkList(known, list),
         list = Listed(sinks) \/ Has(inbox', Lists), subscribed',
         \A s \in Sinks :
           /\ ~Has(inbox', Statuses(s)) => known[s] \in {Absent, MonitorFor(s)}
           /\ known[s] = "streaming" /\ Has(inbox', Statuses(s))
                => Has(inbox', StatusesOf(s, {"streaming", "disconnected"}))
  PROVE  MirrorComes'
<1>0. /\ \A s \in Sinks : MonitorFor(s) \in Status
      /\ \A s \in Sinks : MonitorFor(s)' = MonitorFor(s)
      /\ Listed(sinks)' = Listed(sinks)
  BY DEF MonitorFor, Listed, CastingInv, TypeOK, Status, Absent
<1>1. \A s \in Sinks : monitors'[s] = IF s \notin list THEN Absent
                                      ELSE IF known[s] = Absent THEN MonitorFor(s) ELSE known[s]
  BY DEF UpdateSinkList
<1>2. Listed(monitors)' = list
  BY <1>0, <1>1 DEF Listed, Status, Absent
<1>3. connected' = None \/ (connected' \in Sinks /\ monitors'[connected'] = "streaming")
  BY DEF UpdateSinkList, Streaming
<1>4. ASSUME NEW s \in Sinks PROVE MonitorExact(s)'
  BY <1>0, <1>1 DEF MonitorExact
<1>5. ASSUME NEW s \in Sinks, monitors'[s] = "streaming" PROVE StreamComes(s)'
  <2>1. CASE ~Has(inbox', Statuses(s))
    BY <1>5, <2>1 DEF StreamComes
  <2>2. CASE Has(inbox', Statuses(s)) /\ known[s] = "streaming"
    BY <2>2 DEF StreamComes
  <2>3. CASE Has(inbox', Statuses(s)) /\ MonitorFor(s) = "streaming"
    <3>1. EndsIn(inbox', Statuses(s), StatusesOf(s, {"streaming"}))
      BY <1>0, <2>3 DEF NewsExact
    <3>2. Has(inbox', StatusesOf(s, {"streaming"}))
      BY <2>3, <3>1, EndsThere
    <3>3. StatusesOf(s, {"streaming"}) \subseteq StatusesOf(s, {"streaming", "disconnected"})
      BY DEF StatusesOf
    <3>4. QED
      BY <3>2, <3>3 DEF StreamComes, Has
  <2>4. QED
    BY <1>1, <1>5, <2>1, <2>2, <2>3 DEF Absent
<1>6. ConnectedComes'
  BY <1>3, <1>5, SinksAssumption DEF ConnectedComes, Absent
<1>7. QED
  BY <1>0, <1>2, <1>4, <1>6 DEF MirrorComes

\* checkState()
LEMMA StateChecked ==
  ASSUME UNCHANGED <<up, missing>>, up, available',
         state' = StateFor(TRUE, deviceCheck', enabledCheck', monitors', connected')
  PROVE  StateComes'
BY DEF StateComes, StateFor, Listed

\* Everything is read anew.
LEMMA InitDataExact ==
  ASSUME CastingInv, NewsExact', UNCHANGED service, inbox' \in Seq(Message), available',
         NEW current, InitData(NoSinks, current), CheckState, available' = TRUE
  PROVE  Following' => MirrorComes' /\ StateComes'
<1> SUFFICES ASSUME Following' PROVE MirrorComes' /\ StateComes'
  OBVIOUS
<1>1. up /\ ~Has(inbox', Reads) /\ UNCHANGED <<up, missing, sinks>>
  BY DEF Following, service
<1>2. UpdateSinkList(NoSinks, Listed(sinks)) /\ subscribed'
  BY <1>1 DEF InitData
<1>3. /\ NoSinks \in [Sinks -> Status \cup {Absent}] /\ Listed(sinks) \in SUBSET Sinks
      /\ \A s \in Sinks : NoSinks[s] = Absent /\ Absent # "streaming"
  BY DEF NoSinks, Listed, Absent
<1>4. MirrorComes'
  BY <1>1, <1>2, <1>3, MirrorRead
<1>5. StateComes'
  BY <1>1, StateChecked DEF CheckState
<1>6. QED
  BY <1>4, <1>5

\* News is handled by the model.
LEMMA Handled ==
  ASSUME CastingInv, ExactInv, NEW type, Receive(type)
  PROVE  /\ inbox \in Seq(Message) /\ inbox' \in Seq(Message) /\ Head(inbox) \in Message
         /\ inbox # << >> /\ inbox' = Tail(inbox) /\ Head(inbox).type = type
         /\ UNCHANGED <<service, network, nmChanged, asking, needRefresh>>
         /\ \A M : Has(inbox, M) <=> Has(inbox', M) \/ Head(inbox) \in M
<1>1. /\ inbox \in Seq(Message) /\ inbox # << >> /\ inbox' = Tail(inbox)
      /\ Head(inbox).type = type
      /\ UNCHANGED <<service, network, nmChanged, asking, needRefresh>>
  BY DEF Receive, CastingInv, TypeOK
<1>2. inbox' \in Seq(Message) /\ Head(inbox) \in Message
  BY <1>1, TailAt
<1>3. ASSUME NEW M PROVE Has(inbox, M) <=> Has(inbox', M) \/ Head(inbox) \in M
  BY <1>1, HasTail
<1>4. QED
  BY <1>1, <1>2, <1>3

LEMMA ServiceAvailableExact ==
  ASSUME CastingInv, CastingInv', ExactInv, ServiceAvailable
  PROVE  ExactInv'
<1>1. /\ inbox \in Seq(Message) /\ inbox' \in Seq(Message) /\ Head(inbox) \in Answers
      /\ inbox # << >> /\ inbox' = Tail(inbox)
      /\ UNCHANGED <<service, network, nmChanged, asking, needRefresh>>
      /\ Has(inbox, Answers)
  BY Handled DEF ServiceAvailable, Answers
<1>2. available' = TRUE /\ CheckWirelessDev /\ InitData(monitors, connected) /\ CheckState
  BY DEF ServiceAvailable
<1>3. OneAnswer'
  BY <1>1, OneAnswerTaken DEF ExactInv
<1>4. Tracked' => NewsExact'
  BY <1>1, NewsTaken
<1>5. ~available
  BY <1>1 DEF ExactInv, OneAnswer
<1>6. monitors = NoSinks
  BY <1>5 DEF CastingInv, QuietBefore
<1>7. Following' => MirrorComes' /\ StateComes'
  BY <1>1, <1>2, <1>4, <1>6, InitDataExact DEF Following, Tracked
<1>8. ChecksCome'
  BY <1>1, <1>2 DEF CheckWirelessDev, ChecksCome, network
<1>9. QED
  BY <1>3, <1>4, <1>7, <1>8 DEF ExactInv

LEMMA OwnerChangedExact ==
  ASSUME CastingInv, CastingInv', ExactInv, OnDBusNameOwnerChanged
  PROVE  ExactInv'
<1>1. /\ inbox \in Seq(Message) /\ inbox' \in Seq(Message) /\ Head(inbox).type = "owner"
      /\ inbox # << >> /\ inbox' = Tail(inbox)
      /\ UNCHANGED <<service, network, nmChanged, asking, needRefresh, available, checks>>
  BY Handled DEF OnDBusNameOwnerChanged, setup
<1>2. available
  <2>1. OwnerComes(inbox)
    BY <1>1, TailAt DEF OwnerComes
  <2>2. QED
    BY <2>1 DEF CastingInv, QuietBefore
<1>3. OneAnswer' /\ (Tracked' => NewsExact')
  BY <1>1, OneAnswerTaken, NewsTaken DEF ExactInv
<1>4. available' = TRUE
  BY <1>1, <1>2 DEF CastingInv, TypeOK
<1>5. Following' => MirrorComes' /\ StateComes'
  <2>1. InitData(NoSinks, IF connected = None THEN None ELSE Dangling) /\ CheckState
    BY DEF OnDBusNameOwnerChanged
  <2>2. QED
    BY <1>1, <1>3, <1>4, <2>1, InitDataExact DEF Following, Tracked
<1>6. ChecksCome'
  BY <1>1 DEF ExactInv, ChecksCome, network, checks
<1>7. QED
  BY <1>3, <1>5, <1>6 DEF ExactInv

\* Handlers of news after which nothing is read anew.
LEMMA OtherHandled ==
  ASSUME CastingInv, ExactInv, NEW type \in {"list", "missing", "status"}, Receive(type),
         UNCHANGED setup
  PROVE  /\ OneAnswer' /\ (Tracked' => NewsExact') /\ ChecksCome'
         /\ Following' => Following /\ available' = TRUE /\ NewsExact' /\ MirrorComes /\ StateComes
<1>1. /\ inbox \in Seq(Message) /\ Head(inbox) \notin Reads /\ inbox # << >> /\ inbox' = Tail(inbox)
      /\ UNCHANGED <<service, network, nmChanged, asking, available, checks>>
      /\ Has(inbox, Reads) <=> Has(inbox', Reads)
  BY Handled DEF Reads, setup
<1>2. OneAnswer' /\ (Tracked' => NewsExact')
  BY <1>1, OneAnswerTaken, NewsTaken DEF ExactInv
<1>3. ChecksCome'
  BY <1>1 DEF ExactInv, ChecksCome, network, checks
<1>4. Following' => Following /\ Tracked'
  BY <1>1 DEF Following, Tracked, service
<1>5. Following => MirrorComes /\ StateComes /\ available = TRUE
  BY DEF ExactInv, CastingInv, TypeOK, Following
<1>6. QED
  BY <1>1, <1>2, <1>3, <1>4, <1>5

LEMMA ListExact ==
  ASSUME CastingInv, CastingInv', ExactInv, SinkListChanged
  PROVE  ExactInv'
<1>0. Receive("list") /\ UNCHANGED setup
  BY DEF SinkListChanged
<1>1. /\ inbox \in Seq(Message) /\ inbox' \in Seq(Message) /\ Head(inbox) \in Lists
      /\ Head(inbox).sinks \in SUBSET Sinks
      /\ UNCHANGED <<service, needRefresh, available, checks>>
      /\ \A M : Has(inbox, M) <=> Has(inbox', M) \/ Head(inbox) \in M
  BY <1>0, Handled DEF Lists, Message, setup
<1>2. /\ OneAnswer' /\ (Tracked' => NewsExact') /\ ChecksCome'
      /\ Following' => Following /\ available' = TRUE /\ NewsExact' /\ MirrorComes /\ StateComes
  BY <1>0, OtherHandled
<1>3. /\ \A s \in Sinks : Has(inbox', Statuses(s)) <=> Has(inbox, Statuses(s))
      /\ \A s \in Sinks : \A S : Has(inbox', StatusesOf(s, S)) <=> Has(inbox, StatusesOf(s, S))
      /\ Has(inbox', Capabilities) <=> Has(inbox, Capabilities)
  BY <1>1 DEF Lists, Statuses, StatusesOf, Capabilities
<1> SUFFICES ASSUME Following' PROVE MirrorComes' /\ StateComes'
  BY <1>2 DEF ExactInv
<1>4. CASE subscribed /\ needRefresh
  <2> DEFINE listed == Head(inbox).sinks
  <2>1. UpdateSinkList(monitors, listed) /\ CheckState /\ subscribed'
    BY <1>4 DEF SinkListChanged
  <2>2. listed = Listed(sinks) \/ Has(inbox', Lists)
    <3>1. SUFFICES ASSUME ~Has(inbox', Lists) PROVE listed = Listed(sinks)
      OBVIOUS
    <3>2. EndsIn(inbox, Lists, ListsOf(Listed(sinks)))
      BY <1>2 DEF ExactInv, Following, Tracked, NewsExact
    <3>3. Has(inbox, ListsOf(Listed(sinks)))
      BY <1>1, <1>2, <3>2, EndsThere DEF Following
    <3>4. ~Has(inbox', ListsOf(Listed(sinks)))
      BY <3>1 DEF Has, ListsOf
    <3>5. QED
      BY <1>1, <3>3, <3>4 DEF ListsOf
  <2>3. \A s \in Sinks :
          /\ ~Has(inbox', Statuses(s)) => monitors[s] \in {Absent, MonitorFor(s)}
          /\ monitors[s] = "streaming" /\ Has(inbox', Statuses(s))
               => Has(inbox', StatusesOf(s, {"streaming", "disconnected"}))
    BY <1>2, <1>3 DEF MirrorComes, MonitorExact, ConnectedComes, StreamComes
  <2>4. MirrorComes'
    <3>1. ~Has(inbox', Reads) /\ UNCHANGED sinks /\ monitors \in [Sinks -> Status \cup {Absent}]
      BY <1>1 DEF Following, service, CastingInv, TypeOK
    <3> HIDE DEF listed
    <3>2. listed \in SUBSET Sinks
      BY <1>1 DEF listed
    <3>3. QED
      BY <1>1, <1>2, <2>1, <2>2, <2>3, <3>1, <3>2, MirrorRead
  <2>5. StateComes'
    BY <1>1, <1>2, <2>1, StateChecked DEF CheckState, Following, service
  <2>6. QED
    BY <2>4, <2>5
<1>5. CASE ~needRefresh
  <2>1. UNCHANGED <<subscribed, monitors, connected, state, sinks, up, missing, checks>>
    BY <1>1, <1>5 DEF SinkListChanged, mirror, service
  <2>2. \A s \in Sinks : MonitorExact(s)' /\ (StreamComes(s) => StreamComes(s)')
    BY <1>2, <1>3, <2>1 DEF MirrorComes, MonitorExact, StreamComes, MonitorFor
  <2>3. MirrorComes'
    BY <1>1, <1>2, <1>5, <2>1, <2>2 DEF MirrorComes, ConnectedComes
  <2>4. StateComes'
    BY <1>2, <1>3, <2>1 DEF StateComes, StateFor, Listed, checks
  <2>5. QED
    BY <2>3, <2>4
<1>6. QED
  BY <1>2, <1>4, <1>5 DEF MirrorComes

LEMMA MissingExact ==
  ASSUME CastingInv, CastingInv', ExactInv, MissingCapabilitiesChanged
  PROVE  ExactInv'
<1>0. Receive("missing") /\ UNCHANGED setup /\ UNCHANGED mirror
  BY DEF MissingCapabilitiesChanged
<1>1. /\ Head(inbox).type = "missing"
      /\ UNCHANGED <<service, needRefresh, subscribed, monitors, connected>>
      /\ \A M : Has(inbox, M) <=> Has(inbox', M) \/ Head(inbox) \in M
  BY <1>0, Handled DEF mirror
<1>2. /\ OneAnswer' /\ (Tracked' => NewsExact') /\ ChecksCome'
      /\ Following' => Following /\ available' = TRUE /\ NewsExact' /\ MirrorComes /\ StateComes
  BY <1>0, OtherHandled
<1>3. /\ \A s \in Sinks : Has(inbox', Statuses(s)) <=> Has(inbox, Statuses(s))
      /\ \A s \in Sinks : \A S : Has(inbox', StatusesOf(s, S)) <=> Has(inbox, StatusesOf(s, S))
      /\ Has(inbox', Lists) <=> Has(inbox, Lists)
  BY <1>1 DEF Lists, Statuses, StatusesOf
<1> SUFFICES ASSUME Following' PROVE MirrorComes' /\ StateComes'
  BY <1>2 DEF ExactInv
<1>4. \A s \in Sinks : MonitorExact(s)' /\ (StreamComes(s) => StreamComes(s)')
  BY <1>1, <1>2, <1>3 DEF MirrorComes, MonitorExact, StreamComes, MonitorFor, service
<1>5. MirrorComes'
  BY <1>1, <1>2, <1>3, <1>4 DEF MirrorComes, ConnectedComes, Listed, service
<1>6. StateComes'
  <2>1. CheckState
    BY <1>2 DEF MissingCapabilitiesChanged, MirrorComes
  <2>2. QED
    BY <1>1, <1>2, <2>1, StateChecked DEF CheckState, Following, service
<1>7. QED
  BY <1>5, <1>6

LEMMA StatusExact ==
  ASSUME CastingInv, CastingInv', ExactInv, HandleMonitorStateChanged
  PROVE  ExactInv'
<1>a. Receive("status") /\ UNCHANGED setup /\ UNCHANGED subscribed
  BY DEF HandleMonitorStateChanged
<1>b. PICK s \in Sinks, status \in Status :
         s = Head(inbox).sink /\ status = Head(inbox).status /\ Head(inbox).type = "status"
  BY <1>a, Handled DEF Message
<1>1. /\ inbox \in Seq(Message) /\ inbox # << >> /\ inbox' = Tail(inbox)
      /\ Head(inbox) \in Statuses(s) /\ Head(inbox) \in StatusesOf(s, {status})
      /\ UNCHANGED <<service, needRefresh, available, checks>>
      /\ \A M : Has(inbox, M) <=> Has(inbox', M) \/ Head(inbox) \in M
  BY <1>a, <1>b, Handled DEF Statuses, StatusesOf, setup
<1>2. /\ OneAnswer' /\ (Tracked' => NewsExact') /\ ChecksCome'
      /\ Following' => Following /\ available' = TRUE /\ NewsExact' /\ MirrorComes /\ StateComes
  BY <1>a, OtherHandled
<1>3. /\ Has(inbox', Lists) <=> Has(inbox, Lists)
      /\ Has(inbox', Capabilities) <=> Has(inbox, Capabilities)
      /\ \A r \in Sinks \ {s} :
           /\ Has(inbox', Statuses(r)) <=> Has(inbox, Statuses(r))
           /\ \A S : Has(inbox', StatusesOf(r, S)) <=> Has(inbox, StatusesOf(r, S))
  BY <1>1 DEF Lists, Statuses, StatusesOf, Capabilities
<1> SUFFICES ASSUME Following' PROVE MirrorComes' /\ StateComes'
  BY <1>2 DEF ExactInv
<1>4. /\ UNCHANGED <<up, missing, sinks>> /\ monitors \in [Sinks -> Status \cup {Absent}]
      /\ MirrorComes /\ StateComes /\ NewsExact /\ ~Has(inbox, Reads)
  BY <1>1, <1>2 DEF ExactInv, Following, Tracked, service, CastingInv, TypeOK
\* The last news of the sink is what the service has.
<1>5. ~Has(inbox', Statuses(s)) => status = MonitorFor(s)
  <2> SUFFICES ASSUME ~Has(inbox', Statuses(s)) PROVE status = MonitorFor(s)
    OBVIOUS
  <2>1. EndsIn(inbox, Statuses(s), StatusesOf(s, {MonitorFor(s)})) /\ Has(inbox, Statuses(s))
    BY <1>1, <1>4 DEF NewsExact
  <2>2. Has(inbox, StatusesOf(s, {MonitorFor(s)}))
    BY <1>1, <1>4, <2>1, EndsThere
  <2>3. ~Has(inbox', StatusesOf(s, {MonitorFor(s)}))
    BY DEF Has, StatusesOf
  <2>4. QED
    BY <1>1, <2>2, <2>3 DEF StatusesOf
\* One that streams will be disconnected if there is other news of it.
<1>6. status = "streaming" /\ Has(inbox', Statuses(s))
        => Has(inbox', StatusesOf(s, {"streaming", "disconnected"}))
  <2> SUFFICES ASSUME status = "streaming", Has(inbox', Statuses(s))
               PROVE  Has(inbox', StatusesOf(s, {"streaming", "disconnected"}))
    OBVIOUS
  <2>1. Has(inbox', StatusesOf(s, {"disconnected"}))
    BY <1>1, <1>4, StreamHead DEF NewsExact
  <2>2. StatusesOf(s, {"disconnected"}) \subseteq StatusesOf(s, {"streaming", "disconnected"})
    BY DEF StatusesOf
  <2>3. QED
    BY <2>1, <2>2 DEF Has
\* While it has another status, the news that ends it is still to come.
<1>7. status \notin {"streaming", "disconnected"} /\ StreamComes(s)
        => Has(inbox', StatusesOf(s, {"streaming", "disconnected"}))
  <2>1. status \notin {"streaming", "disconnected"}
          => Head(inbox) \notin StatusesOf(s, {"streaming", "disconnected"})
    BY <1>1 DEF StatusesOf
  <2>2. QED
    BY <1>1, <2>1 DEF StreamComes
<1>8. \A r \in Sinks \ {s} : monitors'[r] = monitors[r]
                               => MonitorExact(r)' /\ (StreamComes(r) => StreamComes(r)')
  BY <1>3, <1>4 DEF MirrorComes, MonitorExact, StreamComes, MonitorFor
<1>9. CASE /\ monitors[s] \notin {Absent, status}
           /\ monitors' = [monitors EXCEPT ![s] = status]
           /\ connected' = CASE status = "streaming" -> s
                             [] status = "disconnected" /\ connected = s -> None
                             [] OTHER -> connected
           /\ CheckState
  <2>1. /\ monitors'[s] = status /\ \A r \in Sinks \ {s} : monitors'[r] = monitors[r]
        /\ Listed(monitors') = Listed(monitors)
    BY <1>1, <1>4, <1>9 DEF Listed, Status, Absent
  <2>2. MonitorExact(s)'
    BY <1>4, <1>5, <2>1 DEF MonitorExact, MonitorFor
  <2>3. monitors'[s] = "streaming" \/ connected' = s => StreamComes(s)'
    <3>1. CASE status = "streaming"
      BY <1>6, <2>1, <3>1 DEF StreamComes
    <3>2. CASE status = "disconnected"
      BY <1>1, <1>9, <2>1, <3>2, SinksAssumption
    <3>3. CASE status \notin {"streaming", "disconnected"}
      <4>1. connected' = s => StreamComes(s)
        BY <1>1, <1>4, <1>9, <3>3 DEF MirrorComes, ConnectedComes
      <4>2. QED
        BY <1>7, <2>1, <3>3, <4>1 DEF StreamComes
    <3>4. QED
      BY <3>1, <3>2, <3>3
  <2>4. connected' = s => monitors'[s] \notin {Absent, "disconnected"}
    BY <1>1, <1>9, <2>1, SinksAssumption DEF Status, Absent
  <2>5. connected' \in {s, None, connected}
    BY <1>9
  <2>6. ASSUME NEW r \in Sinks \ {s}
        PROVE  /\ MonitorExact(r)'
               /\ monitors'[r] = "streaming" \/ connected' = r => StreamComes(r)'
               /\ connected' = r => monitors'[r] \notin {Absent, "disconnected"}
    <3>1. /\ monitors[r] = "streaming" \/ connected = r => StreamComes(r)
          /\ connected = r => monitors[r] \notin {Absent, "disconnected"}
      BY <1>4 DEF MirrorComes, ConnectedComes
    <3>2. connected' = r => connected = r
      BY <2>5, SinksAssumption
    <3>3. QED
      BY <1>8, <2>1, <3>1, <3>2
  <2>7. MirrorComes'
    <3>1. connected' \in Sinks \cup {None}
      BY <1>1, <1>4, <2>5 DEF MirrorComes, ConnectedComes
    <3>2. \A r \in Sinks :
            /\ MonitorExact(r)'
            /\ monitors'[r] = "streaming" \/ connected' = r => StreamComes(r)'
            /\ connected' = r => monitors'[r] \notin {Absent, "disconnected"}
      BY <2>2, <2>3, <2>4, <2>6
    <3>3. subscribed' /\ (needRefresh' /\ ~Has(inbox', Lists) => Listed(monitors)' = Listed(sinks)')
      BY <1>a, <1>1, <1>3, <1>4, <2>1 DEF MirrorComes, Listed
    <3>4. QED
      BY <3>1, <3>2, <3>3 DEF MirrorComes, ConnectedComes, Listed
  <2>8. StateComes'
    BY <1>1, <1>2, <1>9, StateChecked DEF CheckState, Following, service
  <2>9. QED
    BY <2>7, <2>8
<1>10. CASE monitors[s] \in {Absent, status} /\ UNCHANGED <<monitors, connected, state>>
  <2>1. MonitorExact(s)'
    BY <1>4, <1>5, <1>10 DEF MonitorExact, MonitorFor
  <2>2. monitors[s] = "streaming" \/ connected = s => StreamComes(s)'
    <3>1. CASE status = "streaming"
      <4>1. monitors[s] = "streaming" \/ connected = s => monitors[s] = "streaming"
        BY <1>1, <1>4, <1>10, <3>1 DEF MirrorComes, ConnectedComes
      <4>2. QED
        BY <1>6, <1>10, <3>1, <4>1 DEF StreamComes
    <3>2. CASE status = "disconnected"
      BY <1>1, <1>4, <1>10, <3>2 DEF MirrorComes, ConnectedComes, Absent
    <3>3. CASE status \notin {"streaming", "disconnected"}
      BY <1>1, <1>4, <1>7, <3>3 DEF MirrorComes, ConnectedComes, StreamComes
    <3>4. QED
      BY <3>1, <3>2, <3>3
  <2>3. MirrorComes'
    <3>1. subscribed' /\ (needRefresh' /\ ~Has(inbox', Lists) => Listed(monitors)' = Listed(sinks)')
      BY <1>a, <1>1, <1>3, <1>4, <1>10 DEF MirrorComes, Listed
    <3>2. ASSUME NEW r \in Sinks
          PROVE  /\ MonitorExact(r)'
                 /\ monitors'[r] = "streaming" \/ connected' = r => StreamComes(r)'
                 /\ connected' = r => monitors'[r] \notin {Absent, "disconnected"}
      <4>1. /\ monitors[r] = "streaming" \/ connected = r => StreamComes(r)
            /\ connected = r => monitors[r] \notin {Absent, "disconnected"}
        BY <1>4 DEF MirrorComes, ConnectedComes
      <4>2. CASE r = s
        BY <1>10, <2>1, <2>2, <4>1, <4>2
      <4>3. CASE r # s
        BY <1>8, <1>10, <4>1, <4>3
      <4>4. QED
        BY <4>2, <4>3
    <3>3. connected' \in Sinks \cup {None}
      BY <1>4, <1>10 DEF MirrorComes, ConnectedComes
    <3>4. QED
      BY <3>1, <3>2, <3>3 DEF MirrorComes, ConnectedComes
  <2>4. StateComes'
    BY <1>1, <1>3, <1>4, <1>10 DEF StateComes, StateFor, Listed, checks
  <2>5. QED
    BY <2>3, <2>4
<1>11. QED
  BY <1>b, <1>9, <1>10 DEF HandleMonitorStateChanged

LEMMA RefreshExact ==
  ASSUME CastingInv, CastingInv', ExactInv, NEW on \in BOOLEAN, EnableRefresh(on)
  PROVE  ExactInv'
<1>1. /\ available /\ needRefresh' = on
      /\ UNCHANGED <<up, missing, sinks, network, inbox, nmChanged, asking, available, checks>>
  BY DEF EnableRefresh, RefreshNow, service, setup
<1>2. OneAnswer' /\ (Tracked' => NewsExact') /\ ChecksCome'
  BY <1>1 DEF ExactInv, OneAnswer, Tracked, NewsExact, ChecksCome, Has, EndsIn, Fresh,
              StreamEnds, MonitorFor, Listed, network, checks
<1> SUFFICES ASSUME Following' PROVE MirrorComes' /\ StateComes'
  BY <1>2 DEF ExactInv
<1>3. up /\ ~Has(inbox, Reads) /\ MirrorComes /\ StateComes /\ NewsExact' /\ available' = TRUE
  BY <1>1, <1>2 DEF Following, Tracked, ExactInv, CastingInv, TypeOK
<1>4. CASE on
  <2>1. /\ UpdateSinkList(monitors, Listed(sinks)) /\ UNCHANGED subscribed
        /\ state' = StateFor(available, deviceCheck, enabledCheck, monitors', connected')
    BY <1>3, <1>4 DEF EnableRefresh, RefreshNow
  <2>2. /\ inbox' \in Seq(Message) /\ monitors \in [Sinks -> Status \cup {Absent}]
        /\ Listed(sinks) \in SUBSET Sinks /\ ~Has(inbox', Reads) /\ subscribed'
    BY <1>1, <1>3, <2>1 DEF CastingInv, TypeOK, Listed, MirrorComes
  <2>3. \A s \in Sinks :
          /\ ~Has(inbox', Statuses(s)) => monitors[s] \in {Absent, MonitorFor(s)}
          /\ monitors[s] = "streaming" /\ Has(inbox', Statuses(s))
               => Has(inbox', StatusesOf(s, {"streaming", "disconnected"}))
    BY <1>1, <1>3 DEF MirrorComes, MonitorExact, ConnectedComes, StreamComes
  <2>4. MirrorComes'
    BY <1>1, <1>3, <2>1, <2>2, <2>3, MirrorRead
  <2>5. StateComes'
    BY <1>1, <1>3, <2>1, StateChecked DEF checks
  <2>6. QED
    BY <2>4, <2>5
<1>5. CASE ~on
  <2>1. UNCHANGED <<subscribed, monitors, connected, state>>
    BY <1>5 DEF EnableRefresh, RefreshNow, mirror
  <2>2. QED
    BY <1>1, <1>3, <1>5, <2>1 DEF MirrorComes, MonitorExact, ConnectedComes, StreamComes,
                                  StateComes, StateFor, MonitorFor, Listed, checks
<1>6. QED
  BY <1>4, <1>5

LEMMA ExactStep == CastingInv /\ CastingInv' /\ ExactInv /\ [Next]_vars => ExactInv'
<1> SUFFICES ASSUME CastingInv, CastingInv', ExactInv, [Next]_vars PROVE ExactInv'
  OBVIOUS
<1>1. CASE ServiceUnavailable
  <2>1. /\ ~asking'
        /\ UNCHANGED <<up, missing, sinks, inbox, nmChanged, available, subscribed, needRefresh,
                       network, checks, monitors, connected, state>>
    BY <1>1 DEF ServiceUnavailable, service, setup, mirror
  <2>2. OneAnswer' /\ (Tracked' => NewsExact') /\ ChecksCome'
    BY <2>1 DEF ExactInv, OneAnswer, Tracked, NewsExact, ChecksCome, Has, EndsIn, Fresh,
                StreamEnds, MonitorFor, Listed, network, checks
  <2>3. Following' => MirrorComes' /\ StateComes'
    BY <2>1 DEF ExactInv, Following, MirrorComes, MonitorExact, ConnectedComes, StreamComes,
                StateComes, StateFor, MonitorFor, Listed, checks
  <2>4. QED
    BY <2>2, <2>3 DEF ExactInv
<1>2. CASE WirelessChanged
  <2>1. UNCHANGED <<up, missing, sinks, network, inbox, asking, available, needRefresh,
                    subscribed, monitors, connected>>
    BY <1>2 DEF WirelessChanged, service, mirror
  <2>2. CheckWirelessDev /\ CheckState
    BY <1>2 DEF WirelessChanged
  <2>3. OneAnswer' /\ (Tracked' => NewsExact')
    BY <2>1 DEF ExactInv, OneAnswer, Tracked, NewsExact, Has, EndsIn, Fresh,
                StreamEnds, MonitorFor, Listed
  <2>4. ChecksCome'
    BY <2>1, <2>2 DEF CheckWirelessDev, ChecksCome, network
  <2>5. Following' => MirrorComes'
    BY <2>1 DEF ExactInv, Following, MirrorComes, MonitorExact, ConnectedComes, StreamComes,
                MonitorFor, Listed
  <2>6. Following' => StateComes'
    <3>1. Following' => up /\ available' = TRUE
      BY <2>1 DEF Following, CastingInv, TypeOK
    <3>2. QED
      BY <2>1, <2>2, <3>1, StateChecked DEF CheckState
  <2>7. QED
    BY <2>3, <2>4, <2>5, <2>6 DEF ExactInv
<1>3. CASE UNCHANGED vars
  <2>1. UNCHANGED <<up, missing, sinks, inbox, nmChanged, asking, available, subscribed,
                    needRefresh, network, checks, monitors, connected, state>>
    BY <1>3 DEF vars, service, setup, mirror
  <2>2. OneAnswer' /\ (Tracked' => NewsExact') /\ ChecksCome'
    BY <2>1 DEF ExactInv, OneAnswer, Tracked, NewsExact, ChecksCome, Has, EndsIn, Fresh,
                StreamEnds, MonitorFor, Listed, network, checks
  <2>3. Following' => MirrorComes' /\ StateComes'
    BY <2>1 DEF ExactInv, Following, MirrorComes, MonitorExact, ConnectedComes, StreamComes,
                StateComes, StateFor, MonitorFor, Listed, checks
  <2>4. QED
    BY <2>2, <2>3 DEF ExactInv
<1>4. QED
  BY <1>1, <1>2, <1>3, EnvironmentExact, ServiceAvailableExact, OwnerChangedExact, ListExact,
     MissingExact, StatusExact, RefreshExact DEF Next

------------------------------------------------------------------------------
(* The sink that streams *)

OneStreams == \A r, s \in Sinks : sinks[r] = "streaming" /\ sinks[s] = "streaming" => r = s

\* After k, the stream to r ends and one to s begins.
Turn(queue, k, r, s) ==
  \E m, n \in DOMAIN queue : /\ k < m /\ m < n
                             /\ queue[m] \in StatusesOf(r, {"disconnected"})
                             /\ queue[n] \in StatusesOf(s, {"streaming"})

\* The stream to another sink than the one that streams is followed by its end, and
\* by the beginning of the one there is.
InTurn(queue, list) ==
  \A r, s \in Sinks, k \in DOMAIN queue :
    /\ r # s /\ list[s] = "streaming"
    /\ Fresh(queue, k) /\ queue[k] \in StatusesOf(r, {"streaming"})
    => Turn(queue, k, r, s)

\* So it is for another monitor that is taken to stream; and one that is taken to
\* stream and is not the connected one has news to come, unless it was ignored.
StreamKept ==
  /\ \A r, s \in Sinks :
       r # s /\ monitors[r] = "streaming" /\ sinks[s] = "streaming" => Turn(inbox, 0, r, s)
  /\ \A s \in Sinks : monitors[s] = "streaming" /\ connected # s /\ s \notin ignored
                        => Has(inbox, Statuses(s))

StreamInv ==
  /\ OneStreams
  /\ Tracked => InTurn(inbox, sinks)
  /\ Following => StreamKept

LEMMA TurnAppend ==
  ASSUME NEW queue \in Seq(Message), NEW m \in Message, NEW longer, longer = Append(queue, m),
         NEW k, NEW r, NEW s, Turn(queue, k, r, s)
  PROVE  Turn(longer, k, r, s)
<1>1. PICK i, j \in DOMAIN queue : /\ k < i /\ i < j
                                   /\ queue[i] \in StatusesOf(r, {"disconnected"})
                                   /\ queue[j] \in StatusesOf(s, {"streaming"})
  BY DEF Turn
<1>2. /\ i \in DOMAIN longer /\ longer[i] = queue[i]
      /\ j \in DOMAIN longer /\ longer[j] = queue[j]
  BY AppendAt
<1>3. QED
  BY <1>1, <1>2 DEF Turn

LEMMA TurnTail ==
  ASSUME NEW queue \in Seq(Message), queue # << >>, NEW rest, rest = Tail(queue),
         NEW k \in Nat, NEW r, NEW s,
         \/ Turn(queue, k + 1, r, s)
         \/ k = 0 /\ Turn(queue, 0, r, s) /\ Head(queue) \notin StatusesOf(r, {"disconnected"})
  PROVE  Turn(rest, k, r, s)
<1>1. PICK m, n \in DOMAIN queue : /\ m > k + 1 \/ (k = 0 /\ m # 1)
                                   /\ queue[m] \in StatusesOf(r, {"disconnected"})
                                   /\ queue[n] \in StatusesOf(s, {"streaming"})
                                   /\ m < n
  <2>1. CASE Turn(queue, k + 1, r, s)
    BY <2>1 DEF Turn
  <2>2. CASE k = 0 /\ Turn(queue, 0, r, s) /\ Head(queue) \notin StatusesOf(r, {"disconnected"})
    BY <2>2, TailAt DEF Turn
  <2>3. QED
    BY <2>1, <2>2
<1>2. m \in Nat /\ m # 0 /\ n \in Nat /\ n # 0
  BY TailAt
<1>3. m > k + 1 /\ m # 1 /\ n # 1
  BY <1>1, <1>2
<1>4. /\ m - 1 \in DOMAIN rest /\ rest[m - 1] = queue[m]
      /\ n - 1 \in DOMAIN rest /\ rest[n - 1] = queue[n]
  BY <1>3, TailAt
<1>5. k < m - 1 /\ m - 1 < n - 1
  BY <1>1, <1>2, <1>3
<1>6. QED
  BY <1>1, <1>4, <1>5 DEF Turn

\* A stream that is over has its end on its way.
LEMMA StreamOver ==
  ASSUME NEW queue \in Seq(Message), NEW r, NEW status, status # "streaming",
         EndsIn(queue, Statuses(r), StatusesOf(r, {status})), StreamEnds(queue, r),
         NEW k \in DOMAIN queue, Fresh(queue, k), queue[k] \in StatusesOf(r, {"streaming"})
  PROVE  \E n \in DOMAIN queue : n > k /\ queue[n] \in StatusesOf(r, {"disconnected"})
<1>1. queue[k] \in Statuses(r) /\ k \in Nat
  BY DEF StatusesOf
<1>2. PICK l \in DOMAIN queue : /\ queue[l] \in StatusesOf(r, {status})
                                /\ \A j \in DOMAIN queue : j > l => queue[j] \notin Statuses(r)
  BY <1>1 DEF EndsIn
<1>3. k # l /\ ~(k > l) /\ l \in Nat
  BY <1>1, <1>2 DEF StatusesOf
<1>4. l > k /\ queue[l] \in Statuses(r)
  BY <1>1, <1>2, <1>3 DEF StatusesOf
<1>5. QED
  BY <1>4 DEF StreamEnds

LEMMA TurnsTail ==
  ASSUME NEW queue \in Seq(Message), queue # << >>, NEW rest, rest = Tail(queue),
         NEW list, InTurn(queue, list)
  PROVE  InTurn(rest, list)
<1> SUFFICES ASSUME NEW r \in Sinks, NEW s \in Sinks, NEW k \in DOMAIN rest, r # s,
                    list[s] = "streaming", Fresh(rest, k),
                    rest[k] \in StatusesOf(r, {"streaming"})
             PROVE  Turn(rest, k, r, s)
  BY DEF InTurn
<1>1. k \in Nat /\ k + 1 \in DOMAIN queue /\ queue[k + 1] = rest[k]
  BY TailAt
<1>2. Fresh(queue, k + 1)
  BY FreshTail
<1>3. Turn(queue, k + 1, r, s)
  BY <1>1, <1>2 DEF InTurn
<1>4. QED
  BY <1>1, <1>3, TurnTail

LEMMA StreamInit == Init => StreamInv
<1> SUFFICES ASSUME Init PROVE StreamInv
  OBVIOUS
<1>1. DOMAIN inbox = {} /\ ~available /\ \A s \in Sinks : sinks[s] # "streaming"
  BY DEF Init, Absent
<1>2. QED
  BY <1>1 DEF StreamInv, OneStreams, Tracked, Following, Has

\* A new Monitor is taken to stream when its sink does.
LEMMA StreamsFor ==
  \A s \in Sinks : /\ MonitorFor(s) = "streaming" <=> sinks[s] = "streaming"
                   /\ MonitorFor(s)' = "streaming" <=> sinks'[s] = "streaming"
BY DEF MonitorFor, Absent

\* Before everything is read anew there is no turn to take.
LEMMA TurnsRead ==
  ASSUME inbox \in Seq(Message), NEW m \in Message, m \in Reads, inbox' = Append(inbox, m)
  PROVE  InTurn(inbox', sinks') /\ Has(inbox', Reads)
<1>1. Has(inbox', Reads)
  BY HasAppend
<1>2. \A k \in DOMAIN inbox' : ~Fresh(inbox', k)
  BY FreshAppend
<1>3. QED
  BY <1>1, <1>2 DEF InTurn

\* News of a sink is announced: a stream that begins comes after the end of the one
\* before it.
LEMMA TurnAnnounced ==
  ASSUME CastingInv, ExactInv, StreamInv, OneStreams', NEW m \in Message, Announced(m), Tracked
  PROVE  InTurn(inbox', sinks')
<1>0. /\ inbox \in Seq(Message) /\ inbox' = Append(inbox, m) /\ m \notin Reads
      /\ NewsExact /\ InTurn(inbox, sinks)
  BY DEF CastingInv, TypeOK, Announced, ExactInv, StreamInv
<1>1. \A r, s \in Sinks : sinks'[r] = "streaming" /\ sinks'[s] = "streaming" => r = s
  BY DEF OneStreams
<1>2. ASSUME NEW r \in Sinks, m \in StatusesOf(r, {"streaming"}) PROVE sinks'[r] = "streaming"
  <2>1. m \in Statuses(r) /\ m.status = "streaming"
    BY <1>2 DEF StatusesOf
  <2>2. MonitorFor(r)' = "streaming"
    BY <2>1 DEF Announced, StatusesOf
  <2>3. QED
    BY <2>2, StreamsFor
<1>3. ASSUME NEW s \in Sinks, sinks'[s] = "streaming", sinks[s] # "streaming"
      PROVE  /\ m \in StatusesOf(s, {"streaming"})
             /\ \A r \in Sinks \ {s} : MonitorFor(r) # "streaming"
  <2>1. MonitorFor(s)' = "streaming" /\ MonitorFor(s) # "streaming"
    BY <1>3, StreamsFor
  <2>2. m \in StatusesOf(s, {"streaming"})
    BY <2>1 DEF Announced
  <2>3. ASSUME NEW r \in Sinks \ {s} PROVE MonitorFor(r) # "streaming"
    <3>1. m \notin Statuses(r) /\ sinks'[r] # "streaming"
      BY <1>1, <1>3, <2>2 DEF Statuses, StatusesOf
    <3>2. MonitorFor(r)' = MonitorFor(r)
      BY <3>1 DEF Announced, StatusesOf
    <3>3. QED
      BY <3>1, <3>2, StreamsFor
  <2>4. QED
    BY <2>2, <2>3
<1> SUFFICES ASSUME NEW r \in Sinks, NEW s \in Sinks, NEW k \in DOMAIN inbox', r # s,
                    sinks'[s] = "streaming", Fresh(inbox', k),
                    inbox'[k] \in StatusesOf(r, {"streaming"})
             PROVE  Turn(inbox', k, r, s)
  BY DEF InTurn
<1>4. k \in DOMAIN inbox /\ inbox'[k] = inbox[k]
  <2>1. k = Len(inbox) + 1 => m \in StatusesOf(r, {"streaming"})
    BY <1>0, AppendAt
  <2>2. QED
    BY <1>0, <1>1, <1>2, <2>1, AppendAt
<1>5. Fresh(inbox, k) /\ inbox[k] \in StatusesOf(r, {"streaming"})
  BY <1>0, <1>4, FreshAppend
<1>6. CASE sinks[s] = "streaming"
  <2>1. Turn(inbox, k, r, s)
    BY <1>0, <1>4, <1>5, <1>6 DEF InTurn
  <2>2. QED
    BY <1>0, <2>1, TurnAppend
<1>7. CASE sinks[s] # "streaming"
  <2>1. m \in StatusesOf(s, {"streaming"}) /\ MonitorFor(r) # "streaming"
    BY <1>3, <1>7
  <2>2. /\ EndsIn(inbox, Statuses(r), StatusesOf(r, {MonitorFor(r)}))
        /\ StreamEnds(inbox, r)
    BY <1>0 DEF NewsExact
  <2>3. PICK n \in DOMAIN inbox : n > k /\ inbox[n] \in StatusesOf(r, {"disconnected"})
    BY <1>0, <1>4, <1>5, <2>1, <2>2, StreamOver
  <2>4. /\ n \in DOMAIN inbox' /\ inbox'[n] = inbox[n] /\ n < Len(inbox) + 1
        /\ Len(inbox) + 1 \in DOMAIN inbox' /\ inbox'[Len(inbox) + 1] = m
        /\ k \in Nat /\ n \in Nat
    BY <1>0, <1>4, AppendAt
  <2>5. k < n
    BY <2>3, <2>4
  <2>6. QED
    BY <2>1, <2>3, <2>4, <2>5 DEF Turn
<1>8. QED
  BY <1>6, <1>7

LEMMA KeptAnnounced ==
  ASSUME CastingInv, ExactInv, StreamInv, OneStreams', NEW m \in Message, Announced(m), Following
  PROVE  StreamKept'
<1>0. /\ inbox \in Seq(Message) /\ inbox' = Append(inbox, m) /\ ~Has(inbox, Reads)
      /\ UNCHANGED <<monitors, connected, ignored>>
      /\ NewsExact /\ MirrorComes /\ StreamKept
  BY DEF CastingInv, TypeOK, Announced, ExactInv, StreamInv, Following, Tracked, model, mirror
<1>1. ASSUME NEW r \in Sinks, NEW s \in Sinks, r # s,
             monitors[r] = "streaming", sinks'[s] = "streaming"
      PROVE  Turn(inbox', 0, r, s)
  <2>1. CASE sinks[s] = "streaming"
    <3>1. Turn(inbox, 0, r, s)
      BY <1>0, <1>1, <2>1 DEF StreamKept
    <3>2. QED
      BY <1>0, <3>1, TurnAppend
  <2>2. CASE sinks[s] # "streaming"
    <3>1. m \in StatusesOf(s, {"streaming"})
      BY <1>1, <2>2, StreamsFor DEF Announced
    <3>2. MonitorFor(r) # "streaming"
      <4>1. m \notin Statuses(r) /\ sinks'[r] # "streaming"
        BY <1>1, <3>1 DEF Statuses, StatusesOf, OneStreams
      <4>2. MonitorFor(r)' = MonitorFor(r)
        BY <4>1 DEF Announced, StatusesOf
      <4>3. QED
        BY <4>1, <4>2, StreamsFor
    <3>3. PICK n \in DOMAIN inbox : inbox[n] \in StatusesOf(r, {"disconnected"})
      <4>1. Has(inbox, StatusesOf(r, {"streaming", "disconnected"}))
        <5>1. StreamComes(r) /\ MonitorExact(r)
          BY <1>0, <1>1 DEF MirrorComes, ConnectedComes
        <5>2. QED
          BY <1>1, <3>2, <5>1 DEF StreamComes, MonitorExact, Absent
      <4>2. PICK k \in DOMAIN inbox : inbox[k] \in StatusesOf(r, {"streaming", "disconnected"})
        BY <4>1 DEF Has
      <4>3. CASE inbox[k] \in StatusesOf(r, {"streaming"})
        <5>1. Fresh(inbox, k)
          BY <1>0 DEF Has, Fresh
        <5>2. /\ EndsIn(inbox, Statuses(r), StatusesOf(r, {MonitorFor(r)}))
              /\ StreamEnds(inbox, r)
          BY <1>0 DEF NewsExact
        <5>3. QED
          BY <1>0, <3>2, <4>3, <5>1, <5>2, StreamOver
      <4>4. QED
        BY <4>2, <4>3 DEF StatusesOf
    <3>4. /\ n \in DOMAIN inbox' /\ inbox'[n] = inbox[n] /\ n \in Nat /\ n < Len(inbox) + 1
          /\ Len(inbox) + 1 \in DOMAIN inbox' /\ inbox'[Len(inbox) + 1] = m
      BY <1>0, AppendAt
    <3>5. 0 < n
      BY <1>0
    <3>6. QED
      BY <3>1, <3>3, <3>4, <3>5 DEF Turn
  <2>3. QED
    BY <2>1, <2>2
<1>2. \A s \in Sinks : Has(inbox, Statuses(s)) => Has(inbox', Statuses(s))
  BY <1>0, HasAppend
<1>3. QED
  BY <1>0, <1>1, <1>2 DEF StreamKept

LEMMA EnvironmentStreams ==
  ASSUME CastingInv, ExactInv, StreamInv, Environment
  PROVE  StreamInv'
<1>0. inbox \in Seq(Message) /\ sinks \in [Sinks -> Status \cup {Absent}] /\ OneStreams
  BY DEF CastingInv, TypeOK, StreamInv
<1>1. CASE ServiceStops
  BY <1>1 DEF ServiceStops, StreamInv, OneStreams, NoSinks, Absent, Tracked, Following
<1>2. CASE ServiceStarts
  <2>0. UNCHANGED <<sinks, available>>
    BY <1>2 DEF ServiceStarts, model, setup
  <2>1. CASE available
    <3>1. [type |-> "owner"] \in Message /\ [type |-> "owner"] \in Reads
      BY DEF Message, Reads
    <3>2. inbox' = Append(inbox, [type |-> "owner"])
      BY <1>2, <2>1 DEF ServiceStarts, Tell
    <3>3. InTurn(inbox', sinks') /\ Has(inbox', Reads)
      BY <1>0, <3>1, <3>2, TurnsRead
    <3>4. QED
      BY <1>0, <2>0, <3>3 DEF StreamInv, OneStreams, Following
  <2>2. CASE ~available
    <3>1. inbox' = inbox /\ ~Has(inbox, Answers)
      BY <1>2, <2>2 DEF ServiceStarts, Has, Answers
    <3>2. QED
      BY <1>0, <2>0, <2>2, <3>1 DEF StreamInv, OneStreams, Tracked, Following
  <2>3. QED
    BY <2>1, <2>2
<1>3. ASSUME \/ \E s \in Sinks : SinkAppears(s) \/ SinkVanishes(s) \/ SinkMoves(s)
             \/ CapabilitiesChange
      PROVE  StreamInv'
  <2>1. OneStreams'
    <3>1. ASSUME NEW s \in Sinks, SinkAppears(s) \/ SinkVanishes(s) PROVE OneStreams'
      BY <1>0, <3>1 DEF SinkAppears, SinkVanishes, OneStreams, Absent
    <3>2. ASSUME NEW s \in Sinks, SinkMoves(s) PROVE OneStreams'
      BY <1>0, <3>2 DEF SinkMoves, OneStreams
    <3>3. CASE CapabilitiesChange
      BY <1>0, <3>3 DEF CapabilitiesChange, OneStreams
    <3>4. QED
      BY <1>3, <3>1, <3>2, <3>3
  <2>2. PICK m \in Message : Announced(m)
    BY <1>3, EnvironmentAnnounces
  <2>3. /\ Has(inbox', Answers) => Has(inbox, Answers)
        /\ Has(inbox, Reads) => Has(inbox', Reads)
        /\ UNCHANGED <<up, available>>
    <3>1. inbox' = Append(inbox, m) /\ m \notin Answers /\ UNCHANGED <<up, available>>
      BY <2>2 DEF Announced, Reads, Answers, model, setup
    <3>2. QED
      BY <1>0, <3>1, HasAppend
  <2>4. (Tracked' => Tracked) /\ (Following' => Following)
    BY <2>3 DEF Tracked, Following
  <2>5. QED
    BY <2>1, <2>2, <2>4, TurnAnnounced, KeptAnnounced DEF StreamInv
<1>4. CASE AnswersCall
  <2>1. [type |-> "answer"] \in Message /\ [type |-> "answer"] \in Reads
    BY DEF Message, Reads
  <2>2. inbox' = Append(inbox, [type |-> "answer"]) /\ UNCHANGED sinks
    BY <1>4 DEF AnswersCall, Tell, service
  <2>3. InTurn(inbox', sinks') /\ Has(inbox', Reads)
    BY <1>0, <2>1, <2>2, TurnsRead
  <2>4. QED
    BY <1>0, <2>2, <2>3 DEF StreamInv, OneStreams, Following
<1>5. CASE NetworkChanges
  <2>1. UNCHANGED <<up, sinks, inbox, available, monitors, connected, ignored>>
    BY <1>5 DEF NetworkChanges, service, model, setup, mirror
  <2>2. QED
    BY <2>1 DEF StreamInv, OneStreams, Tracked, Following, InTurn, StreamKept, Turn, Fresh, Has
<1>6. QED
  BY <1>1, <1>2, <1>3, <1>4, <1>5 DEF Environment

\* News is taken.
LEMMA TurnsTaken ==
  ASSUME CastingInv, StreamInv, inbox # << >>, inbox' = Tail(inbox), UNCHANGED service,
         available' => available \/ Head(inbox) \in Answers
  PROVE  OneStreams' /\ (Tracked' => InTurn(inbox', sinks'))
<1>1. inbox \in Seq(Message) /\ sinks' = sinks
  BY DEF CastingInv, TypeOK, service
<1>2. OneStreams'
  BY <1>1 DEF StreamInv, OneStreams
<1>3. ASSUME Tracked' PROVE InTurn(inbox', sinks)
  <2>1. Has(inbox, Answers) <=> Has(inbox', Answers) \/ Head(inbox) \in Answers
    BY <1>1, HasTail
  <2>2. Tracked
    BY <1>3, <2>1 DEF Tracked, service
  <2>3. QED
    BY <1>1, <2>2, TurnsTail DEF StreamInv
<1>4. QED
  BY <1>1, <1>2, <1>3

\* The mirror takes a list: one of the monitors that stream is the connected one, and
\* the end of its stream has news of another behind it.
LEMMA KeptRead ==
  ASSUME OneStreams, UNCHANGED sinks, NEW known, NEW list, UpdateSinkList(known, list),
         \A s \in Sinks : MonitorExact(s)',
         \A r, s \in Sinks : r # s /\ known[r] = "streaming" /\ sinks[s] = "streaming"
                               => Turn(inbox', 0, r, s)
  PROVE  StreamKept'
<1>1. ASSUME NEW r \in Sinks, NEW s \in Sinks, r # s,
             monitors'[r] = "streaming", sinks[s] = "streaming"
      PROVE  Turn(inbox', 0, r, s)
  <2>1. monitors'[r] \in {Absent, MonitorFor(r), known[r]}
    BY DEF UpdateSinkList
  <2>2. MonitorFor(r) # "streaming"
    BY <1>1, StreamsFor DEF OneStreams
  <2>3. QED
    BY <1>1, <2>1, <2>2 DEF Absent
<1>2. ASSUME NEW s \in Sinks, monitors'[s] = "streaming", connected' # s
      PROVE  Has(inbox', Statuses(s))
  <2>1. SUFFICES ASSUME ~Has(inbox', Statuses(s)) PROVE FALSE
    OBVIOUS
  <2>2. sinks[s] = "streaming"
    BY <1>2, <2>1, StreamsFor DEF MonitorExact, Absent
  <2>3. connected' \in Sinks /\ monitors'[connected'] = "streaming"
    BY <1>2 DEF UpdateSinkList, Streaming
  <2>4. Turn(inbox', 0, connected', s)
    BY <1>1, <1>2, <2>2, <2>3
  <2>5. QED
    BY <2>1, <2>4 DEF Turn, Has, StatusesOf
<1>3. QED
  BY <1>1, <1>2 DEF StreamKept

\* Everything is read anew.
LEMMA InitDataStreams ==
  ASSUME CastingInv', ExactInv', OneStreams, UNCHANGED service, NEW current,
         InitData(NoSinks, current)
  PROVE  Following' => StreamKept'
<1> SUFFICES ASSUME Following' PROVE StreamKept'
  OBVIOUS
<1>1. UpdateSinkList(NoSinks, Listed(sinks)) /\ UNCHANGED sinks
  BY DEF Following, InitData, service
<1>2. \A s \in Sinks : MonitorExact(s)' /\ NoSinks[s] # "streaming"
  BY DEF ExactInv, MirrorComes, NoSinks, Absent
<1>3. QED
  BY <1>1, <1>2, KeptRead

LEMMA ReadStreams ==
  ASSUME CastingInv, CastingInv', ExactInv, ExactInv', StreamInv,
         ServiceAvailable \/ OnDBusNameOwnerChanged
  PROVE  StreamInv'
<1>1. CASE ServiceAvailable
  <2>1. /\ inbox # << >> /\ inbox' = Tail(inbox) /\ UNCHANGED service
        /\ Head(inbox) \in Answers /\ Has(inbox, Answers)
    BY <1>1, Handled DEF ServiceAvailable, Answers
  <2>2. monitors = NoSinks
    BY <2>1 DEF ExactInv, OneAnswer, CastingInv, QuietBefore
  <2>3. InitData(NoSinks, connected)
    BY <1>1, <2>2 DEF ServiceAvailable
  <2>4. QED
    BY <2>1, <2>3, TurnsTaken, InitDataStreams DEF StreamInv
<1>2. CASE OnDBusNameOwnerChanged
  <2>1. /\ inbox # << >> /\ inbox' = Tail(inbox) /\ UNCHANGED <<service, available>>
    BY <1>2, Handled DEF OnDBusNameOwnerChanged, setup
  <2>2. InitData(NoSinks, IF connected = None THEN None ELSE Dangling)
    BY <1>2 DEF OnDBusNameOwnerChanged
  <2>3. UNCHANGED service
    BY <2>1
  <2>4. QED
    BY <2>1, <2>2, <2>3, TurnsTaken, InitDataStreams DEF StreamInv
<1>3. QED
  BY <1>1, <1>2

\* Handlers of news after which nothing is read anew.
LEMMA OtherStreams ==
  ASSUME CastingInv, ExactInv, StreamInv, NEW type \in {"list", "missing", "status"},
         Receive(type), UNCHANGED setup
  PROVE  /\ OneStreams' /\ (Tracked' => InTurn(inbox', sinks')) /\ sinks' = sinks /\ OneStreams
         /\ Following' => /\ StreamKept /\ MirrorComes /\ InTurn(inbox, sinks) /\ ~Has(inbox, Reads)
         /\ \A r, s \in Sinks : Turn(inbox, 0, r, s) /\ Head(inbox) \notin StatusesOf(r, {"disconnected"})
                                  => Turn(inbox', 0, r, s)
<1>1. /\ inbox \in Seq(Message) /\ inbox # << >> /\ inbox' = Tail(inbox)
      /\ UNCHANGED <<service, available>>
  BY Handled DEF setup
<1>2. OneStreams' /\ (Tracked' => InTurn(inbox', sinks')) /\ sinks' = sinks
  BY <1>1, TurnsTaken DEF service
<1>3. Following' => /\ StreamKept /\ MirrorComes /\ InTurn(inbox, sinks) /\ ~Has(inbox, Reads)
  BY OtherHandled DEF StreamInv, Following, Tracked
<1>4. ASSUME NEW r \in Sinks, NEW s \in Sinks, Turn(inbox, 0, r, s),
             Head(inbox) \notin StatusesOf(r, {"disconnected"})
      PROVE  Turn(inbox', 0, r, s)
  BY <1>1, <1>4, TurnTail
<1>5. QED
  BY <1>2, <1>3, <1>4 DEF StreamInv

\* News that is no sink's is taken, and the mirror stays.
LEMMA KeptTaken ==
  ASSUME CastingInv, ExactInv, StreamInv, NEW type \in {"list", "missing"},
         Receive(type), UNCHANGED <<setup, mirror>>, Following'
  PROVE  StreamKept'
<1>1. /\ sinks' = sinks /\ StreamKept
      /\ \A r, s \in Sinks : Turn(inbox, 0, r, s) /\ Head(inbox) \notin StatusesOf(r, {"disconnected"})
                               => Turn(inbox', 0, r, s)
  BY OtherStreams
<1>2. /\ \A r \in Sinks : Head(inbox) \notin Statuses(r) /\ Head(inbox) \notin StatusesOf(r, {"disconnected"})
      /\ \A M : Has(inbox, M) <=> Has(inbox', M) \/ Head(inbox) \in M
  BY Handled DEF Statuses, StatusesOf
<1>3. UNCHANGED <<monitors, connected, ignored>>
  BY DEF mirror
<1>4. QED
  BY <1>1, <1>2, <1>3 DEF StreamKept

LEMMA ListStreams ==
  ASSUME CastingInv, CastingInv', ExactInv, ExactInv', StreamInv, SinkListChanged
  PROVE  StreamInv'
<1>1. Receive("list") /\ UNCHANGED setup
  BY DEF SinkListChanged
<1>2. /\ OneStreams' /\ (Tracked' => InTurn(inbox', sinks')) /\ sinks' = sinks /\ OneStreams
      /\ Following' => StreamKept
      /\ \A r, s \in Sinks : Turn(inbox, 0, r, s) /\ Head(inbox) \notin StatusesOf(r, {"disconnected"})
                               => Turn(inbox', 0, r, s)
  BY <1>1, OtherStreams
<1>3. ASSUME Following', UpdateSinkList(monitors, Head(inbox).sinks) PROVE StreamKept'
  <2>1. \A r \in Sinks : Head(inbox) \notin StatusesOf(r, {"disconnected"})
    BY <1>1, Handled DEF Statuses, StatusesOf
  <2>2. \A r, s \in Sinks : r # s /\ monitors[r] = "streaming" /\ sinks[s] = "streaming"
                              => Turn(inbox', 0, r, s)
    BY <1>2, <1>3, <2>1 DEF StreamKept
  <2>3. \A s \in Sinks : MonitorExact(s)'
    BY <1>3 DEF ExactInv, MirrorComes
  <2>4. QED
    BY <1>2, <1>3, <2>2, <2>3, KeptRead
<1>4. CASE subscribed /\ needRefresh
  BY <1>2, <1>3, <1>4 DEF SinkListChanged, StreamInv
<1>5. CASE ~(subscribed /\ needRefresh)
  <2>1. UNCHANGED mirror
    BY <1>5 DEF SinkListChanged
  <2>2. QED
    BY <1>1, <1>2, <2>1, KeptTaken DEF StreamInv
<1>6. QED
  BY <1>4, <1>5

LEMMA MissingStreams ==
  ASSUME CastingInv, ExactInv, StreamInv, MissingCapabilitiesChanged
  PROVE  StreamInv'
<1>1. Receive("missing") /\ UNCHANGED setup /\ UNCHANGED mirror
  BY DEF MissingCapabilitiesChanged
<1>2. OneStreams' /\ (Tracked' => InTurn(inbox', sinks'))
  BY <1>1, OtherStreams
<1>3. Following' => StreamKept'
  BY <1>1, KeptTaken
<1>4. QED
  BY <1>2, <1>3 DEF StreamInv

\* A monitor that begins to stream becomes the connected one; if another sink has
\* begun to stream since, it has news to come.
LEMMA StatusStreams ==
  ASSUME CastingInv, ExactInv, StreamInv, HandleMonitorStateChanged
  PROVE  StreamInv'
<1>a. Receive("status") /\ UNCHANGED setup
  BY DEF HandleMonitorStateChanged
<1>b. PICK t \in Sinks, status \in Status :
         t = Head(inbox).sink /\ status = Head(inbox).status /\ Head(inbox).type = "status"
  BY <1>a, Handled DEF Message
<1>1. /\ inbox \in Seq(Message) /\ inbox # << >> /\ inbox' = Tail(inbox)
      /\ Head(inbox) \in Statuses(t) /\ Head(inbox) \in StatusesOf(t, {status})
      /\ \A M : Has(inbox, M) <=> Has(inbox', M) \/ Head(inbox) \in M
  BY <1>a, <1>b, Handled DEF Statuses, StatusesOf
<1>2. /\ OneStreams' /\ (Tracked' => InTurn(inbox', sinks')) /\ sinks' = sinks
      /\ Following' => /\ StreamKept /\ MirrorComes /\ InTurn(inbox, sinks) /\ ~Has(inbox, Reads)
      /\ \A r, s \in Sinks : Turn(inbox, 0, r, s) /\ Head(inbox) \notin StatusesOf(r, {"disconnected"})
                               => Turn(inbox', 0, r, s)
  BY <1>a, OtherStreams
<1> SUFFICES ASSUME Following' PROVE StreamKept'
  BY <1>2 DEF StreamInv
<1>3. /\ monitors \in [Sinks -> Status \cup {Absent}] /\ "streaming" # Absent
      /\ StreamKept /\ MirrorComes /\ InTurn(inbox, sinks) /\ ~Has(inbox, Reads)
  BY <1>2 DEF CastingInv, TypeOK, Absent
<1>4. \A r \in Sinks \ {t} : /\ Head(inbox) \notin StatusesOf(r, {"disconnected"})
                             /\ Has(inbox', Statuses(r)) <=> Has(inbox, Statuses(r))
  BY <1>1 DEF Statuses, StatusesOf
\* The sink that streams now is the one that is told, or its turn is to come.
<1>5. ASSUME status = "streaming", NEW s \in Sinks, s # t, sinks[s] = "streaming"
      PROVE  Turn(inbox', 0, t, s) /\ Has(inbox', Statuses(s))
  <2>1. 1 \in DOMAIN inbox /\ Fresh(inbox, 1) /\ inbox[1] \in StatusesOf(t, {"streaming"})
    BY <1>1, <1>3, <1>5, TailAt DEF Has, Fresh
  <2>2. Turn(inbox, 0 + 1, t, s)
    BY <1>3, <1>5, <2>1 DEF InTurn
  <2>3. Turn(inbox', 0, t, s)
    BY <1>1, <2>2, TurnTail
  <2>4. QED
    BY <2>3 DEF Turn, Has, StatusesOf
<1>6. ASSUME NEW r \in Sinks, NEW s \in Sinks, r # s, r # t \/ status = "streaming",
             r # t => monitors[r] = "streaming", sinks[s] = "streaming"
      PROVE  Turn(inbox', 0, r, s)
  <2>1. CASE r # t
    BY <1>2, <1>3, <1>4, <1>6, <2>1 DEF StreamKept
  <2>2. CASE r = t
    BY <1>5, <1>6, <2>2
  <2>3. QED
    BY <2>1, <2>2
<1>7. CASE /\ monitors[t] \notin {Absent, status}
           /\ monitors' = [monitors EXCEPT ![t] = status]
           /\ connected' = CASE status = "streaming" -> t
                             [] status = "disconnected" /\ connected = t -> None
                             [] OTHER -> connected
           /\ ignored' = ignored \ {t}
  <2>1. monitors'[t] = status /\ \A r \in Sinks \ {t} : monitors'[r] = monitors[r]
    BY <1>3, <1>7
  <2>2. ASSUME NEW s \in Sinks, monitors'[s] = "streaming", connected' # s, s \notin ignored'
        PROVE  Has(inbox', Statuses(s))
    <3>1. s # t /\ monitors[s] = "streaming" /\ s \notin ignored
      BY <1>7, <2>1, <2>2
    <3>2. CASE connected # s
      BY <1>3, <1>4, <3>1, <3>2 DEF StreamKept
    <3>3. CASE connected = s
      <4>1. status = "streaming"
        BY <1>7, <2>2, <3>1, <3>3
      <4>2. CASE sinks[s] = "streaming"
        BY <1>5, <3>1, <4>1, <4>2
      <4>3. CASE sinks[s] # "streaming"
        <5>1. MonitorExact(s) /\ MonitorFor(s) # "streaming"
          BY <1>3, <4>3, StreamsFor DEF MirrorComes
        <5>2. QED
          BY <1>3, <1>4, <3>1, <5>1 DEF MonitorExact
      <4>4. QED
        BY <4>2, <4>3
    <3>4. QED
      BY <3>2, <3>3
  <2>3. \A r, s \in Sinks :
          r # s /\ monitors'[r] = "streaming" /\ sinks[s] = "streaming" => Turn(inbox', 0, r, s)
    BY <1>6, <2>1
  <2>4. QED
    BY <1>2, <2>2, <2>3 DEF StreamKept
<1>8. CASE /\ monitors[t] \in {Absent, status} /\ UNCHANGED <<monitors, connected>>
           /\ ignored' = ignored \cup {r \in {t} \ {connected} :
                                         monitors[r] = "streaming" /\ status = "streaming"}
  <2>1. monitors[t] = "streaming" => status = "streaming"
    BY <1>3, <1>8
  <2>2. ASSUME NEW s \in Sinks, monitors[s] = "streaming", connected # s, s \notin ignored'
        PROVE  Has(inbox', Statuses(s))
    <3>1. s # t /\ s \notin ignored
      BY <1>8, <2>1, <2>2
    <3>2. QED
      BY <1>3, <1>4, <2>2, <3>1 DEF StreamKept
  <2>3. \A r, s \in Sinks :
          r # s /\ monitors[r] = "streaming" /\ sinks[s] = "streaming" => Turn(inbox', 0, r, s)
    BY <1>6, <2>1
  <2>4. QED
    BY <1>2, <1>8, <2>2, <2>3 DEF StreamKept
<1>9. QED
  BY <1>b, <1>7, <1>8 DEF HandleMonitorStateChanged

LEMMA RefreshStreams ==
  ASSUME CastingInv, ExactInv, ExactInv', StreamInv, NEW on \in BOOLEAN, EnableRefresh(on)
  PROVE  StreamInv'
<1>1. UNCHANGED <<up, sinks, inbox, available>>
  BY DEF EnableRefresh, service, setup
<1>2. /\ OneStreams' /\ (Tracked' => InTurn(inbox', sinks')) /\ OneStreams
      /\ Following' => up /\ StreamKept
  BY <1>1 DEF StreamInv, OneStreams, Tracked, Following
<1>3. ASSUME Following', on PROVE StreamKept'
  <2>1. UpdateSinkList(monitors, Listed(sinks))
    BY <1>2, <1>3 DEF EnableRefresh, RefreshNow
  <2>2. \A s \in Sinks : MonitorExact(s)'
    BY <1>3 DEF ExactInv, MirrorComes
  <2>3. \A r, s \in Sinks : r # s /\ monitors[r] = "streaming" /\ sinks[s] = "streaming"
                              => Turn(inbox', 0, r, s)
    BY <1>1, <1>2, <1>3 DEF StreamKept
  <2>4. QED
    BY <1>1, <1>2, <2>1, <2>2, <2>3, KeptRead
<1>4. ASSUME Following', ~on PROVE StreamKept'
  <2>1. UNCHANGED <<monitors, connected, ignored>>
    BY <1>4 DEF EnableRefresh, RefreshNow, mirror
  <2>2. QED
    BY <1>1, <1>2, <1>4, <2>1 DEF StreamKept
<1>5. QED
  BY <1>2, <1>3, <1>4 DEF StreamInv

LEMMA StreamStep ==
  CastingInv /\ CastingInv' /\ ExactInv /\ ExactInv' /\ StreamInv /\ [Next]_vars => StreamInv'
<1> SUFFICES ASSUME CastingInv, CastingInv', ExactInv, ExactInv', StreamInv, [Next]_vars
             PROVE  StreamInv'
  OBVIOUS
<1>1. CASE ServiceUnavailable \/ WirelessChanged \/ UNCHANGED vars
  <2>1. UNCHANGED <<up, sinks, inbox, available, monitors, connected, ignored>>
    BY <1>1 DEF ServiceUnavailable, WirelessChanged, vars, service, setup, mirror
  <2>2. QED
    BY <2>1 DEF StreamInv, OneStreams, Tracked, Following, StreamKept
<1>2. QED
  BY <1>1, EnvironmentStreams, ReadStreams, ListStreams, MissingStreams, StatusStreams,
     RefreshStreams DEF Next

------------------------------------------------------------------------------
(* Theorems *)

\* Types; nothing is listened to or refreshed before the service has answered.
THEOREM TypeCorrect == Spec => []TypeOK
<1>1. CastingInv => TypeOK
  BY DEF CastingInv
<1>2. QED
  BY <1>1, CastingInvariant, PTL

\* m_curConnected never outlives the restart of the service that deletes its
\* monitor, once that restart has been handled by a service that still runs.
THEOREM ConnectedAfterRestart == Spec => []ConnectedIsMonitor
<1>1. CastingInv => ConnectedIsMonitor
  BY DEF CastingInv
<1>2. QED
  BY <1>1, CastingInvariant, PTL

\* When the panel is shown and everything has arrived, it shows the service's sinks and
\* the state that follows, and the connected one is the sink that streams, if one does:
\* for any number of signals under way when the service is read, and any number of its
\* restarts.  Excepted is a sink whose "streaming" came, and was ignored, when its
\* monitor had read it ahead and was not the connected one: there may be none then.
THEOREM PanelExact == Spec => []StateExact
<1>1. CastingInv /\ ExactInv /\ StreamInv => StateExact
  <2> SUFFICES ASSUME CastingInv, ExactInv, StreamInv, up, needRefresh, inbox = << >>, ~nmChanged
               PROVE  /\ monitors = sinks
                      /\ \/ connected \in Streaming(sinks)
                         \/ connected = None /\ Streaming(sinks) \subseteq ignored
                      /\ state = StateFor(TRUE, device, device /\ enabled, sinks, connected)
    BY DEF StateExact
  <2>1. available /\ \A M : ~Has(inbox, M)
    BY DEF CastingInv, TypeOK, Has
  <2>2. MirrorComes /\ StateComes /\ deviceCheck = device /\ enabledCheck = (device /\ enabled)
    BY <2>1 DEF ExactInv, Following, ChecksCome
  <2>3. monitors = sinks
    <3>1. /\ monitors \in [Sinks -> Status \cup {Absent}] /\ sinks \in [Sinks -> Status \cup {Absent}]
          /\ Absent \notin Status
      BY DEF CastingInv, TypeOK, Status, Absent
    <3>2. \A s \in Sinks : monitors[s] = Absent <=> sinks[s] = Absent
      BY <2>1, <2>2 DEF MirrorComes, Listed
    <3>3. \A s \in Sinks : monitors[s] \in {Absent, MonitorFor(s)}
      BY <2>1, <2>2 DEF MirrorComes, MonitorExact
    <3>4. \A s \in Sinks : monitors[s] = sinks[s]
      BY <3>2, <3>3 DEF MonitorFor
    <3>5. QED
      BY <3>1, <3>4
  <2>4. /\ connected \in Sinks \cup {None}
        /\ connected # None => sinks[connected] = "streaming"
    BY <2>1, <2>2, <2>3 DEF MirrorComes, ConnectedComes, StreamComes
  <2>5. \A s \in Sinks : sinks[s] = "streaming" => connected = s \/ s \in ignored
    <3>1. StreamKept
      BY <2>1 DEF StreamInv, Following
    <3>2. QED
      BY <2>1, <2>3, <3>1 DEF StreamKept
  <2>6. connected \in Streaming(sinks) \/ (connected = None /\ Streaming(sinks) \subseteq ignored)
    <3>1. CASE connected # None
      BY <2>4, <3>1 DEF Streaming
    <3>2. CASE connected = None
      BY <2>5, <3>2, SinksAssumption DEF Streaming
    <3>3. QED
      BY <3>1, <3>2
  <2>7. QED
    BY <2>1, <2>2, <2>3, <2>6 DEF StateComes
<1>2. QED
  BY <1>1, ExactInit, ExactStep, StreamInit, StreamStep, CastingInvariant, PTL DEF Spec
==============================================================================
