----------------------------- MODULE PowerCache ------------------------------
(***************************************************************************)
(* DBusPower (plugins/dde-dock/power/dbus/dbuspower.cpp): the power        *)
(* plugin's cache of the properties of org.deepin.dde.Power1.              *)
(*                                                                         *)
(* The cache is filled by asynchronous GetAll calls and kept current by    *)
(* PropertiesChanged signals, which either carry the new value or only     *)
(* invalidate the old one.  A snapshot may be read by the service long     *)
(* before its reply is delivered; the service may fail a call, leave the   *)
(* bus, return, or be replaced.                                            *)
(*                                                                         *)
(* The service and the bus are the environment, modelled from how the code *)
(* and its test (tests/powerdbuscache.cpp) use them: one connection        *)
(* delivers signals, replies and owner changes in the order the bus sent   *)
(* them.  A value is the number of the service's update that produced it.  *)
(***************************************************************************)
EXTENDS Naturals, Sequences

CONSTANTS
  Props,            \* OnBattery, BatteryPercentage, BatteryState
  Calls,            \* identities of GetAll calls; one is reused once it is over
  NoCall,           \* m_pendingSnapshot == nullptr
  MaxUpdates,       \* bound on the updates the processes make once started
  MaxIncarnation,   \* bound on the number of processes that own the name
  MaxFailures       \* bound on the calls a living service fails

ASSUME NoCallAssumption == NoCall \notin Calls
ASSUME BoundsAssumption ==
  MaxUpdates \in Nat /\ MaxIncarnation \in Nat /\ MaxFailures \in Nat

VARIABLES
  owner,            \* incarnation that owns the bus name, 0 when nobody does
  lastIncarnation,  \* last incarnation started
  value,            \* value[p]: the service's current value
  updates,          \* updates made so far
  failures,         \* calls failed by a living service so far
  stage,            \* stage[c]: "free", "sent" (not read), "read" (not replied)
  reader,           \* reader[c]: incarnation that read the snapshot of c
  snap,             \* snap[c]: the snapshot it read
  inbox,            \* what the bus has queued for the client, in order
  currentOwner,     \* the owner QDBusAbstractInterface knows: isValid() is # 0
  pending,          \* m_pendingSnapshot
  live,             \* m_liveProperties
  refreshPending,   \* m_refreshPending
  timer,            \* m_refreshTimer: "off", "now" (0 ms) or "retry" (1000 ms)
  cache             \* m_onBattery, m_batteryPercentage, m_batteryState

service == <<owner, lastIncarnation, value, updates, failures>>
flight  == <<stage, reader, snap>>
client  == <<currentOwner, pending, live, refreshPending, timer, cache>>
vars    == <<service, flight, inbox, client>>

Blank == [p \in Props |-> 0]

\* What the bus delivers to the client.
Message ==
       [type : {"changed"}, prop : Props, val : Nat]
  \cup [type : {"invalidated"}, prop : Props]
  \cup [type : {"reply"}, call : Calls, snapshot : [Props -> Nat]]
  \cup [type : {"error"}, call : Calls]
  \cup [type : {"owner"}, owner : Nat]

Send(m) == inbox' = Append(inbox, m)

\* An id is free when neither the bus nor the client refers to its last use.
FreeCalls ==
  {c \in Calls : /\ stage[c] = "free"
                 /\ pending # c
                 /\ \A i \in DOMAIN inbox :
                      inbox[i].type \in {"reply", "error"} => inbox[i].call # c}

Dispatch(c) ==
  /\ stage' = [stage EXCEPT ![c] = "sent"]
  /\ UNCHANGED <<reader, snap>>

TypeOK ==
  /\ owner \in Nat /\ lastIncarnation \in Nat /\ updates \in Nat /\ failures \in Nat
  /\ value \in [Props -> Nat]
  /\ stage \in [Calls -> {"free", "sent", "read"}]
  /\ reader \in [Calls -> Nat]
  /\ snap \in [Calls -> [Props -> Nat]]
  /\ inbox \in Seq(Message)
  /\ currentOwner \in Nat
  /\ pending \in Calls \cup {NoCall}
  /\ live \subseteq Props
  /\ refreshPending \in BOOLEAN
  /\ timer \in {"off", "now", "retry"}
  /\ cache \in [Props -> Nat]

\* The constructor ends in getAllProperties(), which calls at once when the
\* service is there already.
Init ==
  /\ owner \in {0, 1} /\ lastIncarnation = owner
  /\ value = [p \in Props |-> owner]
  /\ updates = 0 /\ failures = 0
  /\ reader = [c \in Calls |-> 0]
  /\ snap = [c \in Calls |-> Blank]
  /\ inbox = << >>
  /\ currentOwner = owner
  /\ live = {}
  /\ refreshPending = FALSE
  /\ timer = "off"
  /\ cache = Blank
  /\ \/ /\ owner = 0
        /\ pending = NoCall
        /\ stage = [c \in Calls |-> "free"]
     \/ /\ owner = 1
        /\ pending \in Calls
        /\ stage = [c \in Calls |-> IF c = pending THEN "sent" ELSE "free"]

------------------------------------------------------------------------------
(* The service and the bus *)

\* The service updates a property and says so, with or without the value.
ServiceUpdates(p) ==
  /\ owner # 0
  /\ updates < MaxUpdates /\ updates' = updates + 1
  /\ value' = [value EXCEPT ![p] = @ + 1]
  /\ \/ Send([type |-> "changed", prop |-> p, val |-> value[p] + 1])
     \/ Send([type |-> "invalidated", prop |-> p])
  /\ UNCHANGED <<owner, lastIncarnation, failures, flight, client>>

\* The service reads its properties to answer a call; the reply comes later.
ServiceReads(c) ==
  /\ owner # 0 /\ stage[c] = "sent"
  /\ stage' = [stage EXCEPT ![c] = "read"]
  /\ reader' = [reader EXCEPT ![c] = owner]
  /\ snap' = [snap EXCEPT ![c] = value]
  /\ UNCHANGED <<service, inbox, client>>

Release(c) ==
  /\ stage' = [stage EXCEPT ![c] = "free"]
  /\ reader' = [reader EXCEPT ![c] = 0]
  /\ snap' = [snap EXCEPT ![c] = Blank]

\* A process that lost the name but still lives may reply all the same.
ServiceReplies(c) ==
  /\ stage[c] = "read"
  /\ Send([type |-> "reply", call |-> c, snapshot |-> snap[c]])
  /\ Release(c)
  /\ UNCHANGED <<service, client>>

\* An error reply, a timeout, or a call to a name nobody owns.
CallFails(c) ==
  /\ stage[c] # "free"
  /\ LET serving == IF stage[c] = "read" THEN reader[c] ELSE owner
     IN  IF owner # 0 /\ serving = owner
           THEN failures < MaxFailures /\ failures' = failures + 1
           ELSE UNCHANGED failures
  /\ Send([type |-> "error", call |-> c])
  /\ Release(c)
  /\ UNCHANGED <<owner, lastIncarnation, value, updates, client>>

OwnerLeaves ==
  /\ owner # 0
  /\ owner' = 0
  /\ Send([type |-> "owner", owner |-> 0])
  /\ UNCHANGED <<lastIncarnation, value, updates, failures, flight, client>>

\* A new process takes the name, free or not, with values of its own.
OwnerArrives ==
  /\ lastIncarnation < MaxIncarnation
  /\ lastIncarnation' = lastIncarnation + 1
  /\ owner' = lastIncarnation'
  /\ value' = [p \in Props |-> value[p] + 1]
  /\ Send([type |-> "owner", owner |-> lastIncarnation'])
  /\ UNCHANGED <<updates, failures, flight, client>>

------------------------------------------------------------------------------
(* DBusPower *)

\* updateProperties(): what the update does not mention keeps its value.
UpdateReplacing(properties) == cache' = properties                  \* mutant
UpdateProperties(properties) ==
  cache' = [p \in Props |-> IF p \in DOMAIN properties THEN properties[p] ELSE cache[p]]

\* getAllProperties(), reached with these values of m_liveProperties and of
\* m_refreshTimer.
GetAllProperties(liveNow, timerNow) ==
  \/ /\ pending # NoCall
     /\ refreshPending' = TRUE
     /\ live' = liveNow /\ timer' = timerNow
     /\ UNCHANGED <<pending, flight>>
  \/ /\ pending = NoCall /\ currentOwner = 0
     /\ live' = liveNow /\ timer' = timerNow
     /\ UNCHANGED <<pending, refreshPending, flight>>
  \/ /\ pending = NoCall /\ currentOwner # 0
     /\ timer' = "off"
     /\ live' = {}
     /\ \E c \in FreeCalls : pending' = c /\ Dispatch(c)
     /\ UNCHANGED refreshPending

\* While a snapshot is on its way, a property heard of is live.
MarkNothing(p) == live                                              \* mutant
MarkLive(p) == IF pending # NoCall THEN live \cup {p} ELSE live

\* The client takes the next message, of the given type.
Receive(type) ==
  /\ inbox # << >>
  /\ Head(inbox).type = type
  /\ inbox' = Tail(inbox)

\* A signal that carries the new value.
PropertyChanged ==
  /\ Receive("changed")
  /\ LET m == Head(inbox)
     IN  /\ live' = MarkLive(m.prop)
         /\ UpdateProperties([p \in {m.prop} |-> m.val])
  /\ UNCHANGED <<service, flight, currentOwner, pending, refreshPending, timer>>

\* A signal that the cached value is no longer good.
PropertyInvalidated ==
  /\ Receive("invalidated")
  /\ GetAllProperties(MarkLive(Head(inbox).prop), timer)
  /\ UNCHANGED <<service, currentOwner, cache>>

\* A refresh asked for during the call starts at once, a failed call again in a
\* second unless the service is gone.
TimerUntouched == timer                                             \* mutant
TimerAfterSnapshot == IF refreshPending THEN "now" ELSE timer
TimerAfterFailure == IF currentOwner # 0 THEN "retry" ELSE timer

\* QDBusPendingCallWatcher::finished with a snapshot: apply what is not live.
SnapshotArrives ==
  /\ Receive("reply")
  /\ LET m == Head(inbox)
     IN  /\ m.call = pending
         /\ UpdateProperties([p \in Props \ live |-> m.snapshot[p]])
  /\ pending' = NoCall
  /\ refreshPending' = FALSE
  /\ timer' = TimerAfterSnapshot
  /\ UNCHANGED <<service, flight, currentOwner, live>>

\* QDBusPendingCallWatcher::finished with an error.
SnapshotFails ==
  /\ Receive("error")
  /\ Head(inbox).call = pending
  /\ pending' = NoCall
  /\ refreshPending' = FALSE
  /\ timer' = TimerAfterFailure
  /\ UNCHANGED <<service, flight, currentOwner, live, cache>>

\* The answer to a call whose watcher was disconnected has no receiver.
AnswerDropped ==
  /\ \E type \in {"reply", "error"} : Receive(type)
  /\ Head(inbox).call # pending
  /\ UNCHANGED <<service, flight, client>>

\* serviceOwnerChanged: forget the old owner's answers and start again.  The
\* base class learns the owner in the same delivery, before any timer fires.
ServiceOwnerChanged ==
  /\ Receive("owner")
  /\ currentOwner' = Head(inbox).owner
  /\ pending' = NoCall
  /\ refreshPending' = FALSE
  /\ live' = {}
  /\ timer' = IF currentOwner' # 0 THEN "now" ELSE "off"
  /\ UNCHANGED <<service, flight, cache>>

\* m_refreshTimer is single-shot: it is off when its slot runs.
RefreshTimeout ==
  /\ timer # "off"
  /\ GetAllProperties(live, "off")
  /\ UNCHANGED <<service, inbox, currentOwner, cache>>

------------------------------------------------------------------------------
ClientNext ==
  \/ PropertyChanged \/ PropertyInvalidated
  \/ SnapshotArrives \/ SnapshotFails \/ AnswerDropped
  \/ ServiceOwnerChanged \/ RefreshTimeout

Next ==
  \/ \E p \in Props : ServiceUpdates(p)
  \/ \E c \in Calls : ServiceReads(c) \/ ServiceReplies(c) \/ CallFails(c)
  \/ OwnerLeaves \/ OwnerArrives
  \/ ClientNext

Spec == Init /\ [][Next]_vars

\* The event loop delivers what is queued and fires its timers; every call is
\* read and ends, with a reply or with an error.
Fairness ==
  /\ WF_vars(ClientNext)
  /\ \A c \in Calls : /\ WF_vars(ServiceReads(c))
                      /\ WF_vars(ServiceReplies(c) \/ CallFails(c))

FairSpec == Spec /\ Fairness

------------------------------------------------------------------------------
(* Properties *)

\* The cache only ever moves forward, and never past the service: no delayed
\* snapshot, whoever sent it, overwrites a newer value, and no update is lost
\* by going back to an older one.
View == INSTANCE ForwardView WITH view <- cache
NeverGoesBack == View!Spec

\* When the client has nothing left to do - no call, no timer, nothing queued -
\* the cache is exact: no order of snapshots, invalidations, failures and owner
\* changes leaves it stale with nobody about to refresh it.
ExactWhenIdle ==
  (pending = NoCall /\ timer = "off" /\ inbox = << >> /\ owner # 0) => cache = value

\* Once the service stops changing, the cache becomes equal to it, if the
\* service is there: failed calls are retried and coalesced refreshes happen.
EventuallyExact == <>[](owner # 0 => cache = value)
==============================================================================
