----------------------------- MODULE CastingModel -----------------------------
(***************************************************************************)
(* Wireless casting: WirelessCastingModel and its Monitors                 *)
(* (plugins/dde-network-display-ui/plugins/common/                         *)
(* wirelesscastingmodel.cpp) mirror the sinks of the NetworkDisplay        *)
(* service, follow the one that streams and derive the state that the      *)
(* panel shows.                                                            *)
(*                                                                         *)
(* The service's signals arrive one after the other.  Its properties are   *)
(* read by blocking calls: a reply tells what is so now, ahead of signals  *)
(* that are still on their way.  The service may stop and be started again *)
(* at any time; while it is gone reads fail.  It streams to one sink.      *)
(***************************************************************************)
EXTENDS Naturals, Sequences

CONSTANTS
  Sinks,         \* the sinks that may be around
  None,          \* nullptr
  Dangling,      \* a pointer to a Monitor that was deleted
  MaxMessages,   \* bound on the service's signals under way
  MaxStarts      \* bound on the times the service is started

ASSUME SinksAssumption == None \notin Sinks /\ Dangling \notin Sinks /\ None # Dangling
ASSUME LimitAssumption == MaxMessages \in Nat /\ MaxStarts \in Nat

Absent == "absent"
Status == {"disconnected", "firewall", "waiting", "streaming"}

VARIABLES
  up,            \* the service owns its name
  starts,        \* times it was started so far
  sinks,         \* its sinks and their status
  missing,       \* its MissingCapabilities
  device,        \* NetworkManager has a wireless device
  enabled,       \* WirelessEnabled
  inbox,         \* signals of the service and of the bus on their way
  nmChanged,     \* signals of NetworkManager on their way
  asking,        \* the call of checkServiceAvailable() has no answer yet
  available,     \* m_serviceAvailable
  subscribed,    \* initData() has connected SinkListChanged
  needRefresh,   \* m_needRefresh: the panel is shown
  deviceCheck,   \* m_wirelessDevCheck
  enabledCheck,  \* m_wirelessEnabled
  monitors,      \* m_monitors and their m_state
  connected,     \* m_curConnected
  ignored,       \* history: sinks whose "streaming" came when their monitor had
                 \* read it ahead, and another or none was the connected one
  state          \* m_state

service == <<up, starts, sinks, missing>>
network == <<device, enabled>>
checks  == <<deviceCheck, enabledCheck>>
setup   == <<available, checks>>
mirror  == <<subscribed, monitors, connected, ignored>>
vars    == <<service, network, inbox, nmChanged, asking, setup, needRefresh, mirror, state>>

Missing == {"nothing", "P2P", "other"}
CastingState == {"List", "Connected", "NoMonitor", "NotSupportP2P", "WarningInfo",
                 "DisabledWirelessDevice", "NoWirelessDevice"}
Message == [type : {"answer", "owner", "missing"}]
             \cup [type : {"list"}, sinks : SUBSET Sinks]
             \cup [type : {"status"}, sink : Sinks, status : Status]

TypeOK ==
  /\ up \in BOOLEAN /\ starts \in 0..MaxStarts
  /\ sinks \in [Sinks -> Status \cup {Absent}] /\ missing \in Missing
  /\ device \in BOOLEAN /\ enabled \in BOOLEAN
  /\ inbox \in Seq(Message) /\ nmChanged \in BOOLEAN
  /\ asking \in BOOLEAN /\ available \in BOOLEAN
  /\ subscribed \in BOOLEAN /\ needRefresh \in BOOLEAN
  /\ subscribed \/ needRefresh => available
  /\ deviceCheck \in BOOLEAN /\ enabledCheck \in BOOLEAN
  /\ enabledCheck => deviceCheck
  /\ monitors \in [Sinks -> Status \cup {Absent}]
  /\ connected \in Sinks \cup {None, Dangling} /\ ignored \subseteq Sinks
  /\ state \in CastingState

NoSinks == [s \in Sinks |-> Absent]
Listed(list) == {s \in Sinks : list[s] # Absent}

\* The constructor: the first call is on its way.
Init ==
  /\ up \in BOOLEAN /\ starts = 0 /\ missing \in Missing
  /\ sinks \in [Sinks -> {Absent, "disconnected"}] /\ (~up => sinks = NoSinks)
  /\ device \in BOOLEAN /\ enabled \in BOOLEAN
  /\ inbox = << >> /\ nmChanged = FALSE
  /\ asking = TRUE /\ available = FALSE
  /\ subscribed = FALSE /\ needRefresh = FALSE
  /\ deviceCheck = FALSE /\ enabledCheck = FALSE
  /\ monitors = NoSinks /\ connected = None /\ ignored = {}
  /\ state = "NoMonitor"

------------------------------------------------------------------------------
(* The service and NetworkManager *)

model == <<asking, setup, needRefresh, mirror, state>>

Tell(message) ==
  /\ Len(inbox) < MaxMessages
  /\ inbox' = Append(inbox, message)

ServiceStops ==
  /\ up /\ up' = FALSE
  /\ sinks' = NoSinks
  /\ UNCHANGED <<starts, missing, network, inbox, nmChanged, model>>

\* NameOwnerChanged is listened to since prepareDbus(); the service is not started
\* again while its first answer is on its way.
ServiceStarts ==
  /\ ~up /\ up' = TRUE
  /\ \A k \in DOMAIN inbox : inbox[k].type # "answer"
  /\ starts < MaxStarts /\ starts' = starts + 1
  /\ missing' \in Missing
  /\ IF available THEN Tell([type |-> "owner"]) ELSE UNCHANGED inbox
  /\ UNCHANGED <<sinks, network, nmChanged, model>>

SinkAppears(s) ==
  /\ up /\ sinks[s] = Absent
  /\ sinks' = [sinks EXCEPT ![s] = "disconnected"]
  /\ Tell([type |-> "list", sinks |-> Listed(sinks')])
  /\ UNCHANGED <<up, starts, missing, network, nmChanged, model>>

\* The service ends the connection to a sink, and says so, before it drops it.
SinkVanishes(s) ==
  /\ sinks[s] = "disconnected"
  /\ sinks' = [sinks EXCEPT ![s] = Absent]
  /\ Tell([type |-> "list", sinks |-> Listed(sinks')])
  /\ UNCHANGED <<up, starts, missing, network, nmChanged, model>>

\* A sink is connected step by step, by this program or another, and may be
\* cancelled or fail at each step.
SinkMoves(s) ==
  /\ \/ sinks[s] = "disconnected" /\ sinks' = [sinks EXCEPT ![s] = "firewall"]
     \/ sinks[s] = "firewall" /\ sinks' = [sinks EXCEPT ![s] = "waiting"]
     \/ /\ sinks[s] = "waiting"
        /\ \A r \in Sinks : sinks[r] # "streaming"
        /\ sinks' = [sinks EXCEPT ![s] = "streaming"]
     \/ /\ sinks[s] \in Status \ {"disconnected"}
        /\ sinks' = [sinks EXCEPT ![s] = "disconnected"]
  /\ Tell([type |-> "status", sink |-> s, status |-> sinks'[s]])
  /\ UNCHANGED <<up, starts, missing, network, nmChanged, model>>

AnswersCall ==
  /\ up
  /\ asking /\ asking' = FALSE
  /\ Tell([type |-> "answer"])
  /\ UNCHANGED <<service, network, nmChanged, setup, needRefresh, mirror, state>>

CapabilitiesChange ==
  /\ up
  /\ missing' \in Missing \ {missing}
  /\ Tell([type |-> "missing"])
  /\ UNCHANGED <<up, starts, sinks, network, nmChanged, model>>

NetworkChanges ==
  /\ device' \in BOOLEAN /\ enabled' \in BOOLEAN /\ network' # network
  /\ nmChanged' = available
  /\ UNCHANGED <<service, inbox, model>>

------------------------------------------------------------------------------
(* WirelessCastingModel *)

\* checkState() for what the other members are now or in the next state.
StateFor(isAvailable, hasDevice, isEnabled, list, current) ==
  IF ~hasDevice \/ ~isAvailable THEN "NoWirelessDevice"
  ELSE IF ~up THEN state                    \* MissingCapabilities cannot be read
  ELSE IF missing = "P2P" THEN "NotSupportP2P"
  ELSE IF ~isEnabled THEN "DisabledWirelessDevice"
  ELSE IF missing # "nothing" THEN "WarningInfo"
  ELSE IF current # None THEN "Connected"
  ELSE IF Listed(list) = {} THEN "NoMonitor" ELSE "List"

CheckState ==
  state' = StateFor(available', deviceCheck', enabledCheck', monitors', connected')

\* checkWirelessDev()
CheckWirelessDevOnly ==                                             \* mutant
  /\ deviceCheck' = device /\ enabledCheck' = (enabledCheck \/ (device /\ enabled))
CheckWirelessDev ==
  /\ deviceCheck' = device /\ enabledCheck' = (device /\ enabled)

\* A new Monitor reads its status; while that fails it is disconnected.
MonitorFor(s) == IF sinks[s] = Absent THEN "disconnected" ELSE sinks[s]

\* updateSinkList(): the monitors of what is listed, and one that streams.
KeepConnected(list) ==                                              \* mutant
  {connected}
Streaming(list) ==
  LET streams == {s \in Sinks : list[s] = "streaming"}
  IN  IF streams = {} THEN {None} ELSE streams

UpdateSinkList(known, list) ==
  /\ monitors' = [s \in Sinks |->
       IF s \notin list THEN Absent
       ELSE IF known[s] = Absent THEN MonitorFor(s) ELSE known[s]]
  /\ connected' \in Streaming(monitors')
  /\ ignored' = {}

\* initData(): while the service is gone it returns before it connects anything.
InitData(known, current) ==
  \/ /\ up
     /\ UpdateSinkList(known, Listed(sinks))
     /\ subscribed' = TRUE
  \/ /\ ~up
     /\ monitors' = known /\ connected' = current
     /\ UNCHANGED <<subscribed, ignored>>

Receive(type) ==
  /\ inbox # << >> /\ inbox' = Tail(inbox)
  /\ Head(inbox).type = type
  /\ UNCHANGED <<service, network, nmChanged, asking, needRefresh>>

\* checkServiceAvailable(): with the answer come prepareDbus() and initData(), and
\* the service may be gone meanwhile.
ServiceAvailable ==
  /\ Receive("answer")
  /\ available' = TRUE
  /\ CheckWirelessDev
  /\ InitData(monitors, connected)
  /\ CheckState

\* An error, or no answer for 3 s.  Nobody asks again.
ServiceUnavailable ==
  /\ asking /\ asking' = FALSE
  /\ UNCHANGED <<service, network, inbox, nmChanged, setup, needRefresh, mirror, state>>

\* onDBusNameOwnerChanged(): every Monitor is deleted before the data is read anew.
OnDBusNameOwnerChanged ==
  /\ Receive("owner") /\ UNCHANGED setup
  /\ InitData(NoSinks, IF connected = None THEN None ELSE Dangling)
  /\ CheckState

\* The lambda on SinkListChanged: ignored while the panel is hidden.
SinkListChanged ==
  /\ Receive("list") /\ UNCHANGED setup
  /\ \/ /\ subscribed /\ needRefresh
        /\ UpdateSinkList(monitors, Head(inbox).sinks)
        /\ CheckState
        /\ UNCHANGED subscribed
     \/ /\ ~(subscribed /\ needRefresh)
        /\ UNCHANGED <<mirror, state>>

MissingCapabilitiesChanged ==
  /\ Receive("missing") /\ UNCHANGED setup
  /\ UNCHANGED mirror
  /\ IF subscribed THEN CheckState ELSE UNCHANGED state

\* Monitor::checkState() and handleMonitorStateChanged()
HandleMonitorStateChanged ==
  /\ Receive("status") /\ UNCHANGED setup
  /\ UNCHANGED subscribed
  /\ LET s == Head(inbox).sink
         status == Head(inbox).status
     IN  \/ /\ monitors[s] \notin {Absent, status}
            /\ monitors' = [monitors EXCEPT ![s] = status]
            /\ connected' = CASE status = "streaming" -> s
                              [] status = "disconnected" /\ connected = s -> None
                              [] OTHER -> connected
            /\ ignored' = ignored \ {s}
            /\ CheckState
         \/ /\ monitors[s] \in {Absent, status}
            /\ ignored' = ignored \cup {r \in {s} \ {connected} :
                              monitors[r] = "streaming" /\ status = "streaming"}
            /\ UNCHANGED <<monitors, connected, state>>

\* DeviceEnabled, AllDevicesChanged and WirelessEnabledChanged
WirelessChanged ==
  /\ nmChanged /\ nmChanged' = FALSE
  /\ CheckWirelessDev
  /\ UNCHANGED <<service, network, inbox, asking, available, needRefresh, mirror>>
  /\ CheckState

\* enableRefresh(): the panel is shown, or hidden.
EnableRefreshLater(on) ==                                           \* mutant
  needRefresh' = on /\ UNCHANGED <<mirror, state>>
RefreshNow(on) ==
  /\ needRefresh' = on
  /\ IF on /\ up
       THEN /\ UpdateSinkList(monitors, Listed(sinks))
            /\ state' = StateFor(available, deviceCheck, enabledCheck, monitors', connected')
            /\ UNCHANGED subscribed
       ELSE UNCHANGED <<mirror, state>>

EnableRefresh(on) ==
  /\ available
  /\ RefreshNow(on)
  /\ UNCHANGED <<service, network, inbox, nmChanged, asking, setup>>

------------------------------------------------------------------------------
Environment ==
  \/ ServiceStops \/ ServiceStarts
  \/ \E s \in Sinks : SinkAppears(s) \/ SinkVanishes(s) \/ SinkMoves(s)
  \/ AnswersCall \/ CapabilitiesChange \/ NetworkChanges

Next ==
  \/ Environment
  \/ ServiceAvailable \/ ServiceUnavailable
  \/ OnDBusNameOwnerChanged \/ SinkListChanged \/ MissingCapabilitiesChanged
  \/ HandleMonitorStateChanged \/ WirelessChanged
  \/ \E on \in BOOLEAN : EnableRefresh(on)

Spec == Init /\ [][Next]_vars

------------------------------------------------------------------------------
(* Properties *)

\* While the service is there and its last start has been handled, m_curConnected
\* is null or one of the monitors, although every start deletes them.  (While it
\* is gone again before its start is handled, the pointer dangles.)
ConnectedIsMonitor ==
  up /\ (\A k \in DOMAIN inbox : inbox[k].type # "owner")
    => connected = None \/ (connected \in Sinks /\ monitors[connected] # Absent)

\* While the panel is shown and nothing is on its way, the monitors are the
\* service's sinks in their status, the connected one is the sink that streams, if
\* one does, and the state is the one that follows: whatever was read ahead of
\* signals under way, unless a "streaming" that was read ahead was ignored when it
\* came while the end of an earlier stream had left no connected one.
StateExact ==
  up /\ needRefresh /\ inbox = << >> /\ ~nmChanged =>
    /\ monitors = sinks
    /\ \/ connected \in Streaming(sinks)
       \/ connected = None /\ Streaming(sinks) \subseteq ignored
    /\ state = StateFor(TRUE, device, device /\ enabled, sinks, connected)
==============================================================================
