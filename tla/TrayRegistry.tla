---------------------------- MODULE TrayRegistry -----------------------------
(***************************************************************************)
(* The application tray's registry of icons                                *)
(* (plugins/application-tray/sniprotocolhandler.cpp,                       *)
(* xembedprotocolhandler.cpp, abstracttrayprotocol.h, trayplugin.cpp):     *)
(*                                                                         *)
(*   - SniTrayProtocol follows the StatusNotifierWatcher.  It builds the   *)
(*     handler of a new item in a pool thread, because the first D-Bus     *)
(*     calls to the application block, and adopts it in the main thread,   *)
(*     unless the item was cancelled in the meantime;                      *)
(*   - XembedProtocol follows the X11 tray manager, 200 ms behind it;      *)
(*   - an application that offers both is shown once, as an SNI item:      *)
(*     registeredMap says which protocol shows a process;                  *)
(*   - TrayPlugin keeps a widget per handler under the handler's unique id.*)
(*                                                                         *)
(* The watcher, the tray manager and the applications are the environment. *)
(* An item names a unique bus connection and a window an X11 window, so    *)
(* neither comes back once it is gone.                                     *)
(***************************************************************************)
EXTENDS Naturals, Sequences, FiniteSets, Bags

CONSTANTS
  Items,          \* the SNI items that applications offer
  Windows,        \* the XEmbed icons that applications offer
  Pids,           \* their processes
  ItemPid,        \* ItemPid[i]: the process of item i
  WindowPid,      \* WindowPid[w]: the process of window w
  ItemName,       \* ItemName[i]: the Id property of item i
  NoName,         \* what an item that is gone has for an Id
  NoPid,          \* 0: the process could not be told; not yet asked, in a job
  NoHandler,      \* the item or the window is not in m_registedItem
  MaxSuffix,      \* 100: suffixes that make an id unique
  MaxRestarts,    \* bound on the times the watcher loses its list
  MaxNotices,     \* bound on the signals of the watcher under way
  MaxSweeps       \* bound on the 200 ms timers running

ASSUME ProcessAssumption ==
  /\ ItemPid \in [Items -> Pids] /\ WindowPid \in [Windows -> Pids]
  /\ NoPid \notin Pids /\ NoName \notin {ItemName[i] : i \in Items}
  /\ Items \cap Windows = {}
ASSUME LimitAssumption ==
  /\ MaxSuffix \in Nat /\ MaxRestarts \in Nat
  /\ MaxNotices \in Nat \ {0} /\ MaxSweeps \in Nat \ {0}

VARIABLES
  running,        \* items whose connection is on the bus
  list,           \* the watcher's RegisteredStatusNotifierItems
  notices,        \* its signals, and the first queued call, not handled yet
  restarts,       \* times it lost its list so far
  windows,        \* windows that exist
  icons,          \* the tray manager's TrayIcons
  sweeps,         \* 200 ms timers of onTrayIconsChanged() running
  jobs,           \* bag of the pool's tasks: the item and the pid found
  posted,         \* the handlers they posted to the main thread, in order
  pending,        \* m_pendingItems
  sni,            \* SniTrayProtocol::m_registedItem and m_item2Pid
  xembed,         \* XembedProtocol::m_registedItem and m_item2Pid
  registeredMap,  \* the protocol that shows a process
  currentIds,     \* Util::m_currentIds
  widgets         \* TrayPlugin::m_widget

watcher == <<running, list, restarts>>
manager == <<windows, icons>>
pool    == <<jobs, posted>>
vars    == <<watcher, notices, manager, sweeps, pool, pending, sni, xembed,
             registeredMap, currentIds, widgets>>

AnyPid  == Pids \cup {NoPid}
Bases   == {ItemName[i] : i \in Items} \cup {NoName} \cup AnyPid
Id      == [base : Bases, suffix : 0..MaxSuffix]
Handler == [pid : AnyPid, id : Id]
Job     == [item : Items, pid : AnyPid, asked : BOOLEAN]
Posted  == [item : Items, pid : AnyPid, id : Id]

ASSUME HandlerAssumption == NoHandler \notin Handler

SniItems      == {i \in Items : sni[i] # NoHandler}
XembedWindows == {w \in Windows : xembed[w] # NoHandler}

TypeOK ==
  /\ list \subseteq running /\ running \subseteq Items
  /\ notices \in 0..MaxNotices /\ restarts \in 0..MaxRestarts
  /\ windows \subseteq Windows /\ icons \subseteq Windows
  /\ sweeps \in 0..MaxSweeps
  /\ IsABag(jobs) /\ BagToSet(jobs) \subseteq Job
  /\ posted \in Seq(Posted)
  /\ pending \subseteq Items \ SniItems
  /\ sni \in [Items -> Handler \cup {NoHandler}]
  /\ xembed \in [Windows -> Handler \cup {NoHandler}]
  /\ registeredMap \in [AnyPid -> {"UNKNOWN", "XEMBED", "SNI"}]
  /\ currentIds \subseteq Id
  /\ widgets \subseteq [id : Id, owner : Items \cup Windows]

\* Both constructors queue a first look; applications may be there already.
Init ==
  /\ running = Items /\ list \in SUBSET Items
  /\ windows = Windows /\ icons \in SUBSET Windows
  /\ notices = 1 /\ sweeps = 1 /\ restarts = 0
  /\ jobs = EmptyBag /\ posted = << >>
  /\ pending = {}
  /\ sni = [i \in Items |-> NoHandler]
  /\ xembed = [w \in Windows |-> NoHandler]
  /\ registeredMap = [p \in AnyPid |-> "UNKNOWN"]
  /\ currentIds = {} /\ widgets = {}

------------------------------------------------------------------------------
(* The watcher, the tray manager and the applications *)

tray == <<pool, pending, sni, xembed, registeredMap, currentIds, widgets>>

Notify == notices < MaxNotices /\ notices' = notices + 1

ItemRegisters(i) ==
  /\ i \in running \ list
  /\ list' = list \cup {i}
  /\ Notify
  /\ UNCHANGED <<running, restarts, manager, sweeps, tray>>

\* The item's connection leaves the bus; the watcher tells if it knew of it.
ItemLeaves(i) ==
  /\ i \in running
  /\ running' = running \ {i}
  /\ list' = list \ {i}
  /\ IF i \in list THEN Notify ELSE UNCHANGED notices
  /\ UNCHANGED <<restarts, manager, sweeps, tray>>

\* The watcher is restarted: nothing is signalled, items register again.
WatcherRestarts ==
  /\ restarts < MaxRestarts /\ restarts' = restarts + 1
  /\ list' = {}
  /\ UNCHANGED <<running, notices, manager, sweeps, tray>>

\* Added or Removed: onTrayIconsChanged() starts a timer of its own each time.
StartSweep == sweeps < MaxSweeps /\ sweeps' = sweeps + 1

IconDocks(w) ==
  /\ w \in windows \ icons
  /\ icons' = icons \cup {w}
  /\ StartSweep
  /\ UNCHANGED <<watcher, notices, windows, tray>>

IconUndocks(w) ==
  /\ w \in icons
  /\ icons' = icons \ {w}
  /\ StartSweep
  /\ UNCHANGED <<watcher, notices, windows, tray>>

\* The tray manager hears of it later.
WindowDestroyed(w) ==
  /\ w \in windows
  /\ windows' = windows \ {w}
  /\ UNCHANGED <<watcher, notices, icons, sweeps, tray>>

------------------------------------------------------------------------------
(* Unique ids and widgets *)

\* generateUniqueId(), called for each x in the domain of base, one after the
\* other in any order: the first free suffix of base[x], or MaxSuffix, which
\* stands for the bare name, when there is none.
UniqueIds(base) ==
  LET All == DOMAIN base
      Make(k) == [x \in All |-> [base |-> base[x], suffix |-> k[x]]]
      Others(k, x) == currentIds \cup {Make(k)[y] : y \in All \ {x}}
      FirstFree(k, x) ==
        /\ k[x] < MaxSuffix => Make(k)[x] \notin Others(k, x)
        /\ \A l \in 0..(k[x] - 1) : [base |-> base[x], suffix |-> l] \in Others(k, x)
  IN  {Make(k) : k \in {l \in [All -> 0..MaxSuffix] : \A x \in All : FirstFree(l, x)}}

RememberNone(ids) == {}                                             \* mutant

\* A bare name is not remembered.
Remembered(ids) == {id \in ids : id.suffix < MaxSuffix}

\* onTrayhandlerCreatd(): a widget takes the place its handler's id names.
TrayCreated(table, new) ==
  {x \in table : x.id \notin {n.id : n \in new}} \cup new

\* A handler's destruction frees its id and takes the widget of that id.
TrayDestroyed(table, ids) == {x \in table : x.id \notin ids}

------------------------------------------------------------------------------
(* SniTrayProtocol *)

Without(gone) == [i \in Items |-> IF i \in gone THEN NoHandler ELSE sni[i]]

RemoveGone(gone) ==
  /\ sni' = Without(gone)
  /\ registeredMap' = [p \in AnyPid |->
       IF \E i \in gone : sni[i].pid = p THEN "UNKNOWN" ELSE registeredMap[p]]
  /\ LET ids == {sni[i].id : i \in gone}
     IN  /\ currentIds' = currentIds \ ids
         /\ widgets' = TrayDestroyed(widgets, ids)

ItemsNotPending == list \ pending                                   \* mutant
ItemsWithoutJob == list \ (SniItems \cup {j.item : j \in BagToSet(jobs)})  \* mutant
NewItems == list \ (SniItems \cup pending)

\* registedItemChanged(), past its early return: start a job for each item that
\* is new, remove what is gone, cancel what is pending and gone.
UpdateItems ==
  /\ jobs' = jobs (+) SetToBag([item : NewItems, pid : {NoPid}, asked : {FALSE}])
  /\ RemoveGone(SniItems \ list)
  /\ pending' = (pending \cap list) \cup NewItems

\* The slot reads the list the watcher has now.  It compares two QStringLists:
\* equal sets of two items or more may still differ in order.
RegistedItemChanged ==
  /\ notices > 0 /\ notices' = notices - 1
  /\ \/ /\ list = SniItems
        /\ UNCHANGED <<jobs, pending, sni, registeredMap, currentIds, widgets>>
     \/ /\ list # SniItems \/ Cardinality(list) > 1
        /\ UpdateItems
  /\ UNCHANGED <<watcher, manager, sweeps, posted, xembed>>

\* A pool thread asks the bus for the process of the item.
WorkerFindsPid(j) ==
  /\ ~j.asked
  /\ LET pid == IF j.item \in running THEN ItemPid[j.item] ELSE NoPid
         next == [item |-> j.item, pid |-> pid, asked |-> TRUE]
     IN  jobs' = (jobs (-) SetToBag({j})) (+) SetToBag({next})
  /\ UNCHANGED <<watcher, notices, manager, sweeps, posted, pending, sni, xembed,
                 registeredMap, currentIds, widgets>>

\* Then it builds the handler, with a unique id, and posts it.
WorkerPostsHandler(j) ==
  /\ j.asked
  /\ \E ids \in UniqueIds([i \in {j.item} |-> IF i \in running THEN ItemName[i] ELSE NoName]) :
       /\ posted' = Append(posted, [item |-> j.item, pid |-> j.pid, id |-> ids[j.item]])
       /\ currentIds' = currentIds \cup Remembered({ids[j.item]})
  /\ jobs' = jobs (-) SetToBag({j})
  /\ UNCHANGED <<watcher, notices, manager, sweeps, pending, sni, xembed,
                 registeredMap, widgets>>

RoomForNobody(pid) == {{}}                                          \* mutant
RoomOfAnybody(pid) ==                                               \* mutant
  IF registeredMap[pid] = "SNI" THEN {{}} ELSE {XembedWindows}

\* onRemoveItemByPid(): the XEmbed windows that make room for an item of pid.
RoomFor(pid) ==
  LET same == {w \in XembedWindows : xembed[w].pid = pid}
  IN  IF registeredMap[pid] = "SNI" \/ same = {} THEN {{}} ELSE {{w} : w \in same}

\* The main thread adopts the next handler, if its item is still expected.
HandlerAdopted ==
  /\ posted # << >> /\ posted' = Tail(posted)
  /\ LET h == Head(posted)
     IN  /\ h.item \in pending
         /\ pending' = pending \ {h.item}
         /\ registeredMap' = [registeredMap EXCEPT ![h.pid] = "SNI"]
         /\ sni' = [sni EXCEPT ![h.item] = [pid |-> h.pid, id |-> h.id]]
         /\ \E out \in RoomFor(h.pid) :
              LET ids == {xembed[w].id : w \in out}
              IN  /\ xembed' = [w \in Windows |-> IF w \in out THEN NoHandler ELSE xembed[w]]
                  /\ currentIds' = currentIds \ ids
                  /\ widgets' = TrayCreated(TrayDestroyed(widgets, ids),
                                            {[id |-> h.id, owner |-> h.item]})
  /\ UNCHANGED <<watcher, notices, manager, sweeps, jobs>>

\* A cancelled item's handler is destroyed.
HandlerDropped ==
  /\ posted # << >> /\ posted' = Tail(posted)
  /\ Head(posted).item \notin pending
  /\ currentIds' = currentIds \ {Head(posted).id}
  /\ UNCHANGED <<watcher, notices, manager, sweeps, jobs, pending, sni, xembed,
                 registeredMap, widgets>>

------------------------------------------------------------------------------
(* XembedProtocol *)

PidNow(w) == IF w \in windows THEN WindowPid[w] ELSE NoPid

\* A window of a process that SNI shows is passed over.
NotShownBySni(w) == registeredMap[PidNow(w)] # "SNI"

\* The lambda of onTrayIconsChanged(): add what is new, then remove what is gone.
Sweep ==
  /\ sweeps > 0 /\ sweeps' = sweeps - 1
  /\ LET new  == {w \in icons \ XembedWindows : NotShownBySni(w)}
         gone == XembedWindows \ icons
         freed == {xembed[w].id : w \in gone}
     IN  \E id \in UniqueIds([w \in new |-> PidNow(w)]) :
           LET created == {[id |-> id[w], owner |-> w] : w \in new}
           IN  /\ xembed' = [w \in Windows |->
                    IF w \in new THEN [pid |-> PidNow(w), id |-> id[w]]
                    ELSE IF w \in gone THEN NoHandler ELSE xembed[w]]
               /\ registeredMap' = [p \in AnyPid |->
                    IF \E w \in gone : xembed[w].pid = p THEN "UNKNOWN"
                    ELSE IF \E w \in new : PidNow(w) = p THEN "XEMBED"
                    ELSE registeredMap[p]]
               /\ currentIds' = (currentIds \cup Remembered({id[w] : w \in new})) \ freed
               /\ widgets' = TrayDestroyed(TrayCreated(widgets, created), freed)
  /\ UNCHANGED <<watcher, notices, manager, pool, pending, sni>>

------------------------------------------------------------------------------
MainThread == RegistedItemChanged \/ HandlerAdopted \/ HandlerDropped \/ Sweep

Worker(j) == WorkerFindsPid(j) \/ WorkerPostsHandler(j)

Next ==
  \/ \E i \in Items : ItemRegisters(i) \/ ItemLeaves(i)
  \/ WatcherRestarts
  \/ \E w \in Windows : IconDocks(w) \/ IconUndocks(w) \/ WindowDestroyed(w)
  \/ \E j \in BagToSet(jobs) : Worker(j)
  \/ MainThread

Spec == Init /\ [][Next]_vars

\* The event loop handles what is queued and its timers; the pool runs its tasks
\* (their D-Bus calls time out).
Fairness ==
  /\ WF_vars(RegistedItemChanged)
  /\ WF_vars(HandlerAdopted \/ HandlerDropped)
  /\ WF_vars(Sweep)
  /\ WF_vars(\E j \in BagToSet(jobs) : Worker(j))

FairSpec == Spec /\ Fairness

------------------------------------------------------------------------------
(* Properties *)

\* An application with one item and one window never has two icons: whichever
\* comes first, and whenever a handler is adopted or a timer fires.
Alone(i, w) ==
  /\ \A j \in Items \ {i} : ItemPid[j] # ItemPid[i]
  /\ \A v \in Windows \ {w} : WindowPid[v] # WindowPid[w]

NoDoubleIcon ==
  \A i \in SniItems, w \in XembedWindows :
    Alone(i, w) /\ sni[i].pid # NoPid => sni[i].pid # xembed[w].pid

\* Every handler has exactly the widget its id names, and every widget has its
\* handler: neither a cancelled nor a replaced handler takes the id, or with it
\* the widget, of another, and none leaves an id in use behind.
WidgetPerHandler ==
  LET shown == {[id |-> sni[i].id, owner |-> i] : i \in SniItems}
                 \cup {[id |-> xembed[w].id, owner |-> w] : w \in XembedWindows}
      waiting == {posted[k].id : k \in DOMAIN posted}
  IN  /\ widgets = shown
      /\ \A x, y \in shown : x.id = y.id => x = y
      /\ currentIds = {x.id : x \in shown} \cup waiting
      /\ {x.id : x \in shown} \cap waiting = {}

\* An icon that stays keeps its owner and its id, and a new one takes neither
\* from an icon that stays nor from one that goes in the same step, although a
\* sweep adds first and removes then, an adopted item drives out a window, and ids
\* are handed out by the pool while the main thread frees others.
Icons == INSTANCE IconTable WITH
  icons <- widgets, Ids <- Id, Owners <- Items \cup Windows
IconsKept == Icons!Spec

\* An item that should be shown is not forgotten: the watcher's signal will have
\* the list read again, or the item is expected and a job or a posted handler for
\* it is under way, whatever was cancelled or started twice before.
UnderWay(i) ==
  \/ \E j \in BagToSet(jobs) : j.item = i
  \/ \E k \in DOMAIN posted : posted[k].item = i

ItemNotForgotten ==
  \A i \in list \ SniItems : notices > 0 \/ (i \in pending /\ UnderWay(i))

\* Nor is the docked window of an application without items, though items whose
\* process could not be told claim the process of windows that died.
WindowNotForgotten ==
  \A w \in (icons \cap windows) \ XembedWindows :
    (\A i \in Items : ItemPid[i] # WindowPid[w]) => sweeps > 0

\* An item that stays registered is shown in the end, whatever cancellations and
\* watcher restarts it lived through.
ItemShown == \A i \in Items : <>[](i \in list) => <>[](i \in SniItems)

\* The window of an application without items that stays docked is shown in the
\* end, whatever items come and go.
WindowShown ==
  \A w \in Windows :
    (\A i \in Items : ItemPid[i] # WindowPid[w])
      => (<>[](w \in icons \cap windows) => <>[](w \in XembedWindows))

\* "item cancelled, not added": once the watcher has said everything, an item it
\* does not list is not added.
CancelledNotAdded ==
  [][\A i \in Items : i \in SniItems' \ SniItems => i \in list \/ notices > 0]_vars
==============================================================================
