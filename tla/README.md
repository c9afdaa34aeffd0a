# dde-tray-loader: models, checks and proofs

`dde-tray-loader` loads the plugins of the deepin dock, one process per group of
plugins, and shows their widgets on a private Wayland compositor that the dock
runs. This directory holds TLA+ models of the parts of it whose correctness
depends on the order in which asynchronous things happen, TLC configurations that
check them on small instances, and TLAPS proofs for all instances.

Paths below are relative to the repository's root, `src/`.

## 1. Inventory

| component | state | operations | talks to |
|---|---|---|---|
| Power property cache: `DBusPower` (`plugins/dde-dock/power/dbus`) | three cached properties, the pending `GetAll`, the set of live properties, refresh flag, refresh timer | signals with or without a value, `GetAll` and its answer, owner change, timer | `org.deepin.dde.Power1` over the session bus; read by `PowerPlugin` |
| Application tray registry (`plugins/application-tray`): `SniTrayProtocol`, `XembedProtocol`, `TrayPlugin`, `Util` | handlers per item and per window, pending items, the protocol that shows each process, ids in use, widgets | registration and unregistration, pool jobs, adopted handlers, 200 ms sweeps, destruction | StatusNotifierWatcher, `TrayManager1`, X server, the loader |
| Card of a plugin (`src/loader/widgetplugin.cpp`, `cardpluginitem.cpp`, `src/tray-wayland-integration`) | fashion mode, item-added flag, card window, table from windows to `EmbedPlugin`s, surfaces | `itemAdded`, `itemRemoved`, fashion mode messages, order message, deferred deletion | the dock (Wayland), the media plugin |
| Popups and tooltips: `PluginPopup`, `PluginPopupSurface` | table from windows to popups | get, remove, hide, close by the dock | pluginitem, the dock |
| Loader start-up: `PluginManager`, `main`, `trayplugingroups` | pending plugin paths, loaded plugins, environment | load the next plugin, switch the environment, finish | DConfig, plugins |
| Menu importer: `DBusMenuImporter` (`plugins/libdbusmenuqt`) | menus and their actions, the table from ids to actions, ids refreshed by AboutToShow, pending layout updates | open a menu, `LayoutUpdated`, answers of `GetLayout` and `AboutToShow`, deferred deletion | the application's DBusMenu |
| X selection manager: `FdoSelectionManager`, `TrayManager1` (`plugins/application-tray`) | icons and their pixmaps, damage watches, enabled flags | claim, dock, undock, change notices | X clients, `XembedProtocol` |
| XEmbed windows: `XembedProtocol`, its handlers, `Util` (`plugins/application-tray`) | a handler per window: ownership, icon, timers; container windows; recorded input shapes | 200 ms sweep, embed, read the icon, shape, invalidate | X server, `TrayManager1` |
| Brightness: `BrightnessController` (`plugins/dde-dock/brightness`) | one waiting request, waiting and pending flags, pool jobs; monitors | set the brightness, run a job, finish | the display service |
| Wireless casting model (`plugins/dde-network-display-ui`) | sinks, the connected one, service state | sink list, state changes, back end restart | NetworkDisplay, NetworkManager |
| systemd units (`systemd`) | target and group instances | start, stop, restart limit | the dock's unit |
| DDE indicators, XDG activation | an icon per configuration file; a token request | poll, show | D-Bus, compositor |
| Plugins (bluetooth, sound, notification, power, ...) | widgets over one D-Bus service each | property changes, clicks | their services |
| Shared widgets, interfaces, generated proxies, artwork | none, or presentation only | | |

What is hard here is the same thing in every part: a single GUI thread runs short
handlers, and what they start ends later, in another order. Replies overtake or
follow signals; pool threads build objects whose reason may be gone when they are
posted; `deleteLater()` lets an object live on, still connected, after it has been
replaced; services and applications come and go in between. The hazards are
listed with their lines in `PROJECT.json`.

What makes each part correct:

- *Power cache*: never shows a value older than one it has shown; is never left
  stale with nothing scheduled that would refresh it; recovers from failed calls
  and from a replaced service.
- *Tray registry*: one icon per application; a handler has its own widget and id;
  what stays registered is shown; what was cancelled is not.
- *Card*: a card that is shown has a surface of its own, and is shown exactly in
  fashion mode while there is something to show.
- *Popups*: a popup that is shown is in the table until it is hidden.
- *Loader*: every plugin is loaded once, with the private environment, and nothing
  else runs with it.
- *Menu importer*: no table names an action that was deleted; after the last layout
  update the menu is the application's.
- *Selection manager and XEmbed windows*: no icon, claim or record outlives the window
  it is about, although window ids are used again; what an icon shows is, in the end,
  what its window shows.
- *Brightness*: one call at a time, and the newest request is not lost.
- *Casting*: the connected monitor is one of the monitors; a panel that is shown has the
  service's sinks, and the one that streams, once all signals have arrived.

## 2. Modules

| module | models |
|---|---|
| `ForwardView` | abstract: a mirror of remote properties that never runs ahead of the service and never goes back |
| `PowerCache` | `DBusPower`, with the service and the bus as environment |
| `PowerCacheProofs` | theorems about `PowerCache` |
| `IconTable` | abstract: a tray whose icons keep their owner and their id for as long as they are there |
| `TrayRegistry` | `SniTrayProtocol`, `XembedProtocol`, `registeredMap`, `Util`'s ids, `TrayPlugin`'s widgets |
| `TrayRegistryProofs` | theorems about `TrayRegistry` |
| `ShellSurface` | abstract: a window whose surface stands for one living object from show to hide |
| `CardSurface` | the card part of `WidgetPlugin`, `EmbedPlugin`'s table, `PluginSurface`'s life, `MediaPlugin` |
| `CardSurfaceProofs` | theorems about `CardSurface` |
| `PopupTable` | `PluginPopup`'s table, `PluginPopupSurface`'s life, and the handlers of `PluginItem` and `WidgetPlugin` that open and close popups |
| `PopupTableProofs` | theorems about `PopupTable` |
| `CastingModel` | `WirelessCastingModel` and `Monitor`, with the service, its signals and NetworkManager as environment |
| `CastingModelProofs` | theorems about `CastingModel` |
| `MenuImporter` | `DBusMenuImporter`'s layouts, with the application, its answers and `deleteLater()` |
| `MenuImporterProofs` | theorems about `MenuImporter` |
| `XembedWindows` | `FdoSelectionManager`, `TrayManager1`, `XembedProtocol` and its handlers, `Util`'s shapes, with X clients and the X server as environment |
| `XembedWindowsProofs` | theorems about `XembedWindows` |
| `BrightnessRequests` | `BrightnessController`'s queue of requests and its pool jobs |
| `BrightnessRequestsProofs` | theorems about `BrightnessRequests` |
| `MCPowerCache`, `MCTrayRegistry`, `MCCardSurface`, `MCPopupTable`, `MCCastingModel`, `MCMenuImporter`, `MCXembedWindows` | instances for TLC |

An operator marked `mutant` is a wrong version of the operator after it. No
specification uses it: putting it in the place of the right one shows that a
property notices.

### PowerCache

A *value* of a property is the number of the update that produced it, so "older"
is `<`. The service reads a snapshot in one step (`ServiceReads`) and replies in
another (`ServiceReplies`); everything the bus delivers goes through one queue
`inbox`, because one connection delivers in order. Each slot of `DBusPower` is one
action: `PropertyChanged`, `PropertyInvalidated`, `SnapshotArrives`,
`SnapshotFails`, `ServiceOwnerChanged`, `RefreshTimeout`. `getAllProperties()` is
an operator that the three callers use, with its three outcomes (a call is
pending, nobody owns the name, call). An answer to a call whose watcher was
disconnected is consumed by `AnswerDropped`. `QDBusAbstractInterface`'s owner,
behind `isValid()`, changes in the same delivery as the slot on
`serviceOwnerChanged`; the code relies on its 0 ms timer to come after both.
Left out: the change signals of `updateProperties()` to the readers, which read
the cache only.

### TrayRegistry

`Items` are the SNI items, `Windows` the XEmbed icons; both have a process. The
watcher's list is read when the slot runs, not when the signal was sent, so
signals are only counted (`notices`). A pool job asks for the process
(`WorkerFindsPid`) and builds and posts the handler (`WorkerPostsHandler`); jobs
of one item may run at the same time, hence a bag. The main thread takes what is
posted in order (`HandlerAdopted`, `HandlerDropped`). `Sweep` is the lambda 200 ms
after `Added` or `Removed`. Destroying a handler removes its widget and id in the
same step, as the destructor does. `getWindowPid()` and `servicePid()` give 0 for
what is gone. `QHash` lookups of an unknown process give `UNKNOWN`. The order of
`QMap::keys()` and of the watcher's list may differ, so the early return of
`registedItemChanged()` may or may not be taken when two equal sets have several
elements. A handler is taken as enabled: whether an icon has something to paint
is not modelled.

### CardSurface

One plugin with a card. `cardLive` are the `EmbedPlugin`s of the card's window that
are not yet destroyed, `bound` the one `s_map` holds. Hiding the window takes the
entry out of the table and posts the deletion, `DeletePlugin` runs it: between the
two the card may be shown again with a new plugin. `surface` is the plugin of the
`PluginSurface`, made when the window is shown and destroyed when it is hidden.
`SendOrder` is the queued lambda of `bindCardPluginSurface()` together with the
surface's lambda on `requestMessage`. Since that lambda has the manager for
context it also runs after the surface is destroyed, and reads the destroyed
object: its outcome is left open. The dock's messages reach `WidgetPlugin` only
while an `EmbedPlugin` of the quick panel lives (`MessageArrives`); the dock
repeats its mode after it sees a new plugin surface (`DockAnswers`), as the
comment in `itemAdded()` relies on. Identities stand for addresses: one is free
again once its object is dead and nothing posted names it.

### PopupTable

One tray item with its three windows, tooltip, applet and menu. `live[w]` are the
`PluginPopup`s of a window (its `QObject` children), `table` is `s_popupMap`,
`doomed` those that `deleteLater()` was called on. A handler does several things to
the table in turn, so these are operators from a record of the popups' state to the
next (`Get`, `Remove`, `Hide`, `Show`, `Destroy`), and an action is their
composition, in the order of the code. `Hide` does what `visibleChanged(false)` does
to every popup of the window, `Show` what `createShellSurface()` does for a window
that was hidden. A deletion that was put off (`DeletePopup`) is an action of its
own. Pointer events are delivered in batches, which is why other handlers may run
before it. `embedded` is the popup type that `embedPanelPopupExisted()` asks for.
Plugins may decline a tooltip, applet or menu: the action is then not taken.

### CastingModel

Signals of the service, and `NameOwnerChanged`, are in one queue `inbox`; properties
are read by blocking calls that see the service as it is now, ahead of the queue
(`MonitorFor`, `InitData`, `RefreshNow`, `StateFor`), and fail while it is down. A
`Monitor` and its `m_state` are an entry of `monitors`. `m_curConnected` is a sink,
`None`, or `Dangling` after `resetNetworkDisplayData()` deleted what it pointed to.
The steps of a P2P connection are drawn together in four statuses: disconnected
(with error), waiting for the firewall, waiting for the peer, streaming; the code
tells no more apart. NetworkManager's three signals are one flag `nmChanged`, since
`checkWirelessDev()` reads everything anew. That `initData()` connects its lambdas
once more after each restart makes them run several times; they are idempotent
as long as nothing comes between, and run in one delivery, so `subscribed` is a
flag. `ignored` is a history variable: sinks whose "streaming" came when their monitor had
read it ahead, so that `Monitor::checkState()` ignored it, and which were not the connected
one by then. Assumed of the service: it streams to one sink, ends a sink's connection
before it drops the sink, and is not restarted while its very first answer is on
its way.

### MenuImporter

A menu is the set of its actions; an action is an item's id and a name that tells
copies of it apart, since `deleteLater()` lets the old action of an id live on beside
the new one. `queue` holds in one order what the main thread handles: answers, signals
and posted deletions (a deletion is posted behind what is already there, and an
answer that arrives later is handled after it). The application answers calls in
order; it may change a menu at any time and when it is about to show it, and says so
before its answer, after it, or by the answer alone. `ApplyLayout` is
`slotGetLayoutFinished()` from the outdated actions to the end: an id that
`m_actionForId` has, whichever action that names, is updated and moved to this menu,
others are created. `ActionsDeleted` runs the deletions that were posted together,
with the lambdas on `destroyed`, which forget the id without asking whose it is by
now. `missed` is a history variable: menus of which an update was taken for the echo
of an AboutToShow, or a fetch failed, and nothing was fetched since.

### XembedWindows

The windows of X clients have ids that are used again: `named[w]` numbers the window
that an id names, `life` of a handler is the number of the one it embedded. A request
meets the windows there are now, an event (`events`) was sent earlier. `dock()` waits
for answers, so whether the window is there is decided once per step, at the second
of `addDamageWatch()`'s requests: before it, the request fails; after it, the destroy
event comes. Both event filters see an event in one step (`DestroyNotified` is
`undock()` and `invalidate()`). `shows[w]` is the image a window shows; a client may draw
any of `Images` at any time, the one it showed before or the one that was announced last
included, and there is one damage event for all it draws until the damage is subtracted.
`notifyIconChanged()` compares images (`NewsFor`): it is silent when there is none, when
it is the one announced last, and when a client has switched announcements off
(`muted`, `EnableNotification`). A look at a window that is not embedded may fail
(`NoImage`). The handler's picture is made of the image alone, so it is taken as the
image. `untold` is a history variable of a handler: the last damage was handled
without `Changed` although the handler had another image (`LeftBehind`), and it has not
looked since. `changed` are the `Changed`
signals on their way to the handlers, which go through the session bus and come back,
`due` a handler's queued call and timers: `init` (`initX11resources()`), `first` (the
100 ms after it), `attention` (100 ms) and `update` (200 ms). `MakesRoom` is
`onRemoveItemByPid()`, and `Sweep` may pass over a window for an SNI item: those are
the registry's decisions, which `TrayRegistry` models and which are left open here, so
that what is shown here holds whatever the registry decides.
A handler that is destroyed destroys its container, with an embedded window still
in it: `WindowGoes` may follow or not, which allows more than the code.
Destroying an invalidated handler removes the record of the shape once more; that a
handler of a window whose id was used again is destroyed after the new one's has
been made cannot happen, as one table entry holds both.

### BrightnessRequests

A step is what runs under the mutex at a time. A request is its number; the slot
holds the newest, or 0 after a job took it. A job lets go of the mutex before it
calls the service, so `taken` (not sent yet) and `calls` are apart, and jobs of
several pool threads may send in another order than they took. The watcher's
`finished()` is queued to the main thread for every job, also for one that returned
early.

## 3. Runs

| run | instance | shows |
|---|---|---|
| `power_cache` | 2 properties, 3 call ids, 2 processes, 2 updates, 1 failure of a living service | `NeverGoesBack` (refinement of `ForwardView`), `ExactWhenIdle`, `EventuallyExact`, `TypeOK` |
| `tray_registry` | 2 items with the same name, 1 window of the first one's process, 1 watcher restart | `NoDoubleIcon`, `WidgetPerHandler`, `ItemNotForgotten`, `IconsKept` (refinement of `IconTable`), `ItemShown`, `TypeOK` |
| `tray_windows` | 2 items, 2 windows, the second of a process of its own | `WindowNotForgotten`, `WindowShown` |
| `tray_cancel` | 1 item | `CancelledNotAdded` is violated (finding) |
| `card_surface` | 4 `EmbedPlugin` objects, 2 messages under way | `CardHasSurface`, `CardExact`, `OrderComes`, `SurfaceKept` (refinement of `ShellSurface`), `CardFollowsMode`, `CardOrdered`, `TypeOK` |
| `card_order` | the same | `OrderMeetsSurface` is violated (finding) |
| `popup_table` | 4 popups | `PopupOnDock`, `SurfacesKept` (refinement of `ShellSurface`, three times), `TypeOK` |
| `popup_others` | 3 popups | `OthersPopupKept` is violated (finding) |
| `casting` | 2 sinks, 2 messages under way, 2 starts of the service | `ConnectedIsMonitor`, `StateExact`, `TypeOK` |
| `menu_importer` | an item, a submenu and an item in it, 2 copies of an action, 2 changes, 1 opened menu, 1 failed call | `NoDanglingAction`, `RootExact`, `RootSettles`, `TypeOK` |
| `xembed_windows` | one id that two windows have in turn, 2 images | `IconBacked`, `OwnedIsCurrent`, `ShapeRecorded`, `IconFresh`, `GhostLeaves`, `NoGhost`, `TypeOK` |
| `brightness` | 2 pool threads, 3 requests | `OneCallAtATime` is violated (finding) |

Each liveness property has a safety half beside it, which says that what should happen in
the end has happened or that something which will see to it is under way:

| in the end | until then |
|---|---|
| `EventuallyExact` | `ExactWhenIdle` |
| `ItemShown` | `ItemNotForgotten`: the watcher's signal, a pool job or a posted handler |
| `WindowShown` | `WindowNotForgotten`: a sweep |
| `CardFollowsMode` | `CardExact`: a message, or the dock owes an answer |
| `CardOrdered` | `OrderComes`: the order is posted to the plugin of the surface |
| `RootSettles` | `RootExact` |
| `NoGhost` | `GhostLeaves`: the destroy event for an icon, a sweep for a handler |

The safety halves need no fairness and are proved (section 4); the liveness properties add
that, under the fairness below, nothing is under way for ever.

Bounds and why they are enough:

- *power*: two properties are needed for a snapshot of which only a part is applied;
  two processes for an answer of the old one after the new one was asked; two
  updates for one that the snapshot saw and one it did not, on top of those each
  process starts with; three call ids for a disconnected call, its successor and
  the next. `MaxFailures` bounds only the failures of a service that is there:
  calls to a name without owner fail as often as they like. The proofs have none
  of these bounds.
- *tray*: items with the same name make ids collide; the window of the first item's
  process makes the protocols race; one restart of the watcher gives an item whose
  list entry vanishes with no signal. `MaxNotices = 2` and `MaxSweeps = 1` bound
  what is under way, not how often it happens: applications may register and dock
  for ever. A sweep that is due looks at the icons when it fires, so a second
  timer running adds only another look. `MaxSuffix = 3` (100 in the code) exceeds
  the handlers of one name that exist at a time.
- *card*: a card and a quick panel that are shown, and one more of each waiting
  for their deletion. When no object is free, showing waits for a deletion: that
  bound is on how fast the user is, as are two messages under way.

- *popups*: a window with a popup that waits for its deletion, one that replaced it,
  and one for each other window. When none is free the handler waits for a
  deletion.
- *casting*: two sinks for a stream that moves from one to the other; two messages
  for news that was read before it is handled and one behind it; a start for each
  of: the service that comes late, the service that comes back. Sinks, streams,
  capabilities and wireless devices come and go without bound. The model was also
  checked once with three messages under way, and the proofs' invariants (StreamInv
  and ExactInv) once with four and no restart of the service.
- *menu*: an item that goes and comes back while its action waits for deletion takes two
  changes and two copies (a third copy is never needed: at most two actions of one id
  live at a time, also with two opened menus); the submenu with an item in it is needed
  for actions that die with their menu. One opened menu gives the mark that an
  AboutToShow leaves.
- *X windows*: two windows of one id, one that has gone and its successor, which may come
  while the end of the first is not handled; two images, so that a window can draw
  another and draw back (a third would be one more that differs from both). Handlers, icons, events and
  records concern one window; windows share only `checkValid()`, which drops what is
  gone, and the comparison of the two lists in the sweep. The proofs are for any
  number of ids and windows. Events of one kind are not queued twice for a window by
  clients, which bounds the events that nobody has handled, not those that come.
- *brightness*: the third request is the one that is sent too early.

Deadlock is checked for `PopupTable` only: in the other models the environment may
stop for good, and the bounds make it stop.

*Fairness.* Weak fairness is assumed of the event loop (each kind of queued event and
expired timer is handled in the end; X events that were read while a handler waited for an
answer are dispatched by `Util::dispatchEvents()` when the loop is about to block), of
pool jobs (their D-Bus calls time out),
of a D-Bus call (it is answered or fails: libdbus has a timeout), and of the dock's
answer to a new surface. Nothing is assumed of users, applications, services or
the watcher. Liveness is stated in the form "if the environment settles, then".

### Findings

1. `tray_cancel`: `registedItemChanged()` compares the watcher's list with the
   adopted items only. An item that registers and leaves while its handler is
   built in the pool makes the two equal, the function returns early, the
   cancellation at its end is skipped, and the handler of an application that is
   gone is adopted. The icon stays until another item comes or goes.
2. `card_order`: the card's order is queued so that "the plugin surface exists
   [...] before the message arrives". Hiding the card in the same turn destroys the
   surface first and posts the plugin's deletion behind the order; the order is
   then emitted without a surface, through a lambda that captured the destroyed
   `PluginSurface`.
3. `popup_others`: the destruction of a `PluginPopup` removes its window's entry from
   `s_popupMap` without asking whose it is. A window that is shown again before its
   last popup is deleted loses the entry of the new one. A tooltip is then shown
   without a surface; an applet stays open when its item is clicked. `EmbedPlugin`'s
   table has the check that is missing here (`removeFromPluginMap()`).
4. `brightness`: two requests that come in one turn of the event loop start two jobs.
   The second returns early, and its `finished()` clears `m_hasPendingRequest` although
   the call of the first still runs; the next request is sent beside it instead of
   being recorded ("前面亮度设置未完成，只记录最新请求"). The older value may reach the
   service last.

Stated narrower than one might wish, because the code does otherwise and promises
nothing: with two items of one process the first to leave makes the registry
forget the process, so an XEmbed icon may appear beside the other (`NoDoubleIcon`
is for one item and one window per process); a window passed over for an item is
not looked at again when the item leaves (`WindowShown` is for processes without
items); `RootExact` excepts menus whose update was taken for an echo or whose fetch
failed, and speaks of the items that are shown, not of how often: an old action whose
deletion forgets the id of the new one lets a later layout create the item a second
time. `IconFresh` excepts what the last damage left behind: a window draws, a timer of its
handler shows that, and the window draws what it showed before, all under one damage event;
the image is then the one announced last, `notifyIconChanged()` returns (line 77), and the
icon stays as it is until the next damage (`untold`; the same when a client has switched
the announcements off). `StateExact` excepts a stream that was ignored: the panel opens
and reads a new stream ahead while the old one's monitor is still the connected one; the
old one's end then clears `m_curConnected`, the new one's "streaming" is no news to its
monitor (`wirelesscastingmodel.cpp:433`), and the panel shows the list while the sink
streams (`ignored`). `ConnectedIsMonitor` speaks of a service that is up: when it is gone
again before its start is handled, `initData()` returns at lines 82-83, and
`m_curConnected`, whose monitor was deleted, dangles until the next start is
handled. `NoGhost` is about ids that are not used again: a window that docks under the id
of one that went less than 200 ms before keeps the old handler, which does nothing
for it.

## 4. Proofs

`PowerCacheProofs` proves, for any finite or infinite sets of properties and calls
and for any bounds, assuming only `NoCallAssumption` and `BoundsAssumption`:

- `TypeCorrect`: `Spec => []TypeOK`.
- `ForwardOnly`: `Spec => NeverGoesBack`, that is, `PowerCache` implements
  `ForwardView` with the cache as the view. Initial states map to initial states,
  service actions to `ServiceMoves`, `UpdateProperties` to `ViewMoves`, all else
  stutters. A property that a snapshot would set back must be live; so the
  invariant `ForwardInv` says where old news may still be: no message or snapshot
  is ahead of the service (`NotAhead`), messages about one property are in order in
  the queue (`InOrder`), and a snapshot that may still be applied is at least as
  new as the cache in every property that is not live, and stays so after the
  messages before it (`SnapshotIsNewer`).
- `IdleCacheIsExact`: `Spec => []ExactWhenIdle`. The invariant `ExactInv` says who
  will refresh a stale property: there is one answer per call (`OneAnswer`), a
  pending refresh needs a pending call (`RefreshNeedsCall`), the owner the client
  knows is the last one announced (`OwnerIsKnown`, `LastOwnerNews`), a message with
  an out-of-date value is followed by a newer one about its property
  (`OldNewsFollowed`), and every property is exact, or a call, timer or message is
  still to come that sees to it (`WillBeExact`).

`TrayRegistryProofs`, for any items, windows and processes, assuming only
`ProcessAssumption`, `LimitAssumption` and, where the ids are concerned,
`HandlerAssumption` (the name for "no handler" is not a handler):

- `TypeCorrect`: `Spec => []TypeOK`.
- `OneIconPerApplication`: `Spec => []NoDoubleIcon`. `registeredMap` is what keeps the two
  protocols apart, so `Claims` ties it to what is shown, for an application with one
  item and one window: an item that is shown has claimed its process, and a claimed
  process has no window shown. That nobody else can take the claim away needs
  `OwnPids`: jobs, posted handlers and handlers carry their application's process or
  none. The two removals of the code that reset a process to unknown, of an item and
  of a window, are where the proof has to work; for applications with several items
  or windows they are what breaks the property (see the end of section 3).
- `OneWidgetPerHandler`: `Spec /\ []NoBareName => []WidgetPerHandler`. The ids in use are
  those of the handlers that are shown and of the handlers that are posted, and no two
  have the same one; an item that is looked at has no handler yet (`IdInv`). So an id is
  freed only by the handler that has it. `NoBareName` says that no name has used up its
  suffixes, 100 in the code: `generateUniqueId()` then hands out the bare name and does
  not remember it, and two handlers may share it.
- `TrayKeepsIcons`: `Spec /\ []NoBareName => IconsKept`, that is, `TrayRegistry` implements
  `IconTable` with the widgets as icons. An icon that stays keeps its id and its owner, and
  an icon that comes takes neither from one that stays nor from one that goes in the same
  step. The step that needs care is the sweep, which makes its handlers before it drops
  others, and the adoption of an item that drives out a window: ids that go are still in
  use when new ones are made (`IdInv`), and an owner that is shown gets no second handler.
- `FewIdsSuffice`: `Spec /\ []FewIds => []WidgetPerHandler /\ IconsKept`. `FewIds` replaces
  `NoBareName` by something one can see from outside: ids in use and docked windows are
  finitely many and together fewer than `MaxSuffix`. The first free suffix of a name is then
  below `MaxSuffix` (`FirstFreeSuffix`, a pigeonhole argument: all suffixes below it are
  taken, by different ids), so `NoBareName` is an invariant (`NamesSuffice`).
- `NoItemForgotten`: `Spec => []ItemNotForgotten`. The pending items are those for which
  a job or a posted handler is under way (`ExpectedStep`): an adopted, cancelled or repeated
  job takes its item out of both or leaves another one behind.
- `NoWindowForgotten`: `Spec => []WindowNotForgotten`. A window is passed over only while
  its process has an item, and driven out only by an item of its process; a change of the
  docked windows starts a sweep.

`CardSurfaceProofs`, for any finite set of `EmbedPlugin` identities:

- `TypeCorrect`: `Spec => []TypeOK`.
- `ShownCardHasSurface`: `Spec => []CardHasSurface`. The invariant `SurfaceInv` adds that
  the table has an entry exactly while the card is shown, and that the bound plugin
  never waits for its deletion: that is what lets `removeFromPluginMap()` tell the
  old plugin from the new one. Finiteness is used only for the order in which the
  deletions of a window's plugins are posted.
- `CardKeepsSurface`: `Spec => SurfaceKept`, that is, the card implements `ShellSurface`.
  `BoundStays` says that a card which stays shown keeps its entry; the rest is `SurfaceInv`
  before and after the step.
- `CardIsExact`: `Spec => []CardExact`. The invariant `ModeInv` says that the card follows
  what `WidgetPlugin` was told (`Follows`), that while the item is added the quick panel's
  plugin lives to forward messages (`Forwards`; its deletion is posted only when the item
  is removed), and that the last message on its way holds the dock's mode, or, when
  there is none, that the mode was heard or the dock will answer a new surface (`Told`).
- `OrderIsComing`: `Spec => []OrderComes`. The order is posted behind what is in the queue
  when the card is bound, and neither a deletion nor the order of another plugin takes it
  away, since the bound plugin is not doomed.

`PopupTableProofs`, for any set of popups:

- `TypeCorrect`: `Spec => []TypeOK`, which includes that a popup has one window and that
  the table names only popups that live.
- `PopupsAreOnDock`: `Spec => []PopupOnDock`. There is one lemma per operator on the
  state: each keeps it `Good`, so each handler, a composition of them, does. `Good`
  adds that no popup of the table waits for its deletion; a deletion that takes
  somebody else's entry does not break it, which is why surfaces stay sound in
  spite of finding 3.
- `PopupsKeepSurfaces`: `Spec => SurfacesKept`, that is, tooltip, applet and menu each
  implement `ShellSurface`. Again there is one lemma per operator on the state. A surface
  changes while its window stays shown only in a handler that closes the window's
  popups and opens it again; then the new surface's popup lives and the old one waits
  for its deletion (`RemoveCloses`, `ReopenIsSteady`).

`CastingModelProofs`, for any sinks and bounds:

- `TypeCorrect`: `Spec => []TypeOK`.
- `ConnectedAfterRestart`: `Spec => []ConnectedIsMonitor`. The property is inductive once
  it is known that nothing is there, and no owner listened to, before the service has
  answered (`QuietBefore`). A restart leaves `m_curConnected` dangling only when the
  service is gone again by the time it is handled; then the next start is in the
  queue, and the property is due when that has been handled.
- `PanelExact`: `Spec => []StateExact`. The invariant `ExactInv` follows the news: there is
  one answer per call (`OneAnswer`); the news of a sink that is still to be handled ends
  in what the service has, and a monitor is exact or such news is under way; the same
  holds for the sink that streams; and a restart that is not handled yet brings
  everything anew. That the sink that streams is the connected one, unless it was
  ignored, is `StreamInv`: the service streams to one sink, so in the queue the news of
  a stream to one sink is followed by its end and then by the news of the next (`InTurn`,
  `Turn`); and a monitor that is taken to stream, is not the connected one and was not
  ignored has news to come (`StreamKept`). When a signal makes one sink the connected one
  in place of another, the other's turn is behind it in the queue.

`MenuImporterProofs`, for any items, submenus and bounds:

- `TypeCorrect`: `Spec => []TypeOK`.
- `ActionsLive`: `Spec => []NoDanglingAction`, which is inductive together with `TypeOK`:
  the lambda forgets an id whichever action it names by then, and that is what is safe.
- `MenuExact`: `Spec => []RootExact`. The invariant `ExactInv` adds that items, actions
  and layouts are in the menu the application has them in (`InHome`, so that the deletion
  of a submenu takes no item of the importer's menu), that a layout in the queue is what
  the application has or is followed by news of it (`LayoutsEnd`, so that the last
  layout is the right one in whatever order they were asked for), and that an action
  to be deleted exists until then and is not named by its id any more (`DoomedLive`, so
  that an item which comes back gets an action that stays).

`XembedWindowsProofs`, for any finite set of ids and any number of windows:

- `TypeCorrect`: `Spec => []TypeOK`.
- `IconsBacked`, `OwnershipCurrent`, `ShapesRecorded`: `Spec => []` of `IconBacked`,
  `OwnedIsCurrent` and `ShapeRecorded`. They are one induction. `RestsOn(w)` says that an
  icon, a claim and a record each rest on the window, which is watched, or on a destroy
  event that is still to be handled, and that a record rests on a claim and a claim on
  an icon; `ServerInv` that only windows that exist are watched and that windows are
  numbered.
- `IconsFresh`: `Spec => []IconFresh`. `ImageComes(w)` follows the image of an embedded
  window: its handler has it or was left behind by the last damage, or damage is queued,
  or a signal or timer is under way. The step that needs care is `DamageNotified`: when it
  is silent, the handler has the image or is left behind, and `LeftBehind` says exactly
  when that is so. `DamageComes(w)` says that damage which is not subtracted has an event.
- `GhostsLeave`: `Spec => []GhostLeaves`. For an icon it is `RestsOn`; for a handler that has
  lost its icon it is an induction of its own (`SweepComes`): icons go only in `dock()` and
  `undock()`, which start as many timers (`GoneCounted`), and a sweep leaves no handler
  without an icon.

`BrightnessRequestsProofs`, for any number of requests and threads, with no assumption:

- `TypeCorrect`, `NoneStranded` and `LatestKept`: `Spec => []` of `TypeOK`, `NothingStranded`
  and `NewestKept`. Finding 4 makes calls overlap, but no request is lost by it: whoever
  may still look at the slot is a timer, a job or a `finished()` that is counted.

The invariants were checked by TLC before they were proved. Every invariant that a
passing run checks is a theorem, and so are the four refinements (`ForwardView`,
`IconTable`, and `ShellSurface` by the card and by the popups): `WidgetPerHandler` and
`IconsKept` under `NoBareName`, or under `FewIds`, which implies it; all others without a
hypothesis. Only model-checked are the liveness properties (`EventuallyExact`, `ItemShown`,
`WindowShown`, `CardFollowsMode`, `CardOrdered`, `RootSettles`, `NoGhost`): liveness
under fairness is out of the prover's reach.

## 5. Plan

1. `XembedWindows` composed with `TrayRegistry`'s windows: the registry's choices, which
   are left open now, made by the registry.
2. `LoaderStartup`: one plugin per turn, the environment around it, groups; then
   bluetooth's adapters and the media players.
3. The systemd units, if a model of the units says more than the unit files.

## 6. Not modelled, and why

Drawing, layout, themes and translations have no state that others depend on. The
files named `*.ts` are Qt Linguist's translation tables: XML data that no code of the
program branches on, so no definition stands for a line of them, although a tool that
goes by the suffix takes them for source code. The program is C++.
Generated D-Bus proxies and the Wayland protocol code are taken as working. The
plugins that are widgets over one service keep no state between calls; those that
do are in the plan. Below the models stay: memory reclamation (which thread drops the
last reference of a handler), X11 errors, and the contents of icons and menus.
