---------------------------- MODULE XembedWindows -----------------------------
(***************************************************************************)
(* The X11 windows behind XEmbed icons, in a Wayland session               *)
(* (plugins/application-tray): FdoSelectionManager registers the windows   *)
(* that ask for a place in the tray with TrayManager1; XembedProtocol      *)
(* follows its list 200 ms behind and embeds each window in a container;   *)
(* Util remembers the input shapes it has set.                             *)
(*                                                                         *)
(* The X server is the environment.  Its events are handled in order, but  *)
(* later; a request meets the windows there are now.  A window's id may    *)
(* name another window as soon as it is destroyed.  While a handler waits  *)
(* for an answer of the server no client does anything.  Containers, whose *)
(* ids nobody else gets, are left out.                                     *)
(***************************************************************************)
EXTENDS Naturals, Sequences, FiniteSets

CONSTANTS
  Windows,        \* the ids of the windows
  MaxBirths,      \* bound on the windows that are created
  Images,         \* what a window may show
  NoImage,        \* what a failed look at a window returns: an empty pixmap
  NoIcon,         \* a window that has no icon
  NoHandler       \* a window that is not in m_registedItem

ASSUME LimitAssumption == MaxBirths \in Nat /\ IsFiniteSet(Windows)

VARIABLES
  births,         \* windows created so far
  exists,         \* the ids that name a window
  named,          \* the number of the last window that an id named, or 0
  shows,          \* what the window that an id names shows
  watch,          \* watched for its end and for damage: "clean" or "damaged"
  shaped,         \* windows with an empty input shape
  events,         \* X events not handled yet
  icons,          \* TrayManager1::m_icons and their pixmap data
  muted,          \* icons whose enableNotify is false
  changed,        \* icons whose Changed signal is under way
  sweeps,         \* 200 ms timers of onTrayIconsChanged() running
  handlers,       \* XembedProtocol::m_registedItem
  shapes          \* Util::m_inputShapes: windows recorded with an empty shape

server == <<births, exists, named, shows, watch, shaped>>
tray   == <<icons, muted, changed, sweeps, handlers, shapes>>
vars   == <<server, events, tray>>

Image   == Images \cup {NoImage}
Event   == [type : {"dock", "destroy", "damage", "leave"}, window : Windows]
Handler == [owned : BOOLEAN,         \* m_owned
            life  : Nat,             \* the window it embedded; 0 before
            icon  : Image,           \* m_icon
            untold : BOOLEAN,        \* history: the last damage left it behind
            due   : SUBSET {"init", "first", "attention", "update"}]

ASSUME NullAssumption ==
  NoImage \notin Images /\ NoIcon \notin Image /\ NoHandler \notin Handler

Icons   == {w \in Windows : icons[w] # NoIcon}
Handled == {w \in Windows : handlers[w] # NoHandler}
Owned   == {w \in Handled : handlers[w].owned}

TypeOK ==
  /\ births \in Nat /\ exists \subseteq Windows
  /\ named \in [Windows -> Nat]
  /\ shows \in [Windows -> Image]
  /\ watch \in [Windows -> {"none", "clean", "damaged"}]
  /\ shaped \subseteq exists
  /\ events \in Seq(Event)
  /\ icons \in [Windows -> Image \cup {NoIcon}]
  /\ muted \subseteq Icons
  /\ changed \subseteq Windows
  /\ sweeps \in Nat
  /\ handlers \in [Windows -> Handler \cup {NoHandler}]
  /\ shapes \subseteq Windows

Init ==
  /\ births = 0
  /\ exists = {} /\ shaped = {} /\ events = << >>
  /\ named = [w \in Windows |-> 0]
  /\ shows = [w \in Windows |-> NoImage]
  /\ watch = [w \in Windows |-> "none"]
  /\ icons = [w \in Windows |-> NoIcon] /\ muted = {} /\ changed = {}
  /\ sweeps = 1
  /\ handlers = [w \in Windows |-> NoHandler] /\ shapes = {}

XEvent(type, w) == [type |-> type, window |-> w]
Queued(type, w) == \E k \in DOMAIN events : events[k] = XEvent(type, w)

\* The handler's container holds the window that w names now.
Embedded(w) == w \in Handled /\ w \in exists /\ handlers[w].life = named[w]

------------------------------------------------------------------------------
(* X clients and the server *)

WindowCreated(w) ==
  /\ w \notin exists /\ exists' = exists \cup {w}
  /\ births < MaxBirths /\ births' = births + 1
  /\ named' = [named EXCEPT ![w] = births']
  /\ \E image \in Images : shows' = [shows EXCEPT ![w] = image]
  /\ UNCHANGED <<watch, shaped, events, tray>>

WindowGoes(w) ==
  /\ w \in exists
  /\ exists' = exists \ {w} /\ shaped' = shaped \ {w}
  /\ shows' = [shows EXCEPT ![w] = NoImage]
  /\ watch' = [watch EXCEPT ![w] = "none"]
  /\ events' = IF watch[w] # "none" \/ Embedded(w)
               THEN Append(events, XEvent("destroy", w)) ELSE events
  /\ UNCHANGED <<births, named, tray>>

\* _NET_SYSTEM_TRAY_OPCODE, which a client may send again until it is embedded.
AsksToDock(w) ==
  /\ w \in exists /\ ~Embedded(w) /\ ~Queued("dock", w)
  /\ events' = Append(events, XEvent("dock", w))
  /\ UNCHANGED <<server, tray>>

PointerLeaves(w) ==
  /\ Embedded(w) /\ ~Queued("leave", w)
  /\ events' = Append(events, XEvent("leave", w))
  /\ UNCHANGED <<server, tray>>

\* Damage is reported when there was none, whatever the window shows then.
Draws(w) ==
  /\ w \in exists
  /\ \E image \in Images : shows' = [shows EXCEPT ![w] = image]
  /\ watch' = [watch EXCEPT ![w] = IF @ = "none" THEN @ ELSE "damaged"]
  /\ events' = IF watch[w] = "clean"
               THEN Append(events, XEvent("damage", w)) ELSE events
  /\ UNCHANGED <<births, exists, named, shaped, tray>>

------------------------------------------------------------------------------
(* The event filters of FdoSelectionManager and XembedProtocol *)

Receive(type, w) ==
  events # << >> /\ Head(events) = XEvent(type, w) /\ events' = Tail(events)

\* getX11WindowPixmapData(): an embedded window is mapped and has an image, another
\* may have one.
Looks(w) == {shows[w]} \cup {i \in {NoImage} : ~Embedded(w)}

\* unregisterIcon() of what undock() finds; Removed starts a timer.
Unregister(gone) == [w \in Windows |-> IF w \in gone THEN NoIcon ELSE icons[w]]

WatchAny(w) == TRUE                                                  \* mutant
\* addDamageWatch(): the requests fail when the window is gone.
Watchable(w) == w \in exists

\* dock(): checkValid() drops the icons whose windows are gone, then the window
\* is watched and registered unless it has an icon.
DockRequested(w) ==
  /\ Receive("dock", w)
  /\ LET gone == Icons \ exists
         isNew == w \notin Icons \ gone /\ Watchable(w)
     IN  /\ sweeps' = sweeps + Cardinality(gone) + (IF isNew THEN 1 ELSE 0)
         /\ \/ /\ isNew
               /\ \E image \in Looks(w) : icons' = [Unregister(gone) EXCEPT ![w] = image]
            \/ ~isNew /\ icons' = Unregister(gone)
         /\ muted' = muted \ gone
         /\ watch' = IF isNew /\ w \in exists THEN [watch EXCEPT ![w] = "clean"] ELSE watch
  /\ UNCHANGED <<births, exists, named, shows, shaped, changed, handlers, shapes>>

KeepOwned(w) == handlers                                             \* mutant
\* invalidate(): the handler gives up its window, and the record of its shape.
Invalidate(w) == [handlers EXCEPT ![w].owned = FALSE]

KeepRecord(gone) == shapes                                           \* mutant
RemoveRecord(gone) == shapes \ gone

\* Both filters see the event.
DestroyNotified(w) ==
  /\ Receive("destroy", w)
  /\ icons' = Unregister({w}) /\ muted' = muted \ {w}
  /\ sweeps' = sweeps + (IF w \in Icons THEN 1 ELSE 0)
  /\ \/ w \in Owned /\ handlers' = Invalidate(w) /\ shapes' = RemoveRecord({w})
     \/ w \notin Owned /\ UNCHANGED <<handlers, shapes>>
  /\ UNCHANGED <<server, changed>>

KeepDamage(w) == watch                                               \* mutant
SubtractDamage(w) ==
  [watch EXCEPT ![w] = IF w \in Icons /\ @ = "damaged" THEN "clean" ELSE @]

\* Changed is sent unless there is no image, or the one that was announced last.
NewsFor(w, image) == w \in Icons \ muted /\ image \notin {NoImage, icons[w]}

\* The handler is not told: it has looked since the image was announced that the
\* window shows again, or a client has switched its announcements off.
LeftBehind(w, image) ==
  Embedded(w) /\ (w \in muted \/ image = icons[w]) /\ handlers[w].icon # image

\* The damage is subtracted, then notifyIconChanged() looks at the window.
DamageNotified(w) ==
  /\ Receive("damage", w)
  /\ watch' = SubtractDamage(w)
  /\ \E image \in Looks(w) :
       /\ handlers' = IF w \in Handled
                      THEN [handlers EXCEPT ![w].untold = LeftBehind(w, image)] ELSE handlers
       /\ \/ /\ NewsFor(w, image)
             /\ icons' = [icons EXCEPT ![w] = image]
             /\ changed' = changed \cup {w}
          \/ ~NewsFor(w, image) /\ UNCHANGED <<icons, changed>>
  /\ UNCHANGED <<births, exists, named, shows, shaped, muted, sweeps, shapes>>

AnyWindow(w) == TRUE                                                 \* mutant
Registered(w) == w \in Icons

\* EnableNotification(), for any client on the session bus.
EnableNotification(w, enabled) ==
  /\ Registered(w)
  /\ muted' = IF enabled THEN muted \ {w} ELSE muted \cup {w}
  /\ UNCHANGED <<server, events, icons, changed, sweeps, handlers, shapes>>

\* setX11WindowInputShape() of a window that a handler owns, unless it is recorded.
LeaveNotified(w) ==
  /\ Receive("leave", w)
  /\ \/ /\ w \in Owned \ shapes
        /\ shapes' = shapes \cup {w}
        /\ shaped' = shaped \cup ({w} \cap exists)
     \/ /\ w \notin Owned \ shapes
        /\ UNCHANGED <<shapes, shaped>>
  /\ UNCHANGED <<births, exists, named, shows, watch, icons, muted, changed, sweeps,
                 handlers>>

------------------------------------------------------------------------------
(* XembedProtocol and its handlers *)

NewHandler == [owned |-> TRUE, life |-> 0, icon |-> NoImage, untold |-> FALSE,
               due |-> {"init"}]

NothingNew(current, known) == current \subseteq known                \* mutant
Same(current, known) == current = known

\* The lambda of onTrayIconsChanged(): a window may be passed over for an SNI item.
Sweep ==
  /\ sweeps > 0 /\ sweeps' = sweeps - 1
  /\ \/ Same(Icons, Handled) /\ UNCHANGED <<handlers, shapes>>
     \/ /\ ~Same(Icons, Handled)
        /\ \E new \in SUBSET (Icons \ Handled) :
             handlers' = [w \in Windows |->
               IF w \in new THEN NewHandler
               ELSE IF w \in Handled \ Icons THEN NoHandler ELSE handlers[w]]
        /\ shapes' = RemoveRecord(Handled \ Icons)
  /\ UNCHANGED <<server, events, icons, muted, changed>>

\* onRemoveItemByPid(): an SNI item of the same process has come.
MakesRoom(w) ==
  /\ w \in Handled
  /\ handlers' = [handlers EXCEPT ![w] = NoHandler]
  /\ shapes' = RemoveRecord({w})
  /\ UNCHANGED <<server, events, icons, muted, changed, sweeps>>

\* xembedTrayIconChanged() of the handler, if there is one by now.
XembedTrayIconChanged(w) ==
  /\ w \in changed /\ changed' = changed \ {w}
  /\ \/ w \in Handled /\ handlers' = [handlers EXCEPT ![w].due = @ \cup {"attention"}]
     \/ w \notin Handled /\ UNCHANGED handlers
  /\ UNCHANGED <<server, events, icons, muted, sweeps, shapes>>

\* A queued call or a timer of w's handler comes, and starts what is next.
Fires(w, due, next) == w \in Handled /\ due \in handlers[w].due
  /\ UNCHANGED <<server, events, icons, muted, changed, sweeps, shapes>>

Then(h, due, next) == [h EXCEPT !.due = (@ \ {due}) \cup next]

InitX11resources(w) ==
  /\ Fires(w, "init", {"first"})
  /\ handlers' = [handlers EXCEPT
       ![w] = [Then(@, "init", {"first"}) EXCEPT !.life = named[w]]]

AttentionTimeout(w) ==
  /\ Fires(w, "attention", {"update"})
  /\ handlers' = [handlers EXCEPT ![w] = Then(@, "attention", {"update"})]

\* 100 ms after the window was embedded, and 200 ms after an attention timeout.
IconTimeout(w) ==
  \E due \in {"first", "update"}, image \in Looks(w) :
    /\ Fires(w, due, {})
    /\ handlers' = [handlers EXCEPT
         ![w] = [Then(@, due, {}) EXCEPT !.icon = image, !.untold = FALSE]]

------------------------------------------------------------------------------
Client(w) ==
  WindowCreated(w) \/ WindowGoes(w) \/ AsksToDock(w) \/ PointerLeaves(w) \/ Draws(w)

EventFiltered == \E w \in Windows : \/ DockRequested(w) \/ DestroyNotified(w)
                                    \/ DamageNotified(w) \/ LeaveNotified(w)

TimerFires ==
  \E w \in Windows : InitX11resources(w) \/ AttentionTimeout(w) \/ IconTimeout(w)

SignalHandled == \E w \in Windows : XembedTrayIconChanged(w)

Next ==
  \/ \E w \in Windows : Client(w) \/ MakesRoom(w)
  \/ \E w \in Windows, enabled \in BOOLEAN : EnableNotification(w, enabled)
  \/ EventFiltered \/ Sweep \/ TimerFires \/ SignalHandled

Spec == Init /\ [][Next]_vars

\* Events are dispatched before the event loop blocks; timers and signals come.
Fairness ==
  WF_vars(EventFiltered) /\ WF_vars(Sweep) /\ WF_vars(TimerFires) /\ WF_vars(SignalHandled)

FairSpec == Spec /\ Fairness

------------------------------------------------------------------------------
(* Properties *)

\* What the window w is to the tray ends with w: it is watched, or its end is
\* still to be handled.
Backed(w) == watch[w] # "none" \/ Queued("destroy", w)

\* No icon is left of a window that is gone, whenever it goes while it docks:
\* "if window is gone by this point, it will be caught by eventFilter".
IconBacked == \A w \in Icons : Backed(w)

\* A handler claims only the window that it embedded: never another one that the
\* id has come to name, once the end of its own has been handled.
OwnedIsCurrent ==
  \A w \in Owned :
    Queued("destroy", w) \/ (w \in exists /\ handlers[w].life \in {0, named[w]})

\* A recorded shape is the shape the window has: no record outlives its window,
\* to make the guard skip a request for a window that has the id after it.
ShapeRecorded == \A w \in shapes : w \in shaped \/ Queued("destroy", w)

\* A window that its handler has embedded is never shown with an old image for
\* good: while the image is old an event, a signal or a timer is under way, unless
\* the handler looked between two announcements and the window has gone back since,
\* or a client has switched the announcements off.
IconFresh ==
  \A w \in Owned :
    Embedded(w) /\ handlers[w].due = {} /\ ~Queued("destroy", w) =>
      \/ handlers[w].icon = shows[w] \/ handlers[w].untold
      \/ Queued("damage", w) \/ w \in changed

\* What is left of a window that is gone is on its way out: its icon while its
\* end is still to be handled, a handler without an icon while a timer is to come
\* that compares the two.  No early return of a sweep leaves a handler for good.
GhostLeaves ==
  \A w \in Windows \ exists :
    /\ w \in Icons => Queued("destroy", w)
    /\ w \in Handled \ Icons => sweeps > 0

\* The icon of a window that is gone for good goes too, with its handler.
NoGhost ==
  \A w \in Windows : <>[](w \notin exists) => <>[](w \notin Icons /\ w \notin Handled)
==============================================================================
