------------------------------ MODULE PopupTable ------------------------------
(***************************************************************************)
(* The popups of one tray item: its tooltip, its applet and its menu.      *)
(* PluginItem (src/loader/pluginitem.cpp) and WidgetPlugin                 *)
(* (src/loader/widgetplugin.cpp) open them, PluginPopup                    *)
(* (src/tray-wayland-integration/plugin.cpp) keeps a table from windows to *)
(* popups, and a window that is shown gets a PluginPopupSurface            *)
(* (pluginsurface.cpp) only if the table has it.                           *)
(*                                                                         *)
(* A window that is hidden takes its entry out of the table and leaves its *)
(* popups to deleteLater().  The deletion takes the window's entry out     *)
(* again, whichever popup it names by then.  Pointer events that Qt        *)
(* delivers in one batch come before what was posted meanwhile: that is    *)
(* how a window gets its next popup before the last one is deleted.        *)
(***************************************************************************)

CONSTANTS
  Popups,        \* identities of PluginPopup objects; reused once dead
  None           \* no object

ASSUME PopupsAssumption == None \notin Popups

Tips   == "tips"
Applet == "applet"
Menu   == "menu"
Window == {Tips, Applet, Menu}

VARIABLES
  table,         \* s_popupMap
  live,          \* the PluginPopups of a window, its children
  embedded,      \* popups of type PopupTypeEmbed: opened by the quick panel
  doomed,        \* popups that wait for deleteLater()
  visible,       \* windows that are shown
  surface,       \* m_popup of a window's PluginPopupSurface, if it has one
  hovering,      \* m_tooltipTimer is running
  closing        \* windows that the dock asked to close: queued on qApp

popup  == <<table, live, embedded, doomed>>
window == <<visible, surface>>
vars   == <<popup, window, hovering, closing>>

Alive == UNION {live[w] : w \in Window}

TypeOK ==
  /\ table \in [Window -> Popups \cup {None}]
  /\ live \in [Window -> SUBSET Popups]
  /\ \A v, w \in Window : v # w => live[v] \cap live[w] = {}
  /\ \A w \in Window : table[w] \in live[w] \cup {None}
  /\ embedded \subseteq Alive /\ doomed \subseteq Alive
  /\ visible \subseteq Window
  /\ surface \in [Window -> Popups \cup {None}]
  /\ hovering \in BOOLEAN
  /\ closing \subseteq Window

Init ==
  /\ table = [w \in Window |-> None]
  /\ live = [w \in Window |-> {}]
  /\ embedded = {} /\ doomed = {}
  /\ visible = {} /\ surface = [w \in Window |-> None]
  /\ hovering = FALSE /\ closing = {}

------------------------------------------------------------------------------
(* PluginPopup.  A handler may do several of these in turn, so each takes a   *)
(* state of the popups and returns the next.                                  *)

Now == [table |-> table, live |-> live, embedded |-> embedded, doomed |-> doomed,
        visible |-> visible, surface |-> surface]

Become(s) ==
  /\ table' = s.table /\ live' = s.live
  /\ embedded' = s.embedded /\ doomed' = s.doomed
  /\ visible' = s.visible /\ surface' = s.surface

Contains(s, w) == s.table[w] # None

KeepEntry(s, w) == s.table                                          \* mutant
Forget(s, w) == [s.table EXCEPT ![w] = None]

\* QWindow::hide(): visibleChanged(false) reaches every popup of the window, and
\* Qt destroys its surface.
Hide(s, w) ==
  IF w \in s.visible
    THEN [s EXCEPT !.table = Forget(s, w), !.doomed = @ \cup s.live[w],
                   !.visible = @ \ {w}, !.surface[w] = None]
    ELSE s

\* The destruction of a popup takes its window's entry, whoever's it is, and
\* what is posted to it.
DestroyPosted(s, w, p) ==                                           \* mutant
  [s EXCEPT !.table = Forget(s, w), !.live[w] = @ \ {p}, !.embedded = @ \ {p}]
Destroy(s, w, p) ==
  [s EXCEPT !.table = Forget(s, w), !.live[w] = @ \ {p},
            !.embedded = @ \ {p}, !.doomed = @ \ {p}]

\* remove(): close the window, then delete the popup at once.
Remove(s, w) ==
  IF Contains(s, w)
    THEN Destroy(Hide([s EXCEPT !.table = Forget(s, w)], w), w, s.table[w])
    ELSE s

\* get(): the popup of the table, or a new one.
Gettable(s, w) ==
  IF Contains(s, w) THEN {s.table[w]} ELSE Popups \ UNION {s.live[v] : v \in Window}
Get(s, w, p) == [s EXCEPT !.table[w] = p, !.live[w] = @ \cup {p}]

\* QWidget::show(): createShellSurface() gives a surface to what the table has.
Show(s, w) ==
  [s EXCEPT !.visible = @ \cup {w},
            !.surface[w] = IF w \in s.visible THEN @ ELSE s.table[w]]

------------------------------------------------------------------------------
(* PluginItem *)

\* enterEvent(): no tooltip while the table has the applet.
EnterItem ==
  /\ ~Contains(Now, Applet)
  /\ LET s == Hide(Now, Applet)
     IN  \E p \in Gettable(s, Tips) : Become(Get(s, Tips, p))
  /\ hovering' = TRUE
  /\ UNCHANGED closing

\* 200 ms later.
TooltipTimeout ==
  /\ hovering /\ hovering' = FALSE
  /\ Become(Show(Now, Tips))
  /\ UNCHANGED closing

\* closeToolTip(), when the pointer leaves or presses a button.
CloseToolTip ==
  /\ hovering' = FALSE
  /\ Become(Hide(Now, Tips))
  /\ UNCHANGED closing

\* mouseReleaseEvent(), left button: a click on an open panel closes it, unless
\* it is the quick panel that opened it.
ReleaseLeft ==
  /\ LET s == Remove(Now, Applet)
     IN  IF Contains(Now, Applet) /\ table[Applet] \notin embedded
           THEN Become(s)
           ELSE \E p \in Gettable(s, Applet) :
                  Become(Show([Get(s, Applet, p) EXCEPT !.embedded = @ \ {p}], Applet))
  /\ UNCHANGED <<hovering, closing>>

\* mouseReleaseEvent(), right button: pluginContextMenu().
ReleaseRight ==
  /\ \E p \in Gettable(Now, Menu) : Become(Show(Get(Now, Menu, p), Menu))
  /\ UNCHANGED <<hovering, closing>>

\* moveEvent(): an applet that is shown gets its new position.
MoveItem ==
  /\ Applet \in visible
  /\ \E p \in Gettable(Now, Applet) : Become(Get(Now, Applet, p))
  /\ UNCHANGED <<hovering, closing>>

------------------------------------------------------------------------------
(* WidgetPlugin, the dock, the user and the event loop *)

\* requestSetAppletVisible(): the quick panel opens the applet.
RequestSetAppletVisible ==
  /\ LET s == Remove(Now, Applet)
     IN  \E p \in Gettable(s, Applet) :
           Become(Show([Get(s, Applet, p) EXCEPT !.embedded = @ \cup {p}], Applet))
  /\ UNCHANGED <<hovering, closing>>

\* A menu closes when an entry is chosen, an applet when its plugin hides it.
WindowHides(w) ==
  /\ w \in visible \ {Tips}
  /\ Become(Hide(Now, w))
  /\ UNCHANGED <<hovering, closing>>

\* plugin_popup_close(): put off to the event loop, not to close the window
\* while it paints.
PluginPopupClose(w) ==
  /\ surface[w] # None
  /\ closing' = closing \cup {w}
  /\ UNCHANGED <<popup, window, hovering>>

\* plugin_popup_geometry() passes on what the dock decided through get().
PluginPopupGeometry(w) ==
  /\ surface[w] # None
  /\ \E p \in Gettable(Now, w) : Become(Get(Now, w, p))
  /\ UNCHANGED <<hovering, closing>>

CloseWindow(w) ==
  /\ w \in closing /\ closing' = closing \ {w}
  /\ Become(Hide(Now, w))
  /\ UNCHANGED hovering

\* DeferredDelete; which of two goes first makes no difference.
DeletePopup(w, p) ==
  /\ p \in live[w] \cap doomed
  /\ Become(Destroy(Now, w, p))
  /\ UNCHANGED <<hovering, closing>>

------------------------------------------------------------------------------
Next ==
  \/ EnterItem \/ TooltipTimeout \/ CloseToolTip
  \/ ReleaseLeft \/ ReleaseRight \/ MoveItem
  \/ RequestSetAppletVisible
  \/ \E w \in Window :
       WindowHides(w) \/ PluginPopupClose(w) \/ PluginPopupGeometry(w) \/ CloseWindow(w)
  \/ \E w \in Window, p \in Popups : DeletePopup(w, p)

Spec == Init /\ [][Next]_vars

------------------------------------------------------------------------------
(* Properties *)

\* A popup surface belongs to a window that is shown, and the popup it points to
\* lives as long as it does; an applet or a menu that is shown has one.  (The
\* tooltip, which is shown 200 ms after it got its popup, may have none.)
PopupOnDock ==
  /\ \A w \in Window :
       surface[w] # None => w \in visible /\ surface[w] \in live[w] \ doomed
  /\ \A w \in visible \ {Tips} : surface[w] # None

\* The surface of each popup window stands for one living popup from show to hide,
\* although the table may lose the window's entry and get another popup meanwhile.
TipsSurface == INSTANCE ShellSurface WITH
  shown <- Tips \in visible, surface <- surface[Tips], keeps <- live[Tips] \ doomed
AppletSurface == INSTANCE ShellSurface WITH
  shown <- Applet \in visible, surface <- surface[Applet], keeps <- live[Applet] \ doomed
MenuSurface == INSTANCE ShellSurface WITH
  shown <- Menu \in visible, surface <- surface[Menu], keeps <- live[Menu] \ doomed

SurfacesKept == TipsSurface!Spec /\ AppletSurface!Spec /\ MenuSurface!Spec

\* "avoid remove other's Popup": a window loses its entry when it is hidden or
\* when the popup of the entry dies, not when another popup does.
OthersPopupKept ==
  [][\A w \in Window :
       table[w] # None /\ table'[w] = None
         => (w \in visible /\ w \notin visible') \/ table[w] \notin live'[w]]_vars
==============================================================================
