----------------------------- MODULE CardSurface -----------------------------
(***************************************************************************)
(* The music card: how WidgetPlugin (src/loader/widgetplugin.cpp) shows    *)
(* and hides the card window of a plugin, and the table of EmbedPlugin     *)
(* objects (src/tray-wayland-integration/plugin.cpp) that decides whether  *)
(* a window that is shown gets a plugin surface (pluginsurface.cpp).       *)
(*                                                                         *)
(*   - MediaPlugin adds its item while a player runs and removes it after. *)
(*   - The dock tells its fashion mode when it changes, and again for each *)
(*     plugin surface it sees created.  WidgetPlugin hears it only through *)
(*     the EmbedPlugin of the quick panel, as long as that object lives.   *)
(*   - The card is shown in fashion mode while the item is there.  Hiding  *)
(*     a window takes its EmbedPlugin out of the table and leaves it to    *)
(*     deleteLater(): it dies when the event loop gets to it, perhaps      *)
(*     after the window was shown again with an EmbedPlugin of its own.    *)
(*                                                                         *)
(* Each item that is added has a quick panel window of its own; the card   *)
(* window stays the same until the plugin drops it.  The dock, the player  *)
(* and Qt's windows are the environment.                                   *)
(***************************************************************************)
EXTENDS Naturals, Sequences, FiniteSets, SequencesExt

CONSTANTS
  Plugins,       \* identities of EmbedPlugin objects; reused once dead
  None,          \* no object
  MaxMessages    \* bound on the dock's messages under way

ASSUME PluginsAssumption == IsFiniteSet(Plugins) /\ None \notin Plugins
ASSUME MessagesAssumption == MaxMessages \in Nat \ {0}

VARIABLES
  mode,          \* the dock's fashion mode
  messages,      \* MSG_DOCK_FASHION_MODE messages on their way, in order
  unanswered,    \* the dock has yet to answer the plugin surfaces it saw created
  playing,       \* MediaController::isWorking()
  fashionMode,   \* m_fashionMode
  itemAdded,     \* m_itemAdded
  events,        \* events posted to EmbedPlugin objects, in order
  quickLive,     \* EmbedPlugins of quick panel windows that live
  quick,         \* the one s_map holds; its window is shown
  cardLive,      \* EmbedPlugins of the card window that live
  bound,         \* s_map[card window]
  visible,       \* the card window is shown
  surface,       \* the EmbedPlugin of the card's PluginSurface
  ordered        \* the dock knows the order of the card it shows

dock   == <<mode, messages, unanswered>>
widget == <<fashionMode, itemAdded>>
panel  == <<quickLive, quick>>
card   == <<cardLive, bound, visible, surface>>
vars   == <<dock, playing, widget, events, panel, card, ordered>>

Event == [type : {"order", "delete"}, plugin : Plugins]

TypeOK ==
  /\ mode \in BOOLEAN /\ playing \in BOOLEAN
  /\ messages \in Seq(BOOLEAN) /\ unanswered \in BOOLEAN
  /\ fashionMode \in BOOLEAN /\ itemAdded \in BOOLEAN
  /\ events \in Seq(Event)
  /\ quickLive \subseteq Plugins /\ quick \in quickLive \cup {None}
  /\ cardLive \subseteq Plugins \ quickLive
  /\ bound \in cardLive \cup {None}
  /\ visible \in BOOLEAN
  /\ surface \in Plugins \cup {None}
  /\ ordered \in BOOLEAN

\* The loader has made the WidgetPlugin; the plugin's init() finds no player.
Init ==
  /\ mode \in BOOLEAN /\ messages = << >> /\ unanswered = FALSE
  /\ playing = FALSE
  /\ fashionMode = FALSE /\ itemAdded = FALSE
  /\ events = << >>
  /\ quickLive = {} /\ quick = None
  /\ cardLive = {} /\ bound = None
  /\ visible = FALSE /\ surface = None /\ ordered = FALSE

Alive == quickLive \cup cardLive

\* An object's identity is free when it is dead and nothing is posted to it.
Free == Plugins \ (Alive \cup {events[i].plugin : i \in DOMAIN events})

\* deleteLater(), which an object heeds once.
DeleteLater(queue, plugins) ==
  LET doomed == {queue[i].plugin : i \in {j \in DOMAIN queue : queue[j].type = "delete"}}
  IN  queue \o SetToSeq([type : {"delete"}, plugin : plugins \ doomed])

------------------------------------------------------------------------------
(* The dock *)

DockChangesMode ==
  /\ Len(messages) < MaxMessages
  /\ mode' = ~mode
  /\ messages' = Append(messages, mode')
  /\ UNCHANGED <<unanswered, playing, widget, events, panel, card, ordered>>

\* The dock has seen new plugin surfaces and tells its mode.
DockAnswers ==
  /\ unanswered /\ unanswered' = FALSE
  /\ Len(messages) < MaxMessages
  /\ messages' = Append(messages, mode)
  /\ UNCHANGED <<mode, playing, widget, events, panel, card, ordered>>

------------------------------------------------------------------------------
(* The card window *)

\* removeFromPluginMap(): the entry goes only if it is this plugin's.
RemoveAnyFromPluginMap(p) == None                                   \* mutant
KeepInPluginMap(p) == bound                                         \* mutant
RemoveFromPluginMap(p) == IF bound = p THEN None ELSE bound

\* bindCardPluginSurface(): EmbedPlugin::get() returns the plugin of the table
\* or a new one, which has its order sent later.
BindSilently(p) ==                                                  \* mutant
  /\ p \in IF bound # None THEN {bound} ELSE Free
  /\ bound' = p /\ cardLive' = cardLive \cup {p}
  /\ UNCHANGED events
BindCardPluginSurface(p) ==
  /\ p \in IF bound # None THEN {bound} ELSE Free
  /\ bound' = p /\ cardLive' = cardLive \cup {p}
  /\ events' = IF bound # None THEN events
               ELSE Append(events, [type |-> "order", plugin |-> p])

\* createCardItemIfNeeded(): a window that is shown already keeps its surface.
CreateCardItemIfNeeded(p) ==
  /\ BindCardPluginSurface(p)
  /\ visible' = TRUE
  /\ surface' = IF visible THEN surface ELSE p
  /\ UNCHANGED ordered

\* CardPluginItem::hide(), but for deleteLater(): visibleChanged(false) reaches
\* every plugin of the window, and Qt destroys the PluginSurface.
ToldHidden == IF visible THEN cardLive ELSE {}

HideCard ==
  /\ bound' = IF \E p \in ToldHidden : RemoveFromPluginMap(p) = None THEN None ELSE bound
  /\ visible' = FALSE /\ surface' = None /\ ordered' = FALSE
  /\ UNCHANGED cardLive

KeepCard == UNCHANGED <<card, ordered>>

------------------------------------------------------------------------------
(* WidgetPlugin *)

\* itemAdded(): the card in fashion mode, then the quick panel, whose plugin q
\* is made unless it is there already.
ItemAdded ==
  /\ itemAdded' = TRUE
  /\ \E p, q \in Plugins :
       /\ \/ fashionMode /\ CreateCardItemIfNeeded(p)
          \/ ~fashionMode /\ KeepCard /\ UNCHANGED events
       /\ IF quick # None THEN q = quick ELSE q \in Free \ cardLive'
       /\ quick' = q /\ quickLive' = quickLive \cup {q}
  /\ unanswered' = (unanswered \/ quick = None \/ (visible' /\ ~visible))
  /\ UNCHANGED <<fashionMode, mode, messages>>

\* itemRemoved(): hide the card and the quick panel.
ItemRemoved ==
  /\ itemAdded' = FALSE
  /\ HideCard
  /\ quick' = None
  /\ events' = DeleteLater(DeleteLater(events, ToldHidden), {quick} \ {None})
  /\ UNCHANGED <<fashionMode, quickLive, dock>>

\* setFashionMode()
ForgetItem(on) == ~on                                               \* mutant
CardWanted(on) == on /\ itemAdded

SetFashionMode(on) ==
  /\ fashionMode' = on
  /\ \/ /\ fashionMode # on /\ CardWanted(on)
        /\ \E p \in Plugins : CreateCardItemIfNeeded(p)
        /\ unanswered' = (unanswered \/ ~visible)
     \/ /\ fashionMode # on /\ ~on
        /\ HideCard
        /\ events' = DeleteLater(events, ToldHidden)
        /\ UNCHANGED unanswered
     \/ /\ fashionMode = on \/ (on /\ ~CardWanted(on))
        /\ KeepCard /\ UNCHANGED <<events, unanswered>>

\* onDockEventMessageArrived(), if a quick panel's plugin is there to forward.
MessageArrives ==
  /\ messages # << >> /\ messages' = Tail(messages)
  /\ IF quickLive # {}
       THEN SetFashionMode(Head(messages))
       ELSE KeepCard /\ UNCHANGED <<fashionMode, events, unanswered>>
  /\ UNCHANGED <<mode, playing, itemAdded, panel>>

------------------------------------------------------------------------------
(* MediaPlugin *)

\* refreshPluginItemsVisible(), when the player has come or gone, or again.
RefreshPluginItemsVisible ==
  /\ playing' \in BOOLEAN
  /\ IF playing' THEN ItemAdded ELSE ItemRemoved

\* A plugin may drop its card window while its item is removed: the EmbedPlugins
\* are the window's children.  The window's own entry would stay in the table.
CardWindowDropped ==
  /\ ~itemAdded /\ ~visible /\ cardLive # {}
  /\ cardLive' = {}
  /\ UNCHANGED <<dock, playing, widget, events, panel, bound, visible, surface, ordered>>

------------------------------------------------------------------------------
(* The event loop *)

\* The queued lambda: EmbedPlugin::requestMessage is connected to a lambda of
\* the PluginSurface, with the manager for its context.  Once the surface is
\* destroyed the lambda reads freed memory: the order is sent or it is not.
SendOrder ==
  /\ events # << >> /\ events' = Tail(events)
  /\ Head(events).type = "order" /\ Head(events).plugin \in Alive
  /\ \/ surface = Head(events).plugin /\ ordered' = TRUE
     \/ surface # Head(events).plugin /\ ordered' \in {ordered, surface # None}
  /\ UNCHANGED <<dock, playing, widget, panel, card>>

\* DeferredDelete: destroyed() takes the plugin out of the table.
DeletePlugin ==
  /\ events # << >> /\ events' = Tail(events)
  /\ Head(events).type = "delete"
  /\ LET p == Head(events).plugin
     IN  /\ p \in Alive
         /\ cardLive' = cardLive \ {p}
         /\ bound' = IF p \in cardLive THEN RemoveFromPluginMap(p) ELSE bound
         /\ quickLive' = quickLive \ {p}
         /\ quick' = IF quick = p THEN None ELSE quick
  /\ UNCHANGED <<dock, playing, widget, visible, surface, ordered>>

\* What is posted to an object is dropped with it.
DropEvent ==
  /\ events # << >> /\ events' = Tail(events)
  /\ Head(events).plugin \notin Alive
  /\ UNCHANGED <<dock, playing, widget, panel, card, ordered>>

------------------------------------------------------------------------------
Next ==
  \/ DockChangesMode \/ DockAnswers
  \/ RefreshPluginItemsVisible \/ CardWindowDropped
  \/ MessageArrives
  \/ SendOrder \/ DeletePlugin \/ DropEvent

Spec == Init /\ [][Next]_vars

\* The dock answers; the loader reads what arrives and runs what is posted.
Fairness ==
  /\ WF_vars(DockAnswers) /\ WF_vars(MessageArrives)
  /\ WF_vars(SendOrder \/ DeletePlugin \/ DropEvent)

FairSpec == Spec /\ Fairness

------------------------------------------------------------------------------
(* Properties *)

\* A card that is shown has a plugin surface, and the plugin of that surface is
\* alive, is the one the table holds and is not about to be deleted: hiding and
\* showing again never leaves the new plugin to the deletion of the old one.
CardHasSurface ==
  visible => /\ surface \in cardLive /\ surface = bound
             /\ \A i \in DOMAIN events :
                  events[i].plugin = surface => events[i].type = "order"

\* The card's surface stands for one living plugin from show to hide, whatever
\* other plugins of the window are bound, hidden and deleted meanwhile.
Surface == INSTANCE ShellSurface WITH
  shown <- visible,
  keeps <- {p \in cardLive : [type |-> "delete", plugin |-> p] \notin
                               {events[i] : i \in DOMAIN events}}

SurfaceKept == Surface!Spec

\* The card is shown exactly in fashion mode while something plays, unless something
\* plays and the dock's word is still to come: a message that was missed while the
\* item was removed is made up for, since the dock will answer a new plugin surface.
CardExact ==
  visible # (mode /\ playing) => playing /\ (messages # << >> \/ unanswered)

\* When the dock's mode and the player no longer change, the card ends up shown
\* exactly in fashion mode while something plays, although messages are missed
\* while the item is removed.
CardFollowsMode ==
  \A m, p \in BOOLEAN :
    <>[](mode = m /\ playing = p) => <>[](visible = (m /\ p))

\* The dock knows the order of the card that is shown, or the plugin of its surface
\* has it posted: no order of an earlier plugin stands in for it, and the deletion
\* of none drops it.
OrderComes ==
  visible => ordered \/ \E i \in DOMAIN events :
                          events[i] = [type |-> "order", plugin |-> surface]

\* A card that stays shown ends up in its order.
CardOrdered == <>[]visible => <>[]ordered

\* "Queue it so the plugin surface exists on the dock side before the message
\* arrives": the order is only sent by a plugin whose surface is there.
OrderMeetsSurface ==
  [][\A p \in Plugins :
       (events # << >> /\ Head(events) = [type |-> "order", plugin |-> p]
          /\ events' = Tail(events) /\ p \in cardLive')
         => surface = p]_vars
==============================================================================
