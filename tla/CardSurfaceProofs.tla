------------------------- MODULE CardSurfaceProofs ---------------------------
(***************************************************************************)
(* Theorems about CardSurface for any finite set of EmbedPlugin objects.   *)
(***************************************************************************)
EXTENDS CardSurface, FiniteSetTheorems, TLAPS

\* The card window has an entry in the table and a surface exactly while it is
\* shown, and the surface is the one of that entry.
BoundWhileShown ==
  /\ visible => bound # None /\ surface = bound
  /\ ~visible => bound = None /\ surface = None

\* No plugin of the table waits for its deletion.
BoundNotDoomed ==
  \A i \in DOMAIN events : events[i].type = "delete" => events[i].plugin # bound

SurfaceInv == TypeOK /\ BoundWhileShown /\ BoundNotDoomed

------------------------------------------------------------------------------
(* The event queue *)

\* The elements of a finite set make a sequence over it.
LEMMA SetToSeqIsSeq ==
  ASSUME NEW S, IsFiniteSet(S)
  PROVE  SetToSeq(S) \in Seq(S)
<1>1. /\ Cardinality(S) \in Nat
      /\ ExistsBijection(1..Cardinality(S), S)
  BY FS_CardinalityType
<1>2. \E f \in [1..Cardinality(S) -> S] : IsInjective(f)
  BY <1>1 DEF ExistsBijection, Bijection, Injection
<1>3. SetToSeq(S) \in [1..Cardinality(S) -> S]
  BY <1>2 DEF SetToSeq
<1>4. QED
  BY <1>1, <1>3

\* Posting deletions keeps the queue a queue of events, and posts no others.
LEMMA DeleteLaterPosts ==
  ASSUME NEW queue \in Seq(Event), NEW plugins \in SUBSET Plugins
  PROVE  /\ DeleteLater(queue, plugins) \in Seq(Event)
         /\ \A i \in DOMAIN DeleteLater(queue, plugins) :
              \/ i \in DOMAIN queue /\ DeleteLater(queue, plugins)[i] = queue[i]
              \/ DeleteLater(queue, plugins)[i].plugin \in plugins
<1> DEFINE doomed == {queue[i].plugin : i \in {j \in DOMAIN queue : queue[j].type = "delete"}}
           deletions == [type : {"delete"}, plugin : plugins \ doomed]
           s == SetToSeq(deletions)
<1>1. IsFiniteSet(plugins \ doomed)
  BY PluginsAssumption, FS_Subset
<1>2. IsFiniteSet(deletions)
  <2> DEFINE f == [p \in plugins \ doomed |-> [type |-> "delete", plugin |-> p]]
  <2>1. f \in Surjection(plugins \ doomed, deletions)
    <3>1. f \in [plugins \ doomed -> deletions]
      OBVIOUS
    <3>2. \A d \in deletions : d.plugin \in plugins \ doomed /\ f[d.plugin] = d
      OBVIOUS
    <3>3. QED
      BY <3>1, <3>2 DEF Surjection
  <2>2. QED
    BY <1>1, <2>1, FS_Surjection
<1>3. deletions \subseteq Event /\ \A d \in deletions : d.plugin \in plugins
  BY DEF Event
<1>4. DeleteLater(queue, plugins) = queue \o s
  BY DEF DeleteLater
<1>5. s \in Seq(deletions)
  BY <1>2, SetToSeqIsSeq
<1> HIDE DEF deletions, s
<1>6. s \in Seq(Event)
  BY <1>3, <1>5
<1>7. /\ queue \o s \in Seq(Event)
      /\ \A i \in DOMAIN (queue \o s) :
           \/ i \in DOMAIN queue /\ (queue \o s)[i] = queue[i]
           \/ i - Len(queue) \in DOMAIN s /\ (queue \o s)[i] = s[i - Len(queue)]
  BY <1>6
<1>8. \A i \in DOMAIN s : s[i] \in deletions
  BY <1>5
<1>9. QED
  BY <1>3, <1>4, <1>7, <1>8

\* What is taken from the queue leaves the events behind it.
LEMMA TailOfQueue ==
  ASSUME NEW queue \in Seq(Event), queue # << >>
  PROVE  /\ Tail(queue) \in Seq(Event) /\ Head(queue) \in Event
         /\ 1 \in DOMAIN queue /\ Head(queue) = queue[1]
         /\ \A i \in DOMAIN Tail(queue) :
              i + 1 \in DOMAIN queue /\ Tail(queue)[i] = queue[i + 1]
OBVIOUS

\* An event that is posted comes after the others.
LEMMA PostedLast ==
  ASSUME NEW queue \in Seq(Event), NEW e \in Event
  PROVE  /\ Append(queue, e) \in Seq(Event)
         /\ \A i \in DOMAIN Append(queue, e) :
              \/ i \in DOMAIN queue /\ Append(queue, e)[i] = queue[i]
              \/ Append(queue, e)[i] = e
OBVIOUS

------------------------------------------------------------------------------
(* The card window *)

\* Hiding leaves the card without entry and without surface.
LEMMA HidingUnbinds ==
  ASSUME SurfaceInv, HideCard
  PROVE  /\ cardLive' = cardLive /\ bound' = None /\ visible' = FALSE
         /\ surface' = None /\ ordered' = FALSE
         /\ ToldHidden \in SUBSET Plugins
<1>1. CASE visible
  <2>1. bound \in cardLive /\ bound \in ToldHidden
    BY <1>1 DEF SurfaceInv, TypeOK, BoundWhileShown, ToldHidden
  <2>2. RemoveFromPluginMap(bound) = None
    BY DEF RemoveFromPluginMap
  <2>3. QED
    BY <1>1, <2>1, <2>2 DEF HideCard, ToldHidden, SurfaceInv, TypeOK
<1>2. CASE ~visible
  BY <1>2 DEF SurfaceInv, BoundWhileShown, HideCard, ToldHidden
<1>3. QED
  BY <1>1, <1>2 DEF SurfaceInv, TypeOK

\* Showing binds the card to a plugin that is not about to be deleted.
LEMMA ShowingBinds ==
  ASSUME SurfaceInv, NEW p \in Plugins, CreateCardItemIfNeeded(p)
  PROVE  /\ bound' = p /\ visible' = TRUE /\ surface' = p
         /\ cardLive' = cardLive \cup {p} /\ p \notin quickLive
         /\ ordered' = ordered
         /\ events' \in Seq(Event)
         /\ \A i \in DOMAIN events' : events'[i].type = "delete" => events'[i].plugin # p
<1>1. /\ p \in IF bound # None THEN {bound} ELSE Free
      /\ bound' = p /\ cardLive' = cardLive \cup {p}
      /\ events' = IF bound # None THEN events
                   ELSE Append(events, [type |-> "order", plugin |-> p])
      /\ visible' = TRUE /\ ordered' = ordered
      /\ surface' = IF visible THEN surface ELSE p
  BY DEF CreateCardItemIfNeeded, BindCardPluginSurface
<1>2. CASE bound # None
  <2>1. p = bound /\ events' = events /\ visible = TRUE /\ surface = bound
    BY <1>1, <1>2 DEF SurfaceInv, BoundWhileShown, TypeOK
  <2>2. p \notin quickLive
    BY <1>2, <2>1 DEF SurfaceInv, TypeOK
  <2>3. QED
    BY <1>1, <2>1, <2>2 DEF SurfaceInv, TypeOK, BoundNotDoomed
<1>3. CASE bound = None
  <2>1. /\ p \in Free /\ ~visible
        /\ events' = Append(events, [type |-> "order", plugin |-> p])
    BY <1>1, <1>3 DEF SurfaceInv, BoundWhileShown
  <2>2. p \notin quickLive /\ \A i \in DOMAIN events : events[i].plugin # p
    BY <2>1 DEF Free, Alive
  <2>3. [type |-> "order", plugin |-> p] \in Event
    BY DEF Event
  <2>4. /\ events' \in Seq(Event)
        /\ \A i \in DOMAIN events' :
             \/ i \in DOMAIN events /\ events'[i] = events[i]
             \/ events'[i] = [type |-> "order", plugin |-> p]
    BY <2>1, <2>3, PostedLast DEF SurfaceInv, TypeOK
  <2>5. \A i \in DOMAIN events' : events'[i].type = "delete" => events'[i].plugin # p
    BY <2>2, <2>4
  <2>6. QED
    BY <1>1, <2>1, <2>2, <2>4, <2>5
<1>4. QED
  BY <1>2, <1>3

\* No event is about no plugin.
LEMMA NobodyDoomed ==
  ASSUME NEW queue \in Seq(Event)
  PROVE  \A i \in DOMAIN queue : queue[i].type = "delete" => queue[i].plugin # None
<1>1. \A i \in DOMAIN queue : queue[i] \in Event
  OBVIOUS
<1>2. QED
  BY <1>1, PluginsAssumption DEF Event

------------------------------------------------------------------------------
(* The invariant *)

LEMMA SurfaceInit == Init => SurfaceInv
<1> SUFFICES ASSUME Init PROVE SurfaceInv
  OBVIOUS
<1>1. TypeOK
  <2>1. /\ mode \in BOOLEAN /\ playing \in BOOLEAN /\ unanswered \in BOOLEAN
        /\ fashionMode \in BOOLEAN /\ itemAdded \in BOOLEAN
        /\ visible \in BOOLEAN /\ ordered \in BOOLEAN
    BY DEF Init
  <2>2. messages \in Seq(BOOLEAN) /\ events \in Seq(Event)
    BY DEF Init
  <2>3. QED
    BY <2>1, <2>2 DEF Init, TypeOK
<1>2. QED
  BY <1>1 DEF Init, SurfaceInv, BoundWhileShown, BoundNotDoomed

LEMMA SurfaceStep == SurfaceInv /\ [Next]_vars => SurfaceInv'
<1> SUFFICES ASSUME SurfaceInv, [Next]_vars PROVE SurfaceInv'
  OBVIOUS
<1> USE DEF dock, widget, panel, card
<1>0. TypeOK /\ BoundWhileShown /\ BoundNotDoomed
  BY DEF SurfaceInv
<1>1. CASE DockChangesMode
  <2>1. mode' \in BOOLEAN /\ messages' \in Seq(BOOLEAN)
    BY <1>0, <1>1 DEF DockChangesMode, TypeOK
  <2>2. QED
    BY <1>0, <1>1, <2>1
       DEF DockChangesMode, SurfaceInv, TypeOK, BoundWhileShown, BoundNotDoomed
<1>2. CASE DockAnswers
  <2>1. messages' \in Seq(BOOLEAN)
    BY <1>0, <1>2 DEF DockAnswers, TypeOK
  <2>2. QED
    BY <1>0, <1>2, <2>1
       DEF DockAnswers, SurfaceInv, TypeOK, BoundWhileShown, BoundNotDoomed
<1>3. CASE RefreshPluginItemsVisible /\ ItemAdded
  <2>0. playing' \in BOOLEAN
    BY <1>3 DEF RefreshPluginItemsVisible
  <2>1. PICK p \in Plugins, q \in Plugins :
          /\ \/ fashionMode /\ CreateCardItemIfNeeded(p)
             \/ ~fashionMode /\ KeepCard /\ UNCHANGED events
          /\ IF quick # None THEN q = quick ELSE q \in Free \ cardLive'
          /\ quick' = q /\ quickLive' = quickLive \cup {q}
    BY <1>3 DEF ItemAdded
  <2>2. /\ itemAdded' = TRUE /\ unanswered' \in BOOLEAN
        /\ fashionMode' = fashionMode /\ mode' = mode /\ messages' = messages
    BY <1>3, <1>0 DEF ItemAdded, TypeOK
  <2>3. /\ cardLive' \subseteq Plugins \ quickLive /\ cardLive \subseteq cardLive'
        /\ bound' \in cardLive' \cup {None} /\ events' \in Seq(Event)
        /\ visible' \in BOOLEAN /\ surface' \in Plugins \cup {None} /\ ordered' \in BOOLEAN
        /\ BoundWhileShown' /\ BoundNotDoomed'
    <3>1. CASE fashionMode /\ CreateCardItemIfNeeded(p)
      <4>1. p # None
        BY PluginsAssumption
      <4>2. QED
        BY <1>0, <3>1, <4>1, ShowingBinds DEF SurfaceInv, TypeOK, BoundWhileShown, BoundNotDoomed
    <3>2. CASE ~fashionMode /\ KeepCard /\ UNCHANGED events
      BY <1>0, <3>2 DEF KeepCard, TypeOK, BoundWhileShown, BoundNotDoomed
    <3>3. QED
      BY <2>1, <3>1, <3>2
  <2>4. q \notin cardLive'
    <3>1. CASE quick # None
      BY <1>0, <2>1, <2>3, <3>1 DEF TypeOK
    <3>2. CASE quick = None
      BY <2>1, <3>2
    <3>3. QED
      BY <3>1, <3>2
  <2>5. TypeOK'
    BY <1>0, <2>0, <2>1, <2>2, <2>3, <2>4 DEF TypeOK
  <2>6. QED
    BY <2>3, <2>5 DEF SurfaceInv
<1>4. CASE RefreshPluginItemsVisible /\ ItemRemoved
  <2>0. playing' \in BOOLEAN
    BY <1>4 DEF RefreshPluginItemsVisible
  <2>1. /\ itemAdded' = FALSE /\ HideCard /\ quick' = None
        /\ events' = DeleteLater(DeleteLater(events, ToldHidden), {quick} \ {None})
        /\ UNCHANGED <<fashionMode, quickLive, dock>>
    BY <1>4 DEF ItemRemoved
  <2>2. /\ cardLive' = cardLive /\ bound' = None /\ visible' = FALSE
        /\ surface' = None /\ ordered' = FALSE
        /\ ToldHidden \in SUBSET Plugins
    BY <2>1, HidingUnbinds
  <2>3. events' \in Seq(Event)
    <3>1. DeleteLater(events, ToldHidden) \in Seq(Event)
      BY <1>0, <2>2, DeleteLaterPosts DEF TypeOK
    <3>2. {quick} \ {None} \in SUBSET Plugins
      BY <1>0 DEF TypeOK
    <3>3. QED
      BY <2>1, <3>1, <3>2, DeleteLaterPosts
  <2>4. TypeOK'
    BY <1>0, <2>0, <2>1, <2>2, <2>3 DEF TypeOK
  <2>5. QED
    BY <2>2, <2>3, <2>4, NobodyDoomed DEF SurfaceInv, BoundWhileShown, BoundNotDoomed
<1>5. CASE CardWindowDropped
  BY <1>0, <1>5 DEF CardWindowDropped, SurfaceInv, TypeOK, BoundWhileShown, BoundNotDoomed
<1>6. CASE MessageArrives
  <2>1. messages' \in Seq(BOOLEAN) /\ Head(messages) \in BOOLEAN
    BY <1>0, <1>6 DEF MessageArrives, TypeOK
  <2>2. UNCHANGED <<mode, playing, itemAdded, panel>>
    BY <1>6 DEF MessageArrives
  <2> DEFINE Rest == /\ fashionMode' \in BOOLEAN /\ unanswered' \in BOOLEAN
                     /\ cardLive' \subseteq Plugins \ quickLive
                     /\ bound' \in cardLive' \cup {None} /\ events' \in Seq(Event)
                     /\ visible' \in BOOLEAN /\ surface' \in Plugins \cup {None}
                     /\ ordered' \in BOOLEAN
                     /\ BoundWhileShown' /\ BoundNotDoomed'
  <2>3. CASE quickLive = {}
    <3>1. KeepCard /\ UNCHANGED <<fashionMode, events, unanswered>>
      BY <1>6, <2>3 DEF MessageArrives
    <3>2. Rest
      BY <1>0, <3>1 DEF KeepCard, TypeOK, BoundWhileShown, BoundNotDoomed
    <3>3. QED
      BY <1>0, <2>1, <2>2, <3>2 DEF SurfaceInv, TypeOK
  <2>4. CASE quickLive # {}
    <3> DEFINE on == Head(messages)
    <3>1. SetFashionMode(on) /\ on \in BOOLEAN
      BY <1>6, <2>1, <2>4 DEF MessageArrives
    <3> HIDE DEF on
    <3>2. fashionMode' \in BOOLEAN
      BY <3>1 DEF SetFashionMode
    <3>3. CASE /\ fashionMode # on /\ CardWanted(on)
               /\ \E p \in Plugins : CreateCardItemIfNeeded(p)
               /\ unanswered' = (unanswered \/ ~visible)
      <4>1. PICK p \in Plugins : CreateCardItemIfNeeded(p)
        BY <3>3
      <4>2. p # None
        BY PluginsAssumption
      <4>3. Rest
        BY <1>0, <3>2, <3>3, <4>1, <4>2, ShowingBinds
           DEF SurfaceInv, TypeOK, BoundWhileShown, BoundNotDoomed
      <4>4. QED
        BY <1>0, <2>1, <2>2, <4>3 DEF SurfaceInv, TypeOK
    <3>4. CASE /\ fashionMode # on /\ ~on
               /\ HideCard
               /\ events' = DeleteLater(events, ToldHidden)
               /\ UNCHANGED unanswered
      <4>1. /\ cardLive' = cardLive /\ bound' = None /\ visible' = FALSE
            /\ surface' = None /\ ordered' = FALSE
            /\ ToldHidden \in SUBSET Plugins
        BY <3>4, HidingUnbinds
      <4>2. events' \in Seq(Event)
        BY <1>0, <3>4, <4>1, DeleteLaterPosts DEF TypeOK
      <4>3. Rest
        BY <1>0, <3>2, <3>4, <4>1, <4>2, NobodyDoomed
           DEF TypeOK, BoundWhileShown, BoundNotDoomed
      <4>4. QED
        BY <1>0, <2>1, <2>2, <4>3 DEF SurfaceInv, TypeOK
    <3>5. CASE KeepCard /\ UNCHANGED <<events, unanswered>>
      <4>1. Rest
        BY <1>0, <3>2, <3>5 DEF KeepCard, TypeOK, BoundWhileShown, BoundNotDoomed
      <4>2. QED
        BY <1>0, <2>1, <2>2, <4>1 DEF SurfaceInv, TypeOK
    <3>6. QED
      BY <3>1, <3>3, <3>4, <3>5 DEF SetFashionMode
  <2>5. QED
    BY <2>3, <2>4
<1>7. CASE SendOrder
  <2>1. events \in Seq(Event) /\ events # << >> /\ events' = Tail(events)
    BY <1>0, <1>7 DEF SendOrder, TypeOK
  <2>2. ordered' \in BOOLEAN
    BY <1>0, <1>7 DEF SendOrder, TypeOK
  <2>3. BoundNotDoomed'
    BY <1>0, <1>7, <2>1, TailOfQueue DEF SendOrder, BoundNotDoomed
  <2>4. QED
    BY <1>0, <1>7, <2>1, <2>2, <2>3, TailOfQueue
       DEF SendOrder, SurfaceInv, TypeOK, BoundWhileShown
<1>8. CASE DeletePlugin
  <2> DEFINE p == Head(events).plugin
  <2>1. events \in Seq(Event) /\ events # << >> /\ events' = Tail(events)
    BY <1>0, <1>8 DEF DeletePlugin, TypeOK
  <2>2. p # bound
    BY <1>0, <1>8, <2>1, TailOfQueue DEF DeletePlugin, BoundNotDoomed
  <2>3. /\ cardLive' = cardLive \ {p} /\ bound' = bound
        /\ quickLive' = quickLive \ {p}
        /\ quick' = IF quick = p THEN None ELSE quick
    BY <1>8, <2>2 DEF DeletePlugin, RemoveFromPluginMap
  <2>4. UNCHANGED <<dock, playing, widget, visible, surface, ordered>>
    BY <1>8 DEF DeletePlugin
  <2>5. BoundNotDoomed'
    BY <1>0, <2>1, <2>3, TailOfQueue DEF BoundNotDoomed
  <2> HIDE DEF p
  <2>6. TypeOK'
    BY <1>0, <2>1, <2>2, <2>3, <2>4, TailOfQueue DEF TypeOK
  <2>7. QED
    BY <1>0, <2>3, <2>4, <2>5, <2>6 DEF SurfaceInv, BoundWhileShown
<1>9. CASE DropEvent
  <2>1. events \in Seq(Event) /\ events # << >> /\ events' = Tail(events)
    BY <1>0, <1>9 DEF DropEvent, TypeOK
  <2>2. BoundNotDoomed'
    BY <1>0, <1>9, <2>1, TailOfQueue DEF DropEvent, BoundNotDoomed
  <2>3. QED
    BY <1>0, <1>9, <2>1, <2>2, TailOfQueue
       DEF DropEvent, SurfaceInv, TypeOK, BoundWhileShown
<1>10. CASE UNCHANGED vars
  BY <1>0, <1>10 DEF vars, SurfaceInv, TypeOK, BoundWhileShown, BoundNotDoomed
<1>11. QED
  <2>1. RefreshPluginItemsVisible =>
          \/ RefreshPluginItemsVisible /\ ItemAdded
          \/ RefreshPluginItemsVisible /\ ItemRemoved
    BY DEF RefreshPluginItemsVisible
  <2>2. QED
    BY <1>1, <1>2, <1>3, <1>4, <1>5, <1>6, <1>7, <1>8, <1>9, <1>10, <2>1 DEF Next

\* The invariant holds in every reachable state.
LEMMA SurfaceInvariant == Spec => []SurfaceInv
  BY SurfaceInit, SurfaceStep, PTL DEF Spec

------------------------------------------------------------------------------
(* The surface *)

\* A card that stays shown keeps its entry in the table.
LEMMA BoundStays == SurfaceInv /\ [Next]_vars /\ visible /\ visible' => bound' = bound
<1> SUFFICES ASSUME SurfaceInv, [Next]_vars, visible, visible' PROVE bound' = bound
  OBVIOUS
<1> USE DEF card
<1>0. bound # None /\ bound \in cardLive
  BY DEF SurfaceInv, BoundWhileShown, TypeOK
<1>1. ASSUME NEW p \in Plugins, CreateCardItemIfNeeded(p) PROVE bound' = bound
  BY <1>0, <1>1 DEF CreateCardItemIfNeeded, BindCardPluginSurface
<1>2. ASSUME HideCard PROVE bound' = bound
  BY <1>2 DEF HideCard
<1>3. ASSUME UNCHANGED card PROVE bound' = bound
  BY <1>3
<1>4. CASE RefreshPluginItemsVisible
  BY <1>1, <1>2, <1>3, <1>4 DEF RefreshPluginItemsVisible, ItemAdded, ItemRemoved, KeepCard
<1>5. CASE MessageArrives
  BY <1>1, <1>2, <1>3, <1>5 DEF MessageArrives, SetFashionMode, KeepCard
<1>6. CASE CardWindowDropped
  BY <1>6 DEF CardWindowDropped
<1>7. CASE DeletePlugin
  <2>1. events \in Seq(Event) /\ events # << >>
    BY <1>7 DEF DeletePlugin, SurfaceInv, TypeOK
  <2>2. Head(events).plugin # bound
    BY <1>7, <2>1, TailOfQueue DEF DeletePlugin, SurfaceInv, BoundNotDoomed
  <2>3. QED
    BY <1>7, <2>2 DEF DeletePlugin, RemoveFromPluginMap
<1>8. CASE DockChangesMode \/ DockAnswers \/ SendOrder \/ DropEvent
  BY <1>3, <1>8 DEF DockChangesMode, DockAnswers, SendOrder, DropEvent
<1>9. QED
  BY <1>3, <1>4, <1>5, <1>6, <1>7, <1>8 DEF Next, vars

\* What the surface of a shown card stands for lives and waits for no deletion.
Kept == {p \in cardLive : [type |-> "delete", plugin |-> p] \notin
                            {events[i] : i \in DOMAIN events}}

LEMMA SurfaceIsKept ==
  SurfaceInv => IF visible THEN surface \in Kept ELSE surface = None
<1> SUFFICES ASSUME SurfaceInv, visible PROVE surface \in Kept
  BY DEF SurfaceInv, BoundWhileShown
<1>1. surface = bound /\ bound \in cardLive
  BY DEF SurfaceInv, BoundWhileShown, TypeOK
<1>2. ASSUME NEW i \in DOMAIN events, events[i] = [type |-> "delete", plugin |-> bound]
      PROVE  FALSE
  <2>1. events[i].type = "delete" /\ events[i].plugin = bound
    BY <1>2
  <2>2. QED
    BY <2>1 DEF SurfaceInv, BoundNotDoomed
<1>3. QED
  BY <1>1, <1>2 DEF Kept

LEMMA SurfaceFollows == SurfaceInv /\ SurfaceInv' /\ [Next]_vars => [Surface!Next]_(Surface!vars)
<1> SUFFICES ASSUME SurfaceInv, SurfaceInv', [Next]_vars PROVE Surface!Next
  BY DEF Surface!vars
<1>1. IF visible THEN surface \in Kept ELSE surface = None
  BY SurfaceIsKept
<1>2. IF visible' THEN surface' \in Kept' ELSE surface' = None
  <2>1. (SurfaceInv => IF visible THEN surface \in Kept ELSE surface = None)'
    BY SurfaceIsKept, PTL
  <2>2. QED
    BY <2>1
<1>3. visible /\ visible' => surface' = surface
  BY BoundStays DEF SurfaceInv, BoundWhileShown
<1>4. visible \in BOOLEAN /\ visible' \in BOOLEAN
  BY DEF SurfaceInv, TypeOK
<1>5. CASE visible /\ visible'
  <2>1. surface' = surface /\ surface' \in Kept'
    BY <1>2, <1>3, <1>5
  <2>2. QED
    BY <1>4, <1>5, <2>1 DEF Surface!Next, Surface!Stay, Kept
<1>6. CASE visible /\ ~visible'
  BY <1>2, <1>6 DEF Surface!Next, Surface!Hide
<1>7. CASE ~visible /\ visible'
  BY <1>2, <1>7 DEF Surface!Next, Surface!Show, Kept
<1>8. CASE ~visible /\ ~visible'
  BY <1>1, <1>2, <1>4, <1>8 DEF Surface!Next, Surface!Stay
<1>9. QED
  BY <1>5, <1>6, <1>7, <1>8

------------------------------------------------------------------------------
(* The dock's mode *)

\* The card follows what WidgetPlugin has been told, and the item the player.
Follows ==
  /\ visible <=> fashionMode /\ itemAdded
  /\ itemAdded = playing

\* While the item is added the quick panel's plugin lives, and does not wait for
\* its deletion: it is what forwards the dock's messages.
Forwards ==
  /\ itemAdded <=> quick # None
  /\ \A i \in DOMAIN events : events[i].type = "delete" => events[i].plugin # quick

\* The last word that the dock said is its mode, and has been heard unless the dock
\* is going to say it again.
Told ==
  /\ messages # << >> => messages[Len(messages)] = mode
  /\ messages = << >> /\ itemAdded => unanswered \/ fashionMode = mode

ModeInv == Follows /\ Forwards /\ Told

\* Messages are added at the end and taken from the front.
LEMMA MessageSteps ==
  ASSUME NEW queue \in Seq(BOOLEAN)
  PROVE  /\ \A m \in BOOLEAN : /\ Append(queue, m) # << >>
                               /\ Append(queue, m)[Len(Append(queue, m))] = m
         /\ queue # << >> =>
              /\ Tail(queue) # << >> => Tail(queue)[Len(Tail(queue))] = queue[Len(queue)]
              /\ Tail(queue) = << >> => Head(queue) = queue[Len(queue)]
<1>1. ASSUME NEW m \in BOOLEAN
      PROVE  Append(queue, m) # << >> /\ Append(queue, m)[Len(Append(queue, m))] = m
  OBVIOUS
<1>2. ASSUME queue # << >>, Tail(queue) # << >>
      PROVE  Tail(queue)[Len(Tail(queue))] = queue[Len(queue)]
  <2>1. Len(Tail(queue)) = Len(queue) - 1 /\ Len(Tail(queue)) \in DOMAIN Tail(queue)
    BY <1>2
  <2>2. QED
    BY <1>2, <2>1
<1>3. ASSUME queue # << >>, Tail(queue) = << >>
      PROVE  Head(queue) = queue[Len(queue)]
  <2>1. Len(queue) \in Nat /\ Len(Tail(queue)) = Len(queue) - 1 /\ Head(queue) = queue[1]
    BY <1>3
  <2>2. Len(<< >>) = 0
    OBVIOUS
  <2>3. Len(Tail(queue)) = 0
    BY <1>3, <2>2, Zenon
  <2>4. Len(queue) = 1
    BY <2>1, <2>3
  <2>5. QED
    BY <2>1, <2>4
<1>4. QED
  BY <1>1, <1>2, <1>3

\* The first event goes: what is posted against the quick panel does not grow.
LEMMA ForwardsOn ==
  ASSUME SurfaceInv, Forwards, events # << >>, events' = Tail(events),
         itemAdded' = itemAdded, quick' = quick
  PROVE  Forwards'
<1>1. events \in Seq(Event)
  BY DEF SurfaceInv, TypeOK
<1>2. QED
  BY <1>1, TailOfQueue DEF Forwards

LEMMA ModeStep == SurfaceInv /\ ModeInv /\ [Next]_vars => ModeInv'
<1> SUFFICES ASSUME SurfaceInv, ModeInv, [Next]_vars PROVE ModeInv'
  OBVIOUS
<1> USE DEF dock, widget, panel, card
<1>0. /\ Follows /\ Forwards /\ Told /\ events \in Seq(Event) /\ messages \in Seq(BOOLEAN)
      /\ mode \in BOOLEAN /\ visible \in BOOLEAN /\ fashionMode \in BOOLEAN
      /\ itemAdded \in BOOLEAN /\ unanswered \in BOOLEAN /\ playing \in BOOLEAN
      /\ quick \in quickLive \cup {None} /\ cardLive \subseteq Plugins \ quickLive
      /\ quickLive \subseteq Plugins
  BY DEF ModeInv, SurfaceInv, TypeOK
<1>1. CASE DockChangesMode
  <2>1. messages' # << >> /\ messages'[Len(messages')] = mode'
    BY <1>0, <1>1, MessageSteps DEF DockChangesMode
  <2>2. QED
    BY <1>0, <1>1, <2>1 DEF DockChangesMode, ModeInv, Follows, Forwards, Told
<1>2. CASE DockAnswers
  <2>1. messages' # << >> /\ messages'[Len(messages')] = mode'
    BY <1>0, <1>2, MessageSteps DEF DockAnswers
  <2>2. QED
    BY <1>0, <1>2, <2>1 DEF DockAnswers, ModeInv, Follows, Forwards, Told
<1>3. CASE RefreshPluginItemsVisible /\ ItemAdded /\ playing'
  <2>1. PICK p \in Plugins, q \in Plugins :
          /\ \/ fashionMode /\ CreateCardItemIfNeeded(p)
             \/ ~fashionMode /\ KeepCard /\ UNCHANGED events
          /\ IF quick # None THEN q = quick ELSE q \in Free \ cardLive'
          /\ quick' = q
    BY <1>3 DEF ItemAdded
  <2>2. /\ itemAdded' = TRUE /\ unanswered' = (unanswered \/ quick = None \/ (visible' /\ ~visible))
        /\ fashionMode' = fashionMode /\ mode' = mode /\ messages' = messages
        /\ playing' = TRUE
    BY <1>3 DEF ItemAdded, RefreshPluginItemsVisible
  <2>3. /\ visible' = fashionMode
        /\ \A i \in DOMAIN events' :
             \/ i \in DOMAIN events /\ events'[i] = events[i]
             \/ events'[i].type = "order"
    <3>1. CASE fashionMode /\ CreateCardItemIfNeeded(p)
      <4>1. \/ events' = events
            \/ events' = Append(events, [type |-> "order", plugin |-> p])
        BY <3>1 DEF CreateCardItemIfNeeded, BindCardPluginSurface
      <4>2. [type |-> "order", plugin |-> p] \in Event
        BY DEF Event
      <4>3. QED
        BY <1>0, <3>1, <4>1, <4>2, PostedLast DEF CreateCardItemIfNeeded
    <3>2. CASE ~fashionMode /\ KeepCard /\ UNCHANGED events
      BY <1>0, <3>2 DEF KeepCard, Follows
    <3>3. QED
      BY <2>1, <3>1, <3>2
  <2>4. Forwards'
    <3>1. q # None
      BY PluginsAssumption
    <3>2. \A i \in DOMAIN events : events[i].type = "delete" => events[i].plugin # q
      BY <1>0, <2>1 DEF Free, Forwards
    <3>3. QED
      BY <2>1, <2>2, <2>3, <3>1, <3>2 DEF Forwards
  <2>5. Told'
    BY <1>0, <2>2 DEF Told, Forwards
  <2>6. QED
    BY <1>0, <2>2, <2>3, <2>4, <2>5 DEF ModeInv, Follows
<1>4. CASE RefreshPluginItemsVisible /\ ItemRemoved /\ ~playing'
  <2>1. /\ itemAdded' = FALSE /\ HideCard /\ quick' = None
        /\ events' = DeleteLater(DeleteLater(events, ToldHidden), {quick} \ {None})
        /\ UNCHANGED <<fashionMode, dock>>
    BY <1>4 DEF ItemRemoved
  <2>2. events' \in Seq(Event)
    <3>1. DeleteLater(events, ToldHidden) \in Seq(Event)
      BY <1>0, <2>1, HidingUnbinds, DeleteLaterPosts
    <3>2. {quick} \ {None} \in SUBSET Plugins
      BY <1>0
    <3>3. QED
      BY <2>1, <3>1, <3>2, DeleteLaterPosts
  <2>3. visible' = FALSE /\ playing' = FALSE
    BY <1>4, <2>1 DEF HideCard, RefreshPluginItemsVisible
  <2>4. QED
    BY <1>0, <2>1, <2>2, <2>3, NobodyDoomed DEF ModeInv, Follows, Forwards, Told
<1>5. CASE CardWindowDropped
  BY <1>0, <1>5 DEF CardWindowDropped, ModeInv, Follows, Forwards, Told
<1>6. CASE MessageArrives
  <2>1. /\ messages # << >> /\ messages' = Tail(messages)
        /\ UNCHANGED <<mode, playing, itemAdded, panel>>
    BY <1>6 DEF MessageArrives
  <2> DEFINE on == Head(messages)
  <2>2. /\ messages' # << >> => messages'[Len(messages')] = mode'
        /\ messages' = << >> => on = mode
    BY <1>0, <2>1, MessageSteps DEF Told
  <2>3. CASE quickLive = {}
    <3>1. KeepCard /\ UNCHANGED <<fashionMode, events, unanswered>>
      BY <1>6, <2>3 DEF MessageArrives
    <3>2. ~itemAdded
      BY <1>0, <2>3 DEF Forwards
    <3>3. QED
      BY <1>0, <2>1, <2>2, <3>1, <3>2 DEF KeepCard, ModeInv, Follows, Forwards, Told
  <2>4. CASE quickLive # {}
    <3>1. SetFashionMode(on) /\ on \in BOOLEAN
      BY <1>0, <1>6, <2>1, <2>4 DEF MessageArrives
    <3> HIDE DEF on
    <3>2. fashionMode' = on
      BY <3>1 DEF SetFashionMode
    <3>3. Told'
      BY <2>1, <2>2, <3>2 DEF Told
    <3>4. CASE /\ fashionMode # on /\ CardWanted(on)
               /\ \E p \in Plugins : CreateCardItemIfNeeded(p)
      <4>1. PICK p \in Plugins : CreateCardItemIfNeeded(p)
        BY <3>4
      <4>2. [type |-> "order", plugin |-> p] \in Event
        BY DEF Event
      <4>3. \A i \in DOMAIN events' :
              \/ i \in DOMAIN events /\ events'[i] = events[i]
              \/ events'[i].type = "order"
        BY <1>0, <4>1, <4>2, PostedLast DEF CreateCardItemIfNeeded, BindCardPluginSurface
      <4>4. Forwards'
        BY <1>0, <2>1, <4>3 DEF Forwards
      <4>5. Follows'
        BY <1>0, <2>1, <3>2, <3>4, <4>1 DEF Follows, CreateCardItemIfNeeded, CardWanted
      <4>6. QED
        BY <3>3, <4>4, <4>5 DEF ModeInv
    <3>5. CASE ~on /\ HideCard /\ events' = DeleteLater(events, ToldHidden)
      <4>1. ToldHidden \in SUBSET Plugins /\ quick \notin ToldHidden
        BY <1>0, PluginsAssumption DEF ToldHidden
      <4>2. Forwards'
        BY <1>0, <2>1, <3>5, <4>1, DeleteLaterPosts DEF Forwards
      <4>3. Follows'
        BY <1>0, <2>1, <3>2, <3>5 DEF Follows, HideCard
      <4>4. QED
        BY <3>3, <4>2, <4>3 DEF ModeInv
    <3>6. CASE /\ fashionMode = on \/ (on /\ ~CardWanted(on))
               /\ KeepCard /\ UNCHANGED events
      BY <1>0, <2>1, <3>2, <3>3, <3>6 DEF KeepCard, CardWanted, ModeInv, Follows, Forwards
    <3>7. QED
      BY <3>1, <3>4, <3>5, <3>6 DEF SetFashionMode
  <2>5. QED
    BY <2>3, <2>4
<1>7. CASE SendOrder \/ DropEvent
  <2>1. /\ events # << >> /\ events' = Tail(events)
        /\ UNCHANGED <<dock, playing, widget, panel, card>>
    BY <1>7 DEF SendOrder, DropEvent
  <2>2. QED
    BY <1>0, <2>1, ForwardsOn DEF ModeInv, Follows, Told
<1>8. CASE DeletePlugin
  <2>1. /\ events # << >> /\ events' = Tail(events) /\ Head(events).type = "delete"
        /\ UNCHANGED <<dock, playing, widget, visible>>
        /\ quick' = IF quick = Head(events).plugin THEN None ELSE quick
    BY <1>8 DEF DeletePlugin
  <2>2. quick # Head(events).plugin
    BY <1>0, <2>1, TailOfQueue DEF Forwards
  <2>3. QED
    BY <1>0, <2>1, <2>2, ForwardsOn DEF ModeInv, Follows, Told
<1>9. CASE UNCHANGED vars
  BY <1>0, <1>9 DEF vars, ModeInv, Follows, Forwards, Told
<1>10. QED
  <2>1. RefreshPluginItemsVisible =>
          \/ RefreshPluginItemsVisible /\ ItemAdded /\ playing'
          \/ RefreshPluginItemsVisible /\ ItemRemoved /\ ~playing'
    BY DEF RefreshPluginItemsVisible
  <2>2. QED
    BY <1>1, <1>2, <1>3, <1>4, <1>5, <1>6, <1>7, <1>8, <1>9, <2>1 DEF Next

------------------------------------------------------------------------------
(* The card's order *)

Order(p) == [type |-> "order", plugin |-> p]
Posted(e) == \E i \in DOMAIN events : events[i] = e

\* The order of the plugin that is bound is known or posted to it.
OrderInv == visible => ordered \/ Posted(Order(bound))

\* An event that is not the first is still there when the first is taken.
LEMMA StillPosted ==
  ASSUME NEW e, events \in Seq(Event), events # << >>, events' = Tail(events),
         Posted(e), e # Head(events)
  PROVE  Posted(e)'
<1>1. PICK i \in DOMAIN events : events[i] = e
  BY DEF Posted
<1>2. i # 1
  BY <1>1
<1>3. i - 1 \in DOMAIN Tail(events) /\ Tail(events)[i - 1] = events[i]
  BY <1>1, <1>2
<1>4. QED
  BY <1>1, <1>3 DEF Posted

LEMMA OrderStep == SurfaceInv /\ SurfaceInv' /\ OrderInv /\ [Next]_vars => OrderInv'
<1> SUFFICES ASSUME SurfaceInv, SurfaceInv', OrderInv, [Next]_vars, visible' PROVE OrderInv'
  BY DEF OrderInv
<1> USE DEF card
<1>0. /\ events \in Seq(Event) /\ ordered \in BOOLEAN /\ visible \in BOOLEAN
      /\ bound' # None /\ bound' \in cardLive'
      /\ visible => surface = bound /\ bound' = bound /\ bound \in cardLive
      /\ visible <=> bound # None
  BY BoundStays DEF SurfaceInv, TypeOK, BoundWhileShown
<1>1. ASSUME NEW p \in Plugins, CreateCardItemIfNeeded(p) PROVE OrderInv'
  <2>1. CASE bound # None
    BY <1>0, <1>1, <2>1
       DEF CreateCardItemIfNeeded, BindCardPluginSurface, OrderInv, Posted, Order
  <2>2. CASE bound = None
    <3>1. bound' = p /\ events' = Append(events, Order(p))
      BY <1>1, <2>2 DEF CreateCardItemIfNeeded, BindCardPluginSurface, Order
    <3>2. Len(events) + 1 \in DOMAIN events' /\ events'[Len(events) + 1] = Order(p)
      BY <1>0, <3>1
    <3>3. QED
      BY <3>1, <3>2 DEF OrderInv, Posted, Order
  <2>3. QED
    BY <2>1, <2>2
<1>2. ASSUME HideCard PROVE FALSE
  BY <1>2 DEF HideCard
<1>3. ASSUME UNCHANGED <<card, ordered, events>> PROVE OrderInv'
  BY <1>3 DEF OrderInv, Posted, Order
<1>4. CASE RefreshPluginItemsVisible
  BY <1>1, <1>2, <1>3, <1>4 DEF RefreshPluginItemsVisible, ItemAdded, ItemRemoved, KeepCard
<1>5. CASE MessageArrives
  BY <1>1, <1>2, <1>3, <1>5 DEF MessageArrives, SetFashionMode, KeepCard
<1>6. CASE CardWindowDropped
  BY <1>6 DEF CardWindowDropped
<1>7. CASE SendOrder \/ DeletePlugin \/ DropEvent
  <2>1. events # << >> /\ events' = Tail(events) /\ visible /\ surface' = surface
    BY <1>7 DEF SendOrder, DeletePlugin, DropEvent
  <2>2. ordered => ordered'
    BY <1>0, <1>7, <2>1 DEF SendOrder, DeletePlugin, DropEvent
  <2>3. Head(events) = Order(bound) => ordered'
    <3>1. Head(events) = Order(bound) => /\ Head(events).type = "order"
                                         /\ Head(events).plugin = surface
                                         /\ Head(events).plugin \in Alive
      BY <1>0, <2>1 DEF Order, Alive
    <3>2. QED
      BY <1>7, <3>1 DEF SendOrder, DeletePlugin, DropEvent
  <2>4. Posted(Order(bound)) => Posted(Order(bound))' \/ ordered'
    BY <1>0, <2>1, <2>3, StillPosted
  <2>5. QED
    BY <1>0, <2>1, <2>2, <2>4 DEF OrderInv
<1>8. CASE DockChangesMode \/ DockAnswers
  BY <1>3, <1>8 DEF DockChangesMode, DockAnswers
<1>9. QED
  BY <1>3, <1>4, <1>5, <1>6, <1>7, <1>8 DEF Next, vars

------------------------------------------------------------------------------
(* The theorems *)

\* Every reachable state is well typed: above all the table never holds an
\* EmbedPlugin that has been destroyed.
THEOREM TypeCorrect == Spec => []TypeOK
<1>1. SurfaceInv => TypeOK
  BY DEF SurfaceInv
<1>2. QED
  BY <1>1, SurfaceInvariant, PTL

\* However often the card is hidden and shown before the event loop gets to the
\* deletions, a card that is shown has a living surface of its own.
THEOREM ShownCardHasSurface == Spec => []CardHasSurface
<1>1. SurfaceInv => CardHasSurface
  <2> SUFFICES ASSUME SurfaceInv, visible
               PROVE  /\ surface \in cardLive /\ surface = bound
                      /\ \A i \in DOMAIN events :
                           events[i].plugin = surface => events[i].type = "order"
    BY DEF CardHasSurface
  <2>1. surface = bound /\ bound \in cardLive
    BY DEF SurfaceInv, BoundWhileShown, TypeOK
  <2>2. \A i \in DOMAIN events : events[i].type \in {"order", "delete"}
    <3>1. \A i \in DOMAIN events : events[i] \in Event
      BY DEF SurfaceInv, TypeOK
    <3>2. QED
      BY <3>1 DEF Event
  <2>3. QED
    BY <2>1, <2>2 DEF SurfaceInv, BoundNotDoomed
<1>2. QED
  BY <1>1, SurfaceInvariant, PTL

\* The card implements ShellSurface: other plugins of its window are bound, hidden
\* and deleted, its surface keeps the one it was shown with.
THEOREM CardKeepsSurface == Spec => SurfaceKept
<1>1. Init => Surface!Init
  BY DEF Init, Surface!Init
<1>2. QED
  BY <1>1, SurfaceFollows, SurfaceInvariant, PTL DEF Spec, SurfaceKept, Surface!Spec

\* The card is where the dock and the player want it, whenever the dock's word is not
\* on its way and the dock owes no answer, although messages are missed.
THEOREM CardIsExact == Spec => []CardExact
<1>1. Init => ModeInv
  <2> SUFFICES ASSUME Init PROVE ModeInv
    OBVIOUS
  <2>1. Follows /\ Told
    BY DEF Init, Follows, Told
  <2>2. DOMAIN events = {}
    BY DEF Init
  <2>3. QED
    BY <2>1, <2>2 DEF Init, ModeInv, Forwards
<1>2. SurfaceInv /\ ModeInv => CardExact
  <2> SUFFICES ASSUME SurfaceInv, ModeInv, ~(playing /\ (messages # << >> \/ unanswered))
               PROVE  visible = (mode /\ playing)
    BY DEF CardExact
  <2>1. /\ visible \in BOOLEAN /\ mode \in BOOLEAN /\ playing \in BOOLEAN
        /\ visible <=> fashionMode /\ playing
    BY DEF SurfaceInv, TypeOK, ModeInv, Follows
  <2>2. playing => fashionMode = mode
    BY DEF ModeInv, Follows, Told
  <2>3. QED
    BY <2>1, <2>2
<1>3. QED
  BY <1>1, <1>2, ModeStep, SurfaceInvariant, PTL DEF Spec

\* The card's order is known to the dock or posted to the plugin of the card's
\* surface, whatever other orders and deletions are in the queue.
THEOREM OrderIsComing == Spec => []OrderComes
<1>1. Init => OrderInv
  BY DEF Init, OrderInv
<1>2. SurfaceInv /\ OrderInv => OrderComes
  BY DEF SurfaceInv, BoundWhileShown, OrderInv, OrderComes, Posted, Order
<1>3. QED
  BY <1>1, <1>2, OrderStep, SurfaceInvariant, PTL DEF Spec
==============================================================================
