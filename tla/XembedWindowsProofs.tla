------------------------- MODULE XembedWindowsProofs -------------------------
(***************************************************************************)
(* Theorems about XembedWindows for any ids and any number of windows.     *)
(***************************************************************************)
EXTENDS XembedWindows, FiniteSetTheorems, TLAPS

\* What the server knows of a window: only one that exists is watched or shaped,
\* one that exists shows something, and the windows are numbered.
ServerInv ==
  /\ \A w \in Windows : watch[w] # "none" => w \in exists
  /\ \A w \in exists : named[w] # 0 /\ shows[w] # NoImage
  /\ \A w \in Windows : named[w] <= births
  /\ \A w \in Handled : handlers[w].life <= births

\* What the tray does about w rests on w, or its end is still to be handled.
RestsOn(w) ==
  /\ w \in Icons => Backed(w)
  /\ w \in Owned => /\ Backed(w) /\ (w \in Icons \/ Queued("destroy", w))
                    /\ handlers[w].life \in {0, named[w]} \/ Queued("destroy", w)
  /\ w \in shapes => w \in Owned /\ (w \in shaped \/ Queued("destroy", w))

\* A way is open for the image of w to the handler.
OnItsWay(w) == \/ w \in changed
               \/ handlers[w].due \cap {"first", "attention", "update"} # {}

\* Damage that is not subtracted yet has an event that is not handled yet.
DamageComes(w) == w \in Icons /\ watch[w] = "damaged" => Queued("damage", w)

\* What an embedded window shows is with its handler, or on its way there, unless
\* the last damage left the handler behind.
ImageComes(w) ==
  w \in Owned /\ Embedded(w) /\ ~Queued("destroy", w) =>
    \/ handlers[w].icon = shows[w] \/ handlers[w].untold
    \/ Queued("damage", w) \/ OnItsWay(w)

WindowsInv == TypeOK /\ ServerInv /\ \A w \in Windows : RestsOn(w)

FreshInv == WindowsInv /\ \A w \in Windows : DamageComes(w) /\ ImageComes(w)

------------------------------------------------------------------------------
(* Lemmas *)

\* Events are added at the end and taken from the front.
LEMMA EventSteps ==
  ASSUME TypeOK
  PROVE  /\ events' = events => events' \in Seq(Event) /\ \A t, w : Queued(t, w)' <=> Queued(t, w)
         /\ \A e \in Event : events' = Append(events, e) =>
              /\ events' \in Seq(Event)
              /\ \A t, w : Queued(t, w)' <=> Queued(t, w) \/ XEvent(t, w) = e
         /\ \A t, w : Receive(t, w) =>
              /\ events' \in Seq(Event)
              /\ \A u, x : Queued(u, x)' => Queued(u, x)
              /\ \A u, x : Queued(u, x) => Queued(u, x)' \/ XEvent(u, x) = XEvent(t, w)
<1>0. events \in Seq(Event)
  BY DEF TypeOK
<1>1. ASSUME events' = events
      PROVE  events' \in Seq(Event) /\ \A t, w : Queued(t, w)' <=> Queued(t, w)
  BY <1>0, <1>1 DEF Queued, XEvent
<1>2. ASSUME NEW e \in Event, events' = Append(events, e)
      PROVE  /\ events' \in Seq(Event)
             /\ \A t, w : Queued(t, w)' <=> Queued(t, w) \/ XEvent(t, w) = e
  <2>1. /\ events' \in Seq(Event) /\ Len(events) + 1 \in DOMAIN events'
        /\ events'[Len(events) + 1] = e
        /\ \A k \in DOMAIN events : k \in DOMAIN events' /\ events'[k] = events[k]
        /\ \A k \in DOMAIN events' : k \in DOMAIN events \/ k = Len(events) + 1
    BY <1>0, <1>2
  <2>2. QED
    BY <2>1 DEF Queued, XEvent
<1>3. ASSUME NEW t, NEW w, Receive(t, w)
      PROVE  /\ events' \in Seq(Event)
             /\ \A u, x : Queued(u, x)' => Queued(u, x)
             /\ \A u, x : Queued(u, x) => Queued(u, x)' \/ XEvent(u, x) = XEvent(t, w)
  <2>1. events # << >> /\ events' = Tail(events) /\ Head(events) = XEvent(t, w)
    BY <1>3 DEF Receive
  <2>2. /\ events' \in Seq(Event) /\ Head(events) = events[1]
        /\ \A k \in DOMAIN events : k = 1 \/ (k - 1 \in DOMAIN events' /\ events'[k - 1] = events[k])
        /\ \A k \in DOMAIN events' : k + 1 \in DOMAIN events /\ events[k + 1] = events'[k]
    BY <1>0, <2>1
  <2>3. ASSUME NEW u, NEW x, Queued(u, x)' PROVE Queued(u, x)
    <3>1. PICK k \in DOMAIN events' : events'[k] = XEvent(u, x)
      BY <2>3 DEF Queued, XEvent
    <3>2. QED
      BY <2>2, <3>1 DEF Queued
  <2>4. ASSUME NEW u, NEW x, Queued(u, x)
        PROVE  Queued(u, x)' \/ XEvent(u, x) = XEvent(t, w)
    <3>1. PICK k \in DOMAIN events : events[k] = XEvent(u, x)
      BY <2>4 DEF Queued
    <3>2. CASE k = 1
      BY <2>1, <2>2, <3>1, <3>2
    <3>3. CASE k - 1 \in DOMAIN events' /\ events'[k - 1] = events[k]
      BY <3>1, <3>3 DEF Queued, XEvent
    <3>4. QED
      BY <2>2, <3>2, <3>3
  <2>5. QED
    BY <2>2, <2>3, <2>4
<1>4. QED
  BY <1>1, <1>2, <1>3

LEMMA XEventFields ==
  ASSUME NEW t, NEW u, NEW w, NEW x
  PROVE  XEvent(t, w) = XEvent(u, x) <=> t = u /\ w = x
BY DEF XEvent

LEMMA XEventType ==
  ASSUME NEW w \in Windows
  PROVE  \A t \in {"dock", "destroy", "damage", "leave"} : XEvent(t, w) \in Event
BY DEF XEvent, Event

------------------------------------------------------------------------------
(* Types *)

LEMMA HandlerParts ==
  ASSUME NEW h \in Handler
  PROVE  /\ \A due : \A next \in SUBSET {"init", "first", "attention", "update"} :
              Then(h, due, next) \in Handler
         /\ \A l \in Nat : [h EXCEPT !.life = l] \in Handler
         /\ \A i \in Image : [h EXCEPT !.icon = i, !.untold = FALSE] \in Handler
         /\ \A b \in BOOLEAN : [h EXCEPT !.untold = b] \in Handler
         /\ [h EXCEPT !.owned = FALSE] \in Handler
         /\ [h EXCEPT !.due = @ \cup {"attention"}] \in Handler
BY DEF Handler, Then

\* Handling damage may change the image of the icon, and of the handler only what
\* it has not been told.
LEMMA DamageParts ==
  ASSUME TypeOK, NEW w \in Windows, DamageNotified(w)
  PROVE  /\ icons' \in [Windows -> Image \cup {NoIcon}] /\ Icons' = Icons
         /\ changed' \subseteq Windows
         /\ watch' \in [Windows -> {"none", "clean", "damaged"}]
         /\ \A x \in Windows : watch'[x] = "none" <=> watch[x] = "none"
         /\ \/ UNCHANGED handlers
            \/ w \in Handled /\ \E b \in BOOLEAN :
                 handlers' = [handlers EXCEPT ![w] = [handlers[w] EXCEPT !.untold = b]]
         /\ \A b \in BOOLEAN : w \in Handled => [handlers[w] EXCEPT !.untold = b] \in Handler
<1>1. \A image : LeftBehind(w, image) \in BOOLEAN
  BY DEF LeftBehind
<1>2. \/ UNCHANGED handlers
      \/ w \in Handled /\ \E b \in BOOLEAN :
           handlers' = [handlers EXCEPT ![w] = [handlers[w] EXCEPT !.untold = b]]
  BY <1>1 DEF DamageNotified
<1>3. \A b \in BOOLEAN : w \in Handled => [handlers[w] EXCEPT !.untold = b] \in Handler
  BY HandlerParts DEF TypeOK, Handled
<1>4. PICK image \in Looks(w) :
        \/ /\ NewsFor(w, image)
           /\ icons' = [icons EXCEPT ![w] = image] /\ changed' = changed \cup {w}
        \/ ~NewsFor(w, image) /\ UNCHANGED <<icons, changed>>
  BY DEF DamageNotified
<1>5. image \in Image /\ image # NoIcon
  BY NullAssumption DEF Looks, TypeOK, Image
<1>6. /\ icons' \in [Windows -> Image \cup {NoIcon}] /\ changed' \subseteq Windows
      /\ Icons' = Icons
  <2>1. CASE NewsFor(w, image) /\ icons' = [icons EXCEPT ![w] = image]
             /\ changed' = changed \cup {w}
    BY <1>5, <2>1 DEF NewsFor, TypeOK, Icons
  <2>2. CASE UNCHANGED <<icons, changed>>
    BY <2>2 DEF TypeOK, Icons
  <2>3. QED
    BY <1>4, <2>1, <2>2
<1>7. /\ watch' \in [Windows -> {"none", "clean", "damaged"}]
      /\ \A x \in Windows : watch'[x] = "none" <=> watch[x] = "none"
  <2>1. watch' = SubtractDamage(w)
    BY DEF DamageNotified
  <2>2. QED
    BY <2>1 DEF SubtractDamage, TypeOK
<1>8. QED
  BY <1>2, <1>3, <1>6, <1>7

LEMMA TypeStep ==
  ASSUME TypeOK, [Next]_vars
  PROVE  TypeOK'
<1> USE LimitAssumption, NullAssumption
<1>1. ASSUME NEW w \in Windows, WindowCreated(w) PROVE TypeOK'
  <2>1. events' \in Seq(Event)
    BY <1>1, EventSteps DEF WindowCreated
  <2>2. QED
    BY <1>1, <2>1 DEF WindowCreated, TypeOK, tray, Icons, Image
<1>2. ASSUME NEW w \in Windows, WindowGoes(w) PROVE TypeOK'
  <2>1. events' \in Seq(Event)
    BY <1>2, EventSteps, XEventType DEF WindowGoes
  <2>2. QED
    BY <1>2, <2>1 DEF WindowGoes, TypeOK, tray, Icons, Image
<1>3. ASSUME NEW w \in Windows, AsksToDock(w) PROVE TypeOK'
  <2>1. events' \in Seq(Event)
    BY <1>3, EventSteps, XEventType DEF AsksToDock
  <2>2. QED
    BY <1>3, <2>1 DEF AsksToDock, TypeOK, tray, server, Icons
<1>4. ASSUME NEW w \in Windows, PointerLeaves(w) PROVE TypeOK'
  <2>1. events' \in Seq(Event)
    BY <1>4, EventSteps, XEventType DEF PointerLeaves
  <2>2. QED
    BY <1>4, <2>1 DEF PointerLeaves, TypeOK, tray, server, Icons
<1>5. ASSUME NEW w \in Windows, Draws(w) PROVE TypeOK'
  <2>1. events' \in Seq(Event)
    BY <1>5, EventSteps, XEventType DEF Draws
  <2>2. QED
    BY <1>5, <2>1 DEF Draws, TypeOK, tray, Icons, Image
<1>6. ASSUME NEW w \in Windows, DockRequested(w) PROVE TypeOK'
  <2>1. events' \in Seq(Event)
    BY <1>6, EventSteps DEF DockRequested
  <2>2. Cardinality(Icons \ exists) \in Nat
    BY FS_Subset, FS_CardinalityType DEF Icons
  <2>3. Unregister(Icons \ exists) \in [Windows -> Image \cup {NoIcon}]
    BY DEF Unregister, TypeOK
  <2>4. icons' \in [Windows -> Image \cup {NoIcon}]
    <3>1. Looks(w) \subseteq Image
      BY DEF Looks, TypeOK, Image
    <3>2. QED
      BY <1>6, <2>3, <3>1 DEF DockRequested
  <2>5. muted' \subseteq Icons'
    <3>1. \A x \in Icons \ (Icons \ exists) : Unregister(Icons \ exists)[x] # NoIcon
      BY DEF Unregister, Icons
    <3>2. \A x \in Icons \ (Icons \ exists) : icons'[x] # NoIcon
      BY <1>6, <3>1 DEF DockRequested, Unregister, Icons
    <3>3. QED
      BY <1>6, <3>2 DEF DockRequested, TypeOK, Icons
  <2>6. QED
    BY <1>6, <2>1, <2>2, <2>4, <2>5 DEF DockRequested, TypeOK
<1>7. ASSUME NEW w \in Windows, DestroyNotified(w) PROVE TypeOK'
  <2>1. events' \in Seq(Event)
    BY <1>7, EventSteps DEF DestroyNotified
  <2>2. handlers' \in [Windows -> Handler \cup {NoHandler}]
    <3>1. CASE w \in Owned
      <4>1. [handlers[w] EXCEPT !.owned = FALSE] \in Handler
        BY <3>1, HandlerParts DEF TypeOK, Owned, Handled
      <4>2. handlers' = [handlers EXCEPT ![w] = [handlers[w] EXCEPT !.owned = FALSE]]
        BY <1>7, <3>1 DEF DestroyNotified, Invalidate
      <4>3. QED
        BY <4>1, <4>2 DEF TypeOK
    <3>2. CASE w \notin Owned
      BY <1>7, <3>2 DEF DestroyNotified, TypeOK
    <3>3. QED
      BY <3>1, <3>2
  <2>3. QED
    BY <1>7, <2>1, <2>2 DEF DestroyNotified, Unregister, RemoveRecord, TypeOK, server, Icons
<1>8. ASSUME NEW w \in Windows, DamageNotified(w) PROVE TypeOK'
  <2>1. events' \in Seq(Event)
    BY <1>8, EventSteps DEF DamageNotified
  <2>2. handlers' \in [Windows -> Handler \cup {NoHandler}]
    <3>1. CASE UNCHANGED handlers
      BY <3>1 DEF TypeOK
    <3>2. ASSUME w \in Handled, NEW b \in BOOLEAN,
                 handlers' = [handlers EXCEPT ![w] = [handlers[w] EXCEPT !.untold = b]]
          PROVE  handlers' \in [Windows -> Handler \cup {NoHandler}]
      <4>1. [handlers[w] EXCEPT !.untold = b] \in Handler
        BY <1>8, <3>2, DamageParts
      <4>2. QED
        BY <3>2, <4>1 DEF TypeOK
    <3>3. QED
      BY <1>8, <3>1, <3>2, DamageParts
  <2>3. QED
    BY <1>8, <2>1, <2>2, DamageParts DEF DamageNotified, TypeOK
<1>9. ASSUME NEW w \in Windows, LeaveNotified(w) PROVE TypeOK'
  <2>1. events' \in Seq(Event)
    BY <1>9, EventSteps DEF LeaveNotified
  <2>2. QED
    BY <1>9, <2>1 DEF LeaveNotified, TypeOK, Icons
<1>10. CASE Sweep
  <2>1. NewHandler \in Handler
    BY DEF NewHandler, Handler, Image
  <2>2. handlers' \in [Windows -> Handler \cup {NoHandler}]
    BY <1>10, <2>1 DEF Sweep, TypeOK
  <2>3. QED
    BY <1>10, <2>2 DEF Sweep, RemoveRecord, TypeOK, server, Icons
<1>11. ASSUME NEW w \in Windows, MakesRoom(w) PROVE TypeOK'
  BY <1>11 DEF MakesRoom, RemoveRecord, TypeOK, server, Icons
<1>12. ASSUME NEW w \in Windows, XembedTrayIconChanged(w) PROVE TypeOK'
  <2>1. handlers' \in [Windows -> Handler \cup {NoHandler}]
    <3>1. CASE w \in Handled
      <4>1. [handlers[w] EXCEPT !.due = @ \cup {"attention"}] \in Handler
        BY <3>1, HandlerParts DEF TypeOK, Handled
      <4>2. handlers' = [handlers EXCEPT ![w] = [handlers[w] EXCEPT !.due = @ \cup {"attention"}]]
        BY <1>12, <3>1 DEF XembedTrayIconChanged
      <4>3. QED
        BY <4>1, <4>2 DEF TypeOK
    <3>2. CASE w \notin Handled
      BY <1>12, <3>2 DEF XembedTrayIconChanged, TypeOK
    <3>3. QED
      BY <3>1, <3>2
  <2>2. QED
    BY <1>12, <2>1 DEF XembedTrayIconChanged, TypeOK, server, Icons
<1>13. ASSUME NEW w \in Windows, InitX11resources(w) PROVE TypeOK'
  <2>1. [Then(handlers[w], "init", {"first"}) EXCEPT !.life = named[w]] \in Handler
    BY <1>13, HandlerParts DEF InitX11resources, Fires, TypeOK, Handled
  <2>2. QED
    BY <1>13, <2>1 DEF InitX11resources, Fires, TypeOK, server, Icons
<1>14. ASSUME NEW w \in Windows, AttentionTimeout(w) PROVE TypeOK'
  <2>1. Then(handlers[w], "attention", {"update"}) \in Handler
    BY <1>14, HandlerParts DEF AttentionTimeout, Fires, TypeOK, Handled
  <2>2. QED
    BY <1>14, <2>1 DEF AttentionTimeout, Fires, TypeOK, server, Icons
<1>15. ASSUME NEW w \in Windows, IconTimeout(w) PROVE TypeOK'
  <2>1. PICK due \in {"first", "update"}, image \in Looks(w) :
          /\ Fires(w, due, {})
          /\ handlers' = [handlers EXCEPT ![w] = [Then(@, due, {}) EXCEPT !.icon = image,
                                                                 !.untold = FALSE]]
    BY <1>15 DEF IconTimeout
  <2>2. [Then(handlers[w], due, {}) EXCEPT !.icon = image, !.untold = FALSE] \in Handler
    BY <2>1, HandlerParts DEF Fires, TypeOK, Handled, Looks, Image
  <2>3. QED
    BY <2>1, <2>2 DEF Fires, TypeOK, server, Icons
<1>16. ASSUME NEW w \in Windows, NEW enabled \in BOOLEAN, EnableNotification(w, enabled)
       PROVE  TypeOK'
  <2>1. events' \in Seq(Event)
    BY <1>16, EventSteps DEF EnableNotification
  <2>2. QED
    BY <1>16, <2>1 DEF EnableNotification, Registered, TypeOK, server, Icons
<1>17. CASE UNCHANGED vars
  BY <1>17 DEF vars, server, tray, TypeOK, Icons
<1>18. QED
  BY <1>1, <1>2, <1>3, <1>4, <1>5, <1>6, <1>7, <1>8, <1>9, <1>10, <1>11, <1>12, <1>13,
     <1>14, <1>15, <1>16, <1>17
     DEF Next, Client, EventFiltered, TimerFires, SignalHandled

------------------------------------------------------------------------------
(* The inductive invariant *)

\* A step that changes the handler of w leaves the handlers of the others alone.
LEMMA OneHandler ==
  ASSUME TypeOK, NEW w \in Handled, NEW h \in Handler,
         handlers' = [handlers EXCEPT ![w] = h]
  PROVE  /\ Handled' = Handled /\ handlers'[w] = h
         /\ \A x \in Windows \ {w} : handlers'[x] = handlers[x]
         /\ \A x \in Windows \ {w} : x \in Owned' <=> x \in Owned
         /\ w \in Owned' <=> h.owned
BY NullAssumption DEF TypeOK, Handled, Owned

\* A handler whose timers run on does not change what it owns.
LEMMA TimerSteps ==
  ASSUME WindowsInv, NEW w \in Windows, NEW due, NEW next, Fires(w, due, next),
         NEW h \in Handler, handlers' = [handlers EXCEPT ![w] = h],
         h.owned = handlers[w].owned, h.life \in {handlers[w].life, named[w]}
  PROVE  ServerInv' /\ \A x \in Windows : RestsOn(x)'
<1>1. w \in Handled /\ UNCHANGED <<births, exists, named, shows, watch, shaped, events, icons,
                                 shapes>>
  BY DEF Fires, server
<1>2. \A t, x : Queued(t, x)' <=> Queued(t, x)
  BY <1>1, EventSteps DEF WindowsInv
<1>3. /\ Handled' = Handled /\ handlers'[w] = h
      /\ \A x \in Windows \ {w} : handlers'[x] = handlers[x]
      /\ \A x \in Windows : x \in Owned' <=> x \in Owned
  BY <1>1, OneHandler DEF WindowsInv, Owned
<1>4. ServerInv'
  BY <1>1, <1>3 DEF WindowsInv, ServerInv, TypeOK, Handled
<1>5. ASSUME NEW x \in Windows PROVE RestsOn(x)'
  <2>1. Icons' = Icons /\ (Backed(x)' <=> Backed(x))
    BY <1>1, <1>2 DEF Icons, Backed
  <2>2. handlers'[x].life \in {handlers[x].life, named[x]}
    BY <1>3
  <2>3. QED
    BY <1>1, <1>2, <1>3, <2>1, <2>2 DEF WindowsInv, RestsOn
<1>6. QED
  BY <1>4, <1>5

LEMMA InvStep ==
  ASSUME WindowsInv, [Next]_vars
  PROVE  ServerInv' /\ \A x \in Windows : RestsOn(x)'
<1> USE NullAssumption
<1>0. TypeOK /\ TypeOK'
  BY TypeStep DEF WindowsInv
<1>1. ASSUME NEW w \in Windows, WindowCreated(w)
      PROVE  ServerInv' /\ \A x \in Windows : RestsOn(x)'
  <2>1. /\ Icons' = Icons /\ Handled' = Handled /\ Owned' = Owned
        /\ \A t, x : Queued(t, x)' <=> Queued(t, x)
    BY <1>0, <1>1, EventSteps DEF WindowCreated, tray, Icons, Handled, Owned
  <2>2. ServerInv'
    <3>1. /\ births \in Nat /\ births' = births + 1 /\ named'[w] = births'
          /\ \A x \in Windows : x # w => named'[x] = named[x]
          /\ \A x \in Windows : named[x] \in Nat
      BY <1>0, <1>1 DEF WindowCreated, TypeOK
    <3>2. \A x \in Handled : handlers'[x].life \in Nat /\ handlers'[x].life <= births
      BY <1>0, <1>1 DEF WindowCreated, WindowsInv, ServerInv, TypeOK, Handled, Handler, tray
    <3>3. \A x \in exists' : named'[x] # 0 /\ shows'[x] # NoImage
      BY <1>0, <1>1, <3>1 DEF WindowCreated, WindowsInv, ServerInv, TypeOK
    <3>4. QED
      BY <1>0, <1>1, <2>1, <3>1, <3>2, <3>3 DEF WindowCreated, WindowsInv, ServerInv
  <2>3. ASSUME NEW x \in Windows PROVE RestsOn(x)'
    <3>1. x # w => named'[x] = named[x]
      BY <1>0, <1>1 DEF WindowCreated, TypeOK
    <3>2. x = w /\ Backed(x) => Queued("destroy", x)
      BY <1>1 DEF WindowCreated, WindowsInv, ServerInv, Backed
    <3>3. QED
      BY <1>1, <2>1, <3>1, <3>2 DEF WindowCreated, WindowsInv, RestsOn, Backed, tray
  <2>4. QED
    BY <2>2, <2>3
<1>2. ASSUME NEW w \in Windows, WindowGoes(w)
      PROVE  ServerInv' /\ \A x \in Windows : RestsOn(x)'
  <2>1. /\ Icons' = Icons /\ Handled' = Handled /\ Owned' = Owned
        /\ \A x \in Handled : handlers'[x].life = handlers[x].life
    BY <1>2 DEF WindowGoes, tray, Icons, Handled, Owned
  <2>2. /\ \A x : Queued("destroy", x) => Queued("destroy", x)'
        /\ watch[w] # "none" => Queued("destroy", w)'
    BY <1>0, <1>2, EventSteps, XEventType DEF WindowGoes
  <2>3. ServerInv'
    BY <1>0, <1>2, <2>1 DEF WindowGoes, WindowsInv, ServerInv, TypeOK, tray
  <2>4. ASSUME NEW x \in Windows PROVE RestsOn(x)'
    <3>1. /\ Backed(x) => Backed(x)'
          /\ x = w /\ Backed(x) => Queued("destroy", x)'
      BY <1>0, <1>2, <2>2 DEF WindowGoes, Backed, TypeOK
    <3>2. x # w => (x \in shaped' <=> x \in shaped)
      BY <1>2 DEF WindowGoes
    <3>3. QED
      BY <1>2, <2>1, <2>2, <3>1, <3>2 DEF WindowGoes, WindowsInv, RestsOn, Owned, tray
  <2>5. QED
    BY <2>3, <2>4
<1>3. ASSUME NEW w \in Windows, AsksToDock(w) \/ PointerLeaves(w)
      PROVE  ServerInv' /\ \A x \in Windows : RestsOn(x)'
  <2>1. /\ \A x : Queued("destroy", x)' <=> Queued("destroy", x)
        /\ UNCHANGED <<server, tray>>
    BY <1>0, <1>3, EventSteps, XEventType, XEventFields DEF AsksToDock, PointerLeaves
  <2>2. QED
    BY <2>1 DEF WindowsInv, ServerInv, RestsOn, Backed, Icons, Handled, Owned, server, tray
<1>4. ASSUME NEW w \in Windows, Draws(w)
      PROVE  ServerInv' /\ \A x \in Windows : RestsOn(x)'
  <2>1. /\ Icons' = Icons /\ Handled' = Handled /\ Owned' = Owned
        /\ \A x \in Handled : handlers'[x].life = handlers[x].life
    BY <1>4 DEF Draws, tray, Icons, Handled, Owned
  <2>2. \A x : Queued("destroy", x)' <=> Queued("destroy", x)
    BY <1>0, <1>4, EventSteps, XEventType, XEventFields DEF Draws
  <2>3. \A x \in Windows : watch'[x] = "none" <=> watch[x] = "none"
    BY <1>0, <1>4 DEF Draws, TypeOK
  <2>4. ServerInv'
    BY <1>0, <1>4, <2>1, <2>3 DEF Draws, WindowsInv, ServerInv, TypeOK, tray
  <2>5. QED
    BY <1>4, <2>1, <2>2, <2>3, <2>4 DEF Draws, WindowsInv, RestsOn, Backed, Owned, tray
<1>5. ASSUME NEW w \in Windows, DockRequested(w)
      PROVE  ServerInv' /\ \A x \in Windows : RestsOn(x)'
  <2>1. \A x : Queued("destroy", x)' <=> Queued("destroy", x)
    BY <1>0, <1>5, EventSteps, XEventFields DEF DockRequested
  <2>2. \A x \in Windows : watch'[x] = watch[x] \/ (x \in exists /\ watch'[x] = "clean")
    BY <1>0, <1>5 DEF DockRequested, TypeOK
  <2>3. \A x \in Windows : /\ x \in Icons' => x \in Icons \/ watch'[x] = "clean"
                           /\ x \in Icons => x \in Icons' \/ x \notin exists
    <3>1. \A x \in Windows :
            LET i == Unregister(Icons \ exists)[x]
            IN  IF x \in Icons \ exists THEN i = NoIcon ELSE i = icons[x]
      BY DEF Unregister
    <3>2. CASE w \notin Icons \ (Icons \ exists) /\ Watchable(w)
      <4>1. PICK image \in Looks(w) : icons' = [Unregister(Icons \ exists) EXCEPT ![w] = image]
        BY <1>5, <3>2 DEF DockRequested
      <4>2. \A x \in Windows :
              icons'[x] = IF x = w THEN image ELSE Unregister(Icons \ exists)[x]
        BY <4>1 DEF Unregister
      <4>3. watch'[w] = "clean" /\ w \in exists
        BY <1>0, <1>5, <3>2 DEF DockRequested, Watchable, TypeOK
      <4>4. image # NoIcon
        BY <1>0 DEF Looks, TypeOK, Image
      <4>5. QED
        BY <3>1, <4>2, <4>3, <4>4 DEF Icons
    <3>3. CASE ~(w \notin Icons \ (Icons \ exists) /\ Watchable(w))
      <4>1. icons' = Unregister(Icons \ exists)
        BY <1>5, <3>3 DEF DockRequested
      <4>2. QED
        BY <3>1, <4>1 DEF Icons
    <3>4. QED
      BY <3>2, <3>3
  <2>4. Handled' = Handled /\ Owned' = Owned
    BY <1>5 DEF DockRequested, Handled, Owned
  <2>5. ServerInv'
    BY <1>5, <2>2, <2>4 DEF DockRequested, WindowsInv, ServerInv
  <2>6. ASSUME NEW x \in Windows PROVE RestsOn(x)'
    <3>1. Backed(x) => Backed(x)'
      BY <2>1, <2>2 DEF Backed
    <3>2. x \in Icons /\ x \notin exists => Queued("destroy", x)
      BY DEF WindowsInv, ServerInv, RestsOn, Backed
    <3>3. x \in Icons' => Backed(x)'
      <4>1. x \in Icons => Backed(x)'
        BY <3>1 DEF WindowsInv, RestsOn
      <4>2. watch'[x] = "clean" => Backed(x)'
        BY DEF Backed
      <4>3. QED
        BY <2>3, <4>1, <4>2
    <3>4. QED
      BY <1>5, <2>1, <2>3, <2>4, <3>1, <3>2, <3>3 DEF DockRequested, WindowsInv, RestsOn
  <2>7. QED
    BY <2>5, <2>6
<1>6. ASSUME NEW w \in Windows, DestroyNotified(w)
      PROVE  ServerInv' /\ \A x \in Windows : RestsOn(x)'
  <2>1. \A x : x # w => (Queued("destroy", x)' <=> Queued("destroy", x))
    BY <1>0, <1>6, EventSteps, XEventFields DEF DestroyNotified
  <2>2. \A x \in Windows : x \in Icons' <=> x \in Icons /\ x # w
    BY <1>6 DEF DestroyNotified, Unregister, Icons
  <2>3. /\ Handled' = Handled /\ w \notin Owned' /\ w \notin shapes'
        /\ \A x \in Handled : handlers'[x].life = handlers[x].life
        /\ \A x \in Windows : x # w => /\ x \in Owned' <=> x \in Owned
                                       /\ x \in shapes' <=> x \in shapes
    <3>1. CASE w \in Owned
      <4> DEFINE h == [handlers[w] EXCEPT !.owned = FALSE]
      <4>1. h \in Handler /\ ~h.owned /\ h.life = handlers[w].life /\ w \in Handled
        <5>1. handlers[w] \in Handler /\ w \in Handled
          BY <1>0, <3>1 DEF TypeOK, Owned, Handled
        <5>2. QED
          BY <5>1, HandlerParts DEF Handler
      <4>2. handlers' = [handlers EXCEPT ![w] = h] /\ shapes' = shapes \ {w}
        BY <1>6, <3>1 DEF DestroyNotified, Invalidate, RemoveRecord
      <4> HIDE DEF h
      <4>3. QED
        BY <1>0, <4>1, <4>2, OneHandler DEF Handled
    <3>2. CASE w \notin Owned
      BY <1>6, <3>2 DEF DestroyNotified, WindowsInv, RestsOn, Handled, Owned
    <3>3. QED
      BY <3>1, <3>2
  <2>4. ServerInv'
    BY <1>6, <2>3 DEF DestroyNotified, WindowsInv, ServerInv, server
  <2>5. QED
    BY <1>6, <2>1, <2>2, <2>3, <2>4 DEF DestroyNotified, WindowsInv, RestsOn, Backed, server, Owned
<1>7. ASSUME NEW w \in Windows, DamageNotified(w)
      PROVE  ServerInv' /\ \A x \in Windows : RestsOn(x)'
  <2>1. \A x : Queued("destroy", x)' <=> Queued("destroy", x)
    BY <1>0, <1>7, EventSteps, XEventFields DEF DamageNotified
  <2>2. /\ Icons' = Icons
        /\ \A x \in Windows : watch'[x] = "none" <=> watch[x] = "none"
    BY <1>0, <1>7, DamageParts
  <2>3. /\ Handled' = Handled /\ Owned' = Owned
        /\ \A x \in Handled : handlers'[x].life = handlers[x].life
    <3>1. CASE UNCHANGED handlers
      BY <3>1 DEF Handled, Owned
    <3>2. ASSUME w \in Handled, NEW b \in BOOLEAN,
                 handlers' = [handlers EXCEPT ![w] = [handlers[w] EXCEPT !.untold = b]]
          PROVE  /\ Handled' = Handled /\ Owned' = Owned
                 /\ \A x \in Handled : handlers'[x].life = handlers[x].life
      <4> DEFINE h == [handlers[w] EXCEPT !.untold = b]
      <4>0. handlers[w] \in Handler
        BY <1>0, <3>2 DEF TypeOK, Handled
      <4>1. h \in Handler /\ h.owned = handlers[w].owned /\ h.life = handlers[w].life
        BY <4>0 DEF Handler
      <4>2. handlers' = [handlers EXCEPT ![w] = h]
        BY <3>2
      <4> HIDE DEF h
      <4>3. QED
        BY <1>0, <3>2, <4>1, <4>2, OneHandler DEF Handled, Owned
    <3>3. QED
      BY <1>0, <1>7, <3>1, <3>2, DamageParts
  <2>4. ServerInv'
    BY <1>7, <2>2, <2>3 DEF DamageNotified, WindowsInv, ServerInv
  <2>5. QED
    BY <1>7, <2>1, <2>2, <2>3, <2>4 DEF DamageNotified, WindowsInv, RestsOn, Backed, Owned
<1>8. ASSUME NEW w \in Windows, LeaveNotified(w)
      PROVE  ServerInv' /\ \A x \in Windows : RestsOn(x)'
  <2>1. \A x : Queued("destroy", x)' <=> Queued("destroy", x)
    BY <1>0, <1>8, EventSteps, XEventFields DEF LeaveNotified
  <2>2. Icons' = Icons /\ Handled' = Handled /\ Owned' = Owned
    BY <1>8 DEF LeaveNotified, Icons, Handled, Owned
  <2>3. ServerInv'
    BY <1>8, <2>2 DEF LeaveNotified, WindowsInv, ServerInv
  <2>4. w \in Owned /\ w \notin exists => Queued("destroy", w)
    BY DEF WindowsInv, ServerInv, RestsOn, Backed
  <2>5. QED
    BY <1>8, <2>1, <2>2, <2>3, <2>4 DEF LeaveNotified, WindowsInv, RestsOn, Backed
<1>9. CASE Sweep
  <2>1. \A x : Queued("destroy", x)' <=> Queued("destroy", x)
    BY <1>0, <1>9, EventSteps DEF Sweep
  <2>2. \A x \in Windows :
          /\ x \in Handled' => handlers'[x] \in {handlers[x], NewHandler}
          /\ x \in Owned' => (x \in Owned /\ handlers'[x] = handlers[x])
                               \/ (x \in Icons /\ handlers'[x] = NewHandler)
          /\ x \in shapes' => x \in shapes /\ (x \in Owned => x \in Owned')
    BY <1>0, <1>9 DEF Sweep, RemoveRecord, Handled, Owned, TypeOK
  <2>3. NewHandler.life = 0
    BY DEF NewHandler
  <2>4. ServerInv'
    BY <1>0, <1>9, <2>2, <2>3 DEF Sweep, WindowsInv, ServerInv, server, TypeOK, Handled
  <2>5. Icons' = Icons
    BY <1>9 DEF Sweep, Icons
  <2>6. QED
    BY <1>9, <2>1, <2>2, <2>3, <2>4, <2>5 DEF Sweep, WindowsInv, RestsOn, Backed, server
<1>10. ASSUME NEW w \in Windows, MakesRoom(w)
      PROVE  ServerInv' /\ \A x \in Windows : RestsOn(x)'
  <2>1. \A x : Queued("destroy", x)' <=> Queued("destroy", x)
    BY <1>0, <1>10, EventSteps DEF MakesRoom
  <2>2. /\ w \notin Handled' /\ w \notin Owned' /\ w \notin shapes' /\ Icons' = Icons
        /\ \A x \in Windows : x # w => /\ x \in Handled' <=> x \in Handled
                                       /\ x \in Owned' <=> x \in Owned
                                       /\ x \in shapes' <=> x \in shapes
                                       /\ handlers'[x] = handlers[x]
    BY <1>0, <1>10 DEF MakesRoom, RemoveRecord, Handled, Owned, Icons, TypeOK
  <2>3. ServerInv'
    BY <1>0, <1>10, <2>2 DEF MakesRoom, WindowsInv, ServerInv, server, Handled
  <2>4. QED
    BY <1>10, <2>1, <2>2, <2>3 DEF MakesRoom, WindowsInv, RestsOn, Backed, server
<1>11. ASSUME NEW w \in Windows, XembedTrayIconChanged(w)
      PROVE  ServerInv' /\ \A x \in Windows : RestsOn(x)'
  <2>1. \A x : Queued("destroy", x)' <=> Queued("destroy", x)
    BY <1>0, <1>11, EventSteps DEF XembedTrayIconChanged
  <2>2. /\ Handled' = Handled /\ Owned' = Owned
        /\ \A x \in Handled : handlers'[x].life = handlers[x].life
    <3>1. CASE w \in Handled
      <4> DEFINE h == [handlers[w] EXCEPT !.due = @ \cup {"attention"}]
      <4>0. handlers[w] \in Handler
        BY <1>0, <3>1 DEF TypeOK, Handled
      <4>1. h \in Handler /\ h.owned = handlers[w].owned /\ h.life = handlers[w].life
        <5>1. h \in Handler
          BY <4>0, HandlerParts
        <5>2. QED
          BY <4>0, <5>1 DEF Handler
      <4>2. handlers' = [handlers EXCEPT ![w] = h]
        BY <1>11, <3>1 DEF XembedTrayIconChanged
      <4> HIDE DEF h
      <4>3. QED
        BY <1>0, <3>1, <4>1, <4>2, OneHandler DEF Handled, Owned
    <3>2. CASE w \notin Handled
      BY <1>11, <3>2 DEF XembedTrayIconChanged, Handled, Owned
    <3>3. QED
      BY <3>1, <3>2
  <2>3. Icons' = Icons
    BY <1>11 DEF XembedTrayIconChanged, Icons
  <2>4. ServerInv'
    BY <1>11, <2>2 DEF XembedTrayIconChanged, WindowsInv, ServerInv, server
  <2>5. QED
    BY <1>11, <2>1, <2>2, <2>3, <2>4
       DEF XembedTrayIconChanged, WindowsInv, RestsOn, Backed, server, Owned
<1>12. ASSUME NEW w \in Windows, InitX11resources(w)
      PROVE  ServerInv' /\ \A x \in Windows : RestsOn(x)'
  <2> DEFINE h == [Then(handlers[w], "init", {"first"}) EXCEPT !.life = named[w]]
  <2>1. Fires(w, "init", {"first"}) /\ handlers' = [handlers EXCEPT ![w] = h]
    BY <1>12 DEF InitX11resources
  <2>2. h \in Handler /\ h.owned = handlers[w].owned /\ h.life = named[w]
    <3>1. handlers[w] \in Handler
      BY <1>0, <2>1 DEF Fires, TypeOK, Handled
    <3>2. h \in Handler
      BY <1>0, <3>1, HandlerParts DEF TypeOK
    <3>3. QED
      BY <3>1, <3>2 DEF Then, Handler
  <2> HIDE DEF h
  <2>3. QED
    BY <2>1, <2>2, TimerSteps
<1>13. ASSUME NEW w \in Windows, AttentionTimeout(w)
      PROVE  ServerInv' /\ \A x \in Windows : RestsOn(x)'
  <2> DEFINE h == Then(handlers[w], "attention", {"update"})
  <2>1. Fires(w, "attention", {"update"}) /\ handlers' = [handlers EXCEPT ![w] = h]
    BY <1>13 DEF AttentionTimeout
  <2>2. h \in Handler /\ h.owned = handlers[w].owned /\ h.life = handlers[w].life
    <3>1. handlers[w] \in Handler
      BY <1>0, <2>1 DEF Fires, TypeOK, Handled
    <3>2. h \in Handler
      BY <1>0, <3>1, HandlerParts DEF TypeOK
    <3>3. QED
      BY <3>1, <3>2 DEF Then, Handler
  <2> HIDE DEF h
  <2>3. QED
    BY <2>1, <2>2, TimerSteps
<1>14. ASSUME NEW w \in Windows, IconTimeout(w)
      PROVE  ServerInv' /\ \A x \in Windows : RestsOn(x)'
  <2>1. PICK due \in {"first", "update"}, image \in Looks(w) :
          /\ Fires(w, due, {})
          /\ handlers' = [handlers EXCEPT ![w] = [Then(@, due, {}) EXCEPT !.icon = image,
                                                                 !.untold = FALSE]]
    BY <1>14 DEF IconTimeout
  <2> DEFINE h == [Then(handlers[w], due, {}) EXCEPT !.icon = image, !.untold = FALSE]
  <2>2. h \in Handler /\ h.owned = handlers[w].owned /\ h.life = handlers[w].life
    <3>1. handlers[w] \in Handler
      BY <1>0, <2>1 DEF Fires, TypeOK, Handled
    <3>2. h \in Handler
      BY <1>0, <3>1, HandlerParts DEF TypeOK, Looks, Image
    <3>3. QED
      BY <3>1, <3>2 DEF Then, Handler
  <2>3. handlers' = [handlers EXCEPT ![w] = h]
    BY <2>1
  <2> HIDE DEF h
  <2>4. QED
    BY <2>1, <2>2, <2>3, TimerSteps
<1>15. ASSUME NEW w \in Windows, NEW enabled \in BOOLEAN, EnableNotification(w, enabled)
       PROVE  ServerInv' /\ \A x \in Windows : RestsOn(x)'
  <2>1. \A x : Queued("destroy", x)' <=> Queued("destroy", x)
    BY <1>0, <1>15, EventSteps DEF EnableNotification
  <2>2. QED
    BY <1>15, <2>1 DEF EnableNotification, WindowsInv, ServerInv, RestsOn, Backed, Icons,
                       Handled, Owned, server
<1>16. CASE UNCHANGED vars
  BY <1>16 DEF vars, server, tray, WindowsInv, ServerInv, RestsOn, Backed, Queued, XEvent,
               Icons, Handled, Owned
<1>17. QED
  BY <1>1, <1>2, <1>3, <1>4, <1>5, <1>6, <1>7, <1>8, <1>9, <1>10, <1>11, <1>12, <1>13,
     <1>14, <1>15, <1>16
     DEF Next, Client, EventFiltered, TimerFires, SignalHandled

LEMMA InvStart ==
  ASSUME Init
  PROVE  WindowsInv
<1>1. TypeOK
  BY LimitAssumption DEF Init, TypeOK, Image
<1>2. Icons = {} /\ Handled = {} /\ Owned = {}
  BY DEF Init, Icons, Handled, Owned
<1>3. QED
  BY <1>1, <1>2 DEF Init, WindowsInv, ServerInv, RestsOn

LEMMA InvHolds == Spec => []WindowsInv
<1>1. Init => WindowsInv
  BY InvStart
<1>2. WindowsInv /\ [Next]_vars => WindowsInv'
  BY TypeStep, InvStep DEF WindowsInv
<1>3. QED
  BY <1>1, <1>2, PTL DEF Spec

------------------------------------------------------------------------------
(* Images *)

\* A step that touches nothing of x leaves the way of its image open.
LEMMA Unmoved ==
  ASSUME NEW x, DamageComes(x), ImageComes(x), UNCHANGED <<shows[x], watch[x], named[x]>>,
         x \in exists' => x \in exists,
         x \in Icons' => x \in Icons,
         x \in Owned' => x \in Owned /\ x \in Handled /\ handlers'[x] = handlers[x],
         Queued("destroy", x) => Queued("destroy", x)',
         Queued("damage", x) => Queued("damage", x)',
         x \in changed => x \in changed'
  PROVE  DamageComes(x)' /\ ImageComes(x)'
BY DEF DamageComes, ImageComes, Embedded, OnItsWay

LEMMA FreshStep ==
  ASSUME FreshInv, [Next]_vars
  PROVE  \A x \in Windows : DamageComes(x)' /\ ImageComes(x)'
<1> USE NullAssumption
<1>0. /\ TypeOK /\ TypeOK' /\ WindowsInv /\ ServerInv /\ ServerInv'
      /\ \A x \in Windows : DamageComes(x) /\ ImageComes(x)
  BY TypeStep, InvStep DEF FreshInv, WindowsInv
<1>a. ASSUME NEW x \in Windows
      PROVE  /\ x \in Owned => Backed(x) /\ (x \in Icons \/ Queued("destroy", x))
             /\ x \notin exists => watch[x] = "none"
             /\ x \in exists => shows[x] # NoImage
  BY <1>0 DEF WindowsInv, RestsOn, ServerInv
<1>1. ASSUME NEW w \in Windows, WindowCreated(w), NEW x \in Windows
      PROVE  DamageComes(x)' /\ ImageComes(x)'
  <2>1. /\ Icons' = Icons /\ Handled' = Handled /\ Owned' = Owned
        /\ \A t : Queued(t, x)' <=> Queued(t, x)
    BY <1>0, <1>1, EventSteps DEF WindowCreated, tray, Icons, Handled, Owned
  <2>2. CASE x = w
    <3>1. watch'[x] = "none" /\ (x \in Owned' => Queued("destroy", x)')
      BY <1>1, <1>a, <2>1, <2>2 DEF WindowCreated, Backed
    <3>2. QED
      BY <3>1 DEF DamageComes, ImageComes
  <2>3. CASE x # w
    <3>1. /\ UNCHANGED <<shows[x], watch[x], named[x], handlers, changed>>
          /\ x \in exists' => x \in exists
      BY <1>0, <1>1, <2>3 DEF WindowCreated, TypeOK, tray
    <3>2. QED
      BY <1>0, <2>1, <3>1, Unmoved DEF Owned
  <2>4. QED
    BY <2>2, <2>3
<1>2. ASSUME NEW w \in Windows, WindowGoes(w), NEW x \in Windows
      PROVE  DamageComes(x)' /\ ImageComes(x)'
  <2>1. CASE x = w
    <3>1. x \notin exists' /\ watch'[x] = "none"
      BY <1>0, <1>2, <2>1 DEF WindowGoes, TypeOK
    <3>2. QED
      BY <3>1 DEF DamageComes, ImageComes, Embedded
  <2>2. CASE x # w
    <3>1. /\ Icons' = Icons /\ Owned' = Owned
          /\ handlers' = handlers
      BY <1>2 DEF WindowGoes, tray, Icons, Handled, Owned
    <3>2. \A t : Queued(t, x) => Queued(t, x)'
      BY <1>0, <1>2, EventSteps, XEventType DEF WindowGoes
    <3>3. UNCHANGED <<shows[x], watch[x], named[x], changed>> /\ (x \in exists' => x \in exists)
      BY <1>0, <1>2, <2>2 DEF WindowGoes, TypeOK, tray
    <3>4. QED
      BY <1>0, <3>1, <3>2, <3>3, Unmoved DEF Owned
  <2>3. QED
    BY <2>1, <2>2
<1>3. ASSUME NEW w \in Windows, AsksToDock(w) \/ PointerLeaves(w), NEW x \in Windows
      PROVE  DamageComes(x)' /\ ImageComes(x)'
  <2>1. (\A t : Queued(t, x) => Queued(t, x)') /\ UNCHANGED <<server, tray>>
    BY <1>0, <1>3, EventSteps, XEventType DEF AsksToDock, PointerLeaves
  <2>2. QED
    BY <1>0, <2>1, Unmoved DEF Icons, Handled, Owned, server, tray
<1>4. ASSUME NEW w \in Windows, Draws(w), NEW x \in Windows
      PROVE  DamageComes(x)' /\ ImageComes(x)'
  <2>1. /\ Icons' = Icons /\ Handled' = Handled /\ Owned' = Owned
        /\ UNCHANGED <<handlers, changed>>
    BY <1>4 DEF Draws, tray, Icons, Handled, Owned
  <2>2. \A t : Queued(t, x) => Queued(t, x)'
    BY <1>0, <1>4, EventSteps, XEventType DEF Draws
  <2>3. CASE x = w
    <3>1. watch[x] = "clean" => Queued("damage", x)'
      BY <1>0, <1>4, <2>3, EventSteps, XEventType DEF Draws
    <3>2. x \in Icons /\ watch[x] # "none" => Queued("damage", x)'
      BY <1>0, <2>2, <3>1 DEF DamageComes, TypeOK
    <3>3. watch'[x] = "damaged" => watch[x] # "none"
      BY <1>0, <1>4, <2>3 DEF Draws, TypeOK
    <3>4. x \in Owned' /\ ~Queued("destroy", x)' => Queued("damage", x)'
      BY <1>a, <2>1, <2>2, <3>2 DEF Backed
    <3>5. QED
      BY <2>1, <2>3, <3>2, <3>3, <3>4 DEF DamageComes, ImageComes
  <2>4. CASE x # w
    <3>1. UNCHANGED <<shows[x], watch[x], named[x], exists>>
      BY <1>0, <1>4, <2>4 DEF Draws, TypeOK
    <3>2. QED
      BY <1>0, <2>1, <2>2, <2>4, <3>1, Unmoved DEF Owned
  <2>5. QED
    BY <2>3, <2>4
<1>5. ASSUME NEW w \in Windows, DockRequested(w), NEW x \in Windows
      PROVE  DamageComes(x)' /\ ImageComes(x)'
  <2>1. \A t : t # "dock" => (Queued(t, x)' <=> Queued(t, x))
    BY <1>0, <1>5, EventSteps, XEventFields DEF DockRequested
  <2>2. Owned' = Owned /\ UNCHANGED <<handlers, exists, named, shows, changed>>
    BY <1>5 DEF DockRequested, Owned, Handled
  <2>3. CASE x = w /\ x \notin Icons \ (Icons \ exists)
    <3>1. watch'[x] = "none" \/ watch'[x] = "clean"
      BY <1>0, <1>5, <1>a, <2>3 DEF DockRequested, Watchable, TypeOK
    <3>2. x \in Owned => x \notin exists \/ Queued("destroy", x)
      BY <1>a, <2>3
    <3>3. QED
      BY <2>1, <2>2, <3>1, <3>2 DEF DamageComes, ImageComes, Embedded
  <2>4. CASE x \notin exists
    <3>1. watch'[x] = "none"
      BY <1>0, <1>5, <1>a, <2>4 DEF DockRequested, TypeOK
    <3>2. QED
      BY <2>2, <2>4, <3>1 DEF DamageComes, ImageComes, Embedded
  <2>5. CASE x \in exists /\ ~(x = w /\ x \notin Icons \ (Icons \ exists))
    <3>1. UNCHANGED <<icons[x], watch[x]>>
      BY <1>0, <1>5, <2>5 DEF DockRequested, Unregister, TypeOK
    <3>2. x \in Icons' => x \in Icons
      BY <3>1 DEF Icons
    <3>3. QED
      BY <1>0, <2>1, <2>2, <3>1, <3>2, Unmoved DEF Owned
  <2>6. QED
    BY <2>3, <2>4, <2>5
<1>6. ASSUME NEW w \in Windows, DestroyNotified(w), NEW x \in Windows
      PROVE  DamageComes(x)' /\ ImageComes(x)'
  <2>1. CASE x = w
    <3>1. x \notin Icons'
      BY <1>6, <2>1 DEF DestroyNotified, Unregister, Icons
    <3>2. x \notin Owned'
      BY <1>0, <1>6, <2>1 DEF DestroyNotified, Invalidate, Owned, Handled, TypeOK, Handler
    <3>3. QED
      BY <3>1, <3>2 DEF DamageComes, ImageComes
  <2>2. CASE x # w
    <3>1. \A t : Queued(t, x) => Queued(t, x)'
      BY <1>0, <1>6, <2>2, EventSteps, XEventFields DEF DestroyNotified
    <3>2. icons'[x] = icons[x] /\ handlers'[x] = handlers[x]
      BY <1>0, <1>6, <2>2 DEF DestroyNotified, Unregister, Invalidate, TypeOK
    <3>3. /\ x \in Icons' => x \in Icons
          /\ x \in Owned' => x \in Owned /\ x \in Handled
      BY <3>2 DEF Icons, Owned, Handled
    <3>4. QED
      BY <1>0, <1>6, <3>1, <3>2, <3>3, Unmoved DEF DestroyNotified, server
  <2>3. QED
    BY <2>1, <2>2
<1>7. ASSUME NEW w \in Windows, DamageNotified(w), NEW x \in Windows
      PROVE  DamageComes(x)' /\ ImageComes(x)'
  <2>1. PICK image \in Looks(w) :
          /\ handlers' = IF w \in Handled
               THEN [handlers EXCEPT ![w].untold = LeftBehind(w, image)] ELSE handlers
          /\ \/ NewsFor(w, image) /\ changed' = changed \cup {w}
             \/ ~NewsFor(w, image) /\ UNCHANGED changed
    BY <1>7 DEF DamageNotified
  <2>2. /\ UNCHANGED <<exists, named, shows>> /\ changed \subseteq changed'
        /\ \A t : t # "damage" => (Queued(t, x)' <=> Queued(t, x))
    BY <1>0, <1>7, <2>1, EventSteps, XEventFields DEF DamageNotified
  <2>3. Icons' = Icons /\ watch'[x] = SubtractDamage(w)[x]
    BY <1>0, <1>7, DamageParts DEF DamageNotified
  <2>4. CASE x = w
    <3>1. x \in Icons' => watch'[x] # "damaged"
      BY <1>0, <2>3, <2>4 DEF SubtractDamage, TypeOK
    <3>2. x \in Handled => /\ handlers[x] \in Handler
                           /\ handlers'[x] = [handlers[x] EXCEPT !.untold = LeftBehind(w, image)]
      BY <1>0, <2>1, <2>4 DEF TypeOK, Handled
    <3>3. x \in Owned' => x \in Owned /\ x \in Handled
      <4>1. x \notin Handled => handlers' = handlers
        BY <2>1, <2>4
      <4>2. x \in Handled => handlers'[x].owned = handlers[x].owned
        BY <3>2 DEF Handler
      <4>3. QED
        BY <4>1, <4>2 DEF Owned, Handled
    <3>4. x \in Handled => /\ handlers'[x].life = handlers[x].life
                           /\ handlers'[x].icon = handlers[x].icon
                           /\ handlers'[x].untold = LeftBehind(w, image)
      BY <3>2 DEF Handler
    <3>5. ASSUME x \in Owned', Embedded(x)', ~Queued("destroy", x)'
          PROVE  handlers'[x].icon = shows'[x] \/ handlers'[x].untold \/ OnItsWay(x)'
      <4>1. /\ x \in Owned /\ x \in Handled /\ Embedded(x) /\ x \in Icons
            /\ shows[x] # NoImage
        BY <1>a, <2>2, <3>3, <3>4, <3>5 DEF Embedded
      <4>2. image = shows[x]
        BY <2>4, <4>1 DEF Looks
      <4>3. CASE NewsFor(w, image)
        BY <2>1, <2>4, <4>3 DEF OnItsWay
      <4>4. CASE ~NewsFor(w, image)
        BY <2>2, <2>4, <3>4, <4>1, <4>2, <4>4 DEF NewsFor, LeftBehind
      <4>5. QED
        BY <4>3, <4>4
    <3>6. QED
      BY <3>1, <3>5 DEF DamageComes, ImageComes
  <2>5. CASE x # w
    <3>1. UNCHANGED <<shows[x], watch[x], named[x], handlers[x]>>
      BY <1>0, <2>1, <2>2, <2>3, <2>5 DEF SubtractDamage, TypeOK
    <3>2. Queued("damage", x) => Queued("damage", x)'
      BY <1>0, <1>7, <2>5, EventSteps, XEventFields DEF DamageNotified
    <3>3. x \in Owned' => x \in Owned /\ x \in Handled
      BY <3>1 DEF Owned, Handled
    <3>4. QED
      BY <1>0, <2>2, <2>3, <3>1, <3>2, <3>3, Unmoved
  <2>6. QED
    BY <2>4, <2>5
<1>8. ASSUME NEW w \in Windows, LeaveNotified(w), NEW x \in Windows
      PROVE  DamageComes(x)' /\ ImageComes(x)'
  <2>1. \A t : t # "leave" => (Queued(t, x)' <=> Queued(t, x))
    BY <1>0, <1>8, EventSteps, XEventFields DEF LeaveNotified
  <2>2. Icons' = Icons /\ Handled' = Handled /\ Owned' = Owned
    BY <1>8 DEF LeaveNotified, Icons, Handled, Owned
  <2>3. QED
    BY <1>0, <1>8, <2>1, <2>2, Unmoved DEF LeaveNotified, Owned
<1>9. CASE Sweep
  <2> SUFFICES ASSUME NEW x \in Windows PROVE DamageComes(x)' /\ ImageComes(x)'
    OBVIOUS
  <2>1. \A t : Queued(t, x)' <=> Queued(t, x)
    BY <1>0, <1>9, EventSteps DEF Sweep
  <2>2. Icons' = Icons /\ UNCHANGED <<server, icons, changed>>
    BY <1>9 DEF Sweep, Icons
  <2>3. CASE x \in Handled /\ handlers'[x] = handlers[x]
    BY <1>0, <2>1, <2>2, <2>3, Unmoved DEF server, Owned, Handled
  <2>4. CASE handlers'[x] = NewHandler
    <3>1. ~Embedded(x)'
      BY <1>0, <2>2, <2>4 DEF Embedded, NewHandler, ServerInv, server
    <3>2. QED
      BY <1>0, <2>1, <2>2, <3>1 DEF DamageComes, ImageComes, server
  <2>5. CASE x \notin Handled'
    BY <1>0, <2>1, <2>2, <2>5 DEF DamageComes, ImageComes, Owned, server
  <2>6. x \notin Handled' \/ handlers'[x] = NewHandler \/ (x \in Handled /\ handlers'[x] = handlers[x])
    BY <1>0, <1>9 DEF Sweep, Handled, TypeOK
  <2>7. QED
    BY <2>3, <2>4, <2>5, <2>6
<1>10. ASSUME NEW w \in Windows, MakesRoom(w), NEW x \in Windows
      PROVE  DamageComes(x)' /\ ImageComes(x)'
  <2>1. \A t : Queued(t, x)' <=> Queued(t, x)
    BY <1>0, <1>10, EventSteps DEF MakesRoom
  <2>2. Icons' = Icons /\ UNCHANGED <<server, icons, changed>>
    BY <1>10 DEF MakesRoom, Icons
  <2>3. x \in Owned' => x \in Owned /\ x \in Handled /\ handlers'[x] = handlers[x]
    BY <1>0, <1>10 DEF MakesRoom, Owned, Handled, TypeOK
  <2>4. QED
    BY <1>0, <2>1, <2>2, <2>3, Unmoved DEF server
<1>11. ASSUME NEW w \in Windows, XembedTrayIconChanged(w), NEW x \in Windows
      PROVE  DamageComes(x)' /\ ImageComes(x)'
  <2>1. \A t : Queued(t, x)' <=> Queued(t, x)
    BY <1>0, <1>11, EventSteps DEF XembedTrayIconChanged
  <2>2. Icons' = Icons /\ UNCHANGED <<server, icons>>
    BY <1>11 DEF XembedTrayIconChanged, Icons
  <2>3. CASE x = w
    <3>1. DamageComes(x)'
      BY <1>0, <2>1, <2>2 DEF DamageComes, server
    <3>2. x \in Handled => OnItsWay(x)'
      <4>1. x \in Handled => handlers[x] \in Handler
        BY <1>0 DEF TypeOK, Handled
      <4>2. x \in Handled => "attention" \in handlers'[x].due
        BY <1>0, <1>11, <2>3, <4>1 DEF XembedTrayIconChanged, TypeOK, Handler
      <4>3. QED
        BY <4>2 DEF OnItsWay
    <3>3. x \in Owned' => x \in Handled
      BY <1>11, <2>3 DEF XembedTrayIconChanged, Owned, Handled
    <3>4. QED
      BY <3>1, <3>2, <3>3 DEF ImageComes
  <2>4. CASE x # w
    <3>1. handlers'[x] = handlers[x] /\ (x \in changed => x \in changed')
      BY <1>0, <1>11, <2>4 DEF XembedTrayIconChanged, TypeOK
    <3>2. x \in Owned' => x \in Owned /\ x \in Handled
      BY <3>1 DEF Owned, Handled
    <3>3. QED
      BY <1>0, <2>1, <2>2, <3>1, <3>2, Unmoved DEF server
  <2>5. QED
    BY <2>3, <2>4
<1>12. ASSUME NEW w \in Windows, NEW x \in Windows,
              InitX11resources(w) \/ AttentionTimeout(w) \/ IconTimeout(w)
       PROVE  DamageComes(x)' /\ ImageComes(x)'
  <2>1. UNCHANGED <<server, events, icons, changed>> /\ w \in Handled
    BY <1>12 DEF InitX11resources, AttentionTimeout, IconTimeout, Fires
  <2>2. (\A t : Queued(t, x)' <=> Queued(t, x)) /\ Icons' = Icons
    BY <1>0, <2>1, EventSteps DEF Icons
  <2>3. DamageComes(x)'
    BY <1>0, <2>1, <2>2 DEF DamageComes, server
  <2>4. handlers[w] \in Handler
    BY <1>0, <2>1 DEF TypeOK, Handled
  <2>5. CASE x = w /\ InitX11resources(w)
    <3>1. "first" \in handlers'[x].due
      BY <1>0, <2>4, <2>5 DEF InitX11resources, Then, TypeOK, Handler
    <3>2. QED
      BY <2>3, <3>1 DEF ImageComes, OnItsWay
  <2>6. CASE x = w /\ AttentionTimeout(w)
    <3>1. "update" \in handlers'[x].due
      BY <1>0, <2>4, <2>6 DEF AttentionTimeout, Then, TypeOK, Handler
    <3>2. QED
      BY <2>3, <3>1 DEF ImageComes, OnItsWay
  <2>7. CASE x = w /\ IconTimeout(w)
    <3>1. PICK due \in {"first", "update"}, image \in Looks(w) :
            handlers' = [handlers EXCEPT ![w] = [Then(@, due, {}) EXCEPT !.icon = image,
                                                                 !.untold = FALSE]]
      BY <2>7 DEF IconTimeout
    <3>2. handlers'[x].icon = image /\ handlers'[x].life = handlers[x].life
      BY <1>0, <2>4, <2>7, <3>1 DEF Then, TypeOK, Handler
    <3>3. Embedded(x)' => Embedded(x)
      BY <2>1, <2>7, <3>2 DEF Embedded, server
    <3>4. Embedded(x)' => handlers'[x].icon = shows'[x]
      BY <2>1, <2>7, <3>2, <3>3 DEF Looks, server
    <3>5. QED
      BY <2>3, <3>4 DEF ImageComes
  <2>8. CASE x # w
    <3>1. handlers'[x] = handlers[x]
      BY <1>0, <1>12, <2>8 DEF InitX11resources, AttentionTimeout, IconTimeout, TypeOK
    <3>2. x \in Owned' => x \in Owned /\ x \in Handled
      BY <3>1 DEF Owned, Handled
    <3>3. QED
      BY <1>0, <2>1, <2>2, <3>1, <3>2, Unmoved DEF server
  <2>9. QED
    BY <1>12, <2>5, <2>6, <2>7, <2>8
<1>13. ASSUME NEW w \in Windows, NEW enabled \in BOOLEAN, EnableNotification(w, enabled),
              NEW x \in Windows
       PROVE  DamageComes(x)' /\ ImageComes(x)'
  <2>1. \A t : Queued(t, x)' <=> Queued(t, x)
    BY <1>0, <1>13, EventSteps DEF EnableNotification
  <2>2. QED
    BY <1>0, <1>13, <2>1, Unmoved DEF EnableNotification, Icons, Handled, Owned, server
<1>14. CASE UNCHANGED vars
  BY <1>0, <1>14 DEF vars, server, tray, DamageComes, ImageComes, Embedded, OnItsWay, Queued,
                     XEvent, Icons, Handled, Owned
<1>15. QED
  BY <1>1, <1>2, <1>3, <1>4, <1>5, <1>6, <1>7, <1>8, <1>9, <1>10, <1>11, <1>12, <1>13,
     <1>14
     DEF Next, Client, EventFiltered, TimerFires, SignalHandled

------------------------------------------------------------------------------
(* Ghosts *)

\* A timer is running as long as a handler has lost its icon.
SweepComes == \A w \in Handled \ Icons : sweeps > 0

\* An icon goes only in a step that starts a timer.
LEMMA GoneCounted ==
  ASSUME TypeOK, NEW w \in Windows, DockRequested(w), NEW x \in Icons, x \notin Icons'
  PROVE  sweeps' > 0
<1> DEFINE gone == Icons \ exists
<1>1. gone \subseteq Windows /\ IsFiniteSet(gone) /\ Cardinality(gone) \in Nat
  BY FS_Subset, FS_CardinalityType, LimitAssumption DEF Icons
<1>2. x \in gone
  <2>1. icons' = Unregister(gone) \/ \E i \in Image : icons' = [Unregister(gone) EXCEPT ![w] = i]
    <3>1. Looks(w) \subseteq Image
      BY DEF Looks, TypeOK, Image
    <3>2. QED
      BY <3>1 DEF DockRequested
  <2>2. x \in Windows /\ icons[x] # NoIcon /\ icons'[x] = NoIcon
    BY DEF Icons
  <2>3. QED
    BY <2>1, <2>2, NullAssumption DEF Unregister
<1>3. Cardinality(gone) # 0
  BY <1>1, <1>2, FS_EmptySet
<1>4. sweeps' \in {sweeps + Cardinality(gone) + 1, sweeps + Cardinality(gone) + 0}
  BY DEF DockRequested
<1>5. QED
  BY <1>1, <1>3, <1>4 DEF TypeOK

LEMMA SweepStep ==
  ASSUME WindowsInv, SweepComes, [Next]_vars
  PROVE  SweepComes'
<1>0. TypeOK /\ TypeOK' /\ sweeps \in Nat /\ sweeps' \in Nat
  BY TypeStep DEF WindowsInv, TypeOK
<1>1. ASSUME Handled' \ Icons' \subseteq Handled \ Icons, sweeps' >= sweeps PROVE SweepComes'
  BY <1>0, <1>1 DEF SweepComes
<1>2. ASSUME NEW w \in Windows, WindowCreated(w) \/ AsksToDock(w) \/ PointerLeaves(w)
      PROVE  SweepComes'
  BY <1>0, <1>1, <1>2 DEF WindowCreated, AsksToDock, PointerLeaves, tray, Handled, Icons
<1>3. ASSUME NEW w \in Windows, WindowGoes(w) \/ Draws(w) PROVE SweepComes'
  BY <1>0, <1>1, <1>3 DEF WindowGoes, Draws, tray, Handled, Icons
<1>4. ASSUME NEW w \in Windows, DockRequested(w) PROVE SweepComes'
  <2>1. Handled' = Handled /\ sweeps' >= sweeps
    <3>1. Cardinality(Icons \ exists) \in Nat
      BY FS_Subset, FS_CardinalityType, LimitAssumption DEF Icons
    <3>2. QED
      BY <1>0, <1>4, <3>1 DEF DockRequested, Handled
  <2>2. CASE \E x \in Icons : x \notin Icons'
    BY <1>0, <1>4, <2>2, GoneCounted DEF SweepComes
  <2>3. CASE Icons \subseteq Icons'
    BY <1>1, <2>1, <2>3
  <2>4. QED
    BY <2>2, <2>3
<1>5. ASSUME NEW w \in Windows, DestroyNotified(w) PROVE SweepComes'
  <2>1. Icons' = Icons \ {w} /\ Handled' = Handled
    <3>1. Icons' = Icons \ {w}
      BY <1>0, <1>5 DEF DestroyNotified, Unregister, Icons
    <3>2. CASE w \in Owned
      <4>1. [handlers[w] EXCEPT !.owned = FALSE] \in Handler /\ w \in Handled
        BY <1>0, <3>2, HandlerParts DEF TypeOK, Owned, Handled
      <4>2. handlers' = [handlers EXCEPT ![w] = [handlers[w] EXCEPT !.owned = FALSE]]
        BY <1>5, <3>2 DEF DestroyNotified, Invalidate
      <4>3. QED
        BY <1>0, <3>1, <4>1, <4>2, OneHandler
    <3>3. CASE w \notin Owned
      BY <1>5, <3>1, <3>3 DEF DestroyNotified, Handled
    <3>4. QED
      BY <3>2, <3>3
  <2>2. CASE w \in Icons
    BY <1>0, <1>5, <2>2 DEF DestroyNotified, SweepComes
  <2>3. CASE w \notin Icons
    BY <1>0, <1>1, <1>5, <2>1, <2>3 DEF DestroyNotified
  <2>4. QED
    BY <2>2, <2>3
<1>6. ASSUME NEW w \in Windows, DamageNotified(w) PROVE SweepComes'
  <2>1. Handled' \subseteq Handled /\ Icons' = Icons /\ sweeps' = sweeps
    <3>1. Handled' \subseteq Handled
      BY <1>0, <1>6, DamageParts DEF Handled, TypeOK
    <3>2. QED
      BY <1>0, <1>6, <3>1, DamageParts DEF DamageNotified
  <2>2. QED
    BY <1>0, <1>1, <2>1
<1>7. ASSUME NEW w \in Windows, LeaveNotified(w) PROVE SweepComes'
  BY <1>0, <1>1, <1>7 DEF LeaveNotified, Handled, Icons
<1>8. CASE Sweep
  <2>1. Icons' = Icons
    BY <1>8 DEF Sweep, Icons
  <2>2. CASE Same(Icons, Handled) /\ UNCHANGED handlers
    BY <2>1, <2>2 DEF Same, Handled, SweepComes
  <2>3. CASE ~Same(Icons, Handled)
    <3>1. PICK new \in SUBSET (Icons \ Handled) :
            handlers' = [w \in Windows |->
              IF w \in new THEN NewHandler
              ELSE IF w \in Handled \ Icons THEN NoHandler ELSE handlers[w]]
      BY <1>8, <2>3 DEF Sweep
    <3>2. Handled' \subseteq Icons
      BY <3>1 DEF Handled
    <3>3. QED
      BY <2>1, <3>2 DEF SweepComes
  <2>4. QED
    BY <1>8, <2>2, <2>3 DEF Sweep
<1>9. ASSUME NEW w \in Windows, MakesRoom(w) PROVE SweepComes'
  <2>1. Icons' = Icons /\ Handled' \subseteq Handled
    BY <1>0, <1>9 DEF MakesRoom, Icons, Handled, TypeOK
  <2>2. QED
    BY <1>0, <1>1, <1>9, <2>1 DEF MakesRoom
<1>10. ASSUME NEW w \in Windows, UNCHANGED <<icons, sweeps>>, w \in Handled,
              NEW h, handlers' = [handlers EXCEPT ![w] = h]
       PROVE  SweepComes'
  <2>1. Icons' = Icons /\ Handled' \subseteq Handled
    BY <1>0, <1>10 DEF Icons, Handled, TypeOK
  <2>2. QED
    BY <1>0, <1>1, <1>10, <2>1
<1>11. ASSUME NEW w \in Windows, XembedTrayIconChanged(w) PROVE SweepComes'
  <2>1. CASE w \in Handled
    BY <1>10, <1>11, <2>1 DEF XembedTrayIconChanged
  <2>2. CASE w \notin Handled
    BY <1>0, <1>1, <1>11, <2>2 DEF XembedTrayIconChanged, Icons, Handled
  <2>3. QED
    BY <2>1, <2>2
<1>12. ASSUME NEW w \in Windows, InitX11resources(w) \/ AttentionTimeout(w) \/ IconTimeout(w)
       PROVE  SweepComes'
  BY <1>10, <1>12 DEF InitX11resources, AttentionTimeout, IconTimeout, Fires
<1>13. ASSUME NEW w \in Windows, NEW enabled \in BOOLEAN, EnableNotification(w, enabled)
       PROVE  SweepComes'
  BY <1>0, <1>1, <1>13 DEF EnableNotification, Icons, Handled
<1>14. CASE UNCHANGED vars
  BY <1>0, <1>1, <1>14 DEF vars, tray, Icons, Handled
<1>15. QED
  BY <1>2, <1>3, <1>4, <1>5, <1>6, <1>7, <1>8, <1>9, <1>11, <1>12, <1>13,
     <1>14
     DEF Next, Client, EventFiltered, TimerFires, SignalHandled

------------------------------------------------------------------------------
(* Theorems *)

\* The state keeps its shape.
THEOREM TypeCorrect == Spec => []TypeOK
<1>1. WindowsInv => TypeOK
  BY DEF WindowsInv
<1>2. QED
  BY <1>1, InvHolds, PTL

\* addDamageWatch() and the destroy event between them leave no icon behind,
\* whenever a window goes while it docks.
THEOREM IconsBacked == Spec => []IconBacked
<1>1. WindowsInv => IconBacked
  BY DEF WindowsInv, RestsOn, IconBacked, Icons
<1>2. QED
  BY <1>1, InvHolds, PTL

\* No handler claims a window that took the id of its own.
THEOREM OwnershipCurrent == Spec => []OwnedIsCurrent
<1>1. ASSUME WindowsInv, NEW w \in Owned
      PROVE  Queued("destroy", w) \/ (w \in exists /\ handlers[w].life \in {0, named[w]})
  <2>1. w \in Windows /\ Backed(w) /\ (handlers[w].life \in {0, named[w]} \/ Queued("destroy", w))
    BY <1>1 DEF WindowsInv, RestsOn, Owned, Handled
  <2>2. QED
    BY <1>1, <2>1 DEF WindowsInv, ServerInv, Backed
<1>2. WindowsInv => OwnedIsCurrent
  BY <1>1 DEF OwnedIsCurrent
<1>3. QED
  BY <1>2, InvHolds, PTL

\* Util's record of the shapes it has set outlives no window.
THEOREM ShapesRecorded == Spec => []ShapeRecorded
<1>1. WindowsInv => ShapeRecorded
  BY DEF WindowsInv, TypeOK, RestsOn, ShapeRecorded
<1>2. QED
  BY <1>1, InvHolds, PTL

\* The damage event, the Changed signal and the three timers between them bring what
\* an embedded window shows to its handler, in whatever order they come, unless the
\* last damage was handled with the handler behind: notifyIconChanged() compares the
\* window with what it announced, not with what the handler has.
THEOREM IconsFresh == Spec => []IconFresh
<1>1. Init => FreshInv
  <2>1. ASSUME Init PROVE Icons = {} /\ Owned = {}
    BY <2>1 DEF Init, Icons, Owned, Handled
  <2>2. QED
    BY <2>1, InvStart DEF FreshInv, DamageComes, ImageComes
<1>2. FreshInv /\ [Next]_vars => FreshInv'
  BY TypeStep, InvStep, FreshStep DEF FreshInv, WindowsInv
<1>3. FreshInv => IconFresh
  BY DEF FreshInv, ImageComes, OnItsWay, IconFresh, Owned, Handled
<1>4. QED
  BY <1>1, <1>2, <1>3, PTL DEF Spec

\* What is left of a window that is gone is always on its way out, however many
\* windows go and in whatever order the events and the timers come.
THEOREM GhostsLeave == Spec => []GhostLeaves
<1>1. Init => SweepComes
  BY DEF Init, SweepComes, Handled
<1>2. WindowsInv /\ SweepComes /\ [Next]_vars => SweepComes'
  BY SweepStep
<1>3. WindowsInv /\ SweepComes => GhostLeaves
  BY DEF WindowsInv, ServerInv, RestsOn, Backed, SweepComes, GhostLeaves
<1>4. QED
  BY <1>1, <1>2, <1>3, InvHolds, PTL DEF Spec
==============================================================================
