-------------------------- MODULE MenuImporterProofs --------------------------
(***************************************************************************)
(* Theorems about MenuImporter for any menu and any bounds.                *)
(***************************************************************************)
EXTENDS MenuImporter, FiniteSetTheorems, TLAPS

MenuInv == TypeOK /\ NoDanglingAction

------------------------------------------------------------------------------
(* Lemmas *)

\* What the main thread may find in its queue.
LEMMA EventFields ==
  ASSUME NEW e \in Event
  PROVE  /\ e.type = "layout" => e.id \in MenuIds /\ e.items \in SUBSET Ids
         /\ e.type = "delete" => e.actions \in SUBSET Action
         /\ e.type \in {"failed", "updated", "shown"} => e.id \in MenuIds
         /\ e.type = "shown" => e.need \in BOOLEAN
         /\ \A S \in SUBSET Action :
              e.type = "delete" => [e EXCEPT !.actions = S] \in Event
BY DEF Event

\* Events that may be posted.
LEMMA NewEvents ==
  ASSUME NEW m \in MenuIds
  PROVE  /\ Updated(m) \in Event
         /\ [type |-> "failed", id |-> m] \in Event
         /\ \A items \in SUBSET Ids : [type |-> "layout", id |-> m, items |-> items] \in Event
         /\ \A need \in BOOLEAN : [type |-> "shown", id |-> m, need |-> need] \in Event
         /\ \A S \in SUBSET Action : [type |-> "delete", actions |-> S] \in Event
BY DEF Event, Updated

\* The two queues stay sequences of their kind.
LEMMA QueueSteps ==
  ASSUME TypeOK
  PROVE  /\ \A e \in Event : Append(queue, e) \in Seq(Event)
         /\ \A e, f \in Event : queue \o <<e, f>> \in Seq(Event)
         /\ queue # << >> => Head(queue) \in Event /\ Tail(queue) \in Seq(Event)
         /\ calls # << >> => Tail(calls) \in Seq(Call)
         /\ \A c \in Call : Append(calls, c) \in Seq(Call)
BY DEF TypeOK

\* Asking for the layouts of some menus adds calls.
LEMMA RefreshAddsCalls ==
  ASSUME TypeOK, NEW n \in Nat, NEW order \in [1..n -> MenuIds]
  PROVE  Refresh(order) \in Seq(Call)
<1> DEFINE new == [k \in 1..n |-> [method |-> "GetLayout", id |-> order[k]]]
<1>1. \A k \in 1..n : [method |-> "GetLayout", id |-> order[k]] \in Call
  BY DEF Call
<1>2. new \in Seq(Call)
  BY <1>1
<1>3. Refresh(order) = calls \o new
  BY DEF Refresh
<1>4. calls \in Seq(Call)
  BY DEF TypeOK
<1> HIDE DEF new
<1>5. QED
  BY <1>2, <1>3, <1>4

\* The timer has finitely many menus to refresh.
LEMMA UpdatesFinite ==
  ASSUME TypeOK
  PROVE  IsFiniteSet(updates) /\ Cardinality(updates) \in Nat
<1>1. IsFiniteSet(Subs)
  BY MenuAssumption, FS_Subset
<1>2. updates \subseteq MenuIds /\ IsFiniteSet(MenuIds)
  BY <1>1, FS_AddElement DEF TypeOK, MenuIds
<1>3. QED
  BY <1>2, FS_Subset, FS_CardinalityType

\* A menu of a known id is the importer's or a live submenu.
LEMMA MenuForIdLives ==
  ASSUME MenuInv, NEW m \in MenuIds, MenuForId(m) # None
  PROVE  /\ MenuForId(m) \in Menu
         /\ MenuForId(m) # Root => ~IsFree(MenuForId(m))
<1>1. CASE m = Root
  BY <1>1 DEF MenuForId, Menu
<1>2. CASE m # Root
  <2>1. m \in Subs /\ m \in Ids /\ MenuForId(m) = actionForId[m]
    BY <1>2, MenuAssumption DEF MenuForId, MenuIds
  <2>2. actionForId[m] \in Ids \X Copies /\ ~IsFree(actionForId[m]) /\ actionForId[m][1] = m
    BY <2>1 DEF MenuInv, TypeOK, NoDanglingAction, Action
  <2>3. QED
    BY <2>1, <2>2 DEF Menu
<1>3. QED
  BY <1>1, <1>2

------------------------------------------------------------------------------
(* The invariant *)

LEMMA MenuInit == Init => MenuInv
<1> SUFFICES ASSUME Init PROVE MenuInv
  OBVIOUS
<1>1. layout \in [MenuIds -> SUBSET Ids]
  BY DEF Init, Layouts
<1>2. [method |-> "GetLayout", id |-> Root] \in Call
  BY DEF Call, MenuIds
<1>3. calls \in Seq(Call) /\ queue \in Seq(Event)
  BY <1>2 DEF Init
<1>4. changes \in 0..MaxChanges /\ opens \in 0..MaxOpens /\ failures \in 0..MaxFailures
  BY LimitAssumption DEF Init
<1>5. TypeOK
  BY <1>1, <1>3, <1>4 DEF Init, TypeOK
<1>6. NoDanglingAction
  BY DEF Init, NoDanglingAction
<1>7. QED
  BY <1>5, <1>6 DEF MenuInv

\* Steps of the application touch none of the importer's objects.
LEMMA ApplicationStep ==
  ASSUME MenuInv, NEW m \in MenuIds,
         MenuChanges(m) \/ AnswersGetLayout(m) \/ FailsGetLayout(m)
           \/ AnswersAboutToShow(m) \/ FailsAboutToShow(m)
  PROVE  MenuInv'
<1> USE DEF MenuInv
<1>0. \A items \in Layouts(m) : Change(m, items) =>
        layout' \in [MenuIds -> SUBSET Ids] /\ changes' \in 0..MaxChanges
  BY LimitAssumption DEF TypeOK, Layouts, Change
<1>1. CASE MenuChanges(m)
  BY <1>0, <1>1, QueueSteps, NewEvents
     DEF MenuChanges, TypeOK, NoDanglingAction, IsFree, importer, objects
<1>2. CASE AnswersGetLayout(m)
  <2>1. layout[m] \in SUBSET Ids
    BY DEF TypeOK
  <2>2. queue' \in Seq(Event) /\ calls' \in Seq(Call)
    BY <1>2, <2>1, QueueSteps, NewEvents DEF AnswersGetLayout, NextCall
  <2>3. QED
    BY <1>2, <2>2 DEF AnswersGetLayout, TypeOK, NoDanglingAction, IsFree, app, importer, objects
<1>3. CASE FailsGetLayout(m)
  <2>1. queue' \in Seq(Event) /\ calls' \in Seq(Call)
    BY <1>3, QueueSteps, NewEvents DEF FailsGetLayout, NextCall
  <2>2. failures' \in 0..MaxFailures
    BY <1>3, LimitAssumption DEF FailsGetLayout, TypeOK
  <2>3. QED
    BY <1>3, <2>1, <2>2 DEF FailsGetLayout, TypeOK, NoDanglingAction, IsFree, importer, objects
<1>4. CASE AnswersAboutToShow(m)
  <2>1. queue' \in Seq(Event) /\ calls' \in Seq(Call)
    BY <1>4, QueueSteps, NewEvents DEF AnswersAboutToShow, NextCall
  <2>2. layout' \in [MenuIds -> SUBSET Ids] /\ changes' \in 0..MaxChanges
    BY <1>0, <1>4 DEF AnswersAboutToShow
  <2>3. QED
    BY <1>4, <2>1, <2>2
       DEF AnswersAboutToShow, TypeOK, NoDanglingAction, IsFree, importer, objects
<1>5. CASE FailsAboutToShow(m)
  BY <1>5, QueueSteps
     DEF FailsAboutToShow, NextCall, TypeOK, NoDanglingAction, IsFree, app, importer, objects
<1>6. QED
  BY <1>1, <1>2, <1>3, <1>4, <1>5

\* A layout drops, keeps and creates actions that are alive.
LEMMA LayoutStep ==
  ASSUME MenuInv, LayoutFetched
  PROVE  MenuInv'
<1> USE DEF MenuInv
<1> DEFINE e == Head(queue)
           menu == MenuForId(e.id)
<1>1. e \in Event /\ e.type = "layout" /\ Tail(queue) \in Seq(Event)
  BY QueueSteps DEF LayoutFetched, Receive
<1>2. e.id \in MenuIds /\ e.items \in SUBSET Ids
  BY <1>1, EventFields
<1>3. CASE menu # None /\ ApplyLayout(menu, e.items)
  <2>1. menu \in Menu /\ (menu # Root => ~IsFree(menu))
    BY <1>2, <1>3, MenuForIdLives
  <2> DEFINE items == e.items
             old   == Outdated(menu, items)
             kept  == [i \in Ids |-> IF i \in {a[1] : a \in old} THEN None ELSE actionForId[i]]
             fresh == {i \in items : kept[i] = None}
             later == old \ Doomed
  <2>2. PICK copy \in [fresh -> Copies] :
          LET new == {<<i, copy[i]>> : i \in fresh}
          IN  /\ \A a \in new : IsFree(a)
              /\ owner' = [a \in Action |-> IF a \in new THEN menu ELSE owner[a]]
              /\ actionForId' = [i \in Ids |-> IF i \in fresh THEN <<i, copy[i]>> ELSE kept[i]]
              /\ actions' = [actions EXCEPT ![menu] = @ \cup {actionForId'[i] : i \in items}]
              /\ queue' = IF later = {} THEN Tail(queue)
                          ELSE Append(Tail(queue), [type |-> "delete", actions |-> later])
    BY <1>3 DEF ApplyLayout
  <2> DEFINE new == {<<i, copy[i]>> : i \in fresh}
  <2>3. old \in SUBSET Action /\ later \in SUBSET Action
    BY <2>1 DEF Outdated, TypeOK
  <2>4. kept \in [Ids -> Action \cup {None}]
        /\ \A i \in Ids : kept[i] # None => kept[i] = actionForId[i]
    BY DEF TypeOK
  <2>5. fresh \in SUBSET Ids /\ new \in SUBSET Action
    <3>1. fresh \in SUBSET Ids
      BY <1>2
    <3> HIDE DEF fresh
    <3>2. \A i \in fresh : <<i, copy[i]>> \in Action
      BY <3>1 DEF Action
    <3>3. QED
      BY <3>1, <3>2
  <2> HIDE DEF old, kept, later
  <2>6. queue' \in Seq(Event)
    <3>1. [type |-> "delete", actions |-> later] \in Event
      BY <1>2, <2>3, NewEvents
    <3>2. QED
      BY <1>1, <2>2, <3>1
  <2>7. /\ owner' \in [Action -> Menu \cup {None}]
        /\ \A a \in Action : ~IsFree(a) => owner'[a] # None
        /\ \A a \in new : owner'[a] # None
    <3>1. None \notin Menu
      BY NamesAssumption, MenuAssumption DEF Menu
    <3>2. owner \in [Action -> Menu \cup {None}]
      BY DEF TypeOK
    <3> HIDE DEF new
    <3>3. QED
      BY <2>1, <2>2, <2>5, <3>1, <3>2 DEF IsFree, new
  <2>8. /\ actionForId' \in [Ids -> Action \cup {None}]
        /\ \A i \in Ids : actionForId'[i] # None =>
             owner'[actionForId'[i]] # None /\ actionForId'[i][1] = i
        /\ \A i \in items : actionForId'[i] # None
    <3>1. ASSUME NEW i \in fresh
          PROVE  actionForId'[i] = <<i, copy[i]>> /\ <<i, copy[i]>> \in Action
                 /\ <<i, copy[i]>> \in new
      BY <2>2, <2>5 DEF Action
    <3>2. ASSUME NEW i \in Ids, i \notin fresh
          PROVE  actionForId'[i] = kept[i]
      BY <2>2, <3>2
    <3>3. \A i \in Ids : kept[i] # None => ~IsFree(kept[i]) /\ kept[i][1] = i /\ kept[i] \in Action
      BY <2>4 DEF NoDanglingAction
    <3>4. actionForId' \in [Ids -> Action \cup {None}]
      BY <2>2, <2>4, <3>1
    <3>5. ASSUME NEW i \in Ids, actionForId'[i] # None
          PROVE  owner'[actionForId'[i]] # None /\ actionForId'[i][1] = i
      <4>1. CASE i \in fresh
        <5>1. actionForId'[i] = <<i, copy[i]>> /\ <<i, copy[i]>> \in new
          BY <3>1, <4>1
        <5>2. owner'[<<i, copy[i]>>] # None
          BY <2>7, <5>1
        <5>3. QED
          BY <5>1, <5>2
      <4>2. CASE i \notin fresh
        BY <2>7, <3>2, <3>3, <3>5, <4>2 DEF IsFree
      <4>3. QED
        BY <4>1, <4>2
    <3>6. ASSUME NEW i \in items
          PROVE  actionForId'[i] # None
      <4>1. <<i, copy[i]>> \in Action => <<i, copy[i]>> # None
        BY NamesAssumption DEF Action
      <4>2. QED
        BY <1>2, <3>1, <3>2, <3>6, <4>1
    <3>7. QED
      BY <3>4, <3>5, <3>6
  <2> DEFINE named == {actionForId'[i] : i \in items}
  <2>9. named \in SUBSET Action /\ \A a \in named : owner'[a] # None
    BY <1>2, <2>8
  <2> HIDE DEF named
  <2>10. actions' = [actions EXCEPT ![menu] = @ \cup named]
    BY <2>2 DEF named
  <2>11. actions' \in [Menu -> SUBSET Action]
    BY <2>1, <2>9, <2>10 DEF TypeOK
  <2>12. \A m \in Menu : \A a \in actions'[m] : owner'[a] # None /\ (m # Root => owner'[m] # None)
    <3> SUFFICES ASSUME NEW m \in Menu, NEW a \in actions'[m]
                 PROVE  owner'[a] # None /\ (m # Root => owner'[m] # None)
      OBVIOUS
    <3>0. \A c \in Menu : c # Root => c \in Action
      BY MenuAssumption DEF Menu, Action
    <3>1. CASE a \in actions[m]
      <4>1. ~IsFree(a) /\ (m # Root => ~IsFree(m)) /\ a \in Action
        BY <3>1 DEF NoDanglingAction, TypeOK
      <4>2. QED
        BY <2>7, <3>0, <4>1 DEF IsFree
    <3>2. CASE a \notin actions[m]
      <4>1. m = menu /\ a \in named
        BY <2>10, <3>2 DEF TypeOK
      <4>2. QED
        BY <2>1, <2>7, <2>9, <3>0, <4>1 DEF IsFree
    <3>3. QED
      BY <3>1, <3>2
  <2>13. TypeOK'
    BY <2>6, <2>7, <2>8, <2>11, <1>3 DEF LayoutFetched, TypeOK, app
  <2>14. QED
    BY <2>8, <2>12, <2>13 DEF NoDanglingAction, IsFree
<1>4. CASE queue' = Tail(queue) /\ UNCHANGED <<objects, missed>>
  BY <1>1, <1>4 DEF LayoutFetched, TypeOK, NoDanglingAction, IsFree, app, objects
<1>5. QED
  BY <1>3, <1>4 DEF LayoutFetched

\* A deletion takes actions, and the actions in their menus, out of everything.
LEMMA DeletionStep ==
  ASSUME MenuInv, ActionsDeleted
  PROVE  MenuInv'
<1> USE DEF MenuInv
<1> DEFINE batch == Head(queue).actions
           gone  == batch \cup {a \in Action : owner[a] \in batch}
<1>1. Head(queue) \in Event /\ Tail(queue) \in Seq(Event) /\ batch \in SUBSET Action
  BY QueueSteps, EventFields DEF ActionsDeleted, Receive
<1>2. gone \in SUBSET Action
  BY <1>1
<1> HIDE DEF batch, gone
<1>3. /\ owner' = [a \in Action |-> IF a \in gone THEN None ELSE owner[a]]
      /\ actions' = [m \in Menu |-> IF m \in gone THEN {} ELSE actions[m] \ gone]
      /\ actionForId' = ForgetIds(gone)
      /\ UNCHANGED <<app, opens, calls, marks, updates, missed>>
  BY DEF ActionsDeleted, batch, gone
<1>4. queue' \in Seq(Event)
  <2> DEFINE q == Tail(queue)
             left(e) == IF e.type = "delete" THEN [e EXCEPT !.actions = @ \ gone] ELSE e
  <2>1. queue' = [k \in DOMAIN q |-> left(q[k])]
    BY DEF ActionsDeleted, batch, gone
  <2>2. \A e \in Event : left(e) \in Event
    <3> SUFFICES ASSUME NEW e \in Event, e.type = "delete"
                 PROVE  [e EXCEPT !.actions = @ \ gone] \in Event
      OBVIOUS
    <3>1. e.actions \ gone \in SUBSET Action
      BY EventFields
    <3>2. QED
      BY <3>1, EventFields
  <2> HIDE DEF left
  <2>3. \A k \in 1..Len(q) : left(q[k]) \in Event
    BY <1>1, <2>2
  <2>4. DOMAIN q = 1..Len(q) /\ Len(q) \in Nat
    BY <1>1
  <2> HIDE DEF q
  <2>5. QED
    BY <2>1, <2>3, <2>4
<1>5. owner' \in [Action -> Menu \cup {None}] /\ actions' \in [Menu -> SUBSET Action]
      /\ \A a \in Action \ gone : ~IsFree(a) => owner'[a] # None
  BY <1>3 DEF TypeOK, IsFree
<1>6. actionForId' \in [Ids -> Action \cup {None}]
      /\ \A i \in Ids : actionForId'[i] # None => actionForId'[i] = actionForId[i]
           /\ \A a \in gone : a[1] # i
  BY <1>3 DEF TypeOK, ForgetIds
<1>7. TypeOK'
  BY <1>3, <1>4, <1>5, <1>6 DEF TypeOK, app
<1>8. \A i \in Ids : actionForId'[i] # None => owner'[actionForId'[i]] # None /\ actionForId'[i][1] = i
  <2> SUFFICES ASSUME NEW i \in Ids, actionForId'[i] # None
               PROVE  owner'[actionForId'[i]] # None /\ actionForId'[i][1] = i
    OBVIOUS
  <2>1. actionForId'[i] = actionForId[i] /\ actionForId[i] # None
        /\ ~IsFree(actionForId[i]) /\ actionForId[i][1] = i /\ actionForId[i] \in Action
    BY <1>6 DEF NoDanglingAction, TypeOK
  <2>2. actionForId[i] \notin gone
    BY <1>6, <2>1
  <2>3. QED
    BY <1>5, <2>1, <2>2 DEF IsFree
<1>9. \A m \in Menu : \A a \in actions'[m] : owner'[a] # None /\ (m # Root => owner'[m] # None)
  <2> SUFFICES ASSUME NEW m \in Menu, NEW a \in actions'[m]
               PROVE  owner'[a] # None /\ (m # Root => owner'[m] # None)
    OBVIOUS
  <2>1. m \notin gone /\ a \in actions[m] /\ a \notin gone
    BY <1>3
  <2>2. a \in Action /\ ~IsFree(a) /\ (m # Root => ~IsFree(m) /\ m \in Action)
    BY <2>1, MenuAssumption DEF TypeOK, NoDanglingAction, Menu, Action
  <2>3. QED
    BY <1>5, <2>1, <2>2 DEF IsFree
<1>10. QED
  BY <1>7, <1>8, <1>9 DEF NoDanglingAction, IsFree

\* The steps that only take news and ask for layouts.
LEMMA NewsStep ==
  ASSUME MenuInv, LayoutFailed \/ LayoutUpdated \/ AboutToShowFinished
                    \/ ProcessPendingLayoutUpdates
  PROVE  MenuInv'
<1> USE DEF MenuInv
<1>1. CASE LayoutFailed
  <2>1. Head(queue).id \in MenuIds /\ Tail(queue) \in Seq(Event)
    BY <1>1, QueueSteps, EventFields DEF LayoutFailed, Receive
  <2>2. QED
    BY <1>1, <2>1 DEF LayoutFailed, TypeOK, NoDanglingAction, IsFree, app, objects
<1>2. CASE LayoutUpdated
  <2>1. Head(queue).id \in MenuIds /\ Tail(queue) \in Seq(Event)
    BY <1>2, QueueSteps, EventFields DEF LayoutUpdated, Receive
  <2>2. UNCHANGED <<app, opens, calls, objects>> /\ queue' = Tail(queue)
        /\ marks' \subseteq MenuIds /\ missed' \subseteq MenuIds /\ updates' \subseteq MenuIds
    BY <1>2, <2>1 DEF LayoutUpdated, UpdatesWith, TypeOK
  <2>3. QED
    BY <2>1, <2>2 DEF TypeOK, NoDanglingAction, IsFree, app, objects
<1>3. CASE AboutToShowFinished
  <2> DEFINE e == Head(queue)
  <2>1. e.id \in MenuIds /\ Tail(queue) \in Seq(Event)
    BY <1>3, QueueSteps, EventFields DEF AboutToShowFinished, Receive
  <2>2. Refresh(<<e.id>>) \in Seq(Call)
    <3>1. <<e.id>> \in [1..1 -> MenuIds]
      BY <2>1
    <3>2. QED
      BY <3>1, RefreshAddsCalls
  <2>3. UNCHANGED <<app, opens, objects, updates, missed>> /\ queue' = Tail(queue)
        /\ marks' \subseteq MenuIds /\ calls' \in Seq(Call)
    BY <1>3, <2>1, <2>2 DEF AboutToShowFinished, TypeOK
  <2>4. QED
    BY <2>1, <2>3 DEF TypeOK, NoDanglingAction, IsFree, app, objects
<1>4. CASE ProcessPendingLayoutUpdates
  <2>1. updates \subseteq MenuIds
    BY DEF TypeOK
  <2>2. Cardinality(updates) \in Nat
    BY UpdatesFinite
  <2>3. PICK order \in Orders(updates) : calls' = Refresh(order)
    BY <1>4 DEF ProcessPendingLayoutUpdates
  <2>4. order \in [1..Cardinality(updates) -> MenuIds]
    BY <2>1 DEF Orders
  <2>5. calls' \in Seq(Call)
    BY <2>2, <2>3, <2>4, RefreshAddsCalls
  <2>6. QED
    BY <1>4, <2>5 DEF ProcessPendingLayoutUpdates, TypeOK, NoDanglingAction, IsFree, app, objects
<1>5. QED
  BY <1>1, <1>2, <1>3, <1>4

LEMMA OpenStep ==
  ASSUME MenuInv, NEW menu \in Menu, UpdateMenu(menu)
  PROVE  MenuInv'
<1> USE DEF MenuInv
<1>1. IdProperty(menu) \in MenuIds
  BY MenuAssumption DEF IdProperty, Menu, MenuIds
<1>2. [method |-> "AboutToShow", id |-> IdProperty(menu)] \in Call
  BY <1>1 DEF Call
<1>3. calls' \in Seq(Call) /\ opens' \in 0..MaxOpens
  BY <1>2, QueueSteps, LimitAssumption DEF UpdateMenu, TypeOK
<1>4. QED
  BY <1>3 DEF UpdateMenu, TypeOK, NoDanglingAction, IsFree, app, objects

LEMMA MenuStep == MenuInv /\ [Next]_vars => MenuInv'
<1> SUFFICES ASSUME MenuInv, [Next]_vars PROVE MenuInv'
  OBVIOUS
<1>1. CASE \E m \in MenuIds : MenuChanges(m)
  BY <1>1, ApplicationStep
<1>2. CASE \E menu \in Menu : UpdateMenu(menu)
  BY <1>2, OpenStep
<1>3. CASE Answers
  BY <1>3, ApplicationStep DEF Answers
<1>4. CASE MainThread
  BY <1>4, LayoutStep, DeletionStep, NewsStep DEF MainThread
<1>5. CASE ProcessPendingLayoutUpdates
  BY <1>5, NewsStep
<1>6. CASE UNCHANGED vars
  BY <1>6 DEF MenuInv, TypeOK, NoDanglingAction, IsFree, vars, app, objects
<1>7. QED
  BY <1>1, <1>2, <1>3, <1>4, <1>5, <1>6 DEF Next

LEMMA MenuInvariant == Spec => []MenuInv
BY MenuInit, MenuStep, PTL DEF Spec

------------------------------------------------------------------------------
(* What the importer's menu will show *)

\* Items, actions and layouts are where the application has them.
InHome ==
  /\ \A m \in MenuIds : layout[m] \in Layouts(m)
  /\ \A k \in DOMAIN queue : queue[k].type = "layout" => queue[k].items \in Layouts(queue[k].id)
  /\ \A m \in Menu : \A a \in actions[m] : Home[a[1]] = IdProperty(m)
  /\ \A a \in Action : owner[a] = None \/ Home[a[1]] = IdProperty(owner[a])

\* A layout of the importer's menu is what the application has, or news follows it.
Announces(e) == e.type \in {"updated", "shown"} /\ e.id = Root /\ (e.type = "shown" => e.need)
LayoutsEnd ==
  \A k \in DOMAIN queue : queue[k].type = "layout" /\ queue[k].id = Root =>
    queue[k].items = layout[Root] \/ \E l \in DOMAIN queue : l > k /\ Announces(queue[l])

\* What is to be deleted is alive until then, and its id no longer names it.
Dooms(events, a) == \E k \in DOMAIN events : events[k].type = "delete" /\ a \in events[k].actions
DoomedLive ==
  /\ \A a : Dooms(queue, a) => ~IsFree(a)
  /\ \A i \in Ids : ~Dooms(queue, actionForId[i])

ExactInv == InHome /\ LayoutsEnd /\ DoomedLive /\ RootExact

\* News of the importer's menu, and calls for its layout.
News(e) == e.type # "delete" /\ e.id = Root /\ ~(e.type = "shown" /\ ~e.need)
Fetching(called) == \E k \in DOMAIN called : called[k] = [method |-> "GetLayout", id |-> Root]

LEMMA SettledNews ==
  /\ Settled <=> /\ Root \notin updates /\ ~Fetching(calls)
                 /\ \A k \in DOMAIN queue : ~News(queue[k])
  /\ Settled' <=> /\ Root \notin updates' /\ ~Fetching(calls')
                  /\ \A k \in DOMAIN queue' : ~News(queue'[k])
BY DEF Settled, Fetching, News

LEMMA DoomedIs == \A a : (a \in Doomed <=> Dooms(queue, a)) /\ (a \in Doomed' <=> Dooms(queue', a))
BY DEF Doomed, Dooms

LEMMA ExactInit == Init => ExactInv
<1> SUFFICES ASSUME Init PROVE ExactInv
  OBVIOUS
<1>1. DOMAIN queue = {} /\ 1 \in DOMAIN calls /\ calls[1] = [method |-> "GetLayout", id |-> Root]
  BY DEF Init
<1>2. RootExact
  BY <1>1, SettledNews DEF RootExact, Fetching
<1>3. \A i \in Ids : ~Dooms(queue, actionForId[i])
  BY <1>1 DEF Dooms
<1>4. QED
  BY <1>1, <1>2, <1>3 DEF Init, ExactInv, InHome, LayoutsEnd, DoomedLive, Dooms

\* Events are added to a queue, after all others.
Grows(old, events, added) ==
  /\ \A k \in DOMAIN old : k \in DOMAIN events /\ events[k] = old[k]
  /\ \A k \in DOMAIN events : k \in DOMAIN old \/ events[k] \in added
  /\ \A e \in added : \E k \in DOMAIN events : events[k] = e /\ \A l \in DOMAIN old : k > l

LEMMA GrowsBy ==
  ASSUME NEW S, NEW old \in Seq(S), NEW e \in S, NEW f \in S
  PROVE  Grows(old, Append(old, e), {e}) /\ Grows(old, old \o <<e, f>>, {e, f})
<1>1. Grows(old, Append(old, e), {e})
  <2> DEFINE r == Append(old, e)
             last == Len(old) + 1
  <2>1. /\ last \in DOMAIN r /\ r[last] = e
        /\ \A k \in DOMAIN old : k \in DOMAIN r /\ r[k] = old[k] /\ last > k
        /\ \A k \in DOMAIN r : k \in DOMAIN old \/ k = last
    OBVIOUS
  <2> HIDE DEF r, last
  <2>2. Grows(old, r, {e})
    BY <2>1 DEF Grows
  <2>3. QED
    BY <2>2 DEF r
<1>2. Grows(old, old \o <<e, f>>, {e, f})
  <2> DEFINE r == old \o <<e, f>>
             n == Len(old)
  <2>1. /\ n + 1 \in DOMAIN r /\ r[n + 1] = e /\ n + 2 \in DOMAIN r /\ r[n + 2] = f
        /\ \A k \in DOMAIN old : k \in DOMAIN r /\ r[k] = old[k] /\ n + 1 > k /\ n + 2 > k
        /\ \A k \in DOMAIN r : k \in DOMAIN old \/ k = n + 1 \/ k = n + 2
    OBVIOUS
  <2> HIDE DEF r, n
  <2>2. Grows(old, r, {e, f})
    BY <2>1 DEF Grows
  <2>3. QED
    BY <2>2 DEF r
<1>3. QED
  BY <1>1, <1>2

LEMMA TailAt ==
  ASSUME NEW S, NEW old \in Seq(S), old # << >>, NEW rest, rest = Tail(old)
  PROVE  /\ rest \in Seq(S) /\ Head(old) = old[1] /\ 1 \in DOMAIN old
         /\ \A k \in DOMAIN old : /\ k \in Nat /\ k > 0
                                  /\ k = 1 \/ (k - 1 \in DOMAIN rest /\ rest[k - 1] = old[k])
         /\ \A k \in DOMAIN rest : k \in Nat /\ k + 1 \in DOMAIN old /\ old[k + 1] = rest[k]
OBVIOUS

\* The application's answers and news.
LEMMA AnnouncedExact ==
  ASSUME TypeOK, ExactInv, NEW added, Grows(queue, queue', added),
         UNCHANGED <<objects, updates, missed>>,
         \A m \in MenuIds : layout'[m] \in Layouts(m),
         \A e \in added : e.type # "delete" /\ (e.type = "layout" => e.id \in MenuIds /\ e.items = layout'[e.id]),
         layout'[Root] = layout[Root] \/ \E e \in added : Announces(e),
         Fetching(calls) => Fetching(calls') \/ \E e \in added : News(e)
  PROVE  ExactInv'
<1>0. /\ \A k \in DOMAIN queue : k \in DOMAIN queue' /\ queue'[k] = queue[k]
      /\ \A k \in DOMAIN queue' : k \in DOMAIN queue \/ queue'[k] \in added
      /\ \A e \in added : \E k \in DOMAIN queue' : queue'[k] = e /\ \A l \in DOMAIN queue : k > l
  BY DEF Grows
<1>1. InHome'
  <2>1. UNCHANGED <<owner, actions>>
    BY DEF objects
  <2>2. \A k \in DOMAIN queue' : queue'[k].type = "layout" => queue'[k].items \in Layouts(queue'[k].id)
    BY <1>0 DEF ExactInv, InHome
  <2>3. QED
    BY <2>1, <2>2 DEF ExactInv, InHome, Layouts, IdProperty
<1>2. LayoutsEnd'
  <2> SUFFICES ASSUME NEW k \in DOMAIN queue', queue'[k].type = "layout", queue'[k].id = Root
               PROVE  queue'[k].items = layout'[Root]
                        \/ \E l \in DOMAIN queue' : l > k /\ Announces(queue'[l])
    BY DEF LayoutsEnd, Announces
  <2>1. CASE k \in DOMAIN queue
    <3>1. queue[k].items = layout[Root] \/ \E l \in DOMAIN queue : l > k /\ Announces(queue[l])
      BY <1>0, <2>1 DEF ExactInv, LayoutsEnd
    <3>2. CASE \E l \in DOMAIN queue : l > k /\ Announces(queue[l])
      BY <1>0, <3>2
    <3>3. CASE queue[k].items = layout[Root] /\ layout'[Root] = layout[Root]
      BY <1>0, <2>1, <3>3
    <3>4. CASE \E e \in added : Announces(e)
      BY <1>0, <2>1, <3>4
    <3>5. QED
      BY <3>1, <3>2, <3>3, <3>4
  <2>2. CASE queue'[k] \in added
    BY <2>2
  <2>3. QED
    BY <1>0, <2>1, <2>2
<1>3. \A a : Dooms(queue', a) <=> Dooms(queue, a)
  BY <1>0 DEF Dooms
<1>4. DoomedLive'
  BY <1>3 DEF ExactInv, DoomedLive, IsFree, objects, Dooms
<1>5. RootExact'
  <2> SUFFICES ASSUME Settled', Root \notin missed' PROVE RootShown'
    BY DEF RootExact
  <2>1. \A e \in added : ~News(e)
    BY <1>0, SettledNews
  <2>2. Settled
    BY <1>0, <2>1, SettledNews
  <2>3. layout'[Root] = layout[Root]
    BY <2>1 DEF Announces, News
  <2>4. RootShown
    BY <2>2 DEF ExactInv, RootExact
  <2>5. Doomed' = Doomed /\ actions' = actions
    BY <1>3, DoomedIs DEF objects
  <2>6. QED
    BY <2>3, <2>4, <2>5 DEF RootShown
<1>6. QED
  BY <1>1, <1>2, <1>4, <1>5 DEF ExactInv

LEMMA ApplicationExact ==
  ASSUME TypeOK, ExactInv, NEW m \in MenuIds,
         MenuChanges(m) \/ AnswersGetLayout(m) \/ FailsGetLayout(m)
           \/ AnswersAboutToShow(m) \/ FailsAboutToShow(m)
  PROVE  ExactInv'
<1>0. /\ UNCHANGED <<objects, updates, missed>>
      /\ queue \in Seq(Event) /\ calls \in Seq(Call) /\ layout \in [MenuIds -> SUBSET Ids]
      /\ Root \in MenuIds
  BY DEF MenuChanges, AnswersGetLayout, FailsGetLayout, AnswersAboutToShow, FailsAboutToShow,
         importer, TypeOK, MenuIds
<1>1. ASSUME NEW items \in Layouts(m), Change(m, items)
      PROVE  /\ \A n \in MenuIds : layout'[n] \in Layouts(n)
             /\ layout'[m] = items /\ \A n \in MenuIds \ {m} : layout'[n] = layout[n]
  BY <1>0, <1>1 DEF Change, ExactInv, InHome
<1>2. ASSUME UNCHANGED layout PROVE \A n \in MenuIds : layout'[n] \in Layouts(n)
  BY <1>2 DEF ExactInv, InHome
\* An answered call is no longer waited for.
<1>3. ASSUME NEW method, NextCall(method, m)
      PROVE  Fetching(calls) => Fetching(calls') \/ (method = "GetLayout" /\ m = Root)
  <2> SUFFICES ASSUME NEW k \in DOMAIN calls, calls[k] = [method |-> "GetLayout", id |-> Root]
               PROVE  Fetching(calls') \/ (method = "GetLayout" /\ m = Root)
    BY DEF Fetching
  <2>1. calls # << >> /\ calls' = Tail(calls) /\ Head(calls) = [method |-> method, id |-> m]
    BY <1>3 DEF NextCall
  <2>2. Head(calls) = calls[1] /\ (k = 1 \/ (k - 1 \in DOMAIN calls' /\ calls'[k - 1] = calls[k]))
    BY <1>0, <2>1, TailAt
  <2>3. CASE k = 1
    BY <2>1, <2>2, <2>3
  <2>4. CASE k # 1
    BY <2>2, <2>4 DEF Fetching
  <2>5. QED
    BY <2>3, <2>4
<1>4. CASE MenuChanges(m)
  <2> DEFINE e == Updated(m)
  <2>1. e \in Event /\ e.type = "updated" /\ (m = Root => Announces(e))
    BY NewEvents DEF Updated, Announces
  <2>2. Grows(queue, queue', {e}) /\ calls' = calls
    BY <1>0, <1>4, <2>1, GrowsBy DEF MenuChanges
  <2>3. (\A n \in MenuIds : layout'[n] \in Layouts(n)) /\ (layout'[Root] = layout[Root] \/ m = Root)
    BY <1>0, <1>1, <1>4 DEF MenuChanges
  <2> HIDE DEF e
  <2>4. QED
    BY <1>0, <2>1, <2>2, <2>3, AnnouncedExact
<1>5. CASE AnswersGetLayout(m)
  <2> DEFINE e == [type |-> "layout", id |-> m, items |-> layout[m]]
  <2>1. e \in Event /\ e.type = "layout" /\ e.id = m /\ e.items = layout[m] /\ (m = Root => News(e))
    BY <1>0, NewEvents DEF News
  <2>2. Grows(queue, queue', {e}) /\ UNCHANGED layout
    BY <1>0, <1>5, <2>1, GrowsBy DEF AnswersGetLayout, app
  <2>3. Fetching(calls) => Fetching(calls') \/ m = Root
    BY <1>3, <1>5 DEF AnswersGetLayout
  <2> HIDE DEF e
  <2>4. QED
    BY <1>0, <1>2, <2>1, <2>2, <2>3, AnnouncedExact
<1>6. CASE FailsGetLayout(m)
  <2> DEFINE e == [type |-> "failed", id |-> m]
  <2>1. e \in Event /\ e.type = "failed" /\ (m = Root => News(e))
    BY NewEvents DEF News
  <2>2. Grows(queue, queue', {e}) /\ UNCHANGED layout
    BY <1>0, <1>6, <2>1, GrowsBy DEF FailsGetLayout
  <2>3. Fetching(calls) => Fetching(calls') \/ m = Root
    BY <1>3, <1>6 DEF FailsGetLayout
  <2> HIDE DEF e
  <2>4. QED
    BY <1>0, <1>2, <2>1, <2>2, <2>3, AnnouncedExact
<1>7. CASE AnswersAboutToShow(m)
  <2>1. PICK items \in Layouts(m), need \in BOOLEAN :
          LET answer == [type |-> "shown", id |-> m, need |-> need]
          IN  /\ Change(m, items)
              /\ \/ queue' = Append(queue, answer) /\ (need \/ items = layout[m])
                 \/ queue' = queue \o <<Updated(m), answer>> /\ items # layout[m]
                 \/ queue' = queue \o <<answer, Updated(m)>> /\ items # layout[m]
    BY <1>7 DEF AnswersAboutToShow
  <2> DEFINE e == [type |-> "shown", id |-> m, need |-> need]
             f == Updated(m)
  <2>2. /\ e \in Event /\ e.type = "shown" /\ (m = Root /\ need => Announces(e))
        /\ f \in Event /\ f.type = "updated" /\ (m = Root => Announces(f))
    BY NewEvents DEF Updated, Announces
  <2>3. /\ \A n \in MenuIds : layout'[n] \in Layouts(n)
        /\ layout'[Root] = layout[Root] \/ (m = Root /\ items # layout[m])
    BY <1>0, <1>1, <2>1
  <2>4. Fetching(calls) => Fetching(calls')
    BY <1>3, <1>7 DEF AnswersAboutToShow
  <2>5. PICK added \in {{e}, {e, f}} :
          Grows(queue, queue', added) /\ (added = {e} => need \/ items = layout[m])
    <3>1. /\ Grows(queue, Append(queue, e), {e}) /\ Grows(queue, queue \o <<e, f>>, {e, f})
          /\ Grows(queue, queue \o <<f, e>>, {e, f})
      <4>1. {f, e} = {e, f}
        OBVIOUS
      <4> HIDE DEF e, f
      <4>2. QED
        BY <1>0, <2>2, <4>1, GrowsBy
    <3>2. CASE queue' = Append(queue, e) /\ (need \/ items = layout[m])
      BY <3>1, <3>2
    <3>3. CASE queue' = queue \o <<f, e>> \/ queue' = queue \o <<e, f>>
      <4>1. Grows(queue, queue', {e, f}) /\ {e, f} # {e}
        BY <2>2, <3>1, <3>3
      <4>2. QED
        BY <4>1
    <3>4. QED
      BY <2>1, <3>2, <3>3
  <2> HIDE DEF e, f
  <2>6. \A x \in added : x.type \in {"shown", "updated"}
    BY <2>2, <2>5
  <2>7. layout'[Root] = layout[Root] \/ \E x \in added : Announces(x)
    BY <2>2, <2>3, <2>5
  <2>8. QED
    BY <1>0, <2>3, <2>4, <2>5, <2>6, <2>7, AnnouncedExact
<1>8. CASE FailsAboutToShow(m)
  <2>1. Fetching(calls) => Fetching(calls')
    BY <1>3, <1>8 DEF FailsAboutToShow
  <2>2. UNCHANGED <<layout, queue>> /\ Grows(queue, queue, {})
    BY <1>8 DEF FailsAboutToShow, app, Grows
  <2>3. QED
    BY <1>0, <1>2, <2>1, <2>2, AnnouncedExact
<1>9. QED
  BY <1>4, <1>5, <1>6, <1>7, <1>8

LEMMA TailDooms ==
  ASSUME NEW old \in Seq(Event), old # << >>, NEW a
  PROVE  Dooms(old, a) <=> \/ Dooms(Tail(old), a)
                           \/ Head(old).type = "delete" /\ a \in Head(old).actions
<1> DEFINE rest == Tail(old)
<1>1. /\ Head(old) = old[1] /\ 1 \in DOMAIN old
      /\ \A k \in DOMAIN old : k = 1 \/ (k - 1 \in DOMAIN rest /\ rest[k - 1] = old[k])
      /\ \A k \in DOMAIN rest : k + 1 \in DOMAIN old /\ old[k + 1] = rest[k]
  BY TailAt
<1> HIDE DEF rest
<1>2. ASSUME NEW k \in DOMAIN old, old[k].type = "delete", a \in old[k].actions
      PROVE  Dooms(rest, a) \/ (old[1].type = "delete" /\ a \in old[1].actions)
  <2>1. CASE k = 1
    BY <1>2, <2>1
  <2>2. CASE k - 1 \in DOMAIN rest /\ rest[k - 1] = old[k]
    <3> DEFINE l == k - 1
    <3>1. l \in DOMAIN rest /\ rest[l].type = "delete" /\ a \in rest[l].actions
      BY <1>2, <2>2
    <3> HIDE DEF l
    <3>2. QED
      BY <3>1 DEF Dooms
  <2>3. QED
    BY <1>1, <2>1, <2>2
<1>3. ASSUME NEW k \in DOMAIN rest, rest[k].type = "delete", a \in rest[k].actions
      PROVE  Dooms(old, a)
  <2> DEFINE l == k + 1
  <2>1. l \in DOMAIN old /\ old[l].type = "delete" /\ a \in old[l].actions
    BY <1>1, <1>3
  <2> HIDE DEF l
  <2>2. QED
    BY <2>1 DEF Dooms
<1>4. QED
  BY <1>1, <1>2, <1>3 DEF Dooms, rest

\* The main thread takes an event: news of the importer's menu is missed, waits
\* for the timer or is being fetched.
LEMMA TakenExact ==
  ASSUME TypeOK, ExactInv, queue # << >>, queue' = Tail(queue), Head(queue).type # "delete",
         UNCHANGED <<objects, layout>>,
         News(Head(queue)) => Root \in missed' \/ Root \in updates' \/ Fetching(calls'),
         Root \in updates => Root \in updates' \/ Fetching(calls'),
         Fetching(calls) => Fetching(calls'), Root \in missed => Root \in missed'
  PROVE  ExactInv'
<1>1. queue \in Seq(Event)
  BY DEF TypeOK
<1>2. /\ Head(queue) = queue[1] /\ 1 \in DOMAIN queue
      /\ \A k \in DOMAIN queue : /\ k \in Nat /\ k > 0
                                 /\ k = 1 \/ (k - 1 \in DOMAIN queue' /\ queue'[k - 1] = queue[k])
      /\ \A k \in DOMAIN queue' : k \in Nat /\ k + 1 \in DOMAIN queue /\ queue[k + 1] = queue'[k]
  BY <1>1, TailAt
<1>3. InHome'
  BY <1>2 DEF ExactInv, InHome, Layouts, IdProperty, objects
<1>4. LayoutsEnd'
  <2> SUFFICES ASSUME NEW k \in DOMAIN queue', queue'[k].type = "layout", queue'[k].id = Root
               PROVE  queue'[k].items = layout'[Root]
                        \/ \E l \in DOMAIN queue' : l > k /\ Announces(queue'[l])
    BY DEF LayoutsEnd, Announces
  <2>1. queue[k + 1].items = layout[Root]
          \/ \E l \in DOMAIN queue : l > k + 1 /\ Announces(queue[l])
    BY <1>2 DEF ExactInv, LayoutsEnd
  <2>2. ASSUME NEW l \in DOMAIN queue, l > k + 1, Announces(queue[l])
        PROVE  l - 1 \in DOMAIN queue' /\ l - 1 > k /\ Announces(queue'[l - 1])
    <3>1. k \in Nat /\ l \in Nat /\ l # 1
      BY <1>2, <2>2
    <3>2. l - 1 > k
      BY <2>2, <3>1
    <3>3. QED
      BY <1>2, <2>2, <3>1, <3>2
  <2>3. QED
    BY <1>2, <2>1, <2>2
<1>5. \A a : Dooms(queue', a) <=> Dooms(queue, a)
  BY <1>1, TailDooms
<1>6. DoomedLive'
  BY <1>5 DEF ExactInv, DoomedLive, IsFree, objects, Dooms
<1>7. RootExact'
  <2> SUFFICES ASSUME Settled', Root \notin missed' PROVE RootShown'
    BY DEF RootExact
  <2>1. Settled
    BY <1>2, SettledNews
  <2>2. RootShown
    BY <2>1 DEF ExactInv, RootExact
  <2>3. Doomed' = Doomed /\ actions' = actions
    BY <1>5, DoomedIs DEF objects
  <2>4. QED
    BY <2>2, <2>3 DEF RootShown
<1>8. QED
  BY <1>3, <1>4, <1>6, <1>7 DEF ExactInv

\* Calls are added to those under way.
LEMMA RefreshFetches ==
  ASSUME TypeOK, NEW n \in Nat, NEW order \in [1..n -> MenuIds]
  PROVE  /\ Fetching(calls) => Fetching(Refresh(order))
         /\ (\E k \in 1..n : order[k] = Root) => Fetching(Refresh(order))
<1> DEFINE new == [k \in 1..n |-> [method |-> "GetLayout", id |-> order[k]]]
           r   == calls \o new
<1>1. \A k \in 1..n : [method |-> "GetLayout", id |-> order[k]] \in Call
  BY DEF Call
<1>2. new \in Seq(Call) /\ Len(new) = n /\ calls \in Seq(Call)
  BY <1>1 DEF TypeOK
<1>3. Refresh(order) = r
  BY DEF Refresh
<1>4. \A k \in 1..n : new[k] = [method |-> "GetLayout", id |-> order[k]]
  OBVIOUS
<1> HIDE DEF new
<1>5. /\ \A k \in DOMAIN calls : k \in DOMAIN r /\ r[k] = calls[k]
      /\ \A k \in 1..n : Len(calls) + k \in DOMAIN r /\ r[Len(calls) + k] = new[k]
  BY <1>2
<1> HIDE DEF r
<1>6. QED
  BY <1>3, <1>4, <1>5 DEF Fetching

LEMMA NewsExact ==
  ASSUME TypeOK, ExactInv, LayoutFailed \/ LayoutUpdated \/ AboutToShowFinished
  PROVE  ExactInv'
<1>1. CASE LayoutFailed
  <2>1. News(Head(queue)) => Root \in missed'
    BY <1>1 DEF LayoutFailed, News
  <2>2. /\ queue # << >> /\ queue' = Tail(queue) /\ Head(queue).type # "delete"
        /\ UNCHANGED <<objects, layout, updates, calls>> /\ missed \subseteq missed'
    BY <1>1 DEF LayoutFailed, Receive, app
  <2>3. QED
    BY <2>1, <2>2, TakenExact
<1>2. CASE LayoutUpdated
  <2>1. News(Head(queue)) => Root \in missed' \/ Root \in updates'
    BY <1>2 DEF LayoutUpdated, UpdatesWith, News
  <2>2. /\ queue # << >> /\ queue' = Tail(queue) /\ Head(queue).type # "delete"
        /\ UNCHANGED <<objects, layout, calls>>
        /\ missed \subseteq missed' /\ updates \subseteq updates'
    BY <1>2 DEF LayoutUpdated, Receive, app, UpdatesWith
  <2>3. QED
    BY <2>1, <2>2, TakenExact
<1>3. CASE AboutToShowFinished
  <2> DEFINE e == Head(queue)
  <2>1. /\ queue # << >> /\ queue' = Tail(queue) /\ e.type = "shown"
        /\ UNCHANGED <<objects, layout, updates, missed>>
    BY <1>3 DEF AboutToShowFinished, Receive, app
  <2>2. e.id \in MenuIds
    BY <2>1, QueueSteps, EventFields
  <2>3. <<e.id>> \in [1..1 -> MenuIds] /\ <<e.id>>[1] = e.id
    BY <2>2
  <2>4. /\ Fetching(calls) => Fetching(Refresh(<<e.id>>))
        /\ e.id = Root => Fetching(Refresh(<<e.id>>))
    <3> DEFINE order == <<e.id>>
    <3>1. /\ 1 \in Nat /\ 1 \in 1..1 /\ order \in [1..1 -> MenuIds]
          /\ order[1] = e.id
      BY <2>3
    <3> HIDE DEF order, e
    <3>2. /\ Fetching(calls) => Fetching(Refresh(order))
          /\ (\E k \in 1..1 : order[k] = Root) => Fetching(Refresh(order))
      BY <3>1, RefreshFetches
    <3>3. e.id = Root => \E k \in 1..1 : order[k] = Root
      BY <3>1
    <3>4. QED
      BY <3>2, <3>3 DEF order
  <2>5. calls' = calls \/ calls' = Refresh(<<e.id>>)
    BY <1>3 DEF AboutToShowFinished
  <2>6. News(e) => Fetching(calls')
    <3>1. Root # None
      BY NamesAssumption
    <3>2. QED
      BY <1>3, <2>1, <2>4, <3>1 DEF AboutToShowFinished, News, MenuForId
  <2>7. Fetching(calls) => Fetching(calls')
    BY <2>4, <2>5
  <2>8. e.type # "delete"
    BY <2>1
  <2>9. QED
    BY <2>1, <2>6, <2>7, <2>8, TakenExact
<1>4. QED
  BY <1>1, <1>2, <1>3

\* The timer and opened menus add calls.
LEMMA CallsExact ==
  ASSUME TypeOK, ExactInv,
         ProcessPendingLayoutUpdates \/ \E menu \in Menu : UpdateMenu(menu)
  PROVE  ExactInv'
<1>1. /\ UNCHANGED <<layout, queue, objects, missed>>
      /\ Grows(queue, queue', {})
  BY DEF ProcessPendingLayoutUpdates, UpdateMenu, app, Grows
<1>2. Fetching(calls) => Fetching(calls')
  <2>1. CASE ProcessPendingLayoutUpdates
    <3>1. PICK order \in Orders(updates) : calls' = Refresh(order)
      BY <2>1 DEF ProcessPendingLayoutUpdates
    <3>2. Cardinality(updates) \in Nat /\ order \in [1..Cardinality(updates) -> MenuIds]
      BY UpdatesFinite DEF Orders, TypeOK
    <3>3. QED
      BY <3>1, <3>2, RefreshFetches
  <2>2. CASE \E menu \in Menu : UpdateMenu(menu)
    <3>1. PICK menu \in Menu : UpdateMenu(menu)
      BY <2>2
    <3> DEFINE c == [method |-> "AboutToShow", id |-> IdProperty(menu)]
    <3>2. calls' = Append(calls, c) /\ calls \in Seq(Call)
      BY <3>1 DEF UpdateMenu, TypeOK
    <3> HIDE DEF c
    <3>3. \A k \in DOMAIN calls : k \in DOMAIN calls' /\ calls'[k] = calls[k]
      BY <3>2
    <3>4. QED
      BY <3>3 DEF Fetching
  <2>3. QED
    BY <2>1, <2>2
<1>3. Root \in updates => Root \in updates' \/ Fetching(calls')
  <2>1. CASE ProcessPendingLayoutUpdates
    <3>1. PICK order \in Orders(updates) : calls' = Refresh(order)
      BY <2>1 DEF ProcessPendingLayoutUpdates
    <3>2. /\ Cardinality(updates) \in Nat /\ order \in [1..Cardinality(updates) -> MenuIds]
          /\ \A x \in updates : \E k \in 1..Cardinality(updates) : order[k] = x
      BY UpdatesFinite DEF Orders, TypeOK
    <3>3. QED
      BY <3>1, <3>2, RefreshFetches
  <2>2. CASE \E menu \in Menu : UpdateMenu(menu)
    BY <2>2 DEF UpdateMenu
  <2>3. QED
    BY <2>1, <2>2
<1>4. InHome' /\ LayoutsEnd' /\ DoomedLive'
  BY <1>1 DEF ExactInv, InHome, LayoutsEnd, DoomedLive, IsFree, Layouts, IdProperty, objects,
              Dooms, Announces
<1>5. RootExact'
  <2> SUFFICES ASSUME Settled', Root \notin missed' PROVE RootShown'
    BY DEF RootExact
  <2>1. Settled
    BY <1>1, <1>2, <1>3, SettledNews
  <2>2. RootShown
    BY <1>1, <2>1 DEF ExactInv, RootExact
  <2>3. Doomed' = Doomed /\ actions' = actions
    BY <1>1 DEF objects, Doomed
  <2>4. QED
    BY <1>1, <2>2, <2>3 DEF RootShown
<1>6. QED
  BY <1>4, <1>5 DEF ExactInv

\* The menu that a known id names keeps that id.
LEMMA MenuOfId ==
  ASSUME MenuInv, NEW m \in MenuIds, MenuForId(m) # None
  PROVE  /\ MenuForId(m) \in Menu /\ IdProperty(MenuForId(m)) = m
         /\ m = Root <=> MenuForId(m) = Root
<1>1. CASE m = Root
  BY <1>1 DEF MenuForId, IdProperty, Menu
<1>2. CASE m # Root
  <2>1. m \in Ids /\ MenuForId(m) = actionForId[m]
    BY <1>2, MenuAssumption DEF MenuForId, MenuIds
  <2>2. actionForId[m] \in Ids \X Copies /\ actionForId[m][1] = m
    BY <2>1 DEF MenuInv, TypeOK, NoDanglingAction, Action
  <2>3. QED
    BY <1>2, <2>1, <2>2, MenuForIdLives, NamesAssumption DEF IdProperty
<1>3. QED
  BY <1>1, <1>2

\* Actions to be deleted are actions, and exist.
LEMMA DoomedActions ==
  ASSUME TypeOK, NEW a, Dooms(queue, a)
  PROVE  a \in Action
<1>1. PICK k \in DOMAIN queue : queue[k].type = "delete" /\ a \in queue[k].actions
  BY DEF Dooms
<1>2. queue[k] \in Event
  BY DEF TypeOK
<1>3. QED
  BY <1>1, <1>2, EventFields

\* A layout is applied: what the menu shows of it is not to be deleted.
LEMMA LayoutExact ==
  ASSUME MenuInv, MenuInv', ExactInv, LayoutFetched
  PROVE  ExactInv'
<1> DEFINE e     == Head(queue)
           menu  == MenuForId(e.id)
           items == e.items
           rest  == Tail(queue)
<1>1. /\ queue # << >> /\ e.type = "layout" /\ UNCHANGED <<layout, calls, updates>>
      /\ e \in Event /\ e.id \in MenuIds /\ queue \in Seq(Event) /\ TypeOK
  BY QueueSteps, EventFields DEF LayoutFetched, Receive, MenuInv, TypeOK, app
<1>2. CASE menu = None /\ queue' = Tail(queue) /\ UNCHANGED <<objects, missed>>
  <2>1. e.id # Root
    BY <1>2, NamesAssumption DEF MenuForId
  <2>2. ~News(e) /\ e.type # "delete"
    BY <1>1, <2>1 DEF News
  <2>3. QED
    BY <1>1, <1>2, <2>2, TakenExact
<1>3. CASE menu # None /\ ApplyLayout(menu, items) /\ missed' = missed \ {e.id}
  <2> DEFINE old   == Outdated(menu, items)
             kept  == [i \in Ids |-> IF i \in {a[1] : a \in old} THEN None ELSE actionForId[i]]
             fresh == {i \in items : kept[i] = None}
             later == old \ Doomed
             named == {actionForId'[i] : i \in items}
  <2>1. menu \in Menu /\ IdProperty(menu) = e.id /\ (e.id = Root <=> menu = Root)
    BY <1>1, <1>3, MenuOfId
  <2>2. PICK copy \in [fresh -> Copies] :
          LET new == {<<i, copy[i]>> : i \in fresh}
          IN  /\ \A a \in new : IsFree(a)
              /\ owner' = [a \in Action |-> IF a \in new THEN menu ELSE owner[a]]
              /\ actionForId' = [i \in Ids |-> IF i \in fresh THEN <<i, copy[i]>> ELSE kept[i]]
              /\ actions' = [actions EXCEPT ![menu] = @ \cup {actionForId'[i] : i \in items}]
              /\ queue' = IF later = {} THEN Tail(queue)
                          ELSE Append(Tail(queue), [type |-> "delete", actions |-> later])
    BY <1>3 DEF ApplyLayout
  <2> DEFINE new == {<<i, copy[i]>> : i \in fresh}
  <2>3. /\ rest \in Seq(Event) /\ e = queue[1] /\ 1 \in DOMAIN queue
        /\ \A k \in DOMAIN queue : /\ k \in Nat /\ k > 0
                                   /\ k = 1 \/ (k - 1 \in DOMAIN rest /\ rest[k - 1] = queue[k])
        /\ \A k \in DOMAIN rest : k \in Nat /\ k + 1 \in DOMAIN queue /\ queue[k + 1] = rest[k]
    BY <1>1, TailAt
  \* The queue: the rest of it, and what is deleted later.
  <2>4. /\ \A k \in DOMAIN rest : k \in DOMAIN queue' /\ queue'[k] = rest[k]
        /\ \A k \in DOMAIN queue' : k \in DOMAIN rest
             \/ (queue'[k].type = "delete" /\ queue'[k].actions = later)
        /\ later = {} \/ \E k \in DOMAIN queue' : queue'[k].type = "delete" /\ queue'[k].actions = later
    <3> DEFINE d == [type |-> "delete", actions |-> later]
    <3>1. d.type = "delete" /\ d.actions = later
      OBVIOUS
    <3>2. queue' = IF later = {} THEN rest ELSE Append(rest, d)
      BY <2>2
    <3> HIDE DEF d, later, rest
    <3>3. CASE later = {}
      BY <3>2, <3>3
    <3>4. CASE later # {}
      <4>1. queue' = Append(rest, d)
        BY <3>2, <3>4
      <4>2. /\ Len(rest) + 1 \in DOMAIN queue' /\ queue'[Len(rest) + 1] = d
            /\ \A k \in DOMAIN rest : k \in DOMAIN queue' /\ queue'[k] = rest[k]
            /\ \A k \in DOMAIN queue' : k \in DOMAIN rest \/ queue'[k] = d
        BY <2>3, <4>1
      <4>3. QED
        BY <3>1, <4>2
    <3>5. QED
      BY <3>3, <3>4
  <2>5. /\ items \in Layouts(e.id) /\ items \in SUBSET Ids
        /\ old \subseteq actions[menu] /\ old \subseteq Action
        /\ \A a \in old : a[1] \notin items /\ Home[a[1]] = e.id /\ ~IsFree(a)
    <3>1. items \in Layouts(e.id)
      BY <1>1, <2>3 DEF ExactInv, InHome
    <3>2. \A a \in actions[menu] : Home[a[1]] = e.id /\ ~IsFree(a) /\ a \in Action
      BY <2>1 DEF ExactInv, InHome, MenuInv, NoDanglingAction, TypeOK
    <3>3. QED
      BY <3>1, <3>2 DEF Outdated, Layouts
  <2>6. /\ fresh \subseteq items
        /\ \A i \in fresh : actionForId'[i] = <<i, copy[i]>> /\ <<i, copy[i]>> \in new
                            /\ IsFree(<<i, copy[i]>>) /\ <<i, copy[i]>> \in Action
        /\ \A i \in Ids \ fresh : actionForId'[i] = kept[i]
    <3>1. fresh \subseteq items
      OBVIOUS
    <3>2. \A i \in Ids : i \in fresh => actionForId'[i] = <<i, copy[i]>>
      BY <2>2
    <3>3. \A i \in Ids \ fresh : actionForId'[i] = kept[i]
      BY <2>2
    <3>4. \A i \in fresh : <<i, copy[i]>> \in new /\ copy[i] \in Copies
      OBVIOUS
    <3>5. \A a \in new : IsFree(a)
      BY <2>2
    <3> HIDE DEF fresh, new, kept
    <3>6. QED
      BY <2>5, <3>1, <3>2, <3>3, <3>4, <3>5 DEF Action
  <2>7. \A i \in Ids : kept[i] = None
          \/ (kept[i] = actionForId[i] /\ kept[i] \in Action /\ kept[i][1] = i /\ kept[i] \notin old)
    <3>1. \A i \in Ids : kept[i] # None =>
            kept[i] = actionForId[i] /\ \A a \in old : a[1] # i
      OBVIOUS
    <3> HIDE DEF kept, old
    <3>2. QED
      BY <3>1 DEF MenuInv, TypeOK, NoDanglingAction
  <2>8. owner' = [a \in Action |-> IF a \in new THEN menu ELSE owner[a]]
    BY <2>2
  <2>9. actions' = [actions EXCEPT ![menu] = @ \cup named] /\ actions \in [Menu -> SUBSET Action]
    BY <1>1, <2>2 DEF TypeOK
  <2>10. \A a \in new : a[1] \in items /\ a \in Action
    <3>1. \A i \in fresh : <<i, copy[i]>>[1] = i
      OBVIOUS
    <3> HIDE DEF fresh
    <3>2. \A i \in fresh : <<i, copy[i]>>[1] \in items /\ <<i, copy[i]>> \in Action
      BY <2>6, <3>1
    <3>3. QED
      BY <3>2
  <2>11. \A i \in items : i \in Ids /\ actionForId'[i] # None /\ actionForId'[i][1] = i
                          /\ actionForId'[i] \in Action
    <3>1. \A i \in fresh : <<i, copy[i]>>[1] = i
      OBVIOUS
    <3>2. \A i \in fresh : <<i, copy[i]>> # None
      BY <2>6, NamesAssumption DEF Action
    <3>3. \A i \in items : i \notin fresh => kept[i] # None
      OBVIOUS
    <3> HIDE DEF fresh, kept
    <3>4. ASSUME NEW i \in items PROVE i \in Ids /\ actionForId'[i] # None
                                       /\ actionForId'[i][1] = i /\ actionForId'[i] \in Action
      <4>0. i \in Ids
        BY <2>5
      <4>1. CASE i \in fresh
        <5> DEFINE a == <<i, copy[i]>>
        <5>1. a[1] = i /\ a # None
          BY <3>1, <3>2, <4>1
        <5>2. actionForId'[i] = a /\ a \in Action
          BY <2>6, <4>1
        <5> HIDE DEF a
        <5>3. QED
          BY <4>0, <5>1, <5>2
      <4>2. CASE i \notin fresh
        BY <2>6, <2>7, <3>3, <4>0, <4>2
      <4>3. QED
        BY <4>1, <4>2
    <3>5. QED
      BY <3>4
  <2>12. \A a : Dooms(queue', a) <=> Dooms(queue, a) \/ a \in old
    <3>1. \A a : Dooms(queue, a) <=> Dooms(rest, a)
      BY <1>1, <2>3 DEF Dooms
    <3>2. \A a : a \in later <=> a \in old /\ ~Dooms(queue, a)
      BY DoomedIs
    <3> HIDE DEF later, old, rest
    <3>3. \A a : Dooms(queue', a) <=> Dooms(rest, a) \/ a \in later
      BY <2>4 DEF Dooms
    <3>4. QED
      BY <3>1, <3>2, <3>3
  <2> HIDE DEF fresh, kept, later, old, new, named
  <2>13. InHome'
    <3>1. ASSUME NEW k \in DOMAIN queue', queue'[k].type = "layout"
          PROVE  queue'[k].items \in Layouts(queue'[k].id)
      <4>1. k + 1 \in DOMAIN queue /\ queue[k + 1] = queue'[k]
        BY <2>3, <2>4, <3>1
      <4>2. QED
        BY <3>1, <4>1 DEF ExactInv, InHome
    <3>2. ASSUME NEW m \in Menu, NEW a \in actions'[m]
          PROVE  Home[a[1]] = IdProperty(m)
      <4>1. a \in actions[m] \/ (m = menu /\ a \in named)
        BY <2>9
      <4>2. CASE a \in actions[m]
        BY <4>2 DEF ExactInv, InHome
      <4>3. CASE m = menu /\ a \in named
        <5>1. a[1] \in items
          BY <2>11, <4>3 DEF named
        <5>2. QED
          BY <2>1, <2>5, <4>3, <5>1 DEF Layouts
      <4>4. QED
        BY <4>1, <4>2, <4>3
    <3>3. ASSUME NEW a \in Action
          PROVE  owner'[a] = None \/ Home[a[1]] = IdProperty(owner'[a])
      <4>1. CASE a \in new
        BY <2>1, <2>5, <2>8, <2>10, <4>1 DEF Layouts
      <4>2. CASE a \notin new
        BY <2>8, <4>2 DEF ExactInv, InHome
      <4>3. QED
        BY <4>1, <4>2
    <3>4. \A m \in MenuIds : layout'[m] \in Layouts(m)
      BY <1>1 DEF ExactInv, InHome
    <3>5. QED
      BY <3>1, <3>2, <3>3, <3>4 DEF InHome, Layouts, IdProperty
  <2>14. LayoutsEnd'
    <3> SUFFICES ASSUME NEW k \in DOMAIN queue', queue'[k].type = "layout", queue'[k].id = Root
                 PROVE  queue'[k].items = layout'[Root]
                          \/ \E l \in DOMAIN queue' : l > k /\ Announces(queue'[l])
      BY DEF LayoutsEnd, Announces
    <3>1. k \in Nat /\ k + 1 \in DOMAIN queue /\ queue[k + 1] = queue'[k]
      BY <2>3, <2>4
    <3>2. queue[k + 1].items = layout[Root]
            \/ \E l \in DOMAIN queue : l > k + 1 /\ Announces(queue[l])
      BY <3>1 DEF ExactInv, LayoutsEnd
    <3>3. ASSUME NEW l \in DOMAIN queue, l > k + 1, Announces(queue[l])
          PROVE  l - 1 \in DOMAIN queue' /\ l - 1 > k /\ Announces(queue'[l - 1])
      <4>1. l \in Nat /\ l # 1 /\ l - 1 > k
        BY <2>3, <3>1, <3>3
      <4>2. QED
        BY <2>3, <2>4, <3>3, <4>1
    <3>4. QED
      BY <1>1, <3>1, <3>2, <3>3
  <2>15. DoomedLive'
    <3>1. ASSUME NEW a, Dooms(queue', a) PROVE ~(owner'[a] = None)
      <4>1. a \in Action /\ ~IsFree(a)
        BY <1>1, <2>5, <2>12, <3>1, DoomedActions DEF ExactInv, DoomedLive
      <4>2. None \notin Menu
        BY NamesAssumption, MenuAssumption DEF Menu
      <4>3. QED
        BY <2>1, <2>8, <4>1, <4>2 DEF IsFree
    <3>2. ASSUME NEW i \in Ids PROVE ~Dooms(queue', actionForId'[i])
      <4>1. CASE i \in fresh
        <5>1. IsFree(actionForId'[i])
          BY <2>6, <4>1
        <5>2. ~Dooms(queue, actionForId'[i]) /\ actionForId'[i] \notin old
          BY <2>5, <5>1 DEF ExactInv, DoomedLive
        <5>3. QED
          BY <2>12, <5>2
      <4>2. CASE i \notin fresh /\ kept[i] # None
        <5>1. actionForId'[i] = actionForId[i] /\ actionForId[i] \notin old
          BY <2>6, <2>7, <4>2
        <5>2. QED
          BY <2>12, <5>1 DEF ExactInv, DoomedLive
      <4>3. CASE i \notin fresh /\ kept[i] = None
        <5>1. actionForId'[i] = None /\ None \notin Action
          BY <2>6, <4>3, NamesAssumption DEF Action
        <5>2. ~Dooms(queue, None)
          BY <1>1, <5>1, DoomedActions
        <5>3. QED
          BY <2>5, <2>12, <5>1, <5>2
      <4>4. QED
        BY <4>1, <4>2, <4>3
    <3>3. QED
      BY <3>1, <3>2 DEF DoomedLive, IsFree, Dooms
  <2>16. RootExact'
    <3> SUFFICES ASSUME Settled', Root \notin missed' PROVE RootShown'
      BY DEF RootExact
    <3>1. /\ Root \notin updates /\ ~Fetching(calls)
          /\ \A k \in DOMAIN queue : k = 1 \/ ~News(queue[k])
      <4>1. /\ Root \notin updates' /\ ~Fetching(calls')
            /\ \A k \in DOMAIN queue' : ~News(queue'[k])
        BY SettledNews
      <4>2. \A k \in DOMAIN rest : ~News(rest[k])
        BY <2>4, <4>1
      <4>3. \A k \in DOMAIN queue : k = 1 \/ ~News(queue[k])
        <5> HIDE DEF rest
        <5>1. QED
          BY <2>3, <4>2
      <4>4. QED
        BY <1>1, <4>1, <4>3
    <3>2. \A a : a \in Doomed' <=> a \in Doomed \/ a \in old
      BY <2>12, DoomedIs
    <3>3. CASE e.id = Root
      <4>1. items = layout[Root]
        <5>1. items = layout[Root] \/ \E l \in DOMAIN queue : l > 1 /\ Announces(queue[l])
          BY <1>1, <2>3, <3>3 DEF ExactInv, LayoutsEnd
        <5>2. \A l \in DOMAIN queue : l > 1 => ~Announces(queue[l])
          BY <2>3, <3>1 DEF Announces, News
        <5>3. QED
          BY <5>1, <5>2
      <4>2. actions'[Root] = actions[Root] \cup named
        BY <2>1, <2>9, <3>3
      <4>3. \A a \in actions[Root] : a \notin Doomed' => a[1] \in items
        BY <2>1, <3>2, <3>3 DEF Outdated, old
      <4>4. \A a \in named : a[1] \in items
        BY <2>11 DEF named
      <4>5. \A i \in items : actionForId'[i] \in named /\ actionForId'[i] \notin Doomed'
                             /\ actionForId'[i][1] = i
        <5>1. \A i \in Ids : ~Dooms(queue', actionForId'[i])
          BY <2>15 DEF DoomedLive, Dooms
        <5>2. QED
          BY <2>11, <5>1, DoomedIs DEF named
      <4>6. {a[1] : a \in actions'[Root] \ Doomed'} = items
        <5> DEFINE D == Doomed'
                   A == actions'[Root]
        <5>1. \A a \in A \ D : a[1] \in items
          BY <4>2, <4>3, <4>4
        <5>2. \A i \in items : \E a \in A \ D : a[1] = i
          BY <4>2, <4>5
        <5> HIDE DEF D, A
        <5>3. {a[1] : a \in A \ D} = items
          BY <5>1, <5>2
        <5>4. QED
          BY <5>3 DEF A, D
      <4>7. QED
        BY <1>1, <4>1, <4>6 DEF RootShown
    <3>4. CASE e.id # Root
      <4>1. Root \notin missed /\ ~News(queue[1])
        BY <1>3, <2>3, <3>4 DEF News
      <4>2. Settled
        BY <3>1, <4>1, SettledNews
      <4>3. RootShown
        BY <4>1, <4>2 DEF ExactInv, RootExact
      <4>4. actions'[Root] = actions[Root]
        BY <2>1, <2>9, <3>4 DEF Menu
      <4>5. \A a \in actions[Root] : a \notin old
        <5>1. \A a \in actions[Root] : Home[a[1]] = Root
          BY DEF ExactInv, InHome, Menu, IdProperty
        <5>2. QED
          BY <2>5, <3>4, <5>1
      <4>6. actions'[Root] \ Doomed' = actions[Root] \ Doomed
        BY <3>2, <4>4, <4>5
      <4>7. QED
        BY <1>1, <4>3, <4>6 DEF RootShown
    <3>5. QED
      BY <3>3, <3>4
  <2>17. QED
    BY <2>13, <2>14, <2>15, <2>16 DEF ExactInv
<1>4. QED
  BY <1>2, <1>3 DEF LayoutFetched

\* Deleted: nothing but what was to be deleted leaves the importer's menu.
LEMMA DeletionExact ==
  ASSUME MenuInv, ExactInv, ActionsDeleted
  PROVE  ExactInv'
<1> DEFINE batch   == Head(queue).actions
           gone    == batch \cup {a \in Action : owner[a] \in batch}
           rest    == Tail(queue)
           left(e) == IF e.type = "delete" THEN [e EXCEPT !.actions = @ \ gone] ELSE e
<1>1. /\ queue # << >> /\ Head(queue).type = "delete" /\ Head(queue) \in Event
      /\ queue \in Seq(Event) /\ batch \in SUBSET Action /\ TypeOK
      /\ UNCHANGED <<layout, calls, updates, missed>>
  BY QueueSteps, EventFields DEF ActionsDeleted, Receive, MenuInv, TypeOK, app
<1>2. gone \subseteq Action
  BY <1>1
<1>3. /\ owner' = [a \in Action |-> IF a \in gone THEN None ELSE owner[a]]
      /\ actions' = [m \in Menu |-> IF m \in gone THEN {} ELSE actions[m] \ gone]
      /\ actionForId' = ForgetIds(gone)
      /\ queue' = [k \in DOMAIN rest |-> left(rest[k])]
  BY DEF ActionsDeleted
<1>4. /\ rest \in Seq(Event) /\ Head(queue) = queue[1] /\ 1 \in DOMAIN queue
      /\ \A k \in DOMAIN queue : /\ k \in Nat /\ k > 0
                                 /\ k = 1 \/ (k - 1 \in DOMAIN rest /\ rest[k - 1] = queue[k])
      /\ \A k \in DOMAIN rest : k \in Nat /\ k + 1 \in DOMAIN queue /\ queue[k + 1] = rest[k]
  BY <1>1, TailAt
<1>5. /\ batch \subseteq gone
      /\ \A a \in gone : a \in batch \/ owner[a] \in batch
  OBVIOUS
<1> HIDE DEF gone, rest
\* What is left of an event.
<1>6. \A x \in Event : /\ x.type # "delete" => left(x) = x
                       /\ x.type = "delete" => left(x).type = "delete" /\ left(x).actions = x.actions \ gone
  <2> SUFFICES ASSUME NEW x \in Event, x.type = "delete"
               PROVE  LET y == [x EXCEPT !.actions = @ \ gone]
                      IN  y.type = "delete" /\ y.actions = x.actions \ gone
    OBVIOUS
  <2>1. x \in [type : {"delete"}, actions : SUBSET Action]
    BY DEF Event
  <2>2. QED
    BY <2>1
<1> HIDE DEF left
<1>7. DOMAIN queue' = DOMAIN rest /\ \A k \in DOMAIN rest : queue'[k] = left(rest[k]) /\ rest[k] \in Event
  BY <1>3, <1>4
<1>8. /\ \A k \in DOMAIN rest : queue'[k].type = rest[k].type
      /\ \A k \in DOMAIN rest : rest[k].type # "delete" => queue'[k] = rest[k]
      /\ \A k \in DOMAIN rest : rest[k].type = "delete" => queue'[k].actions = rest[k].actions \ gone
  BY <1>6, <1>7
<1>9. /\ \A a : Dooms(queue', a) <=> Dooms(rest, a) /\ a \notin gone
      /\ \A a : Dooms(queue, a) <=> Dooms(rest, a) \/ a \in batch
  <2>1. \A a : Dooms(queue', a) <=> Dooms(rest, a) /\ a \notin gone
    BY <1>7, <1>8 DEF Dooms
  <2>2. \A a : Dooms(queue, a) <=> Dooms(rest, a) \/ a \in batch
    BY <1>1, TailDooms DEF rest
  <2>3. QED
    BY <2>1, <2>2
<1> HIDE DEF batch
<1>10. InHome'
  <2>1. ASSUME NEW k \in DOMAIN queue', queue'[k].type = "layout"
        PROVE  queue'[k].items \in Layouts(queue'[k].id)
    <3>1. k + 1 \in DOMAIN queue /\ queue[k + 1] = queue'[k]
      BY <1>4, <1>7, <1>8, <2>1
    <3>2. QED
      BY <2>1, <3>1 DEF ExactInv, InHome
  <2>2. \A m \in Menu : \A a \in actions'[m] : Home[a[1]] = IdProperty(m)
    BY <1>3 DEF ExactInv, InHome
  <2>3. \A a \in Action : owner'[a] = None \/ Home[a[1]] = IdProperty(owner'[a])
    BY <1>3 DEF ExactInv, InHome
  <2>4. \A m \in MenuIds : layout'[m] \in Layouts(m)
    BY <1>1 DEF ExactInv, InHome
  <2>5. QED
    BY <2>1, <2>2, <2>3, <2>4 DEF InHome, Layouts, IdProperty
<1>11. LayoutsEnd'
  <2> SUFFICES ASSUME NEW k \in DOMAIN queue', queue'[k].type = "layout", queue'[k].id = Root
               PROVE  queue'[k].items = layout'[Root]
                        \/ \E l \in DOMAIN queue' : l > k /\ Announces(queue'[l])
    BY DEF LayoutsEnd, Announces
  <2>1. k \in Nat /\ k + 1 \in DOMAIN queue /\ queue[k + 1] = queue'[k]
    BY <1>4, <1>7, <1>8
  <2>2. queue[k + 1].items = layout[Root]
          \/ \E l \in DOMAIN queue : l > k + 1 /\ Announces(queue[l])
    BY <2>1 DEF ExactInv, LayoutsEnd
  <2>3. ASSUME NEW l \in DOMAIN queue, l > k + 1, Announces(queue[l])
        PROVE  l - 1 \in DOMAIN queue' /\ l - 1 > k /\ Announces(queue'[l - 1])
    <3>1. l \in Nat /\ l # 1 /\ l - 1 > k
      BY <1>4, <2>1, <2>3
    <3>2. l - 1 \in DOMAIN rest /\ rest[l - 1] = queue[l] /\ queue[l].type # "delete"
      BY <1>4, <2>3, <3>1 DEF Announces
    <3>3. QED
      BY <1>7, <1>8, <2>3, <3>1, <3>2
  <2>4. QED
    BY <1>1, <2>1, <2>2, <2>3
<1>12. DoomedLive'
  <2>1. ASSUME NEW a, Dooms(queue', a) PROVE ~(owner'[a] = None)
    <3>1. Dooms(queue, a) /\ a \notin gone
      BY <1>9, <2>1
    <3>2. a \in Action /\ ~IsFree(a)
      BY <1>1, <3>1, DoomedActions DEF ExactInv, DoomedLive
    <3>3. QED
      BY <1>3, <3>1, <3>2 DEF IsFree
  <2>2. ASSUME NEW i \in Ids PROVE ~Dooms(queue', actionForId'[i])
    <3>1. actionForId'[i] = actionForId[i] \/ actionForId'[i] = None
      BY <1>3 DEF ForgetIds
    <3>2. ~Dooms(queue, actionForId[i])
      BY DEF ExactInv, DoomedLive
    <3>3. ~Dooms(queue, None)
      BY <1>1, DoomedActions, NamesAssumption DEF Action
    <3>4. QED
      BY <1>9, <3>1, <3>2, <3>3
  <2>3. QED
    BY <2>1, <2>2 DEF DoomedLive, IsFree, Dooms
<1>13. RootExact'
  <2> SUFFICES ASSUME Settled', Root \notin missed' PROVE RootShown'
    BY DEF RootExact
  <2>1. \A k \in DOMAIN queue : ~News(queue[k])
    <3>1. \A k \in DOMAIN rest : ~News(rest[k])
      BY <1>7, <1>8, SettledNews DEF News
    <3>2. ~News(queue[1])
      BY <1>1, <1>4 DEF News
    <3>3. QED
      BY <1>4, <3>1, <3>2
  <2>2. Settled
    BY <1>1, <2>1, SettledNews
  <2>3. RootShown
    BY <1>1, <2>2 DEF ExactInv, RootExact
  \* An action of the importer's menu is no submenu's child.
  <2>4. ASSUME NEW a \in actions[Root], a \in gone PROVE a \in batch
    <3>1. a \in Action /\ Home[a[1]] = Root /\ owner[a] # None
      BY <1>1 DEF ExactInv, InHome, IdProperty, Menu, MenuInv, NoDanglingAction, IsFree, TypeOK
    <3>2. ASSUME owner[a] \in Action PROVE FALSE
      <4>1. owner[a] # Root /\ owner[a][1] \in Ids
        BY <3>2, NamesAssumption DEF Action
      <4>2. Home[a[1]] = owner[a][1]
        BY <3>1, <4>1 DEF ExactInv, InHome, IdProperty
      <4>3. QED
        BY <3>1, <4>1, <4>2, MenuAssumption
    <3>3. QED
      BY <1>1, <1>5, <2>4, <3>2
  <2>5. actions'[Root] = actions[Root] \ gone
    <3>1. Root \notin gone /\ Root \in Menu
      BY <1>2, NamesAssumption DEF Action, Menu
    <3>2. QED
      BY <1>3, <3>1
  <2>6. actions'[Root] \ Doomed' = actions[Root] \ Doomed
    BY <1>5, <1>9, <2>4, <2>5, DoomedIs
  <2>7. QED
    BY <1>1, <2>3, <2>6 DEF RootShown
<1>14. QED
  BY <1>10, <1>11, <1>12, <1>13 DEF ExactInv

LEMMA ExactStep == MenuInv /\ MenuInv' /\ ExactInv /\ [Next]_vars => ExactInv'
<1> SUFFICES ASSUME MenuInv, MenuInv', ExactInv, [Next]_vars PROVE ExactInv'
  OBVIOUS
<1>0. TypeOK
  BY DEF MenuInv
<1>1. CASE (\E m \in MenuIds : MenuChanges(m)) \/ Answers
  BY <1>0, <1>1, ApplicationExact DEF Answers
<1>2. CASE (\E menu \in Menu : UpdateMenu(menu)) \/ ProcessPendingLayoutUpdates
  BY <1>0, <1>2, CallsExact
<1>3. CASE MainThread
  BY <1>0, <1>3, LayoutExact, NewsExact, DeletionExact DEF MainThread
<1>4. CASE UNCHANGED vars
  BY <1>4 DEF ExactInv, InHome, LayoutsEnd, DoomedLive, RootExact, Settled, RootShown, Doomed,
              Dooms, Announces, IsFree, Layouts, IdProperty, vars, app, objects
<1>5. QED
  BY <1>1, <1>2, <1>3, <1>4 DEF Next

------------------------------------------------------------------------------
(* The theorems *)

\* The importer's objects, the bus and the queue of the main thread stay well
\* typed: an action that is found by its id is an action, a menu is the
\* importer's or that of an item (dbusmenuimporter.cpp, menuForId()).
THEOREM TypeCorrect == Spec => []TypeOK
BY MenuInvariant, PTL DEF MenuInv

\* m_actionForId and the menus never name a deleted action: bare pointers in a
\* QMap are safe although an action is deleted later and its id is taken again
\* before (slotGetLayoutFinished(), lambda on destroyed).
THEOREM ActionsLive == Spec => []NoDanglingAction
BY MenuInvariant, PTL DEF MenuInv

\* Once everything is handled the importer's menu shows the application's items,
\* unless an update was taken for the echo of an AboutToShow or a fetch failed:
\* timer, concurrent fetches and deferred deletions lose no news and no item
\* (slotLayoutUpdated(), processPendingLayoutUpdates(), slotGetLayoutFinished()).
THEOREM MenuExact == Spec => []RootExact
<1>1. Spec => []ExactInv
  BY ExactInit, MenuInvariant, ExactStep, PTL DEF Spec
<1>2. QED
  BY <1>1, PTL DEF ExactInv
==============================================================================
