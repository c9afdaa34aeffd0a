----------------------------- MODULE MenuImporter -----------------------------
(***************************************************************************)
(* The menu of an SNI item: DBusMenuImporter                               *)
(* (plugins/libdbusmenuqt/dbusmenuimporter.cpp) rebuilds an application's  *)
(* com.canonical.dbusmenu menu from the layouts it fetches.                *)
(*                                                                         *)
(* The application answers calls in order and announces its changes; its   *)
(* answers and signals, and the deletions that deleteLater() posts, are    *)
(* handled by the main thread in the order in which they were queued.  An  *)
(* action dropped from a menu therefore lives on for a while, and an item  *)
(* with its id may come back before it is deleted.                         *)
(*                                                                         *)
(* A menu names its items only; their order and properties, titles and     *)
(* requested activations are left out.  Submenus are one level deep.       *)
(***************************************************************************)
EXTENDS Naturals, Sequences, FiniteSets

CONSTANTS
  Root,           \* id 0, and the menu of the importer
  Ids,            \* the ids of the application's items
  Subs,           \* those that have a submenu
  Home,           \* Home[i]: the id of the menu that item i appears in
  Copies,         \* names that tell the actions of one id apart
  None,           \* no action, no menu
  MaxChanges,     \* bound on the changes of the application's menus
  MaxOpens,       \* bound on the calls of updateMenu()
  MaxFailures     \* bound on the calls of GetLayout() that fail

ASSUME MenuAssumption ==
  /\ IsFiniteSet(Ids) /\ Subs \subseteq Ids
  /\ Home \in [Ids -> Subs \cup {Root}] /\ \A s \in Subs : Home[s] = Root
  /\ Root \notin Ids /\ None \notin Ids
ASSUME NamesAssumption ==
  None \notin (Ids \X Copies) \cup {Root} /\ Root \notin Ids \X Copies
ASSUME LimitAssumption ==
  MaxChanges \in Nat /\ MaxOpens \in Nat /\ MaxFailures \in Nat

VARIABLES
  layout,         \* the application's items, menu by menu
  changes,        \* times it changed them so far
  opens,          \* calls of updateMenu() so far
  failures,       \* failed calls so far
  calls,          \* calls the application has not answered yet
  queue,          \* what is posted to the main thread
  owner,          \* the menu an action is a child of, None if it does not exist
  actions,        \* QMenu::actions()
  actionForId,    \* m_actionForId
  marks,          \* m_idsRefreshedByAboutToShow
  updates,        \* m_pendingLayoutUpdates; not empty while its timer runs
  missed          \* menus with news that were not fetched (a history variable)

app     == <<layout, changes, failures>>
objects == <<owner, actions, actionForId>>
vars    == <<app, opens, calls, queue, objects, marks, updates, missed>>

MenuIds == Subs \cup {Root}
Action  == Ids \X Copies                  \* an action and, for Subs, its menu
Menu    == (Subs \X Copies) \cup {Root}
Call    == [method : {"GetLayout", "AboutToShow"}, id : MenuIds]
Event   == [type : {"layout"}, id : MenuIds, items : SUBSET Ids]
             \cup [type : {"failed", "updated"}, id : MenuIds]
             \cup [type : {"shown"}, id : MenuIds, need : BOOLEAN]
             \cup [type : {"delete"}, actions : SUBSET Action]

TypeOK ==
  /\ layout \in [MenuIds -> SUBSET Ids]
  /\ changes \in 0..MaxChanges /\ opens \in 0..MaxOpens /\ failures \in 0..MaxFailures
  /\ calls \in Seq(Call) /\ queue \in Seq(Event)
  /\ owner \in [Action -> Menu \cup {None}]
  /\ actions \in [Menu -> SUBSET Action]
  /\ actionForId \in [Ids -> Action \cup {None}]
  /\ marks \subseteq MenuIds /\ updates \subseteq MenuIds /\ missed \subseteq MenuIds

Layouts(m) == SUBSET {i \in Ids : Home[i] = m}

\* The constructor: refresh(0).
Init ==
  /\ layout \in {l \in [MenuIds -> SUBSET Ids] : \A m \in MenuIds : l[m] \in Layouts(m)}
  /\ changes = 0 /\ opens = 0 /\ failures = 0
  /\ calls = <<[method |-> "GetLayout", id |-> Root]>> /\ queue = << >>
  /\ owner = [a \in Action |-> None]
  /\ actions = [m \in Menu |-> {}]
  /\ actionForId = [i \in Ids |-> None]
  /\ marks = {} /\ updates = {} /\ missed = {}

------------------------------------------------------------------------------
(* The application *)

importer == <<opens, objects, marks, updates, missed>>

Updated(m) == [type |-> "updated", id |-> m]

Change(m, items) ==
  /\ layout' = [layout EXCEPT ![m] = items]
  /\ changes' = changes + (IF items = layout[m] THEN 0 ELSE 1)
  /\ changes' <= MaxChanges

MenuChanges(m) ==
  /\ \E items \in Layouts(m) \ {layout[m]} : Change(m, items)
  /\ queue' = Append(queue, Updated(m))
  /\ UNCHANGED <<failures, calls, importer>>

\* A submenu that is gone cannot be asked for.
Known(m) == m = Root \/ m \in layout[Root]

NextCall(method, m) ==
  /\ calls # << >> /\ Head(calls) = [method |-> method, id |-> m]
  /\ calls' = Tail(calls)

AnswersGetLayout(m) ==
  /\ NextCall("GetLayout", m) /\ Known(m)
  /\ queue' = Append(queue, [type |-> "layout", id |-> m, items |-> layout[m]])
  /\ UNCHANGED <<app, importer>>

FailsGetLayout(m) ==
  /\ NextCall("GetLayout", m)
  /\ failures' = failures + (IF Known(m) THEN 1 ELSE 0) /\ failures' <= MaxFailures
  /\ queue' = Append(queue, [type |-> "failed", id |-> m])
  /\ UNCHANGED <<layout, changes, importer>>

\* A menu may be filled only now.  Applications announce it before they answer,
\* as Qt's do, or afterwards, as KDE's do, or by the answer alone.
AnswersAboutToShow(m) ==
  /\ NextCall("AboutToShow", m) /\ Known(m)
  /\ \E items \in Layouts(m), need \in BOOLEAN :
       LET answer == [type |-> "shown", id |-> m, need |-> need]
       IN  /\ Change(m, items)
           /\ \/ queue' = Append(queue, answer) /\ (need \/ items = layout[m])
              \/ queue' = queue \o <<Updated(m), answer>> /\ items # layout[m]
              \/ queue' = queue \o <<answer, Updated(m)>> /\ items # layout[m]
  /\ UNCHANGED <<failures, importer>>

\* The error answer changes nothing in the importer.
FailsAboutToShow(m) ==
  /\ NextCall("AboutToShow", m) /\ ~Known(m)
  /\ UNCHANGED <<app, queue, importer>>

------------------------------------------------------------------------------
(* The importer *)

Receive(type) == queue # << >> /\ Head(queue).type = type

RefreshFirst(order) ==                                                  \* mutant
  calls \o <<[method |-> "GetLayout", id |-> order[1]]>>
Refresh(order) == calls \o [k \in DOMAIN order |-> [method |-> "GetLayout", id |-> order[k]]]

\* menuForId(): the importer's menu, or that of the action the id names.
MenuForId(m) == IF m = Root THEN Root ELSE actionForId[m]

\* What is deleted later; twice is once.
Doomed == UNION {queue[k].actions : k \in {l \in DOMAIN queue : queue[l].type = "delete"}}

Outdated(menu, items) == {a \in actions[menu] : a[1] \notin items}

IsFree(a) == owner[a] = None

\* slotGetLayoutFinished(): drop what is outdated, update what m_actionForId
\* knows, create the rest.
ApplyLayout(menu, items) ==
  LET old   == Outdated(menu, items)
      kept  == [i \in Ids |-> IF i \in {a[1] : a \in old} THEN None ELSE actionForId[i]]
      fresh == {i \in items : kept[i] = None}
      later == old \ Doomed
  IN  \E copy \in [fresh -> Copies] :
        LET new == {<<i, copy[i]>> : i \in fresh}
        IN  /\ \A a \in new : IsFree(a)
            /\ owner' = [a \in Action |-> IF a \in new THEN menu ELSE owner[a]]
            /\ actionForId' = [i \in Ids |-> IF i \in fresh THEN <<i, copy[i]>> ELSE kept[i]]
            /\ actions' = [actions EXCEPT ![menu] = @ \cup {actionForId'[i] : i \in items}]
            /\ queue' = IF later = {} THEN Tail(queue)
                        ELSE Append(Tail(queue), [type |-> "delete", actions |-> later])

LayoutFetched ==
  /\ Receive("layout")
  /\ LET e == Head(queue)
         menu == MenuForId(e.id)
     IN  \/ /\ menu # None
            /\ ApplyLayout(menu, e.items)
            /\ missed' = missed \ {e.id}
         \/ /\ menu = None
            /\ queue' = Tail(queue)
            /\ UNCHANGED <<objects, missed>>
  /\ UNCHANGED <<app, opens, calls, marks, updates>>

\* Nobody asks again.
LayoutFailed ==
  /\ Receive("failed")
  /\ queue' = Tail(queue)
  /\ missed' = missed \cup {Head(queue).id}
  /\ UNCHANGED <<app, opens, calls, objects, marks, updates>>

\* The lambda on an action's destruction forgets its id, whichever action the
\* id names by now.
KeepIds(gone) == actionForId                                         \* mutant
ForgetIds(gone) ==
  [i \in Ids |-> IF i \in {a[1] : a \in gone} THEN None ELSE actionForId[i]]

\* Deferred deletion of actions and their menus, with the actions in them; what
\* was posted to a deleted object is dropped.
ActionsDeleted ==
  /\ Receive("delete")
  /\ LET batch == Head(queue).actions
         gone  == batch \cup {a \in Action : owner[a] \in batch}
     IN  /\ owner' = [a \in Action |-> IF a \in gone THEN None ELSE owner[a]]
         /\ actions' = [m \in Menu |-> IF m \in gone THEN {} ELSE actions[m] \ gone]
         /\ actionForId' = ForgetIds(gone)
         /\ queue' = [k \in DOMAIN Tail(queue) |->
              LET e == Tail(queue)[k]
              IN  IF e.type = "delete" THEN [e EXCEPT !.actions = @ \ gone] ELSE e]
  /\ UNCHANGED <<app, opens, calls, marks, updates, missed>>

UpdatesIfIdle(m) == IF updates = {} THEN {m} ELSE updates              \* mutant
UpdatesWith(m) == updates \cup {m}

\* slotLayoutUpdated(): a mark takes one update, else the timer is started.
LayoutUpdated ==
  /\ Receive("updated")
  /\ queue' = Tail(queue)
  /\ LET m == Head(queue).id
     IN  \/ /\ m \in marks
            /\ marks' = marks \ {m} /\ missed' = missed \cup {m}
            /\ UNCHANGED updates
         \/ /\ m \notin marks
            /\ updates' = UpdatesWith(m)
            /\ UNCHANGED <<marks, missed>>
  /\ UNCHANGED <<app, opens, calls, objects>>

\* The orders in which a QSet may be walked.
Orders(S) == {f \in [1..Cardinality(S) -> S] : \A x \in S : \E k \in DOMAIN f : f[k] = x}

ProcessPendingLayoutUpdates ==
  /\ updates # {} /\ updates' = {}
  /\ \E order \in Orders(updates) : calls' = Refresh(order)
  /\ UNCHANGED <<app, opens, queue, objects, marks, missed>>

\* The id kept with the menu's action; the importer's menu has none, read as 0.
IdOrNone(menu) == IF menu = Root THEN None ELSE menu[1]                \* mutant
IdProperty(menu) == IF menu = Root THEN Root ELSE menu[1]

\* updateMenu() of the importer's menu or of a submenu that is opened.
UpdateMenu(menu) ==
  /\ menu = Root \/ menu \in actions[Root]
  /\ opens < MaxOpens /\ opens' = opens + 1
  /\ calls' = Append(calls, [method |-> "AboutToShow", id |-> IdProperty(menu)])
  /\ UNCHANGED <<app, queue, objects, marks, updates, missed>>

\* slotAboutToShowDBusCallFinished()
AboutToShowFinished ==
  /\ Receive("shown")
  /\ queue' = Tail(queue)
  /\ LET e == Head(queue)
         menu == MenuForId(e.id)
         empty == menu \in {m \in Menu : actions[m] = {}}
     IN  \/ /\ menu # None /\ (e.need \/ empty)
            /\ marks' = marks \cup {e.id}
            /\ calls' = Refresh(<<e.id>>)
         \/ /\ menu = None \/ ~(e.need \/ empty)
            /\ UNCHANGED <<marks, calls>>
  /\ UNCHANGED <<app, opens, objects, updates, missed>>

------------------------------------------------------------------------------
Answers == \E m \in MenuIds : \/ AnswersGetLayout(m) \/ FailsGetLayout(m)
                              \/ AnswersAboutToShow(m) \/ FailsAboutToShow(m)

MainThread == LayoutFetched \/ LayoutFailed \/ ActionsDeleted \/ LayoutUpdated
                \/ AboutToShowFinished

Next ==
  \/ \E m \in MenuIds : MenuChanges(m)
  \/ \E menu \in Menu : UpdateMenu(menu)
  \/ Answers
  \/ MainThread
  \/ ProcessPendingLayoutUpdates

Spec == Init /\ [][Next]_vars

\* The application answers, or the bus does for it; the event loop runs.
Fairness == WF_vars(Answers) /\ WF_vars(MainThread) /\ WF_vars(ProcessPendingLayoutUpdates)

FairSpec == Spec /\ Fairness

------------------------------------------------------------------------------
(* Properties *)

\* m_actionForId and the menus never name an action that was deleted, although
\* the deletion of one action may come after another took its id, and the
\* deletion of a submenu takes the actions in it.
NoDanglingAction ==
  /\ \A i \in Ids : actionForId[i] # None => ~IsFree(actionForId[i]) /\ actionForId[i][1] = i
  /\ \A m \in Menu : \A a \in actions[m] : ~IsFree(a) /\ (m # Root => ~IsFree(m))

\* Nothing that would bring the layout of the importer's menu is under way.
Settled ==
  /\ Root \notin updates
  /\ [method |-> "GetLayout", id |-> Root] \notin {calls[k] : k \in DOMAIN calls}
  /\ \A k \in DOMAIN queue :
       queue[k].type = "delete" \/ queue[k].id # Root
         \/ (queue[k].type = "shown" /\ ~queue[k].need)

\* The menu shows the application's items, as far as it is not to be deleted.
RootShown == {a[1] : a \in actions[Root] \ Doomed} = layout[Root]

\* Once everything is handled the menu shows the application's items: it is stale
\* only when an update was taken for the echo of an AboutToShow or a fetch failed,
\* and nothing was fetched since.  No interleaving of the updates' timer, of
\* fetches of the same menu and of late deletions loses or keeps an item.
RootExact == Settled => Root \in missed \/ RootShown

\* Once the application changes its menus no more, the menu becomes exact, or an
\* update of it was missed.
RootSettles == <>[](Root \in missed \/ RootShown)
==============================================================================
