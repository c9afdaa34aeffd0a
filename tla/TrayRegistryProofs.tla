------------------------- MODULE TrayRegistryProofs --------------------------
(***************************************************************************)
(* Theorems about TrayRegistry for any applications and any bounds.        *)
(***************************************************************************)
EXTENDS TrayRegistry, FiniteSetTheorems, TLAPS

\* A handler, and whatever is under way to become one, has its application's
\* process or none.
OwnPids ==
  /\ \A j \in BagToSet(jobs) : j.pid \in {ItemPid[j.item], NoPid}
  /\ \A k \in DOMAIN posted : posted[k].pid \in {ItemPid[posted[k].item], NoPid}
  /\ \A i \in SniItems : sni[i].pid \in {ItemPid[i], NoPid}
  /\ \A w \in XembedWindows : xembed[w].pid \in {WindowPid[w], NoPid}

\* An application with one item and one window.
Application(i, w) == Alone(i, w) /\ ItemPid[i] = WindowPid[w]

\* An item that is shown has claimed its process, and a process that is claimed
\* has no window shown.
Claim(i, w) ==
  /\ i \in SniItems /\ sni[i].pid = ItemPid[i] => registeredMap[ItemPid[i]] = "SNI"
  /\ registeredMap[ItemPid[i]] = "SNI" => ~(w \in XembedWindows /\ xembed[w].pid = WindowPid[w])

Claims == \A i \in Items, w \in Windows : Application(i, w) => Claim(i, w)

RegistryInv == TypeOK /\ OwnPids /\ Claims

------------------------------------------------------------------------------
(* Lemmas about bags, queues and ids *)

LEMMA BagWithSet ==
  ASSUME NEW B, IsABag(B), NEW S
  PROVE  /\ IsABag(B (+) SetToBag(S)) /\ BagToSet(B (+) SetToBag(S)) = BagToSet(B) \cup S
         /\ IsABag(B (-) SetToBag(S)) /\ BagToSet(B (-) SetToBag(S)) \subseteq BagToSet(B)
<1>1. IsABag(B (+) SetToBag(S)) /\ BagToSet(B (+) SetToBag(S)) = BagToSet(B) \cup S
  BY DEF IsABag, BagToSet, SetToBag, (+)
<1>2. IsABag(B (-) SetToBag(S)) /\ BagToSet(B (-) SetToBag(S)) \subseteq BagToSet(B)
  BY DEF IsABag, BagToSet, SetToBag, (-)
<1>3. QED
  BY <1>1, <1>2

\* Ids have the base that was asked for, and a suffix.
LEMMA UniqueIdsTyped ==
  ASSUME NEW S, NEW base \in [S -> Bases], NEW ids \in UniqueIds(base)
  PROVE  ids \in [S -> Id]
<1>1. PICK k \in [S -> 0..MaxSuffix] : ids = [x \in S |-> [base |-> base[x], suffix |-> k[x]]]
  BY DEF UniqueIds
<1>2. QED
  BY <1>1 DEF Id

LEMMA HandlersTyped ==
  ASSUME TypeOK
  PROVE  /\ \A i \in SniItems : sni[i] \in Handler
         /\ \A w \in XembedWindows : xembed[w] \in Handler
         /\ SniItems \subseteq Items /\ XembedWindows \subseteq Windows
         /\ posted # << >> => /\ Head(posted) \in Posted /\ Head(posted) = posted[1]
                              /\ 1 \in DOMAIN posted
                              /\ Tail(posted) \in Seq(Posted)
                              /\ \A k \in DOMAIN Tail(posted) :
                                   k + 1 \in DOMAIN posted /\ Tail(posted)[k] = posted[k + 1]
<1>1. /\ \A i \in SniItems : sni[i] \in Handler
      /\ \A w \in XembedWindows : xembed[w] \in Handler
      /\ SniItems \subseteq Items /\ XembedWindows \subseteq Windows
  BY DEF TypeOK, SniItems, XembedWindows
<1>2. ASSUME posted # << >>
      PROVE  /\ Head(posted) \in Posted /\ Head(posted) = posted[1] /\ 1 \in DOMAIN posted
             /\ Tail(posted) \in Seq(Posted)
             /\ \A k \in DOMAIN Tail(posted) :
                  k + 1 \in DOMAIN posted /\ Tail(posted)[k] = posted[k + 1]
  BY <1>2 DEF TypeOK
<1>3. QED
  BY <1>1, <1>2

LEMMA AppendKeeps ==
  ASSUME NEW S, NEW queue \in Seq(S), NEW last
  PROVE  \A k \in DOMAIN Append(queue, last) :
           \/ k \in DOMAIN queue /\ Append(queue, last)[k] = queue[k]
           \/ Append(queue, last)[k] = last
OBVIOUS

------------------------------------------------------------------------------
(* Type correctness *)

LEMMA TypeInit == Init => TypeOK
<1> SUFFICES ASSUME Init PROVE TypeOK
  OBVIOUS
<1>1. IsABag(jobs) /\ BagToSet(jobs) = {}
  BY DEF Init, EmptyBag, SetToBag, IsABag, BagToSet
<1>2. posted \in Seq(Posted)
  BY DEF Init
<1>3. notices \in 0..MaxNotices /\ restarts \in 0..MaxRestarts /\ sweeps \in 0..MaxSweeps
  BY LimitAssumption DEF Init
<1>4. QED
  BY <1>1, <1>2, <1>3 DEF Init, TypeOK, SniItems

LEMMA TypeStep == TypeOK /\ [Next]_vars => TypeOK'
<1> SUFFICES ASSUME TypeOK, [Next]_vars PROVE TypeOK'
  OBVIOUS
<1> USE DEF watcher, manager, pool
<1>1. ASSUME NEW i \in Items, ItemRegisters(i) \/ ItemLeaves(i) PROVE TypeOK'
  <2>1. list' \subseteq running' /\ running' \subseteq Items /\ notices' \in 0..MaxNotices
    BY <1>1, LimitAssumption DEF ItemRegisters, ItemLeaves, Notify, TypeOK
  <2>2. QED
    BY <1>1, <2>1 DEF ItemRegisters, ItemLeaves, tray, TypeOK, BagToSet, SniItems
<1>2. CASE WatcherRestarts
  <2>1. restarts' \in 0..MaxRestarts
    BY <1>2, LimitAssumption DEF WatcherRestarts, TypeOK
  <2>2. QED
    BY <1>2, <2>1 DEF WatcherRestarts, tray, TypeOK, BagToSet, SniItems
<1>3. ASSUME NEW w \in Windows, IconDocks(w) \/ IconUndocks(w) \/ WindowDestroyed(w)
      PROVE  TypeOK'
  <2>1. windows' \subseteq Windows /\ icons' \subseteq Windows /\ sweeps' \in 0..MaxSweeps
    BY <1>3, LimitAssumption DEF IconDocks, IconUndocks, WindowDestroyed, StartSweep, TypeOK
  <2>2. QED
    BY <1>3, <2>1 DEF IconDocks, IconUndocks, WindowDestroyed, tray, TypeOK, BagToSet, SniItems
<1>4. ASSUME NEW j \in BagToSet(jobs), WorkerFindsPid(j) PROVE TypeOK'
  <2> DEFINE next == [item |-> j.item, asked |-> TRUE,
                      pid |-> IF j.item \in running THEN ItemPid[j.item] ELSE NoPid]
  <2>1. next \in Job
    BY ProcessAssumption DEF TypeOK, Job, AnyPid
  <2>2. jobs' = (jobs (-) SetToBag({j})) (+) SetToBag({next})
    BY <1>4 DEF WorkerFindsPid
  <2>3. IsABag(jobs') /\ BagToSet(jobs') \subseteq BagToSet(jobs) \cup {next}
    <3> DEFINE rest == jobs (-) SetToBag({j})
    <3>1. IsABag(rest) /\ BagToSet(rest) \subseteq BagToSet(jobs)
      BY BagWithSet DEF TypeOK
    <3>2. jobs' = rest (+) SetToBag({next})
      BY <2>2
    <3> HIDE DEF rest, next
    <3>3. QED
      BY <3>1, <3>2, BagWithSet
  <2>4. QED
    BY <1>4, <2>1, <2>3 DEF WorkerFindsPid, TypeOK, SniItems
<1>5. ASSUME NEW j \in BagToSet(jobs), WorkerPostsHandler(j) PROVE TypeOK'
  <2>1. IsABag(jobs') /\ BagToSet(jobs') \subseteq BagToSet(jobs)
    BY <1>5, BagWithSet DEF WorkerPostsHandler, TypeOK
  <2> DEFINE base == [i \in {j.item} |-> IF i \in running THEN ItemName[i] ELSE NoName]
  <2>2. PICK ids \in UniqueIds(base) :
          /\ posted' = Append(posted, [item |-> j.item, pid |-> j.pid, id |-> ids[j.item]])
          /\ currentIds' = currentIds \cup Remembered({ids[j.item]})
    BY <1>5 DEF WorkerPostsHandler
  <2>3. j \in Job /\ j.item \in Items /\ base \in [{j.item} -> Bases]
    <3>1. j \in Job /\ j.item \in Items
      BY DEF TypeOK, Job
    <3>2. QED
      BY <3>1 DEF Bases
  <2>4. ids[j.item] \in Id
    <3> HIDE DEF base
    <3>1. ids \in [{j.item} -> Id]
      BY <2>2, <2>3, UniqueIdsTyped
    <3>2. QED
      BY <3>1
  <2>5. posted' \in Seq(Posted)
    BY <2>2, <2>3, <2>4 DEF TypeOK, Job, Posted
  <2>6. currentIds' \subseteq Id
    BY <2>2, <2>4 DEF Remembered, TypeOK
  <2>7. QED
    BY <1>5, <2>1, <2>5, <2>6 DEF WorkerPostsHandler, TypeOK, SniItems
<1>6. CASE RegistedItemChanged
  <2>1. notices' \in 0..MaxNotices
    BY <1>6, LimitAssumption DEF RegistedItemChanged, TypeOK
  <2>2. CASE UNCHANGED <<jobs, pending, sni, registeredMap, currentIds, widgets>>
    BY <1>6, <2>1, <2>2 DEF RegistedItemChanged, TypeOK, BagToSet, SniItems
  <2>3. CASE UpdateItems
    <3> DEFINE started == [item : NewItems, pid : {NoPid}, asked : {FALSE}]
    <3>1. started \subseteq Job
      BY DEF NewItems, Job, AnyPid, TypeOK
    <3>2. IsABag(jobs') /\ BagToSet(jobs') \subseteq Job
      <4>1. jobs' = jobs (+) SetToBag(started) /\ IsABag(jobs)
        BY <2>3 DEF UpdateItems, TypeOK
      <4> HIDE DEF started
      <4>2. IsABag(jobs') /\ BagToSet(jobs') = BagToSet(jobs) \cup started
        BY <4>1, BagWithSet
      <4>3. QED
        BY <3>1, <4>2 DEF TypeOK
    <3>3. sni' \in [Items -> Handler \cup {NoHandler}]
      BY <2>3 DEF UpdateItems, RemoveGone, Without, TypeOK
    <3>4. /\ registeredMap' \in [AnyPid -> {"UNKNOWN", "XEMBED", "SNI"}]
          /\ currentIds' \subseteq Id /\ widgets' \subseteq [id : Id, owner : Items \cup Windows]
      BY <2>3 DEF UpdateItems, RemoveGone, TrayDestroyed, TypeOK
    <3>5. pending' \subseteq Items \ SniItems'
      BY <2>3 DEF UpdateItems, RemoveGone, Without, NewItems, TypeOK, SniItems
    <3>6. QED
      BY <1>6, <2>1, <3>2, <3>3, <3>4, <3>5 DEF RegistedItemChanged, TypeOK
  <2>4. QED
    BY <1>6, <2>2, <2>3 DEF RegistedItemChanged
<1>7. CASE HandlerAdopted
  <2> DEFINE h == Head(posted)
  <2>1. h \in Posted /\ Tail(posted) \in Seq(Posted)
    BY <1>7, HandlersTyped DEF HandlerAdopted
  <2>2. PICK out \in RoomFor(h.pid) :
          LET ids == {xembed[w].id : w \in out}
          IN  /\ xembed' = [w \in Windows |-> IF w \in out THEN NoHandler ELSE xembed[w]]
              /\ currentIds' = currentIds \ ids
              /\ widgets' = TrayCreated(TrayDestroyed(widgets, ids),
                                        {[id |-> h.id, owner |-> h.item]})
    BY <1>7 DEF HandlerAdopted
  <2>3. /\ posted' = Tail(posted) /\ pending' = pending \ {h.item}
        /\ registeredMap' = [registeredMap EXCEPT ![h.pid] = "SNI"]
        /\ sni' = [sni EXCEPT ![h.item] = [pid |-> h.pid, id |-> h.id]]
        /\ UNCHANGED <<watcher, notices, manager, sweeps, jobs>>
    BY <1>7 DEF HandlerAdopted
  <2>4. h.item \in Items /\ h.pid \in AnyPid /\ h.id \in Id
    BY <2>1 DEF Posted
  <2> HIDE DEF h
  <2>5. xembed' \in [Windows -> Handler \cup {NoHandler}] /\ currentIds' \subseteq Id
    BY <2>2 DEF TypeOK
  <2>6. widgets' \subseteq [id : Id, owner : Items \cup Windows]
    BY <2>2, <2>4 DEF TypeOK, TrayCreated, TrayDestroyed
  <2>7. /\ sni' \in [Items -> Handler \cup {NoHandler}]
        /\ registeredMap' \in [AnyPid -> {"UNKNOWN", "XEMBED", "SNI"}]
    BY <2>3, <2>4 DEF TypeOK, Handler
  <2>8. pending' \subseteq Items \ SniItems'
    BY <2>3 DEF TypeOK, SniItems
  <2>9. QED
    BY <2>1, <2>3, <2>5, <2>6, <2>7, <2>8 DEF TypeOK, BagToSet
<1>8. CASE HandlerDropped
  <2>1. Tail(posted) \in Seq(Posted)
    BY <1>8, HandlersTyped DEF HandlerDropped
  <2>2. QED
    BY <1>8, <2>1 DEF HandlerDropped, TypeOK, BagToSet, SniItems
<1>9. CASE Sweep
  <2> DEFINE new == {w \in icons \ XembedWindows : NotShownBySni(w)}
             gone == XembedWindows \ icons
             freed == {xembed[w].id : w \in gone}
             base == [w \in new |-> PidNow(w)]
  <2>1. PICK id \in UniqueIds(base) :
          /\ xembed' = [w \in Windows |->
               IF w \in new THEN [pid |-> PidNow(w), id |-> id[w]]
               ELSE IF w \in gone THEN NoHandler ELSE xembed[w]]
          /\ registeredMap' = [p \in AnyPid |->
               IF \E w \in gone : xembed[w].pid = p THEN "UNKNOWN"
               ELSE IF \E w \in new : PidNow(w) = p THEN "XEMBED"
               ELSE registeredMap[p]]
          /\ currentIds' = (currentIds \cup Remembered({id[w] : w \in new})) \ freed
          /\ widgets' = TrayDestroyed(TrayCreated(widgets, {[id |-> id[w], owner |-> w] : w \in new}),
                                      freed)
    BY <1>9 DEF Sweep
  <2>2. \A w \in new : w \in Windows /\ PidNow(w) \in AnyPid
    BY ProcessAssumption DEF TypeOK, PidNow, AnyPid
  <2>3. \A w \in new : id[w] \in Id
    <3>1. base \in [new -> Bases]
      BY <2>2 DEF Bases
    <3> HIDE DEF new, base
    <3>2. QED
      BY <2>1, <3>1, UniqueIdsTyped
  <2>4. sweeps' \in 0..MaxSweeps /\ UNCHANGED <<watcher, notices, manager, pool, pending, sni>>
    BY <1>9, LimitAssumption DEF Sweep, TypeOK
  <2> HIDE DEF new, gone, freed, base
  <2>5. xembed' \in [Windows -> Handler \cup {NoHandler}]
    BY <2>1, <2>2, <2>3 DEF TypeOK, Handler
  <2>6. registeredMap' \in [AnyPid -> {"UNKNOWN", "XEMBED", "SNI"}]
    BY <2>1 DEF TypeOK
  <2>7. currentIds' \subseteq Id /\ widgets' \subseteq [id : Id, owner : Items \cup Windows]
    BY <2>1, <2>2, <2>3 DEF TypeOK, Remembered, TrayDestroyed, TrayCreated
  <2>8. QED
    BY <2>4, <2>5, <2>6, <2>7 DEF TypeOK, BagToSet, SniItems
<1>10. CASE UNCHANGED vars
  BY <1>10 DEF vars, TypeOK, BagToSet, SniItems
<1>11. QED
  BY <1>1, <1>2, <1>3, <1>4, <1>5, <1>6, <1>7, <1>8, <1>9, <1>10 DEF Next, Worker, MainThread

------------------------------------------------------------------------------
(* Processes *)

LEMMA PidsInit == Init => OwnPids
BY DEF Init, OwnPids, EmptyBag, SetToBag, BagToSet, SniItems, XembedWindows

LEMMA PidsStep == TypeOK /\ OwnPids /\ [Next]_vars => OwnPids'
<1> SUFFICES ASSUME TypeOK, OwnPids, [Next]_vars PROVE OwnPids'
  OBVIOUS
<1> USE DEF watcher, manager, pool
<1>1. ASSUME UNCHANGED <<pool, sni, xembed>> PROVE OwnPids'
  BY <1>1 DEF OwnPids, SniItems, XembedWindows, BagToSet
<1>2. ASSUME NEW i \in Items, ItemRegisters(i) \/ ItemLeaves(i) PROVE OwnPids'
  BY <1>1, <1>2 DEF ItemRegisters, ItemLeaves, tray
<1>3. CASE WatcherRestarts
  BY <1>1, <1>3 DEF WatcherRestarts, tray
<1>4. ASSUME NEW w \in Windows, IconDocks(w) \/ IconUndocks(w) \/ WindowDestroyed(w)
      PROVE  OwnPids'
  BY <1>1, <1>4 DEF IconDocks, IconUndocks, WindowDestroyed, tray
<1>5. ASSUME NEW j \in BagToSet(jobs), WorkerFindsPid(j) PROVE OwnPids'
  <2> DEFINE next == [item |-> j.item, asked |-> TRUE,
                      pid |-> IF j.item \in running THEN ItemPid[j.item] ELSE NoPid]
             rest == jobs (-) SetToBag({j})
  <2>1. next.pid \in {ItemPid[next.item], NoPid}
    OBVIOUS
  <2>2. IsABag(rest) /\ BagToSet(rest) \subseteq BagToSet(jobs)
    BY BagWithSet DEF TypeOK
  <2>3. jobs' = rest (+) SetToBag({next}) /\ UNCHANGED <<posted, sni, xembed>>
    BY <1>5 DEF WorkerFindsPid
  <2> HIDE DEF rest, next
  <2>4. BagToSet(jobs') \subseteq BagToSet(jobs) \cup {next}
    BY <2>2, <2>3, BagWithSet
  <2>5. QED
    BY <2>1, <2>3, <2>4 DEF OwnPids, SniItems, XembedWindows
<1>6. ASSUME NEW j \in BagToSet(jobs), WorkerPostsHandler(j) PROVE OwnPids'
  <2>1. BagToSet(jobs') \subseteq BagToSet(jobs)
    BY <1>6, BagWithSet DEF WorkerPostsHandler, TypeOK
  <2>2. PICK h : /\ posted' = Append(posted, h)
                 /\ h.item = j.item /\ h.pid = j.pid
    BY <1>6 DEF WorkerPostsHandler
  <2>3. \A k \in DOMAIN posted' : (k \in DOMAIN posted /\ posted'[k] = posted[k]) \/ posted'[k] = h
    <3>1. posted \in Seq(Posted) /\ posted' = Append(posted, h)
      BY <2>2 DEF TypeOK
    <3>2. QED
      BY <3>1, AppendKeeps
  <2>4. h.pid \in {ItemPid[h.item], NoPid}
    BY <2>2 DEF OwnPids
  <2>5. \A k \in DOMAIN posted' : posted'[k].pid \in {ItemPid[posted'[k].item], NoPid}
    BY <2>3, <2>4 DEF OwnPids
  <2>6. UNCHANGED <<sni, xembed>>
    BY <1>6 DEF WorkerPostsHandler
  <2>7. QED
    BY <2>1, <2>5, <2>6 DEF OwnPids, SniItems, XembedWindows
<1>7. CASE RegistedItemChanged
  <2>1. CASE UNCHANGED <<jobs, pending, sni, registeredMap, currentIds, widgets>>
    BY <1>1, <1>7, <2>1 DEF RegistedItemChanged
  <2>2. CASE UpdateItems
    <3> DEFINE started == [item : NewItems, pid : {NoPid}, asked : {FALSE}]
    <3>1. jobs' = jobs (+) SetToBag(started) /\ IsABag(jobs)
      BY <2>2 DEF UpdateItems, TypeOK
    <3>2. \A j \in started : j.pid = NoPid
      OBVIOUS
    <3> HIDE DEF started
    <3>3. BagToSet(jobs') = BagToSet(jobs) \cup started
      BY <3>1, BagWithSet
    <3>4. \A i \in SniItems' : i \in SniItems /\ sni'[i] = sni[i]
      BY <2>2 DEF UpdateItems, RemoveGone, Without, SniItems
    <3>5. QED
      BY <1>7, <3>2, <3>3, <3>4 DEF RegistedItemChanged, OwnPids, XembedWindows
  <2>3. QED
    BY <1>7, <2>1, <2>2 DEF RegistedItemChanged
<1>8. CASE HandlerAdopted
  <2> DEFINE h == Head(posted)
  <2>1. /\ h = posted[1] /\ 1 \in DOMAIN posted /\ posted' = Tail(posted)
        /\ \A k \in DOMAIN Tail(posted) : k + 1 \in DOMAIN posted /\ Tail(posted)[k] = posted[k + 1]
    BY <1>8, HandlersTyped DEF HandlerAdopted
  <2>2. \A k \in DOMAIN posted' : posted'[k].pid \in {ItemPid[posted'[k].item], NoPid}
    BY <2>1 DEF OwnPids
  <2>3. \A w \in XembedWindows' : w \in XembedWindows /\ xembed'[w] = xembed[w]
    BY <1>8 DEF HandlerAdopted, XembedWindows
  <2>4. \A i \in SniItems' : sni'[i].pid \in {ItemPid[i], NoPid}
    <3>1. h.pid \in {ItemPid[h.item], NoPid}
      BY <2>1 DEF OwnPids
    <3>2. sni' = [sni EXCEPT ![h.item] = [pid |-> h.pid, id |-> h.id]]
      BY <1>8 DEF HandlerAdopted
    <3> HIDE DEF h
    <3>3. sni \in [Items -> Handler \cup {NoHandler}]
      BY DEF TypeOK
    <3>4. \A i \in Items : sni'[i] = sni[i] \/ (i = h.item /\ sni'[i].pid = h.pid)
      BY <3>2, <3>3
    <3>5. QED
      BY <3>1, <3>4 DEF OwnPids, SniItems
  <2>5. QED
    BY <1>8, <2>2, <2>3, <2>4 DEF HandlerAdopted, OwnPids
<1>9. CASE HandlerDropped
  <2>1. /\ posted' = Tail(posted)
        /\ \A k \in DOMAIN Tail(posted) : k + 1 \in DOMAIN posted /\ Tail(posted)[k] = posted[k + 1]
    BY <1>9, HandlersTyped DEF HandlerDropped
  <2>2. QED
    BY <1>9, <2>1 DEF HandlerDropped, OwnPids, SniItems, XembedWindows
<1>10. CASE Sweep
  <2>1. \A w \in XembedWindows' : \/ w \in XembedWindows /\ xembed'[w] = xembed[w]
                                 \/ xembed'[w].pid = PidNow(w)
    BY <1>10 DEF Sweep, XembedWindows
  <2>2. \A w \in XembedWindows' : PidNow(w) \in {WindowPid[w], NoPid}
    BY DEF PidNow
  <2>3. \A w \in XembedWindows' : xembed'[w].pid \in {WindowPid[w], NoPid}
    BY <2>1, <2>2 DEF OwnPids
  <2>4. UNCHANGED <<jobs, posted, sni>>
    BY <1>10 DEF Sweep
  <2>5. QED
    BY <2>3, <2>4 DEF OwnPids, SniItems, BagToSet
<1>11. CASE UNCHANGED vars
  BY <1>1, <1>11 DEF vars
<1>12. QED
  BY <1>2, <1>3, <1>4, <1>5, <1>6, <1>7, <1>8, <1>9, <1>10, <1>11 DEF Next, Worker, MainThread

------------------------------------------------------------------------------
(* Claims *)

\* Of an application with one item and one window, only they have its process.
LEMMA OnlyApplication ==
  ASSUME TypeOK, OwnPids, NEW i \in Items, NEW w \in Windows, Application(i, w)
  PROVE  /\ ItemPid[i] = WindowPid[w] /\ ItemPid[i] \in AnyPid /\ ItemPid[i] # NoPid
         /\ \A j \in SniItems : sni[j].pid = ItemPid[i] => j = i
         /\ \A v \in XembedWindows : xembed[v].pid = ItemPid[i] => v = w
         /\ \A v \in Windows : PidNow(v) = ItemPid[i] => v = w
         /\ \A k \in DOMAIN posted : posted[k].pid = ItemPid[i] /\ posted[k].item \in Items
                                     => posted[k].item = i
BY ProcessAssumption DEF OwnPids, Application, Alone, PidNow, AnyPid, SniItems, XembedWindows

LEMMA ClaimsInit == Init => Claims
BY ProcessAssumption DEF Init, Claims, Claim, SniItems, XembedWindows, AnyPid

LEMMA ClaimsStep == RegistryInv /\ [Next]_vars => Claims'
<1> SUFFICES ASSUME RegistryInv, [Next]_vars,
                    NEW i \in Items, NEW w \in Windows, Application(i, w)
             PROVE  Claim(i, w)'
  BY DEF Claims, Application, Alone
<1> USE DEF RegistryInv, watcher, manager, pool
<1> DEFINE pid == ItemPid[i]
<1>0. Claim(i, w)
  BY DEF Claims
<1>1. /\ pid = WindowPid[w] /\ pid \in AnyPid /\ pid # NoPid
      /\ \A j \in SniItems : sni[j].pid = pid => j = i
      /\ \A v \in XembedWindows : xembed[v].pid = pid => v = w
      /\ \A v \in Windows : PidNow(v) = pid => v = w
  BY OnlyApplication
<1> HIDE DEF pid
<1>2. ASSUME UNCHANGED <<sni, xembed, registeredMap>> PROVE Claim(i, w)'
  BY <1>0, <1>2 DEF Claim, SniItems, XembedWindows
<1>3. CASE RegistedItemChanged
  <2>1. CASE UpdateItems
    <3>1. UNCHANGED xembed
      BY <1>3 DEF RegistedItemChanged
    <3>2. registeredMap'[pid] = IF \E j \in SniItems \ list : sni[j].pid = pid
                                  THEN "UNKNOWN" ELSE registeredMap[pid]
      BY <1>1, <2>1 DEF UpdateItems, RemoveGone
    <3>3. i \in SniItems' => i \in SniItems /\ i \in list /\ sni'[i] = sni[i]
      BY <2>1 DEF UpdateItems, RemoveGone, Without, SniItems
    <3>4. QED
      BY <1>0, <1>1, <3>1, <3>2, <3>3 DEF Claim, XembedWindows, pid
  <2>2. QED
    BY <1>2, <1>3, <2>1 DEF RegistedItemChanged
<1>4. CASE HandlerAdopted
  <2> DEFINE h == Head(posted)
  <2>1. /\ h.item \in Items /\ h.pid \in AnyPid /\ (h.pid = pid => h.item = i)
    <3>1. h \in Posted /\ h = posted[1] /\ 1 \in DOMAIN posted
      BY <1>4, HandlersTyped DEF HandlerAdopted
    <3>2. QED
      BY <3>1, OnlyApplication DEF Posted, pid
  <2>2. PICK out \in RoomFor(h.pid) :
          xembed' = [v \in Windows |-> IF v \in out THEN NoHandler ELSE xembed[v]]
    BY <1>4 DEF HandlerAdopted
  <2>3. /\ registeredMap' = [registeredMap EXCEPT ![h.pid] = "SNI"]
        /\ sni' = [sni EXCEPT ![h.item] = [pid |-> h.pid, id |-> h.id]]
    BY <1>4 DEF HandlerAdopted
  <2> HIDE DEF h
  <2>4. /\ registeredMap'[pid] = IF h.pid = pid THEN "SNI" ELSE registeredMap[pid]
        /\ sni'[i] = sni[i] \/ (i = h.item /\ sni'[i].pid = h.pid)
    BY <1>1, <2>1, <2>3 DEF TypeOK
  <2>5. w \in XembedWindows' => w \in XembedWindows /\ w \notin out /\ xembed'[w] = xembed[w]
    BY <2>2 DEF XembedWindows
  <2>6. h.pid = pid /\ registeredMap[pid] # "SNI"
          => ~(w \in XembedWindows' /\ xembed'[w].pid = pid)
    BY <1>1, <2>2, <2>5 DEF RoomFor
  <2>7. QED
    BY <1>0, <1>1, <2>4, <2>5, <2>6 DEF Claim, SniItems, pid
<1>5. CASE Sweep
  <2> DEFINE new == {v \in icons \ XembedWindows : NotShownBySni(v)}
             gone == XembedWindows \ icons
  <2>1. PICK id :
          /\ xembed' = [v \in Windows |->
               IF v \in new THEN [pid |-> PidNow(v), id |-> id[v]]
               ELSE IF v \in gone THEN NoHandler ELSE xembed[v]]
          /\ registeredMap' = [p \in AnyPid |->
               IF \E v \in gone : xembed[v].pid = p THEN "UNKNOWN"
               ELSE IF \E v \in new : PidNow(v) = p THEN "XEMBED"
               ELSE registeredMap[p]]
    BY <1>5 DEF Sweep
  <2>2. UNCHANGED sni
    BY <1>5 DEF Sweep
  <2>3. new \subseteq Windows /\ gone \subseteq XembedWindows
        /\ \A v \in new : registeredMap[PidNow(v)] # "SNI"
    BY DEF TypeOK, NotShownBySni
  <2> HIDE DEF new, gone
  <2>4. registeredMap'[pid] = IF \E v \in gone : xembed[v].pid = pid THEN "UNKNOWN"
                              ELSE IF \E v \in new : PidNow(v) = pid THEN "XEMBED"
                              ELSE registeredMap[pid]
    BY <1>1, <2>1
  <2>5. registeredMap[pid] = "SNI" => registeredMap'[pid] = "SNI"
    BY <1>0, <1>1, <2>3, <2>4 DEF Claim, pid
  <2>6. registeredMap'[pid] = "SNI" =>
          /\ registeredMap[pid] = "SNI"
          /\ ~(w \in XembedWindows' /\ xembed'[w].pid = pid)
    <3>1. SUFFICES ASSUME registeredMap'[pid] = "SNI", w \in XembedWindows', xembed'[w].pid = pid
                   PROVE  FALSE
      BY <2>4
    <3>2. registeredMap[pid] = "SNI" /\ (w \in new => PidNow(w) # pid)
      BY <2>4, <3>1
    <3>3. w \notin new /\ xembed'[w] = xembed[w] /\ w \in XembedWindows
      BY <2>1, <3>1, <3>2 DEF XembedWindows
    <3>4. QED
      BY <1>0, <1>1, <3>1, <3>2, <3>3 DEF Claim, pid
  <2>7. QED
    BY <1>0, <1>1, <2>2, <2>5, <2>6 DEF Claim, SniItems, pid
<1>6. CASE HandlerDropped
  BY <1>2, <1>6 DEF HandlerDropped
<1>7. ASSUME NEW j \in BagToSet(jobs), Worker(j) PROVE Claim(i, w)'
  BY <1>2, <1>7 DEF Worker, WorkerFindsPid, WorkerPostsHandler
<1>8. ASSUME NEW k \in Items, ItemRegisters(k) \/ ItemLeaves(k) PROVE Claim(i, w)'
  BY <1>2, <1>8 DEF ItemRegisters, ItemLeaves, tray
<1>9. CASE WatcherRestarts
  BY <1>2, <1>9 DEF WatcherRestarts, tray
<1>10. ASSUME NEW v \in Windows, IconDocks(v) \/ IconUndocks(v) \/ WindowDestroyed(v)
       PROVE  Claim(i, w)'
  BY <1>2, <1>10 DEF IconDocks, IconUndocks, WindowDestroyed, tray
<1>11. CASE UNCHANGED vars
  BY <1>2, <1>11 DEF vars
<1>12. QED
  BY <1>3, <1>4, <1>5, <1>6, <1>7, <1>8, <1>9, <1>10, <1>11 DEF Next, MainThread

LEMMA RegistryInvariant == Spec => []RegistryInv
<1>1. Init => RegistryInv
  BY TypeInit, PidsInit, ClaimsInit DEF RegistryInv
<1>2. RegistryInv /\ [Next]_vars => RegistryInv'
  BY TypeStep, PidsStep, ClaimsStep DEF RegistryInv
<1>3. QED
  BY <1>1, <1>2, PTL DEF Spec

\* The registry is well typed: jobs and posted handlers name items, and every id
\* that is handed out has the base that was asked for.
THEOREM TypeCorrect == Spec => []TypeOK
<1>1. RegistryInv => TypeOK
  BY DEF RegistryInv
<1>2. QED
  BY <1>1, RegistryInvariant, PTL

------------------------------------------------------------------------------
(* Ids and widgets *)

\* What TrayPlugin should show, and the ids of the handlers that are posted.
Shown ==
  {[id |-> sni[i].id, owner |-> i] : i \in SniItems}
    \cup {[id |-> xembed[w].id, owner |-> w] : w \in XembedWindows}
Waiting == {posted[k].id : k \in DOMAIN posted}

\* No name has used up its suffixes.
NoBareName ==
  /\ \A i \in SniItems : sni[i].id.suffix < MaxSuffix
  /\ \A w \in XembedWindows : xembed[w].id.suffix < MaxSuffix
  /\ \A k \in DOMAIN posted : posted[k].id.suffix < MaxSuffix

\* The ids in use are those of what is shown and of what waits, and no two share one.
IdsOf(S) == {x.id : x \in S}
Distinct(S) == \A x, y \in S : x.id = y.id => x = y
Accounted(S, ids, used) ==
  /\ Distinct(S) /\ used = IdsOf(S) \cup ids /\ IdsOf(S) \cap ids = {}

\* An item that is expected has no handler yet.
IdInv ==
  /\ pending \cap SniItems = {}
  /\ widgets = Shown /\ Accounted(Shown, Waiting, currentIds)
  /\ \A k, l \in DOMAIN posted : posted[k].id = posted[l].id => k = l

\* The widgets of some handlers, and their ids.
WidgetsOf(handlers, S) == {[id |-> handlers[x].id, owner |-> x] : x \in S}
HandlerIds(handlers, S) == {handlers[x].id : x \in S}

LEMMA IdsOfWidgets ==
  ASSUME NEW handlers, NEW S
  PROVE  IdsOf(WidgetsOf(handlers, S)) = HandlerIds(handlers, S)
<1>1. ASSUME NEW x, x \in IdsOf(WidgetsOf(handlers, S)) PROVE x \in HandlerIds(handlers, S)
  <2>1. PICK y \in WidgetsOf(handlers, S) : x = y.id
    BY <1>1 DEF IdsOf
  <2>2. PICK z \in S : y = [id |-> handlers[z].id, owner |-> z]
    BY DEF WidgetsOf
  <2>3. QED
    BY <2>1, <2>2 DEF HandlerIds
<1>2. ASSUME NEW x, x \in HandlerIds(handlers, S) PROVE x \in IdsOf(WidgetsOf(handlers, S))
  <2>1. PICK z \in S : x = handlers[z].id
    BY <1>2 DEF HandlerIds
  <2>2. [id |-> handlers[z].id, owner |-> z] \in WidgetsOf(handlers, S)
    BY DEF WidgetsOf
  <2>3. x = [id |-> handlers[z].id, owner |-> z].id
    BY <2>1
  <2> DEFINE y == [id |-> handlers[z].id, owner |-> z]
  <2> HIDE DEF y
  <2>4. QED
    BY <2>2, <2>3 DEF IdsOf, y
<1>3. QED
  BY <1>1, <1>2

LEMMA UniqueIdsFree ==
  ASSUME NEW base, NEW ids \in UniqueIds(base), NEW x \in DOMAIN base,
         ids[x].suffix < MaxSuffix
  PROVE  ids[x] \notin currentIds /\ \A y \in DOMAIN base : ids[y] = ids[x] => y = x
<1> DEFINE S == DOMAIN base
           Make(k) == [z \in S |-> [base |-> base[z], suffix |-> k[z]]]
           Others(k, z) == currentIds \cup {Make(k)[y] : y \in S \ {z}}
<1>1. PICK k \in [S -> 0..MaxSuffix] :
        /\ ids = Make(k)
        /\ \A z \in S : k[z] < MaxSuffix => Make(k)[z] \notin Others(k, z)
  BY Zenon DEF UniqueIds
<1>2. ids[x].suffix = k[x]
  BY <1>1
<1>3. ids[x] \notin Others(k, x)
  BY <1>1, <1>2
<1>4. \A y \in S : ids[y] = Make(k)[y]
  BY <1>1
<1> HIDE DEF Make
<1>5. QED
  BY <1>3, <1>4

\* The handlers of some widgets are destroyed.
LEMMA Destroys ==
  ASSUME NEW S, NEW out, out \subseteq S, NEW ids, NEW used, Accounted(S, ids, used)
  PROVE  /\ TrayDestroyed(S, IdsOf(out)) = S \ out
         /\ Accounted(S \ out, ids, used \ IdsOf(out))
BY DEF Accounted, Distinct, IdsOf, TrayDestroyed

\* Handlers get widgets: ids that waited no longer do, others come into use.
LEMMA Creates ==
  ASSUME NEW S, NEW new, Distinct(new), NEW ids, NEW used, Accounted(S, ids, used),
         NEW left, left = ids \ IdsOf(new),
         \A x \in new : x.id \in used => x.id \in ids
  PROVE  /\ TrayCreated(S, new) = S \cup new
         /\ Accounted(S \cup new, left, used \cup IdsOf(new))
<1>1. \A x \in new, y \in S : x.id # y.id
  BY DEF Accounted, IdsOf
<1>2. TrayCreated(S, new) = S \cup new
  BY <1>1 DEF TrayCreated
<1>3. Distinct(S \cup new)
  BY <1>1 DEF Accounted, Distinct
<1>4. IdsOf(S \cup new) = IdsOf(S) \cup IdsOf(new)
  BY DEF IdsOf
<1>5. IdsOf(S \cup new) \cap left = {}
  BY <1>4 DEF Accounted
<1>6. QED
  BY <1>2, <1>3, <1>4, <1>5 DEF Accounted

\* A handler is taken from the queue.
LEMMA TakesFirst ==
  ASSUME TypeOK, posted # << >>, posted' = Tail(posted),
         \A k, l \in DOMAIN posted : posted[k].id = posted[l].id => k = l
  PROVE  /\ Head(posted).id \in Waiting /\ Waiting' = Waiting \ {Head(posted).id}
         /\ \A k, l \in DOMAIN posted' : posted'[k].id = posted'[l].id => k = l
<1>1. /\ Head(posted) = posted[1] /\ 1 \in DOMAIN posted
      /\ \A k \in DOMAIN posted' : k + 1 \in DOMAIN posted /\ posted'[k] = posted[k + 1]
      /\ \A k \in DOMAIN posted : k = 1 \/ (k - 1 \in DOMAIN posted' /\ posted'[k - 1] = posted[k])
      /\ \A k \in DOMAIN posted' : k + 1 # 1
  BY DEF TypeOK
<1>2. \A k, l \in DOMAIN posted' : k + 1 = l + 1 => k = l
  BY DEF TypeOK
<1>3. \A k, l \in DOMAIN posted' : posted'[k].id = posted'[l].id => k = l
  BY <1>1, <1>2
<1>4. Head(posted).id \in Waiting
  BY <1>1 DEF Waiting
<1>5. ASSUME NEW x PROVE x \in Waiting' <=> x \in Waiting /\ x # Head(posted).id
  <2>1. x \in Waiting' <=> \E k \in DOMAIN posted' : x = posted'[k].id
    BY DEF Waiting
  <2>2. x \in Waiting <=> \E k \in DOMAIN posted : x = posted[k].id
    BY DEF Waiting
  <2>3. QED
    BY <1>1, <2>1, <2>2
<1>6. QED
  BY <1>3, <1>4, <1>5

LEMMA IdsInit == Init => IdInv
BY DEF Init, IdInv, Shown, Waiting, Accounted, Distinct, IdsOf, SniItems, XembedWindows

LEMMA IdsStep == TypeOK /\ IdInv /\ NoBareName' /\ [Next]_vars => IdInv'
<1> SUFFICES ASSUME TypeOK, IdInv, NoBareName', [Next]_vars PROVE IdInv'
  OBVIOUS
<1> USE DEF watcher, manager, pool
<1>1. ASSUME UNCHANGED <<posted, pending, sni, xembed, currentIds, widgets>> PROVE IdInv'
  BY <1>1 DEF IdInv, Shown, Waiting, SniItems, XembedWindows
<1>2. ASSUME NEW i \in Items, ItemRegisters(i) \/ ItemLeaves(i) PROVE IdInv'
  BY <1>1, <1>2 DEF ItemRegisters, ItemLeaves, tray
<1>3. CASE WatcherRestarts
  BY <1>1, <1>3 DEF WatcherRestarts, tray
<1>4. ASSUME NEW w \in Windows, IconDocks(w) \/ IconUndocks(w) \/ WindowDestroyed(w)
      PROVE  IdInv'
  BY <1>1, <1>4 DEF IconDocks, IconUndocks, WindowDestroyed, tray
<1>5. ASSUME NEW j \in BagToSet(jobs), WorkerFindsPid(j) PROVE IdInv'
  BY <1>1, <1>5 DEF WorkerFindsPid
<1>6. ASSUME NEW j \in BagToSet(jobs), WorkerPostsHandler(j) PROVE IdInv'
  <2> DEFINE base == [i \in {j.item} |-> IF i \in running THEN ItemName[i] ELSE NoName]
  <2>1. PICK ids \in UniqueIds(base) :
          /\ posted' = Append(posted, [item |-> j.item, pid |-> j.pid, id |-> ids[j.item]])
          /\ currentIds' = currentIds \cup Remembered({ids[j.item]})
    BY <1>6 DEF WorkerPostsHandler
  <2>2. base \in [{j.item} -> Bases]
    BY DEF TypeOK, Job, Bases
  <2> HIDE DEF base
  <2> DEFINE h == [item |-> j.item, pid |-> j.pid, id |-> ids[j.item]]
             id == ids[j.item]
             last == Len(posted) + 1
  <2>3. /\ h.id = id
        /\ last \in DOMAIN posted' /\ posted'[last] = h
        /\ \A k \in DOMAIN posted : k # last /\ k \in DOMAIN posted' /\ posted'[k] = posted[k]
        /\ \A k \in DOMAIN posted' : k \in DOMAIN posted \/ k = last
    <3>1. posted \in Seq(Posted) /\ posted' = Append(posted, h)
      BY <2>1 DEF TypeOK
    <3>2. h.id = id
      OBVIOUS
    <3> HIDE DEF h
    <3>3. QED
      BY <3>1, <3>2
  <2> HIDE DEF h
  <2>4. id.suffix < MaxSuffix
    BY <2>3 DEF NoBareName
  <2>5. id \notin currentIds
    BY <2>1, <2>2, <2>4, UniqueIdsFree
  <2>6. currentIds' = currentIds \cup {id}
    BY <2>1, <2>4 DEF Remembered
  <2> HIDE DEF id, last
  <2>7. Waiting' = Waiting \cup {id}
    BY <2>3 DEF Waiting
  <2>8. \A k, l \in DOMAIN posted' : posted'[k].id = posted'[l].id => k = l
    <3>1. \A k \in DOMAIN posted : posted[k].id \in currentIds
      BY DEF IdInv, Accounted, Waiting
    <3>2. QED
      BY <2>3, <2>5, <3>1 DEF IdInv
  <2>9. UNCHANGED <<pending, sni, xembed, widgets>> /\ Shown' = Shown /\ SniItems' = SniItems
    BY <1>6 DEF WorkerPostsHandler, Shown, SniItems, XembedWindows
  <2>10. QED
    BY <2>5, <2>6, <2>7, <2>8, <2>9 DEF IdInv, Accounted, IdsOf
<1>7. CASE RegistedItemChanged
  <2>1. CASE UpdateItems
    <3> DEFINE gone == SniItems \ list
               out == WidgetsOf(sni, gone)
    <3>1. UNCHANGED <<posted, xembed>>
      BY <1>7 DEF RegistedItemChanged
    <3>2. /\ sni' = [i \in Items |-> IF i \in gone THEN NoHandler ELSE sni[i]]
          /\ currentIds' = currentIds \ {sni[i].id : i \in gone}
          /\ widgets' = TrayDestroyed(widgets, {sni[i].id : i \in gone})
          /\ pending' = (pending \cap list) \cup NewItems
      BY <2>1 DEF UpdateItems, RemoveGone, Without
    <3>3. SniItems' = SniItems \ gone /\ \A i \in SniItems' : sni'[i] = sni[i]
      BY <3>2 DEF SniItems
    <3>4. {sni[i].id : i \in gone} = IdsOf(out) /\ out \subseteq Shown
      <4>1. gone \subseteq SniItems
        OBVIOUS
      <4> HIDE DEF gone
      <4>2. QED
        BY <4>1, IdsOfWidgets DEF HandlerIds, WidgetsOf, Shown
    <3>5. Shown' = Shown \ out
      <4>1. SniItems \cap XembedWindows = {}
        BY ProcessAssumption DEF SniItems, XembedWindows
      <4>2. XembedWindows' = XembedWindows /\ xembed' = xembed
        BY <3>1 DEF XembedWindows
      <4>3. ASSUME NEW x PROVE x \in Shown' <=> x \in Shown /\ x \notin out
        BY <3>3, <4>1, <4>2 DEF Shown, WidgetsOf
      <4>4. QED
        BY <4>3
    <3>6. pending' \cap SniItems' = {}
      BY <3>2, <3>3 DEF NewItems, IdInv
    <3>7. Waiting' = Waiting
      BY <3>1 DEF Waiting
    <3> HIDE DEF out, gone
    <3>8. widgets' = Shown' /\ Accounted(Shown', Waiting', currentIds')
      BY <3>2, <3>4, <3>5, <3>7, Destroys DEF IdInv
    <3>9. QED
      BY <3>1, <3>6, <3>8 DEF IdInv
  <2>2. QED
    BY <1>1, <1>7, <2>1 DEF RegistedItemChanged
<1>8. CASE HandlerAdopted
  <2> DEFINE h == Head(posted)
             new == {[id |-> h.id, owner |-> h.item]}
  <2>1. PICK gone \in RoomFor(h.pid) :
          /\ xembed' = [w \in Windows |-> IF w \in gone THEN NoHandler ELSE xembed[w]]
          /\ currentIds' = currentIds \ {xembed[w].id : w \in gone}
          /\ widgets' = TrayCreated(TrayDestroyed(widgets, {xembed[w].id : w \in gone}), new)
    BY <1>8 DEF HandlerAdopted
  <2> DEFINE out == WidgetsOf(xembed, gone)
  <2>2. /\ posted # << >> /\ posted' = Tail(posted)
        /\ h.item \in pending /\ pending' = pending \ {h.item}
        /\ sni' = [sni EXCEPT ![h.item] = [pid |-> h.pid, id |-> h.id]]
    BY <1>8 DEF HandlerAdopted
  <2>3. gone \subseteq XembedWindows
    BY <2>1 DEF RoomFor
  <2>4. h.id \in Waiting /\ Waiting' = Waiting \ {h.id}
        /\ \A k, l \in DOMAIN posted' : posted'[k].id = posted'[l].id => k = l
    BY <2>2, TakesFirst DEF IdInv
  <2>5. /\ h.item \in Items /\ h.item \notin SniItems
        /\ [pid |-> h.pid, id |-> h.id] \in Handler
    <3>1. h \in Posted
      BY <2>2, HandlersTyped
    <3>2. QED
      BY <2>2, <3>1 DEF IdInv, Posted, Handler
  <2>6. IdsOf(new) = {h.id} /\ Distinct(new)
    BY DEF IdsOf, Distinct
  <2> HIDE DEF h
  <2>7. /\ SniItems' = SniItems \cup {h.item} /\ sni'[h.item].id = h.id
        /\ \A i \in SniItems : sni'[i] = sni[i]
    BY <2>2, <2>5, HandlerAssumption DEF SniItems, TypeOK
  <2>8. XembedWindows' = XembedWindows \ gone /\ \A w \in XembedWindows' : xembed'[w] = xembed[w]
    BY <2>1 DEF XembedWindows
  <2>9. {xembed[w].id : w \in gone} = IdsOf(out) /\ out \subseteq Shown
    BY <2>3, IdsOfWidgets DEF HandlerIds, WidgetsOf, Shown
  <2>10. Shown' = (Shown \ out) \cup new
    <3>1. SniItems \cap XembedWindows = {}
      BY ProcessAssumption DEF SniItems, XembedWindows
    <3>2. ASSUME NEW x PROVE x \in Shown' <=> (x \in Shown /\ x \notin out) \/ x \in new
      BY <2>3, <2>5, <2>7, <2>8, <3>1 DEF Shown, WidgetsOf
    <3>3. QED
      BY <3>2
  <2> DEFINE rest == Shown \ out
             used == currentIds \ IdsOf(out)
  <2>11. TrayDestroyed(widgets, IdsOf(out)) = rest /\ Accounted(rest, Waiting, used)
    BY <2>9, Destroys DEF IdInv
  <2>12. currentIds' = used /\ widgets' = TrayCreated(rest, new)
    BY <2>1, <2>9, <2>11
  <2> HIDE DEF new, out, rest, used
  <2>13. /\ TrayCreated(rest, new) = rest \cup new
         /\ Accounted(rest \cup new, Waiting', used \cup IdsOf(new))
    <3>1. \A x \in new : x.id \in Waiting
      BY <2>4, <2>6 DEF IdsOf
    <3>2. QED
      BY <2>4, <2>6, <2>11, <3>1, Creates
  <2>14. used \cup IdsOf(new) = used
    BY <2>4, <2>6, <2>11 DEF Accounted
  <2>15. widgets' = Shown' /\ Accounted(Shown', Waiting', currentIds')
    BY <2>10, <2>12, <2>13, <2>14 DEF rest
  <2>16. pending' \cap SniItems' = {}
    BY <2>2, <2>7 DEF IdInv
  <2>17. QED
    BY <2>4, <2>15, <2>16 DEF IdInv
<1>9. CASE HandlerDropped
  <2>1. /\ posted # << >> /\ posted' = Tail(posted)
        /\ currentIds' = currentIds \ {Head(posted).id}
        /\ UNCHANGED <<pending, sni, xembed, widgets>>
    BY <1>9 DEF HandlerDropped
  <2>2. /\ Head(posted).id \in Waiting /\ Waiting' = Waiting \ {Head(posted).id}
        /\ \A k, l \in DOMAIN posted' : posted'[k].id = posted'[l].id => k = l
    BY <2>1, TakesFirst DEF IdInv
  <2>3. Shown' = Shown /\ SniItems' = SniItems
    BY <2>1 DEF Shown, SniItems, XembedWindows
  <2>4. QED
    BY <2>1, <2>2, <2>3 DEF IdInv, Accounted
<1>10. CASE Sweep
  <2> DEFINE new == {w \in icons \ XembedWindows : NotShownBySni(w)}
             gone == XembedWindows \ icons
             base == [w \in new |-> PidNow(w)]
  <2>1. PICK id \in UniqueIds(base) :
          /\ xembed' = [w \in Windows |->
               IF w \in new THEN [pid |-> PidNow(w), id |-> id[w]]
               ELSE IF w \in gone THEN NoHandler ELSE xembed[w]]
          /\ currentIds' = (currentIds \cup Remembered({id[w] : w \in new}))
                             \ {xembed[w].id : w \in gone}
          /\ widgets' = TrayDestroyed(TrayCreated(widgets, {[id |-> id[w], owner |-> w] : w \in new}),
                                      {xembed[w].id : w \in gone})
    BY <1>10 DEF Sweep
  <2> DEFINE created == {[id |-> id[w], owner |-> w] : w \in new}
             out == WidgetsOf(xembed, gone)
  <2>2. UNCHANGED <<posted, pending, sni>>
    BY <1>10 DEF Sweep
  <2>3. \A w \in new : w \in Windows /\ PidNow(w) \in AnyPid /\ w \notin gone /\ w \notin XembedWindows
    BY ProcessAssumption DEF TypeOK, PidNow, AnyPid
  <2>4. base \in [new -> Bases]
    BY <2>3 DEF Bases
  <2>5. gone \subseteq XembedWindows /\ XembedWindows \subseteq Windows
    BY DEF XembedWindows
  <2> HIDE DEF new, gone, base
  <2>6. \A w \in new : id[w] \in Id
    BY <2>1, <2>4, UniqueIdsTyped
  <2>7. /\ XembedWindows' = (XembedWindows \cup new) \ gone
        /\ \A w \in new : xembed'[w].id = id[w]
        /\ \A w \in XembedWindows \ gone : xembed'[w] = xembed[w]
    <3>1. \A w \in new : [pid |-> PidNow(w), id |-> id[w]] # NoHandler
      BY <2>3, <2>6, HandlerAssumption DEF Handler
    <3>2. \A w \in Windows : xembed'[w] = IF w \in new THEN [pid |-> PidNow(w), id |-> id[w]]
                                          ELSE IF w \in gone THEN NoHandler ELSE xembed[w]
      BY <2>1
    <3>3. \A w \in Windows : w \in XembedWindows' <=> xembed'[w] # NoHandler
      BY DEF XembedWindows
    <3>4. \A w \in Windows : w \in XembedWindows <=> xembed[w] # NoHandler
      BY DEF XembedWindows
    <3>5. XembedWindows' \subseteq Windows
      BY DEF XembedWindows
    <3>6. XembedWindows' = (XembedWindows \cup new) \ gone
      BY <2>3, <2>5, <3>1, <3>2, <3>3, <3>4, <3>5
    <3>7. \A w \in new : xembed'[w].id = id[w]
      <4> SUFFICES ASSUME NEW w \in new PROVE xembed'[w].id = id[w]
        OBVIOUS
      <4>1. xembed'[w] = [pid |-> PidNow(w), id |-> id[w]]
        BY <2>3, <3>2
      <4>2. QED
        BY <4>1
    <3>8. \A w \in XembedWindows \ gone : xembed'[w] = xembed[w]
      BY <2>3, <2>5, <3>2
    <3>9. QED
      BY <3>6, <3>7, <3>8
  <2>8. \A w \in new : id[w].suffix < MaxSuffix
    BY <2>3, <2>7 DEF NoBareName
  <2>9. \A w \in new : id[w] \notin currentIds /\ \A v \in new : id[v] = id[w] => v = w
    BY <2>1, <2>4, <2>8, UniqueIdsFree
  <2>10. Distinct(created) /\ \A x \in created : x.id \notin currentIds
    BY <2>9 DEF Distinct
  <2>11. Remembered({id[w] : w \in new}) = IdsOf(created)
    <3>1. Remembered({id[w] : w \in new}) = {id[w] : w \in new}
      BY <2>8 DEF Remembered
    <3>2. created = WidgetsOf(xembed', new) /\ {id[w] : w \in new} = HandlerIds(xembed', new)
      BY <2>7 DEF WidgetsOf, HandlerIds
    <3>3. QED
      BY <3>1, <3>2, IdsOfWidgets
  <2>12. {xembed[w].id : w \in gone} = IdsOf(out) /\ out \subseteq Shown
    BY <2>5, IdsOfWidgets DEF HandlerIds, WidgetsOf, Shown
  <2>13. Shown' = (Shown \cup created) \ out
    <3>1. SniItems' = SniItems /\ sni' = sni /\ SniItems \cap Windows = {}
      BY <2>2, ProcessAssumption DEF SniItems
    <3>2. ASSUME NEW x PROVE x \in Shown' <=> (x \in Shown \/ x \in created) /\ x \notin out
      BY <2>3, <2>5, <2>7, <3>1 DEF Shown, WidgetsOf
    <3>3. QED
      BY <3>2
  <2> DEFINE used == currentIds \cup IdsOf(created)
  <2>14. TrayCreated(Shown, created) = Shown \cup created
         /\ Accounted(Shown \cup created, Waiting, used)
    <3> HIDE DEF created
    <3>1. Waiting = Waiting \ IdsOf(created)
      BY <2>10 DEF IdsOf, IdInv, Accounted
    <3>2. QED
      BY <2>10, <3>1, Creates DEF IdInv
  <2>15. currentIds' = used \ IdsOf(out)
         /\ widgets' = TrayDestroyed(TrayCreated(Shown, created), IdsOf(out))
    BY <2>1, <2>11, <2>12 DEF IdInv
  <2> HIDE DEF created, out, used
  <2>16. widgets' = Shown' /\ Accounted(Shown', Waiting, currentIds')
    BY <2>12, <2>13, <2>14, <2>15, Destroys
  <2>17. Waiting' = Waiting /\ pending' \cap SniItems' = {}
    BY <2>2 DEF Waiting, SniItems, IdInv
  <2>18. QED
    BY <2>2, <2>16, <2>17 DEF IdInv
<1>11. CASE UNCHANGED vars
  BY <1>1, <1>11 DEF vars
<1>12. QED
  BY <1>2, <1>3, <1>4, <1>5, <1>6, <1>7, <1>8, <1>9, <1>10, <1>11 DEF Next, Worker, MainThread

------------------------------------------------------------------------------
(* Bare names *)

\* Fewer ids are in use, or about to be for the docked windows that are not shown
\* yet, than a name has suffixes.
FewIds ==
  /\ IsFiniteSet(currentIds) /\ IsFiniteSet(icons)
  /\ Cardinality(currentIds) + Cardinality(icons) < MaxSuffix

\* The first free suffix is below the number of ids in use and being made: those
\* below it are all taken, by as many ids.
LEMMA FirstFreeSuffix ==
  ASSUME NEW base, IsFiniteSet(DOMAIN base), IsFiniteSet(currentIds),
         NEW ids \in UniqueIds(base), NEW x \in DOMAIN base
  PROVE  ids[x].suffix < Cardinality(currentIds) + Cardinality(DOMAIN base)
<1> DEFINE S == DOMAIN base
           Make(k) == [z \in S |-> [base |-> base[z], suffix |-> k[z]]]
           Others(k, z) == currentIds \cup {Make(k)[y] : y \in S \ {z}}
<1>1. PICK k \in [S -> 0..MaxSuffix] :
        /\ ids = Make(k)
        /\ \A z \in S : \A l \in 0..(k[z] - 1) :
             [base |-> base[z], suffix |-> l] \in Others(k, z)
  BY Zenon DEF UniqueIds
<1> DEFINE n == k[x]
           others == S \ {x}
           given == {ids[y] : y \in others}
           used == currentIds \cup given
           tried == [l \in 0..(n - 1) |-> [base |-> base[x], suffix |-> l]]
<1>2. n \in Nat /\ ids[x].suffix = n
  BY <1>1, LimitAssumption
<1>3. \A l \in 0..(n - 1) : tried[l] \in used
  <2>1. \A y \in S : ids[y] = Make(k)[y]
    BY <1>1
  <2> HIDE DEF Make
  <2>2. \A l \in 0..(n - 1) : [base |-> base[x], suffix |-> l] \in Others(k, x)
    BY <1>1
  <2>3. Others(k, x) = used
    BY <2>1
  <2> HIDE DEF Others, used
  <2>4. QED
    BY <2>2, <2>3
<1>4. /\ IsFiniteSet(others) /\ Cardinality(others) = Cardinality(S) - 1
      /\ Cardinality(S) \in Nat /\ Cardinality(currentIds) \in Nat
  BY FS_RemoveElement, FS_CardinalityType
<1>5. IsFiniteSet(given) /\ Cardinality(given) <= Cardinality(others)
  <2> DEFINE give == [y \in others |-> ids[y]]
  <2>1. give \in Surjection(others, given)
    BY DEF Surjection
  <2> HIDE DEF give, given, others
  <2>2. QED
    BY <1>4, <2>1, FS_Surjection
<1> HIDE DEF n, given, others, S
<1>6. /\ IsFiniteSet(used) /\ Cardinality(given) \in Nat
      /\ Cardinality(used) <= Cardinality(currentIds) + Cardinality(given)
  <2>1. IsFiniteSet(currentIds \cap given) /\ Cardinality(currentIds \cap given) \in Nat
    BY <1>5, FS_Subset, FS_CardinalityType
  <2>2. Cardinality(given) \in Nat
    BY <1>5, FS_CardinalityType
  <2>3. QED
    BY <1>4, <1>5, <2>1, <2>2, FS_Union
<1>7. tried \in Injection(0..(n - 1), used)
  <2>1. \A l \in 0..(n - 1) : tried[l].suffix = l
    OBVIOUS
  <2>2. tried \in [0..(n - 1) -> used]
    BY <1>3
  <2>3. \A l, m \in DOMAIN tried : tried[l] = tried[m] => l = m
    BY <2>1, <2>2
  <2> HIDE DEF tried
  <2>4. QED
    BY <2>2, <2>3 DEF Injection, IsInjective
<1> HIDE DEF tried, used
<1>8. Cardinality(0..(n - 1)) <= Cardinality(used)
  BY <1>6, <1>7, FS_Injection
<1>9. Cardinality(0..(n - 1)) = n
  BY <1>2, FS_Interval
<1>10. Cardinality(used) \in Nat /\ Cardinality(others) \in Nat
  BY <1>4, <1>6, FS_CardinalityType
<1>11. QED
  BY <1>2, <1>4, <1>5, <1>6, <1>8, <1>9, <1>10 DEF S

\* What a sweep shows, and what it takes away.
NewWindows == {w \in icons \ XembedWindows : NotShownBySni(w)}
GoneWindows == XembedWindows \ icons
SweepBase == [w \in NewWindows |-> PidNow(w)]

LEMMA SweepResult ==
  ASSUME TypeOK, Sweep
  PROVE  \E id \in UniqueIds(SweepBase) :
           /\ XembedWindows' = (XembedWindows \cup NewWindows) \ GoneWindows
           /\ \A w \in NewWindows : /\ xembed'[w] = [pid |-> PidNow(w), id |-> id[w]]
                                    /\ xembed'[w].id = id[w] /\ xembed'[w].pid = PidNow(w)
           /\ \A w \in XembedWindows \ GoneWindows : xembed'[w] = xembed[w]
<1>1. PICK id \in UniqueIds(SweepBase) :
        xembed' = [w \in Windows |->
          IF w \in NewWindows THEN [pid |-> PidNow(w), id |-> id[w]]
          ELSE IF w \in GoneWindows THEN NoHandler ELSE xembed[w]]
  BY DEF Sweep, NewWindows, GoneWindows, SweepBase
<1>2. \A w \in NewWindows : w \in Windows /\ PidNow(w) \in AnyPid
                            /\ w \notin GoneWindows /\ w \notin XembedWindows
  BY ProcessAssumption DEF TypeOK, PidNow, AnyPid, NewWindows, GoneWindows
<1>3. \A w \in NewWindows : id[w] \in Id
  <2>1. SweepBase \in [NewWindows -> Bases]
    BY <1>2 DEF Bases, SweepBase
  <2>2. QED
    BY <2>1, UniqueIdsTyped
<1>4. \A w \in NewWindows : [pid |-> PidNow(w), id |-> id[w]] # NoHandler
  BY <1>2, <1>3, HandlerAssumption DEF Handler
<1>5. \A w \in Windows : xembed'[w] = IF w \in NewWindows THEN [pid |-> PidNow(w), id |-> id[w]]
                                      ELSE IF w \in GoneWindows THEN NoHandler ELSE xembed[w]
  BY <1>1
<1>6. /\ GoneWindows \subseteq XembedWindows /\ XembedWindows \subseteq Windows
      /\ XembedWindows' \subseteq Windows
      /\ \A w \in Windows : w \in XembedWindows' <=> xembed'[w] # NoHandler
      /\ \A w \in Windows : w \in XembedWindows <=> xembed[w] # NoHandler
  BY DEF XembedWindows, GoneWindows
<1>7. XembedWindows' = (XembedWindows \cup NewWindows) \ GoneWindows
  BY <1>2, <1>4, <1>5, <1>6
<1>8. ASSUME NEW w \in NewWindows
      PROVE  /\ xembed'[w] = [pid |-> PidNow(w), id |-> id[w]]
             /\ xembed'[w].id = id[w] /\ xembed'[w].pid = PidNow(w)
  <2>1. xembed'[w] = [pid |-> PidNow(w), id |-> id[w]]
    BY <1>2, <1>5
  <2>2. QED
    BY <2>1
<1>9. \A w \in XembedWindows \ GoneWindows : xembed'[w] = xembed[w]
  BY <1>2, <1>5, <1>6
<1>10. QED
  BY <1>7, <1>8, <1>9

\* With few ids in use a name always has a suffix left.
LEMMA SuffixLeft ==
  ASSUME FewIds, NEW base, IsFiniteSet(DOMAIN base),
         DOMAIN base \subseteq icons \/ \E y : DOMAIN base = {y},
         NEW ids \in UniqueIds(base), NEW x \in DOMAIN base
  PROVE  ids[x].suffix < MaxSuffix
<1>1. Cardinality(currentIds) \in Nat /\ Cardinality(icons) \in Nat /\ Cardinality(DOMAIN base) \in Nat
  BY FS_CardinalityType DEF FewIds
<1>2. Cardinality(DOMAIN base) <= Cardinality(icons) + 1
  <2>1. DOMAIN base \subseteq icons => Cardinality(DOMAIN base) <= Cardinality(icons)
    BY FS_Subset DEF FewIds
  <2>2. (\E y : DOMAIN base = {y}) => Cardinality(DOMAIN base) = 1
    BY FS_Singleton
  <2>3. CASE DOMAIN base \subseteq icons
    BY <1>1, <2>1, <2>3
  <2>4. CASE \E y : DOMAIN base = {y}
    <3>1. Cardinality(DOMAIN base) = 1
      BY <2>2, <2>4
    <3>2. QED
      BY <1>1, <3>1
  <2>5. QED
    BY <2>3, <2>4
<1>3. ids[x].suffix < Cardinality(currentIds) + Cardinality(DOMAIN base)
  BY FirstFreeSuffix DEF FewIds
<1>4. PICK k \in [DOMAIN base -> 0..MaxSuffix] :
        ids = [z \in DOMAIN base |-> [base |-> base[z], suffix |-> k[z]]]
  BY DEF UniqueIds
<1>5. ids[x].suffix \in Nat
  BY <1>4, LimitAssumption
<1>6. QED
  BY <1>1, <1>2, <1>3, <1>5, LimitAssumption DEF FewIds

LEMMA BareNamesStep == TypeOK /\ NoBareName /\ FewIds /\ [Next]_vars => NoBareName'
<1> SUFFICES ASSUME TypeOK, NoBareName, FewIds, [Next]_vars PROVE NoBareName'
  OBVIOUS
<1> USE DEF watcher, manager, pool
<1>1. ASSUME UNCHANGED <<posted, sni, xembed>> PROVE NoBareName'
  BY <1>1 DEF NoBareName, SniItems, XembedWindows
<1>2. ASSUME NEW j \in BagToSet(jobs), WorkerPostsHandler(j) PROVE NoBareName'
  <2> DEFINE base == [i \in {j.item} |-> IF i \in running THEN ItemName[i] ELSE NoName]
  <2>1. PICK ids \in UniqueIds(base) :
          posted' = Append(posted, [item |-> j.item, pid |-> j.pid, id |-> ids[j.item]])
    BY <1>2 DEF WorkerPostsHandler
  <2>2. DOMAIN base = {j.item} /\ IsFiniteSet(DOMAIN base)
    BY FS_Singleton
  <2> HIDE DEF base
  <2>3. ids[j.item].suffix < MaxSuffix
    BY <2>1, <2>2, SuffixLeft
  <2>4. \A k \in DOMAIN posted' : \/ k \in DOMAIN posted /\ posted'[k] = posted[k]
                                  \/ posted'[k].id = ids[j.item]
    <3> DEFINE h == [item |-> j.item, pid |-> j.pid, id |-> ids[j.item]]
    <3>1. posted' = Append(posted, h) /\ h.id = ids[j.item] /\ posted \in Seq(Posted)
      BY <2>1 DEF TypeOK
    <3> HIDE DEF h
    <3>2. QED
      BY <3>1, AppendKeeps
  <2>5. UNCHANGED <<sni, xembed>>
    BY <1>2 DEF WorkerPostsHandler
  <2>6. QED
    BY <2>3, <2>4, <2>5 DEF NoBareName, SniItems, XembedWindows
<1>3. CASE RegistedItemChanged
  <2>1. CASE UpdateItems
    <3>1. \A i \in SniItems' : i \in SniItems /\ sni'[i] = sni[i]
      BY <2>1 DEF UpdateItems, RemoveGone, Without, SniItems
    <3>2. UNCHANGED <<posted, xembed>>
      BY <1>3 DEF RegistedItemChanged
    <3>3. QED
      BY <3>1, <3>2 DEF NoBareName, XembedWindows
  <2>2. QED
    BY <1>1, <1>3, <2>1 DEF RegistedItemChanged
<1>4. CASE HandlerAdopted
  <2> DEFINE h == Head(posted)
  <2>1. /\ h = posted[1] /\ 1 \in DOMAIN posted
        /\ \A k \in DOMAIN posted' : k + 1 \in DOMAIN posted /\ posted'[k] = posted[k + 1]
    BY <1>4, HandlersTyped DEF HandlerAdopted
  <2>2. h.id.suffix < MaxSuffix
    BY <2>1 DEF NoBareName
  <2>3. sni' = [sni EXCEPT ![h.item] = [pid |-> h.pid, id |-> h.id]]
    BY <1>4 DEF HandlerAdopted
  <2> HIDE DEF h
  <2>4. \A i \in SniItems' : (i \in SniItems /\ sni'[i] = sni[i]) \/ sni'[i].id = h.id
    BY <2>3 DEF SniItems, TypeOK
  <2>5. \A w \in XembedWindows' : w \in XembedWindows /\ xembed'[w] = xembed[w]
    BY <1>4 DEF HandlerAdopted, XembedWindows
  <2>6. QED
    BY <2>1, <2>2, <2>4, <2>5 DEF NoBareName
<1>5. CASE HandlerDropped
  <2>1. \A k \in DOMAIN posted' : k + 1 \in DOMAIN posted /\ posted'[k] = posted[k + 1]
    BY <1>5, HandlersTyped DEF HandlerDropped
  <2>2. UNCHANGED <<sni, xembed>>
    BY <1>5 DEF HandlerDropped
  <2>3. QED
    BY <2>1, <2>2 DEF NoBareName, SniItems, XembedWindows
<1>6. CASE Sweep
  <2>1. PICK id \in UniqueIds(SweepBase) :
          /\ XembedWindows' = (XembedWindows \cup NewWindows) \ GoneWindows
          /\ \A w \in NewWindows : xembed'[w].id = id[w]
          /\ \A w \in XembedWindows \ GoneWindows : xembed'[w] = xembed[w]
    BY <1>6, SweepResult
  <2>2. DOMAIN SweepBase = NewWindows /\ NewWindows \subseteq icons
    BY DEF SweepBase, NewWindows
  <2>3. IsFiniteSet(NewWindows)
    BY <2>2, FS_Subset DEF FewIds
  <2>4. \A w \in NewWindows : id[w].suffix < MaxSuffix
    BY <2>1, <2>2, <2>3, SuffixLeft
  <2>5. UNCHANGED <<posted, sni>>
    BY <1>6 DEF Sweep
  <2>6. QED
    BY <2>1, <2>4, <2>5 DEF NoBareName, SniItems
<1>7. ASSUME NEW j \in BagToSet(jobs), WorkerFindsPid(j) PROVE NoBareName'
  BY <1>1, <1>7 DEF WorkerFindsPid
<1>8. ASSUME NEW k \in Items, ItemRegisters(k) \/ ItemLeaves(k) PROVE NoBareName'
  BY <1>1, <1>8 DEF ItemRegisters, ItemLeaves, tray
<1>9. CASE WatcherRestarts
  BY <1>1, <1>9 DEF WatcherRestarts, tray
<1>10. ASSUME NEW v \in Windows, IconDocks(v) \/ IconUndocks(v) \/ WindowDestroyed(v)
       PROVE  NoBareName'
  BY <1>1, <1>10 DEF IconDocks, IconUndocks, WindowDestroyed, tray
<1>11. CASE UNCHANGED vars
  BY <1>1, <1>11 DEF vars
<1>12. QED
  BY <1>2, <1>3, <1>4, <1>5, <1>6, <1>7, <1>8, <1>9, <1>10, <1>11 DEF Next, Worker, MainThread

LEMMA NamesSuffice == Spec /\ []FewIds => []NoBareName
<1>1. Init => NoBareName
  BY DEF Init, NoBareName, SniItems, XembedWindows
<1>2. QED
  BY <1>1, BareNamesStep, TypeCorrect, PTL DEF Spec

------------------------------------------------------------------------------
(* The table of icons *)

\* A handler that stays keeps its id, and a new one has an id no icon had.
KeptOrFresh(S, handlers, S_, handlers_) ==
  \A x \in S_ : IF x \in S THEN handlers_[x] = handlers[x]
                ELSE handlers_[x].id \notin IdsOf(Shown)

LEMMA HandlersStep ==
  ASSUME TypeOK, IdInv, NoBareName', [Next]_vars
  PROVE  /\ KeptOrFresh(SniItems, sni, SniItems', sni')
         /\ KeptOrFresh(XembedWindows, xembed, XembedWindows', xembed')
<1> USE DEF watcher, manager, pool
<1> DEFINE Kept == /\ KeptOrFresh(SniItems, sni, SniItems', sni')
                   /\ KeptOrFresh(XembedWindows, xembed, XembedWindows', xembed')
<1>1. ASSUME UNCHANGED <<sni, xembed>> PROVE Kept
  BY <1>1 DEF KeptOrFresh, SniItems, XembedWindows
<1>2. CASE RegistedItemChanged
  <2>1. CASE UpdateItems
    <3>1. \A i \in SniItems' : i \in SniItems /\ sni'[i] = sni[i]
      BY <2>1 DEF UpdateItems, RemoveGone, Without, SniItems
    <3>2. UNCHANGED xembed
      BY <1>2 DEF RegistedItemChanged
    <3>3. QED
      BY <3>1, <3>2 DEF KeptOrFresh, XembedWindows
  <2>2. QED
    BY <1>1, <1>2, <2>1 DEF RegistedItemChanged
<1>3. CASE HandlerAdopted
  <2> DEFINE h == Head(posted)
  <2>1. h \in Posted /\ posted # << >> /\ posted' = Tail(posted) /\ h.item \in pending
    BY <1>3, HandlersTyped DEF HandlerAdopted
  <2>2. h.id \in Waiting
    BY <2>1, TakesFirst DEF IdInv
  <2>3. h.id \notin IdsOf(Shown) /\ h.item \notin SniItems
    BY <2>1, <2>2 DEF IdInv, Accounted
  <2>4. sni' = [sni EXCEPT ![h.item] = [pid |-> h.pid, id |-> h.id]]
    BY <1>3 DEF HandlerAdopted
  <2> HIDE DEF h
  <2>5. \A i \in SniItems' : IF i = h.item THEN sni'[i].id = h.id
                             ELSE i \in SniItems /\ sni'[i] = sni[i]
    BY <2>4 DEF SniItems, TypeOK
  <2>6. \A w \in XembedWindows' : w \in XembedWindows /\ xembed'[w] = xembed[w]
    BY <1>3 DEF HandlerAdopted, XembedWindows
  <2>7. QED
    BY <2>3, <2>5, <2>6 DEF KeptOrFresh
<1>4. CASE Sweep
  <2>1. PICK id \in UniqueIds(SweepBase) :
          /\ XembedWindows' = (XembedWindows \cup NewWindows) \ GoneWindows
          /\ \A w \in NewWindows : xembed'[w].id = id[w]
          /\ \A w \in XembedWindows \ GoneWindows : xembed'[w] = xembed[w]
    BY <1>4, SweepResult
  <2>2. DOMAIN SweepBase = NewWindows /\ NewWindows \cap GoneWindows = {}
    BY DEF SweepBase, NewWindows, GoneWindows
  <2>3. \A w \in NewWindows : id[w].suffix < MaxSuffix
    BY <2>1, <2>2 DEF NoBareName
  <2>4. \A w \in NewWindows : id[w] \notin currentIds
    BY <2>2, <2>3, UniqueIdsFree
  <2>5. \A w \in NewWindows : xembed'[w].id \notin IdsOf(Shown)
    BY <2>1, <2>4 DEF IdInv, Accounted
  <2>6. UNCHANGED sni
    BY <1>4 DEF Sweep
  <2>7. QED
    BY <2>1, <2>5, <2>6 DEF KeptOrFresh, SniItems
<1>5. CASE HandlerDropped
  BY <1>1, <1>5 DEF HandlerDropped
<1>6. ASSUME NEW j \in BagToSet(jobs), Worker(j) PROVE Kept
  BY <1>1, <1>6 DEF Worker, WorkerFindsPid, WorkerPostsHandler
<1>7. ASSUME NEW k \in Items, ItemRegisters(k) \/ ItemLeaves(k) PROVE Kept
  BY <1>1, <1>7 DEF ItemRegisters, ItemLeaves, tray
<1>8. CASE WatcherRestarts
  BY <1>1, <1>8 DEF WatcherRestarts, tray
<1>9. ASSUME NEW v \in Windows, IconDocks(v) \/ IconUndocks(v) \/ WindowDestroyed(v) PROVE Kept
  BY <1>1, <1>9 DEF IconDocks, IconUndocks, WindowDestroyed, tray
<1>10. CASE UNCHANGED vars
  BY <1>1, <1>10 DEF vars
<1>11. QED
  BY <1>2, <1>3, <1>4, <1>5, <1>6, <1>7, <1>8, <1>9, <1>10 DEF Next, MainThread

\* An owner has one icon, with its handler's id.
LEMMA OwnersOfShown ==
  ASSUME NEW x \in Shown
  PROVE  \/ x.owner \in SniItems /\ x = [id |-> sni[x.owner].id, owner |-> x.owner]
         \/ x.owner \in XembedWindows /\ x = [id |-> xembed[x.owner].id, owner |-> x.owner]
<1>1. CASE \E i \in SniItems : x = [id |-> sni[i].id, owner |-> i]
  BY <1>1
<1>2. CASE \E w \in XembedWindows : x = [id |-> xembed[w].id, owner |-> w]
  BY <1>2
<1>3. QED
  BY <1>1, <1>2 DEF Shown

LEMMA IconsStep ==
  TypeOK /\ IdInv /\ TypeOK' /\ IdInv' /\ NoBareName' /\ [Next]_vars => [Icons!Change]_widgets
<1> SUFFICES ASSUME TypeOK, IdInv, TypeOK', IdInv', NoBareName', [Next]_vars
             PROVE  Icons!Change
  OBVIOUS
<1>1. /\ KeptOrFresh(SniItems, sni, SniItems', sni')
      /\ KeptOrFresh(XembedWindows, xembed, XembedWindows', xembed')
  BY HandlersStep
<1>2. SniItems \cap XembedWindows' = {} /\ XembedWindows \cap SniItems' = {}
      /\ SniItems \cap XembedWindows = {} /\ SniItems' \cap XembedWindows' = {}
  BY ProcessAssumption DEF SniItems, XembedWindows
<1>3. widgets = Shown /\ widgets' = Shown' /\ Distinct(Shown) /\ Distinct(Shown')
  BY DEF IdInv, Accounted
<1>4. ASSUME NEW x \in Shown, NEW y \in Shown' PROVE x.id = y.id <=> x.owner = y.owner
  <2>1. \/ x.owner \in SniItems /\ x = [id |-> sni[x.owner].id, owner |-> x.owner]
        \/ x.owner \in XembedWindows /\ x = [id |-> xembed[x.owner].id, owner |-> x.owner]
    BY OwnersOfShown
  <2>2. \/ y.owner \in SniItems' /\ y = [id |-> sni'[y.owner].id, owner |-> y.owner]
        \/ y.owner \in XembedWindows' /\ y = [id |-> xembed'[y.owner].id, owner |-> y.owner]
    <3>1. \/ \E i \in SniItems' : y = [id |-> sni'[i].id, owner |-> i]
          \/ \E w \in XembedWindows' : y = [id |-> xembed'[w].id, owner |-> w]
      BY DEF Shown
    <3>2. QED
      BY <3>1
  <2>3. x.owner = y.owner => x.id = y.id
    <3>1. ASSUME x.owner = y.owner, x.owner \in SniItems PROVE x.id = y.id
      BY <1>1, <1>2, <2>1, <2>2, <3>1 DEF KeptOrFresh
    <3>2. ASSUME x.owner = y.owner, x.owner \in XembedWindows PROVE x.id = y.id
      BY <1>1, <1>2, <2>1, <2>2, <3>2 DEF KeptOrFresh
    <3>3. QED
      BY <2>1, <3>1, <3>2
  <2>4. y \in Shown \/ y.id \notin IdsOf(Shown)
    <3>1. CASE y.owner \in SniItems'
      BY <1>1, <1>2, <2>2, <3>1 DEF KeptOrFresh, Shown
    <3>2. CASE y.owner \in XembedWindows'
      BY <1>1, <1>2, <2>2, <3>2 DEF KeptOrFresh, Shown
    <3>3. QED
      BY <2>2, <3>1, <3>2
  <2>5. x.id = y.id => x.owner = y.owner
    BY <1>3, <2>4 DEF Distinct, IdsOf
  <2>6. QED
    BY <2>3, <2>5
<1>5. \A x, y \in Shown : x.owner = y.owner => x.id = y.id
  <2> SUFFICES ASSUME NEW x \in Shown, NEW y \in Shown, x.owner = y.owner PROVE x.id = y.id
    OBVIOUS
  <2>1. /\ \/ x.owner \in SniItems /\ x = [id |-> sni[x.owner].id, owner |-> x.owner]
           \/ x.owner \in XembedWindows /\ x = [id |-> xembed[x.owner].id, owner |-> x.owner]
        /\ \/ y.owner \in SniItems /\ y = [id |-> sni[y.owner].id, owner |-> y.owner]
           \/ y.owner \in XembedWindows /\ y = [id |-> xembed[y.owner].id, owner |-> y.owner]
    BY OwnersOfShown
  <2>2. QED
    BY <1>2, <2>1
<1>6. \A x, y \in Shown' : x.owner = y.owner => x.id = y.id
  <2> SUFFICES ASSUME NEW x \in Shown', NEW y \in Shown', x.owner = y.owner PROVE x.id = y.id
    OBVIOUS
  <2>1. /\ \/ \E i \in SniItems' : x = [id |-> sni'[i].id, owner |-> i]
           \/ \E w \in XembedWindows' : x = [id |-> xembed'[w].id, owner |-> w]
        /\ \/ \E i \in SniItems' : y = [id |-> sni'[i].id, owner |-> i]
           \/ \E w \in XembedWindows' : y = [id |-> xembed'[w].id, owner |-> w]
    BY DEF Shown
  <2>2. QED
    BY <1>2, <2>1
<1>7. Icons!Paired(widgets \cup widgets')
  BY <1>3, <1>4, <1>5, <1>6 DEF Icons!Paired, Distinct
<1>8. widgets' \subseteq [id : Id, owner : Items \cup Windows]
  BY DEF TypeOK, Id, Bases, AnyPid
<1>9. QED
  BY <1>7, <1>8 DEF Icons!Change

------------------------------------------------------------------------------
(* Nothing is forgotten *)

\* The items the pool works on.
Pool == {j.item : j \in BagToSet(jobs)} \cup {posted[k].item : k \in DOMAIN posted}

\* What is expected is under way, and what is listed is shown or expected, once the
\* watcher's signals are handled.
Expected ==
  /\ pending \subseteq Pool
  /\ notices = 0 => list \ SniItems \subseteq pending

LEMMA BagKeepsRest ==
  ASSUME NEW B, IsABag(B), NEW j \in BagToSet(B), NEW S, j \notin S
  PROVE  j \in BagToSet(B (-) SetToBag(S))
BY DEF IsABag, BagToSet, SetToBag, (-)

LEMMA ExpectedInit == Init => Expected
BY DEF Init, Expected

LEMMA ExpectedStep == TypeOK /\ Expected /\ [Next]_vars => Expected'
<1> SUFFICES ASSUME TypeOK, Expected, [Next]_vars PROVE Expected'
  OBVIOUS
<1> USE DEF watcher, manager, pool
<1>1. ASSUME UNCHANGED <<jobs, posted>> PROVE Pool' = Pool
  BY <1>1 DEF Pool
<1>2. ASSUME NEW j \in BagToSet(jobs), WorkerFindsPid(j) PROVE Expected'
  <2> DEFINE next == [item |-> j.item, asked |-> TRUE,
                      pid |-> IF j.item \in running THEN ItemPid[j.item] ELSE NoPid]
             rest == jobs (-) SetToBag({j})
  <2>1. IsABag(rest) /\ next.item = j.item
    BY BagWithSet DEF TypeOK
  <2>2. \A l \in BagToSet(jobs) : l = j \/ l \in BagToSet(rest)
    BY BagKeepsRest DEF TypeOK
  <2>3. jobs' = rest (+) SetToBag({next}) /\ UNCHANGED <<posted, pending, notices, list, sni>>
    BY <1>2 DEF WorkerFindsPid
  <2> HIDE DEF rest, next
  <2>4. BagToSet(jobs') = BagToSet(rest) \cup {next}
    BY <2>1, <2>3, BagWithSet
  <2>5. \A l \in BagToSet(jobs) : \E m \in BagToSet(jobs') : m.item = l.item
    BY <2>1, <2>2, <2>4
  <2>6. Pool \subseteq Pool'
    <3>1. {posted[k].item : k \in DOMAIN posted} \subseteq Pool'
      BY <2>3 DEF Pool
    <3>2. ASSUME NEW l \in BagToSet(jobs) PROVE l.item \in Pool'
      <4>1. PICK m \in BagToSet(jobs') : m.item = l.item
        BY <2>5
      <4>2. QED
        BY <4>1 DEF Pool
    <3>3. QED
      BY <3>1, <3>2 DEF Pool
  <2>7. QED
    BY <2>3, <2>6 DEF Expected, SniItems
<1>3. ASSUME NEW j \in BagToSet(jobs), WorkerPostsHandler(j) PROVE Expected'
  <2>1. \A l \in BagToSet(jobs) : l = j \/ l \in BagToSet(jobs')
    BY <1>3, BagKeepsRest DEF WorkerPostsHandler, TypeOK
  <2>2. PICK h : posted' = Append(posted, h) /\ h.item = j.item
    BY <1>3 DEF WorkerPostsHandler
  <2>3. /\ Len(posted) + 1 \in DOMAIN posted' /\ posted'[Len(posted) + 1] = h
        /\ \A k \in DOMAIN posted : k \in DOMAIN posted' /\ posted'[k] = posted[k]
    BY <2>2 DEF TypeOK
  <2>4. Pool \subseteq Pool'
    BY <2>1, <2>2, <2>3 DEF Pool
  <2>5. UNCHANGED <<pending, notices, list, sni>>
    BY <1>3 DEF WorkerPostsHandler
  <2>6. QED
    BY <2>4, <2>5 DEF Expected, SniItems
<1>4. CASE RegistedItemChanged
  <2>1. CASE UpdateItems
    <3> DEFINE started == [item : NewItems, pid : {NoPid}, asked : {FALSE}]
    <3>1. BagToSet(jobs') = BagToSet(jobs) \cup started
      <4>1. jobs' = jobs (+) SetToBag(started) /\ IsABag(jobs)
        BY <2>1 DEF UpdateItems, TypeOK
      <4> HIDE DEF started
      <4>2. QED
        BY <4>1, BagWithSet
    <3>2. \A i \in NewItems : [item |-> i, pid |-> NoPid, asked |-> FALSE] \in BagToSet(jobs')
      BY <3>1
    <3>3. posted' = posted /\ list' = list
      BY <1>4 DEF RegistedItemChanged
    <3>4. Pool \cup NewItems \subseteq Pool'
      <4>1. ASSUME NEW i \in NewItems PROVE i \in Pool'
        <5>1. PICK j \in BagToSet(jobs') : j.item = i
          BY <3>2
        <5>2. QED
          BY <5>1 DEF Pool
      <4>2. QED
        BY <3>1, <3>3, <4>1 DEF Pool
    <3>5. pending' = (pending \cap list) \cup NewItems
      BY <2>1 DEF UpdateItems
    <3>6. SniItems \cap list \subseteq SniItems'
      BY <2>1 DEF UpdateItems, RemoveGone, Without, SniItems
    <3>7. list \ SniItems' \subseteq pending'
      BY <3>5, <3>6 DEF NewItems
    <3>8. QED
      BY <3>3, <3>4, <3>5, <3>7 DEF Expected
  <2>2. CASE list = SniItems /\ UNCHANGED <<jobs, pending, sni, registeredMap, currentIds, widgets>>
    <3>1. UNCHANGED <<jobs, posted, pending, list, sni>> /\ SniItems' = SniItems
      BY <1>4, <2>2 DEF RegistedItemChanged, SniItems
    <3>2. QED
      BY <1>1, <2>2, <3>1 DEF Expected
  <2>3. QED
    BY <1>4, <2>1, <2>2 DEF RegistedItemChanged
<1>5. CASE HandlerAdopted
  <2> DEFINE h == Head(posted)
  <2>1. /\ posted # << >> /\ posted' = Tail(posted) /\ h = posted[1] /\ h \in Posted
    BY <1>5, HandlersTyped DEF HandlerAdopted
  <2>2. \A k \in DOMAIN posted : k = 1 \/ (k - 1 \in DOMAIN posted' /\ posted'[k - 1] = posted[k])
    BY <2>1 DEF TypeOK
  <2>3. /\ pending' = pending \ {h.item} /\ UNCHANGED <<jobs, notices, list>>
        /\ sni' = [sni EXCEPT ![h.item] = [pid |-> h.pid, id |-> h.id]]
    BY <1>5 DEF HandlerAdopted
  <2>4. h.item \in Items /\ [pid |-> h.pid, id |-> h.id] \in Handler
    BY <2>1 DEF Posted, Handler
  <2> HIDE DEF h
  <2>5. Pool \subseteq Pool' \cup {h.item}
    BY <2>1, <2>2, <2>3 DEF Pool
  <2>6. SniItems' = SniItems \cup {h.item}
    BY <2>3, <2>4, HandlerAssumption DEF SniItems, TypeOK
  <2>7. QED
    BY <2>3, <2>5, <2>6 DEF Expected
<1>6. CASE HandlerDropped
  <2> DEFINE h == Head(posted)
  <2>1. /\ posted # << >> /\ posted' = Tail(posted) /\ h = posted[1]
        /\ h.item \notin pending /\ UNCHANGED <<jobs, pending, notices, list, sni>>
    BY <1>6, HandlersTyped DEF HandlerDropped
  <2>2. \A k \in DOMAIN posted : k = 1 \/ (k - 1 \in DOMAIN posted' /\ posted'[k - 1] = posted[k])
    BY <2>1 DEF TypeOK
  <2> HIDE DEF h
  <2>3. Pool \subseteq Pool' \cup {h.item}
    BY <2>1, <2>2 DEF Pool
  <2>4. QED
    BY <2>1, <2>3 DEF Expected, SniItems
<1>7. CASE Sweep
  BY <1>1, <1>7 DEF Sweep, Expected, SniItems
<1>8. ASSUME NEW i \in Items, ItemRegisters(i) \/ ItemLeaves(i) PROVE Expected'
  <2>1. UNCHANGED <<jobs, posted, pending, sni>> /\ (notices' # 0 \/ (notices' = notices /\ list' \subseteq list))
    BY <1>8, LimitAssumption DEF ItemRegisters, ItemLeaves, Notify, tray, TypeOK
  <2>2. QED
    BY <1>1, <2>1 DEF Expected, SniItems
<1>9. CASE WatcherRestarts
  BY <1>1, <1>9 DEF WatcherRestarts, tray, Expected, SniItems
<1>10. ASSUME NEW v \in Windows, IconDocks(v) \/ IconUndocks(v) \/ WindowDestroyed(v) PROVE Expected'
  BY <1>1, <1>10 DEF IconDocks, IconUndocks, WindowDestroyed, tray, Expected, SniItems
<1>11. CASE UNCHANGED vars
  BY <1>1, <1>11 DEF vars, Expected, SniItems
<1>12. QED
  BY <1>2, <1>3, <1>4, <1>5, <1>6, <1>7, <1>8, <1>9, <1>10, <1>11 DEF Next, Worker, MainThread

\* The window of an application without items.
Lonely(w) == \A i \in Items : ItemPid[i] # WindowPid[w]

\* Only processes of items, and none, are shown by SNI; the process of a window
\* that lives was told right; no docked window is passed over for good.
WindowInv ==
  /\ \A w \in Windows : Lonely(w) => registeredMap[WindowPid[w]] # "SNI"
  /\ \A w \in XembedWindows \cap windows : xembed[w].pid = WindowPid[w]
  /\ \A w \in (icons \cap windows) \ XembedWindows : Lonely(w) => sweeps > 0

LEMMA WindowsInit == Init => WindowInv
BY ProcessAssumption DEF Init, WindowInv, XembedWindows, AnyPid

LEMMA WindowsStep == RegistryInv /\ WindowInv /\ [Next]_vars => WindowInv'
<1> SUFFICES ASSUME RegistryInv, WindowInv, [Next]_vars PROVE WindowInv'
  OBVIOUS
<1> USE DEF watcher, manager, pool, RegistryInv
<1>0. /\ \A w \in Windows : WindowPid[w] \in AnyPid /\ WindowPid[w] # NoPid /\ WindowPid[w] \in Pids
      /\ \A i \in Items : ItemPid[i] \in AnyPid
      /\ windows \subseteq Windows /\ icons \subseteq Windows /\ sweeps \in Nat
  BY ProcessAssumption, LimitAssumption DEF AnyPid, TypeOK
<1>1. ASSUME UNCHANGED <<windows, icons, sweeps, xembed, registeredMap>> PROVE WindowInv'
  BY <1>1 DEF WindowInv, XembedWindows, Lonely
<1>2. CASE RegistedItemChanged
  <2>1. CASE UpdateItems
    <3>1. UNCHANGED <<windows, icons, sweeps, xembed>>
      BY <1>2 DEF RegistedItemChanged
    <3>2. \A p \in AnyPid : registeredMap'[p] \in {"UNKNOWN", registeredMap[p]}
      BY <2>1 DEF UpdateItems, RemoveGone
    <3>3. QED
      BY <1>0, <3>1, <3>2 DEF WindowInv, XembedWindows, Lonely
  <2>2. QED
    BY <1>1, <1>2, <2>1 DEF RegistedItemChanged
<1>3. CASE HandlerAdopted
  <2> DEFINE h == Head(posted)
  <2>1. h \in Posted /\ h.pid \in {ItemPid[h.item], NoPid}
    <3>1. h \in Posted /\ h = posted[1] /\ 1 \in DOMAIN posted
      BY <1>3, HandlersTyped DEF HandlerAdopted
    <3>2. QED
      BY <3>1 DEF OwnPids
  <2>2. \A w \in Windows : Lonely(w) => h.pid # WindowPid[w]
    BY <1>0, <2>1 DEF Lonely, Posted
  <2>3. PICK out \in RoomFor(h.pid) :
          xembed' = [w \in Windows |-> IF w \in out THEN NoHandler ELSE xembed[w]]
    BY <1>3 DEF HandlerAdopted
  <2>4. registeredMap' = [registeredMap EXCEPT ![h.pid] = "SNI"]
        /\ UNCHANGED <<windows, icons, sweeps>>
    BY <1>3 DEF HandlerAdopted
  <2>5. \A w \in out : w \in XembedWindows /\ xembed[w].pid = h.pid
    BY <2>3 DEF RoomFor
  <2> HIDE DEF h
  <2>6. \A w \in Windows : Lonely(w) => registeredMap'[WindowPid[w]] # "SNI"
    BY <1>0, <2>2, <2>4 DEF WindowInv, TypeOK
  <2>7. XembedWindows' = XembedWindows \ out /\ \A w \in XembedWindows' : xembed'[w] = xembed[w]
    BY <2>3 DEF XembedWindows
  <2>8. \A w \in out \cap windows : ~Lonely(w)
    BY <1>0, <2>2, <2>5 DEF WindowInv
  <2>9. QED
    BY <2>4, <2>6, <2>7, <2>8 DEF WindowInv, Lonely
<1>4. CASE Sweep
  <2>1. PICK id \in UniqueIds(SweepBase) :
          /\ XembedWindows' = (XembedWindows \cup NewWindows) \ GoneWindows
          /\ \A w \in NewWindows : xembed'[w].pid = PidNow(w)
          /\ \A w \in XembedWindows \ GoneWindows : xembed'[w] = xembed[w]
    BY <1>4, SweepResult
  <2>2. /\ \A p \in AnyPid : registeredMap'[p] \in {"UNKNOWN", "XEMBED", registeredMap[p]}
        /\ UNCHANGED <<windows, icons>>
    BY <1>4 DEF Sweep
  <2>3. \A w \in windows : PidNow(w) = WindowPid[w]
    BY DEF PidNow
  <2>4. \A w \in (icons \cap windows) \ XembedWindows : Lonely(w) => w \in NewWindows
    BY <1>0, <2>3 DEF NewWindows, NotShownBySni, WindowInv
  <2>5. \A w \in (icons \cap windows)' : Lonely(w) => w \in XembedWindows'
    BY <2>1, <2>2, <2>4 DEF GoneWindows, NewWindows
  <2>6. \A w \in Windows : Lonely(w) => registeredMap'[WindowPid[w]] # "SNI"
    BY <1>0, <2>2 DEF WindowInv
  <2>7. \A w \in (XembedWindows \cap windows)' : xembed'[w].pid = WindowPid[w]
    BY <2>1, <2>2, <2>3 DEF WindowInv
  <2>8. QED
    BY <2>5, <2>6, <2>7 DEF WindowInv, Lonely
<1>5. CASE HandlerDropped
  BY <1>1, <1>5 DEF HandlerDropped
<1>6. ASSUME NEW j \in BagToSet(jobs), Worker(j) PROVE WindowInv'
  BY <1>1, <1>6 DEF Worker, WorkerFindsPid, WorkerPostsHandler
<1>7. ASSUME NEW k \in Items, ItemRegisters(k) \/ ItemLeaves(k) PROVE WindowInv'
  BY <1>1, <1>7 DEF ItemRegisters, ItemLeaves, tray
<1>8. CASE WatcherRestarts
  BY <1>1, <1>8 DEF WatcherRestarts, tray
<1>9. ASSUME NEW v \in Windows, IconDocks(v) \/ IconUndocks(v) \/ WindowDestroyed(v)
      PROVE  WindowInv'
  <2>1. /\ windows' \subseteq windows
        /\ sweeps' > 0 \/ (sweeps' = sweeps /\ icons' = icons)
        /\ UNCHANGED <<xembed, registeredMap>>
    BY <1>0, <1>9 DEF IconDocks, IconUndocks, WindowDestroyed, StartSweep, tray
  <2>2. QED
    BY <2>1 DEF WindowInv, XembedWindows, Lonely
<1>10. CASE UNCHANGED vars
  BY <1>1, <1>10 DEF vars
<1>11. QED
  BY <1>2, <1>3, <1>4, <1>5, <1>6, <1>7, <1>8, <1>9, <1>10 DEF Next, MainThread

------------------------------------------------------------------------------
(* Theorems *)

\* An application with one item and one window is never shown twice, however many
\* other applications, jobs, restarts of the watcher and sweeps there are.
THEOREM OneIconPerApplication == Spec => []NoDoubleIcon
<1>1. RegistryInv => NoDoubleIcon
  <2> SUFFICES ASSUME RegistryInv, NEW i \in SniItems, NEW w \in XembedWindows,
                      Alone(i, w), sni[i].pid # NoPid, sni[i].pid = xembed[w].pid
               PROVE  FALSE
    BY DEF NoDoubleIcon
  <2>1. i \in Items /\ w \in Windows
    BY DEF SniItems, XembedWindows
  <2>2. sni[i].pid = ItemPid[i] /\ xembed[w].pid = WindowPid[w]
    BY DEF RegistryInv, OwnPids
  <2>3. QED
    BY <2>1, <2>2 DEF RegistryInv, Claims, Claim, Application
<1>2. QED
  BY <1>1, RegistryInvariant, PTL

\* Every handler has exactly its own widget and its own id, and no id stays in use
\* without one, for any number of handlers and of cancellations: as long as no name
\* has used up its suffixes, when generateUniqueId() hands out the bare name.
THEOREM OneWidgetPerHandler == Spec /\ []NoBareName => []WidgetPerHandler
<1>1. IdInv => WidgetPerHandler
  BY DEF IdInv, WidgetPerHandler, Accounted, Distinct, IdsOf, Shown, Waiting
<1>2. QED
  BY <1>1, IdsInit, IdsStep, TypeCorrect, PTL DEF Spec

\* The tray implements the table of icons it promises the dock, under the same
\* hypothesis.
THEOREM TrayKeepsIcons == Spec /\ []NoBareName => IconsKept
<1>1. Init => Icons!Init
  BY DEF Init, Icons!Init
<1>2. Spec /\ []NoBareName => []IdInv
  BY IdsInit, IdsStep, TypeCorrect, PTL DEF Spec
<1>3. QED
  BY <1>1, <1>2, IconsStep, TypeCorrect, PTL DEF Spec, IconsKept, Icons!Spec

\* Both hold as long as the ids in use, and the docked windows, are fewer than the
\* suffixes of a name: the search for a free one then never fails.
THEOREM FewIdsSuffice == Spec /\ []FewIds => []WidgetPerHandler /\ IconsKept
BY NamesSuffice, OneWidgetPerHandler, TrayKeepsIcons, PTL

\* An item the watcher lists is never forgotten, however often it was cancelled and
\* started again.
THEOREM NoItemForgotten == Spec => []ItemNotForgotten
<1>1. TypeOK /\ Expected => ItemNotForgotten
  BY LimitAssumption DEF TypeOK, Expected, UnderWay, Pool, ItemNotForgotten
<1>2. QED
  BY <1>1, ExpectedInit, ExpectedStep, TypeCorrect, PTL DEF Spec

\* Nor is the docked window of an application without items.
THEOREM NoWindowForgotten == Spec => []WindowNotForgotten
<1>1. WindowInv => WindowNotForgotten
  BY DEF WindowInv, Lonely, WindowNotForgotten
<1>2. QED
  BY <1>1, WindowsInit, WindowsStep, RegistryInvariant, PTL DEF Spec
==============================================================================
