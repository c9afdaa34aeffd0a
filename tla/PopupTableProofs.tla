-------------------------- MODULE PopupTableProofs ---------------------------
(***************************************************************************)
(* Theorems about PopupTable for any set of PluginPopup objects.           *)
(***************************************************************************)
EXTENDS PopupTable, TLAPS

State == [table : [Window -> Popups \cup {None}], live : [Window -> SUBSET Popups],
          embedded : SUBSET Popups, doomed : SUBSET Popups,
          visible : SUBSET Window, surface : [Window -> Popups \cup {None}]]

\* Each popup has one window, which it outlives in no table.
Owned(s) ==
  /\ \A v, w \in Window : v # w => s.live[v] \cap s.live[w] = {}
  /\ \A p \in s.embedded \cup s.doomed : \E w \in Window : p \in s.live[w]

\* The table holds no popup that waits for its deletion.
TableHasLiving(s) ==
  \A w \in Window : s.table[w] # None => s.table[w] \in s.live[w] \ s.doomed

SurfaceHasLiving(s) ==
  \A w \in Window :
    s.surface[w] # None => w \in s.visible /\ s.surface[w] \in s.live[w] \ s.doomed

OpenedHasSurface(s) == \A w \in s.visible \ {Tips} : s.surface[w] # None

Good(s) ==
  /\ s \in State /\ Owned(s)
  /\ TableHasLiving(s) /\ SurfaceHasLiving(s) /\ OpenedHasSurface(s)

PopupInv == Good(Now) /\ hovering \in BOOLEAN /\ closing \subseteq Window

------------------------------------------------------------------------------
(* What a handler is made of keeps the popups good *)

\* A window may lose its entry at any time.
LEMMA ForgetIsGood ==
  ASSUME NEW s, Good(s), NEW w \in Window
  PROVE  /\ Good([s EXCEPT !.table = Forget(s, w)])
         /\ Forget(s, w) \in [Window -> Popups \cup {None}] /\ Forget(s, w)[w] = None
<1> DEFINE f == [s EXCEPT !.table = Forget(s, w)]
<1>1. Forget(s, w) \in [Window -> Popups \cup {None}] /\ Forget(s, w)[w] = None
      /\ \A v \in Window : Forget(s, w)[v] \in {None, s.table[v]}
  BY DEF Good, State, Forget
<1>2. /\ f.table = Forget(s, w) /\ f.live = s.live /\ f.embedded = s.embedded
      /\ f.doomed = s.doomed /\ f.visible = s.visible /\ f.surface = s.surface /\ f \in State
  BY <1>1 DEF Good, State
<1> HIDE DEF f
<1>3. Owned(f) /\ SurfaceHasLiving(f) /\ OpenedHasSurface(f)
  BY <1>2 DEF Good, Owned, SurfaceHasLiving, OpenedHasSurface
<1>4. TableHasLiving(f)
  BY <1>1, <1>2 DEF Good, TableHasLiving
<1>5. QED
  BY <1>1, <1>2, <1>3, <1>4 DEF Good, f

\* Hiding leaves the window its popups, but no surface.
LEMMA HideIsGood ==
  ASSUME NEW s, Good(s), NEW w \in Window
  PROVE  Good(Hide(s, w)) /\ Hide(s, w).surface[w] = None /\ Hide(s, w).live = s.live
<1>1. CASE w \in s.visible
  <2> DEFINE h == [s EXCEPT !.table = Forget(s, w), !.doomed = @ \cup s.live[w],
                            !.visible = @ \ {w}, !.surface[w] = None]
  <2>1. Hide(s, w) = h
    BY <1>1 DEF Hide
  <2>2. /\ h.table = Forget(s, w) /\ h.live = s.live /\ h.embedded = s.embedded
        /\ h.doomed = s.doomed \cup s.live[w] /\ h.visible = s.visible \ {w}
        /\ h.surface = [s.surface EXCEPT ![w] = None] /\ h \in State
    BY ForgetIsGood DEF Good, State
  <2> HIDE DEF h
  <2>3. Owned(h)
    BY <2>2 DEF Good, State, Owned
  <2>4. TableHasLiving(h)
    BY <2>2 DEF Good, State, Owned, TableHasLiving, Forget
  <2>5. SurfaceHasLiving(h) /\ OpenedHasSurface(h)
    BY <2>2 DEF Good, State, Owned, SurfaceHasLiving, OpenedHasSurface
  <2>6. QED
    BY <2>1, <2>2, <2>3, <2>4, <2>5 DEF Good, State
<1>2. CASE w \notin s.visible
  BY <1>2 DEF Hide, Good, State, SurfaceHasLiving
<1>3. QED
  BY <1>1, <1>2

\* A popup may be destroyed when it has no surface.
LEMMA DestroyIsGood ==
  ASSUME NEW s, Good(s), NEW w \in Window, NEW p \in s.live[w], p # s.surface[w]
  PROVE  Good(Destroy(s, w, p))
<1> DEFINE d == Destroy(s, w, p)
<1>1. /\ d.table = Forget(s, w) /\ d.live = [s.live EXCEPT ![w] = @ \ {p}]
      /\ d.embedded = s.embedded \ {p} /\ d.doomed = s.doomed \ {p}
      /\ d.visible = s.visible /\ d.surface = s.surface /\ d \in State
  BY ForgetIsGood DEF Good, State, Destroy
<1> HIDE DEF d
<1>2. Owned(d)
  BY <1>1 DEF Good, State, Owned
<1>3. TableHasLiving(d)
  BY <1>1 DEF Good, State, Owned, TableHasLiving, Forget
<1>4. SurfaceHasLiving(d) /\ OpenedHasSurface(d)
  BY <1>1 DEF Good, State, SurfaceHasLiving, OpenedHasSurface
<1>5. QED
  BY <1>1, <1>2, <1>3, <1>4 DEF Good, d

LEMMA RemoveIsGood ==
  ASSUME NEW s, Good(s), NEW w \in Window
  PROVE  Good(Remove(s, w))
<1>1. CASE Contains(s, w)
  <2> DEFINE f == [s EXCEPT !.table = Forget(s, w)]
             h == Hide(f, w)
  <2>1. Good(f) /\ f.live = s.live
    BY ForgetIsGood DEF Good, State
  <2>2. Good(h) /\ h.surface[w] = None /\ h.live = f.live
    <3> HIDE DEF f
    <3>1. QED
      BY <2>1, HideIsGood
  <2>3. s.table[w] \in h.live[w] /\ s.table[w] # None
    BY <1>1, <2>1, <2>2 DEF Contains, Good, TableHasLiving
  <2>4. Remove(s, w) = Destroy(h, w, s.table[w])
    BY <1>1 DEF Remove
  <2> HIDE DEF h
  <2>5. QED
    BY <2>2, <2>3, <2>4, DestroyIsGood
<1>2. CASE ~Contains(s, w)
  BY <1>2 DEF Remove
<1>3. QED
  BY <1>1, <1>2

\* What get() returns is listed, and lives.
LEMMA GetIsGood ==
  ASSUME NEW s, Good(s), NEW w \in Window, NEW p \in Gettable(s, w)
  PROVE  Good(Get(s, w, p)) /\ Get(s, w, p).table[w] = p /\ p \in Popups
<1> DEFINE g == Get(s, w, p)
<1>1. p \in Popups
  BY PopupsAssumption DEF Gettable, Contains, Good, State
<1>2. /\ g.table = [s.table EXCEPT ![w] = p] /\ g.live = [s.live EXCEPT ![w] = @ \cup {p}]
      /\ g.embedded = s.embedded /\ g.doomed = s.doomed
      /\ g.visible = s.visible /\ g.surface = s.surface /\ g \in State
  BY <1>1 DEF Get, Good, State
<1>3. \A v \in Window \ {w} : p \notin s.live[v]
  BY DEF Gettable, Contains, Good, State, Owned, TableHasLiving
<1>4. p \notin s.doomed
  BY DEF Gettable, Contains, Good, State, Owned, TableHasLiving
<1> HIDE DEF g
<1>5. Owned(g)
  BY <1>2, <1>3 DEF Good, State, Owned
<1>6. TableHasLiving(g)
  BY <1>2, <1>4 DEF Good, State, TableHasLiving
<1>7. SurfaceHasLiving(g) /\ OpenedHasSurface(g)
  BY <1>2 DEF Good, State, SurfaceHasLiving, OpenedHasSurface
<1>8. QED
  BY <1>1, <1>2, <1>5, <1>6, <1>7 DEF Good, State, g

\* Any window may be shown that the table has, and the tooltip in any case.
LEMMA ShowIsGood ==
  ASSUME NEW s, Good(s), NEW w \in Window, w = Tips \/ s.table[w] # None
  PROVE  Good(Show(s, w))
<1> DEFINE o == Show(s, w)
<1>1. /\ o.table = s.table /\ o.live = s.live
      /\ o.embedded = s.embedded /\ o.doomed = s.doomed
      /\ o.visible = s.visible \cup {w}
      /\ o.surface = [s.surface EXCEPT ![w] = IF w \in s.visible THEN @ ELSE s.table[w]]
      /\ o \in State
  BY DEF Show, Good, State
<1> HIDE DEF o
<1>2. Owned(o) /\ TableHasLiving(o)
  BY <1>1 DEF Good, State, Owned, TableHasLiving
<1>3. SurfaceHasLiving(o)
  BY <1>1 DEF Good, State, TableHasLiving, SurfaceHasLiving
<1>4. OpenedHasSurface(o)
  BY <1>1 DEF Good, State, OpenedHasSurface
<1>5. QED
  BY <1>1, <1>2, <1>3, <1>4 DEF Good, o

\* The type of a popup that lives changes nothing else.
LEMMA TypedIsGood ==
  ASSUME NEW s, Good(s), NEW w \in Window, NEW p \in s.live[w]
  PROVE  /\ Good([s EXCEPT !.embedded = @ \ {p}])
         /\ Good([s EXCEPT !.embedded = @ \cup {p}])
BY DEF Good, State, Owned, TableHasLiving, SurfaceHasLiving, OpenedHasSurface

\* The applet is opened anew, by a click or by the quick panel.
LEMMA ReopenIsGood ==
  ASSUME NEW s, Good(s), NEW w \in Window, NEW p \in Gettable(Remove(s, w), w)
  PROVE  /\ Good(Show([Get(Remove(s, w), w, p) EXCEPT !.embedded = @ \ {p}], w))
         /\ Good(Show([Get(Remove(s, w), w, p) EXCEPT !.embedded = @ \cup {p}], w))
<1> DEFINE g == Get(Remove(s, w), w, p)
           clicked == [g EXCEPT !.embedded = @ \ {p}]
           requested == [g EXCEPT !.embedded = @ \cup {p}]
<1>1. Good(g) /\ g.table[w] = p /\ p # None
  BY RemoveIsGood, GetIsGood, PopupsAssumption
<1>2. p \in g.live[w]
  BY <1>1 DEF Good, TableHasLiving
<1> HIDE DEF g
<1>3. /\ Good(clicked) /\ clicked.table[w] # None
      /\ Good(requested) /\ requested.table[w] # None
  BY <1>1, <1>2, TypedIsGood DEF Good, State
<1> HIDE DEF clicked, requested
<1>4. Good(Show(clicked, w)) /\ Good(Show(requested, w))
  BY <1>3, ShowIsGood
<1>5. QED
  BY <1>4 DEF clicked, requested, g

LEMMA BecomesGood ==
  ASSUME NEW s, Good(s), Become(s)
  PROVE  Good(Now)'
<1>1. s = [table |-> s.table, live |-> s.live, embedded |-> s.embedded,
           doomed |-> s.doomed, visible |-> s.visible, surface |-> s.surface]
  BY DEF Good, State
<1>2. Now' = s
  BY <1>1 DEF Now, Become
<1>3. QED
  BY <1>2 DEF Good, State, Owned, TableHasLiving, SurfaceHasLiving, OpenedHasSurface

------------------------------------------------------------------------------
(* The invariant *)

LEMMA PopupInit == Init => PopupInv
<1> SUFFICES ASSUME Init PROVE PopupInv
  OBVIOUS
<1>1. Now \in State
  BY DEF Init, Now, State
<1>2. QED
  BY <1>1 DEF Init, Now, PopupInv, Good, Owned, TableHasLiving, SurfaceHasLiving,
              OpenedHasSurface

LEMMA PopupStep == PopupInv /\ [Next]_vars => PopupInv'
<1> SUFFICES ASSUME PopupInv, [Next]_vars PROVE PopupInv'
  OBVIOUS
<1> USE DEF PopupInv
<1>0. Tips \in Window /\ Applet \in Window /\ Menu \in Window
  BY DEF Window
<1>1. CASE EnterItem
  <2>1. PICK p \in Gettable(Hide(Now, Applet), Tips) :
               Become(Get(Hide(Now, Applet), Tips, p))
    BY <1>1 DEF EnterItem
  <2>2. Good(Get(Hide(Now, Applet), Tips, p))
    BY <1>0, <2>1, HideIsGood, GetIsGood
  <2>3. QED
    BY <1>1, <2>1, <2>2, BecomesGood DEF EnterItem
<1>2. CASE TooltipTimeout
  BY <1>0, <1>2, ShowIsGood, BecomesGood DEF TooltipTimeout
<1>3. CASE CloseToolTip
  BY <1>0, <1>3, HideIsGood, BecomesGood DEF CloseToolTip
<1>4. CASE ReleaseLeft
  <2> DEFINE s == Remove(Now, Applet)
  <2>1. Good(s)
    BY <1>0, RemoveIsGood
  <2>2. CASE Become(s)
    BY <1>4, <2>1, <2>2, BecomesGood DEF ReleaseLeft
  <2>3. ASSUME NEW p \in Gettable(s, Applet),
               Become(Show([Get(s, Applet, p) EXCEPT !.embedded = @ \ {p}], Applet))
        PROVE  PopupInv'
    BY <1>0, <1>4, <2>3, ReopenIsGood, BecomesGood DEF ReleaseLeft
  <2>4. QED
    BY <1>4, <2>2, <2>3 DEF ReleaseLeft
<1>5. CASE ReleaseRight
  <2>1. PICK p \in Gettable(Now, Menu) : Become(Show(Get(Now, Menu, p), Menu))
    BY <1>5 DEF ReleaseRight
  <2>2. Good(Show(Get(Now, Menu, p), Menu))
    BY <1>0, <2>1, GetIsGood, ShowIsGood, PopupsAssumption
  <2>3. QED
    BY <1>5, <2>1, <2>2, BecomesGood DEF ReleaseRight
<1>6. CASE MoveItem
  BY <1>0, <1>6, GetIsGood, BecomesGood DEF MoveItem
<1>7. CASE RequestSetAppletVisible
  BY <1>0, <1>7, ReopenIsGood, BecomesGood DEF RequestSetAppletVisible
<1>8. ASSUME NEW w \in Window, WindowHides(w) PROVE PopupInv'
  BY <1>8, HideIsGood, BecomesGood DEF WindowHides
<1>9. ASSUME NEW w \in Window, PluginPopupClose(w) PROVE PopupInv'
  <2>1. Now' = Now /\ hovering' = hovering /\ closing' = closing \cup {w}
    BY <1>9 DEF PluginPopupClose, popup, window, Now
  <2>2. QED
    BY <2>1 DEF Good, State, Owned, TableHasLiving, SurfaceHasLiving, OpenedHasSurface
<1>10. ASSUME NEW w \in Window, PluginPopupGeometry(w) PROVE PopupInv'
  BY <1>10, GetIsGood, BecomesGood DEF PluginPopupGeometry
<1>11. ASSUME NEW w \in Window, CloseWindow(w) PROVE PopupInv'
  BY <1>11, HideIsGood, BecomesGood DEF CloseWindow
<1>12. ASSUME NEW w \in Window, NEW p \in Popups, DeletePopup(w, p) PROVE PopupInv'
  <2>1. p \in Now.live[w] /\ p \in Now.doomed
    BY <1>12 DEF DeletePopup, Now
  <2>2. p # Now.surface[w]
    BY <2>1, PopupsAssumption DEF Good, SurfaceHasLiving
  <2>3. Good(Destroy(Now, w, p))
    BY <2>1, <2>2, DestroyIsGood
  <2>4. QED
    BY <1>12, <2>3, BecomesGood DEF DeletePopup
<1>13. CASE UNCHANGED vars
  <2>1. Now' = Now /\ hovering' = hovering /\ closing' = closing
    BY <1>13 DEF vars, popup, window, Now
  <2>2. QED
    BY <2>1 DEF Good, State, Owned, TableHasLiving, SurfaceHasLiving, OpenedHasSurface
<1>14. QED
  BY <1>1, <1>2, <1>3, <1>4, <1>5, <1>6, <1>7, <1>8, <1>9, <1>10, <1>11, <1>12,
     <1>13 DEF Next

LEMMA PopupInvariant == Spec => []PopupInv
<1>1. QED
  BY PopupInit, PopupStep, PTL DEF Spec

------------------------------------------------------------------------------
(* What a handler does to the surfaces *)

\* A window that is shown before and after a handler has the same surface, or was
\* closed and opened again, and its old popup waits for its deletion.
Same(s, t) == \A w \in s.visible \cap t.visible : t.surface[w] = s.surface[w]
Steady(s, t) ==
  \A w \in s.visible \cap t.visible :
    \/ t.surface[w] = s.surface[w]
    \/ t.surface[w] # None /\ s.surface[w] \notin t.live[w] \ t.doomed

LEMMA HideKeepsSurfaces ==
  ASSUME NEW s, Good(s), NEW w \in Window
  PROVE  Same(s, Hide(s, w)) /\ Hide(s, w).visible \subseteq s.visible
                             /\ w \notin Hide(s, w).visible
BY DEF Good, State, Hide, Same

LEMMA ShowKeepsSurfaces ==
  ASSUME NEW s, Good(s), NEW w \in Window
  PROVE  Same(s, Show(s, w))
BY DEF Good, State, Show, Same

LEMMA GetKeepsSurfaces ==
  ASSUME NEW s, Good(s), NEW w \in Window, NEW p
  PROVE  /\ Get(s, w, p).visible = s.visible /\ Get(s, w, p).surface = s.surface
         /\ Get(s, w, p).doomed = s.doomed
         /\ Get(s, w, p).live[w] = s.live[w] \cup {p} /\ Get(s, w, p).table[w] = p
BY DEF Good, State, Get

\* Removing a window's popup closes the window and dooms every popup it had.
LEMMA RemoveCloses ==
  ASSUME NEW s, Good(s), NEW w \in Window
  PROVE  /\ Same(s, Remove(s, w)) /\ Remove(s, w).visible \subseteq s.visible
         /\ ~Contains(Remove(s, w), w)
         /\ Contains(s, w) => w \notin Remove(s, w).visible
         /\ Contains(s, w) /\ w \in s.visible =>
              s.live[w] \cap (Remove(s, w).live[w] \ Remove(s, w).doomed) = {}
         /\ ~Contains(s, w) => Remove(s, w) = s
<1>1. CASE Contains(s, w)
  <2> DEFINE f == [s EXCEPT !.table = Forget(s, w)]
             h == Hide(f, w)
             d == Destroy(h, w, s.table[w])
  <2>1. /\ Good(f) /\ f.visible = s.visible /\ f.surface = s.surface
        /\ f.live = s.live /\ f.doomed = s.doomed
    BY ForgetIsGood DEF Good, State
  <2> HIDE DEF f
  <2>2. /\ Good(h) /\ Same(f, h) /\ h.visible \subseteq f.visible /\ w \notin h.visible
    BY <2>1, HideIsGood, HideKeepsSurfaces
  <2>3. w \in f.visible => h.live = f.live /\ h.doomed = f.doomed \cup f.live[w]
    BY <2>1 DEF Hide, Good, State
  <2> HIDE DEF h
  <2>4. /\ d.visible = h.visible /\ d.surface = h.surface /\ d.table[w] = None
        /\ d.live[w] = h.live[w] \ {s.table[w]} /\ d.doomed = h.doomed \ {s.table[w]}
    BY <2>2 DEF Good, State, Destroy, Forget
  <2>5. Remove(s, w) = d
    BY <1>1 DEF Remove, h, f
  <2> HIDE DEF d
  <2>6. Same(s, d)
    BY <2>1, <2>2, <2>4 DEF Same
  <2>7. w \in s.visible => s.live[w] \cap (d.live[w] \ d.doomed) = {}
    BY <2>1, <2>3, <2>4
  <2>8. QED
    BY <1>1, <2>1, <2>2, <2>4, <2>5, <2>6, <2>7 DEF Contains
<1>2. CASE ~Contains(s, w)
  BY <1>2 DEF Remove, Same
<1>3. QED
  BY <1>1, <1>2

\* A window that is closed and opened again in one handler, or just shown.
LEMMA ReopenIsSteady ==
  ASSUME NEW s, Good(s), NEW w \in Window, NEW p \in Gettable(Remove(s, w), w), NEW e,
         NEW t, t = Show([Get(Remove(s, w), w, p) EXCEPT !.embedded = e], w), Good(t)
  PROVE  Steady(s, t)
<1> DEFINE r == Remove(s, w)
           g == Get(r, w, p)
           f == [g EXCEPT !.embedded = e]
<1>1. /\ Good(r) /\ Same(s, r) /\ r.visible \subseteq s.visible
      /\ ~Contains(r, w)
      /\ Contains(s, w) => w \notin r.visible
      /\ Contains(s, w) /\ w \in s.visible => s.live[w] \cap (r.live[w] \ r.doomed) = {}
      /\ ~Contains(s, w) => r = s
  BY RemoveIsGood, RemoveCloses
<1> HIDE DEF r
<1>2. Good(g) /\ p \in Popups
  BY <1>1, GetIsGood DEF r
<1>3. /\ g.visible = r.visible /\ g.surface = r.surface /\ g.doomed = r.doomed
      /\ g.live[w] = r.live[w] \cup {p} /\ g.table[w] = p
  BY <1>1, GetKeepsSurfaces
<1> HIDE DEF g
<1>4. /\ f.visible = g.visible /\ f.surface = g.surface /\ f.doomed = g.doomed
      /\ f.live = g.live /\ f.table = g.table
  BY <1>2 DEF Good, State
<1>5. f = [table |-> f.table, live |-> f.live, embedded |-> f.embedded,
           doomed |-> f.doomed, visible |-> f.visible, surface |-> f.surface]
  BY <1>2 DEF Good, State
<1> HIDE DEF f
<1>6. /\ t.visible = f.visible \cup {w} /\ t.live = f.live /\ t.doomed = f.doomed
      /\ t.surface = [f.surface EXCEPT ![w] = IF w \in f.visible THEN @ ELSE f.table[w]]
  BY <1>5 DEF Show, f, g, r
<1>7. f.surface \in [Window -> Popups \cup {None}] /\ s.surface \in [Window -> Popups \cup {None}]
      /\ s.visible \subseteq Window
  BY <1>2, <1>4 DEF Good, State
<1>8. ASSUME NEW v \in s.visible \cap t.visible, v # w
      PROVE  t.surface[v] = s.surface[v]
  BY <1>1, <1>3, <1>4, <1>6, <1>7, <1>8 DEF Same
<1>9. ASSUME w \in s.visible, w \in r.visible PROVE t.surface[w] = s.surface[w]
  BY <1>1, <1>3, <1>4, <1>6, <1>7, <1>9 DEF Same
<1>10. ASSUME w \in s.visible, w \notin r.visible
       PROVE  \/ t.surface[w] = s.surface[w]
              \/ t.surface[w] # None /\ s.surface[w] \notin t.live[w] \ t.doomed
  <2>1. Contains(s, w)
    BY <1>1, <1>10
  <2>2. t.surface[w] = p
    BY <1>3, <1>4, <1>6, <1>7, <1>10
  <2>3. \A q \in s.live[w] : q \in t.live[w] \ t.doomed => q = p
    BY <1>1, <1>3, <1>4, <1>6, <1>10, <2>1
  <2>4. s.surface[w] \in s.live[w] \/ s.surface[w] = None
    BY DEF Good, SurfaceHasLiving
  <2>5. None \notin t.live[w] /\ p # None
    BY <1>2, PopupsAssumption DEF Good, State
  <2>6. QED
    BY <2>2, <2>3, <2>4, <2>5
<1>11. QED
  BY <1>8, <1>9, <1>10 DEF Steady

LEMMA BecomesNow ==
  ASSUME NEW s, Good(s), Become(s)
  PROVE  Now' = s
<1>1. s = [table |-> s.table, live |-> s.live, embedded |-> s.embedded,
           doomed |-> s.doomed, visible |-> s.visible, surface |-> s.surface]
  BY DEF Good, State
<1>2. QED
  BY <1>1 DEF Now, Become

LEMMA SteadyStep == PopupInv /\ [Next]_vars => Steady(Now, Now')
<1> SUFFICES ASSUME PopupInv, [Next]_vars PROVE Steady(Now, Now')
  OBVIOUS
<1>0. /\ Tips \in Window /\ Applet \in Window /\ Menu \in Window
      /\ Good(Now) /\ Good(Now')
  <2>1. PopupInv'
    BY PopupStep
  <2>2. Good(Now')
    BY <2>1 DEF PopupInv, Good, State, Owned, TableHasLiving, SurfaceHasLiving, OpenedHasSurface
  <2>3. QED
    BY <2>2 DEF PopupInv, Window
<1>1. \A s, t : Same(s, t) => Steady(s, t)
  BY DEF Same, Steady
<1>2. ASSUME NEW w \in Window, Become(Hide(Now, w)) PROVE Steady(Now, Now')
  BY <1>0, <1>1, <1>2, HideIsGood, HideKeepsSurfaces, BecomesNow
<1>3. ASSUME NEW w \in Window, NEW p \in Gettable(Now, w), Become(Get(Now, w, p))
      PROVE  Steady(Now, Now')
  <2>1. Now' = Get(Now, w, p)
    BY <1>0, <1>3, GetIsGood, BecomesNow
  <2>2. QED
    BY <1>0, <2>1, GetKeepsSurfaces DEF Steady
<1>4. CASE EnterItem
  <2> DEFINE h == Hide(Now, Applet)
  <2>1. PICK p \in Gettable(h, Tips) : Become(Get(h, Tips, p))
    BY <1>4 DEF EnterItem
  <2>2. Good(h) /\ Same(Now, h) /\ h.visible \subseteq Now.visible
    BY <1>0, HideIsGood, HideKeepsSurfaces
  <2> HIDE DEF h
  <2>3. Now' = Get(h, Tips, p)
    BY <1>0, <2>1, <2>2, GetIsGood, BecomesNow
  <2>4. Now'.visible = h.visible /\ Now'.surface = h.surface
    BY <1>0, <2>2, <2>3, GetKeepsSurfaces
  <2>5. QED
    BY <2>2, <2>4 DEF Same, Steady
<1>5. CASE TooltipTimeout
  <2>1. Now' = Show(Now, Tips)
    BY <1>0, <1>5, ShowIsGood, BecomesNow DEF TooltipTimeout
  <2>2. QED
    BY <1>0, <1>1, <2>1, ShowKeepsSurfaces
<1>6. CASE CloseToolTip
  BY <1>0, <1>2, <1>6 DEF CloseToolTip
<1>7. CASE ReleaseLeft
  <2> DEFINE s == Remove(Now, Applet)
  <2>1. CASE Become(s)
    <3>1. Now' = s
      BY <1>0, <2>1, RemoveIsGood, BecomesNow
    <3>2. QED
      BY <1>0, <1>1, <3>1, RemoveCloses
  <2>2. ASSUME NEW p \in Gettable(s, Applet),
               Become(Show([Get(s, Applet, p) EXCEPT !.embedded = @ \ {p}], Applet))
        PROVE  Steady(Now, Now')
    <3>1. Now' = Show([Get(s, Applet, p) EXCEPT !.embedded = @ \ {p}], Applet)
      BY <1>0, <2>2, ReopenIsGood, BecomesNow
    <3>2. QED
      BY <1>0, <2>2, <3>1, ReopenIsSteady
  <2>3. QED
    BY <1>7, <2>1, <2>2 DEF ReleaseLeft
<1>8. CASE ReleaseRight
  <2>1. PICK p \in Gettable(Now, Menu) : Become(Show(Get(Now, Menu, p), Menu))
    BY <1>8 DEF ReleaseRight
  <2> DEFINE g == Get(Now, Menu, p)
  <2>2. Good(g) /\ g.table[Menu] # None /\ g.visible = Now.visible /\ g.surface = Now.surface
    BY <1>0, <2>1, GetIsGood, GetKeepsSurfaces, PopupsAssumption
  <2> HIDE DEF g
  <2>3. Now' = Show(g, Menu)
    BY <1>0, <2>1, <2>2, ShowIsGood, BecomesNow DEF g
  <2>4. Same(g, Show(g, Menu))
    BY <1>0, <2>2, ShowKeepsSurfaces
  <2>5. QED
    BY <2>2, <2>3, <2>4 DEF Same, Steady
<1>9. CASE MoveItem
  BY <1>0, <1>3, <1>9 DEF MoveItem
<1>10. CASE RequestSetAppletVisible
  <2> DEFINE s == Remove(Now, Applet)
  <2>1. PICK p \in Gettable(s, Applet) :
               Become(Show([Get(s, Applet, p) EXCEPT !.embedded = @ \cup {p}], Applet))
    BY <1>10 DEF RequestSetAppletVisible
  <2>2. Now' = Show([Get(s, Applet, p) EXCEPT !.embedded = @ \cup {p}], Applet)
    BY <1>0, <2>1, ReopenIsGood, BecomesNow
  <2>3. QED
    BY <1>0, <2>1, <2>2, ReopenIsSteady
<1>11. ASSUME NEW w \in Window, WindowHides(w) \/ CloseWindow(w) PROVE Steady(Now, Now')
  BY <1>2, <1>11 DEF WindowHides, CloseWindow
<1>12. ASSUME NEW w \in Window, PluginPopupGeometry(w) PROVE Steady(Now, Now')
  BY <1>3, <1>12 DEF PluginPopupGeometry
<1>13. ASSUME NEW w \in Window, NEW p \in Popups, DeletePopup(w, p) PROVE Steady(Now, Now')
  <2>1. visible' = visible /\ surface' = surface
    BY <1>13 DEF DeletePopup, Become, Destroy, Now
  <2>2. QED
    BY <2>1 DEF Steady, Now
<1>14. CASE UNCHANGED vars \/ \E w \in Window : PluginPopupClose(w)
  <2>1. visible' = visible /\ surface' = surface
    BY <1>14 DEF vars, popup, window, PluginPopupClose
  <2>2. QED
    BY <2>1 DEF Steady, Now
<1>15. QED
  BY <1>4, <1>5, <1>6, <1>7, <1>8, <1>9, <1>10, <1>11, <1>12, <1>13, <1>14 DEF Next

\* Each window follows ShellSurface.
LEMMA SurfacesStep ==
  PopupInv /\ PopupInv' /\ [Next]_vars =>
    /\ [TipsSurface!Next]_(TipsSurface!vars)
    /\ [AppletSurface!Next]_(AppletSurface!vars)
    /\ [MenuSurface!Next]_(MenuSurface!vars)
<1> SUFFICES ASSUME PopupInv, PopupInv', [Next]_vars
             PROVE  TipsSurface!Next /\ AppletSurface!Next /\ MenuSurface!Next
  BY DEF TipsSurface!vars, AppletSurface!vars, MenuSurface!vars
<1>1. Steady(Now, Now')
  BY SteadyStep
<1>2. ASSUME NEW w \in Window
      PROVE  \/ w \notin visible /\ w \in visible' /\ surface'[w] \in (live[w] \ doomed)' \cup {None}
             \/ w \in visible /\ w \notin visible' /\ surface'[w] = None
             \/ /\ w \in visible /\ w \in visible' /\ surface'[w] \in (live[w] \ doomed)'
                /\ surface[w] \notin (live[w] \ doomed)'
             \/ /\ (w \in visible') = (w \in visible) /\ surface'[w] = surface[w]
                /\ surface[w] # None => surface[w] \in (live[w] \ doomed)'
  <2>1. /\ surface[w] # None => w \in visible /\ surface[w] \in live[w] \ doomed
        /\ surface'[w] # None => w \in visible' /\ surface'[w] \in (live[w] \ doomed)'
    BY DEF PopupInv, Good, SurfaceHasLiving, Now
  <2>2. w \in visible /\ w \in visible' =>
          \/ surface'[w] = surface[w]
          \/ surface'[w] # None /\ surface[w] \notin (live[w] \ doomed)'
    BY <1>1 DEF Steady, Now
  <2>3. QED
    BY <2>1, <2>2
<1>3. Tips \in Window /\ Applet \in Window /\ Menu \in Window
  BY DEF Window
<1>4. TipsSurface!Next
  BY <1>2, <1>3 DEF TipsSurface!Next, TipsSurface!Show, TipsSurface!Hide,
                    TipsSurface!Reopen, TipsSurface!Stay
<1>5. AppletSurface!Next
  BY <1>2, <1>3 DEF AppletSurface!Next, AppletSurface!Show, AppletSurface!Hide,
                    AppletSurface!Reopen, AppletSurface!Stay
<1>6. MenuSurface!Next
  BY <1>2, <1>3 DEF MenuSurface!Next, MenuSurface!Show, MenuSurface!Hide,
                    MenuSurface!Reopen, MenuSurface!Stay
<1>7. QED
  BY <1>4, <1>5, <1>6

------------------------------------------------------------------------------
(* Theorems *)

\* Types; a popup has one window, and the table only names popups that live.
THEOREM TypeCorrect == Spec => []TypeOK
<1>1. PopupInv => TypeOK
  BY DEF PopupInv, Good, State, Owned, TableHasLiving, Now, TypeOK, Alive
<1>2. QED
  BY <1>1, PopupInvariant, PTL

\* A popup surface never points to a popup that died or is about to (though the
\* table may lose the entry of another popup), and what opens at once is shown.
THEOREM PopupsAreOnDock == Spec => []PopupOnDock
<1>1. PopupInv => PopupOnDock
  BY DEF PopupInv, Good, SurfaceHasLiving, OpenedHasSurface, Now, PopupOnDock
<1>2. QED
  BY <1>1, PopupInvariant, PTL

\* Each of an item's popup windows implements ShellSurface: the table may lose an
\* entry or give the window another popup, the surface keeps the popup it has.
THEOREM PopupsKeepSurfaces == Spec => SurfacesKept
<1>1. Init => TipsSurface!Init /\ AppletSurface!Init /\ MenuSurface!Init
  BY DEF Init, Window, TipsSurface!Init, AppletSurface!Init, MenuSurface!Init
<1>2. QED
  BY <1>1, SurfacesStep, PopupInvariant, PTL
     DEF Spec, SurfacesKept, TipsSurface!Spec, AppletSurface!Spec, MenuSurface!Spec
==============================================================================
