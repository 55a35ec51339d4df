------------------------ MODULE WindowManagerProofs ------------------------
(***************************************************************************)
(* The windows of wm.cpp, for every set of windows and icons: the keyboard *)
(* stays with a visible window and nothing changes its look without a      *)
(* repaint.  Then the explorer and the notepad, for every tree of          *)
(* directories, every buffer and every history: the rows are current, the  *)
(* path leads to them, and what was only read is not written back.         *)
(*                                                                         *)
(* A handler is a chain of helpers on a copy s of the state g.  Fine(s)    *)
(* says what holds all along such a chain, so that every helper is looked  *)
(* at once, and an action only has to put the helpers' lemmas together.    *)
(***************************************************************************)
EXTENDS WindowManager, Explorer, WellFoundedInduction, SequenceTheorems, FiniteSetTheorems, TLAPS

IconState == {"none", "pressed", "moved"}
Flags     == Windows \cup {FULL, DIRTY, TASKBAR}

(* Orders in which every window occurs.                                    *)
Orders == {z \in [1 .. Len(WinType) -> Windows] :
              \A i \in Windows : \E k \in 1 .. Len(WinType) : z[k] = i}

State == [visible : SUBSET Windows, opened : SUBSET Windows, active : Windows, z : Orders,
          drag : SUBSET Windows, resize : SUBSET Windows, showdesk : BOOLEAN,
          mask : SUBSET Windows, deskfocus : BOOLEAN, menu : BOOLEAN, start : BOOLEAN,
          icon : IconState, iconsel : Windows, left : BOOLEAN, notefocus : BOOLEAN,
          textfocus : BOOLEAN, rf : SUBSET Flags, dirty : SUBSET Windows]

(* While the desktop is shown the focus waits on one of the windows that   *)
(* come back; without that, showing the desktop twice could lose it.       *)
Focused(s) ==
    /\ s.visible # {} => s.active \in s.visible
    /\ s.showdesk => /\ s.visible = {}
                     /\ s.mask # {} => s.active \in s.mask

(* What is different from g is covered by a flag that is already set.      *)
Repainted(s) ==
    \/ FULL \in s.rf
    \/ /\ s.visible = g.visible
       /\ s.active # g.active =>
            /\ DIRTY \in s.rf
            /\ {g.active, s.active} \cap s.visible \subseteq s.dirty

Fine(s) == s \in State /\ Focused(s) /\ Repainted(s)

Inv ==
    /\ g \in State
    /\ Focused(g)
    /\ pending \subseteq Windows \cup {FULL}

-----------------------------------------------------------------------------
(* The windows and the flags.                                              *)

LEMMA WindowFacts ==
    /\ Len(WinType) \in Nat
    /\ Windows \subseteq Nat
    /\ TERM \in Windows /\ NOTE \in Windows /\ EXPL \in Windows
    /\ Icons \subseteq Windows
    /\ Len(WinType) # 0
  <1>1. Len(WinType) \in Nat
    BY TypesAssumption DEF TypesAssumption
  <1>2. NOTE \in Windows /\ EXPL \in Windows
    BY TypesAssumption DEF TypesAssumption, NOTE, EXPL
  <1>3. Windows \subseteq Nat /\ TERM \in Windows /\ Len(WinType) # 0
    BY <1>1, <1>2 DEF Windows, TERM
  <1> QED  BY <1>1, <1>2, <1>3, TypesAssumption DEF TypesAssumption

LEMMA FlagFacts ==
    /\ FULL \in Flags /\ DIRTY \in Flags /\ TASKBAR \in Flags /\ Windows \subseteq Flags
    /\ FULL # DIRTY /\ FULL # TASKBAR /\ DIRTY # TASKBAR
    /\ \A i \in Windows : i # FULL /\ i # DIRTY /\ i # TASKBAR
  BY WindowFacts DEF Flags, FULL, DIRTY, TASKBAR, Windows

(* bring_to_front leaves every window in the order.                        *)
LEMMA RaisedOrder ==
    ASSUME NEW z \in Orders, NEW i \in Windows
    PROVE  Raised(z, i) \in Orders
  <1> DEFINE n == Len(WinType)
  <1>1. n \in Nat /\ n # 0
    BY WindowFacts
  <1>2. z \in [1 .. n -> Windows] /\ \A w \in Windows : \E k \in 1 .. n : z[k] = w
    BY DEF Orders
  <1>3. Len(z) = n
    BY <1>1, <1>2
  <1> HIDE DEF n
  <1> DEFINE up == [k \in 1 .. n |-> IF k = n THEN i
                                    ELSE IF \E j \in 1 .. k : z[j] = i THEN z[k + 1] ELSE z[k]]
  <1>4. up \in [1 .. n -> Windows]
    <2>1. ASSUME NEW k \in 1 .. n
          PROVE  (IF k = n THEN i ELSE IF \E j \in 1 .. k : z[j] = i THEN z[k + 1] ELSE z[k]) \in Windows
      <3>1. k # n => k + 1 \in 1 .. n
        BY <1>1
      <3> QED  BY <3>1, <1>2
    <2> QED  BY <2>1
  <1>5. ASSUME NEW w \in Windows  PROVE  \E k \in 1 .. n : up[k] = w
    <2>1. n \in 1 .. n /\ up[n] = i
      BY <1>1
    <2>2. PICK k \in 1 .. n : z[k] = w
      BY <1>2
    <2>3. CASE w = i
      BY <2>1, <2>3
    <2>4. CASE w # i /\ \E j \in 1 .. k : z[j] = i
      <3>1. PICK j \in 1 .. k : z[j] = i
        BY <2>4
      <3>2. j # k
        BY <3>1, <2>2, <2>4
      <3>3. k - 1 \in 1 .. n /\ k - 1 # n /\ j \in 1 .. (k - 1) /\ (k - 1) + 1 = k
        BY <1>1, <3>1, <3>2
      <3>4. up[k - 1] = z[(k - 1) + 1]
        BY <3>1, <3>3
      <3> QED  BY <3>3, <3>4, <2>2
    <2>5. CASE w # i /\ ~(\E j \in 1 .. k : z[j] = i)
      <3>1. CASE k # n
        BY <2>2, <2>5, <3>1
      <3>2. CASE k = n
        BY <1>2, <2>5, <3>2
      <3> QED  BY <3>1, <3>2
    <2> QED  BY <2>3, <2>4, <2>5
  <1>6. up \in Orders
    BY <1>4, <1>5 DEF Orders, n
  <1>7. Raised(z, i) = z \/ Raised(z, i) = up
    BY <1>3 DEF Raised
  <1> QED  BY <1>6, <1>7

(* A set of numbers that is not empty has a least one.                     *)
Less == {p \in Nat \X Nat : p[1] < p[2]}

LEMMA LessIsWellFounded == IsWellFoundedOn(Less, Nat)
  BY NatLessThanWellFounded DEF OpToRel, Less

(* pick_next_visible finds a visible window whenever there is another one. *)
LEMMA NextVisibleFound ==
    ASSUME NEW s \in State, NEW i \in Windows
    PROVE  /\ NextVisible(s, i) \in Windows
           /\ s.visible \ {i} # {} => NextVisible(s, i) \in s.visible \ {i}
  <1> DEFINE others == s.visible \ {i}
  <1>1. others \subseteq Nat /\ others \subseteq Windows
    BY WindowFacts DEF State
  <1>2. CASE others = {}
    BY <1>2, WindowFacts DEF NextVisible
  <1>3. CASE others # {}
    <2>1. PICK least \in others : \A y \in others : ~(<<y, least>> \in Less)
      BY <1>1, <1>3, LessIsWellFounded, WFMin
    <2>2. \A y \in others : least <= y
      <3>1. ASSUME NEW y \in others, ~(least <= y)
            PROVE  FALSE
        <4>1. y \in Nat /\ least \in Nat /\ y < least
          BY <1>1, <2>1, <3>1
        <4>2. <<y, least>> \in Less
          BY <4>1 DEF Less
        <4> QED  BY <2>1, <4>2
      <3> QED  BY <3>1
    <2>3. NextVisible(s, i) \in others
      BY <1>3, <2>2 DEF NextVisible
    <2> QED  BY <2>3, <1>1
  <1> QED  BY <1>2, <1>3

-----------------------------------------------------------------------------
(* The helpers, each on any state a handler may have reached.              *)

(* Fields that are neither looks nor flags may change; flags only grow.    *)
LEMMA Beside ==
    ASSUME NEW s, Fine(s), NEW t \in State,
           t.visible = s.visible, t.active = s.active, t.showdesk = s.showdesk,
           t.mask = s.mask, s.rf \subseteq t.rf, s.dirty \subseteq t.dirty
    PROVE  Fine(t)
  <1>1. Focused(t)
    BY DEF Fine, Focused
  <1>2. Repainted(t)
    BY DEF Fine, Repainted
  <1> QED  BY <1>1, <1>2 DEF Fine

(* A state that differs in neither looks nor flags.                        *)
Alike(t, s) ==
    /\ t \in State
    /\ t.visible = s.visible /\ t.active = s.active /\ t.showdesk = s.showdesk
    /\ t.mask = s.mask /\ t.rf = s.rf /\ t.dirty = s.dirty

LEMMA AlikeFine ==
    ASSUME NEW s, Fine(s), NEW t, Alike(t, s)
    PROVE  Fine(t)
  BY Beside DEF Alike

LEMMA FlagState ==
    ASSUME NEW s \in State, NEW f \in SUBSET Flags
    PROVE  /\ Flag(s, f) \in State
           /\ Flag(s, f).rf = s.rf \cup f
           /\ Flag(s, f).visible = s.visible /\ Flag(s, f).active = s.active
           /\ Flag(s, f).showdesk = s.showdesk /\ Flag(s, f).mask = s.mask
           /\ Flag(s, f).dirty = s.dirty
  BY DEF Flag, State

LEMMA FlagFine ==
    ASSUME NEW s, Fine(s), NEW f \in SUBSET Flags
    PROVE  Fine(Flag(s, f))
  <1>1. s \in State
    BY DEF Fine
  <1> QED  BY <1>1, FlagState, Beside

(* A redraw of all covers whatever was done.                               *)
LEMMA FullFine ==
    ASSUME NEW s \in State, Focused(s)
    PROVE  Fine(Flag(s, {FULL}))
  <1>1. {FULL} \in SUBSET Flags
    BY FlagFacts
  <1>2. Focused(Flag(s, {FULL}))
    BY <1>1, FlagState DEF Focused
  <1> QED  BY <1>1, <1>2, FlagState DEF Fine, Repainted

LEMMA OpenAppFine ==
    ASSUME NEW s \in State, NEW i \in Windows
    PROVE  Fine(OpenApp(s, i))
  <1> DEFINE t == [s EXCEPT !.opened = @ \cup {i}, !.visible = @ \cup {i}, !.active = i,
                            !.z = Raised(@, i), !.showdesk = FALSE, !.mask = {}, !.deskfocus = FALSE]
  <1>1. Raised(s.z, i) \in Orders
    BY RaisedOrder DEF State
  <1>2. t \in State
    BY <1>1 DEF State
  <1>3. t.visible = s.visible \cup {i} /\ t.active = i /\ t.showdesk = FALSE
    BY DEF State
  <1>4. Focused(t)
    BY <1>3 DEF Focused
  <1> QED  BY <1>2, <1>4, FullFine DEF OpenApp

(* Closing or minimizing: the next visible window takes over.              *)
LEMMA HideFine ==
    ASSUME NEW s \in State, NEW i \in Windows, s.showdesk = FALSE
    PROVE  Fine(Hide(s, i))
  <1> DEFINE hidden == [s EXCEPT !.visible = @ \ {i}]
             t == [hidden EXCEPT !.active = NextVisible(hidden, i)]
  <1>1. hidden \in State
    BY DEF State
  <1>2. hidden.visible = s.visible \ {i} /\ hidden.showdesk = FALSE
    BY DEF State
  <1> HIDE DEF hidden
  <1>3. /\ NextVisible(hidden, i) \in Windows
        /\ hidden.visible \ {i} # {} => NextVisible(hidden, i) \in hidden.visible \ {i}
    BY <1>1, NextVisibleFound
  <1>4. t \in State
    BY <1>1, <1>3 DEF State
  <1>5. t.visible = hidden.visible /\ t.active = NextVisible(hidden, i) /\ t.showdesk = FALSE
    BY <1>1, <1>2 DEF State
  <1>6. Focused(t)
    BY <1>2, <1>3, <1>5 DEF Focused
  <1>7. Hide(s, i) = Flag(t, {FULL})
    BY DEF Hide, hidden
  <1> QED  BY <1>4, <1>6, <1>7, FullFine

LEMMA FocusFine ==
    ASSUME NEW s \in State, NEW i \in s.visible, s.showdesk = FALSE
    PROVE  Fine(Focus(s, i))
  <1> DEFINE t == [s EXCEPT !.active = i, !.z = Raised(@, i)]
  <1>1. i \in Windows
    BY DEF State
  <1>2. Raised(s.z, i) \in Orders
    BY <1>1, RaisedOrder DEF State
  <1>3. t \in State
    BY <1>1, <1>2 DEF State
  <1>4. t.visible = s.visible /\ t.active = i /\ t.showdesk = FALSE
    BY DEF State
  <1>5. Focused(t)
    BY <1>4 DEF Focused
  <1> QED  BY <1>3, <1>5, FullFine DEF Focus

LEMMA ShowDesktopFine ==
    ASSUME NEW s, Fine(s)
    PROVE  Fine(ShowDesktopToggle(s))
  <1> DEFINE t == [s EXCEPT !.mask = IF s.showdesk THEN {} ELSE s.visible,
                            !.visible = IF s.showdesk THEN s.mask ELSE {},
                            !.showdesk = ~@, !.deskfocus = TRUE]
  <1>1. s \in State /\ Focused(s)
    BY DEF Fine
  <1>2. /\ s.showdesk \in BOOLEAN /\ s.mask \in SUBSET Windows
        /\ s.visible \in SUBSET Windows
    BY <1>1 DEF State
  <1>3. t \in State
    <2>1. (~s.showdesk) \in BOOLEAN
      OBVIOUS
    <2> QED  BY <1>1, <1>2, <2>1 DEF State
  <1>4. CASE s.showdesk
    <2>1. t.visible = s.mask /\ t.active = s.active /\ ~t.showdesk
      BY <1>1, <1>4 DEF State
    <2>2. Focused(t)
      BY <1>1, <1>4, <2>1 DEF Focused
    <2> QED  BY <1>3, <2>2, FullFine DEF ShowDesktopToggle
  <1>5. CASE ~s.showdesk
    <2>1. t.visible = {} /\ t.mask = s.visible /\ t.active = s.active
      BY <1>1, <1>5 DEF State
    <2>2. Focused(t)
      BY <1>1, <1>5, <2>1 DEF Focused
    <2> QED  BY <1>3, <2>2, FullFine DEF ShowDesktopToggle
  <1> QED  BY <1>4, <1>5

LEMMA DirtyState ==
    ASSUME NEW s \in State, NEW is \in SUBSET Windows
    PROVE  /\ Dirty(s, is) \in State
           /\ Dirty(s, is).rf = s.rf \cup {DIRTY}
           /\ Dirty(s, is).dirty = s.dirty \cup (is \cap s.visible)
           /\ Dirty(s, is).visible = s.visible /\ Dirty(s, is).active = s.active
           /\ Dirty(s, is).showdesk = s.showdesk /\ Dirty(s, is).mask = s.mask
  <1> DEFINE t == [s EXCEPT !.dirty = @ \cup UNION {Rect(s, i) : i \in is}]
  <1>1. UNION {Rect(s, i) : i \in is} = is \cap s.visible
    BY DEF Rect
  <1>2. t \in State
    BY <1>1 DEF State
  <1>3. /\ t.dirty = s.dirty \cup (is \cap s.visible) /\ t.rf = s.rf
        /\ t.visible = s.visible /\ t.active = s.active
        /\ t.showdesk = s.showdesk /\ t.mask = s.mask
    BY <1>1 DEF State
  <1>4. {DIRTY} \in SUBSET Flags
    BY FlagFacts
  <1>5. Dirty(s, is) = Flag(t, {DIRTY})
    BY DEF Dirty
  <1> HIDE DEF t
  <1> QED  BY <1>2, <1>3, <1>4, <1>5, FlagState

LEMMA DirtyFine ==
    ASSUME NEW s, Fine(s), NEW is \in SUBSET Windows
    PROVE  Fine(Dirty(s, is))
  <1>1. s \in State
    BY DEF Fine
  <1> QED  BY <1>1, DirtyState, Beside

(* A press on another window redraws the old and the new frame.            *)
LEMMA ActivatedFine ==
    ASSUME NEW s, Fine(s), NEW i \in s.visible
    PROVE  /\ Fine(Activated(s, i))
           /\ Activated(s, i).visible = s.visible
           /\ Activated(s, i).showdesk = FALSE
  <1> DEFINE top == [s EXCEPT !.deskfocus = FALSE, !.active = i, !.z = Raised(@, i)]
             both == Dirty(top, {s.active, i})
  <1>1. s \in State /\ Focused(s) /\ Repainted(s)
    BY DEF Fine
  <1>2. i \in Windows /\ s.active \in Windows
    BY <1>1 DEF State
  <1>3. top \in State
    <2>1. Raised(s.z, i) \in Orders
      BY <1>1, <1>2, RaisedOrder DEF State
    <2> QED  BY <1>1, <1>2, <2>1 DEF State
  <1>4. /\ top.visible = s.visible /\ top.active = i /\ top.showdesk = s.showdesk
        /\ top.mask = s.mask /\ top.rf = s.rf /\ top.dirty = s.dirty
    BY <1>1 DEF State
  <1>5. s.showdesk = FALSE
    BY <1>1 DEF Focused, State
  <1> HIDE DEF top
  <1>6. CASE s.active = i
    <2>1. Fine(top)
      BY <1>3, <1>4, <1>6, Beside
    <2> QED  BY <1>4, <1>5, <1>6, <2>1 DEF Activated, top
  <1>7. CASE s.active # i
    <2>1. {s.active, i} \in SUBSET Windows
      BY <1>2
    <2>2. /\ both \in State
          /\ both.rf = s.rf \cup {DIRTY}
          /\ both.dirty = s.dirty \cup ({s.active, i} \cap s.visible)
          /\ both.visible = s.visible /\ both.active = i
          /\ both.showdesk = FALSE
      BY <1>3, <1>4, <1>5, <2>1, DirtyState
    <2> HIDE DEF both
    <2>3. Focused(both)
      BY <2>2 DEF Focused
    <2>4. Repainted(both)
      BY <1>1, <2>2 DEF Repainted
    <2>5. Fine(both)
      BY <2>2, <2>3, <2>4 DEF Fine
    <2>6. {TASKBAR} \in SUBSET Flags
      BY FlagFacts
    <2>7. Activated(s, i) = Flag(both, {TASKBAR})
      BY <1>7 DEF Activated, top, both
    <2> QED  BY <2>2, <2>5, <2>6, <2>7, FlagFine, FlagState
  <1> QED  BY <1>6, <1>7

(* Opening a file shows the notepad; there has to be a window on the       *)
(* screen already, or the desktop would have been left without saying so.  *)
LEMMA OpenSelectedFine ==
    ASSUME NEW s, Fine(s), s.showdesk = FALSE, NEW i \in Windows, NEW what
    PROVE  Fine(OpenSelected(s, i, what))
  <1>1. s \in State
    BY DEF Fine
  <1>2. CASE what = "file"
    <2> DEFINE t == [s EXCEPT !.notefocus = TRUE, !.visible = @ \cup {NOTE}, !.active = NOTE,
                              !.z = Raised(@, NOTE), !.deskfocus = FALSE]
    <2>1. NOTE \in Windows
      BY WindowFacts
    <2>2. Raised(s.z, NOTE) \in Orders
      BY <1>1, <2>1, RaisedOrder DEF State
    <2>3. t \in State
      BY <1>1, <2>1, <2>2 DEF State
    <2>4. t.visible = s.visible \cup {NOTE} /\ t.active = NOTE /\ t.showdesk = FALSE
      BY <1>1 DEF State
    <2> HIDE DEF t
    <2>5. Focused(t)
      BY <2>4 DEF Focused
    <2>6. {NOTE, FULL} \in SUBSET Flags
      BY <2>1, FlagFacts
    <2>7. /\ Flag(t, {NOTE, FULL}) \in State /\ FULL \in Flag(t, {NOTE, FULL}).rf
          /\ Focused(Flag(t, {NOTE, FULL}))
      BY <2>3, <2>5, <2>6, FlagState DEF Focused
    <2>8. OpenSelected(s, i, what) = Flag(t, {NOTE, FULL})
      BY <1>2 DEF OpenSelected, t
    <2> QED  BY <2>7, <2>8 DEF Fine, Repainted
  <1>3. CASE what # "file"
    <2>1. {EXPL} \in SUBSET Flags
      BY WindowFacts, FlagFacts
    <2> QED  BY <1>3, <2>1, FlagFine DEF OpenSelected
  <1> QED  BY <1>2, <1>3

-----------------------------------------------------------------------------
(* The end of a handler: flags become a pending repaint.                   *)

Seen == \A i \in Windows : Look(i)' # Look(i) => pending' \cap {FULL, i} # {}

LEMMA HandledFine ==
    ASSUME Inv, NEW s, Fine(s), Handled(s)
    PROVE  Inv' /\ Seen
  <1>1. s \in State /\ Focused(s) /\ Repainted(s)
    BY DEF Fine
  <1>2. PICK d \in SUBSET Windows : g' = [s EXCEPT !.rf = {}, !.dirty = d]
    <2>1. {} \in SUBSET Windows /\ s.dirty \in SUBSET Windows
      BY <1>1 DEF State
    <2> QED  BY <2>1 DEF Handled
  <1>3. g' \in State
    BY <1>1, <1>2 DEF State
  <1>4. /\ g'.visible = s.visible /\ g'.active = s.active
        /\ g'.showdesk = s.showdesk /\ g'.mask = s.mask
    BY <1>1, <1>2 DEF State
  <1>5. Focused(g)'
    BY <1>1, <1>4 DEF Focused
  <1>6. RepaintOf(s) \subseteq Windows \cup {FULL}
    BY <1>1 DEF RepaintOf, State
  <1>7. pending' \subseteq Windows \cup {FULL} /\ (FULL \in pending' \/ RepaintOf(s) \subseteq pending')
    BY <1>6 DEF Handled, Inv
  <1>8. Seen
    <2> SUFFICES ASSUME NEW i \in Windows, Look(i)' # Look(i)
                 PROVE  pending' \cap {FULL, i} # {}
      BY DEF Seen
    <2>1. CASE FULL \in s.rf
      <3>1. RepaintOf(s) = {FULL}
        BY <2>1 DEF RepaintOf
      <3> QED  BY <1>7, <3>1
    <2>2. CASE FULL \notin s.rf
      <3>1. s.visible = g.visible
        BY <1>1, <2>2 DEF Repainted
      <3>2. i \in s.visible /\ i \in {g.active, s.active} /\ g.active # s.active
        BY <1>4, <3>1 DEF Look
      <3>3. DIRTY \in s.rf /\ i \in s.dirty
        BY <1>1, <2>2, <3>2 DEF Repainted
      <3>4. RepaintOf(s) = s.dirty
        BY <2>2, <3>3 DEF RepaintOf
      <3> QED  BY <1>7, <3>3, <3>4
    <2> QED  BY <2>1, <2>2
  <1> QED  BY <1>3, <1>5, <1>7, <1>8 DEF Inv

-----------------------------------------------------------------------------
(* One lemma per action: the state its branch hands over is fine.          *)

LEMMA StartFine ==
    ASSUME Inv
    PROVE  g \in State /\ Fine(g)
  BY DEF Inv, Fine, Repainted

LEMMA ButtonFine ==
    ASSUME Inv, NEW l \in BOOLEAN
    PROVE  Button(l) \in State /\ Fine(Button(l)) /\ Alike(Button(l), g)
  <1>1. g \in State /\ Fine(g)
    BY StartFine
  <1>2. Alike(Button(l), g)
    BY <1>1 DEF Button, Alike, State
  <1> QED  BY <1>1, <1>2, AlikeFine DEF Alike

LEMMA IconMovedStep ==
    ASSUME Inv, IconMoved
    PROVE  Inv' /\ Seen
  <1> DEFINE s == [Button(TRUE) EXCEPT !.icon = "moved"]
  <1>1. Button(TRUE) \in State /\ Fine(Button(TRUE))
    BY ButtonFine
  <1>2. "moved" \in IconState
    BY DEF IconState
  <1>3. Alike(s, Button(TRUE))
    BY <1>1, <1>2 DEF Alike, State
  <1>4. Fine(s) /\ Handled(Flag(s, {DIRTY}))
    BY <1>1, <1>3, AlikeFine DEF IconMoved
  <1> QED  BY <1>4, FlagFacts, FlagFine, HandledFine

LEMMA IconReleasedStep ==
    ASSUME Inv, NEW double \in BOOLEAN, IconReleased(double)
    PROVE  Inv' /\ Seen
  <1> DEFINE s == [Button(FALSE) EXCEPT !.icon = "none"]
             t == IF g.icon = "moved" THEN Flag(s, {DIRTY})
                  ELSE IF double THEN OpenApp(s, g.iconsel) ELSE s
  <1>1. Button(FALSE) \in State /\ Fine(Button(FALSE))
    BY ButtonFine
  <1>2. "none" \in IconState
    BY DEF IconState
  <1>3. Alike(s, Button(FALSE))
    BY <1>1, <1>2 DEF Alike, State
  <1>4. Fine(s) /\ s \in State /\ Handled(t)
    BY <1>1, <1>3, AlikeFine DEF Alike, IconReleased
  <1> HIDE DEF s
  <1>5. Fine(Flag(s, {DIRTY}))
    BY <1>4, FlagFacts, FlagFine
  <1>6. Fine(OpenApp(s, g.iconsel))
    <2>1. g.iconsel \in Windows
      BY DEF Inv, State
    <2> QED  BY <1>4, <2>1, OpenAppFine
  <1>7. Fine(t)
    BY <1>4, <1>5, <1>6
  <1> QED  BY <1>4, <1>7, HandledFine

LEMMA GrabSteps ==
    ASSUME Inv, ResizeMoves \/ ResizeEnds \/ DragMoves \/ DragEnds
    PROVE  Inv' /\ Seen
  <1>1. {g.active} \in SUBSET Windows
    BY StartFine DEF State
  <1>2. \A l \in BOOLEAN : Button(l) \in State /\ Fine(Button(l))
    BY ButtonFine
  <1>3. CASE ResizeMoves \/ DragMoves
    <2> DEFINE s == [Button(TRUE) EXCEPT !.deskfocus = FALSE]
    <2>1. Alike(s, Button(TRUE))
      BY <1>2 DEF Alike, State
    <2>2. Fine(s) /\ Handled(Dirty(s, {g.active}))
      BY <1>2, <1>3, <2>1, AlikeFine DEF ResizeMoves, DragMoves
    <2> QED  BY <1>1, <2>2, DirtyFine, HandledFine
  <1>4. CASE ResizeEnds
    <2> DEFINE s == [Button(FALSE) EXCEPT !.resize = @ \ {g.active}, !.deskfocus = FALSE]
    <2>1. Alike(s, Button(FALSE))
      BY <1>2 DEF Alike, State
    <2>2. Fine(s) /\ Handled(s)
      BY <1>2, <1>4, <2>1, AlikeFine DEF ResizeEnds
    <2> QED  BY <2>2, HandledFine
  <1>5. CASE DragEnds
    <2> DEFINE s == [Button(FALSE) EXCEPT !.drag = @ \ {g.active}, !.deskfocus = FALSE]
    <2>1. Alike(s, Button(FALSE))
      BY <1>2 DEF Alike, State
    <2>2. Fine(s) /\ Handled(Flag(Dirty(s, {g.active}), {TASKBAR}))
      BY <1>2, <1>5, <2>1, AlikeFine DEF DragEnds
    <2>3. Fine(Dirty(s, {g.active}))
      BY <1>1, <2>2, DirtyFine
    <2> QED  BY <2>2, <2>3, FlagFacts, FlagFine, HandledFine
  <1> QED  BY <1>3, <1>4, <1>5

LEMMA MoveSteps ==
    ASSUME Inv, NEW l \in BOOLEAN, NEW hover \in BOOLEAN,
           RightPress(l) \/ OtherMove(l, hover)
    PROVE  Inv' /\ Seen
  <1>1. Button(l) \in State /\ Fine(Button(l))
    BY ButtonFine
  <1>2. {FULL} \in SUBSET Flags /\ {} \in SUBSET Flags
    BY FlagFacts
  <1>3. CASE RightPress(l)
    <2> DEFINE s == [Button(l) EXCEPT !.menu = TRUE, !.deskfocus = TRUE]
    <2>1. Alike(s, Button(l))
      BY <1>1 DEF Alike, State
    <2>2. Fine(s) /\ Handled(Flag(s, {FULL}))
      BY <1>1, <1>3, <2>1, AlikeFine DEF RightPress
    <2> QED  BY <1>2, <2>2, FlagFine, HandledFine
  <1>4. CASE OtherMove(l, hover)
    <2> DEFINE f == IF hover THEN {FULL} ELSE {}
    <2>1. f \in SUBSET Flags
      BY <1>2
    <2>2. Handled(Flag(Button(l), f))
      BY <1>4 DEF OtherMove
    <2> HIDE DEF f
    <2> QED  BY <1>1, <2>1, <2>2, FlagFine, HandledFine
  <1> QED  BY <1>3, <1>4

LEMMA MenuPressStep ==
    ASSUME Inv, NEW item \in {"explorer", "desktop", "theme", "beside"}, MenuPress(item)
    PROVE  Inv' /\ Seen
  <1> DEFINE s == [Button(TRUE) EXCEPT !.menu = FALSE]
             desk == [s EXCEPT !.deskfocus = TRUE]
  <1>1. Button(TRUE) \in State /\ Fine(Button(TRUE))
    BY ButtonFine
  <1>2. Alike(s, Button(TRUE))
    BY <1>1 DEF Alike, State
  <1>3. Fine(s) /\ s \in State
    BY <1>1, <1>2, AlikeFine DEF Alike
  <1>4. \/ Handled(OpenApp(s, EXPL))
        \/ Handled(ShowDesktopToggle(s))
        \/ Handled(Flag(s, {FULL}))
        \/ Handled(Flag(desk, {FULL}))
    BY DEF MenuPress
  <1> HIDE DEF s
  <1>5. Alike(desk, s)
    BY <1>3 DEF Alike, State
  <1>6. Fine(desk)
    BY <1>3, <1>5, AlikeFine
  <1>7. Fine(OpenApp(s, EXPL)) /\ Fine(ShowDesktopToggle(s))
    BY <1>3, WindowFacts, OpenAppFine, ShowDesktopFine
  <1>8. Fine(Flag(s, {FULL})) /\ Fine(Flag(desk, {FULL}))
    BY <1>3, <1>6, FlagFacts, FlagFine
  <1> QED  BY <1>4, <1>7, <1>8, HandledFine

LEMMA DockPressStep ==
    ASSUME Inv, NEW button \in {"desktop", "theme", "start"}, DockPress(button)
    PROVE  Inv' /\ Seen
  <1> DEFINE s == Button(TRUE)
             left == [s EXCEPT !.deskfocus = FALSE]
             unfocused == Flag(left, {FULL})
             started == [unfocused EXCEPT !.start = ~@]
  <1>1. s \in State /\ Fine(s)
    BY ButtonFine
  <1>2. \/ Handled(ShowDesktopToggle(s))
        \/ Handled(unfocused)
        \/ Handled(started)
    BY DEF DockPress
  <1> HIDE DEF s
  <1>3. Alike(left, s)
    BY <1>1 DEF Alike, State
  <1>4. Fine(left)
    BY <1>1, <1>3, AlikeFine
  <1>5. Fine(unfocused) /\ unfocused \in State
    BY <1>4, FlagFacts, FlagFine DEF Fine
  <1> HIDE DEF unfocused
  <1>6. Alike(started, unfocused)
    <2>1. (~unfocused.start) \in BOOLEAN
      OBVIOUS
    <2> QED  BY <1>5, <2>1 DEF Alike, State
  <1>7. Fine(started) /\ Fine(ShowDesktopToggle(s))
    BY <1>1, <1>5, <1>6, AlikeFine, ShowDesktopFine
  <1> QED  BY <1>2, <1>5, <1>7, HandledFine

LEMMA IconPressStep ==
    ASSUME Inv, NEW i \in Windows, IconPress(i)
    PROVE  Inv' /\ Seen
  <1> DEFINE s == [Button(TRUE) EXCEPT !.deskfocus = TRUE, !.iconsel = i, !.icon = "pressed"]
  <1>1. Button(TRUE) \in State /\ Fine(Button(TRUE))
    BY ButtonFine
  <1>2. "pressed" \in IconState
    BY DEF IconState
  <1>3. Alike(s, Button(TRUE))
    BY <1>1, <1>2 DEF Alike, State
  <1>4. Fine(s)
    BY <1>1, <1>3, AlikeFine
  <1>5. Handled(s) \/ Handled(Flag(s, {FULL}))
    BY DEF IconPress
  <1>6. Fine(Flag(s, {FULL}))
    BY <1>4, FlagFacts, FlagFine
  <1> QED  BY <1>4, <1>5, <1>6, HandledFine

LEMMA AppPressStep ==
    ASSUME Inv, NEW i \in Windows, AppPress(i)
    PROVE  Inv' /\ Seen
  <1> DEFINE s == [Button(TRUE) EXCEPT !.deskfocus = FALSE, !.showdesk = FALSE, !.mask = {}]
             shown == [s EXCEPT !.visible = @ \cup {i}]
  <1>1. Button(TRUE) \in State
    BY ButtonFine
  <1>2. s \in State /\ s.showdesk = FALSE
    BY <1>1 DEF State
  <1>3. Handled(Hide(s, i)) \/ Handled(Focus(shown, i))
    BY DEF AppPress
  <1> HIDE DEF s
  <1>4. shown \in State /\ shown.showdesk = FALSE /\ i \in shown.visible
    BY <1>2 DEF State
  <1>5. Fine(Hide(s, i)) /\ Fine(Focus(shown, i))
    BY <1>2, <1>4, HideFine, FocusFine
  <1> QED  BY <1>3, <1>5, HandledFine

LEMMA StartItemStep ==
    ASSUME Inv, NEW i \in Windows, StartItem(i)
    PROVE  Inv' /\ Seen
  <1> DEFINE s == [Button(TRUE) EXCEPT !.start = FALSE]
  <1>1. Button(TRUE) \in State
    BY ButtonFine
  <1>2. s \in State
    BY <1>1 DEF State
  <1>3. Handled(OpenApp(s, i))
    BY DEF StartItem
  <1> QED  BY <1>2, <1>3, OpenAppFine, HandledFine

(* What a press finds when no menu took it, and the window it activates.   *)
LEMMA PastMenusFine ==
    ASSUME Inv
    PROVE  /\ PastMenus \in State /\ Fine(PastMenus)
           /\ PastMenus.visible = g.visible
  <1> DEFINE s == Button(TRUE)
             closed == [s EXCEPT !.start = FALSE]
  <1>1. s \in State /\ Fine(s) /\ s.visible = g.visible
    BY ButtonFine DEF Alike
  <1>2. PastMenus = s \/ PastMenus = Flag(closed, {FULL})
    BY DEF PastMenus
  <1> HIDE DEF s
  <1>3. Alike(closed, s)
    BY <1>1 DEF Alike, State
  <1>4. closed \in State /\ Fine(closed) /\ closed.visible = g.visible
    BY <1>1, <1>3, AlikeFine DEF Alike
  <1> HIDE DEF closed
  <1>5. Fine(Flag(closed, {FULL})) /\ Flag(closed, {FULL}).visible = g.visible
    BY <1>4, FlagFacts, FlagFine, FlagState
  <1> QED  BY <1>1, <1>2, <1>5 DEF Fine

LEMMA WindowFine ==
    ASSUME Inv, NEW i \in g.visible
    PROVE  /\ i \in Windows
           /\ Activated(PastMenus, i) \in State
           /\ Fine(Activated(PastMenus, i))
           /\ Activated(PastMenus, i).showdesk = FALSE
  <1>1. i \in Windows
    BY DEF Inv, State
  <1>2. Fine(PastMenus) /\ i \in PastMenus.visible
    BY PastMenusFine
  <1> QED  BY <1>1, <1>2, ActivatedFine DEF Fine

LEMMA NoTextFocusFine ==
    ASSUME NEW s, Fine(s), NEW noted \in BOOLEAN
    PROVE  Fine(NoTextFocus(s, noted))
  <1>1. s \in State
    BY DEF Fine
  <1>2. (s.notefocus /\ ~noted) \in BOOLEAN
    OBVIOUS
  <1>3. Alike(NoTextFocus(s, noted), s)
    BY <1>1, <1>2 DEF NoTextFocus, Alike, State
  <1> QED  BY <1>3, AlikeFine

LEMMA HidePressSteps ==
    ASSUME Inv, NEW i \in Windows, ClosePress(i) \/ MinPress(i)
    PROVE  Inv' /\ Seen
  <1> DEFINE s == Activated(PastMenus, i)
             closed == [s EXCEPT !.opened = @ \ {i},
                                 !.textfocus = @ /\ Type(i) # "DEMO",
                                 !.notefocus = @ /\ i # NOTE]
  <1>1. i \in g.visible
    BY DEF ClosePress, MinPress
  <1>2. s \in State /\ s.showdesk = FALSE
    BY <1>1, WindowFine
  <1>3. Handled(Hide(closed, i)) \/ Handled(Hide(s, i))
    BY DEF ClosePress, MinPress
  <1> HIDE DEF s
  <1>4. closed \in State /\ closed.showdesk = FALSE
    <2>1. (s.textfocus /\ Type(i) # "DEMO") \in BOOLEAN /\ (s.notefocus /\ i # NOTE) \in BOOLEAN
      OBVIOUS
    <2> QED  BY <1>2, <2>1 DEF State
  <1>5. Fine(Hide(closed, i)) /\ Fine(Hide(s, i))
    BY <1>2, <1>4, HideFine
  <1> QED  BY <1>3, <1>5, HandledFine

LEMMA FramePressSteps ==
    ASSUME Inv, NEW i \in Windows, MaxPress(i) \/ EdgePress(i) \/ TitlePress(i)
    PROVE  Inv' /\ Seen
  <1> DEFINE s == Activated(PastMenus, i)
             edge == [s EXCEPT !.resize = @ \cup {i}]
             title == [s EXCEPT !.drag = @ \cup {i}]
  <1>1. i \in g.visible
    BY DEF MaxPress, EdgePress, TitlePress
  <1>2. s \in State /\ Fine(s)
    BY <1>1, WindowFine
  <1>3. \/ Handled(Flag(Dirty(s, {i}), {TASKBAR}))
        \/ Handled(NoTextFocus(edge, TRUE))
        \/ Handled(NoTextFocus(title, i # NOTE))
    BY DEF MaxPress, EdgePress, TitlePress
  <1> HIDE DEF s
  <1>4. Alike(edge, s) /\ Alike(title, s)
    BY <1>2 DEF Alike, State
  <1>5. Fine(NoTextFocus(edge, TRUE)) /\ Fine(NoTextFocus(title, i # NOTE))
    <2>1. (i # NOTE) \in BOOLEAN
      OBVIOUS
    <2>2. Fine(edge) /\ Fine(title)
      BY <1>2, <1>4, AlikeFine
    <2> QED  BY <2>1, <2>2, NoTextFocusFine
  <1>6. Fine(Flag(Dirty(s, {i}), {TASKBAR}))
    <2>1. Fine(Dirty(s, {i}))
      BY <1>2, DirtyFine
    <2> QED  BY <2>1, FlagFacts, FlagFine
  <1> QED  BY <1>3, <1>5, <1>6, HandledFine

LEMMA ClientPressStep ==
    ASSUME Inv, NEW i \in Windows, NEW takes \in BOOLEAN, ClientPress(i, takes)
    PROVE  Inv' /\ Seen
  <1> DEFINE s == Activated(PastMenus, i)
             demo == [s EXCEPT !.textfocus = takes]
             noted == [s EXCEPT !.notefocus = TRUE, !.textfocus = FALSE]
  <1>1. i \in g.visible
    BY DEF ClientPress
  <1>2. s \in State /\ Fine(s)
    BY <1>1, WindowFine
  <1>3. \/ Handled(Flag(demo, {i})) \/ Handled(Flag(noted, {i})) \/ Handled(Flag(s, {i}))
        \/ Handled(NoTextFocus(s, TRUE)) \/ Handled(s)
    BY DEF ClientPress
  <1> HIDE DEF s
  <1>4. Alike(demo, s) /\ Alike(noted, s)
    BY <1>2 DEF Alike, State
  <1>5. Fine(demo) /\ Fine(noted)
    BY <1>2, <1>4, AlikeFine
  <1>6. {i} \in SUBSET Flags
    BY FlagFacts
  <1>7. Fine(Flag(demo, {i})) /\ Fine(Flag(noted, {i})) /\ Fine(Flag(s, {i}))
    BY <1>2, <1>5, <1>6, FlagFine
  <1>8. Fine(NoTextFocus(s, TRUE))
    BY <1>2, NoTextFocusFine
  <1> QED  BY <1>2, <1>3, <1>7, <1>8, HandledFine

LEMMA RowPressStep ==
    ASSUME Inv, NEW i \in Windows, NEW what, RowPress(i, what)
    PROVE  Inv' /\ Seen
  <1>1. i \in g.visible /\ Handled(OpenSelected(Activated(PastMenus, i), i, what))
    BY DEF RowPress
  <1>2. Fine(Activated(PastMenus, i)) /\ Activated(PastMenus, i).showdesk = FALSE
    BY <1>1, WindowFine
  <1> QED  BY <1>1, <1>2, OpenSelectedFine, HandledFine

LEMMA DesktopPressStep ==
    ASSUME Inv, DesktopPress
    PROVE  Inv' /\ Seen
  <1> DEFINE s == PastMenus
             t == [s EXCEPT !.deskfocus = TRUE]
  <1>1. s \in State /\ Fine(s)
    BY PastMenusFine
  <1>2. Handled(Flag(t, {FULL}))
    BY DEF DesktopPress
  <1> HIDE DEF s
  <1>3. Alike(t, s)
    BY <1>1 DEF Alike, State
  <1>4. Fine(t)
    BY <1>1, <1>3, AlikeFine
  <1> QED  BY <1>2, <1>4, FlagFacts, FlagFine, HandledFine

LEMMA TargetIsWindow ==
    ASSUME Inv
    PROVE  Target \in Windows
  <1>1. g.active \in Windows /\ g.visible \subseteq Windows /\ NOTE \in Windows /\ TERM \in Windows
    BY WindowFacts DEF Inv, State
  <1> DEFINE demos == {i \in g.visible : Type(i) = "DEMO" /\ g.textfocus}
  <1>2. demos # {} => (CHOOSE i \in demos : TRUE) \in demos
    OBVIOUS
  <1> QED  BY <1>1, <1>2 DEF Target

LEMMA EnterSteps ==
    ASSUME Inv, NEW what \in {"file", "dir"}, EnterOnDesktop \/ NoteOpens \/ EnterOnList(what)
    PROVE  Inv' /\ Seen
  <1>1. g \in State /\ Fine(g) /\ g.iconsel \in Windows /\ EXPL \in Windows /\ g.active \in Windows
    BY StartFine, WindowFacts DEF State
  <1>2. CASE EnterOnDesktop \/ NoteOpens
    <2>1. Handled(OpenApp(g, g.iconsel)) \/ Handled(OpenApp(g, EXPL))
      BY <1>2 DEF EnterOnDesktop, NoteOpens
    <2>2. Fine(OpenApp(g, g.iconsel)) /\ Fine(OpenApp(g, EXPL))
      BY <1>1, OpenAppFine
    <2> QED  BY <2>1, <2>2, HandledFine
  <1>3. CASE EnterOnList(what)
    <2>1. Handled(Flag(OpenSelected(g, g.active, what), {g.active})) /\ g.active \in g.visible
      BY <1>3 DEF EnterOnList, ListActive
    <2>2. g.showdesk = FALSE
      BY <2>1 DEF Inv, Focused, State
    <2>3. Fine(OpenSelected(g, g.active, what))
      BY <1>1, <2>2, OpenSelectedFine
    <2>4. {g.active} \in SUBSET Flags
      BY <1>1, FlagFacts
    <2> QED  BY <2>1, <2>3, <2>4, FlagFine, HandledFine
  <1> QED  BY <1>2, <1>3

LEMMA KeyAndTickSteps ==
    ASSUME Inv, CharOrKey \/ MoveInList \/ \E changed \in BOOLEAN : Tick(changed)
    PROVE  Inv' /\ Seen
  <1>1. Fine(g) /\ g.active \in Windows
    BY StartFine DEF State
  <1>2. Handled(g) \/ \E i \in Windows : Handled(Flag(g, {i}))
    BY <1>1, WindowFacts, TargetIsWindow DEF CharOrKey, MoveInList, Tick
  <1>3. ASSUME NEW i \in Windows  PROVE  Fine(Flag(g, {i}))
    BY <1>1, FlagFacts, FlagFine
  <1> QED  BY <1>1, <1>2, <1>3, HandledFine

LEMMA PaintStep ==
    ASSUME Inv, Paint \/ UNCHANGED vars
    PROVE  Inv' /\ Seen
  BY DEF Paint, vars, Inv, Focused, Seen, Look

-----------------------------------------------------------------------------
(* The specification.                                                      *)

LEMMA InitFine == Init => Inv
  <1> SUFFICES ASSUME Init  PROVE Inv
    OBVIOUS
  <1> DEFINE n == Len(WinType)
             first == [i \in 1 .. n |-> i - 1]
  <1>1. n \in Nat /\ Windows = 0 .. n - 1
    BY WindowFacts DEF Windows
  <1>2. first \in Orders
    <2>1. first \in [1 .. n -> Windows]
      BY <1>1
    <2>2. ASSUME NEW i \in Windows  PROVE \E k \in 1 .. n : first[k] = i
      <3>1. i + 1 \in 1 .. n /\ first[i + 1] = i
        BY <1>1
      <3> QED  BY <3>1
    <2> QED  BY <2>1, <2>2 DEF Orders
  <1>3. Raised(first, TERM) \in Orders
    BY <1>2, WindowFacts, RaisedOrder
  <1>4. "none" \in IconState /\ {FULL} \in SUBSET Flags
    BY FlagFacts DEF IconState
  <1>5. g \in State
    BY <1>3, <1>4, WindowFacts DEF Init, State
  <1>6. TERM \in g.visible /\ g.active = TERM /\ g.showdesk = FALSE
    BY WindowFacts, TypesAssumption DEF Init, IsList, TypesAssumption
  <1>7. Focused(g)
    BY <1>6 DEF Focused
  <1> QED  BY <1>5, <1>7 DEF Inv, Init

LEMMA NextFine == Inv /\ [Next]_vars => Inv' /\ Seen
  <1> SUFFICES ASSUME Inv, [Next]_vars  PROVE Inv' /\ Seen
    OBVIOUS
  <1>1. CASE MouseEvent
    <2>1. CASE IconMoved \/ ResizeMoves \/ ResizeEnds \/ DragMoves \/ DragEnds
      BY <2>1, IconMovedStep, GrabSteps
    <2>2. CASE \E l \in BOOLEAN : RightPress(l)
      BY <2>2, MoveSteps
    <2>3. CASE \E l, hover \in BOOLEAN : OtherMove(l, hover)
      BY <2>3, MoveSteps
    <2>4. CASE \E double \in BOOLEAN : IconReleased(double)
      BY <2>4, IconReleasedStep
    <2>5. CASE \E item \in {"explorer", "desktop", "theme", "beside"} : MenuPress(item)
      BY <2>5, MenuPressStep
    <2>6. CASE \E button \in {"desktop", "theme", "start"} : DockPress(button)
      BY <2>6, DockPressStep
    <2>7. CASE DesktopPress
      BY <2>7, DesktopPressStep
    <2>8. ASSUME NEW i \in Windows,
                 \/ IconPress(i) \/ AppPress(i) \/ StartItem(i)
                 \/ ClosePress(i) \/ MinPress(i) \/ MaxPress(i) \/ EdgePress(i) \/ TitlePress(i)
                 \/ \E takes \in BOOLEAN : ClientPress(i, takes)
                 \/ \E what \in {"file", "dir"} : RowPress(i, what)
          PROVE  Inv' /\ Seen
      <3>1. CASE IconPress(i) \/ AppPress(i) \/ StartItem(i)
        BY <3>1, IconPressStep, AppPressStep, StartItemStep
      <3>2. CASE ClosePress(i) \/ MinPress(i) \/ MaxPress(i) \/ EdgePress(i) \/ TitlePress(i)
        BY <3>2, HidePressSteps, FramePressSteps
      <3>3. CASE \E takes \in BOOLEAN : ClientPress(i, takes)
        BY <3>3, ClientPressStep
      <3>4. CASE \E what \in {"file", "dir"} : RowPress(i, what)
        BY <3>4, RowPressStep
      <3> QED  BY <2>8, <3>1, <3>2, <3>3, <3>4
    <2> QED  BY <1>1, <2>1, <2>2, <2>3, <2>4, <2>5, <2>6, <2>7, <2>8 DEF MouseEvent
  <1>2. CASE KeyEvent \/ \E changed \in BOOLEAN : Tick(changed)
    BY <1>2, EnterSteps, KeyAndTickSteps DEF KeyEvent
  <1>3. CASE Paint \/ UNCHANGED vars
    BY <1>3, PaintStep
  <1> QED  BY <1>1, <1>2, <1>3 DEF Next

LEMMA Invariance == Spec => []Inv
  BY InitFine, NextFine, PTL DEF Spec

(* Every field keeps its range, and the z-order, which bring_to_front      *)
(* shifts in place, holds every window exactly once: none can be lost      *)
(* under the others or drawn twice.                                        *)
THEOREM OrderHoldsEveryWindow == Spec => []TypeOK
  <1>1. Inv => TypeOK
    <2> SUFFICES ASSUME Inv  PROVE TypeOK
      OBVIOUS
    <2>1. /\ {g.visible, g.opened, g.drag, g.resize, g.mask, g.dirty} \subseteq SUBSET Windows
          /\ g.active \in Windows /\ g.iconsel \in Windows /\ g.z \in Orders
          /\ g.icon \in IconState /\ pending \subseteq Windows \cup {FULL}
      BY DEF Inv, State
    <2>2. Len(g.z) = Len(WinType) /\ DOMAIN g.z = 1 .. Len(WinType)
      BY <2>1, WindowFacts DEF Orders
    <2>3. ToSet(g.z) = Windows
      BY <2>1, <2>2 DEF ToSet, Orders
    <2> QED  BY <2>1, <2>2, <2>3 DEF TypeOK, IconState
  <1> QED  BY <1>1, Invariance, PTL

(* The keyboard belongs to a window on the screen whenever there is one,   *)
(* through closing, minimizing, show desktop and back, for every set of    *)
(* windows.                                                                *)
THEOREM KeyboardStaysVisible == Spec => []FocusIsVisible
  <1>1. Inv => FocusIsVisible
    BY DEF Inv, Focused, FocusIsVisible
  <1> QED  BY <1>1, Invariance, PTL

(* Whatever changes how a window looks is covered by the pending repaint,  *)
(* through flags, dirty rectangle and batch.                               *)
THEOREM NothingChangesUnpainted == Spec => ChangesAreRepainted
  <1>1. Inv /\ [Next]_vars =>
          [\A i \in Windows : Look(i)' # Look(i) => pending' \cap {FULL, i} # {}]_vars
    BY NextFine DEF Seen
  <1> QED  BY <1>1, Invariance, PTL DEF Spec, ChangesAreRepainted

-----------------------------------------------------------------------------
(* Recursion along a sequence.                                             *)

LEMMA Climbing ==
    ASSUME NEW n \in Nat, NEW T, 0 \in T, \A i \in 0 .. n - 1 : i \in T => i + 1 \in T
    PROVE  \A i \in 0 .. n : i \in T
<1>. DEFINE B == {i \in Nat : i <= n /\ i \notin T}
<1>. SUFFICES ASSUME B # {} PROVE FALSE
  OBVIOUS
<1>1. PICK k \in B : \A m \in B : ~(<<m, k>> \in OpToRel(<, Nat))
  <2>1. B \subseteq Nat
    OBVIOUS
  <2>. QED
    BY <2>1, NatLessThanWellFounded, WFMin
<1>2. k \in Nat /\ k <= n /\ k \notin T /\ k # 0
  BY <1>1
<1>3. k - 1 \in Nat /\ k - 1 \in 0 .. n - 1 /\ k - 1 + 1 = k
  BY <1>2
<1>4. <<k - 1, k>> \in OpToRel(<, Nat)
  BY <1>2, <1>3 DEF OpToRel
<1>5. k - 1 \in T
  <2>. SUFFICES ASSUME k - 1 \notin T PROVE FALSE
    OBVIOUS
  <2>1. k - 1 \in B
    BY <1>2, <1>3
  <2>. QED
    BY <1>1, <1>4, <2>1
<1>6. k - 1 + 1 \in T
  BY <1>3, <1>5
<1>. QED
  BY <1>2, <1>3, <1>6

(* The elements picked before each place.                                  *)
IsPick(h, n, s, S) ==
    h = [i \in 0 .. n |-> IF i = 0 THEN <<>>
                          ELSE IF i \in S THEN Append(h[i - 1], s[i])
                          ELSE h[i - 1]]

LEMMA PickStep ==
    ASSUME NEW h, NEW n \in Nat, NEW s, NEW S, IsPick(h, n, s, S)
    PROVE  /\ h[0] = <<>>
           /\ \A i \in 0 .. n - 1 : h[i + 1] = IF i + 1 \in S THEN Append(h[i], s[i + 1]) ELSE h[i]
<1>1. ASSUME NEW j \in 0 .. n
      PROVE  h[j] = IF j = 0 THEN <<>> ELSE IF j \in S THEN Append(h[j - 1], s[j]) ELSE h[j - 1]
  BY DEF IsPick
<1>2. 0 \in 0 .. n /\ \A i \in 0 .. n - 1 : i + 1 \in 0 .. n /\ i + 1 # 0 /\ i + 1 - 1 = i
  OBVIOUS
<1>3. h[0] = <<>>
  BY <1>1, <1>2
<1>4. ASSUME NEW i \in 0 .. n - 1
      PROVE  h[i + 1] = IF i + 1 \in S THEN Append(h[i], s[i + 1]) ELSE h[i]
  <2>1. h[i + 1] = IF i + 1 = 0 THEN <<>>
                   ELSE IF i + 1 \in S THEN Append(h[i + 1 - 1], s[i + 1]) ELSE h[i + 1 - 1]
    BY <1>1, <1>2
  <2>. QED
    BY <1>2, <2>1
<1>. QED
  BY <1>3, <1>4

LEMMA ThereIsPick ==
    ASSUME NEW s, NEW S, NEW n \in Nat
    PROVE  \E h : IsPick(h, n, s, S)
<1>. DEFINE T == {m \in Nat : \E h : IsPick(h, m, s, S)}
<1>1. 0 \in T
  <2>1. IsPick([i \in 0 .. 0 |-> <<>>], 0, s, S)
    BY DEF IsPick
  <2>. QED
    BY <2>1
<1>2. ASSUME NEW m \in 0 .. n - 1, m \in T
      PROVE  m + 1 \in T
  <2>1. PICK h : IsPick(h, m, s, S)
    BY <1>2
  <2>. DEFINE k == m + 1
              w == [j \in 0 .. k |-> IF j = k THEN IF k \in S THEN Append(h[m], s[k]) ELSE h[m]
                                     ELSE h[j]]
  <2>2. ASSUME NEW j \in 0 .. k
        PROVE  w[j] = IF j = 0 THEN <<>> ELSE IF j \in S THEN Append(w[j - 1], s[j]) ELSE w[j - 1]
    <3>1. CASE j = k
      <4>1. w[j - 1] = h[m] /\ j # 0
        BY <3>1
      <4>. QED
        BY <3>1, <4>1
    <3>2. CASE j # k
      <4>1. j \in 0 .. m
        BY <3>2
      <4>2. h[j] = IF j = 0 THEN <<>> ELSE IF j \in S THEN Append(h[j - 1], s[j]) ELSE h[j - 1]
        BY <2>1, <4>1 DEF IsPick
      <4>3. w[j] = h[j] /\ (j # 0 => w[j - 1] = h[j - 1])
        BY <3>2, <4>1
      <4>. QED
        BY <4>2, <4>3
    <3>. QED
      BY <3>1, <3>2
  <2>3. IsPick(w, k, s, S)
    BY <2>2 DEF IsPick
  <2>. QED
    BY <2>3
<1>. HIDE DEF T
<1>3. n \in T
  BY <1>1, <1>2, Climbing
<1>. QED
  BY <1>3 DEF T

LEMMA PickedIs ==
    ASSUME NEW s, NEW S, Len(s) \in Nat
    PROVE  \E h : IsPick(h, Len(s), s, S) /\ Picked(s, S) = h[Len(s)]
<1>. DEFINE h == CHOOSE h : IsPick(h, Len(s), s, S)
<1>1. IsPick(h, Len(s), s, S)
  BY ThereIsPick
<1>2. Picked(s, S) = h[Len(s)]
  BY DEF Picked, IsPick
<1>. QED
  BY <1>1, <1>2

LEMMA PickedType ==
    ASSUME NEW X, NEW s, NEW S, Len(s) \in Nat, \A i \in 1 .. Len(s) : i \in S => s[i] \in X
    PROVE  Picked(s, S) \in Seq(X) /\ Len(Picked(s, S)) <= Len(s)
<1>1. Len(s) \in Nat /\ \A i \in 1 .. Len(s) : i \in S => s[i] \in X
  OBVIOUS
<1>2. PICK h : IsPick(h, Len(s), s, S) /\ Picked(s, S) = h[Len(s)]
  BY <1>1, PickedIs
<1>. DEFINE T == {i \in Nat : i <= Len(s) => h[i] \in Seq(X) /\ Len(h[i]) <= i}
<1>3. 0 \in T
  <2>1. h[0] = <<>>
    BY <1>1, <1>2, PickStep
  <2>2. h[0] \in Seq(X) /\ Len(h[0]) = 0
    BY <2>1
  <2>. QED
    BY <2>2
<1>4. ASSUME NEW i \in 0 .. Len(s) - 1, i \in T
      PROVE  i + 1 \in T
  <2>1. /\ i + 1 \in 0 .. Len(s) /\ i + 1 # 0 /\ i + 1 - 1 = i /\ i + 1 \in 1 .. Len(s)
        /\ i \in Nat /\ i <= Len(s)
    BY <1>1
  <2>2. h[i + 1] = IF i + 1 \in S THEN Append(h[i], s[i + 1]) ELSE h[i]
    BY <1>1, <1>2, PickStep
  <2>3. h[i] \in Seq(X) /\ Len(h[i]) <= i /\ (i + 1 \in S => s[i + 1] \in X)
    BY <1>1, <1>4, <2>1
  <2>4. i + 1 \in S => /\ Append(h[i], s[i + 1]) \in Seq(X)
                       /\ Len(Append(h[i], s[i + 1])) = Len(h[i]) + 1
    BY <2>3, AppendProperties
  <2>5. Len(h[i]) \in Nat
    BY <2>3
  <2>6. h[i + 1] \in Seq(X) /\ Len(h[i + 1]) <= i + 1
    BY <2>1, <2>2, <2>3, <2>4, <2>5
  <2>. QED
    BY <2>1, <2>6
<1>. HIDE DEF T
<1>5. \A i \in 0 .. Len(s) : i \in T
  BY <1>1, <1>3, <1>4, Climbing
<1>. QED
  BY <1>1, <1>2, <1>5 DEF T

(* Who picks all gets all.                                                 *)
LEMMA PickedAll ==
    ASSUME NEW X, NEW s \in Seq(X), NEW S, \A i \in 1 .. Len(s) : i \in S
    PROVE  Picked(s, S) = s
<1>1. Len(s) \in Nat /\ \A i \in 1 .. Len(s) : s[i] \in X
  OBVIOUS
<1>2. PICK h : IsPick(h, Len(s), s, S) /\ Picked(s, S) = h[Len(s)]
  BY <1>1, PickedIs
<1>. DEFINE T == {i \in Nat : i <= Len(s) => /\ h[i] \in Seq(X) /\ Len(h[i]) = i
                                            /\ \A j \in 1 .. i : h[i][j] = s[j]}
<1>3. 0 \in T
  <2>1. h[0] = <<>>
    BY <1>1, <1>2, PickStep
  <2>2. h[0] \in Seq(X) /\ Len(h[0]) = 0
    BY <2>1
  <2>. QED
    BY <2>2
<1>4. ASSUME NEW i \in 0 .. Len(s) - 1, i \in T
      PROVE  i + 1 \in T
  <2>1. /\ i + 1 \in 0 .. Len(s) /\ i + 1 # 0 /\ i + 1 - 1 = i /\ i + 1 \in 1 .. Len(s)
        /\ i \in Nat /\ i <= Len(s)
    BY <1>1
  <2>2. h[i + 1] = Append(h[i], s[i + 1])
    <3>1. i + 1 \in S
      BY <2>1
    <3>. QED
      BY <1>1, <1>2, <3>1, PickStep
  <2>3. /\ h[i] \in Seq(X) /\ Len(h[i]) = i /\ s[i + 1] \in X
        /\ \A j \in 1 .. i : h[i][j] = s[j]
    BY <1>1, <1>4, <2>1
  <2>4. /\ Append(h[i], s[i + 1]) \in Seq(X) /\ Len(Append(h[i], s[i + 1])) = i + 1
        /\ \A j \in 1 .. i : Append(h[i], s[i + 1])[j] = h[i][j]
        /\ Append(h[i], s[i + 1])[i + 1] = s[i + 1]
    BY <2>3, AppendProperties
  <2>5. /\ h[i + 1] \in Seq(X) /\ Len(h[i + 1]) = i + 1
        /\ \A j \in 1 .. i + 1 : h[i + 1][j] = s[j]
    BY <2>1, <2>2, <2>3, <2>4
  <2>. QED
    BY <2>1, <2>5
<1>. HIDE DEF T
<1>5. \A i \in 0 .. Len(s) : i \in T
  BY <1>1, <1>3, <1>4, Climbing
<1>6. h[Len(s)] \in Seq(X) /\ Len(h[Len(s)]) = Len(s) /\ \A j \in 1 .. Len(s) : h[Len(s)][j] = s[j]
  BY <1>1, <1>5 DEF T
<1>. QED
  BY <1>2, <1>6, SeqEqual

(* The directories a path leads through.                                   *)
IsWay(h, n, p) ==
    h = [i \in 0 .. n |-> IF i = 0 THEN Root ELSE Child(h[i - 1], p[i])]

LEMMA ThereIsWay ==
    ASSUME NEW p, NEW n \in Nat
    PROVE  \E h : IsWay(h, n, p)
<1>. DEFINE T == {m \in Nat : \E h : IsWay(h, m, p)}
<1>1. 0 \in T
  <2>1. IsWay([i \in 0 .. 0 |-> Root], 0, p)
    BY DEF IsWay
  <2>. QED
    BY <2>1
<1>2. ASSUME NEW m \in 0 .. n - 1, m \in T
      PROVE  m + 1 \in T
  <2>1. PICK h : IsWay(h, m, p)
    BY <1>2
  <2>. DEFINE k == m + 1
              w == [j \in 0 .. k |-> IF j = k THEN Child(h[m], p[k]) ELSE h[j]]
  <2>2. ASSUME NEW j \in 0 .. k
        PROVE  w[j] = IF j = 0 THEN Root ELSE Child(w[j - 1], p[j])
    <3>1. CASE j = k
      <4>1. w[j - 1] = h[m] /\ j # 0
        BY <3>1
      <4>. QED
        BY <3>1, <4>1
    <3>2. CASE j # k
      <4>1. j \in 0 .. m
        BY <3>2
      <4>2. h[j] = IF j = 0 THEN Root ELSE Child(h[j - 1], p[j])
        BY <2>1, <4>1 DEF IsWay
      <4>3. w[j] = h[j] /\ (j # 0 => w[j - 1] = h[j - 1])
        BY <3>2, <4>1
      <4>. QED
        BY <4>2, <4>3
    <3>. QED
      BY <3>1, <3>2
  <2>3. IsWay(w, k, p)
    BY <2>2 DEF IsWay
  <2>. QED
    BY <2>3
<1>. HIDE DEF T
<1>3. n \in T
  BY <1>1, <1>2, Climbing
<1>. QED
  BY <1>3 DEF T

LEMMA ResolveIs ==
    ASSUME NEW p, Len(p) \in Nat
    PROVE  \E h : IsWay(h, Len(p), p) /\ Resolve(p) = h[Len(p)]
<1>. DEFINE h == CHOOSE h : IsWay(h, Len(p), p)
<1>1. IsWay(h, Len(p), p)
  BY ThereIsWay
<1>2. Resolve(p) = h[Len(p)]
  BY DEF Resolve, IsWay
<1>. QED
  BY <1>1, <1>2
LEMMA WayStep ==
    ASSUME NEW h, NEW n \in Nat, NEW p, IsWay(h, n, p)
    PROVE  h[0] = Root /\ \A i \in 0 .. n - 1 : h[i + 1] = Child(h[i], p[i + 1])
<1>1. ASSUME NEW j \in 0 .. n
      PROVE  h[j] = IF j = 0 THEN Root ELSE Child(h[j - 1], p[j])
  BY DEF IsWay
<1>2. 0 \in 0 .. n /\ \A i \in 0 .. n - 1 : i + 1 \in 0 .. n /\ i + 1 # 0 /\ i + 1 - 1 = i
  OBVIOUS
<1>3. h[0] = Root
  BY <1>1, <1>2
<1>4. ASSUME NEW i \in 0 .. n - 1
      PROVE  h[i + 1] = Child(h[i], p[i + 1])
  <2>1. h[i + 1] = IF i + 1 = 0 THEN Root ELSE Child(h[i + 1 - 1], p[i + 1])
    BY <1>1, <1>2
  <2>. QED
    BY <1>2, <2>1
<1>. QED
  BY <1>3, <1>4

(* A path and one name more.                                               *)
LEMMA ResolveAppend ==
    ASSUME NEW X, NEW p \in Seq(X), NEW a \in X
    PROVE  Resolve(Append(p, a)) = Child(Resolve(p), a)
<1>. DEFINE n == Len(p)
            q == Append(p, a)
<1>1. n \in Nat /\ Len(q) = n + 1 /\ q[n + 1] = a /\ \A i \in 1 .. n : q[i] = p[i]
  BY AppendProperties
<1>. HIDE DEF n, q
<1>2. PICK h : IsWay(h, n, p) /\ Resolve(p) = h[n]
  BY <1>1, ResolveIs DEF n
<1>3. PICK w : IsWay(w, n + 1, q) /\ Resolve(q) = w[n + 1]
  <2>1. Len(q) \in Nat
    BY <1>1
  <2>. QED
    BY <1>1, <2>1, ResolveIs
<1>4. h[0] = Root /\ \A i \in 0 .. n - 1 : h[i + 1] = Child(h[i], p[i + 1])
  BY <1>1, <1>2, WayStep
<1>5. w[0] = Root /\ \A i \in 0 .. n : w[i + 1] = Child(w[i], q[i + 1])
  <2>1. n + 1 \in Nat /\ n + 1 - 1 = n
    BY <1>1
  <2>2. PICK m \in Nat : m = n + 1
    BY <2>1
  <2>3. IsWay(w, m, q)
    BY <1>3, <2>2
  <2>4. w[0] = Root /\ \A i \in 0 .. m - 1 : w[i + 1] = Child(w[i], q[i + 1])
    BY <2>3, WayStep
  <2>5. \A i \in 0 .. n : i \in 0 .. m - 1
    BY <1>1, <2>2
  <2>. QED
    BY <2>4, <2>5
<1>. DEFINE T == {i \in 0 .. n : w[i] = h[i]}
<1>6. 0 \in T
  BY <1>1, <1>4, <1>5
<1>7. ASSUME NEW i \in 0 .. n - 1, i \in T
      PROVE  i + 1 \in T
  <2>1. i \in 0 .. n /\ i + 1 \in 0 .. n /\ i + 1 \in 1 .. n
    BY <1>1
  <2>2. w[i + 1] = Child(w[i], q[i + 1]) /\ q[i + 1] = p[i + 1]
    BY <1>1, <1>5, <2>1
  <2>3. h[i + 1] = Child(h[i], p[i + 1]) /\ w[i] = h[i]
    BY <1>4, <1>7
  <2>. QED
    BY <2>1, <2>2, <2>3
<1>8. w[n] = h[n]
  <2>. HIDE DEF T
  <2>1. \A i \in 0 .. n : i \in T
    BY <1>1, <1>6, <1>7, Climbing
  <2>. QED
    BY <1>1, <2>1 DEF T
<1>9. w[n + 1] = Child(w[n], a)
  BY <1>1, <1>5
<1>. QED
  BY <1>2, <1>3, <1>8, <1>9 DEF q

(* The way of a path, step by step.                                        *)
LeadsTo(h, p, c) ==
    /\ h[0] = Root /\ h[Len(p)] = c
    /\ \A i \in 0 .. Len(p) - 1 : h[i + 1] = Child(h[i], p[i + 1])

PathsLead == \A p : Len(p) \in Nat => \E h : LeadsTo(h, p, Resolve(p))

LEMMA EveryPathLeads == PathsLead
BY ResolveIs, WayStep DEF LeadsTo, PathsLead

(* Where directories disappear and appear, a path leads where it led, or   *)
(* nowhere.                                                                *)
LEMMA ResolveMoves ==
    ASSUME NEW p, Len(p) \in Nat, Resolve(p) # 0, \A a : Child(0, a) = 0, \A a : Child(0, a)' = 0,
           \A d, a : Child(d, a) # 0 => Child(d, a)' \in {Child(d, a), 0}
    PROVE  Resolve(p)' \in {Resolve(p), 0}
<1>. DEFINE n == Len(p)
<1>1. PICK h : LeadsTo(h, p, Resolve(p))
  BY EveryPathLeads DEF PathsLead
<1>2. PathsLead'
  BY EveryPathLeads, PTL
<1>3. PICK w : LeadsTo(w, p, Resolve(p))'
  BY <1>2 DEF PathsLead
<1>4. /\ h[0] = Root /\ h[n] = Resolve(p)
      /\ \A i \in 0 .. n - 1 : h[i + 1] = Child(h[i], p[i + 1])
  BY <1>1 DEF LeadsTo
<1>5. /\ w[0] = Root /\ w[n] = Resolve(p)'
      /\ \A i \in 0 .. n - 1 : w[i + 1] = Child(w[i], p[i + 1])'
  BY <1>3 DEF LeadsTo
<1>. DEFINE T == {i \in 0 .. n : h[i] # 0 => w[i] \in {h[i], 0}}
<1>6. 0 \in T
  BY <1>4, <1>5
<1>7. ASSUME NEW i \in 0 .. n - 1, i \in T
      PROVE  i + 1 \in T
  <2>. SUFFICES ASSUME h[i + 1] # 0 PROVE w[i + 1] \in {h[i + 1], 0}
    OBVIOUS
  <2>1. h[i + 1] = Child(h[i], p[i + 1]) /\ w[i + 1] = Child(w[i], p[i + 1])'
    BY <1>4, <1>5
  <2>2. h[i] # 0
    BY <2>1
  <2>3. CASE w[i] = 0
    BY <2>1, <2>3
  <2>4. CASE w[i] = h[i]
    BY <2>1, <2>4
  <2>. QED
    BY <1>7, <2>2, <2>3, <2>4
<1>8. n \in T
  <2>. HIDE DEF T
  <2>1. \A i \in 0 .. n : i \in T
    BY <1>6, <1>7, Climbing
  <2>. QED
    BY <2>1
<1>. QED
  BY <1>4, <1>5, <1>8

(* What stays as it is while no operation changes the volume.              *)
LEMMA VolumeStays ==
    ASSUME vol' = vol
    PROVE  /\ \A p : Resolve(p)' = Resolve(p)
           /\ Resolve(ex.path)' = Resolve(ex'.path) /\ Listing(ex.dir)' = Listing(ex'.dir)
BY DEF Resolve, Child, Named, Used, Entries, Listing
-----------------------------------------------------------------------------
(* The volume: what an entry and a listing can be.                         *)

RowType == [name : AnyName, dir : BOOLEAN]

VolumeType ==
    /\ vol \in [DOMAIN vol -> [Slot -> {NONE} \cup Entry]]
    /\ DOMAIN vol \subseteq Clusters /\ Root \in DOMAIN vol

ScreenRecord ==
    [visible : BOOLEAN, path : Seq(AnyName), dir : Clusters, rows : Seq(RowType),
     sel : Nat, seen : BOOLEAN]

ScreenType ==
    /\ ex \in ScreenRecord
    /\ ex.sel \in 1 .. Len(ex.rows) /\ Len(ex.rows) <= MaxRows

NoteType ==
    /\ note \in [path : Seq(AnyName), text : Text, caret : Nat]
    /\ Len(note.path) > 0 /\ Len(note.text) <= NoteMax
    /\ note.caret \in 0 .. Len(note.text)

LEMMA Sizes ==
    /\ MaxCluster \in Nat /\ MaxCluster >= Root /\ Root = 2
    /\ Slots \in Nat /\ Slots # 0 /\ MaxRows \in Nat /\ MaxRows # 0
    /\ NoteMax \in Nat /\ NoteMax # 0 /\ PathMax \in Nat
    /\ Root \in Clusters /\ 0 \notin Clusters /\ Clusters \subseteq Nat
    /\ DefaultName \in AnyName
    /\ \A c \in Clusters : c \in Nat /\ c # 0
BY SizesAssumption DEF Root, Clusters, AnyName

LEMMA EntryAt ==
    ASSUME VolumeType, NEW c, NEW s \in Used(c)
    PROVE  /\ c \in DOMAIN vol /\ s \in Slot /\ vol[c][s] # NONE /\ vol[c][s] \in Entry
           /\ vol[c][s].name \in AnyName /\ vol[c][s].text \in Text
           /\ vol[c][s].cl \in {0} \cup Clusters
<1>1. c \in DOMAIN vol /\ s \in Slot /\ vol[c][s] # NONE
  BY DEF Used
<1>2. vol[c] \in [Slot -> {NONE} \cup Entry]
  BY <1>1 DEF VolumeType
<1>3. vol[c][s] \in Entry
  BY <1>1, <1>2
<1>. QED
  BY <1>1, <1>3 DEF Entry

LEMMA NamedAt ==
    ASSUME NEW c, NEW n, NEW e
    PROVE  e \in Named(c, n) <=> \E s \in Used(c) : e = vol[c][s] /\ e.name = n
BY DEF Named

LEMMA ChildType ==
    ASSUME VolumeType, NEW c, NEW n
    PROVE  /\ Child(c, n) \in {0} \cup Clusters
           /\ Child(c, n) # 0 => \E s \in Used(c) : vol[c][s].name = n /\ vol[c][s].cl = Child(c, n)
<1>. DEFINE found == {e \in Named(c, n) : IsDir(e)}
<1>1. CASE found = {}
  BY <1>1 DEF Child
<1>2. CASE found # {}
  <2>1. PICK e \in found : Child(c, n) = e.cl
    BY <1>2 DEF Child
  <2>2. PICK s \in Used(c) : e = vol[c][s] /\ e.name = n
    BY <2>1 DEF Named
  <2>. QED
    BY <2>1, <2>2, EntryAt
<1>. QED
  BY <1>1, <1>2

LEMMA NoChild ==
    ASSUME NEW c, c \notin DOMAIN vol, NEW n
    PROVE  Child(c, n) = 0 /\ Named(c, n) = {}
BY DEF Child, Named, Used

LEMMA EntriesType ==
    ASSUME VolumeType, NEW c
    PROVE  Entries(c) \in Seq(Entry)
<1>1. CASE c \notin DOMAIN vol
  BY <1>1 DEF Entries
<1>2. CASE c \in DOMAIN vol
  <2>1. vol[c] \in [1 .. Slots -> {NONE} \cup Entry]
    BY <1>2 DEF VolumeType, Slot
  <2>2. Len(vol[c]) = Slots
    BY <2>1, Sizes
  <2>3. Len(vol[c]) \in Nat /\ \A i \in 1 .. Len(vol[c]) : i \in Used(c) => vol[c][i] \in Entry
    BY <2>2, Sizes, EntryAt
  <2>4. Picked(vol[c], Used(c)) \in Seq(Entry)
    BY <2>3, PickedType
  <2>. QED
    BY <1>2, <2>4 DEF Entries
<1>. QED
  BY <1>1, <1>2

LEMMA ListingType ==
    ASSUME VolumeType, NEW c
    PROVE  /\ Listing(c) \in Seq(RowType) /\ Len(Listing(c)) \in Nat
           /\ Len(Listing(c)) > 0 /\ Len(Listing(c)) <= MaxRows
<1>. DEFINE es == Entries(c)
            dirs == {i \in DOMAIN es : IsDir(es[i])}
            sorted == Picked(es, dirs) \o Picked(es, DOMAIN es \ dirs)
            up == IF c = Root THEN <<>> ELSE <<[name |-> UP, dir |-> TRUE]>>
            rows == [i \in DOMAIN sorted |-> Row(sorted[i])]
            all == up \o rows
<1>1. es \in Seq(Entry)
  BY EntriesType
<1>. HIDE DEF es
<1>2. Len(es) \in Nat /\ \A i \in 1 .. Len(es) : es[i] \in Entry
  BY <1>1
<1>3. Picked(es, dirs) \in Seq(Entry) /\ Picked(es, DOMAIN es \ dirs) \in Seq(Entry)
  <2>. HIDE DEF dirs
  <2>. QED
    BY <1>2, PickedType
<1>4. sorted \in Seq(Entry)
  BY <1>3, ConcatProperties
<1>5. rows \in Seq(RowType)
  <2>. HIDE DEF sorted
  <2>1. Len(sorted) \in Nat /\ DOMAIN sorted = 1 .. Len(sorted) /\ \A i \in 1 .. Len(sorted) : sorted[i] \in Entry
    BY <1>4
  <2>2. ASSUME NEW e \in Entry
        PROVE  Row(e) \in RowType
    BY DEF Row, RowType, Entry, IsDir
  <2>3. rows \in [1 .. Len(sorted) -> RowType]
    BY <2>1, <2>2
  <2>. QED
    BY <2>1, <2>3
<1>6. up \in Seq(RowType)
  <2>1. [name |-> UP, dir |-> TRUE] \in RowType
    BY DEF RowType, AnyName
  <2>2. <<[name |-> UP, dir |-> TRUE]>> \in Seq(RowType) /\ <<>> \in Seq(RowType)
    BY <2>1
  <2>. QED
    BY <2>2
<1>7. all \in Seq(RowType)
  <2>. HIDE DEF up, rows
  <2>. QED
    BY <1>5, <1>6, ConcatProperties
<1>8. Listing(c) = IF all = <<>> THEN Only(EMPTY)
                   ELSE SubSeq(all, 1, IF Len(all) < MaxRows THEN Len(all) ELSE MaxRows)
  BY DEF Listing, es
<1>. HIDE DEF all
<1>9. CASE all = <<>>
  <2>1. Only(EMPTY) \in Seq(RowType) /\ Len(Only(EMPTY)) = 1
    BY DEF Only, RowType, AnyName
  <2>2. Listing(c) = Only(EMPTY)
    BY <1>8, <1>9
  <2>3. 1 <= MaxRows
    BY Sizes
  <2>. HIDE DEF up, rows
  <2>. QED
    BY <2>1, <2>2, <2>3
<1>10. CASE all # <<>>
  <2>1. Len(all) \in Nat /\ Len(all) # 0
    BY <1>7, <1>10, EmptySeq
  <2>2. PICK k \in 1 .. Len(all) : k <= MaxRows /\ Listing(c) = SubSeq(all, 1, k)
    BY <1>8, <1>10, <2>1, Sizes
  <2>3. SubSeq(all, 1, k) \in Seq(RowType) /\ Len(SubSeq(all, 1, k)) = k
    BY <1>7, <2>1, SubSeqProperties
  <2>. QED
    BY <2>2, <2>3
<1>. QED
  BY <1>9, <1>10
LEMMA FrontType ==
    ASSUME NEW X, NEW s \in Seq(X), s # <<>>
    PROVE  /\ Front(s) \in Seq(X) /\ Len(Front(s)) = Len(s) - 1
           /\ Last(s) \in X /\ s = Append(Front(s), Last(s))
<1>1. Len(s) \in Nat \ {0} /\ \A i \in 1 .. Len(s) : s[i] \in X
  BY EmptySeq
<1>2. Last(s) = s[Len(s)] /\ Last(s) \in X
  BY <1>1 DEF Last
<1>3. Front(s) = SubSeq(s, 1, Len(s) - 1)
  BY DEF Front
<1>4. /\ Front(s) \in Seq(X) /\ Len(Front(s)) = Len(s) - 1
      /\ \A i \in 1 .. Len(s) - 1 : Front(s)[i] = s[i]
  <2>1. PICK m \in Nat : m = Len(s) - 1 /\ m \in Int /\ 1 \in Int /\ \A i \in 1 .. m : s[i] \in X
    BY <1>1
  <2>2. (IF 1 <= m THEN m - 1 + 1 ELSE 0) = m /\ m - 1 + 1 = m /\ \A i \in 1 .. m : 1 + i - 1 = i
    OBVIOUS
  <2>3. /\ SubSeq(s, 1, m) \in Seq(X)
        /\ Len(SubSeq(s, 1, m)) = IF 1 <= m THEN m - 1 + 1 ELSE 0
        /\ \A i \in 1 .. m - 1 + 1 : SubSeq(s, 1, m)[i] = s[1 + i - 1]
    BY <2>1, SubSeqProperties
  <2>. QED
    BY <1>3, <2>1, <2>2, <2>3
<1>5. /\ Append(Front(s), Last(s)) \in Seq(X) /\ Len(Append(Front(s), Last(s))) = Len(s)
      /\ \A i \in 1 .. Len(s) : Append(Front(s), Last(s))[i] = s[i]
  <2>1. /\ Append(Front(s), Last(s)) \in Seq(X) /\ Len(Append(Front(s), Last(s))) = Len(Front(s)) + 1
        /\ \A i \in 1 .. Len(Front(s)) : Append(Front(s), Last(s))[i] = Front(s)[i]
        /\ Append(Front(s), Last(s))[Len(Front(s)) + 1] = Last(s)
    BY <1>2, <1>4, AppendProperties
  <2>2. \A i \in 1 .. Len(s) : i \in 1 .. Len(s) - 1 \/ i = Len(s)
    BY <1>1
  <2>3. Len(Front(s)) + 1 = Len(s)
    BY <1>1, <1>4
  <2>. QED
    BY <1>2, <1>4, <2>1, <2>2, <2>3
<1>6. s = Append(Front(s), Last(s))
  BY <1>5, SeqEqual
<1>. QED
  BY <1>2, <1>4, <1>6

LEMMA ResolveType ==
    ASSUME VolumeType, NEW X, NEW p \in Seq(X)
    PROVE  Resolve(p) \in {0} \cup Clusters
<1>1. CASE p = <<>>
  <2>1. Len(p) = 0
    BY <1>1
  <2>2. PICK h : IsWay(h, Len(p), p) /\ Resolve(p) = h[Len(p)]
    BY <2>1, ResolveIs
  <2>. QED
    BY <2>1, <2>2, WayStep, Sizes
<1>2. CASE p # <<>>
  <2>1. Front(p) \in Seq(X) /\ Last(p) \in X /\ p = Append(Front(p), Last(p))
    BY <1>2, FrontType
  <2>2. Resolve(p) = Child(Resolve(Front(p)), Last(p))
    BY <2>1, ResolveAppend
  <2>. QED
    BY <2>2, ChildType
<1>. QED
  BY <1>1, <1>2

LEMMA ContinuedType ==
    ASSUME NEW p \in Seq(AnyName), NEW n \in AnyName, NEW q \in Continued(p, n)
    PROVE  q \in Seq(AnyName)
<1>1. CUT \in AnyName
  BY DEF AnyName
<1>2. q \in {p, Append(p, n), Append(p, CUT)}
  BY DEF Continued
<1>. QED
  BY <1>1, <1>2, AppendProperties

-----------------------------------------------------------------------------
(* The list of the explorer.                                               *)

LEMMA ErrorRow ==
    /\ Only(ERROR) \in Seq(RowType) /\ Len(Only(ERROR)) = 1
<1>1. [name |-> ERROR, dir |-> FALSE] \in RowType
  BY DEF RowType, AnyName
<1>. QED
  BY <1>1 DEF Only

IsRefresh(r, e) ==
    /\ r \in ScreenRecord
    /\ r.sel \in 1 .. Len(r.rows) /\ Len(r.rows) <= MaxRows
    /\ r.path = e.path /\ r.dir = e.dir
    /\ r.rows = Only(ERROR) \/ r.rows = Listing(e.dir)

LEMMA RefreshedIs ==
    ASSUME VolumeType, NEW e \in ScreenRecord, e.sel # 0, NEW keep \in BOOLEAN, NEW fails \in BOOLEAN
    PROVE  IsRefresh(Refreshed(e, keep, fails), e)
<1>. DEFINE rows == IF fails THEN Only(ERROR) ELSE Listing(e.dir)
            last == IF e.sel > Len(rows) THEN Len(rows) ELSE e.sel
            sel == IF keep THEN last ELSE 1
            r == Refreshed(e, keep, fails)
<1>1. rows \in Seq(RowType) /\ Len(rows) \in Nat /\ Len(rows) > 0 /\ Len(rows) <= MaxRows
  <2>1. 1 \in Nat /\ 1 > 0 /\ 1 <= MaxRows
    BY Sizes
  <2>2. /\ Listing(e.dir) \in Seq(RowType) /\ Len(Listing(e.dir)) \in Nat
        /\ Len(Listing(e.dir)) > 0 /\ Len(Listing(e.dir)) <= MaxRows
    BY ListingType
  <2>. QED
    BY <2>1, <2>2, ErrorRow
<1>2. r = [e EXCEPT !.rows = rows, !.seen = TRUE, !.sel = sel]
  BY DEF Refreshed
<1>. HIDE DEF rows, r
<1>3. e.sel \in Nat /\ sel \in Nat /\ sel >= 1 /\ sel <= Len(rows)
  <2>1. e.sel \in Nat
    BY DEF ScreenRecord
  <2>2. PICK l \in Nat : l = Len(rows) /\ l > 0
    BY <1>1
  <2>. QED
    BY <2>1, <2>2
<1>. HIDE DEF sel
<1>4. /\ r \in ScreenRecord /\ r.rows = rows /\ r.sel = sel /\ r.seen = TRUE
      /\ r.path = e.path /\ r.dir = e.dir /\ r.visible = e.visible
  BY <1>1, <1>2, <1>3 DEF ScreenRecord
<1>5. sel \in 1 .. Len(rows)
  BY <1>1, <1>3
<1>. QED
  BY <1>1, <1>4, <1>5 DEF rows, r, IsRefresh

(* The volume is as it was, and the list is read anew.                     *)
LEMMA ShownAnew ==
    ASSUME VolumeType, vol' = vol, NEW e \in ScreenRecord, e.sel # 0, NEW keep \in BOOLEAN,
           NEW fails \in BOOLEAN, ex' = Refreshed(e, keep, fails)
    PROVE  ScreenType' /\ ListingIsCurrent' /\ ex'.path = e.path /\ ex'.dir = e.dir
<1>1. /\ ex' \in ScreenRecord
      /\ ex'.sel \in 1 .. Len(ex'.rows) /\ Len(ex'.rows) <= MaxRows
      /\ ex'.path = e.path /\ ex'.dir = e.dir
      /\ ex'.rows = Only(ERROR) \/ ex'.rows = Listing(e.dir)
  <2>1. IsRefresh(ex', e)
    BY RefreshedIs
  <2>. QED
    BY <2>1 DEF IsRefresh
<1>2. ScreenRecord' = ScreenRecord
  BY DEF ScreenRecord, RowType
<1>3. ScreenType'
  BY <1>1, <1>2 DEF ScreenType
<1>4. ListingIsCurrent'
  <2>1. Listing(ex.dir)' = Listing(ex'.dir)
    BY VolumeStays
  <2>. QED
    BY <1>1, <2>1 DEF ListingIsCurrent
<1>. QED
  BY <1>1, <1>3, <1>4

(* The list is not read, and the rows are the same or the one of an error. *)
LEMMA ShownBefore ==
    ASSUME ScreenType, ListingIsCurrent, vol' = vol, ex' \in ScreenRecord,
           ex'.path = ex.path, ex'.dir = ex.dir, ex'.seen = ex.seen,
           \/ ex'.rows = ex.rows /\ ex'.sel \in DOMAIN ex.rows
           \/ ex'.rows = Only(ERROR) /\ ex'.sel = 1
    PROVE  ScreenType' /\ ListingIsCurrent'
<1>1. Listing(ex.dir)' = Listing(ex'.dir)
  BY VolumeStays
<1>2. ListingIsCurrent'
  BY <1>1 DEF ListingIsCurrent
<1>3. ex.rows \in Seq(RowType)
  BY DEF ScreenType, ScreenRecord
<1>4. ex'.sel \in 1 .. Len(ex'.rows) /\ Len(ex'.rows) <= MaxRows
  <2>1. CASE ex'.rows = ex.rows /\ ex'.sel \in DOMAIN ex.rows
    BY <1>3, <2>1 DEF ScreenType
  <2>2. CASE ex'.rows = Only(ERROR) /\ ex'.sel = 1
    BY <2>2, ErrorRow, Sizes
  <2>. QED
    BY <2>1, <2>2
<1>. QED
  BY <1>2, <1>4 DEF ScreenType, ScreenRecord, RowType

LEMMA ListStepsKeep ==
    ASSUME VolumeType, ScreenType, ListingIsCurrent, ListNext, UNCHANGED vol
    PROVE  ScreenType' /\ ListingIsCurrent'
<1>1. /\ ex \in ScreenRecord /\ ex.sel \in Nat /\ ex.sel # 0 /\ ex.rows \in Seq(RowType)
      /\ ex.path \in Seq(AnyName) /\ ex.sel \in DOMAIN ex.rows
  BY DEF ScreenType, ScreenRecord
<1>2. Selected.name \in AnyName
  <2>1. ex.rows[ex.sel] \in RowType
    BY <1>1
  <2>. QED
    BY <2>1 DEF Selected, RowType
<1>3. CASE HideExplorer \/ BringBack
  BY <1>1, <1>3, ShownBefore DEF HideExplorer, BringBack, ScreenRecord
<1>4. ASSUME NEW fails \in BOOLEAN, ShowExplorer(fails)
      PROVE  ScreenType' /\ ListingIsCurrent'
  <2>. DEFINE e == [ex EXCEPT !.visible = TRUE]
  <2>1. e \in ScreenRecord /\ e.sel # 0
    BY <1>1 DEF ScreenRecord
  <2>2. ex' = Refreshed(e, TRUE, fails)
    BY <1>4 DEF ShowExplorer
  <2>. QED
    BY <2>1, <2>2, ShownAnew
<1>5. ASSUME NEW fails \in BOOLEAN, ListTick(fails)
      PROVE  ScreenType' /\ ListingIsCurrent'
  BY <1>1, <1>5, ShownAnew DEF ListTick
<1>6. ASSUME NEW fails \in BOOLEAN, OpenFile(fails)
      PROVE  ScreenType' /\ ListingIsCurrent'
  BY <1>1, <1>6, ShownBefore DEF OpenFile
<1>7. ASSUME NEW i, Select(i)
      PROVE  ScreenType' /\ ListingIsCurrent'
  <2>1. i \in DOMAIN ex.rows /\ ex' = [ex EXCEPT !.sel = i] /\ i \in Nat
    BY <1>1, <1>7 DEF Select
  <2>. QED
    BY <1>1, <2>1, ShownBefore DEF ScreenRecord
<1>8. ASSUME NEW lost \in BOOLEAN, NEW fails \in BOOLEAN, GoUp(lost, fails)
      PROVE  ScreenType' /\ ListingIsCurrent'
  <2>. DEFINE p == IF ex.path = <<>> THEN <<>> ELSE Front(ex.path)
              c == IF lost \/ Resolve(p) = 0 THEN Root ELSE Resolve(p)
              e == [ex EXCEPT !.path = p, !.dir = c]
  <2>1. p \in Seq(AnyName)
    BY <1>1, FrontType
  <2>2. c \in Clusters
    <3>. HIDE DEF p
    <3>. QED
      BY <2>1, ResolveType, Sizes
  <2>. HIDE DEF p, c
  <2>3. e \in ScreenRecord /\ e.sel # 0
    BY <1>1, <2>1, <2>2 DEF ScreenRecord
  <2>4. ex' = Refreshed(e, FALSE, fails)
    BY <1>8 DEF GoUp, p, c
  <2>. QED
    BY <2>3, <2>4, ShownAnew
<1>9. ASSUME NEW lost \in BOOLEAN, NEW fails \in BOOLEAN, Enter(lost, fails)
      PROVE  ScreenType' /\ ListingIsCurrent'
  <2>. DEFINE c == Child(ex.dir, Selected.name)
  <2>1. CASE lost \/ c = 0
    <3>1. ex' = [ex EXCEPT !.rows = Only(ERROR), !.sel = 1]
      BY <1>9, <2>1 DEF Enter
    <3>. QED
      BY <1>1, <3>1, ErrorRow, ShownBefore DEF ScreenRecord
  <2>2. CASE ~(lost \/ c = 0)
    <3>1. PICK p \in Continued(ex.path, Selected.name) :
             ex' = Refreshed([ex EXCEPT !.path = p, !.dir = c], FALSE, fails)
      BY <1>9, <2>2 DEF Enter
    <3>. DEFINE e == [ex EXCEPT !.path = p, !.dir = c]
    <3>2. p \in Seq(AnyName)
      BY <1>1, <1>2, ContinuedType
    <3>3. c \in Clusters
      BY <2>2, ChildType
    <3>4. e \in ScreenRecord /\ e.sel # 0
      <4>. HIDE DEF c
      <4>. QED
        BY <1>1, <3>2, <3>3 DEF ScreenRecord
    <3>. QED
      BY <3>1, <3>4, ShownAnew
  <2>. QED
    BY <2>1, <2>2
<1>. QED
  BY <1>3, <1>4, <1>5, <1>6, <1>7, <1>8, <1>9 DEF ListNext
-----------------------------------------------------------------------------
(* The volume: a tree of directories, each with one entry of a name.       *)

DirAt(d, s, c) == s \in Used(d) /\ vol[d][s].cl = c

OneName ==
    \A c \in DOMAIN vol : \A s, r \in Used(c) : vol[c][s].name = vol[c][r].name => s = r

Tree ==
    /\ \A c \in DOMAIN vol \ {Root} : \E d, s : DirAt(d, s, c)
    /\ \A c \in Clusters : \A d, s : DirAt(d, s, c) => c \in DOMAIN vol /\ c # Root /\ d # c
    /\ \A c \in Clusters : \A d, s, b, r : DirAt(d, s, c) /\ DirAt(b, r, c) => d = b /\ s = r

VolumeOK == VolumeType /\ OneName /\ Tree

LEMMA FirstIn ==
    ASSUME NEW S, S \subseteq Nat, S # {}
    PROVE  First(S) \in S
<1>1. PICK k \in S : \A m \in S : ~(<<m, k>> \in OpToRel(<, Nat))
  BY NatLessThanWellFounded, WFMin
<1>2. \A m \in S : k <= m
  <2>. SUFFICES ASSUME NEW m \in S, m < k PROVE FALSE
    OBVIOUS
  <2>1. m \in Nat /\ k \in Nat
    OBVIOUS
  <2>2. <<m, k>> \in OpToRel(<, Nat)
    BY <2>1 DEF OpToRel
  <2>. QED
    BY <1>1, <2>2
<1>. QED
  BY <1>2 DEF First

(* What fat32_resolve_dir finds.                                           *)
ChildIs ==
    \A c, n :
       \/ /\ Child(c, n) = 0
          /\ \A s \in Used(c) : vol[c][s].name = n => vol[c][s].cl = 0
       \/ /\ Child(c, n) # 0
          /\ \E s \in Used(c) : vol[c][s].name = n /\ vol[c][s].cl = Child(c, n)

LEMMA ChildMeans == ChildIs
<1>. SUFFICES ASSUME NEW c, NEW n
              PROVE  \/ /\ Child(c, n) = 0
                        /\ \A s \in Used(c) : vol[c][s].name = n => vol[c][s].cl = 0
                     \/ /\ Child(c, n) # 0
                        /\ \E s \in Used(c) : vol[c][s].name = n /\ vol[c][s].cl = Child(c, n)
  BY DEF ChildIs
<1>. DEFINE found == {e \in Named(c, n) : IsDir(e)}
<1>1. CASE found = {}
  BY <1>1 DEF Child, Named, IsDir
<1>2. CASE found # {}
  <2>1. PICK e \in found : Child(c, n) = e.cl
    BY <1>2 DEF Child
  <2>2. PICK s \in Used(c) : e = vol[c][s] /\ e.name = n
    BY <2>1 DEF Named
  <2>. QED
    BY <2>1, <2>2 DEF IsDir
<1>. QED
  BY <1>1, <1>2

(* Directories keep their clusters, or cannot be found any more.           *)
ChildrenStay == \A d, a : Child(d, a) # 0 => Child(d, a)' \in {Child(d, a), 0}

LEMMA OldOrNew ==
    ASSUME OneName,
           \A d, r : r \in Used(d)' /\ vol'[d][r].cl # 0 =>
              \/ r \in Used(d) /\ vol[d][r] = vol'[d][r]
              \/ \A q \in Used(d) : vol[d][q].name # vol'[d][r].name
    PROVE  ChildrenStay
<1>. SUFFICES ASSUME NEW d, NEW a, Child(d, a) # 0, Child(d, a)' # 0
              PROVE  Child(d, a)' = Child(d, a)
  BY DEF ChildrenStay
<1>1. PICK s \in Used(d) : vol[d][s].name = a /\ vol[d][s].cl = Child(d, a)
  BY ChildMeans DEF ChildIs
<1>2. ChildIs'
  BY ChildMeans, PTL
<1>3. PICK r \in Used(d)' : vol'[d][r].name = a /\ vol'[d][r].cl = Child(d, a)'
  BY <1>2 DEF ChildIs
<1>4. r \in Used(d) /\ vol[d][r] = vol'[d][r]
  BY <1>1, <1>3
<1>5. d \in DOMAIN vol
  BY <1>1 DEF Used
<1>6. r = s
  BY <1>1, <1>3, <1>4, <1>5 DEF OneName
<1>. QED
  BY <1>1, <1>3, <1>4, <1>6

-----------------------------------------------------------------------------
(* A file is written.                                                      *)

FileSlot(c, s, n) ==
    /\ c \in DOMAIN vol /\ s \in Slot
    /\ \/ vol[c][s] = NONE /\ \A r \in Used(c) : vol[c][r].name # n
       \/ s \in Used(c) /\ vol[c][s].name = n /\ vol[c][s].cl = 0

LEMMA WrittenIs ==
    ASSUME VolumeOK, NEW c, NEW n, NEW t, Written(c, n, t) # NONE
    PROVE  \E s : /\ FileSlot(c, s, n) /\ Written(c, n, t) = Put(c, s, File(n, t))
                  /\ \A r \in Used(c) : vol[c][r].name = n => r = s
<1>. DEFINE at == {s \in Used(c) : vol[c][s].name = n}
            room == IF at # {} THEN at ELSE FreeSlots(c)
            s == First(room)
<1>1. /\ c \in DOMAIN vol /\ Child(c, n) = 0 /\ room # {}
      /\ Written(c, n, t) = Put(c, s, File(n, t))
  BY DEF Written
<1>2. room \subseteq Slot /\ Slot \subseteq Nat
  BY DEF Used, FreeSlots, Slot
<1>3. s \in room
  <2>. HIDE DEF room
  <2>. QED
    BY <1>1, <1>2, FirstIn
<1>. HIDE DEF s
<1>4. CASE at # {}
  <2>1. s \in Used(c) /\ vol[c][s].name = n
    BY <1>3, <1>4
  <2>2. vol[c][s].cl = 0
    BY <1>1, <2>1, ChildMeans DEF ChildIs
  <2>3. \A r \in Used(c) : vol[c][r].name = n => r = s
    BY <1>1, <2>1 DEF VolumeOK, OneName
  <2>. QED
    BY <1>1, <1>2, <1>3, <2>1, <2>2, <2>3 DEF FileSlot
<1>5. CASE at = {}
  <2>1. s \in FreeSlots(c)
    BY <1>3, <1>5
  <2>2. \A r \in Used(c) : vol[c][r].name # n
    BY <1>5
  <2>. QED
    BY <1>1, <2>1, <2>2 DEF FileSlot, FreeSlots
<1>. QED
  BY <1>4, <1>5

LEMMA PutKeeps ==
    ASSUME VolumeOK, NEW c, NEW s, NEW n \in AnyName, NEW t \in Text, FileSlot(c, s, n),
           vol' = Put(c, s, File(n, t))
    PROVE  VolumeOK' /\ ChildrenStay
<1>. DEFINE f == File(n, t)
<1>1. f \in Entry /\ f.name = n /\ f.cl = 0 /\ f # NONE
  <2>1. f \in Entry /\ f.name = n /\ f.cl = 0
    BY DEF File, Entry
  <2>. QED
    BY <2>1, TextsAssumption
<1>. HIDE DEF f
<1>2. c \in DOMAIN vol /\ s \in Slot
  BY DEF FileSlot
<1>3. vol' = [vol EXCEPT ![c][s] = f]
  BY DEF Put, f
<1>4. /\ DOMAIN vol' = DOMAIN vol
      /\ \A d \in DOMAIN vol, r \in Slot : vol'[d][r] = IF d = c /\ r = s THEN f ELSE vol[d][r]
      /\ vol' \in [DOMAIN vol -> [Slot -> {NONE} \cup Entry]]
  BY <1>1, <1>2, <1>3 DEF VolumeOK, VolumeType
<1>5. VolumeType'
  <2>1. Entry' = Entry
    BY DEF Entry
  <2>. QED
    BY <1>4, <2>1 DEF VolumeOK, VolumeType
<1>6. ASSUME NEW d, NEW r
      PROVE  /\ r \in Used(d)' <=> r \in Used(d) \/ (d = c /\ r = s)
             /\ r \in Used(d)' => vol'[d][r] = IF d = c /\ r = s THEN f ELSE vol[d][r]
  BY <1>1, <1>2, <1>4 DEF Used
<1>7. OneName'
  <2>. SUFFICES ASSUME NEW d, NEW q \in Used(d)', NEW r \in Used(d)',
                       vol'[d][q].name = vol'[d][r].name
                PROVE  q = r
    BY DEF OneName
  <2>1. CASE d # c \/ (q # s /\ r # s)
    <3>1. q \in Used(d) /\ r \in Used(d) /\ vol[d][q].name = vol[d][r].name
      BY <1>6, <2>1
    <3>2. d \in DOMAIN vol
      BY <3>1 DEF Used
    <3>. QED
      BY <3>1, <3>2 DEF VolumeOK, OneName
  <2>2. ASSUME NEW u \in Used(c)', u # s, vol'[c][u].name = n
        PROVE  FALSE
    <3>1. u \in Used(c) /\ vol[c][u].name = n
      BY <1>6, <2>2
    <3>. QED
      BY <2>2, <3>1, <1>2 DEF FileSlot, VolumeOK, OneName
  <2>3. CASE d = c /\ q = s
    BY <1>1, <1>6, <2>2, <2>3
  <2>4. CASE d = c /\ r = s
    BY <1>1, <1>6, <2>2, <2>4
  <2>. QED
    BY <2>1, <2>3, <2>4
<1>8. ASSUME NEW k \in Clusters, NEW d, NEW r
      PROVE  DirAt(d, r, k)' <=> DirAt(d, r, k)
  <2>1. k # 0
    BY Sizes
  <2>2. s \in Used(c) => vol[c][s].cl = 0
    BY DEF FileSlot, Used
  <2>. QED
    BY <1>1, <1>6, <2>1, <2>2 DEF DirAt
<1>9. Tree'
  <2>1. DOMAIN vol \subseteq Clusters
    BY DEF VolumeOK, VolumeType
  <2>. QED
    BY <1>4, <1>8, <2>1 DEF VolumeOK, Tree
<1>10. ChildrenStay
  <2>1. ASSUME NEW d, NEW r, r \in Used(d)', vol'[d][r].cl # 0
        PROVE  r \in Used(d) /\ vol[d][r] = vol'[d][r]
    BY <1>1, <1>6, <2>1
  <2>. QED
    BY <2>1, OldOrNew DEF VolumeOK
<1>. QED
  BY <1>5, <1>7, <1>9, <1>10 DEF VolumeOK
-----------------------------------------------------------------------------
(* A directory is made.                                                    *)

LEMMA MkdirKeeps ==
    ASSUME VolumeOK, NEW c \in DOMAIN vol, NEW n \in Names, ShellMkdir(c, n)
    PROVE  VolumeOK' /\ ChildrenStay
<1>. DEFINE free == Clusters \ DOMAIN vol
            new == First(free)
            s == First(FreeSlots(c))
            f == Dir(n, new)
<1>1. /\ Named(c, n) = {} /\ FreeSlots(c) # {} /\ free # {}
      /\ vol' = [d \in DOMAIN vol \cup {new} |->
                   IF d = new THEN [r \in Slot |-> NONE]
                   ELSE IF d = c THEN [vol[c] EXCEPT ![s] = f] ELSE vol[d]]
  BY DEF ShellMkdir, Changed
<1>2. new \in Clusters /\ new \notin DOMAIN vol /\ new # c /\ new # Root /\ new # 0
  <2>1. free \subseteq Nat
    BY Sizes
  <2>2. new \in free
    <3>. HIDE DEF free
    <3>. QED
      BY <1>1, <2>1, FirstIn
  <2>. QED
    BY <2>2, Sizes DEF VolumeOK, VolumeType
<1>3. s \in Slot /\ vol[c][s] = NONE
  <2>1. FreeSlots(c) \subseteq Nat
    BY DEF FreeSlots, Slot
  <2>2. s \in FreeSlots(c)
    BY <1>1, <2>1, FirstIn
  <2>. QED
    BY <2>2 DEF FreeSlots
<1>. HIDE DEF new, s
<1>4. f \in Entry /\ f.name = n /\ f.cl = new /\ f # NONE
  <2>1. <<>> \in Text
    BY DEF Text
  <2>2. f \in Entry /\ f.name = n /\ f.cl = new
    BY <1>2, <2>1 DEF Dir, Entry, AnyName
  <2>. QED
    BY <2>2, TextsAssumption
<1>. HIDE DEF f
<1>5. /\ DOMAIN vol' = DOMAIN vol \cup {new}
      /\ \A r \in Slot : vol'[new][r] = NONE
      /\ \A d \in DOMAIN vol, r \in Slot : vol'[d][r] = IF d = c /\ r = s THEN f ELSE vol[d][r]
      /\ \A d \in DOMAIN vol' : vol'[d] \in [Slot -> {NONE} \cup Entry]
  <2>1. ASSUME NEW d \in DOMAIN vol
        PROVE  /\ \A r \in Slot : vol'[d][r] = IF d = c /\ r = s THEN f ELSE vol[d][r]
               /\ vol'[d] \in [Slot -> {NONE} \cup Entry]
    <3>1. vol[d] \in [Slot -> {NONE} \cup Entry]
      BY DEF VolumeOK, VolumeType
    <3>2. vol'[d] = IF d = c THEN [vol[c] EXCEPT ![s] = f] ELSE vol[d]
      BY <1>1, <1>2
    <3>. QED
      BY <1>3, <1>4, <3>1, <3>2
  <2>2. vol'[new] = [r \in Slot |-> NONE]
    BY <1>1
  <2>3. DOMAIN vol' = DOMAIN vol \cup {new}
    BY <1>1
  <2>. QED
    BY <2>1, <2>2, <2>3
<1>6. VolumeType'
  <2>1. Entry' = Entry
    BY DEF Entry
  <2>2. vol' \in [DOMAIN vol' -> [Slot -> {NONE} \cup Entry]]
    <3>1. vol' = [d \in DOMAIN vol' |-> vol'[d]]
      BY <1>1
    <3>. QED
      BY <1>5, <3>1
  <2>. QED
    BY <1>2, <1>5, <2>1, <2>2 DEF VolumeOK, VolumeType
<1>7. ASSUME NEW d, NEW r
      PROVE  /\ r \in Used(d)' <=> r \in Used(d) \/ (d = c /\ r = s)
             /\ r \in Used(d)' => vol'[d][r] = IF d = c /\ r = s THEN f ELSE vol[d][r]
  <2>1. CASE d = new
    BY <1>2, <1>5, <2>1 DEF Used
  <2>2. CASE d # new
    BY <1>3, <1>4, <1>5, <2>2 DEF Used
  <2>. QED
    BY <2>1, <2>2
<1>8. \A r \in Used(c) : vol[c][r].name # n
  BY <1>1 DEF Named
<1>9. OneName'
  <2>. SUFFICES ASSUME NEW d, NEW q \in Used(d)', NEW r \in Used(d)',
                       vol'[d][q].name = vol'[d][r].name
                PROVE  q = r
    BY DEF OneName
  <2>1. CASE d # c \/ (q # s /\ r # s)
    <3>1. q \in Used(d) /\ r \in Used(d) /\ vol[d][q].name = vol[d][r].name
      BY <1>7, <2>1
    <3>2. d \in DOMAIN vol
      BY <3>1 DEF Used
    <3>. QED
      BY <3>1, <3>2 DEF VolumeOK, OneName
  <2>2. ASSUME NEW u \in Used(c)', u # s
        PROVE  vol'[c][u].name # n
    BY <1>7, <1>8, <2>2
  <2>3. CASE d = c /\ q = s
    BY <1>4, <1>7, <2>2, <2>3
  <2>4. CASE d = c /\ r = s
    BY <1>4, <1>7, <2>2, <2>4
  <2>. QED
    BY <2>1, <2>3, <2>4
<1>10. ASSUME NEW k \in Clusters, NEW d, NEW r
       PROVE  DirAt(d, r, k)' <=> DirAt(d, r, k) \/ (d = c /\ r = s /\ k = new)
  <2>1. s \notin Used(c)
    BY <1>3 DEF Used
  <2>. QED
    BY <1>4, <1>7, <2>1 DEF DirAt
<1>11. Tree'
  <2>1. DOMAIN vol \subseteq Clusters
    BY DEF VolumeOK, VolumeType
  <2>2. \A d, r : ~DirAt(d, r, new)
    BY <1>2 DEF VolumeOK, Tree
  <2>3. ASSUME NEW k \in DOMAIN vol' \ {Root}
        PROVE  \E d, r : DirAt(d, r, k)'
    <3>1. CASE k = new
      BY <1>2, <1>10, <3>1
    <3>2. CASE k # new
      <4>1. k \in DOMAIN vol \ {Root} /\ k \in Clusters
        BY <1>5, <2>1, <2>3, <3>2
      <4>. QED
        BY <1>10, <4>1 DEF VolumeOK, Tree
    <3>. QED
      BY <3>1, <3>2
  <2>4. ASSUME NEW k \in Clusters, NEW d, NEW r, DirAt(d, r, k)'
        PROVE  k \in DOMAIN vol' /\ k # Root /\ d # k
    BY <1>2, <1>5, <1>10, <2>4 DEF VolumeOK, Tree
  <2>5. ASSUME NEW k \in Clusters, NEW d, NEW r, NEW b, NEW q, DirAt(d, r, k)', DirAt(b, q, k)'
        PROVE  d = b /\ r = q
    <3>1. CASE k = new
      BY <1>10, <2>2, <2>5, <3>1
    <3>2. CASE k # new
      BY <1>10, <2>5, <3>2 DEF VolumeOK, Tree
    <3>. QED
      BY <3>1, <3>2
  <2>6. Clusters' = Clusters
    BY DEF Clusters
  <2>. QED
    BY <2>3, <2>4, <2>5, <2>6 DEF Tree
<1>12. ChildrenStay
  <2>1. ASSUME NEW d, NEW r, r \in Used(d)', vol'[d][r].cl # 0
        PROVE  \/ r \in Used(d) /\ vol[d][r] = vol'[d][r]
               \/ \A q \in Used(d) : vol[d][q].name # vol'[d][r].name
    BY <1>4, <1>7, <1>8, <2>1
  <2>. QED
    BY <2>1, OldOrNew DEF VolumeOK
<1>. QED
  BY <1>6, <1>9, <1>11, <1>12 DEF VolumeOK

-----------------------------------------------------------------------------
(* A file or an empty directory is removed.                                *)

LEMMA RmKeeps ==
    ASSUME VolumeOK, NEW c \in DOMAIN vol, NEW s \in Slot, ShellRm(c, s)
    PROVE  VolumeOK' /\ ChildrenStay
<1>. DEFINE e == vol[c][s]
            gone == e.cl
<1>1. /\ e # NONE /\ (gone # 0 => Used(gone) = {})
      /\ vol' = [d \in DOMAIN vol \ {gone} |-> IF d = c THEN [vol[c] EXCEPT ![s] = NONE] ELSE vol[d]]
  BY DEF ShellRm, Changed, IsDir
<1>2. s \in Used(c)
  BY <1>1 DEF Used
<1>3. gone \in {0} \cup Clusters /\ gone # c /\ gone # Root /\ Used(gone) = {}
  <2>1. gone \in {0} \cup Clusters
    BY <1>2, EntryAt DEF VolumeOK
  <2>2. CASE gone = 0
    <3>1. 0 \notin DOMAIN vol
      BY Sizes DEF VolumeOK, VolumeType
    <3>. QED
      BY <2>1, <2>2, <3>1, Sizes DEF Used
  <2>3. CASE gone # 0
    <3>1. DirAt(c, s, gone)
      BY <1>2 DEF DirAt
    <3>. QED
      BY <1>1, <1>2, <2>1, <2>3, <3>1 DEF VolumeOK, Tree
  <2>. QED
    BY <2>2, <2>3
<1>4. /\ DOMAIN vol' = DOMAIN vol \ {gone}
      /\ \A d \in DOMAIN vol', r \in Slot : vol'[d][r] = IF d = c /\ r = s THEN NONE ELSE vol[d][r]
      /\ \A d \in DOMAIN vol' : vol'[d] \in [Slot -> {NONE} \cup Entry]
  <2>1. DOMAIN vol' = DOMAIN vol \ {gone}
    BY <1>1
  <2>2. ASSUME NEW d \in DOMAIN vol'
        PROVE  /\ \A r \in Slot : vol'[d][r] = IF d = c /\ r = s THEN NONE ELSE vol[d][r]
               /\ vol'[d] \in [Slot -> {NONE} \cup Entry]
    <3>1. vol[d] \in [Slot -> {NONE} \cup Entry]
      BY <2>1 DEF VolumeOK, VolumeType
    <3>2. vol'[d] = IF d = c THEN [vol[c] EXCEPT ![s] = NONE] ELSE vol[d]
      BY <1>1, <2>1
    <3>. HIDE DEF gone
    <3>. QED
      BY <3>1, <3>2
  <2>. QED
    BY <2>1, <2>2
<1>5. VolumeType'
  <2>1. Entry' = Entry
    BY DEF Entry
  <2>2. vol' \in [DOMAIN vol' -> [Slot -> {NONE} \cup Entry]]
    <3>1. vol' = [d \in DOMAIN vol' |-> vol'[d]]
      BY <1>1
    <3>. QED
      BY <1>4, <3>1
  <2>. QED
    BY <1>3, <1>4, <2>1, <2>2 DEF VolumeOK, VolumeType
<1>. HIDE DEF gone
<1>6. ASSUME NEW d, NEW r
      PROVE  /\ r \in Used(d)' <=> r \in Used(d) /\ ~(d = c /\ r = s)
             /\ r \in Used(d)' => vol'[d][r] = vol[d][r]
  <2>1. CASE d = gone
    BY <1>3, <1>4, <2>1 DEF Used
  <2>2. CASE d # gone
    BY <1>4, <2>2 DEF Used
  <2>. QED
    BY <2>1, <2>2
<1>7. OneName'
  <2>. SUFFICES ASSUME NEW d, NEW q \in Used(d)', NEW r \in Used(d)',
                       vol'[d][q].name = vol'[d][r].name
                PROVE  q = r
    BY DEF OneName
  <2>1. q \in Used(d) /\ r \in Used(d) /\ vol[d][q].name = vol[d][r].name
    BY <1>6
  <2>2. d \in DOMAIN vol
    BY <2>1 DEF Used
  <2>. QED
    BY <2>1, <2>2 DEF VolumeOK, OneName
<1>8. ASSUME NEW k \in Clusters, NEW d, NEW r
      PROVE  DirAt(d, r, k)' <=> DirAt(d, r, k) /\ ~(d = c /\ r = s)
  BY <1>6 DEF DirAt
<1>9. Tree'
  <2>1. DOMAIN vol \subseteq Clusters
    BY DEF VolumeOK, VolumeType
  <2>2. ASSUME NEW k \in Clusters, k # gone
        PROVE  ~DirAt(c, s, k)
    BY <2>2 DEF DirAt, gone
  <2>3. ASSUME NEW k \in DOMAIN vol' \ {Root}
        PROVE  \E d, r : DirAt(d, r, k)'
    <3>1. k \in DOMAIN vol \ {Root} /\ k \in Clusters /\ k # gone
      BY <1>4, <2>1, <2>3
    <3>2. PICK d, r : DirAt(d, r, k)
      BY <3>1 DEF VolumeOK, Tree
    <3>. QED
      BY <1>8, <2>2, <3>1, <3>2
  <2>4. ASSUME NEW k \in Clusters, NEW d, NEW r, DirAt(d, r, k)'
        PROVE  k \in DOMAIN vol' /\ k # Root /\ d # k
    <3>1. DirAt(d, r, k) /\ ~(d = c /\ r = s)
      BY <1>8, <2>4
    <3>2. k # gone
      <4>. SUFFICES ASSUME k = gone PROVE FALSE
        OBVIOUS
      <4>1. DirAt(c, s, k)
        BY <1>2 DEF DirAt, gone
      <4>. QED
        BY <3>1, <4>1 DEF VolumeOK, Tree
    <3>. QED
      BY <1>4, <3>1, <3>2 DEF VolumeOK, Tree
  <2>5. ASSUME NEW k \in Clusters, NEW d, NEW r, NEW b, NEW q, DirAt(d, r, k)', DirAt(b, q, k)'
        PROVE  d = b /\ r = q
    BY <1>8, <2>5 DEF VolumeOK, Tree
  <2>6. Clusters' = Clusters
    BY DEF Clusters
  <2>. QED
    BY <2>3, <2>4, <2>5, <2>6 DEF Tree
<1>10. ChildrenStay
  <2>1. ASSUME NEW d, NEW r, r \in Used(d)', vol'[d][r].cl # 0
        PROVE  r \in Used(d) /\ vol[d][r] = vol'[d][r]
    BY <1>6, <2>1
  <2>. QED
    BY <2>1, OldOrNew DEF VolumeOK
<1>. QED
  BY <1>5, <1>7, <1>9, <1>10 DEF VolumeOK
-----------------------------------------------------------------------------
(* The notepad.                                                            *)

ReadIsShown == read # NONE => read \in Text /\ note.text = Shown(read)

LEMMA ShownType ==
    ASSUME NEW t \in Text
    PROVE  /\ Shown(t) \in Text /\ Len(Shown(t)) \in Nat /\ Len(Shown(t)) <= NoteMax
           /\ Len(t) <= NoteMax /\ CR \notin ToSet(t) => Shown(t) = t
<1>. DEFINE X == {Char, CR, LOST}
            n == IF Len(t) < NoteMax THEN Len(t) ELSE NoteMax
            u == SubSeq(t, 1, n)
            S == {i \in 1 .. n : t[i] # CR}
<1>1. t \in Seq(X) /\ Len(t) \in Nat /\ \A i \in 1 .. Len(t) : t[i] \in X
  BY DEF Text
<1>2. n \in Nat /\ n <= Len(t) /\ n <= NoteMax
  BY <1>1, Sizes
<1>3. Shown(t) = Picked(u, S)
  BY DEF Shown
<1>4. Len(t) <= NoteMax => n = Len(t)
  BY <1>1, Sizes
<1>. HIDE DEF n, X
<1>5. u \in Seq(X) /\ Len(u) = n /\ \A i \in 1 .. n : u[i] = t[i]
  <2>1. n \in Int /\ 1 \in Int /\ \A i \in 1 .. n : t[i] \in X
    BY <1>1, <1>2
  <2>2. (IF 1 <= n THEN n - 1 + 1 ELSE 0) = n /\ n - 1 + 1 = n /\ \A i \in 1 .. n : 1 + i - 1 = i
    BY <1>2
  <2>3. /\ SubSeq(t, 1, n) \in Seq(X)
        /\ Len(SubSeq(t, 1, n)) = IF 1 <= n THEN n - 1 + 1 ELSE 0
        /\ \A i \in 1 .. n - 1 + 1 : SubSeq(t, 1, n)[i] = t[1 + i - 1]
    BY <2>1, SubSeqProperties
  <2>. QED
    BY <2>2, <2>3
<1>. HIDE DEF u
<1>6. Picked(u, S) \in Seq(X) /\ Len(Picked(u, S)) <= Len(u)
  <2>. HIDE DEF S
  <2>1. Len(u) \in Nat /\ \A i \in 1 .. Len(u) : i \in S => u[i] \in X
    BY <1>2, <1>5
  <2>. QED
    BY <2>1, PickedType
<1>7. ASSUME Len(t) <= NoteMax, CR \notin ToSet(t)
      PROVE  Picked(u, S) = t
  <2>1. n = Len(t)
    BY <1>4, <1>7
  <2>2. \A i \in 1 .. Len(t) : t[i] # CR
    BY <1>1, <1>7 DEF ToSet
  <2>3. \A i \in 1 .. Len(u) : i \in S
    BY <1>5, <2>1, <2>2
  <2>4. u = t
    BY <1>1, <1>5, <2>1, SeqEqual
  <2>. HIDE DEF S
  <2>. QED
    BY <1>5, <2>3, <2>4, PickedAll
<1>8. Len(Picked(u, S)) \in Nat /\ Len(Picked(u, S)) <= NoteMax
  <2>. HIDE DEF S
  <2>0. Len(Picked(u, S)) \in Nat
    BY <1>6, LenProperties
  <2>1. PICK l \in Nat : l = Len(Picked(u, S)) /\ l <= n
    BY <1>5, <1>6, <2>0
  <2>2. l <= NoteMax
    BY <1>2, <2>1, Sizes
  <2>. QED
    BY <2>1, <2>2
<1>. QED
  BY <1>3, <1>6, <1>7, <1>8 DEF Text, X

LEMMA FileTextIs ==
    ASSUME NEW p
    PROVE  LET c == Resolve(Front(p))
           IN  \/ FileText(p) = NONE
               \/ \E s \in Used(c) : /\ vol[c][s].name = Last(p) /\ vol[c][s].cl = 0
                                     /\ FileText(p) = vol[c][s].text
<1>. DEFINE c == Resolve(Front(p))
            found == {e \in Named(c, Last(p)) : ~IsDir(e)}
<1>1. CASE found = {}
  BY <1>1 DEF FileText
<1>2. CASE found # {}
  <2>1. PICK e \in found : FileText(p) = e.text
    BY <1>2 DEF FileText
  <2>2. PICK s \in Used(c) : e = vol[c][s] /\ e.name = Last(p)
    BY <2>1 DEF Named
  <2>. QED
    BY <2>1, <2>2 DEF IsDir
<1>. QED
  BY <1>1, <1>2

LEMMA MessageType == MSG \in Text /\ Len(MSG) = 1 /\ <<>> \in Text /\ Len(<<>>) = 0
<1>1. LOST \in {Char, CR, LOST}
  OBVIOUS
<1>. QED
  BY <1>1 DEF MSG, Text

LEMMA InsertType ==
    ASSUME NEW t \in Text, NEW k \in 0 .. Len(t)
    PROVE  InsertAt(t, k + 1, Char) \in Text /\ Len(InsertAt(t, k + 1, Char)) = Len(t) + 1
<1>. DEFINE X == {Char, CR, LOST}
<1>1. t \in Seq(X) /\ Len(t) \in Nat /\ \A i \in 1 .. Len(t) : t[i] \in X
  BY DEF Text
<1>2. PICK n \in Nat : n = Len(t)
  BY <1>1
<1>. HIDE DEF X
<1>3. SubSeq(t, 1, k) \in Seq(X) /\ Len(SubSeq(t, 1, k)) = k
  <2>1. k \in Int /\ 1 \in Int /\ \A i \in 1 .. k : t[i] \in X
    BY <1>1, <1>2
  <2>2. (IF 1 <= k THEN k - 1 + 1 ELSE 0) = k
    BY <1>2
  <2>3. SubSeq(t, 1, k) \in Seq(X) /\ Len(SubSeq(t, 1, k)) = IF 1 <= k THEN k - 1 + 1 ELSE 0
    BY <2>1, SubSeqProperties
  <2>. QED
    BY <2>2, <2>3
<1>4. SubSeq(t, k + 1, n) \in Seq(X) /\ Len(SubSeq(t, k + 1, n)) = n - k
  <2>1. k + 1 \in Int /\ n \in Int /\ \A i \in k + 1 .. n : t[i] \in X
    BY <1>1, <1>2
  <2>2. (IF k + 1 <= n THEN n - (k + 1) + 1 ELSE 0) = n - k
    BY <1>2
  <2>3. /\ SubSeq(t, k + 1, n) \in Seq(X)
        /\ Len(SubSeq(t, k + 1, n)) = IF k + 1 <= n THEN n - (k + 1) + 1 ELSE 0
    BY <2>1, SubSeqProperties
  <2>. QED
    BY <2>2, <2>3
<1>5. <<Char>> \in Seq(X) /\ Len(<<Char>>) = 1
  BY DEF X
<1>6. k + 1 - 1 = k
  BY <1>2
<1>7. PICK l, r : /\ l = SubSeq(t, 1, k) \o <<Char>> /\ r = SubSeq(t, k + 1, n)
                  /\ InsertAt(t, k + 1, Char) = l \o r
  <2>1. PICK j : j = k + 1
    OBVIOUS
  <2>2. InsertAt(t, j, Char) = SubSeq(t, 1, j - 1) \o <<Char>> \o SubSeq(t, j, Len(t))
    BY DEF InsertAt
  <2>3. j - 1 = k
    BY <1>6, <2>1
  <2>4. InsertAt(t, j, Char) = (SubSeq(t, 1, k) \o <<Char>>) \o SubSeq(t, j, n)
    BY <1>2, <2>2, <2>3
  <2>. QED
    BY <2>1, <2>4
<1>8. l \in Seq(X) /\ Len(l) = k + 1
  BY <1>3, <1>5, <1>7, ConcatProperties
<1>9. l \o r \in Seq(X) /\ Len(l \o r) = k + 1 + (n - k)
  <2>1. r \in Seq(X) /\ Len(r) = n - k
    BY <1>4, <1>7
  <2>2. l \o r \in Seq(X) /\ Len(l \o r) = Len(l) + Len(r)
    BY <1>8, <2>1, ConcatProperties
  <2>. QED
    BY <1>8, <2>1, <2>2
<1>10. k + 1 + (n - k) = n + 1
  BY <1>2
<1>. QED
  BY <1>2, <1>7, <1>9, <1>10 DEF Text, X

LEMMA EraseType ==
    ASSUME NEW t \in Text, NEW k \in 1 .. Len(t)
    PROVE  RemoveAt(t, k) \in Text /\ Len(RemoveAt(t, k)) = Len(t) - 1
<1>. DEFINE X == {Char, CR, LOST}
<1>1. t \in Seq(X) /\ Len(t) \in Nat /\ \A i \in 1 .. Len(t) : t[i] \in X
  BY DEF Text
<1>2. PICK n \in Nat : n = Len(t)
  BY <1>1
<1>. HIDE DEF X
<1>3. SubSeq(t, 1, k - 1) \in Seq(X) /\ Len(SubSeq(t, 1, k - 1)) = k - 1
  <2>1. k - 1 \in Int /\ 1 \in Int /\ \A i \in 1 .. k - 1 : t[i] \in X
    BY <1>1, <1>2
  <2>2. (IF 1 <= k - 1 THEN k - 1 - 1 + 1 ELSE 0) = k - 1
    BY <1>2
  <2>3. /\ SubSeq(t, 1, k - 1) \in Seq(X)
        /\ Len(SubSeq(t, 1, k - 1)) = IF 1 <= k - 1 THEN k - 1 - 1 + 1 ELSE 0
    BY <2>1, SubSeqProperties
  <2>. QED
    BY <2>2, <2>3
<1>4. SubSeq(t, k + 1, n) \in Seq(X) /\ Len(SubSeq(t, k + 1, n)) = n - k
  <2>1. k + 1 \in Int /\ n \in Int /\ \A i \in k + 1 .. n : t[i] \in X
    BY <1>1, <1>2
  <2>2. (IF k + 1 <= n THEN n - (k + 1) + 1 ELSE 0) = n - k
    BY <1>2
  <2>3. /\ SubSeq(t, k + 1, n) \in Seq(X)
        /\ Len(SubSeq(t, k + 1, n)) = IF k + 1 <= n THEN n - (k + 1) + 1 ELSE 0
    BY <2>1, SubSeqProperties
  <2>. QED
    BY <2>2, <2>3
<1>5. RemoveAt(t, k) = SubSeq(t, 1, k - 1) \o SubSeq(t, k + 1, n)
  BY <1>2 DEF RemoveAt
<1>6. RemoveAt(t, k) \in Seq(X) /\ Len(RemoveAt(t, k)) = k - 1 + (n - k)
  BY <1>3, <1>4, <1>5, ConcatProperties
<1>7. k - 1 + (n - k) = n - 1
  BY <1>2
<1>. QED
  BY <1>2, <1>6, <1>7 DEF Text, X

(* The note after a key, and what it was read from.                        *)
LEMMA NoteFits ==
    ASSUME note' \in [path : Seq(AnyName), text : Text, caret : Nat],
           Len(note'.path) > 0, Len(note'.text) <= NoteMax, note'.caret \in 0 .. Len(note'.text),
           read' # NONE => read' \in Text /\ note'.text = Shown(read')
    PROVE  NoteType' /\ ReadIsShown'
BY DEF NoteType, ReadIsShown, Text, AnyName

LEMMA NewNote ==
    LET m == [path |-> <<DefaultName>>, text |-> <<>>, caret |-> 0]
    IN  /\ m \in [path : Seq(AnyName), text : Text, caret : Nat]
        /\ Len(m.path) > 0 /\ Len(m.text) <= NoteMax /\ m.caret \in 0 .. Len(m.text)
<1>1. <<DefaultName>> \in Seq(AnyName) /\ Len(<<DefaultName>>) = 1
  BY Sizes
<1>2. 0 <= NoteMax /\ 0 \in 0 .. 0
  BY Sizes
<1>. QED
  BY <1>1, <1>2, MessageType

LEMMA NoteStays ==
    ASSUME NoteType, ReadIsShown, note' = note, read' = read
    PROVE  NoteType' /\ ReadIsShown'
BY NoteFits DEF NoteType, ReadIsShown

LEMMA NoteStepsKeep ==
    ASSUME NoteType, ReadIsShown, Insert \/ Backspace \/ DeleteChar \/ NewFile \/ \E to : MoveCaret(to)
    PROVE  NoteType' /\ ReadIsShown'
<1>1. /\ note \in [path : Seq(AnyName), text : Text, caret : Nat]
      /\ Len(note.path) > 0 /\ Len(note.text) <= NoteMax
      /\ note.caret \in 0 .. Len(note.text) /\ note.text \in Text
  BY DEF NoteType
<1>2. PICK n \in Nat : n = Len(note.text)
  BY <1>1 DEF Text
<1>3. CASE Insert
  <2>1. /\ n < NoteMax /\ read' = NONE
        /\ note' = [note EXCEPT !.text = InsertAt(note.text, note.caret + 1, Char), !.caret = note.caret + 1]
    BY <1>2, <1>3 DEF Insert
  <2>. DEFINE t == InsertAt(note.text, note.caret + 1, Char)
  <2>2. t \in Text /\ Len(t) = n + 1
    BY <1>1, <1>2, InsertType
  <2>. HIDE DEF t
  <2>3. note.caret + 1 \in 0 .. n + 1 /\ n + 1 <= NoteMax /\ note.caret + 1 \in Nat
    BY <1>1, <1>2, <2>1, Sizes
  <2>4. /\ note' \in [path : Seq(AnyName), text : Text, caret : Nat]
        /\ note'.path = note.path /\ note'.text = t /\ note'.caret = note.caret + 1
    BY <1>1, <2>1, <2>2, <2>3 DEF t
  <2>. QED
    BY <1>1, <2>1, <2>2, <2>3, <2>4, NoteFits
<1>4. ASSUME NEW at \in 1 .. n, Erase(at)
      PROVE  NoteType' /\ ReadIsShown'
  <2>1. /\ read' = NONE
        /\ note' = [note EXCEPT !.text = RemoveAt(note.text, at), !.caret = at - 1]
    BY <1>4 DEF Erase
  <2>. DEFINE t == RemoveAt(note.text, at)
  <2>2. t \in Text /\ Len(t) = n - 1
    BY <1>1, <1>2, EraseType
  <2>. HIDE DEF t
  <2>3. at - 1 \in 0 .. n - 1 /\ n - 1 <= NoteMax /\ at - 1 \in Nat
    BY <1>1, <1>2, Sizes
  <2>4. /\ note' \in [path : Seq(AnyName), text : Text, caret : Nat]
        /\ note'.path = note.path /\ note'.text = t /\ note'.caret = at - 1
    BY <1>1, <2>1, <2>2, <2>3 DEF t
  <2>. QED
    BY <1>1, <2>1, <2>2, <2>3, <2>4, NoteFits
<1>5. CASE Backspace
  <2>1. note.caret \in 1 .. n
    BY <1>1, <1>2, <1>5 DEF Backspace
  <2>. QED
    BY <1>4, <1>5, <2>1 DEF Backspace
<1>6. CASE DeleteChar
  <2>1. note.caret + 1 \in 1 .. n
    BY <1>1, <1>2, <1>6 DEF DeleteChar
  <2>. QED
    BY <1>4, <1>6, <2>1 DEF DeleteChar
<1>7. CASE NewFile
  <2>1. note' = [path |-> <<DefaultName>>, text |-> <<>>, caret |-> 0] /\ read' = NONE
    BY <1>7 DEF NewFile
  <2>. QED
    BY <2>1, NewNote, NoteFits
<1>8. ASSUME NEW to, MoveCaret(to)
      PROVE  NoteType' /\ ReadIsShown'
  <2>1. /\ read' = read /\ to \in 0 .. n /\ to \in Nat
        /\ note' = [note EXCEPT !.caret = to]
    BY <1>2, <1>8 DEF MoveCaret
  <2>2. /\ note' \in [path : Seq(AnyName), text : Text, caret : Nat]
        /\ note'.path = note.path /\ note'.text = note.text /\ note'.caret = to
    BY <1>1, <2>1
  <2>. QED
    BY <1>1, <1>2, <2>1, <2>2, NoteFits DEF ReadIsShown
<1>. QED
  BY <1>3, <1>5, <1>6, <1>7, <1>8

LEMMA OpenKeeps ==
    ASSUME VolumeType, ScreenType, NEW fails \in BOOLEAN, OpenFile(fails)
    PROVE  NoteType' /\ ReadIsShown'
<1>1. PICK p \in NotePath(ex.path, Selected.name) :
        LET t == IF fails THEN NONE ELSE FileText(p)
            s == IF t = NONE THEN MSG ELSE Shown(t)
        IN  note' = [path |-> p, text |-> s, caret |-> Len(s)] /\ read' = t
  BY DEF OpenFile
<1>. DEFINE t == IF fails THEN NONE ELSE FileText(p)
            s == IF t = NONE THEN MSG ELSE Shown(t)
<1>2. note' = [path |-> p, text |-> s, caret |-> Len(s)] /\ read' = t
  BY <1>1
<1>3. p \in Seq(AnyName) /\ Len(p) > 0
  <2>1. ex.path \in Seq(AnyName) /\ ex.rows[ex.sel] \in RowType
    BY DEF ScreenType, ScreenRecord
  <2>2. Selected.name \in AnyName /\ CUT \in AnyName
    BY <2>1 DEF Selected, RowType, AnyName
  <2>3. p \in {Append(ex.path, Selected.name), Append(ex.path, CUT)}
    BY DEF NotePath
  <2>4. PICK k \in Nat : k = Len(ex.path)
    BY <2>1
  <2>5. p \in Seq(AnyName) /\ Len(p) = k + 1
    BY <2>1, <2>2, <2>3, <2>4, AppendProperties
  <2>. QED
    BY <2>5
<1>4. t = NONE \/ t \in Text
  BY FileTextIs, EntryAt
<1>. HIDE DEF t
<1>5. s \in Text /\ Len(s) \in Nat /\ Len(s) <= NoteMax
  <2>1. 1 \in Nat /\ 1 <= NoteMax
    BY Sizes
  <2>. QED
    BY <1>4, <2>1, MessageType, ShownType
<1>6. t # NONE => t \in Text /\ s = Shown(t)
  BY <1>4
<1>. HIDE DEF s
<1>7. Len(s) \in 0 .. Len(s)
  BY <1>5
<1>. QED
  BY <1>2, <1>3, <1>5, <1>6, <1>7, NoteFits
-----------------------------------------------------------------------------
(* Every step.                                                             *)

ExplorerInv == VolumeOK /\ ScreenType /\ ListingIsCurrent /\ NoteType /\ ReadIsShown

LEMMA ExplorerStarts == ExplorerInit => ExplorerInv
<1>. SUFFICES ASSUME ExplorerInit PROVE ExplorerInv
  OBVIOUS
<1>1. vol = [c \in {Root} |-> Initial] /\ read = NONE
  BY DEF ExplorerInit
<1>2. /\ Initial \in [Slot -> {NONE} \cup Entry]
      /\ \A s \in Slot : Initial[s] # NONE => Initial[s].cl = 0
      /\ \A s, r \in Slot : Initial[s] # NONE /\ Initial[r] # NONE /\ Initial[s].name = Initial[r].name
                              => s = r
  BY InitialAssumption
<1>3. VolumeType
  BY <1>1, <1>2, Sizes DEF VolumeType
<1>4. /\ DOMAIN vol = {Root}
      /\ \A d, s : s \in Used(d) => d = Root /\ s \in Slot /\ Initial[s] # NONE /\ vol[d][s] = Initial[s]
  BY <1>1 DEF Used
<1>5. OneName
  BY <1>2, <1>4 DEF OneName
<1>6. \A d, s : \A k \in Clusters : ~DirAt(d, s, k)
  BY <1>2, <1>4, Sizes DEF DirAt
<1>7. Tree
  BY <1>4, <1>6 DEF Tree
<1>8. ScreenType /\ ListingIsCurrent
  <2>. DEFINE e == [visible |-> FALSE, path |-> <<>>, dir |-> Root, rows |-> <<>>, sel |-> 1, seen |-> TRUE]
  <2>1. PICK fails \in BOOLEAN : ex = Refreshed(e, FALSE, fails)
    BY DEF ExplorerInit
  <2>2. e \in ScreenRecord /\ e.sel # 0
    BY Sizes DEF ScreenRecord
  <2>. HIDE DEF e
  <2>3. IsRefresh(ex, e)
    BY <1>3, <2>1, <2>2, RefreshedIs
  <2>. QED
    BY <2>3 DEF IsRefresh, ScreenType, ListingIsCurrent
<1>9. NoteType
  <2>1. note = [path |-> <<DefaultName>>, text |-> <<>>, caret |-> 0]
    BY DEF ExplorerInit
  <2>. QED
    BY <2>1, NewNote DEF NoteType
<1>. QED
  BY <1>1, <1>3, <1>5, <1>7, <1>8, <1>9 DEF ExplorerInv, VolumeOK, ReadIsShown

LEMMA ListLeavesVolume == ListNext => UNCHANGED vol
BY DEF ListNext, HideExplorer, BringBack, ShowExplorer, ListTick, OpenFile, Select, GoUp, Enter

LEMMA ListLeavesNote ==
    ListNext => UNCHANGED <<note, read>> \/ \E fails \in BOOLEAN : OpenFile(fails)
BY DEF ListNext, HideExplorer, BringBack, ShowExplorer, ListTick, Select, GoUp, Enter

LEMMA KeysLeaveVolume ==
    Insert \/ Backspace \/ DeleteChar \/ NewFile \/ (\E to : MoveCaret(to)) => UNCHANGED <<vol, ex>>
BY DEF Insert, Backspace, DeleteChar, Erase, NewFile, MoveCaret

(* The same volume is as good.                                             *)
LEMMA VolumeOKStays ==
    ASSUME VolumeOK, vol' = vol
    PROVE  VolumeOK' /\ ChildrenStay
<1>1. VolumeType' /\ OneName'
  BY DEF VolumeOK, VolumeType, OneName, Used, Clusters, Entry
<1>2. \A d, s, c : DirAt(d, s, c)' <=> DirAt(d, s, c)
  BY DEF DirAt, Used
<1>3. Tree'
  BY <1>2 DEF VolumeOK, Tree, Clusters
<1>4. ChildrenStay
  BY DEF ChildrenStay, Child, Named, Used
<1>. QED
  BY <1>1, <1>3, <1>4 DEF VolumeOK

LEMMA VolumeSteps ==
    ASSUME ExplorerInv, Save \/ ShellNext
    PROVE  /\ VolumeOK' /\ ChildrenStay /\ UNCHANGED <<note, read>>
           /\ Unseen \/ (vol' = vol /\ ex' = ex)
<1>1. VolumeOK /\ NoteType
  BY DEF ExplorerInv
<1>2. ASSUME NEW c, NEW n \in AnyName, NEW t \in Text, Written(c, n, t) # NONE, vol' = Written(c, n, t)
      PROVE  VolumeOK' /\ ChildrenStay
  <2>1. PICK s : FileSlot(c, s, n) /\ Written(c, n, t) = Put(c, s, File(n, t))
    BY <1>1, <1>2, WrittenIs
  <2>. QED
    BY <1>1, <1>2, <2>1, PutKeeps
<1>3. CASE Save
  <2>. DEFINE c == Resolve(Front(note.path))
              v == Written(c, Last(note.path), note.text)
  <2>1. Last(note.path) \in AnyName /\ note.text \in Text
    <3>1. note.path \in Seq(AnyName) /\ note.path # <<>> /\ note.text \in Text
      BY <1>1 DEF NoteType
    <3>. QED
      BY <3>1, FrontType
  <2>2. CASE v = NONE
    <3>1. vol' = vol /\ ex' = ex /\ UNCHANGED <<note, read>>
      BY <1>3, <2>2 DEF Save
    <3>. QED
      BY <1>1, <3>1, VolumeOKStays
  <2>3. CASE v # NONE
    <3>1. vol' = v /\ Unseen /\ UNCHANGED <<note, read>>
      BY <1>3, <2>3 DEF Save, Changed
    <3>. QED
      BY <1>2, <2>1, <2>3, <3>1
  <2>. QED
    BY <2>2, <2>3
<1>4. ASSUME NEW c \in DOMAIN vol, NEW n \in Names, ShellMkdir(c, n)
      PROVE  VolumeOK' /\ ChildrenStay /\ UNCHANGED <<note, read>> /\ Unseen
  BY <1>1, <1>4, MkdirKeeps DEF ShellMkdir
<1>5. ASSUME NEW c \in DOMAIN vol, NEW n \in Names, NEW t \in Texts, ShellWrite(c, n, t)
      PROVE  VolumeOK' /\ ChildrenStay /\ UNCHANGED <<note, read>> /\ Unseen
  <2>1. n \in AnyName /\ t \in Text
    BY TextsAssumption DEF AnyName
  <2>2. /\ Written(c, n, t) # NONE /\ vol' = Written(c, n, t)
        /\ UNCHANGED <<note, read>> /\ Unseen
    BY <1>5 DEF ShellWrite, Changed
  <2>. QED
    BY <1>2, <2>1, <2>2
<1>6. ASSUME NEW c \in DOMAIN vol, NEW s \in Slot, ShellRm(c, s)
      PROVE  VolumeOK' /\ ChildrenStay /\ UNCHANGED <<note, read>> /\ Unseen
  BY <1>1, <1>6, RmKeeps DEF ShellRm
<1>. QED
  BY <1>3, <1>4, <1>5, <1>6 DEF ShellNext

LEMMA ExplorerStepKeeps == ExplorerInv /\ [ExplorerNext]_explorerVars => ExplorerInv'
<1>. SUFFICES ASSUME ExplorerInv, [ExplorerNext]_explorerVars PROVE ExplorerInv'
  OBVIOUS
<1>1. CASE ListNext
  <2>1. vol' = vol
    BY <1>1, ListLeavesVolume
  <2>2. VolumeOK' /\ ScreenType' /\ ListingIsCurrent'
    BY <1>1, <2>1, ListStepsKeep, VolumeOKStays DEF ExplorerInv, VolumeOK
  <2>3. CASE UNCHANGED <<note, read>>
    <3>1. NoteType' /\ ReadIsShown'
      BY <2>3, NoteStays DEF ExplorerInv
    <3>. QED
      BY <2>2, <3>1 DEF ExplorerInv
  <2>4. CASE \E fails \in BOOLEAN : OpenFile(fails)
    <3>1. NoteType' /\ ReadIsShown'
      BY <2>4, OpenKeeps DEF ExplorerInv, VolumeOK
    <3>. QED
      BY <2>2, <3>1 DEF ExplorerInv
  <2>. QED
    BY <1>1, <2>3, <2>4, ListLeavesNote
<1>2. CASE Insert \/ Backspace \/ DeleteChar \/ NewFile \/ (\E to \in 0 .. NoteMax : MoveCaret(to))
  <2>1. vol' = vol /\ ex' = ex
    BY <1>2, KeysLeaveVolume
  <2>2. NoteType' /\ ReadIsShown'
    BY <1>2, NoteStepsKeep DEF ExplorerInv
  <2>3. VolumeOK'
    BY <2>1, VolumeOKStays DEF ExplorerInv
  <2>4. ScreenType' /\ ListingIsCurrent'
    BY <2>1, ShownBefore DEF ExplorerInv, ScreenType, ScreenRecord
  <2>. QED
    BY <2>2, <2>3, <2>4 DEF ExplorerInv
<1>3. CASE Save \/ ShellNext
  <2>1. /\ VolumeOK' /\ UNCHANGED <<note, read>>
        /\ Unseen \/ (vol' = vol /\ ex' = ex)
    BY <1>3, VolumeSteps
  <2>2. NoteType' /\ ReadIsShown'
    BY <2>1, NoteStays DEF ExplorerInv
  <2>3. CASE Unseen
    <3>1. /\ ex' \in ScreenRecord /\ ex'.seen = FALSE /\ ex'.sel = ex.sel /\ ex'.rows = ex.rows
      BY <2>3 DEF Unseen, ExplorerInv, ScreenType, ScreenRecord
    <3>2. ScreenType' /\ ListingIsCurrent'
      BY <3>1 DEF ExplorerInv, ScreenType, ScreenRecord, RowType, ListingIsCurrent
    <3>. QED
      BY <2>1, <2>2, <3>2 DEF ExplorerInv
  <2>4. CASE vol' = vol /\ ex' = ex
    <3>1. ScreenType' /\ ListingIsCurrent'
      BY <2>4, ShownBefore DEF ExplorerInv, ScreenType, ScreenRecord
    <3>. QED
      BY <2>1, <2>2, <3>1 DEF ExplorerInv
  <2>. QED
    BY <2>1, <2>3, <2>4
<1>4. CASE UNCHANGED explorerVars
  <2>1. vol' = vol /\ ex' = ex /\ note' = note /\ read' = read
    BY <1>4 DEF explorerVars
  <2>2. NoteType' /\ ReadIsShown'
    BY <2>1, NoteStays DEF ExplorerInv
  <2>3. VolumeOK'
    BY <2>1, VolumeOKStays DEF ExplorerInv
  <2>4. ScreenType' /\ ListingIsCurrent'
    BY <2>1, ShownBefore DEF ExplorerInv, ScreenType, ScreenRecord
  <2>. QED
    BY <2>2, <2>3, <2>4 DEF ExplorerInv
<1>. QED
  BY <1>1, <1>2, <1>3, <1>4 DEF ExplorerNext, NoteNext

LEMMA ExplorerIsRight == ExplorerSpec => []ExplorerInv
BY ExplorerStarts, ExplorerStepKeeps, PTL DEF ExplorerSpec

(* The rows are those of the directory as it is now, or are older than the *)
(* generation (wm.cpp:1750), for every volume, size and history.           *)
THEOREM RowsAreCurrent == ExplorerSpec => []ListingIsCurrent
<1>1. ExplorerInv => ListingIsCurrent
  BY DEF ExplorerInv
<1>. QED
  BY <1>1, ExplorerIsRight, PTL
(* Every cluster of a directory but the root's belongs to one entry; the   *)
(* list has a selected row, the text fits its buffer and the caret the     *)
(* text, whatever was made, removed, typed or read.                        *)
THEOREM WindowsFitTheirBuffers == ExplorerSpec => []ExplorerTypeOK
<1>1. ExplorerInv => ExplorerTypeOK
  <2>. SUFFICES ASSUME ExplorerInv PROVE ExplorerTypeOK
    OBVIOUS
  <2>1. VolumeType /\ Tree /\ ScreenType /\ NoteType
    BY DEF ExplorerInv, VolumeOK
  <2>2. ASSUME NEW c \in DOMAIN vol
        PROVE  Cardinality({p \in (DOMAIN vol) \X Slot :
                  vol[p[1]][p[2]] # NONE /\ vol[p[1]][p[2]].cl = c}) = IF c = Root THEN 0 ELSE 1
    <3>. DEFINE at == {p \in (DOMAIN vol) \X Slot : vol[p[1]][p[2]] # NONE /\ vol[p[1]][p[2]].cl = c}
    <3>1. c \in Clusters
      BY <2>1 DEF VolumeType
    <3>2. ASSUME NEW p
          PROVE  p \in at <=> \E d, s : p = <<d, s>> /\ DirAt(d, s, c)
      BY DEF DirAt, Used
    <3>. HIDE DEF at
    <3>3. CASE c = Root
      <4>1. at = {}
        BY <2>1, <3>1, <3>2, <3>3 DEF Tree
      <4>. QED
        BY <3>3, <4>1, FS_EmptySet DEF at
    <3>4. CASE c # Root
      <4>1. PICK d, s : DirAt(d, s, c)
        BY <2>1, <3>4 DEF Tree
      <4>2. at = {<<d, s>>}
        BY <2>1, <3>1, <3>2, <4>1 DEF Tree
      <4>3. Cardinality(at) = 1
        BY <4>2, FS_Singleton
      <4>. QED
        BY <3>4, <4>3 DEF at
    <3>. QED
      BY <3>3, <3>4
  <2>3. ex.sel \in DOMAIN ex.rows /\ Len(ex.rows) <= MaxRows /\ ex.dir \in Clusters
    BY <2>1 DEF ScreenType, ScreenRecord
  <2>. QED
    BY <2>1, <2>2, <2>3 DEF ExplorerTypeOK, VolumeType, NoteType
<1>. QED
  BY <1>1, ExplorerIsRight, PTL

-----------------------------------------------------------------------------
(* The path and the directory.                                             *)

PathStep ==
    Resolve(ex.path) = ex.dir =>
       \/ (Resolve(ex.path) = ex.dir)'
       \/ Resolve(ex.path)' = 0 /\ UNCHANGED <<ex.path, ex.dir>>
       \/ Len(ex.path) >= PathMax /\ ex'.dir # ex.dir
       \/ Selected.name = UP /\ ex'.dir = Root

(* While the volume stays, the path leads where it leads now.              *)
LEMMA PathStays ==
    ASSUME vol' = vol, Resolve(ex'.path) = ex'.dir
    PROVE  PathStep
BY VolumeStays DEF PathStep

LEMMA GoUpFollows ==
    ASSUME ExplorerInv, NEW lost \in BOOLEAN, NEW fails \in BOOLEAN, GoUp(lost, fails)
    PROVE  PathStep
<1>. DEFINE p == IF ex.path = <<>> THEN <<>> ELSE Front(ex.path)
            c == IF lost \/ Resolve(p) = 0 THEN Root ELSE Resolve(p)
            e == [ex EXCEPT !.path = p, !.dir = c]
<1>1. /\ ex \in ScreenRecord /\ ex.sel # 0 /\ VolumeType /\ ex.path \in Seq(AnyName)
  BY DEF ExplorerInv, VolumeOK, ScreenType, ScreenRecord
<1>2. p \in Seq(AnyName)
  BY <1>1, FrontType
<1>3. c \in Clusters
  <2>. HIDE DEF p
  <2>. QED
    BY <1>1, <1>2, ResolveType, Sizes
<1>4. ex' = Refreshed(e, FALSE, fails) /\ Selected.name = UP /\ vol' = vol
  BY DEF GoUp
<1>5. c = Root \/ c = Resolve(p)
  OBVIOUS
<1>. HIDE DEF p, c
<1>6. e \in ScreenRecord /\ e.sel # 0 /\ e.path = p /\ e.dir = c
  BY <1>1, <1>2, <1>3 DEF ScreenRecord
<1>. HIDE DEF e
<1>7. IsRefresh(ex', e)
  BY <1>1, <1>4, <1>6, RefreshedIs
<1>8. ex'.path = p /\ ex'.dir = c
  BY <1>6, <1>7 DEF IsRefresh
<1>9. CASE c = Root
  BY <1>4, <1>8, <1>9 DEF PathStep
<1>10. CASE c = Resolve(p)
  BY <1>4, <1>8, <1>10, PathStays
<1>. QED
  BY <1>5, <1>9, <1>10

LEMMA EnterFollows ==
    ASSUME ExplorerInv, NEW lost \in BOOLEAN, NEW fails \in BOOLEAN, Enter(lost, fails),
           Resolve(ex.path) = ex.dir
    PROVE  PathStep
<1>. DEFINE n == Selected.name
            c == Child(ex.dir, n)
<1>1. /\ ex \in ScreenRecord /\ ex.sel # 0 /\ VolumeType /\ Tree /\ ex.path \in Seq(AnyName)
      /\ ex.rows[ex.sel] \in RowType
  BY DEF ExplorerInv, VolumeOK, ScreenType, ScreenRecord
<1>2. n \in AnyName /\ vol' = vol
  BY <1>1 DEF Selected, RowType, Enter
<1>3. CASE lost \/ c = 0
  <2>1. ex' = [ex EXCEPT !.rows = Only(ERROR), !.sel = 1]
    BY <1>3 DEF Enter
  <2>2. ex'.path = ex.path /\ ex'.dir = ex.dir
    BY <1>1, <2>1 DEF ScreenRecord
  <2>. QED
    BY <1>2, <2>2, PathStays
<1>4. CASE ~(lost \/ c = 0)
  <2>1. PICK p \in Continued(ex.path, n) :
           ex' = Refreshed([ex EXCEPT !.path = p, !.dir = c], FALSE, fails)
    BY <1>4 DEF Enter
  <2>. DEFINE e == [ex EXCEPT !.path = p, !.dir = c]
  <2>2. p \in Seq(AnyName)
    BY <1>1, <1>2, ContinuedType
  <2>3. /\ c \in Clusters
        /\ \E s \in Used(ex.dir) : vol[ex.dir][s].cl = c
    BY <1>1, <1>4, ChildType
  <2>4. c # ex.dir
    BY <1>1, <2>3 DEF Tree, DirAt
  <2>5. e \in ScreenRecord /\ e.sel # 0 /\ e.path = p /\ e.dir = c
    <3>. HIDE DEF c
    <3>. QED
      BY <1>1, <2>2, <2>3 DEF ScreenRecord
  <2>6. ex' = Refreshed(e, FALSE, fails)
    BY <2>1
  <2>. HIDE DEF e
  <2>7. IsRefresh(ex', e)
    BY <1>1, <2>5, <2>6, RefreshedIs
  <2>8. ex'.path = p /\ ex'.dir = c
    BY <2>5, <2>7 DEF IsRefresh
  <2>9. PICK l \in Nat : l = Len(ex.path)
    BY <1>1
  <2>10. CASE l < PathMax
    <3>1. p = Append(ex.path, n)
      BY <2>9, <2>10 DEF Continued
    <3>2. Resolve(p) = c
      BY <1>1, <1>2, <3>1, ResolveAppend
    <3>. QED
      BY <1>2, <2>8, <3>2, PathStays
  <2>11. CASE ~(l < PathMax)
    <3>1. Len(ex.path) >= PathMax
      BY <2>9, <2>11, Sizes
    <3>. QED
      BY <2>4, <2>8, <3>1 DEF PathStep
  <2>. QED
    BY <2>10, <2>11
<1>. QED
  BY <1>3, <1>4

(* The other steps of the explorer stay in the directory.                  *)
LEMMA OthersStay ==
    ASSUME ExplorerInv, ListNext
    PROVE  \/ ex'.path = ex.path /\ ex'.dir = ex.dir
           \/ \E lost, fails \in BOOLEAN : GoUp(lost, fails) \/ Enter(lost, fails)
<1>1. ex \in ScreenRecord /\ ex.sel # 0 /\ VolumeType
  BY DEF ExplorerInv, VolumeOK, ScreenType
<1>2. CASE HideExplorer \/ BringBack \/ \E i \in 1 .. MaxRows : Select(i)
  BY <1>1, <1>2 DEF HideExplorer, BringBack, Select, ScreenRecord
<1>3. ASSUME NEW fails \in BOOLEAN, OpenFile(fails)
      PROVE  ex' = ex
  BY <1>3 DEF OpenFile
<1>4. ASSUME NEW e \in ScreenRecord, e.sel # 0, e.path = ex.path, e.dir = ex.dir, NEW fails \in BOOLEAN,
             ex' = Refreshed(e, TRUE, fails)
      PROVE  ex'.path = ex.path /\ ex'.dir = ex.dir
  <2>1. IsRefresh(ex', e)
    BY <1>1, <1>4, RefreshedIs
  <2>. QED
    BY <1>4, <2>1 DEF IsRefresh
<1>5. ASSUME NEW fails \in BOOLEAN, ShowExplorer(fails)
      PROVE  ex'.path = ex.path /\ ex'.dir = ex.dir
  <2>. DEFINE e == [ex EXCEPT !.visible = TRUE]
  <2>1. e \in ScreenRecord /\ e.sel # 0 /\ e.path = ex.path /\ e.dir = ex.dir
    BY <1>1 DEF ScreenRecord
  <2>2. ex' = Refreshed(e, TRUE, fails)
    BY <1>5 DEF ShowExplorer
  <2>. QED
    BY <1>4, <2>1, <2>2
<1>6. ASSUME NEW fails \in BOOLEAN, ListTick(fails)
      PROVE  ex'.path = ex.path /\ ex'.dir = ex.dir
  BY <1>1, <1>4, <1>6 DEF ListTick
<1>. QED
  BY <1>2, <1>3, <1>5, <1>6 DEF ListNext

(* The path, under another name.                                           *)
PathNamed == \A p : p = ex.path => Resolve(p) = Resolve(ex.path)

LEMMA PathIsNamed == PathNamed
  BY DEF PathNamed

LEMMA VolumeFollows ==
    ASSUME ExplorerInv, Save \/ ShellNext, Resolve(ex.path) = ex.dir
    PROVE  PathStep
<1>1. /\ VolumeOK' /\ ChildrenStay
      /\ Unseen \/ (vol' = vol /\ ex' = ex)
  BY VolumeSteps
<1>2. /\ ex \in ScreenRecord /\ VolumeType /\ ex.path \in Seq(AnyName) /\ ex.dir \in Clusters
  BY DEF ExplorerInv, VolumeOK, ScreenType, ScreenRecord
<1>3. ex'.path = ex.path /\ ex'.dir = ex.dir
  BY <1>1, <1>2 DEF Unseen, ScreenRecord
<1>4. PICK p : p = ex.path
  OBVIOUS
<1>5. Resolve(ex.path)' = Resolve(p)'
  <2>1. PathNamed'
    BY PathIsNamed, PTL
  <2>2. p = ex'.path
    BY <1>3, <1>4
  <2>. QED
    BY <2>1, <2>2 DEF PathNamed
<1>6. Len(p) \in Nat /\ Resolve(p) = ex.dir /\ Resolve(p) # 0
  BY <1>2, <1>4, Sizes
<1>7. \A a : Child(0, a) = 0 /\ Child(0, a)' = 0
  <2>1. 0 \notin DOMAIN vol /\ 0 \notin DOMAIN vol'
    BY <1>1, <1>2, Sizes DEF VolumeOK, VolumeType, Clusters
  <2>. QED
    BY <2>1 DEF Child, Named, Used
<1>8. Resolve(p)' \in {Resolve(p), 0}
  BY <1>1, <1>6, <1>7, ResolveMoves DEF ChildrenStay
<1>. QED
  BY <1>3, <1>5, <1>6, <1>8 DEF PathStep

LEMMA PathIsKept == ExplorerInv /\ [ExplorerNext]_explorerVars => [PathStep]_explorerVars
<1>. SUFFICES ASSUME ExplorerInv, ExplorerNext, Resolve(ex.path) = ex.dir PROVE PathStep
  BY DEF PathStep
<1>1. CASE ListNext
  <2>1. vol' = vol
    BY <1>1, ListLeavesVolume
  <2>2. CASE ex'.path = ex.path /\ ex'.dir = ex.dir
    BY <2>1, <2>2, PathStays
  <2>3. CASE \E lost, fails \in BOOLEAN : GoUp(lost, fails) \/ Enter(lost, fails)
    BY <2>3, GoUpFollows, EnterFollows
  <2>. QED
    BY <1>1, <2>2, <2>3, OthersStay
<1>2. CASE Insert \/ Backspace \/ DeleteChar \/ NewFile \/ (\E to \in 0 .. NoteMax : MoveCaret(to))
  <2>1. vol' = vol /\ ex' = ex
    BY <1>2, KeysLeaveVolume
  <2>. QED
    BY <2>1, PathStays
<1>3. CASE Save \/ ShellNext
  BY <1>3, VolumeFollows
<1>. QED
  BY <1>1, <1>2, <1>3 DEF ExplorerNext, NoteNext

(* The path leads to the directory that is listed until a removal, a path  *)
(* that is full (wm.cpp:1002) or a ".." that fails parts them, for every   *)
(* tree of directories and length of the path.                             *)
THEOREM PathLeadsToTheRows == ExplorerSpec => PathFollows
BY ExplorerIsRight, PathIsKept, PTL DEF ExplorerSpec, PathFollows, PathStep

-----------------------------------------------------------------------------
(* What was read and not edited.                                           *)

SaveStep ==
    Save /\ read # NONE /\ read = FileText(note.path)
      /\ Len(read) <= NoteMax /\ CR \notin ToSet(read) => vol' = vol

LEMMA SaveIsIdle == ExplorerInv => SaveStep
<1>. SUFFICES ASSUME ExplorerInv, Save, read # NONE, read = FileText(note.path),
                     Len(read) <= NoteMax, CR \notin ToSet(read)
              PROVE  vol' = vol
  BY DEF SaveStep
<1>. DEFINE c == Resolve(Front(note.path))
            n == Last(note.path)
            v == Written(c, n, note.text)
<1>1. CASE v = NONE
  BY <1>1 DEF Save
<1>2. CASE v # NONE
  <2>1. vol' = v
    BY <1>2 DEF Save, Changed
  <2>2. note.text = read
    BY ShownType DEF ExplorerInv, ReadIsShown
  <2>3. PICK s : /\ FileSlot(c, s, n) /\ v = Put(c, s, File(n, note.text))
                 /\ \A r \in Used(c) : vol[c][r].name = n => r = s
    BY <1>2, WrittenIs DEF ExplorerInv
  <2>4. PICK r \in Used(c) : vol[c][r].name = n /\ vol[c][r].cl = 0 /\ read = vol[c][r].text
    BY FileTextIs
  <2>5. r = s
    BY <2>3, <2>4
  <2>6. c \in DOMAIN vol /\ s \in Slot /\ vol[c][s] \in Entry /\ vol[c] \in [Slot -> {NONE} \cup Entry]
        /\ vol \in [DOMAIN vol -> [Slot -> {NONE} \cup Entry]]
    BY <2>4, <2>5, EntryAt DEF ExplorerInv, VolumeOK, VolumeType
  <2>7. File(n, note.text) = vol[c][s]
    BY <2>2, <2>4, <2>5, <2>6 DEF File, Entry
  <2>8. v = [vol EXCEPT ![c][s] = vol[c][s]]
    BY <2>3, <2>7 DEF Put
  <2>. HIDE DEF c, v
  <2>. QED
    BY <2>1, <2>6, <2>8
<1>. QED
  BY <1>1, <1>2

(* Opening a file and saving it unedited leaves the volume as it was, for  *)
(* every text that the notepad can hold.                                   *)
THEOREM UneditedIsKept == ExplorerSpec => SaveKeepsUnedited
<1>1. ExplorerInv /\ [ExplorerNext]_explorerVars => [SaveStep]_explorerVars
  BY SaveIsIdle
<1>. QED
  BY <1>1, ExplorerIsRight, PTL DEF ExplorerSpec, SaveKeepsUnedited, SaveStep
=============================================================================
