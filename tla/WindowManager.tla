--------------------------- MODULE WindowManager ---------------------------
(***************************************************************************)
(* The window manager (wm.cpp) and the part of the main loop (kernel.c)    *)
(* that hands it events and paints what it asks for.                       *)
(*                                                                         *)
(* One action per event: wm_handle_event with the branch it takes, then    *)
(* wm_take_redraw_flags and what the main loop adds to its pending         *)
(* repaint.  The end of a batch that paints may come after any event; what *)
(* a tick repeats is events of its own.                                    *)
(*                                                                         *)
(* Geometry is left out: a window that is visible may be hit anywhere, a   *)
(* press may be the second of a double click, and a rectangle stands for   *)
(* the windows it was built from.  What the windows contain is the subject *)
(* of Explorer and Shell; themes, the hover highlights (a redraw of all, at  *)
(* any mouse event) and the power button are left out.                     *)
(***************************************************************************)
EXTENDS Naturals, Sequences, FiniteSets, SequencesExt

CONSTANTS
    WinType,    \* WinType[i]: what window i - 1 shows
    Icons       \* windows that have an icon on the desktop

Windows  == 0 .. Len(WinType) - 1
Type(i)  == WinType[i + 1]
TERM     == 0
NOTE     == CHOOSE i \in Windows : Type(i) = "NOTE"
EXPL     == CHOOSE i \in Windows : Type(i) = "EXPL"
IsList(i) == Type(i) \in {"EXPL", "TRASH"}

ASSUME TypesAssumption ==
    /\ WinType \in Seq({"TERM", "DEMO", "NOTE", "EXPL", "TRASH"})
    /\ Type(TERM) = "TERM"
    /\ \A t \in {"NOTE", "EXPL"} : \E i \in Windows : Type(i) = t
    /\ EXPL \in Icons /\ Icons \subseteq Windows
    /\ \A i, j \in Windows : Type(i) = Type(j) => i = j

VARIABLES
    g,          \* the state of wm.cpp
    pending     \* windows in the pending rectangle, or FULL

vars == <<g, pending>>

(* g.rf: redraw flags, where the flag of a window is the window itself.    *)
(* g.dirty: the windows set_dirty_union took in.                           *)
FULL    == Len(WinType)
DIRTY   == FULL + 1
TASKBAR == FULL + 2

Flag(s, f) == [s EXCEPT !.rf = @ \cup f]

-----------------------------------------------------------------------------
(* What the handlers have in common.                                       *)

(* Mutant: the window is appended without being taken out first.           *)
RaisedTwice(z, i) == IF z[Len(z)] = i THEN z ELSE Append(Tail(z), i)

(* bring_to_front: from where it was, every window moves one place down.   *)
Raised(z, i) ==
    IF z[Len(z)] = i THEN z
    ELSE [k \in 1 .. Len(z) |-> IF k = Len(z) THEN i
                                ELSE IF \E j \in 1 .. k : z[j] = i THEN z[k + 1] ELSE z[k]]

(* open_app_window                                                         *)
OpenApp(s, i) ==
    Flag([s EXCEPT !.opened = @ \cup {i}, !.visible = @ \cup {i}, !.active = i,
                   !.z = Raised(@, i), !.showdesk = FALSE, !.mask = {}, !.deskfocus = FALSE], {FULL})

(* pick_next_visible: the lowest number, the terminal if there is none.    *)
NextVisible(s, except) ==
    LET others == s.visible \ {except}
    IN  IF others = {} THEN TERM ELSE CHOOSE i \in others : \A j \in others : i <= j

(* Mutant: a hidden window keeps the keyboard.                             *)
HideKeepsFocus(s, i) == Flag([s EXCEPT !.visible = @ \ {i}], {FULL})

Hide(s, i) ==
    LET hidden == [s EXCEPT !.visible = @ \ {i}]
    IN  Flag([hidden EXCEPT !.active = NextVisible(hidden, i)], {FULL})

Focus(s, i) == Flag([s EXCEPT !.active = i, !.z = Raised(@, i)], {FULL})

(* The mask is read only while the desktop is shown: forgotten otherwise.  *)
ShowDesktopToggle(s) ==
    Flag([s EXCEPT !.mask = IF s.showdesk THEN {} ELSE s.visible,
                   !.visible = IF s.showdesk THEN s.mask ELSE {},
                   !.showdesk = ~@, !.deskfocus = TRUE], {FULL})

(* wm_get_paint_rect: nothing for a window that is not visible.            *)
Rect(s, i)   == {i} \cap s.visible
Dirty(s, is) == Flag([s EXCEPT !.dirty = @ \cup UNION {Rect(s, i) : i \in is}], {DIRTY})

(* explorer_open_selected: a file goes to the notepad, which is shown but  *)
(* not recorded as opened; a directory or ".." is listed in place.         *)
OpenSelected(s, i, what) ==
    IF what = "file"
    THEN Flag([s EXCEPT !.notefocus = TRUE, !.visible = @ \cup {NOTE}, !.active = NOTE,
                        !.z = Raised(@, NOTE), !.deskfocus = FALSE], {NOTE, FULL})
    ELSE Flag(s, {EXPL})

Opens(i) == IF Type(i) = "EXPL" THEN {"file", "dir"} ELSE {"file"}

-----------------------------------------------------------------------------
(* The main loop: flags become a pending repaint, FULL before DIRTY before *)
(* the windows'.                                                           *)

RepaintOf(s) ==
    IF FULL \in s.rf THEN {FULL}
    ELSE IF DIRTY \in s.rf THEN s.dirty
    ELSE s.rf \cap s.visible

(* Nothing is pending unless a flag was set.                               *)
Handled(s) ==
    /\ pending' = IF FULL \in pending \cup RepaintOf(s) THEN {FULL} ELSE pending \cup RepaintOf(s)
    /\ g' = [s EXCEPT !.rf = {}, !.dirty = IF FULL \notin s.rf /\ DIRTY \in s.rf THEN {} ELSE @]

(* repaint_full or repaint_rect, at the end of a batch with a key, a tick  *)
(* or, 10 ms after the last paint, a mouse event.                          *)
Paint ==
    /\ pending # {}
    /\ pending' = {}
    /\ UNCHANGED g

-----------------------------------------------------------------------------
(* EV_MOUSE: the buttons, then the first branch that applies.  The right   *)
(* button acts when it goes down; that it comes up again changes nothing.  *)

Button(l) == [g EXCEPT !.left = l]
Released(l)   == g.left /\ ~l
Pressed(l)    == ~g.left /\ l

(* An icon that is dragged comes first.                                    *)
IconMoved ==
    /\ g.icon # "none"
    /\ Handled(Flag([Button(TRUE) EXCEPT !.icon = "moved"], {DIRTY}))

IconReleased(double) ==
    /\ g.icon # "none" /\ Released(FALSE)
    /\ LET s == [Button(FALSE) EXCEPT !.icon = "none"]
       IN  Handled(IF g.icon = "moved" THEN Flag(s, {DIRTY})
                  ELSE IF double THEN OpenApp(s, g.iconsel) ELSE s)

(* A press on an icon that did not move yet lets the event through.        *)
PastIcon(l) == g.icon = "none" \/ (g.icon = "pressed" /\ l)

(* Resizing and dragging belong to the active window alone.                *)
ResizeMoves ==
    /\ PastIcon(TRUE) /\ g.active \in g.resize
    /\ Handled(Dirty([Button(TRUE) EXCEPT !.deskfocus = FALSE], {g.active}))

ResizeEnds ==
    /\ PastIcon(FALSE) /\ g.active \in g.resize /\ Released(FALSE)
    /\ Handled([Button(FALSE) EXCEPT !.resize = @ \ {g.active}, !.deskfocus = FALSE])

DragMoves ==
    /\ PastIcon(TRUE) /\ g.active \in g.drag \ g.resize
    /\ Handled(Dirty([Button(TRUE) EXCEPT !.deskfocus = FALSE], {g.active}))

(* At an edge the window is maximized or snapped; it is redrawn anyway.    *)
DragEnds ==
    /\ PastIcon(FALSE) /\ g.active \in g.drag \ g.resize /\ Released(FALSE)
    /\ LET s == [Button(FALSE) EXCEPT !.drag = @ \ {g.active}, !.deskfocus = FALSE]
       IN  Handled(Flag(Dirty(s, {g.active}), {TASKBAR}))

Free(l) == PastIcon(l) /\ (g.active \in g.drag \cup g.resize => ~l /\ ~g.left)

(* topmost_at returns the window's number, -1 for the desktop: the test    *)
(* for zero opens the desktop's menu over the terminal and nowhere else.   *)
RightPress(l) ==
    /\ Free(l) /\ TERM \in g.visible
    /\ Handled(Flag([Button(l) EXCEPT !.menu = TRUE, !.deskfocus = TRUE], {FULL}))

OtherMove(l, hover) ==
    /\ Free(l) /\ ~Pressed(l)
    /\ Handled(Flag(Button(l), IF hover THEN {FULL} ELSE {}))

Press == Free(TRUE) /\ Pressed(TRUE)

(* Items 0 and 1 and a press beside the menu only close it; 2 opens the    *)
(* explorer, 3 shows the desktop, 4 changes the theme.                     *)
MenuPress(item) ==
    /\ Press /\ g.menu
    /\ LET s == [Button(TRUE) EXCEPT !.menu = FALSE]
       IN  Handled(CASE item = "explorer" -> OpenApp(s, EXPL)
                     [] item = "desktop"  -> ShowDesktopToggle(s)
                     [] item = "theme"    -> Flag(s, {FULL})
                     [] OTHER             -> Flag([s EXCEPT !.deskfocus = TRUE], {FULL}))

DockPress(button) ==
    /\ Press /\ ~g.menu
    /\ LET s == Button(TRUE)
           unfocused == Flag([s EXCEPT !.deskfocus = FALSE], {FULL})
       IN  Handled(CASE button = "desktop" -> ShowDesktopToggle(s)
                     [] button = "theme"   -> unfocused
                     [] button = "start"   -> [unfocused EXCEPT !.start = ~@])

(* Icons are tested before windows, also where a window covers them.       *)
IconPress(i) ==
    /\ Press /\ ~g.menu /\ i \in Icons
    /\ LET s == [Button(TRUE) EXCEPT !.deskfocus = TRUE, !.iconsel = i, !.icon = "pressed"]
       IN  Handled(IF g.iconsel # i THEN Flag(s, {FULL}) ELSE s)

(* The button of an opened window in the dock.                             *)
AppPress(i) ==
    /\ Press /\ ~g.menu /\ i \in g.opened
    /\ LET s == [Button(TRUE) EXCEPT !.deskfocus = FALSE, !.showdesk = FALSE, !.mask = {}]
       IN  Handled(IF i \in g.visible /\ i = g.active THEN Hide(s, i)
                  ELSE Focus([s EXCEPT !.visible = @ \cup {i}], i))

StartItem(i) ==
    /\ Press /\ ~g.menu /\ g.start
    /\ Handled(OpenApp([Button(TRUE) EXCEPT !.start = FALSE], i))

(* A press beside the start menu closes it and goes on.                    *)
PastMenus ==
    LET s == Button(TRUE)
    IN  IF g.start THEN Flag([s EXCEPT !.start = FALSE], {FULL}) ELSE s

(* Mutant: the frame of the window that was active is left as it was.      *)
ActivatedAlone(s, i) ==
    LET top == [s EXCEPT !.deskfocus = FALSE, !.active = i, !.z = Raised(@, i)]
    IN  IF s.active = i THEN top ELSE Flag(Dirty(top, {i}), {TASKBAR})

(* The press makes the window active, raises it and redraws both.          *)
Activated(s, i) ==
    LET top == [s EXCEPT !.deskfocus = FALSE, !.active = i, !.z = Raised(@, i)]
    IN  IF s.active = i THEN top ELSE Flag(Dirty(top, {s.active, i}), {TASKBAR})

NoTextFocus(s, note) == [s EXCEPT !.textfocus = FALSE, !.notefocus = @ /\ ~note]

ClosePress(i) ==
    /\ Press /\ ~g.menu /\ i \in g.visible
    /\ LET s == Activated(PastMenus, i)
       IN  Handled(Hide([s EXCEPT !.opened = @ \ {i},
                                  !.textfocus = @ /\ Type(i) # "DEMO",
                                  !.notefocus = @ /\ i # NOTE], i))

MinPress(i) ==
    /\ Press /\ ~g.menu /\ i \in g.visible
    /\ Handled(Hide(Activated(PastMenus, i), i))

(* The maximize button, or the second click on a title.                    *)
MaxPress(i) ==
    /\ Press /\ ~g.menu /\ i \in g.visible
    /\ Handled(Flag(Dirty(Activated(PastMenus, i), {i}), {TASKBAR}))

EdgePress(i) ==
    /\ Press /\ ~g.menu /\ i \in g.visible
    /\ Handled(NoTextFocus([Activated(PastMenus, i) EXCEPT !.resize = @ \cup {i}], TRUE))

TitlePress(i) ==
    /\ Press /\ ~g.menu /\ i \in g.visible
    /\ Handled(NoTextFocus([Activated(PastMenus, i) EXCEPT !.drag = @ \cup {i}], i # NOTE))

(* Inside the window: the demo's text box takes or loses the focus, the    *)
(* notepad takes it, a list selects a row, the terminal drops both.        *)
ClientPress(i, takes) ==
    /\ Press /\ ~g.menu /\ i \in g.visible
    /\ LET s == Activated(PastMenus, i)
       IN  Handled(CASE Type(i) = "DEMO" -> Flag([s EXCEPT !.textfocus = takes], {i})
                     [] i = NOTE /\ takes -> Flag([s EXCEPT !.notefocus = TRUE, !.textfocus = FALSE], {i})
                     [] IsList(i) /\ takes -> Flag(s, {i})
                     [] Type(i) = "TERM" -> NoTextFocus(s, TRUE)
                     [] OTHER            -> s)

(* A press on the row that is selected already opens it.                   *)
RowPress(i, what) ==
    /\ Press /\ ~g.menu /\ i \in g.visible /\ IsList(i) /\ what \in Opens(i)
    /\ Handled(OpenSelected(Activated(PastMenus, i), i, what))

DesktopPress ==
    /\ Press /\ ~g.menu
    /\ Handled(Flag([PastMenus EXCEPT !.deskfocus = TRUE], {FULL}))

MouseEvent ==
    \/ IconMoved \/ ResizeMoves \/ ResizeEnds \/ DragMoves \/ DragEnds
    \/ \E l \in BOOLEAN : RightPress(l)
    \/ \E l, hover \in BOOLEAN : OtherMove(l, hover)
    \/ \E double \in BOOLEAN : IconReleased(double)
    \/ \E item \in {"explorer", "desktop", "theme", "beside"} : MenuPress(item)
    \/ \E button \in {"desktop", "theme", "start"} : DockPress(button)
    \/ DesktopPress
    \/ \E i \in Windows :
        \/ IconPress(i) \/ AppPress(i) \/ StartItem(i)
        \/ ClosePress(i) \/ MinPress(i) \/ MaxPress(i) \/ EdgePress(i) \/ TitlePress(i)
        \/ \E takes \in BOOLEAN : ClientPress(i, takes)
        \/ \E what \in {"file", "dir"} : RowPress(i, what)

-----------------------------------------------------------------------------
(* EV_CHAR, EV_KEY and EV_TICK.                                            *)

ListActive == g.active \in g.visible /\ IsList(g.active)
NoteActive == NOTE \in g.visible /\ g.active = NOTE /\ g.notefocus
DeskEnter(c) == g.deskfocus /\ c = "enter"

(* The window a character or key goes to: a text box keeps its focus also  *)
(* when another window is active.  What nobody takes is the shell's.       *)
Target ==
    LET demos == {i \in g.visible : Type(i) = "DEMO" /\ g.textfocus}
    IN  IF ListActive THEN g.active
        ELSE IF NoteActive THEN NOTE
        ELSE IF demos # {} THEN CHOOSE i \in demos : TRUE
        ELSE TERM

(* Enter opens the selected icon, or the selected row of a list.           *)
EnterOnDesktop ==
    /\ DeskEnter("enter")
    /\ Handled(OpenApp(g, g.iconsel))

EnterOnList(what) ==
    /\ ~g.deskfocus /\ ListActive /\ what \in Opens(g.active)
    /\ Handled(Flag(OpenSelected(g, g.active, what), {g.active}))

(* Ctrl+O                                                                  *)
NoteOpens ==
    /\ ~ListActive /\ NoteActive
    /\ Handled(OpenApp(g, EXPL))

(* Any other character or key changes what its window shows.               *)
CharOrKey == Handled(IF ListActive THEN g ELSE Flag(g, {Target}))
MoveInList == ListActive /\ Handled(Flag(g, {g.active}))

(* A tick refreshes the explorer when the file system has changed.         *)
Tick(changed) ==
    Handled(IF changed /\ EXPL \in g.visible THEN Flag(g, {EXPL}) ELSE g)

KeyEvent == EnterOnDesktop \/ NoteOpens \/ CharOrKey \/ MoveInList
            \/ \E what \in {"file", "dir"} : EnterOnList(what)

-----------------------------------------------------------------------------
Init ==
    /\ g = [visible |-> {i \in Windows : ~IsList(i)}, opened |-> {i \in Windows : ~IsList(i)},
            active |-> TERM, z |-> Raised([i \in 1 .. Len(WinType) |-> i - 1], TERM),
            drag |-> {}, resize |-> {}, showdesk |-> FALSE, mask |-> {}, deskfocus |-> TRUE,
            menu |-> FALSE, start |-> FALSE, icon |-> "none", iconsel |-> EXPL,
            left |-> FALSE, notefocus |-> TRUE, textfocus |-> FALSE,
            rf |-> {FULL}, dirty |-> {}]
    /\ pending = {}

Next == MouseEvent \/ KeyEvent \/ (\E changed \in BOOLEAN : Tick(changed)) \/ Paint

Spec == Init /\ [][Next]_vars

-----------------------------------------------------------------------------
(* Properties.                                                             *)

(* Every field keeps its range; z-order holds every window exactly once.   *)
TypeOK ==
    /\ {g.visible, g.opened, g.drag, g.resize, g.mask, g.dirty} \subseteq SUBSET Windows
    /\ g.active \in Windows /\ g.iconsel \in Windows
    /\ Len(g.z) = Len(WinType) /\ ToSet(g.z) = Windows
    /\ g.icon \in {"none", "pressed", "moved"}
    /\ pending \subseteq Windows \cup {FULL}

(* The window that gets the keyboard is visible, unless none is: through   *)
(* closing, minimizing, show desktop and back, and the opens by keyboard.  *)
FocusIsVisible == g.visible # {} => g.active \in g.visible

(* How a window looks: whether it is on the screen, and with the frame of  *)
(* the one that gets the keyboard.                                         *)
Look(i) == [shown |-> i \in g.visible, framed |-> i \in g.visible /\ i = g.active]

(* No event changes that without a pending repaint that covers the window, *)
(* whichever of flags, dirty rectangle and batch it went through: what is  *)
(* on the screen after the last paint is what the user acts on.            *)
ChangesAreRepainted ==
    [][\A i \in Windows : Look(i)' # Look(i) => pending' \cap {FULL, i} # {}]_vars

(* wm.cpp:1668: opened "tracks running app, even if minimized": the dock   *)
(* has a button for every window on the screen.                            *)
RunningIsInDock == g.visible \subseteq g.opened
=============================================================================
