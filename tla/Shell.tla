-------------------------------- MODULE Shell --------------------------------
(***************************************************************************)
(* The shell's line editor, history and current directory (shell.c) on the *)
(* text screen it shares with the programs it starts (terminal.c).         *)
(*                                                                         *)
(* The shell runs on the main loop's thread, one event at a time, and can  *)
(* be interrupted anywhere; a program writes through SYS_WRITE, in a trap, *)
(* which cannot.  So an event leaves what it has to output in todo, which  *)
(* is then written a memory access at a time, and a program's output comes *)
(* between any two of them.                                                *)
(*                                                                         *)
(* Left out: how a line is split into a command and its arguments (what    *)
(* the command turns out to be is chosen), drives other than C, what the   *)
(* commands do to the volume (Fat32) and to tasks (Scheduler, Memory), the *)
(* wording of their output, and the 32 names a path is cut off at.         *)
(***************************************************************************)
EXTENDS Naturals, Sequences, SequencesExt

CONSTANTS
    W, H,       \* TERM_W, TERM_H
    LINE_MAX, HIST_MAX,
    Chars,      \* characters that can be typed
    Commands,   \* commands[]
    Dirs,       \* the directories, by their path
    CdArgs      \* what cd may be called with

ASSUME SizesAssumption == {W, H, LINE_MAX, HIST_MAX} \subseteq Nat \ {0}
(* The longest of commands[] is far shorter than a line.                   *)
ASSUME CommandsAssumption == \A c \in Commands : c \in Seq(Chars) /\ Len(c) <= LINE_MAX - 1
ASSUME ArgsAssumption == \A a \in CdArgs : a.names \in Seq(STRING)
ASSUME DirsAssumption ==
    /\ <<>> \in Dirs /\ Dirs \subseteq Seq(STRING)
    /\ \A d \in Dirs : d # <<>> => Front(d) \in Dirs

VARIABLES
    line, cur, drawn,       \* the line and the caret in it; characters on the screen
    px, py,                 \* prompt_x, prompt_y
    cwd, path,              \* the directory of cwd_cluster; cwd_path
    hist, head, count, nav, \* the history: a ring, nav lines back (-1: none) plus one
    t,                      \* the screen: g_cells, cx, cy
    todo, pc, reg,          \* output to come, where term_putc is, what it has read
    running,                \* a program was started
    quiet, past             \* for the properties: no program has written; the newest lines

editor == <<line, cur, drawn>>
prompt == <<px, py>>
where  == <<cwd, path>>
ring   == <<hist, head, count, nav, past>>
screen == <<t, pc, reg>>
vars   == <<editor, prompt, where, ring, screen, todo, running, quiet>>

(* What todo holds besides characters.                                     *)
NL     == "newline"
CLEAR  == "clear"     \* term_clear
MARK   == "mark"      \* the end of prompt
REDRAW == "redraw"    \* redraw_line
HOME   == "home"      \* term_set_cursor to the prompt
SHOW   == "show"      \* term_set_cursor to the caret
BLANK  == " "

ASSUME CharsAssumption == Chars \cap {NL, CLEAR, MARK, REDRAW, HOME, SHOW} = {}

Row   == 0 .. H - 1
Col   == 0 .. W - 1
Blank == [y \in Row |-> [x \in Col |-> BLANK]]
Min2(a, b) == IF a < b THEN a ELSE b

-----------------------------------------------------------------------------
(* term_putc as a whole: the program's, in a trap.                         *)

(* What programs wrote over is not kept: no property asks for it.          *)
Cell(s, x, y, c) == IF quiet THEN [s.cells EXCEPT ![y][x] = c] ELSE Blank

(* scroll_if_needed, where y is the row it read.                           *)
Scrolled(s, y) ==
    IF y < H THEN s
    ELSE [s EXCEPT !.cells = [r \in Row |-> IF r < H - 1 THEN s.cells[r + 1] ELSE Blank[r]],
                   !.cy = H - 1]

Newline(s) == Scrolled([s EXCEPT !.cx = 0, !.cy = @ + 1], s.cy + 1)

Put(s, c) ==
    LET a == IF s.cx >= W THEN Newline(s) ELSE s
        b == Scrolled(a, a.cy)
        d == [b EXCEPT !.cells = Cell(b, b.cx, b.cy, c), !.cx = @ + 1]
    IN  IF c = NL THEN Newline(s) ELSE IF d.cx >= W THEN Newline(d) ELSE d

(* Two characters, so that a row can be filled and left at any place.      *)
ProgramWrites(c) ==
    /\ running
    /\ quiet' = FALSE
    /\ t' = [Put(Put(t, c), c) EXCEPT !.cells = Blank]
    /\ UNCHANGED <<editor, prompt, where, ring, todo, pc, reg, running>>

-----------------------------------------------------------------------------
(* The shell's output.  What it has read of cx and cy may come from memory *)
(* again, or from the register where it was kept: reg.                     *)

Xs == {t.cx, reg.x}
Ys == {t.cy, reg.y}

Rest(p)  == pc' = p /\ todo' = IF p = "next" THEN Tail(todo) ELSE todo
Drawing  == UNCHANGED <<editor, prompt, where, ring, running, quiet>>
IsChar   == todo # <<>> /\ Head(todo) \in Chars \cup {BLANK, "o", ">"}
Known(x, y) == reg' = [x |-> x, y |-> y]

(* Mutant: the cursor is left behind the last column.                      *)
PutWrapNever ==
    /\ pc = "wrap"
    /\ UNCHANGED <<t, reg>>
    /\ Rest("next") /\ Drawing

PutNewline ==
    /\ pc = "next" /\ todo # <<>> /\ Head(todo) = NL
    /\ \E y \in Ys : t' = [t EXCEPT !.cx = 0, !.cy = y + 1] /\ Known(0, y + 1)
    /\ Rest("scroll") /\ Drawing

(* A cursor that is past the row or the screen is taken back first.        *)
PutCheck ==
    /\ pc = "next" /\ IsChar
    /\ \E x \in Xs, y \in Ys :
          LET s == Scrolled([t EXCEPT !.cx = 0, !.cy = y + 1], y + 1)
          IN  \/ x >= W /\ t' = s /\ Known(0, s.cy)
              \/ x < W /\ y >= H /\ t' = Scrolled(t, y) /\ Known(x, H - 1)
              \/ x < W /\ y < H /\ t' = t /\ Known(x, y)
    /\ Rest("store") /\ Drawing

PutStore ==
    /\ pc = "store"
    /\ \E x \in Xs, y \in Ys :
          /\ t' = [t EXCEPT !.cells = Cell(t, x, y, Head(todo))]
          /\ Known(x, y)
    /\ Rest("inc") /\ Drawing

PutInc ==
    /\ pc = "inc"
    /\ \E x \in Xs : t' = [t EXCEPT !.cx = x + 1] /\ Known(x + 1, reg.y)
    /\ Rest("wrap") /\ Drawing

PutWrap ==
    /\ pc = "wrap"
    /\ \E x \in Xs, y \in Ys :
          IF x >= W
          THEN /\ t' = [t EXCEPT !.cx = 0, !.cy = y + 1]
               /\ Known(0, y + 1)
               /\ Rest("scroll")
          ELSE UNCHANGED <<t, reg>> /\ Rest("next")
    /\ Drawing

PutScroll ==
    /\ pc = "scroll"
    /\ \E y \in Ys : t' = Scrolled(t, y) /\ Known(0, Min2(y, H - 1))
    /\ Rest("next") /\ Drawing

Doing(op) == pc = "next" /\ todo # <<>> /\ Head(todo) = op /\ UNCHANGED pc

Clamp(v, last) == Min2(v, last)

MoveCursor ==
    /\ \/ Doing(HOME) /\ t' = [t EXCEPT !.cx = Clamp(px, W - 1), !.cy = Clamp(py, H - 1)]
       \/ Doing(SHOW) /\ t' = [t EXCEPT !.cx = Clamp(px + cur, W - 1), !.cy = Clamp(py, H - 1)]
       \/ Doing(CLEAR) /\ t' = [cells |-> Blank, cx |-> 0, cy |-> 0]
    /\ Known(t'.cx, t'.cy)
    /\ todo' = Tail(todo)
    /\ Drawing

Mark ==
    /\ Doing(MARK)
    /\ px' = t.cx /\ py' = t.cy /\ drawn' = 0
    /\ todo' = Tail(todo)
    /\ UNCHANGED <<line, cur, where, ring, t, reg, running, quiet>>

(* Mutant: what was drawn before is not blanked.                           *)
RedrawShort ==
    /\ Doing(REDRAW)
    /\ line' = SubSeq(line, 1, Min2(Len(line), W - 1 - px))
    /\ cur' = Min2(cur, Len(line'))
    /\ drawn' = Len(line')
    /\ todo' = <<HOME>> \o line' \o <<SHOW>> \o Tail(todo)
    /\ UNCHANGED <<prompt, where, ring, t, reg, running, quiet>>

(* The line is cut to the rest of the row.                                 *)
Redraw ==
    /\ Doing(REDRAW)
    /\ line' = SubSeq(line, 1, Min2(Len(line), W - 1 - px))
    /\ cur' = Min2(cur, Len(line'))
    /\ drawn' = Len(line')
    /\ todo' = <<HOME>> \o line' \o [i \in 1 .. drawn - Len(line') |-> BLANK] \o <<SHOW>> \o Tail(todo)
    /\ UNCHANGED <<prompt, where, ring, t, reg, running, quiet>>

Output == PutNewline \/ PutCheck \/ PutStore \/ PutInc \/ PutWrap \/ PutScroll
          \/ MoveCursor \/ Mark \/ Redraw

-----------------------------------------------------------------------------
(* The editor: shell_on_char and shell_on_key.                             *)

Ready == pc = "next" /\ todo = <<>>
Edit(l, c, out) == line' = l /\ cur' = c /\ todo' = out /\ UNCHANGED <<drawn, prompt, screen, quiet>>
SetLine(l) == Edit(l, Len(l), <<REDRAW>>)

OnChar(c) ==
    /\ Ready
    /\ Len(line) < LINE_MAX - 1 /\ Len(line) < W - 1 - px
    /\ Edit(InsertAt(line, cur + 1, c), cur + 1, <<REDRAW>>)
    /\ UNCHANGED <<where, ring, running>>

KeyLeft  == Ready /\ cur > 0 /\ Edit(line, cur - 1, <<SHOW>>) /\ UNCHANGED <<where, ring, running>>
KeyRight == Ready /\ cur < Len(line) /\ Edit(line, cur + 1, <<SHOW>>) /\ UNCHANGED <<where, ring, running>>

KeyDelete ==
    /\ Ready /\ cur < Len(line)
    /\ Edit(RemoveAt(line, cur + 1), cur, <<REDRAW>>)
    /\ UNCHANGED <<where, ring, running>>

(* hist_get, where the n-th line back is the newest for 1.                 *)
HistGet(n) == hist[(head + HIST_MAX - n) % HIST_MAX]

Recall(n) == nav' = n /\ UNCHANGED <<hist, head, count, past, where, running>>

KeyUp ==
    /\ Ready /\ count > 0
    /\ LET n == IF nav < count THEN nav + 1 ELSE nav
       IN  SetLine(HistGet(n)) /\ Recall(n)

KeyDown ==
    /\ Ready /\ count > 0 /\ nav > 0
    /\ SetLine(IF nav > 1 THEN HistGet(nav - 1) ELSE <<>>)
    /\ Recall(nav - 1)

(* prompt, in directory p.                                                 *)
Prompt(p) == <<NL, ">">> \o [i \in DOMAIN p |-> ">"] \o <<">", MARK>>

(* autocomplete                                                            *)
KeyTab ==
    /\ Ready /\ cur = Len(line)
    /\ LET matches == {c \in Commands : IsPrefix(line, c)}
       IN  /\ matches # {}
           /\ IF \E c \in matches : matches = {c}
              THEN SetLine(CHOOSE c \in matches : TRUE)
              ELSE Edit(line, cur, <<NL, "o">> \o Prompt(path) \o <<REDRAW>>)
    /\ UNCHANGED <<where, ring, running>>

-----------------------------------------------------------------------------
(* execute_line.  hist_push leaves nav as it is when the line is empty or  *)
(* equals the newest.                                                      *)

(* Mutant: the count goes one past the ring.                               *)
PushedPast(l) ==
    IF l = <<>> \/ (count > 0 /\ HistGet(1) = l) THEN UNCHANGED ring
    ELSE /\ hist' = [hist EXCEPT ![head] = l]
         /\ head' = (head + 1) % HIST_MAX
         /\ count' = count + 1
         /\ nav' = 0
         /\ past' = SubSeq(<<l>> \o past, 1, Min2(Len(past) + 1, HIST_MAX))

Pushed(l) ==
    IF l = <<>> \/ (count > 0 /\ HistGet(1) = l) THEN UNCHANGED ring
    ELSE /\ hist' = [hist EXCEPT ![head] = l]
         /\ head' = (head + 1) % HIST_MAX
         /\ count' = Min2(count + 1, HIST_MAX)
         /\ nav' = 0
         /\ past' = SubSeq(<<l>> \o past, 1, Min2(Len(past) + 1, HIST_MAX))

(* The rest of execute_line, with what run_command had to say.             *)
Execute(out, p) ==
    /\ Ready
    /\ Pushed(line)
    /\ Edit(<<>>, 0, <<NL>> \o out \o Prompt(p) \o <<REDRAW>>)

(* No command, one that says something, or one that fails.                 *)
Say(out) ==
    /\ out # <<>> => line # <<>>
    /\ Execute(out, path)
    /\ UNCHANGED <<where, running>>

(* clear prompts by itself.                                                *)
Clear ==
    /\ line # <<>>
    /\ Execute(<<CLEAR>> \o Prompt(path) \o <<REDRAW>>, path)
    /\ UNCHANGED <<where, running>>

(* A program that was started may write at any time from now on.           *)
Exec ==
    /\ line # <<>>
    /\ running' = TRUE
    /\ Execute(<<"o", NL>>, path)
    /\ UNCHANGED where

(* fat32_resolve_dir goes by the entries on the disk: the root has no "."  *)
(* and no ".."; NONE of the directories is found: <<"?">>.                 *)
NotFound == <<"?">>

Down(d, n) ==
    IF d = NotFound \/ (d = <<>> /\ n \in {".", ".."}) THEN NotFound
    ELSE IF n = "."  THEN d
    ELSE IF n = ".." THEN Front(d)
    ELSE IF Append(d, n) \in Dirs THEN Append(d, n) ELSE NotFound

Resolved(a) ==
    LET dir[i \in 0 .. Len(a.names)] == IF i = 0 THEN (IF a.abs THEN <<>> ELSE cwd)
                                        ELSE Down(dir[i - 1], a.names[i])
    IN  dir[Len(a.names)]

(* Mutant: ".." is kept as a name.                                         *)
ComponentKept(p, n) == IF n = "." THEN p ELSE Append(p, n)

(* path_normalize goes by the text.                                        *)
Component(p, n) ==
    CASE n = "."  -> p
      [] n = ".." -> IF p = <<>> THEN p ELSE Front(p)
      [] OTHER    -> Append(p, n)

Normalized(a) ==
    LET text[i \in 0 .. Len(a.names)] == IF i = 0 THEN (IF a.abs THEN <<>> ELSE path)
                                         ELSE Component(text[i - 1], a.names[i])
    IN  text[Len(a.names)]

Cd(a) ==
    /\ line # <<>>
    /\ IF Resolved(a) = NotFound
       THEN UNCHANGED where /\ Execute(<<"o", NL>>, path)
       ELSE cwd' = Resolved(a) /\ path' = Normalized(a) /\ Execute(<<>>, Normalized(a))
    /\ UNCHANGED running

-----------------------------------------------------------------------------
(* shell_init, after "Terminal ready."                                     *)
Init ==
    /\ line = <<>> /\ cur = 0 /\ drawn = 0
    /\ px = 0 /\ py = 0
    /\ cwd = <<>> /\ path = <<>>
    /\ hist = [i \in 0 .. HIST_MAX - 1 |-> <<>>] /\ head = 0 /\ count = 0 /\ nav = 0
    /\ t = [cells |-> Blank, cx |-> 0, cy |-> 0]
    /\ todo = <<"o", NL>> \o Prompt(<<>>) \o <<REDRAW>>
    /\ pc = "next" /\ reg = [x |-> 0, y |-> 0]
    /\ running = FALSE /\ quiet = TRUE /\ past = <<>>

Event ==
    \/ \E c \in Chars : OnChar(c)
    \/ KeyLeft \/ KeyRight \/ KeyDelete \/ KeyUp \/ KeyDown \/ KeyTab
    \/ \E out \in {<<>>, <<"o">>, <<"o", NL>>} : Say(out)
    \/ Clear \/ Exec
    \/ \E a \in CdArgs : Cd(a)

Next == Event \/ Output \/ \E c \in {"o", NL} : ProgramWrites(c)

Spec == Init /\ [][Next]_vars

-----------------------------------------------------------------------------
(* Properties.                                                             *)

(* The line fits its buffer and the row, and every store of a character    *)
(* into g_cells lands in the grid, wherever a program's output comes       *)
(* between a check of the cursor and the store (terminal.c:86-92).         *)
TypeOK ==
    /\ Len(line) <= LINE_MAX - 1 /\ cur \in 0 .. Len(line) /\ line \in Seq(Chars)
    /\ Ready => px \in Col /\ py \in Row /\ px + Len(line) < W
    /\ pc = "next" => t.cx \in Col /\ t.cy \in Row
    /\ pc = "store" => Xs \subseteq Col /\ Ys \subseteq Row

(* What the user sees is what Enter will run: with no program writing, the *)
(* row of the prompt shows the line, nothing that an earlier and longer    *)
(* one left behind, and the cursor stands at the caret; through recalls,   *)
(* completions, scrolling, clear, and a cd that changes the prompt.        *)
ScreenShowsLine ==
    Ready /\ quiet =>
       /\ t.cx = px + cur /\ t.cy = py
       /\ \A x \in px .. W - 1 :
             t.cells[py][x] = IF x - px < Len(line) THEN line[x - px + 1] ELSE BLANK

(* The n-th line back is the n-th newest that was pushed, however often    *)
(* the ring went round, and the keys never walk to one that is gone.       *)
RecallIsRecent ==
    /\ count = Len(past) /\ nav <= count
    /\ \A n \in 1 .. count : HistGet(n) = past[n]

(* The prompt names the directory commands work in, though cd finds that   *)
(* by the entries on the disk and the name by the text.                    *)
PathIsCwd == path = cwd
=============================================================================
