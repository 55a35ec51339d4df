----------------------------- MODULE ShellProofs -----------------------------
(***************************************************************************)
(* Theorems about Shell, for every screen, line, ring, set of directories  *)
(* and commands: the store into the grid never misses it, the ring returns *)
(* the newest lines, the prompt's path is the current directory, and the   *)
(* screen shows the line that Enter will run.                              *)
(***************************************************************************)
EXTENDS Shell, SequenceTheorems, WellFoundedInduction, TLAPS

Ops     == {NL, CLEAR, MARK, REDRAW, HOME, SHOW}
Glyphs  == Chars \cup {BLANK, "o", ">"}
Outputs == Glyphs \cup Ops
Lines   == {l \in Seq(Chars) : Len(l) <= LINE_MAX - 1}
Screens == [cells : [Row -> [Col -> Glyphs]], cx : Nat, cy : Nat]
Regs    == [x : Nat, y : Nat]

-----------------------------------------------------------------------------
(* The inductive invariant.                                                *)

Types ==
    /\ line \in Lines /\ cur \in 0 .. Len(line) /\ drawn \in Nat
    /\ px \in Col /\ py \in Row
    /\ t \in Screens /\ reg \in Regs
    /\ todo \in Seq(Outputs)
    /\ pc \in {"next", "store", "inc", "wrap", "scroll"}
    /\ quiet \in BOOLEAN

(* What the cursor may be at every access of term_putc, and what the shell *)
(* may still believe of it: a program's output leaves it inside the grid,  *)
(* so it is only the shell's own steps that lead out of it.                *)
Cursor ==
    /\ pc = "next" => t.cx \in Col /\ t.cy \in Row
    /\ pc \in {"store", "inc"} => {t.cx, reg.x} \subseteq Col /\ {t.cy, reg.y} \subseteq Row
    /\ pc = "store" => IsChar
    /\ pc = "wrap" => {t.cy, reg.y} \subseteq Row /\ (t.cx \in Col \/ t.cx = reg.x)
    /\ pc = "scroll" => t.cx \in Col /\ (t.cy \in Row \/ t.cy = reg.y)
    /\ pc # "next" => todo # <<>> /\ Head(todo) \in Glyphs \cup {NL}

(* A line that does not fit behind the prompt is about to be cut, also     *)
(* when a new prompt will come first.                                      *)
Comes(op, s) == \E i \in 1 .. Len(s) : s[i] = op
Marked(s) ==
    \A i \in 1 .. Len(s) : s[i] = MARK => \E j \in i + 1 .. Len(s) : s[j] = REDRAW

LineIsCut ==
    /\ Comes(REDRAW, todo) \/ px + Len(line) < W
    /\ Marked(todo)

(* The ring: HistGet(n) is only asked for n up to count.                   *)
Ring ==
    /\ hist \in [0 .. HIST_MAX - 1 -> Lines] /\ head \in 0 .. HIST_MAX - 1
    /\ past \in Seq(Lines) /\ count = Len(past) /\ count <= HIST_MAX
    /\ nav \in 0 .. count
    /\ \A n \in 1 .. count : HistGet(n) = past[n]

Where == cwd \in Dirs /\ path = cwd

Inv == Types /\ Cursor /\ LineIsCut /\ Ring /\ Where

-----------------------------------------------------------------------------
(* The screen.                                                             *)

LEMMA Sizes ==
    /\ W \in Nat /\ W > 0 /\ H \in Nat /\ H > 0
    /\ LINE_MAX \in Nat /\ LINE_MAX > 0 /\ HIST_MAX \in Nat /\ HIST_MAX > 0
  BY SizesAssumption DEF SizesAssumption

LEMMA BlankScreen == Blank \in [Row -> [Col -> Glyphs]]
  BY DEF Blank, Glyphs

LEMMA CellGrid ==
    ASSUME NEW s \in Screens, NEW x \in Col, NEW y \in Row, NEW c \in Glyphs
    PROVE  Cell(s, x, y, c) \in [Row -> [Col -> Glyphs]]
  <1>1. s.cells \in [Row -> [Col -> Glyphs]]
    BY DEF Screens
  <1>2. [s.cells EXCEPT ![y][x] = c] \in [Row -> [Col -> Glyphs]]
    BY <1>1
  <1> QED  BY <1>2, BlankScreen DEF Cell

LEMMA ScrolledScreen ==
    ASSUME NEW s \in Screens, NEW y \in Nat
    PROVE  /\ Scrolled(s, y) \in Screens
           /\ Scrolled(s, y).cx = s.cx
           /\ Scrolled(s, y).cy = IF y < H THEN s.cy ELSE H - 1
  <1>1. CASE y < H
    BY <1>1 DEF Scrolled
  <1>2. CASE ~(y < H)
    <2> DEFINE up == [r \in Row |-> IF r < H - 1 THEN s.cells[r + 1] ELSE Blank[r]]
    <2>1. up \in [Row -> [Col -> Glyphs]]
      <3>1. ASSUME NEW r \in Row, r < H - 1  PROVE r + 1 \in Row
        BY <3>1, Sizes DEF Row
      <3> QED  BY <3>1, BlankScreen DEF Screens
    <2>2. Scrolled(s, y) = [s EXCEPT !.cells = up, !.cy = H - 1]
      BY <1>2 DEF Scrolled
    <2>3. H - 1 \in Nat
      BY Sizes
    <2> HIDE DEF up
    <2> QED  BY <1>2, <2>1, <2>2, <2>3 DEF Screens
  <1> QED  BY <1>1, <1>2

LEMMA NewlineScreen ==
    ASSUME NEW s \in Screens
    PROVE  /\ Newline(s) \in Screens
           /\ Newline(s).cx = 0
           /\ Newline(s).cy \in Row
  <1> DEFINE a == [s EXCEPT !.cx = 0, !.cy = @ + 1]
  <1>1. s.cy \in Nat /\ s.cy + 1 \in Nat
    BY DEF Screens
  <1>2. a \in Screens
    BY <1>1 DEF Screens
  <1>3. a.cx = 0
    BY DEF Screens
  <1>4. Newline(s) = Scrolled(a, s.cy + 1)
    BY DEF Newline
  <1> HIDE DEF a
  <1>5. /\ Newline(s) \in Screens
        /\ Newline(s).cx = 0
        /\ Newline(s).cy = IF s.cy + 1 < H THEN a.cy ELSE H - 1
    <2>1. PICK y \in Nat : y = s.cy + 1
      BY <1>1
    <2>2. /\ Scrolled(a, y) \in Screens /\ Scrolled(a, y).cx = a.cx
          /\ Scrolled(a, y).cy = IF y < H THEN a.cy ELSE H - 1
      BY <1>2, <2>1, ScrolledScreen
    <2> QED  BY <1>3, <1>4, <2>1, <2>2
  <1>6. a.cy = s.cy + 1
    BY DEF a, Screens
  <1> QED  BY <1>1, <1>5, <1>6, Sizes DEF Row

(* term_putc as a whole leaves the cursor in the grid, wherever it was.    *)
LEMMA PutScreen ==
    ASSUME NEW s \in Screens, NEW c \in Glyphs \cup {NL}
    PROVE  /\ Put(s, c) \in Screens
           /\ Put(s, c).cx \in Col /\ Put(s, c).cy \in Row
  <1>1. CASE c = NL
    <2>1. Put(s, c) = Newline(s)
      BY <1>1 DEF Put
    <2> QED  BY <2>1, NewlineScreen, Sizes DEF Col
  <1>2. CASE c # NL
    <2> DEFINE a == IF s.cx >= W THEN Newline(s) ELSE s
               b == Scrolled(a, a.cy)
               d == [b EXCEPT !.cells = Cell(b, b.cx, b.cy, c), !.cx = @ + 1]
    <2>1. a \in Screens /\ a.cx \in Col /\ a.cy \in Nat
      <3>1. s.cx \in Nat /\ s.cy \in Nat
        BY DEF Screens
      <3>2. CASE s.cx >= W
        BY <3>2, NewlineScreen, Sizes DEF Col, Row
      <3>3. CASE ~(s.cx >= W)
        BY <3>1, <3>3, Sizes DEF Col
      <3> QED  BY <3>2, <3>3
    <2> HIDE DEF a
    <2>2. b \in Screens /\ b.cx \in Col /\ b.cy \in Row
      <3>1. b \in Screens /\ b.cx = a.cx /\ b.cy = IF a.cy < H THEN a.cy ELSE H - 1
        BY <2>1, ScrolledScreen
      <3> QED  BY <2>1, <3>1, Sizes DEF Row
    <2> HIDE DEF b
    <2>3. Cell(b, b.cx, b.cy, c) \in [Row -> [Col -> Glyphs]]
      BY <1>2, <2>2, CellGrid
    <2>4. b.cx + 1 \in Nat /\ b.cx + 1 <= W
      BY <2>2, Sizes DEF Col
    <2>5. d \in Screens /\ d.cx = b.cx + 1 /\ d.cy = b.cy
      BY <2>2, <2>3, <2>4 DEF Screens
    <2>6. Put(s, c) = IF d.cx >= W THEN Newline(d) ELSE d
      BY <1>2 DEF Put, a, b
    <2> HIDE DEF d
    <2>7. CASE d.cx >= W
      BY <2>5, <2>6, <2>7, NewlineScreen, Sizes DEF Col
    <2>8. CASE ~(d.cx >= W)
      BY <2>2, <2>4, <2>5, <2>6, <2>8, Sizes DEF Col
    <2> QED  BY <2>7, <2>8
  <1> QED  BY <1>1, <1>2

-----------------------------------------------------------------------------
(* A program's output, between any two accesses of the shell's.            *)

LEMMA ProgramStep ==
    ASSUME Inv, NEW c \in {"o", NL}, ProgramWrites(c)
    PROVE  Inv'
  <1> DEFINE once  == Put(t, c)
             twice == Put(once, c)
  <1>1. c \in Glyphs \cup {NL}
    BY DEF Glyphs
  <1>2. t \in Screens
    BY DEF Inv, Types
  <1>3. once \in Screens
    BY <1>1, <1>2, PutScreen
  <1> HIDE DEF once
  <1>4. twice \in Screens /\ twice.cx \in Col /\ twice.cy \in Row
    BY <1>1, <1>3, PutScreen
  <1>5. t' = [twice EXCEPT !.cells = Blank]
    BY DEF ProgramWrites, once
  <1> HIDE DEF twice
  <1>6. t' \in Screens /\ t'.cx \in Col /\ t'.cy \in Row
    BY <1>4, <1>5, BlankScreen DEF Screens
  <1>7. /\ UNCHANGED <<line, cur, drawn, px, py, cwd, path, hist, head, count, nav, past, todo, pc, reg>>
        /\ quiet' = FALSE
    BY DEF ProgramWrites, editor, prompt, where, ring
  <1>8. Types' /\ Where'
    BY <1>6, <1>7 DEF Inv, Types, Where
  <1>9. Cursor'
    BY <1>6, <1>7 DEF Inv, Cursor, IsChar
  <1>10. LineIsCut'
    BY <1>7 DEF Inv, LineIsCut
  <1>11. Ring'
    BY <1>7 DEF Inv, Ring, HistGet
  <1> QED  BY <1>8, <1>9, <1>10, <1>11 DEF Inv

-----------------------------------------------------------------------------
(* The shell's output, one access at a time.                               *)

LEMMA Todo ==
    ASSUME Types, todo # <<>>
    PROVE  /\ Tail(todo) \in Seq(Outputs)
           /\ Len(todo) \in Nat /\ Len(Tail(todo)) = Len(todo) - 1
           /\ Head(todo) = todo[1] /\ 1 \in 1 .. Len(todo) /\ Head(todo) \in Outputs
           /\ \A i \in 1 .. Len(todo) - 1 : Tail(todo)[i] = todo[i + 1]
  <1>1. todo \in Seq(Outputs)
    BY DEF Types
  <1>2. /\ Head(todo) \in Outputs /\ Tail(todo) \in Seq(Outputs)
        /\ Len(Tail(todo)) = Len(todo) - 1
        /\ \A i \in 1 .. Len(Tail(todo)) : Tail(todo)[i] = todo[i + 1]
    BY <1>1, HeadTailProperties
  <1>3. Len(todo) \in Nat \ {0}
    BY <1>1, EmptySeq
  <1>4. Head(todo) = todo[1]
    BY <1>1
  <1> QED  BY <1>2, <1>3, <1>4

(* The drawing operations leave the rest of the editor alone.              *)
LEMMA DrawingKeeps ==
    ASSUME Inv, Drawing
    PROVE  /\ Ring' /\ Where'
           /\ UNCHANGED <<line, cur, drawn, px, py, quiet, running>>
  BY DEF Inv, Drawing, editor, prompt, where, ring, Ring, Where, HistGet

(* A redraw that was to come still comes.                                  *)
LEMMA TailComes ==
    ASSUME Types, todo # <<>>, NEW op, Head(todo) # op, Comes(op, todo)
    PROVE  Comes(op, Tail(todo))
  <1>1. PICK i \in 1 .. Len(todo) : todo[i] = op
    BY DEF Comes
  <1>2. i # 1
    BY <1>1, Todo
  <1>3. i - 1 \in 1 .. Len(todo) - 1 /\ (i - 1) + 1 = i
    BY <1>1, <1>2, Todo
  <1>4. Tail(todo)[i - 1] = op
    BY <1>1, <1>3, Todo
  <1> QED  BY <1>3, <1>4, Todo DEF Comes

LEMMA TailMarked ==
    ASSUME Types, Marked(todo), todo # <<>>
    PROVE  Marked(Tail(todo))
  <1> SUFFICES ASSUME NEW i \in 1 .. Len(Tail(todo)), Tail(todo)[i] = MARK
               PROVE  \E j \in i + 1 .. Len(Tail(todo)) : Tail(todo)[j] = REDRAW
    BY DEF Marked
  <1>1. i \in 1 .. Len(todo) - 1 /\ i + 1 \in 1 .. Len(todo) /\ todo[i + 1] = MARK
    BY Todo
  <1>2. PICK j \in (i + 1) + 1 .. Len(todo) : todo[j] = REDRAW
    BY <1>1 DEF Marked
  <1>3. j - 1 \in i + 1 .. Len(todo) - 1 /\ j - 1 \in 1 .. Len(todo) - 1 /\ (j - 1) + 1 = j
    BY <1>1, <1>2, Todo
  <1>4. Tail(todo)[j - 1] = REDRAW
    BY <1>2, <1>3, Todo
  <1> QED  BY <1>3, <1>4, Todo

LEMMA TailIsCut ==
    ASSUME Inv, todo # <<>>, todo' = Tail(todo), Head(todo) # REDRAW, UNCHANGED <<line, px>>
    PROVE  LineIsCut'
  <1>1. Types /\ LineIsCut
    BY DEF Inv
  <1>2. Comes(REDRAW, Tail(todo)) \/ px + Len(line) < W
    BY <1>1, TailComes DEF LineIsCut
  <1>3. Marked(Tail(todo))
    BY <1>1, TailMarked DEF LineIsCut
  <1> QED  BY <1>2, <1>3 DEF LineIsCut

LEMMA SameIsCut ==
    ASSUME Inv, UNCHANGED <<todo, line, px>>
    PROVE  LineIsCut'
  BY DEF Inv, LineIsCut

(* What is consumed by the end of a character is one.                      *)
LEMMA DoneIsCut ==
    ASSUME Inv, UNCHANGED <<line, px>>, todo # <<>>, NEW p, Rest(p),
           p = "next" => Head(todo) # REDRAW
    PROVE  LineIsCut' /\ todo' \in Seq(Outputs) /\ pc' = p
  <1>1. Types
    BY DEF Inv
  <1>2. CASE p = "next"
    BY <1>1, <1>2, TailIsCut, Todo DEF Rest
  <1>3. CASE p # "next"
    BY <1>1, <1>3, SameIsCut DEF Rest, Types
  <1> QED  BY <1>2, <1>3 DEF Rest

LEMMA GlyphsApart == \A c \in Glyphs : c \notin Ops
  BY CharsAssumption DEF Glyphs, Ops, CharsAssumption, NL, CLEAR, MARK, REDRAW, HOME, SHOW, BLANK

LEMMA Read ==
    ASSUME Types
    PROVE  /\ Xs \subseteq Nat /\ Ys \subseteq Nat
           /\ t.cx \in Nat /\ t.cy \in Nat /\ reg.x \in Nat /\ reg.y \in Nat
           /\ \A a, b \in Nat : [x |-> a, y |-> b] \in Regs
  BY DEF Types, Xs, Ys, Screens, Regs

LEMMA PutNewlineStep ==
    ASSUME Inv, PutNewline
    PROVE  Inv'
  <1>1. PICK y \in Ys : t' = [t EXCEPT !.cx = 0, !.cy = y + 1] /\ Known(0, y + 1)
    BY DEF PutNewline
  <1>2. Types /\ y \in Nat /\ y + 1 \in Nat /\ 0 \in Col
    BY Read, Sizes DEF Inv, Col
  <1>3. t' \in Screens /\ t'.cx = 0 /\ t'.cy = y + 1
    BY <1>1, <1>2 DEF Types, Screens
  <1>4. reg' \in Regs /\ reg'.y = y + 1
    BY <1>1, <1>2, Read DEF Known
  <1>5. Ring' /\ Where' /\ UNCHANGED <<line, cur, drawn, px, py, quiet, running>>
    BY DrawingKeeps DEF PutNewline
  <1>6. Rest("scroll") /\ todo # <<>> /\ Head(todo) = NL
    BY DEF PutNewline
  <1>7. LineIsCut' /\ todo' \in Seq(Outputs) /\ pc' = "scroll" /\ todo' = todo
    BY <1>5, <1>6, DoneIsCut DEF Rest
  <1>8. Types'
    BY <1>2, <1>3, <1>4, <1>5, <1>7 DEF Types
  <1>9. Cursor'
    BY <1>2, <1>3, <1>4, <1>6, <1>7 DEF Cursor, IsChar
  <1> QED  BY <1>5, <1>7, <1>8, <1>9 DEF Inv

LEMMA PutCheckStep ==
    ASSUME Inv, PutCheck
    PROVE  Inv'
  <1>1. PICK x \in Xs, y \in Ys :
          LET s == Scrolled([t EXCEPT !.cx = 0, !.cy = y + 1], y + 1)
          IN  \/ x >= W /\ t' = s /\ Known(0, s.cy)
              \/ x < W /\ y >= H /\ t' = Scrolled(t, y) /\ Known(x, H - 1)
              \/ x < W /\ y < H /\ t' = t /\ Known(x, y)
    BY DEF PutCheck
  <1> DEFINE a == [t EXCEPT !.cx = 0, !.cy = y + 1]
             s == Scrolled(a, y + 1)
  <1>2. /\ Types /\ x \in Nat /\ y \in Nat /\ y + 1 \in Nat /\ H - 1 \in Nat
        /\ t.cx \in Col /\ t.cy \in Row /\ t \in Screens
    <2>1. Types /\ Cursor /\ pc = "next"
      BY DEF Inv, PutCheck
    <2>2. t.cx \in Col /\ t.cy \in Row /\ t \in Screens
      BY <2>1 DEF Cursor, Types
    <2>3. x \in Nat /\ y \in Nat
      BY <2>1, Read
    <2>4. y + 1 \in Nat /\ H - 1 \in Nat
      BY <2>3, Sizes
    <2> QED  BY <2>1, <2>2, <2>3, <2>4
  <1>3. a \in Screens /\ a.cx = 0 /\ a.cy = y + 1
    BY <1>2 DEF Screens
  <1>4. s \in Screens /\ s.cx = 0 /\ s.cy \in Row
    <2>1. PICK z \in Nat : z = y + 1
      BY <1>2
    <2>2. /\ Scrolled(a, z) \in Screens /\ Scrolled(a, z).cx = a.cx
          /\ Scrolled(a, z).cy = IF z < H THEN a.cy ELSE H - 1
      BY <1>3, <2>1, ScrolledScreen
    <2> QED  BY <1>2, <1>3, <2>1, <2>2, Sizes DEF Row
  <1>5. ASSUME x >= W /\ t' = s /\ Known(0, s.cy)
        PROVE  t' \in Screens /\ {t'.cx, reg'.x} \subseteq Col /\ {t'.cy, reg'.y} \subseteq Row /\ reg' \in Regs
    <2> HIDE DEF s
    <2>1. 0 \in Col /\ s.cy \in Nat
      BY <1>4, Sizes DEF Col, Row
    <2>2. reg' \in Regs /\ reg'.x = 0 /\ reg'.y = s.cy
      BY <1>5, <2>1, Read, <1>2 DEF Known
    <2> QED  BY <1>4, <1>5, <2>1, <2>2
  <1>6. ASSUME x < W /\ y >= H /\ t' = Scrolled(t, y) /\ Known(x, H - 1)
        PROVE  t' \in Screens /\ {t'.cx, reg'.x} \subseteq Col /\ {t'.cy, reg'.y} \subseteq Row /\ reg' \in Regs
    <2>1. t' \in Screens /\ t'.cx = t.cx /\ t'.cy = H - 1
      <3>1. ~(y < H)
        BY <1>2, <1>6, Sizes
      <3> QED  BY <1>2, <1>6, <3>1, ScrolledScreen
    <2>2. reg' \in Regs /\ reg'.x = x /\ reg'.y = H - 1
      BY <1>2, <1>6, Read DEF Known
    <2> QED  BY <1>2, <1>6, <2>1, <2>2, Sizes DEF Col, Row
  <1>7. ASSUME x < W /\ y < H /\ t' = t /\ Known(x, y)
        PROVE  t' \in Screens /\ {t'.cx, reg'.x} \subseteq Col /\ {t'.cy, reg'.y} \subseteq Row /\ reg' \in Regs
    <2>1. reg' \in Regs /\ reg'.x = x /\ reg'.y = y
      BY <1>2, <1>7, Read DEF Known
    <2> QED  BY <1>2, <1>7, <2>1, Sizes DEF Col, Row
  <1>8. t' \in Screens /\ {t'.cx, reg'.x} \subseteq Col /\ {t'.cy, reg'.y} \subseteq Row /\ reg' \in Regs
    BY <1>1, <1>5, <1>6, <1>7
  <1>9. Ring' /\ Where' /\ UNCHANGED <<line, cur, drawn, px, py, quiet, running>>
    BY DrawingKeeps DEF PutCheck
  <1>10. Rest("store") /\ IsChar
    BY DEF PutCheck
  <1>11. LineIsCut' /\ todo' \in Seq(Outputs) /\ pc' = "store" /\ todo' = todo
    BY <1>9, <1>10, DoneIsCut DEF Rest, IsChar
  <1>12. Types'
    BY <1>2, <1>8, <1>9, <1>11 DEF Types
  <1>13. Cursor'
    BY <1>8, <1>10, <1>11 DEF Cursor, IsChar, Glyphs
  <1> QED  BY <1>9, <1>11, <1>12, <1>13 DEF Inv

(* The store: this is where term_putc would miss the grid.                 *)
LEMMA PutStoreStep ==
    ASSUME Inv, PutStore
    PROVE  Inv'
  <1>1. PICK x \in Xs, y \in Ys : t' = [t EXCEPT !.cells = Cell(t, x, y, Head(todo))] /\ Known(x, y)
    BY DEF PutStore
  <1>2. /\ Types /\ {t.cx, reg.x} \subseteq Col /\ {t.cy, reg.y} \subseteq Row /\ IsChar
        /\ t \in Screens /\ x \in Col /\ y \in Row
    BY DEF Inv, PutStore, Cursor, Types, Xs, Ys
  <1>3. Cell(t, x, y, Head(todo)) \in [Row -> [Col -> Glyphs]]
    BY <1>2, CellGrid DEF IsChar, Glyphs
  <1>4. t' \in Screens /\ t'.cx = t.cx /\ t'.cy = t.cy
    BY <1>1, <1>2, <1>3 DEF Screens
  <1>5. reg' \in Regs /\ reg'.x = x /\ reg'.y = y
    BY <1>1, <1>2, Read DEF Known, Xs, Ys
  <1>6. Ring' /\ Where' /\ UNCHANGED <<line, cur, drawn, px, py, quiet, running>>
    BY DrawingKeeps DEF PutStore
  <1>7. Rest("inc") /\ todo # <<>>
    BY <1>2 DEF PutStore, IsChar
  <1>8. LineIsCut' /\ todo' \in Seq(Outputs) /\ pc' = "inc" /\ todo' = todo
    BY <1>6, <1>7, DoneIsCut DEF Rest
  <1>9. Types'
    BY <1>2, <1>4, <1>5, <1>6, <1>8 DEF Types
  <1>10. Cursor'
    BY <1>2, <1>4, <1>5, <1>8 DEF Cursor, IsChar, Glyphs
  <1> QED  BY <1>6, <1>8, <1>9, <1>10 DEF Inv

LEMMA PutIncStep ==
    ASSUME Inv, PutInc
    PROVE  Inv'
  <1>1. PICK x \in Xs : t' = [t EXCEPT !.cx = x + 1] /\ Known(x + 1, reg.y)
    BY DEF PutInc
  <1>2. /\ Types /\ {t.cx, reg.x} \subseteq Col /\ {t.cy, reg.y} \subseteq Row
        /\ t \in Screens /\ x \in Nat /\ x + 1 \in Nat /\ todo # <<>> /\ Head(todo) \in Glyphs \cup {NL}
    BY Read DEF Inv, PutInc, Cursor, Types
  <1>3. t' \in Screens /\ t'.cx = x + 1 /\ t'.cy = t.cy
    BY <1>1, <1>2 DEF Screens
  <1>4. reg' \in Regs /\ reg'.x = x + 1 /\ reg'.y = reg.y
    BY <1>1, <1>2, Read DEF Known
  <1>5. Ring' /\ Where' /\ UNCHANGED <<line, cur, drawn, px, py, quiet, running>>
    BY DrawingKeeps DEF PutInc
  <1>6. Rest("wrap")
    BY DEF PutInc
  <1>7. LineIsCut' /\ todo' \in Seq(Outputs) /\ pc' = "wrap" /\ todo' = todo
    BY <1>2, <1>5, <1>6, DoneIsCut DEF Rest
  <1>8. Types'
    BY <1>2, <1>3, <1>4, <1>5, <1>7 DEF Types
  <1>9. Cursor'
    BY <1>2, <1>3, <1>4, <1>7 DEF Cursor, IsChar
  <1> QED  BY <1>5, <1>7, <1>8, <1>9 DEF Inv

LEMMA NotRedraw == \A c \in Glyphs \cup {NL} : c # REDRAW /\ c # MARK
  BY GlyphsApart DEF Ops, NL, REDRAW, MARK

LEMMA PutWrapStep ==
    ASSUME Inv, PutWrap
    PROVE  Inv'
  <1>1. PICK x \in Xs, y \in Ys :
          IF x >= W THEN t' = [t EXCEPT !.cx = 0, !.cy = y + 1] /\ Known(0, y + 1) /\ Rest("scroll")
                    ELSE UNCHANGED <<t, reg>> /\ Rest("next")
    BY DEF PutWrap
  <1>2. /\ Types /\ {t.cy, reg.y} \subseteq Row /\ (t.cx \in Col \/ t.cx = reg.x)
        /\ t \in Screens /\ reg \in Regs /\ x \in Nat /\ y \in Nat /\ y + 1 \in Nat /\ 0 \in Col
        /\ todo # <<>> /\ Head(todo) \in Glyphs \cup {NL}
    <2>1. Types /\ Cursor /\ pc = "wrap" /\ pc # "next"
      BY DEF Inv, PutWrap
    <2>2. t \in Screens /\ reg \in Regs
      BY <2>1 DEF Types
    <2>3. x \in Nat /\ y \in Nat /\ y + 1 \in Nat /\ 0 \in Col
      BY <2>1, Read, Sizes DEF Col
    <2> QED  BY <2>1, <2>2, <2>3 DEF Cursor
  <1>3. Ring' /\ Where' /\ UNCHANGED <<line, cur, drawn, px, py, quiet, running>>
    BY DrawingKeeps DEF PutWrap
  <1>4. CASE x >= W
    <2>1. t' \in Screens /\ t'.cx = 0 /\ t'.cy = y + 1
      <3>1. t' = [t EXCEPT !.cx = 0, !.cy = y + 1]
        BY <1>1, <1>4
      <3> QED  BY <1>2, <3>1 DEF Screens
    <2>2. reg' \in Regs /\ reg'.y = y + 1
      BY <1>1, <1>2, <1>4, Read DEF Known
    <2>3. LineIsCut' /\ todo' \in Seq(Outputs) /\ pc' = "scroll" /\ todo' = todo
      BY <1>1, <1>2, <1>3, <1>4, DoneIsCut DEF Rest
    <2>4. Types'
      BY <1>2, <1>3, <2>1, <2>2, <2>3 DEF Types
    <2>5. Cursor'
      BY <1>2, <2>1, <2>2, <2>3 DEF Cursor, IsChar
    <2> QED  BY <1>3, <2>3, <2>4, <2>5 DEF Inv
  <1>5. CASE ~(x >= W)
    <2>1. UNCHANGED <<t, reg>> /\ Rest("next")
      BY <1>1, <1>5
    <2>2. t.cx \in Col
      BY <1>2, <1>5, Sizes DEF Col, Xs
    <2>3. LineIsCut' /\ todo' \in Seq(Outputs) /\ pc' = "next"
      BY <1>2, <1>3, <2>1, NotRedraw, DoneIsCut
    <2>4. Types'
      BY <1>2, <1>3, <2>1, <2>3 DEF Types
    <2>5. Cursor'
      BY <1>2, <2>1, <2>2, <2>3 DEF Cursor
    <2> QED  BY <1>3, <2>3, <2>4, <2>5 DEF Inv
  <1> QED  BY <1>4, <1>5

LEMMA PutScrollStep ==
    ASSUME Inv, PutScroll
    PROVE  Inv'
  <1>1. PICK y \in Ys : t' = Scrolled(t, y) /\ Known(0, Min2(y, H - 1))
    BY DEF PutScroll
  <1>2. /\ Types /\ t.cx \in Col /\ (t.cy \in Row \/ t.cy = reg.y)
        /\ t \in Screens /\ y \in Nat /\ todo # <<>> /\ Head(todo) \in Glyphs \cup {NL}
    BY Read DEF Inv, PutScroll, Cursor, Types
  <1>3. t' \in Screens /\ t'.cx = t.cx /\ t'.cy = IF y < H THEN t.cy ELSE H - 1
    BY <1>1, <1>2, ScrolledScreen
  <1>4. t'.cy \in Row
    BY <1>2, <1>3, Sizes DEF Row, Ys
  <1>5. reg' \in Regs
    <2>1. Min2(y, H - 1) \in Nat
      BY <1>2, Sizes DEF Min2
    <2> QED  BY <1>1, <1>2, <2>1, Read DEF Known
  <1>6. Ring' /\ Where' /\ UNCHANGED <<line, cur, drawn, px, py, quiet, running>>
    BY DrawingKeeps DEF PutScroll
  <1>7. LineIsCut' /\ todo' \in Seq(Outputs) /\ pc' = "next"
    BY <1>2, <1>6, NotRedraw, DoneIsCut DEF PutScroll
  <1>8. Types'
    BY <1>2, <1>3, <1>5, <1>6, <1>7 DEF Types
  <1>9. Cursor'
    BY <1>2, <1>3, <1>4, <1>7 DEF Cursor
  <1> QED  BY <1>6, <1>7, <1>8, <1>9 DEF Inv

LEMMA MoveCursorStep ==
    ASSUME Inv, MoveCursor
    PROVE  Inv'
  <1>1. /\ Types /\ Cursor /\ t \in Screens /\ pc = "next" /\ pc' = "next" /\ todo # <<>>
        /\ Head(todo) \in {HOME, SHOW, CLEAR} /\ todo' = Tail(todo) /\ Known(t'.cx, t'.cy)
    BY DEF Inv, MoveCursor, Doing, Types
  <1>2. /\ px \in Nat /\ py \in Nat /\ px + cur \in Nat
        /\ \A v \in Nat : Min2(v, W - 1) \in Col /\ Min2(v, H - 1) \in Row
    BY <1>1, Sizes DEF Types, Lines, Col, Row, Min2
  <1>3. t' \in Screens /\ t'.cx \in Col /\ t'.cy \in Row
    <2>1. ASSUME NEW a \in Nat, NEW b \in Nat,
                 t' = [t EXCEPT !.cx = Min2(a, W - 1), !.cy = Min2(b, H - 1)]
          PROVE  t' \in Screens /\ t'.cx \in Col /\ t'.cy \in Row
      <3>1. Min2(a, W - 1) \in Col /\ Min2(b, H - 1) \in Row
        BY <1>2
      <3>2. Min2(a, W - 1) \in Nat /\ Min2(b, H - 1) \in Nat
        BY <3>1, Sizes DEF Col, Row
      <3> QED  BY <1>1, <2>1, <3>1, <3>2 DEF Screens
    <2>2. ASSUME t' = [cells |-> Blank, cx |-> 0, cy |-> 0]
          PROVE  t' \in Screens /\ t'.cx \in Col /\ t'.cy \in Row
      BY <2>2, BlankScreen, Sizes DEF Screens, Col, Row
    <2>3. \/ t' = [t EXCEPT !.cx = Min2(px, W - 1), !.cy = Min2(py, H - 1)]
          \/ t' = [t EXCEPT !.cx = Min2(px + cur, W - 1), !.cy = Min2(py, H - 1)]
          \/ t' = [cells |-> Blank, cx |-> 0, cy |-> 0]
      BY DEF MoveCursor, Clamp
    <2> QED  BY <1>2, <2>1, <2>2, <2>3
  <1>4. reg' \in Regs
    <2>1. t'.cx \in Nat /\ t'.cy \in Nat
      BY <1>3 DEF Screens
    <2> QED  BY <1>1, <2>1, Read DEF Known
  <1>5. Ring' /\ Where' /\ UNCHANGED <<line, cur, drawn, px, py, quiet, running>>
    BY DrawingKeeps DEF MoveCursor
  <1>6. LineIsCut'
    <2>1. Head(todo) # REDRAW
      BY <1>1 DEF HOME, SHOW, CLEAR, REDRAW
    <2> QED  BY <1>1, <1>5, <2>1, TailIsCut
  <1>7. Types'
    BY <1>1, <1>3, <1>4, <1>5, Todo DEF Types
  <1>8. Cursor'
    BY <1>1, <1>3 DEF Cursor
  <1> QED  BY <1>5, <1>6, <1>7, <1>8 DEF Inv

(* A new prompt; the line is redrawn behind it.                            *)
LEMMA MarkStep ==
    ASSUME Inv, Mark
    PROVE  Inv'
  <1>1. /\ Types /\ Cursor /\ LineIsCut /\ pc = "next" /\ pc' = "next" /\ todo # <<>>
        /\ Head(todo) = MARK /\ todo' = Tail(todo) /\ t.cx \in Col /\ t.cy \in Row
        /\ px' = t.cx /\ py' = t.cy /\ drawn' = 0
        /\ UNCHANGED <<line, cur, cwd, path, hist, head, count, nav, past, t, reg, running, quiet>>
    BY DEF Inv, Mark, Doing, where, ring, Cursor
  <1>2. Marked(Tail(todo))
    BY <1>1, TailMarked DEF LineIsCut
  <1>3. Comes(REDRAW, Tail(todo))
    <2>1. 1 \in 1 .. Len(todo) /\ todo[1] = MARK
      BY <1>1, Todo
    <2>2. PICK j \in 1 + 1 .. Len(todo) : todo[j] = REDRAW
      BY <1>1, <2>1 DEF LineIsCut, Marked
    <2>3. Comes(REDRAW, todo)
      BY <2>1, <2>2 DEF Comes
    <2>4. Head(todo) # REDRAW
      BY <1>1 DEF MARK, REDRAW
    <2> QED  BY <1>1, <2>3, <2>4, TailComes
  <1>4. LineIsCut'
    BY <1>1, <1>2, <1>3 DEF LineIsCut
  <1>5. Types'
    BY <1>1, Todo DEF Types
  <1>6. Cursor' /\ Ring' /\ Where'
    BY <1>1 DEF Inv, Cursor, Ring, HistGet, Where
  <1> QED  BY <1>4, <1>5, <1>6 DEF Inv

(* What an event leaves behind ends with a redraw, or draws no prompt.     *)
LEMMA MarkedEnd ==
    ASSUME NEW s \in Seq(Outputs)
    PROVE  /\ s \o <<REDRAW>> \in Seq(Outputs)
           /\ Comes(REDRAW, s \o <<REDRAW>>)
           /\ Marked(s \o <<REDRAW>>)
  <1> DEFINE e == s \o <<REDRAW>>
  <1>1. <<REDRAW>> \in Seq(Outputs) /\ Len(<<REDRAW>>) = 1 /\ <<REDRAW>>[1] = REDRAW
    BY DEF Outputs, Ops
  <1>2. Len(s) \in Nat
    BY LenProperties
  <1>3. /\ e \in Seq(Outputs) /\ Len(e) = Len(s) + 1
        /\ \A i \in 1 .. Len(s) + 1 : e[i] = IF i <= Len(s) THEN s[i] ELSE <<REDRAW>>[i - Len(s)]
    BY <1>1, ConcatProperties
  <1>4. Len(s) + 1 \in 1 .. Len(s) + 1 /\ e[Len(s) + 1] = REDRAW
    <2>1. Len(s) + 1 \in 1 .. Len(s) + 1 /\ ~(Len(s) + 1 <= Len(s)) /\ (Len(s) + 1) - Len(s) = 1
      BY <1>2
    <2> QED  BY <1>1, <1>3, <2>1
  <1> HIDE DEF e
  <1>5. ASSUME NEW i \in 1 .. Len(e), e[i] = MARK
        PROVE  Len(s) + 1 \in i + 1 .. Len(e)
    <2>1. i # Len(s) + 1
      BY <1>4, <1>5 DEF MARK, REDRAW
    <2> QED  BY <1>2, <1>3, <2>1
  <1>6. Marked(e)
    BY <1>4, <1>5 DEF Marked
  <1>7. Comes(REDRAW, e)
    BY <1>3, <1>4 DEF Comes
  <1> QED  BY <1>3, <1>6, <1>7 DEF e

LEMMA MarkedConcat ==
    ASSUME NEW s \in Seq(Outputs \ {MARK}), NEW r \in Seq(Outputs), Marked(r)
    PROVE  s \o r \in Seq(Outputs) /\ Marked(s \o r)
  <1> DEFINE e == s \o r
  <1>1. s \in Seq(Outputs)
    BY SeqMonotonic
  <1>2. Len(s) \in Nat /\ Len(r) \in Nat /\ \A i \in 1 .. Len(s) : s[i] # MARK
    BY LenProperties, ElementOfSeq
  <1>3. /\ e \in Seq(Outputs) /\ Len(e) = Len(s) + Len(r)
        /\ \A i \in 1 .. Len(s) + Len(r) : e[i] = IF i <= Len(s) THEN s[i] ELSE r[i - Len(s)]
    BY <1>1, ConcatProperties
  <1> HIDE DEF e
  <1>4. ASSUME NEW i \in 1 .. Len(e), e[i] = MARK
        PROVE  \E j \in i + 1 .. Len(e) : e[j] = REDRAW
    <2>1. ~(i <= Len(s))
      BY <1>2, <1>3, <1>4
    <2>2. i - Len(s) \in 1 .. Len(r) /\ r[i - Len(s)] = MARK
      BY <1>2, <1>3, <1>4, <2>1
    <2>3. PICK k \in (i - Len(s)) + 1 .. Len(r) : r[k] = REDRAW
      BY <2>2 DEF Marked
    <2>4. k + Len(s) \in i + 1 .. Len(e) /\ k + Len(s) \in 1 .. Len(s) + Len(r)
          /\ ~(k + Len(s) <= Len(s)) /\ (k + Len(s)) - Len(s) = k
      BY <1>2, <1>3, <2>1, <2>2, <2>3
    <2>5. e[k + Len(s)] = REDRAW
      BY <1>3, <2>3, <2>4
    <2> QED  BY <2>4, <2>5
  <1> QED  BY <1>3, <1>4 DEF Marked, e

LEMMA RedrawStep ==
    ASSUME Inv, Redraw
    PROVE  Inv'
  <1> DEFINE n == Min2(Len(line), W - 1 - px)
             gap == [i \in 1 .. drawn - Len(line') |-> BLANK]
             row == <<HOME>> \o line' \o gap \o <<SHOW>>
  <1>1. /\ Types /\ Cursor /\ LineIsCut /\ pc = "next" /\ pc' = "next" /\ todo # <<>>
        /\ line' = SubSeq(line, 1, n) /\ cur' = Min2(cur, Len(line')) /\ drawn' = Len(line')
        /\ todo' = row \o Tail(todo)
        /\ UNCHANGED <<px, py, cwd, path, hist, head, count, nav, past, t, reg, running, quiet>>
    BY DEF Inv, Redraw, Doing, prompt, where, ring
  <1>2. /\ line \in Seq(Chars) /\ Len(line) \in Nat /\ Len(line) <= LINE_MAX - 1
        /\ cur \in 0 .. Len(line) /\ px \in Nat /\ W - 1 - px \in Nat /\ drawn \in Nat
    BY <1>1, Sizes, LenProperties DEF Types, Lines, Col
  <1>3. n \in Nat /\ n <= Len(line) /\ n <= W - 1 - px
    BY <1>2 DEF Min2
  <1> HIDE DEF n
  <1>4. line' \in Seq(Chars) /\ Len(line') = n
    <2>1. \A i \in 1 .. n : line[i] \in Chars
      BY <1>2, <1>3, ElementOfSeq
    <2>2. /\ SubSeq(line, 1, n) \in Seq(Chars)
          /\ Len(SubSeq(line, 1, n)) = IF 1 <= n THEN n - 1 + 1 ELSE 0
      BY <1>3, <2>1, SubSeqProperties
    <2>3. Len(line') = IF 1 <= n THEN n - 1 + 1 ELSE 0
      BY <1>1, <2>2
    <2> QED  BY <1>1, <1>3, <2>2, <2>3
  <1>5. line' \in Lines /\ px + Len(line') < W /\ cur' \in 0 .. Len(line') /\ drawn' \in Nat
    BY <1>1, <1>2, <1>3, <1>4, Sizes DEF Lines, Min2
  <1>6. row \in Seq(Outputs \ {MARK})
    <2>1. Chars \subseteq Outputs \ {MARK}
      BY GlyphsApart DEF Outputs, Glyphs, Ops
    <2>2. {HOME, SHOW, BLANK} \subseteq Outputs \ {MARK}
      BY DEF Outputs, Glyphs, Ops, HOME, SHOW, BLANK, MARK
    <2>3. line' \in Seq(Outputs \ {MARK})
      BY <1>4, <2>1, SeqMonotonic
    <2>4. gap \in Seq(Outputs \ {MARK})
      <3>1. PICK k \in Nat : 1 .. drawn - Len(line') = 1 .. k
        <4>1. drawn - Len(line') \in Int
          BY <1>2, <1>3, <1>4
        <4>2. CASE drawn - Len(line') >= 0
          BY <4>1, <4>2
        <4>3. CASE drawn - Len(line') < 0
          <5>1. 1 .. drawn - Len(line') = 1 .. 0
            BY <4>1, <4>3
          <5> QED  BY <5>1
        <4> QED  BY <4>1, <4>2, <4>3
      <3>2. gap \in [1 .. k -> Outputs \ {MARK}]
        BY <2>2, <3>1
      <3> QED  BY <3>2, SeqDef
    <2>5. <<HOME>> \in Seq(Outputs \ {MARK}) /\ <<SHOW>> \in Seq(Outputs \ {MARK})
      BY <2>2
    <2> HIDE DEF gap
    <2>6. <<HOME>> \o line' \in Seq(Outputs \ {MARK})
      BY <2>3, <2>5, ConcatProperties
    <2>7. <<HOME>> \o line' \o gap \in Seq(Outputs \ {MARK})
      BY <2>4, <2>6, ConcatProperties
    <2> QED  BY <2>5, <2>7, ConcatProperties
  <1> HIDE DEF row
  <1>7. todo' \in Seq(Outputs) /\ Marked(todo')
    BY <1>1, <1>6, Todo, TailMarked, MarkedConcat DEF LineIsCut
  <1>8. LineIsCut'
    BY <1>1, <1>5, <1>7 DEF LineIsCut
  <1>9. Types'
    BY <1>1, <1>5, <1>7 DEF Types
  <1>10. Cursor' /\ Ring' /\ Where'
    BY <1>1 DEF Inv, Cursor, Ring, HistGet, Where
  <1> QED  BY <1>8, <1>9, <1>10 DEF Inv

-----------------------------------------------------------------------------
(* The editor.                                                             *)

LEMMA EditKeeps ==
    ASSUME Inv, Ready, NEW l \in Lines, NEW c \in 0 .. Len(l), NEW out \in Seq(Outputs),
           Edit(l, c, out), Marked(out), Comes(REDRAW, out) \/ px + Len(l) < W
    PROVE  Types' /\ Cursor' /\ LineIsCut'
  <1>1. /\ Types /\ Cursor /\ pc = "next"
        /\ line' = l /\ cur' = c /\ todo' = out /\ UNCHANGED <<drawn, px, py, t, pc, reg, quiet>>
    BY DEF Inv, Ready, Edit, prompt, screen
  <1>2. Types'
    BY <1>1 DEF Types
  <1>3. Cursor'
    BY <1>1 DEF Cursor
  <1>4. LineIsCut'
    BY <1>1 DEF LineIsCut
  <1> QED  BY <1>2, <1>3, <1>4

LEMMA JustRedraw ==
    /\ <<REDRAW>> \in Seq(Outputs) /\ Marked(<<REDRAW>>) /\ Comes(REDRAW, <<REDRAW>>)
    /\ <<SHOW>> \in Seq(Outputs) /\ Marked(<<SHOW>>)
  <1>1. <<>> \in Seq(Outputs) /\ <<>> \o <<REDRAW>> = <<REDRAW>>
    <2>1. <<REDRAW>> \in Seq(Outputs)
      BY DEF Outputs, Ops
    <2> QED  BY <2>1, EmptySeq, ConcatEmptySeq
  <1>2. <<SHOW>> \in Seq(Outputs) /\ Len(<<SHOW>>) = 1 /\ <<SHOW>>[1] # MARK
    BY DEF Outputs, Ops, SHOW, MARK
  <1>3. Marked(<<SHOW>>)
    BY <1>2 DEF Marked
  <1> QED  BY <1>1, <1>2, <1>3, MarkedEnd

LEMMA EditRest ==
    ASSUME Inv, UNCHANGED <<where, ring, running>>
    PROVE  Ring' /\ Where'
  BY DEF Inv, Ring, HistGet, Where, where, ring

LEMMA LineFacts ==
    ASSUME Inv
    PROVE  /\ line \in Seq(Chars) /\ line \in Lines /\ Len(line) \in Nat
           /\ Len(line) <= LINE_MAX - 1 /\ cur \in 0 .. Len(line) /\ px \in Nat
           /\ \A i \in 1 .. Len(line) : line[i] \in Chars
           /\ Ready => px + Len(line) < W
  <1>1. /\ line \in Lines /\ line \in Seq(Chars) /\ Len(line) <= LINE_MAX - 1
        /\ cur \in 0 .. Len(line) /\ px \in Nat /\ LineIsCut
    BY DEF Inv, Types, Lines, Col
  <1>2. Len(line) \in Nat /\ \A i \in 1 .. Len(line) : line[i] \in Chars
    BY <1>1, LenProperties, ElementOfSeq
  <1>3. Ready => px + Len(line) < W
    <2>1. Len(<<>>) = 0
      OBVIOUS
    <2> QED  BY <1>1, <2>1 DEF Ready, LineIsCut, Comes
  <1> QED  BY <1>1, <1>2, <1>3

LEMMA OnCharStep ==
    ASSUME Inv, NEW c \in Chars, OnChar(c)
    PROVE  Inv'
  <1> DEFINE l == SubSeq(line, 1, (cur + 1) - 1) \o <<c>> \o SubSeq(line, cur + 1, Len(line))
  <1>1. /\ Ready /\ Len(line) < LINE_MAX - 1 /\ Edit(l, cur + 1, <<REDRAW>>)
        /\ UNCHANGED <<where, ring, running>>
    BY DEF OnChar, InsertAt
  <1>2. l \in Seq(Chars) /\ Len(l) = Len(line) + 1
    <2>1. (cur + 1) - 1 = cur /\ cur \in Int /\ cur + 1 \in Int /\ Len(line) \in Int /\ 1 \in Int
      BY LineFacts
    <2>2. \A i \in 1 .. cur : line[i] \in Chars
      BY LineFacts
    <2>3. \A i \in cur + 1 .. Len(line) : line[i] \in Chars
      BY LineFacts
    <2>4. SubSeq(line, 1, cur) \in Seq(Chars)
          /\ Len(SubSeq(line, 1, cur)) = IF 1 <= cur THEN cur - 1 + 1 ELSE 0
      BY <2>1, <2>2, SubSeqProperties
    <2>5. SubSeq(line, cur + 1, Len(line)) \in Seq(Chars)
          /\ Len(SubSeq(line, cur + 1, Len(line)))
               = IF cur + 1 <= Len(line) THEN Len(line) - (cur + 1) + 1 ELSE 0
      BY <2>1, <2>3, SubSeqProperties
    <2>6. <<c>> \in Seq(Chars) /\ Len(<<c>>) = 1
      OBVIOUS
    <2>7. SubSeq(line, 1, cur) \o <<c>> \in Seq(Chars)
          /\ Len(SubSeq(line, 1, cur) \o <<c>>) = Len(SubSeq(line, 1, cur)) + 1
      BY <2>4, <2>6, ConcatProperties
    <2>8. l \in Seq(Chars)
          /\ Len(l) = Len(SubSeq(line, 1, cur)) + 1 + Len(SubSeq(line, cur + 1, Len(line)))
      BY <2>1, <2>5, <2>7, ConcatProperties
    <2> QED  BY <2>4, <2>5, <2>8, LineFacts
  <1> HIDE DEF l
  <1>3. l \in Lines /\ cur + 1 \in 0 .. Len(l)
    BY <1>1, <1>2, LineFacts, Sizes DEF Lines
  <1> QED  BY <1>1, <1>3, JustRedraw, EditKeeps, EditRest DEF Inv

LEMMA KeyDeleteStep ==
    ASSUME Inv, KeyDelete
    PROVE  Inv'
  <1> DEFINE l == SubSeq(line, 1, (cur + 1) - 1) \o SubSeq(line, (cur + 1) + 1, Len(line))
  <1>1. /\ Ready /\ cur < Len(line) /\ Edit(l, cur, <<REDRAW>>)
        /\ UNCHANGED <<where, ring, running>>
    BY DEF KeyDelete, RemoveAt
  <1>2. l \in Seq(Chars) /\ Len(l) = Len(line) - 1
    <2>1. (cur + 1) - 1 = cur /\ cur \in Int /\ (cur + 1) + 1 \in Int /\ Len(line) \in Int /\ 1 \in Int
      BY LineFacts
    <2>2. \A i \in 1 .. cur : line[i] \in Chars
      BY LineFacts
    <2>3. \A i \in (cur + 1) + 1 .. Len(line) : line[i] \in Chars
      BY LineFacts
    <2>4. SubSeq(line, 1, cur) \in Seq(Chars)
          /\ Len(SubSeq(line, 1, cur)) = IF 1 <= cur THEN cur - 1 + 1 ELSE 0
      BY <2>1, <2>2, SubSeqProperties
    <2>5. SubSeq(line, (cur + 1) + 1, Len(line)) \in Seq(Chars)
          /\ Len(SubSeq(line, (cur + 1) + 1, Len(line)))
               = IF (cur + 1) + 1 <= Len(line) THEN Len(line) - ((cur + 1) + 1) + 1 ELSE 0
      BY <2>1, <2>3, SubSeqProperties
    <2>6. l \in Seq(Chars)
          /\ Len(l) = Len(SubSeq(line, 1, cur)) + Len(SubSeq(line, (cur + 1) + 1, Len(line)))
      BY <2>1, <2>4, <2>5, ConcatProperties
    <2> QED  BY <1>1, <2>4, <2>5, <2>6, LineFacts
  <1> HIDE DEF l
  <1>3. l \in Lines /\ cur \in 0 .. Len(l)
    BY <1>1, <1>2, LineFacts, Sizes DEF Lines
  <1> QED  BY <1>1, <1>3, JustRedraw, EditKeeps, EditRest DEF Inv

LEMMA CaretSteps ==
    ASSUME Inv, KeyLeft \/ KeyRight
    PROVE  Inv'
  <1>1. PICK c \in 0 .. Len(line) : Ready /\ Edit(line, c, <<SHOW>>)
    <2>1. KeyLeft => cur - 1 \in 0 .. Len(line)
      BY LineFacts DEF KeyLeft
    <2>2. KeyRight => cur + 1 \in 0 .. Len(line)
      BY LineFacts DEF KeyRight
    <2> QED  BY <2>1, <2>2 DEF KeyLeft, KeyRight
  <1>2. UNCHANGED <<where, ring, running>>
    BY DEF KeyLeft, KeyRight
  <1> QED  BY <1>1, <1>2, LineFacts, JustRedraw, EditKeeps, EditRest DEF Inv

(* What the ring returns is a line that was typed.                         *)
LEMMA WalkSteps ==
    ASSUME Inv, KeyUp \/ KeyDown
    PROVE  Inv'
  <1>1. /\ past \in Seq(Lines) /\ count = Len(past) /\ count \in Nat /\ nav \in 0 .. count
        /\ \A n \in 1 .. count : HistGet(n) \in Lines
    <2>1. past \in Seq(Lines) /\ count = Len(past) /\ nav \in 0 .. count
          /\ \A n \in 1 .. count : HistGet(n) = past[n]
      BY DEF Inv, Ring
    <2>2. Len(past) \in Nat /\ \A n \in 1 .. Len(past) : past[n] \in Lines
      BY <2>1, LenProperties, ElementOfSeq
    <2> QED  BY <2>1, <2>2
  <1>2. <<>> \in Lines
    BY Sizes DEF Lines
  <1>3. PICK l \in Lines, n \in 0 .. count : Ready /\ SetLine(l) /\ Recall(n)
    <2>1. CASE KeyUp
      <3> DEFINE n == IF nav < count THEN nav + 1 ELSE nav
      <3>1. Ready /\ count > 0 /\ SetLine(HistGet(n)) /\ Recall(n)
        BY <2>1 DEF KeyUp
      <3>2. n \in 1 .. count
        BY <1>1, <3>1
      <3> QED  BY <1>1, <3>1, <3>2
    <2>2. CASE KeyDown
      <3>1. /\ Ready /\ count > 0 /\ nav > 0 /\ Recall(nav - 1)
            /\ SetLine(IF nav > 1 THEN HistGet(nav - 1) ELSE <<>>)
        BY <2>2 DEF KeyDown
      <3>2. nav - 1 \in 0 .. count /\ (nav > 1 => nav - 1 \in 1 .. count)
        BY <1>1, <3>1
      <3> QED  BY <1>1, <1>2, <3>1, <3>2
    <2> QED  BY <2>1, <2>2
  <1>4. /\ Len(l) \in 0 .. Len(l) /\ Edit(l, Len(l), <<REDRAW>>)
        /\ nav' = n /\ UNCHANGED <<hist, head, count, past, where>>
    BY <1>3, LenProperties DEF SetLine, Recall, Lines
  <1>5. Types' /\ Cursor' /\ LineIsCut'
    BY <1>3, <1>4, JustRedraw, EditKeeps
  <1>6. Ring' /\ Where'
    BY <1>3, <1>4 DEF Inv, Ring, HistGet, Where, where
  <1> QED  BY <1>5, <1>6 DEF Inv

LEMMA PromptIsOutput ==
    ASSUME NEW p \in Seq(STRING)
    PROVE  Prompt(p) \in Seq(Outputs)
  <1> DEFINE dirs == [i \in DOMAIN p |-> ">"]
  <1>1. {NL, ">", MARK} \subseteq Outputs
    BY DEF Outputs, Glyphs, Ops, NL, MARK
  <1>2. dirs \in Seq(Outputs)
    <2>1. Len(p) \in Nat /\ DOMAIN p = 1 .. Len(p)
      BY LenProperties
    <2>2. dirs \in [1 .. Len(p) -> Outputs]
      BY <1>1, <2>1
    <2> QED  BY <2>1, <2>2, SeqDef
  <1>3. <<NL, ">">> \in Seq(Outputs) /\ <<">", MARK>> \in Seq(Outputs)
    BY <1>1
  <1> HIDE DEF dirs
  <1>4. <<NL, ">">> \o dirs \in Seq(Outputs)
    BY <1>2, <1>3, ConcatProperties
  <1>5. (<<NL, ">">> \o dirs) \o <<">", MARK>> \in Seq(Outputs)
    BY <1>3, <1>4, ConcatProperties
  <1> QED  BY <1>5 DEF Prompt, dirs

LEMMA WhereIsDir ==
    ASSUME Inv
    PROVE  path \in Seq(STRING) /\ path \in Dirs /\ cwd = path
  BY DirsAssumption DEF Inv, Where, DirsAssumption

LEMMA KeyTabStep ==
    ASSUME Inv, KeyTab
    PROVE  Inv'
  <1>1. UNCHANGED <<where, ring, running>> /\ Ready
    BY DEF KeyTab
  <1>2. CASE \E c \in Commands : SetLine(c)
    <2>1. PICK c \in Commands : SetLine(c)
      BY <1>2
    <2>2. c \in Seq(Chars) /\ c \in Lines /\ Len(c) \in 0 .. Len(c)
      BY CommandsAssumption, LenProperties DEF CommandsAssumption, Lines
    <2> QED  BY <1>1, <2>1, <2>2, JustRedraw, EditKeeps, EditRest DEF SetLine, Inv
  <1>3. CASE Edit(line, cur, <<NL, "o">> \o Prompt(path) \o <<REDRAW>>)
    <2> DEFINE s == <<NL, "o">> \o Prompt(path)
    <2>1. <<NL, "o">> \in Seq(Outputs)
      <3>1. {NL, "o"} \subseteq Outputs
        BY DEF Outputs, Glyphs, Ops
      <3> QED  BY <3>1
    <2>2. s \in Seq(Outputs)
      BY <2>1, WhereIsDir, PromptIsOutput, ConcatProperties
    <2>3. s \o <<REDRAW>> \in Seq(Outputs) /\ Comes(REDRAW, s \o <<REDRAW>>) /\ Marked(s \o <<REDRAW>>)
      BY <2>2, MarkedEnd
    <2> HIDE DEF s
    <2>4. Edit(line, cur, s \o <<REDRAW>>)
      BY <1>3 DEF s
    <2> QED  BY <1>1, <2>3, <2>4, LineFacts, EditKeeps, EditRest DEF Inv
  <1>4. (\E c \in Commands : SetLine(c)) \/ Edit(line, cur, <<NL, "o">> \o Prompt(path) \o <<REDRAW>>)
    <2> DEFINE matches == {c \in Commands : IsPrefix(line, c)}
    <2>1. IF \E c \in matches : matches = {c}
          THEN SetLine(CHOOSE c \in matches : TRUE)
          ELSE Edit(line, cur, <<NL, "o">> \o Prompt(path) \o <<REDRAW>>)
      BY DEF KeyTab
    <2>2. matches # {} => (CHOOSE c \in matches : TRUE) \in Commands
      <3>1. matches # {} => (CHOOSE c \in matches : TRUE) \in matches
        OBVIOUS
      <3> QED  BY <3>1
    <2> HIDE DEF matches
    <2> QED  BY <2>1, <2>2
  <1> QED  BY <1>2, <1>3, <1>4

-----------------------------------------------------------------------------
(* The history.                                                            *)

LEMMA Wrapped ==
    ASSUME NEW n \in Nat, n > 0, NEW i \in 0 .. n - 1
    PROVE  i % n = i /\ (i + n) % n = i
  OBVIOUS

LEMMA OtherPlace ==
    ASSUME NEW n \in Nat, n > 0, NEW i \in 0 .. n - 1, NEW k \in 1 .. n - 1
    PROVE  (i + n - k) % n \in 0 .. n - 1 /\ (i + n - k) % n # i
  <1>1. CASE k <= i
    <2>1. i - k \in 0 .. n - 1 /\ i + n - k = (i - k) + n /\ i - k # i
      BY <1>1
    <2> QED  BY <2>1, Wrapped
  <1>2. CASE ~(k <= i)
    <2>1. i + n - k \in 0 .. n - 1 /\ i + n - k # i
      BY <1>2
    <2> QED  BY <2>1, Wrapped
  <1> QED  BY <1>1, <1>2

(* The newest line stands one place below head, the older ones below it,   *)
(* round the ring; a push moves head up by one and so every line down.     *)
LEMMA PushedKeeps ==
    ASSUME Inv, NEW l \in Lines, Pushed(l)
    PROVE  Ring'
  <1>1. Ring
    BY DEF Inv
  <1>2. CASE UNCHANGED ring
    BY <1>1, <1>2 DEF Ring, HistGet, ring
  <1>3. CASE /\ hist' = [hist EXCEPT ![head] = l]
             /\ head' = (head + 1) % HIST_MAX
             /\ count' = Min2(count + 1, HIST_MAX)
             /\ nav' = 0
             /\ past' = SubSeq(<<l>> \o past, 1, Min2(Len(past) + 1, HIST_MAX))
    <2>1. /\ past \in Seq(Lines) /\ count = Len(past) /\ count \in Nat /\ count <= HIST_MAX
          /\ hist \in [0 .. HIST_MAX - 1 -> Lines] /\ head \in 0 .. HIST_MAX - 1
          /\ HIST_MAX \in Nat /\ HIST_MAX > 0
      BY <1>1, Sizes, LenProperties DEF Ring
    <2>2. PICK c \in Nat : c = Min2(count + 1, HIST_MAX)
      BY <2>1 DEF Min2
    <2>3. c \in 1 .. HIST_MAX /\ c <= count + 1
      BY <2>1, <2>2 DEF Min2
    <2>4. <<l>> \in Seq(Lines) /\ Len(<<l>>) = 1 /\ <<l>>[1] = l
      OBVIOUS
    <2>5. /\ <<l>> \o past \in Seq(Lines) /\ Len(<<l>> \o past) = 1 + Len(past)
          /\ \A i \in 1 .. 1 + Len(past) : (<<l>> \o past)[i] = IF i <= 1 THEN <<l>>[i] ELSE past[i - 1]
      BY <2>1, <2>4, ConcatProperties
    <2>6. \A i \in 1 .. c : (<<l>> \o past)[i] \in Lines
      BY <2>1, <2>3, <2>5, ElementOfSeq
    <2>7. /\ past' \in Seq(Lines)
          /\ Len(past') = IF 1 <= c THEN c - 1 + 1 ELSE 0
          /\ \A i \in 1 .. c - 1 + 1 : past'[i] = (<<l>> \o past)[1 + i - 1]
      <3>1. past' = SubSeq(<<l>> \o past, 1, c)
        BY <1>3, <2>1, <2>2
      <3>2. 1 \in Int /\ c \in Int
        BY <2>2
      <3>3. /\ SubSeq(<<l>> \o past, 1, c) \in Seq(Lines)
            /\ Len(SubSeq(<<l>> \o past, 1, c)) = IF 1 <= c THEN c - 1 + 1 ELSE 0
            /\ \A i \in 1 .. c - 1 + 1 : SubSeq(<<l>> \o past, 1, c)[i] = (<<l>> \o past)[1 + i - 1]
        <4>1. PICK q : q = <<l>> \o past
          OBVIOUS
        <4>2. \A i \in 1 .. c : q[i] \in Lines
          BY <2>6, <4>1
        <4>3. /\ SubSeq(q, 1, c) \in Seq(Lines)
              /\ Len(SubSeq(q, 1, c)) = IF 1 <= c THEN c - 1 + 1 ELSE 0
              /\ \A i \in 1 .. c - 1 + 1 : SubSeq(q, 1, c)[i] = q[1 + i - 1]
          BY <3>2, <4>2, SubSeqProperties
        <4> QED  BY <4>1, <4>3
      <3> QED  BY <3>1, <3>3
    <2>8. Len(past') = c /\ \A i \in 1 .. c : past'[i] = IF i = 1 THEN l ELSE past[i - 1]
      <3>1. Len(past') = c
        BY <2>3, <2>7
      <3>2. ASSUME NEW i \in 1 .. c  PROVE past'[i] = IF i = 1 THEN l ELSE past[i - 1]
        <4>1. i \in 1 .. c - 1 + 1 /\ 1 + i - 1 = i /\ i \in 1 .. 1 + Len(past) /\ (i <= 1 <=> i = 1)
          BY <2>1, <2>3
        <4>2. past'[i] = (<<l>> \o past)[i]
          BY <2>7, <4>1
        <4> QED  BY <2>4, <2>5, <4>1, <4>2
      <3> QED  BY <3>1, <3>2
    <2>9. head' = IF head = HIST_MAX - 1 THEN 0 ELSE head + 1
      <3>1. CASE head = HIST_MAX - 1
        <4>1. 0 \in 0 .. HIST_MAX - 1 /\ head + 1 = 0 + HIST_MAX
          BY <2>1, <3>1
        <4>2. (0 + HIST_MAX) % HIST_MAX = 0
          BY <2>1, <4>1, Wrapped
        <4> QED  BY <1>3, <3>1, <4>1, <4>2
      <3>2. CASE head # HIST_MAX - 1
        <4>1. head + 1 \in 0 .. HIST_MAX - 1
          BY <2>1, <3>2
        <4>2. (head + 1) % HIST_MAX = head + 1
          BY <2>1, <4>1, Wrapped
        <4> QED  BY <1>3, <3>2, <4>2
      <3> QED  BY <3>1, <3>2
    <2>10. hist' \in [0 .. HIST_MAX - 1 -> Lines] /\ head' \in 0 .. HIST_MAX - 1
      BY <1>3, <2>1, <2>9
    <2>11. ASSUME NEW n \in 1 .. c
           PROVE  hist'[(head' + HIST_MAX - n) % HIST_MAX] = past'[n]
      <3>1. CASE n = 1
        <4>1. (head' + HIST_MAX - 1) % HIST_MAX = head
          <5>1. CASE head = HIST_MAX - 1
            BY <2>1, <2>9, <5>1
          <5>2. CASE head # HIST_MAX - 1
            <6>1. head' + HIST_MAX - 1 = head + HIST_MAX /\ head \in 0 .. HIST_MAX - 1
              BY <2>1, <2>9, <5>2
            <6>2. (head + HIST_MAX) % HIST_MAX = head
              BY <2>1, Wrapped
            <6> QED  BY <6>1, <6>2
          <5> QED  BY <5>1, <5>2
        <4>2. hist'[head] = l
          BY <1>3, <2>1
        <4> QED  BY <2>3, <2>8, <3>1, <4>1, <4>2
      <3>2. CASE n # 1
        <4>1. n - 1 \in 1 .. count /\ n - 1 \in 1 .. HIST_MAX - 1
          BY <2>1, <2>3, <3>2
        <4>2. (head' + HIST_MAX - n) % HIST_MAX = (head + HIST_MAX - (n - 1)) % HIST_MAX
          <5>1. CASE head = HIST_MAX - 1
            <6>1. head + HIST_MAX - (n - 1) = (HIST_MAX - n) + HIST_MAX
                  /\ head' + HIST_MAX - n = HIST_MAX - n /\ HIST_MAX - n \in 0 .. HIST_MAX - 1
              BY <2>1, <2>3, <2>9, <5>1
            <6> QED  BY <2>1, <6>1, Wrapped
          <5>2. CASE head # HIST_MAX - 1
            BY <2>1, <2>9, <5>2
          <5> QED  BY <5>1, <5>2
        <4>3. /\ (head + HIST_MAX - (n - 1)) % HIST_MAX \in 0 .. HIST_MAX - 1
              /\ (head + HIST_MAX - (n - 1)) % HIST_MAX # head
          BY <2>1, <4>1, OtherPlace
        <4>4. hist'[(head' + HIST_MAX - n) % HIST_MAX] = hist[(head + HIST_MAX - (n - 1)) % HIST_MAX]
          BY <1>3, <2>1, <4>2, <4>3
        <4>5. hist[(head + HIST_MAX - (n - 1)) % HIST_MAX] = past[n - 1]
          BY <1>1, <4>1 DEF Ring, HistGet
        <4> QED  BY <2>8, <3>2, <4>4, <4>5
      <3> QED  BY <3>1, <3>2
    <2>12. count' = c /\ nav' \in 0 .. c
      BY <1>3, <2>2
    <2> QED  BY <2>3, <2>7, <2>8, <2>10, <2>11, <2>12 DEF Ring, HistGet
  <1> QED  BY <1>2, <1>3 DEF Pushed

-----------------------------------------------------------------------------
(* The commands.                                                           *)

LEMMA ExecuteKeeps ==
    ASSUME Inv, NEW out \in Seq(Outputs), NEW p \in Seq(STRING), Execute(out, p)
    PROVE  Types' /\ Cursor' /\ LineIsCut' /\ Ring'
  <1>1. Ready /\ Pushed(line) /\ Edit(<<>>, 0, <<NL>> \o out \o Prompt(p) \o <<REDRAW>>)
    BY DEF Execute
  <1> DEFINE s == <<NL>> \o out \o Prompt(p)
  <1>2. s \in Seq(Outputs)
    <2>1. <<NL>> \in Seq(Outputs)
      <3>1. NL \in Outputs
        BY DEF Outputs, Ops
      <3> QED  BY <3>1
    <2>2. <<NL>> \o out \in Seq(Outputs)
      BY <2>1, ConcatProperties
    <2>3. Prompt(p) \in Seq(Outputs)
      BY PromptIsOutput
    <2> QED  BY <2>2, <2>3, ConcatProperties
  <1>3. Edit(<<>>, 0, s \o <<REDRAW>>)
    BY <1>1
  <1> HIDE DEF s
  <1>4. s \o <<REDRAW>> \in Seq(Outputs) /\ Comes(REDRAW, s \o <<REDRAW>>) /\ Marked(s \o <<REDRAW>>)
    BY <1>2, MarkedEnd
  <1>5. <<>> \in Lines /\ 0 \in 0 .. Len(<<>>)
    BY Sizes DEF Lines
  <1>6. Types' /\ Cursor' /\ LineIsCut'
    BY <1>1, <1>3, <1>4, <1>5, EditKeeps
  <1>7. Ring'
    BY <1>1, LineFacts, PushedKeeps
  <1> QED  BY <1>6, <1>7

LEMMA SaySteps ==
    ASSUME Inv, \/ \E out \in {<<>>, <<"o">>, <<"o", NL>>} : Say(out)
                \/ Clear
                \/ Exec
    PROVE  Inv'
  <1>1. path \in Seq(STRING)
    BY WhereIsDir
  <1>2. {"o", NL, CLEAR, REDRAW} \subseteq Outputs
    BY DEF Outputs, Glyphs, Ops
  <1>3. PICK out \in Seq(Outputs) : Execute(out, path)
    <2>1. ASSUME NEW out \in {<<>>, <<"o">>, <<"o", NL>>}, Say(out)
          PROVE  \E o \in Seq(Outputs) : Execute(o, path)
      <3>1. <<>> \in Seq(Outputs) /\ <<"o">> \in Seq(Outputs) /\ <<"o", NL>> \in Seq(Outputs)
        BY <1>2
      <3>2. out \in Seq(Outputs)
        BY <3>1, <2>1
      <3> QED  BY <3>2, <2>1 DEF Say
    <2>2. CASE Clear
      <3>1. <<CLEAR>> \in Seq(Outputs) /\ <<REDRAW>> \in Seq(Outputs)
        BY <1>2
      <3>2. Prompt(path) \in Seq(Outputs)
        BY <1>1, PromptIsOutput
      <3>3. <<CLEAR>> \o Prompt(path) \in Seq(Outputs)
        BY <3>1, <3>2, ConcatProperties
      <3>4. <<CLEAR>> \o Prompt(path) \o <<REDRAW>> \in Seq(Outputs)
        BY <3>1, <3>3, ConcatProperties
      <3> QED  BY <3>4, <2>2 DEF Clear
    <2>3. CASE Exec
      <3>1. <<"o", NL>> \in Seq(Outputs)
        BY <1>2
      <3> QED  BY <3>1, <2>3 DEF Exec
    <2> QED  BY <2>1, <2>2, <2>3
  <1>4. UNCHANGED where
    BY DEF Say, Clear, Exec
  <1>5. Where'
    BY <1>4 DEF Inv, Where, where
  <1> QED  BY <1>1, <1>3, <1>5, ExecuteKeeps DEF Inv

-----------------------------------------------------------------------------
(* cd: the directory is found by the entries, its name by the text.        *)

Less == {p \in Nat \X Nat : p[1] < p[2]}

LEMMA LessIsWellFounded == IsWellFoundedOn(Less, Nat)
  BY NatLessThanWellFounded DEF OpToRel, Less

IsWalk(h, n, d, s) == h = [i \in 0 .. n |-> IF i = 0 THEN d ELSE Down(h[i - 1], s[i])]
IsText(h, n, d, s) == h = [i \in 0 .. n |-> IF i = 0 THEN d ELSE Component(h[i - 1], s[i])]

LEMMA AWalk ==
    ASSUME NEW d, NEW s, NEW N \in Nat
    PROVE  \E h : IsWalk(h, N, d, s)
  <1> DEFINE T == {n \in Nat : ~ \E h : IsWalk(h, n, d, s)}
  <1> SUFFICES ASSUME T # {} PROVE FALSE
    OBVIOUS
  <1>1. PICK m \in T : \A y \in T : ~(<<y, m>> \in Less)
    <2>1. T \subseteq Nat
      OBVIOUS
    <2> QED  BY <2>1, LessIsWellFounded, WFMin
  <1>2. CASE m = 0
    <2>1. IsWalk([i \in 0 .. 0 |-> d], 0, d, s)
      BY DEF IsWalk
    <2> QED  BY <1>2, <2>1
  <1>3. CASE m # 0
    <2>1. m - 1 \in Nat /\ m \in Nat
      BY <1>3
    <2>2. <<m - 1, m>> \in Less
      BY <2>1 DEF Less
    <2>3. PICK h : IsWalk(h, m - 1, d, s)
      BY <1>1, <2>1, <2>2
    <2> DEFINE k == [i \in 0 .. m |-> IF i = m THEN Down(h[m - 1], s[m]) ELSE h[i]]
    <2>4. ASSUME NEW i \in 0 .. m  PROVE k[i] = IF i = 0 THEN d ELSE Down(k[i - 1], s[i])
      <3>1. CASE i = m
        <4>1. k[i - 1] = h[m - 1] /\ i # 0
          BY <1>3, <2>1, <3>1
        <4> QED  BY <3>1, <4>1
      <3>2. CASE i # m
        <4>1. i \in 0 .. m - 1
          BY <2>1, <3>2
        <4>2. h[i] = IF i = 0 THEN d ELSE Down(h[i - 1], s[i])
          BY <2>3, <4>1 DEF IsWalk
        <4>3. k[i] = h[i] /\ (i # 0 => k[i - 1] = h[i - 1])
          BY <2>1, <3>2, <4>1
        <4> QED  BY <4>2, <4>3
      <3> QED  BY <3>1, <3>2
    <2>5. IsWalk(k, m, d, s)
      BY <2>4 DEF IsWalk
    <2> QED  BY <2>5
  <1> QED  BY <1>2, <1>3

LEMMA AText ==
    ASSUME NEW d, NEW s, NEW N \in Nat
    PROVE  \E h : IsText(h, N, d, s)
  <1> DEFINE T == {n \in Nat : ~ \E h : IsText(h, n, d, s)}
  <1> SUFFICES ASSUME T # {} PROVE FALSE
    OBVIOUS
  <1>1. PICK m \in T : \A y \in T : ~(<<y, m>> \in Less)
    <2>1. T \subseteq Nat
      OBVIOUS
    <2> QED  BY <2>1, LessIsWellFounded, WFMin
  <1>2. CASE m = 0
    <2>1. IsText([i \in 0 .. 0 |-> d], 0, d, s)
      BY DEF IsText
    <2> QED  BY <1>2, <2>1
  <1>3. CASE m # 0
    <2>1. m - 1 \in Nat /\ m \in Nat
      BY <1>3
    <2>2. <<m - 1, m>> \in Less
      BY <2>1 DEF Less
    <2>3. PICK h : IsText(h, m - 1, d, s)
      BY <1>1, <2>1, <2>2
    <2> DEFINE k == [i \in 0 .. m |-> IF i = m THEN Component(h[m - 1], s[m]) ELSE h[i]]
    <2>4. ASSUME NEW i \in 0 .. m  PROVE k[i] = IF i = 0 THEN d ELSE Component(k[i - 1], s[i])
      <3>1. CASE i = m
        <4>1. k[i - 1] = h[m - 1] /\ i # 0
          BY <1>3, <2>1, <3>1
        <4> QED  BY <3>1, <4>1
      <3>2. CASE i # m
        <4>1. i \in 0 .. m - 1
          BY <2>1, <3>2
        <4>2. h[i] = IF i = 0 THEN d ELSE Component(h[i - 1], s[i])
          BY <2>3, <4>1 DEF IsText
        <4>3. k[i] = h[i] /\ (i # 0 => k[i - 1] = h[i - 1])
          BY <2>1, <3>2, <4>1
        <4> QED  BY <4>2, <4>3
      <3> QED  BY <3>1, <3>2
    <2>5. IsText(k, m, d, s)
      BY <2>4 DEF IsText
    <2> QED  BY <2>5
  <1> QED  BY <1>2, <1>3

(* One component, from a directory named by its path.                      *)
LEMMA DownAgrees ==
    ASSUME NEW d \in Dirs, NEW n, d # NotFound, Down(d, n) # NotFound
    PROVE  Down(d, n) = Component(d, n) /\ Down(d, n) \in Dirs
  <1>1. d # <<>> => Front(d) \in Dirs
    BY DirsAssumption DEF DirsAssumption
  <1>2. CASE n = "."
    BY <1>2 DEF Down, Component
  <1>3. CASE n = ".."
    BY <1>1, <1>3 DEF Down, Component
  <1>4. CASE n # "." /\ n # ".."
    BY <1>4 DEF Down, Component
  <1> QED  BY <1>2, <1>3, <1>4

LEMMA WalksAgree ==
    ASSUME NEW d \in Dirs, NEW s, NEW N \in Nat, NEW h, NEW g,
           IsWalk(h, N, d, s), IsText(g, N, d, s), h[N] # NotFound
    PROVE  h[N] = g[N] /\ h[N] \in Dirs
  <1> DEFINE Good(i) == h[i] # NotFound => h[i] = g[i] /\ h[i] \in Dirs
             T == {n \in Nat : n <= N /\ ~Good(n)}
  <1>1. ASSUME T # {} PROVE FALSE
    <2>1. PICK m \in T : \A y \in T : ~(<<y, m>> \in Less)
      <3>1. T \subseteq Nat
        OBVIOUS
      <3> QED  BY <1>1, <3>1, LessIsWellFounded, WFMin
    <2>2. m \in 0 .. N /\ ~Good(m)
      OBVIOUS
    <2>3. h[m] = (IF m = 0 THEN d ELSE Down(h[m - 1], s[m]))
          /\ g[m] = (IF m = 0 THEN d ELSE Component(g[m - 1], s[m]))
      BY <2>2 DEF IsWalk, IsText
    <2>4. CASE m = 0
      BY <2>2, <2>3, <2>4
    <2>5. CASE m # 0
      <3>1. m - 1 \in Nat /\ m - 1 <= N /\ <<m - 1, m>> \in Less
        BY <2>2, <2>5 DEF Less
      <3>2. Good(m - 1)
        BY <2>1, <3>1
      <3>3. CASE h[m - 1] = NotFound
        BY <2>2, <2>3, <2>5, <3>3 DEF Down
      <3>4. CASE h[m - 1] # NotFound
        BY <2>2, <2>3, <2>5, <3>2, <3>4, DownAgrees
      <3> QED  BY <3>3, <3>4
    <2> QED  BY <2>4, <2>5
  <1>2. Good(N)
    BY <1>1
  <1> QED  BY <1>2

LEMMA CdAgrees ==
    ASSUME Inv, NEW a \in CdArgs, Resolved(a) # NotFound
    PROVE  Resolved(a) = Normalized(a) /\ Resolved(a) \in Dirs
  <1>1. PICK d \in Dirs : d = (IF a.abs THEN <<>> ELSE cwd) /\ d = (IF a.abs THEN <<>> ELSE path)
    BY WhereIsDir, DirsAssumption DEF DirsAssumption
  <1>2. PICK N \in Nat : N = Len(a.names)
    BY ArgsAssumption, LenProperties DEF ArgsAssumption
  <1>3. PICK h : h = CHOOSE f : IsWalk(f, N, d, a.names)
    OBVIOUS
  <1>4. PICK g : g = CHOOSE f : IsText(f, N, d, a.names)
    OBVIOUS
  <1>5. IsWalk(h, N, d, a.names) /\ IsText(g, N, d, a.names)
    BY <1>3, <1>4, AWalk, AText
  <1>6. Resolved(a) = h[N]
    BY <1>1, <1>2, <1>3, Zenon DEF Resolved, IsWalk
  <1>7. Normalized(a) = g[N]
    BY <1>1, <1>2, <1>4, Zenon DEF Normalized, IsText
  <1> QED  BY <1>5, <1>6, <1>7, WalksAgree

LEMMA CdStep ==
    ASSUME Inv, NEW a \in CdArgs, Cd(a)
    PROVE  Inv'
  <1>1. CASE Resolved(a) = NotFound
    <2>1. UNCHANGED where /\ Execute(<<"o", NL>>, path)
      BY <1>1 DEF Cd
    <2>2. <<"o", NL>> \in Seq(Outputs)
      <3>1. {"o", NL} \subseteq Outputs
        BY DEF Outputs, Glyphs, Ops
      <3> QED  BY <3>1
    <2>3. Where'
      BY <2>1 DEF Inv, Where, where
    <2> QED  BY <2>1, <2>2, <2>3, WhereIsDir, ExecuteKeeps DEF Inv
  <1>2. CASE Resolved(a) # NotFound
    <2>1. cwd' = Resolved(a) /\ path' = Normalized(a) /\ Execute(<<>>, Normalized(a))
      BY <1>2 DEF Cd
    <2>2. Normalized(a) \in Dirs /\ Normalized(a) \in Seq(STRING) /\ Resolved(a) = Normalized(a)
      BY <1>2, CdAgrees, DirsAssumption DEF DirsAssumption
    <2>3. <<>> \in Seq(Outputs)
      OBVIOUS
    <2>4. Where'
      BY <2>1, <2>2 DEF Where
    <2> QED  BY <2>1, <2>2, <2>3, <2>4, ExecuteKeeps DEF Inv
  <1> QED  BY <1>1, <1>2

-----------------------------------------------------------------------------
(* The theorems.                                                           *)

LEMMA InitInv == Init => Inv
  <1> SUFFICES ASSUME Init PROVE Inv
    OBVIOUS
  <1>1. <<>> \in Lines /\ <<>> \in Seq(Lines) /\ Len(<<>>) = 0 /\ 0 \in Col /\ 0 \in Row
    BY Sizes DEF Lines, Col, Row
  <1>2. t \in Screens /\ t.cx = 0 /\ t.cy = 0
    BY BlankScreen DEF Init, Screens
  <1>3. reg \in Regs
    BY DEF Init, Regs
  <1>4. todo \in Seq(Outputs) /\ Comes(REDRAW, todo) /\ Marked(todo)
    <2> DEFINE s == <<"o", NL>> \o Prompt(<<>>)
    <2>1. s \in Seq(Outputs)
      <3>1. {"o", NL} \subseteq Outputs
        BY DEF Outputs, Glyphs, Ops
      <3>2. <<"o", NL>> \in Seq(Outputs)
        BY <3>1
      <3>3. <<>> \in Seq(STRING)
        OBVIOUS
      <3> QED  BY <3>2, <3>3, PromptIsOutput, ConcatProperties
    <2>2. todo = s \o <<REDRAW>>
      BY DEF Init
    <2> HIDE DEF s
    <2> QED  BY <2>1, <2>2, MarkedEnd
  <1>5. Types
    BY <1>1, <1>2, <1>3, <1>4 DEF Init, Types
  <1>6. Cursor
    BY <1>1, <1>2 DEF Init, Cursor
  <1>7. LineIsCut
    BY <1>4 DEF LineIsCut
  <1>8. Ring
    <2>1. hist \in [0 .. HIST_MAX - 1 -> Lines] /\ head \in 0 .. HIST_MAX - 1
      BY <1>1, Sizes DEF Init
    <2>2. past = <<>> /\ count = 0 /\ nav = 0
      BY DEF Init
    <2> QED  BY <1>1, <2>1, <2>2, Sizes DEF Ring
  <1>9. Where
    BY DirsAssumption DEF Init, Where, DirsAssumption
  <1> QED  BY <1>5, <1>6, <1>7, <1>8, <1>9 DEF Inv

LEMMA StepInv == Inv /\ [Next]_vars => Inv'
  <1> SUFFICES ASSUME Inv, [Next]_vars PROVE Inv'
    OBVIOUS
  <1>1. CASE UNCHANGED vars
    <2>1. UNCHANGED <<line, cur, drawn, px, py, cwd, path, hist, head, count, nav, past,
                      t, pc, reg, todo, quiet>>
      BY <1>1 DEF vars, editor, prompt, where, ring, screen
    <2>2. Types' /\ LineIsCut' /\ Where'
      BY <2>1 DEF Inv, Types, LineIsCut, Where
    <2>3. Cursor'
      BY <2>1 DEF Inv, Cursor, IsChar
    <2>4. Ring'
      BY <2>1 DEF Inv, Ring, HistGet
    <2> QED  BY <2>2, <2>3, <2>4 DEF Inv
  <1>2. CASE \E c \in {"o", NL} : ProgramWrites(c)
    BY <1>2, ProgramStep
  <1>3. CASE Output
    BY <1>3, PutNewlineStep, PutCheckStep, PutStoreStep, PutIncStep, PutWrapStep,
       PutScrollStep, MoveCursorStep, MarkStep, RedrawStep DEF Output
  <1>4. CASE Event
    <2>1. CASE \E c \in Chars : OnChar(c)
      BY <2>1, OnCharStep
    <2>2. CASE KeyLeft \/ KeyRight
      BY <2>2, CaretSteps
    <2>3. CASE KeyDelete
      BY <2>3, KeyDeleteStep
    <2>4. CASE KeyUp \/ KeyDown
      BY <2>4, WalkSteps
    <2>5. CASE KeyTab
      BY <2>5, KeyTabStep
    <2>6. CASE (\E out \in {<<>>, <<"o">>, <<"o", NL>>} : Say(out)) \/ Clear \/ Exec
      BY <2>6, SaySteps
    <2>7. CASE \E a \in CdArgs : Cd(a)
      BY <2>7, CdStep
    <2> QED  BY <1>4, <2>1, <2>2, <2>3, <2>4, <2>5, <2>6, <2>7 DEF Event
  <1> QED  BY <1>1, <1>2, <1>3, <1>4 DEF Next

THEOREM Invariance == Spec => []Inv
  BY InitInv, StepInv, PTL DEF Spec

(* Every character of the shell is stored inside g_cells, wherever between *)
(* the checks of the cursor and the store a program's output moves it      *)
(* (terminal.c:86-92), and a line never outgrows its buffer or its row.    *)
THEOREM StoresLandInTheGrid == Spec => []TypeOK
  <1>1. Inv => TypeOK
    <2> SUFFICES ASSUME Inv PROVE TypeOK
      OBVIOUS
    <2>1. pc = "store" => Xs \subseteq Col /\ Ys \subseteq Row
      BY DEF Inv, Cursor, Xs, Ys
    <2>2. pc = "next" => t.cx \in Col /\ t.cy \in Row
      BY DEF Inv, Cursor
    <2>3. px \in Col /\ py \in Row
      BY DEF Inv, Types
    <2> QED  BY <2>1, <2>2, <2>3, LineFacts DEF TypeOK
  <1> QED  BY <1>1, Invariance, PTL

(* hist_get(n) is the n-th newest line that was pushed, for any size of    *)
(* the ring and however often it went round, and the keys never walk to a  *)
(* line that is gone (shell.c's hist_push, hist_get).                      *)
THEOREM RingReturnsTheNewest == Spec => []RecallIsRecent
  <1>1. Inv => RecallIsRecent
    <2> SUFFICES ASSUME Inv PROVE RecallIsRecent
      OBVIOUS
    <2>1. Ring
      BY DEF Inv
    <2>2. count \in Nat
      BY <2>1, LenProperties DEF Ring
    <2>3. nav <= count
      BY <2>1, <2>2 DEF Ring
    <2> QED  BY <2>1, <2>3 DEF Ring, RecallIsRecent
  <1> QED  BY <1>1, Invariance, PTL

(* The prompt shows the path of the directory commands work in: for any    *)
(* tree of directories and any argument of cd, the walk over the entries   *)
(* (fat32_resolve_dir) and the walk over the text (path_normalize) agree   *)
(* wherever the first one succeeds.                                        *)
THEOREM PromptNamesTheDirectory == Spec => []PathIsCwd
  <1>1. Inv => PathIsCwd
    BY DEF Inv, Where, PathIsCwd
  <1> QED  BY <1>1, Invariance, PTL

-----------------------------------------------------------------------------
(* What the user sees.                                                     *)

(* The output still to be written, s: a prompt is followed by its redraw,  *)
(* a line is drawn from HOME to SHOW, and nothing but a newline comes      *)
(* behind what puts the cursor into the line.                              *)
Shape(s) ==
    /\ \A i \in 1 .. Len(s) :
          /\ s[i] = MARK => i < Len(s) /\ s[i + 1] = REDRAW
          /\ s[i] = REDRAW => i = 1 \/ s[i - 1] = MARK
          /\ s[i] \in {SHOW, REDRAW} => i = Len(s) \/ s[i + 1] = NL
          /\ s[i] = HOME => i = 1 /\ Comes(SHOW, s)
          /\ s[i] = SHOW => \A j \in 1 .. i - 1 : s[j] \in Glyphs \/ s[j] = HOME
    /\ s # <<>> => s[Len(s)] \in {SHOW, REDRAW}

BlankBelow(g, y)   == \A r \in Row : r > y => \A x \in Col : g[r][x] = BLANK
BlankFrom(g, y, c) == y \in Row => \A x \in Col : x >= c => g[y][x] = BLANK

(* What column x is to show of line l behind a prompt that ends at p.      *)
Want(l, p, x) == IF x - p < Len(l) THEN l[x - p + 1] ELSE BLANK
Shows(r, l, p) == \A x \in p .. W - 1 : r[x] = Want(l, p, x)

(* The characters of s up to its k-th, SHOW, written into row r from       *)
(* column c on, complete it.                                               *)
CompletesAt(r, l, p, s, c, k) ==
    /\ k \in 1 .. Len(s) /\ s[k] = SHOW
    /\ p <= c /\ c + k - 1 < W
    /\ \A x \in p .. W - 1 :
          IF c <= x /\ x < c + k - 1 THEN s[x - c + 1] = Want(l, p, x) ELSE r[x] = Want(l, p, x)

Completes(r, l, p, s, c) == \E k \in 1 .. Len(s) : CompletesAt(r, l, p, s, c, k)

Between == todo = <<>> => t.cx = px + cur /\ t.cy = py /\ Shows(t.cells[py], line, px)

DrawsLine ==
    Comes(SHOW, todo) =>
       IF Head(todo) = HOME THEN Completes(t.cells[py], line, px, Tail(todo), px)
       ELSE /\ t.cy = py /\ pc # "scroll"
            /\ Completes(t.cells[py], line, px, IF pc = "wrap" THEN Tail(todo) ELSE todo, t.cx)

LineStands ==
    todo = <<>> \/ Comes(SHOW, todo) =>
       drawn = Len(line) /\ px + Len(line) < W /\ BlankBelow(t.cells, py)

(* A redraw finds behind the prompt what it blanks, and nothing else.      *)
WillRedraw ==
    todo # <<>> /\ Head(todo) = REDRAW =>
       px + drawn < W /\ BlankFrom(t.cells, py, px + drawn) /\ BlankBelow(t.cells, py)

(* What a command says, and the prompt, are written on an empty screen.    *)
WritesOutput ==
    todo # <<>> /\ Head(todo) # REDRAW /\ ~Comes(SHOW, todo) =>
       /\ BlankBelow(t.cells, t.cy)
       /\ pc # "next" \/ Head(todo) \notin {NL, CLEAR}
             => BlankFrom(t.cells, t.cy, IF pc = "inc" THEN t.cx + 1 ELSE t.cx)

(* With no program writing, memory and register agree.                     *)
InStep ==
    /\ reg.x = t.cx /\ reg.y = t.cy
    /\ pc = "inc" => t.cells[t.cy][t.cx] = Head(todo)
    /\ pc = "scroll" => t.cx = 0

Screen == Shape(todo) /\ (quiet => InStep /\ Between /\ DrawsLine /\ LineStands /\ WillRedraw /\ WritesOutput)

LEMMA StepOutputs ==
    ASSUME NEW s \in Seq(Outputs), Shape(s), s # <<>>
    PROVE  /\ s[1] \in {NL, CLEAR, MARK, REDRAW} => ~Comes(SHOW, s) /\ ~Comes(HOME, s)
           /\ s[1] = MARK => Len(s) > 1 /\ s[2] = REDRAW
           /\ s[1] \in {SHOW, REDRAW} => Len(s) = 1 \/ s[2] = NL
           /\ s[1] \in Glyphs \cup {NL, CLEAR, HOME} => Len(s) > 1 /\ s[2] # REDRAW
           /\ s[1] = HOME => Comes(SHOW, s)
  <1>1. Len(s) \in Nat /\ Len(s) >= 1 /\ 1 \in 1 .. Len(s) /\ Len(s) \in 1 .. Len(s)
    BY EmptySeq, LenProperties
  <1>2. NL \notin Glyphs /\ CLEAR \notin Glyphs /\ MARK \notin Glyphs /\ REDRAW \notin Glyphs
        /\ SHOW \notin Glyphs /\ HOME \notin Glyphs
    BY GlyphsApart DEF Ops
  <1>3. /\ HOME \notin {NL, CLEAR, MARK, REDRAW, SHOW} /\ SHOW \notin {NL, CLEAR, MARK, REDRAW}
        /\ MARK \notin {NL, CLEAR, REDRAW} /\ REDRAW \notin {NL, CLEAR}
    BY DEF NL, CLEAR, MARK, REDRAW, HOME, SHOW
  <1>4. ASSUME s[1] \in {NL, CLEAR, MARK, REDRAW} PROVE ~Comes(SHOW, s)
    <2>. SUFFICES ASSUME NEW k \in 1 .. Len(s), s[k] = SHOW PROVE FALSE
      BY DEF Comes
    <2>1. k # 1
      BY <1>3, <1>4
    <2>2. 1 \in 1 .. k - 1
      BY <1>1, <2>1
    <2>3. s[1] \in Glyphs \/ s[1] = HOME
      BY <2>2 DEF Shape
    <2>. QED  BY <1>2, <1>3, <1>4, <2>3
  <1>5. ASSUME ~Comes(SHOW, s) PROVE ~Comes(HOME, s)
    BY <1>5 DEF Shape, Comes
  <1>6. ASSUME s[1] = MARK PROVE Len(s) > 1 /\ s[2] = REDRAW
    BY <1>1, <1>6 DEF Shape
  <1>7. ASSUME s[1] \in {SHOW, REDRAW} PROVE Len(s) = 1 \/ s[2] = NL
    <2>1. 1 = Len(s) \/ s[1 + 1] = NL
      BY <1>1, <1>7 DEF Shape
    <2>2. 1 + 1 = 2
      OBVIOUS
    <2>. QED  BY <2>1, <2>2
  <1>8. ASSUME s[1] \in Glyphs \cup {NL, CLEAR, HOME} PROVE Len(s) > 1 /\ s[2] # REDRAW
    <2>1. s[Len(s)] \in {SHOW, REDRAW}
      BY DEF Shape
    <2>2. s[1] \notin {SHOW, REDRAW, MARK}
      BY <1>2, <1>3, <1>8
    <2>3. Len(s) > 1
      BY <1>1, <2>1, <2>2
    <2>4. s[2] = REDRAW => s[1] = MARK
      BY <2>3 DEF Shape
    <2>. QED  BY <2>2, <2>3, <2>4
  <1>9. ASSUME s[1] = HOME PROVE Comes(SHOW, s)
    BY <1>1, <1>9 DEF Shape
  <1>. QED  BY <1>4, <1>5, <1>6, <1>7, <1>8, <1>9

LEMMA ShapeOfTail ==
    ASSUME NEW s \in Seq(Outputs), Shape(s), s # <<>>
    PROVE  /\ Shape(Tail(s)) /\ Tail(s) \in Seq(Outputs)
           /\ ~Comes(HOME, Tail(s))
           /\ s[1] \notin {SHOW, REDRAW} => Tail(s) # <<>>
           /\ Tail(s) # <<>> => Len(s) > 1 /\ Head(Tail(s)) = s[2]
           /\ s[1] # SHOW => (Comes(SHOW, s) <=> Comes(SHOW, Tail(s)))
           /\ s[1] = SHOW => ~Comes(SHOW, Tail(s))
  <1>. DEFINE r == Tail(s)
  <1>1. /\ Len(s) \in Nat /\ Len(s) >= 1 /\ r \in Seq(Outputs) /\ Len(r) = Len(s) - 1
        /\ \A i \in 1 .. Len(s) - 1 : r[i] = s[i + 1]
    BY HeadTailProperties, EmptySeq, LenProperties
  <1>2. r # <<>> <=> Len(s) > 1
    BY <1>1, EmptySeq
  <1>. HIDE DEF r
  <1>3. SHOW \notin Glyphs /\ SHOW # HOME /\ MARK # HOME
    BY GlyphsApart DEF Ops, SHOW, HOME, MARK
  <1>4. ~Comes(HOME, r)
    <2>. SUFFICES ASSUME NEW i \in 1 .. Len(r), r[i] = HOME PROVE FALSE
      BY DEF Comes
    <2>1. i + 1 \in 1 .. Len(s) /\ s[i + 1] = HOME /\ i + 1 # 1
      BY <1>1
    <2>. QED  BY <2>1 DEF Shape
  <1>5. ASSUME NEW i \in 1 .. Len(r)
        PROVE  /\ r[i] = MARK => i < Len(r) /\ r[i + 1] = REDRAW
               /\ r[i] = REDRAW => i = 1 \/ r[i - 1] = MARK
               /\ r[i] \in {SHOW, REDRAW} => i = Len(r) \/ r[i + 1] = NL
               /\ r[i] = HOME => i = 1 /\ Comes(SHOW, r)
               /\ r[i] = SHOW => \A j \in 1 .. i - 1 : r[j] \in Glyphs \/ r[j] = HOME
    <2>1. i + 1 \in 1 .. Len(s) /\ r[i] = s[i + 1] /\ i \in 1 .. Len(s) - 1
      BY <1>1
    <2>2. /\ s[i + 1] = MARK => i + 1 < Len(s) /\ s[(i + 1) + 1] = REDRAW
          /\ s[i + 1] = REDRAW => i + 1 = 1 \/ s[(i + 1) - 1] = MARK
          /\ s[i + 1] \in {SHOW, REDRAW} => i + 1 = Len(s) \/ s[(i + 1) + 1] = NL
          /\ s[i + 1] = SHOW => \A j \in 1 .. (i + 1) - 1 : s[j] \in Glyphs \/ s[j] = HOME
      BY <2>1 DEF Shape
    <2>3. i < Len(r) => i + 1 \in 1 .. Len(s) - 1 /\ r[i + 1] = s[(i + 1) + 1]
      BY <1>1, <2>1
    <2>4. i # 1 => i - 1 \in 1 .. Len(s) - 1 /\ r[i - 1] = s[i]
      <3>1. i # 1 => i - 1 \in 1 .. Len(s) - 1 /\ (i - 1) + 1 = i
        BY <2>1
      <3>. QED  BY <1>1, <3>1
    <2>5. (i + 1) - 1 = i /\ i + 1 # 1
      BY <2>1
    <2>6. ASSUME r[i] = SHOW, NEW j \in 1 .. i - 1 PROVE r[j] \in Glyphs \/ r[j] = HOME
      <3>1. j + 1 \in 1 .. (i + 1) - 1 /\ j \in 1 .. Len(s) - 1
        BY <2>1
      <3>. QED  BY <1>1, <2>1, <2>2, <2>6, <3>1
    <2>7. r[i] # HOME
      BY <1>4 DEF Comes
    <2>8. i + 1 < Len(s) <=> i < Len(r)
      BY <1>1, <2>1
    <2>9. i + 1 = Len(s) <=> i = Len(r)
      BY <1>1, <2>1
    <2>. QED  BY <1>1, <2>1, <2>2, <2>3, <2>4, <2>5, <2>6, <2>7, <2>8, <2>9
  <1>6. r # <<>> => r[Len(r)] \in {SHOW, REDRAW}
    <2>1. ASSUME r # <<>> PROVE Len(r) \in 1 .. Len(s) - 1 /\ Len(r) + 1 = Len(s)
      BY <1>1, <1>2, <2>1
    <2>2. s[Len(s)] \in {SHOW, REDRAW}
      BY DEF Shape
    <2>. QED  BY <1>1, <2>1, <2>2
  <1>7. Shape(r)
    BY <1>5, <1>6 DEF Shape
  <1>8. s[1] \notin {SHOW, REDRAW} => r # <<>>
    <2>1. s[Len(s)] \in {SHOW, REDRAW}
      BY DEF Shape
    <2>. QED  BY <1>1, <1>2, <2>1
  <1>9. r # <<>> => Len(s) > 1 /\ Head(r) = s[2]
    <2>1. ASSUME r # <<>> PROVE Head(r) = r[1] /\ 1 \in 1 .. Len(s) - 1
      BY <1>1, <1>2, <2>1
    <2>. QED  BY <1>1, <1>2, <2>1
  <1>10. ASSUME s[1] # SHOW, Comes(SHOW, s) PROVE Comes(SHOW, r)
    <2>1. PICK k \in 1 .. Len(s) : s[k] = SHOW
      BY <1>10 DEF Comes
    <2>2. k - 1 \in 1 .. Len(s) - 1 /\ (k - 1) + 1 = k
      BY <1>1, <1>10, <2>1
    <2>3. r[k - 1] = SHOW
      BY <1>1, <2>1, <2>2
    <2>. QED  BY <1>1, <2>2, <2>3 DEF Comes
  <1>11. ASSUME Comes(SHOW, r) PROVE Comes(SHOW, s) /\ s[1] # SHOW
    <2>1. PICK k \in 1 .. Len(r) : r[k] = SHOW
      BY <1>11 DEF Comes
    <2>2. k + 1 \in 1 .. Len(s) /\ s[k + 1] = SHOW /\ 1 \in 1 .. (k + 1) - 1
      BY <1>1, <2>1
    <2>3. s[1] \in Glyphs \/ s[1] = HOME
      BY <2>2 DEF Shape
    <2>. QED  BY <1>3, <2>2, <2>3 DEF Comes
  <1>. QED  BY <1>1, <1>4, <1>7, <1>8, <1>9, <1>10, <1>11 DEF r

(* The grid.                                                               *)
LEMMA CellAt ==
    ASSUME quiet, NEW s \in Screens, NEW x \in Col, NEW y \in Row, NEW c, NEW r \in Row, NEW z \in Col
    PROVE  Cell(s, x, y, c)[r][z] = IF r = y /\ z = x THEN c ELSE s.cells[r][z]
  <1>1. s.cells \in [Row -> [Col -> Glyphs]]
    BY DEF Screens
  <1>2. PICK g \in [Row -> [Col -> Glyphs]] : g = s.cells
    BY <1>1
  <1>3. Cell(s, x, y, c) = [g EXCEPT ![y][x] = c]
    BY <1>2 DEF Cell
  <1>. QED  BY <1>2, <1>3

LEMMA BlankAt ==
    ASSUME NEW r \in Row, NEW z \in Col
    PROVE  Blank[r][z] = BLANK
  BY DEF Blank

LEMMA ScrolledAt ==
    ASSUME NEW s \in Screens, NEW y \in Nat, y >= H
    PROVE  \A z \in Col : Scrolled(s, y).cells[H - 1][z] = BLANK
  <1>. DEFINE up == [r \in Row |-> IF r < H - 1 THEN s.cells[r + 1] ELSE Blank[r]]
  <1>1. Scrolled(s, y) = [s EXCEPT !.cells = up, !.cy = H - 1]
    BY Sizes DEF Scrolled
  <1>2. Scrolled(s, y).cells = up
    BY <1>1 DEF Screens
  <1>3. H - 1 \in Row /\ ~(H - 1 < H - 1)
    BY Sizes DEF Row
  <1>4. up[H - 1] = Blank[H - 1]
    BY <1>3
  <1>. QED  BY <1>2, <1>3, <1>4, BlankAt

(* With no program writing, a step reads what is in memory.                *)
LEMMA ReadsMemory ==
    ASSUME Inv, Screen, quiet
    PROVE  /\ Xs = {t.cx} /\ Ys = {t.cy}
           /\ t \in Screens /\ t.cx \in Nat /\ t.cy \in Nat /\ t.cells \in [Row -> [Col -> Glyphs]]
           /\ Types /\ Cursor /\ Shape(todo) /\ todo \in Seq(Outputs)
           /\ InStep /\ Between /\ DrawsLine /\ LineStands /\ WillRedraw /\ WritesOutput
           /\ px \in Col /\ py \in Row /\ drawn \in Nat
           /\ line \in Seq(Chars) /\ Len(line) \in Nat /\ cur \in 0 .. Len(line)
  BY LineFacts DEF Inv, Screen, InStep, Types, Screens, Xs, Ys

LEMMA HeadOfTodo ==
    ASSUME Inv, Screen, todo # <<>>
    PROVE  /\ Head(todo) = todo[1] /\ todo \in Seq(Outputs) /\ Shape(todo)
           /\ Head(todo) \in {NL, CLEAR, MARK, REDRAW} => ~Comes(SHOW, todo)
           /\ Head(todo) = HOME => Comes(SHOW, todo)
           /\ Head(todo) = MARK => Tail(todo) # <<>> /\ Head(Tail(todo)) = REDRAW
           /\ Head(todo) \in {SHOW, REDRAW} => Tail(todo) = <<>> \/ Head(Tail(todo)) = NL
           /\ Head(todo) \in Glyphs \cup {NL, CLEAR, HOME} =>
                 Tail(todo) # <<>> /\ Head(Tail(todo)) # REDRAW
           /\ Tail(todo) # <<>> => Head(Tail(todo)) # HOME
           /\ Tail(todo) \in Seq(Outputs) /\ Shape(Tail(todo))
           /\ Head(todo) # SHOW => (Comes(SHOW, todo) <=> Comes(SHOW, Tail(todo)))
           /\ Head(todo) = SHOW => ~Comes(SHOW, Tail(todo))
  <1>1. /\ todo \in Seq(Outputs) /\ Shape(todo)
        /\ Head(todo) = todo[1] /\ Types
    BY Todo DEF Inv, Screen, Types
  <1>2. /\ SHOW \notin {NL, CLEAR, MARK, HOME} /\ REDRAW \notin {NL, CLEAR, MARK, HOME}
        /\ SHOW \notin Glyphs /\ REDRAW \notin Glyphs
    BY GlyphsApart DEF Ops, NL, CLEAR, MARK, REDRAW, HOME, SHOW
  <1>3. /\ todo[1] \in {NL, CLEAR, MARK, REDRAW} => ~Comes(SHOW, todo)
        /\ todo[1] = MARK => todo[2] = REDRAW
        /\ todo[1] \in {SHOW, REDRAW} => Len(todo) = 1 \/ todo[2] = NL
        /\ todo[1] \in Glyphs \cup {NL, CLEAR, HOME} => todo[2] # REDRAW
        /\ todo[1] = HOME => Comes(SHOW, todo)
    BY <1>1, StepOutputs
  <1>4. /\ Shape(Tail(todo)) /\ Tail(todo) \in Seq(Outputs)
        /\ ~Comes(HOME, Tail(todo))
        /\ todo[1] \notin {SHOW, REDRAW} => Tail(todo) # <<>>
        /\ Tail(todo) # <<>> => Len(todo) > 1 /\ Head(Tail(todo)) = todo[2]
        /\ todo[1] # SHOW => (Comes(SHOW, todo) <=> Comes(SHOW, Tail(todo)))
        /\ todo[1] = SHOW => ~Comes(SHOW, Tail(todo))
    BY <1>1, ShapeOfTail
  <1>5. Tail(todo) # <<>> => Head(Tail(todo)) # HOME
    <2>1. PICK r \in Seq(Outputs) : r = Tail(todo)
      BY <1>4
    <2>2. r # <<>> => Head(r) = r[1] /\ 1 \in 1 .. Len(r)
      BY <2>1, EmptySeq, LenProperties
    <2>. QED  BY <1>4, <2>1, <2>2 DEF Comes
  <1>6. Len(todo) = 1 => Tail(todo) = <<>>
    BY <1>4
  <1>. QED  BY <1>1, <1>2, <1>3, <1>4, <1>5, <1>6

(* A step that changes nothing of the editor.                              *)
LEMMA DrawingSame ==
    ASSUME Inv, Drawing
    PROVE  /\ line' = line /\ cur' = cur /\ drawn' = drawn /\ px' = px /\ py' = py /\ quiet' = quiet
  BY DrawingKeeps

LEMMA ProgramScreen ==
    ASSUME Inv, Screen, NEW c \in {"o", NL}, ProgramWrites(c)
    PROVE  Screen'
  <1>1. todo' = todo /\ quiet' = FALSE
    BY DEF ProgramWrites
  <1>. QED  BY <1>1 DEF Screen, Shape, Comes

LEMMA PutNewlineScreen ==
    ASSUME Inv, Screen, PutNewline
    PROVE  Screen'
  <1>1. /\ pc = "next" /\ todo # <<>> /\ Head(todo) = NL /\ pc' = "scroll" /\ todo' = todo
        /\ line' = line /\ cur' = cur /\ drawn' = drawn /\ px' = px /\ py' = py /\ quiet' = quiet
    BY DrawingSame DEF PutNewline, Rest
  <1>2. Shape(todo') /\ ~Comes(SHOW, todo) /\ Head(todo) # REDRAW
    BY <1>1, HeadOfTodo DEF NL, REDRAW
  <1>. SUFFICES ASSUME quiet PROVE (InStep /\ Between /\ DrawsLine /\ LineStands /\ WillRedraw /\ WritesOutput)'
    BY <1>1, <1>2 DEF Screen, Shape, Comes
  <1>3. t.cy \in Nat /\ t \in Screens /\ BlankBelow(t.cells, t.cy)
    BY <1>1, <1>2, ReadsMemory DEF WritesOutput
  <1>4. t' = [t EXCEPT !.cx = 0, !.cy = t.cy + 1] /\ reg' = [x |-> 0, y |-> t.cy + 1]
    BY ReadsMemory DEF PutNewline, Known
  <1>5. t'.cx = 0 /\ t'.cy = t.cy + 1 /\ t'.cells = t.cells
    BY <1>3, <1>4 DEF Screens
  <1>6. InStep'
    BY <1>1, <1>4, <1>5 DEF InStep
  <1>7. BlankBelow(t.cells, t.cy + 1) /\ BlankFrom(t.cells, t.cy + 1, 0)
    BY <1>3 DEF BlankBelow, BlankFrom, Row
  <1>8. WritesOutput'
    BY <1>1, <1>5, <1>7 DEF WritesOutput
  <1>9. ~Comes(SHOW, todo)'
    BY <1>1, <1>2 DEF Comes
  <1>10. Between' /\ DrawsLine' /\ LineStands' /\ WillRedraw'
    BY <1>1, <1>2, <1>9 DEF Between, DrawsLine, LineStands, WillRedraw
  <1>. QED  BY <1>6, <1>8, <1>10

LEMMA GlyphFacts ==
    ASSUME Inv, Screen, todo # <<>>, Head(todo) \in Glyphs
    PROVE  Head(todo) \notin {NL, CLEAR, MARK, REDRAW, HOME, SHOW}
  BY GlyphsApart DEF Ops

LEMMA PutCheckScreen ==
    ASSUME Inv, Screen, PutCheck
    PROVE  Screen'
  <1>1. /\ pc = "next" /\ todo # <<>> /\ Head(todo) \in Glyphs /\ pc' = "store" /\ todo' = todo
        /\ line' = line /\ cur' = cur /\ drawn' = drawn /\ px' = px /\ py' = py /\ quiet' = quiet
    BY DrawingSame DEF PutCheck, Rest, IsChar, Glyphs
  <1>2. Shape(todo')
    BY <1>1, HeadOfTodo
  <1>. SUFFICES ASSUME quiet PROVE (InStep /\ Between /\ DrawsLine /\ LineStands /\ WillRedraw /\ WritesOutput)'
    BY <1>1, <1>2 DEF Screen, Shape, Comes
  <1>3. t.cx < W /\ t.cy < H /\ t.cx \in Nat /\ t.cy \in Nat /\ t.cx \in Col /\ t.cy \in Row
    BY <1>1, ReadsMemory, Sizes DEF Cursor, Col, Row
  <1>4. t' = t /\ reg' = [x |-> t.cx, y |-> t.cy]
    <2>1. \E x \in {t.cx}, y \in {t.cy} :
             LET s == Scrolled([t EXCEPT !.cx = 0, !.cy = y + 1], y + 1)
             IN  \/ x >= W /\ t' = s /\ Known(0, s.cy)
                 \/ x < W /\ y >= H /\ t' = Scrolled(t, y) /\ Known(x, H - 1)
                 \/ x < W /\ y < H /\ t' = t /\ Known(x, y)
      BY ReadsMemory DEF PutCheck
    <2>2. ~(t.cx >= W) /\ ~(t.cy >= H)
      BY <1>3, Sizes
    <2>. QED  BY <2>1, <2>2 DEF Known
  <1>5. InStep'
    BY <1>1, <1>4 DEF InStep
  <1>6. Head(todo) \notin {NL, CLEAR, MARK, REDRAW, HOME, SHOW}
    BY <1>1, GlyphFacts
  <1>7. Comes(SHOW, todo)' <=> Comes(SHOW, todo)
    BY <1>1 DEF Comes
  <1>8. DrawsLine'
    BY <1>1, <1>4, <1>6, <1>7, ReadsMemory DEF DrawsLine
  <1>9. LineStands' /\ WillRedraw' /\ Between'
    BY <1>1, <1>4, <1>6, <1>7, ReadsMemory DEF LineStands, WillRedraw, Between
  <1>10. WritesOutput'
    BY <1>1, <1>4, <1>6, <1>7, ReadsMemory DEF WritesOutput
  <1>. QED  BY <1>5, <1>8, <1>9, <1>10

(* A character stored where the next one goes does not disturb the rest.   *)
LEMMA StoreCompletes ==
    ASSUME NEW r, NEW q, NEW l, NEW p, NEW s \in Seq(Outputs), NEW c, p \in Nat, c \in Nat,
           s[1] # SHOW, Completes(r, l, p, s, c), \A x \in Col : x # c => q[x] = r[x]
    PROVE  Completes(q, l, p, s, c)
  <1>1. PICK k \in 1 .. Len(s) : CompletesAt(r, l, p, s, c, k)
    BY DEF Completes
  <1>2. k # 1 /\ k \in Nat /\ k > 1
    BY <1>1, LenProperties DEF CompletesAt
  <1>3. ASSUME NEW x \in p .. W - 1, ~(c <= x /\ x < c + k - 1) PROVE q[x] = Want(l, p, x)
    <2>1. x # c /\ x \in Col
      BY <1>2, <1>3, Sizes DEF Col
    <2>. QED  BY <1>1, <1>3, <2>1 DEF CompletesAt
  <1>4. CompletesAt(q, l, p, s, c, k)
    BY <1>1, <1>3 DEF CompletesAt
  <1>. QED  BY <1>4 DEF Completes

LEMMA PutStoreScreen ==
    ASSUME Inv, Screen, PutStore
    PROVE  Screen'
  <1>1. /\ pc = "store" /\ todo # <<>> /\ Head(todo) \in Glyphs /\ pc' = "inc" /\ todo' = todo
        /\ line' = line /\ cur' = cur /\ drawn' = drawn /\ px' = px /\ py' = py /\ quiet' = quiet
    BY DrawingSame DEF PutStore, Rest, IsChar, Glyphs, Inv, Cursor
  <1>2. Shape(todo')
    BY <1>1, HeadOfTodo
  <1>. SUFFICES ASSUME quiet PROVE (InStep /\ Between /\ DrawsLine /\ LineStands /\ WillRedraw /\ WritesOutput)'
    BY <1>1, <1>2 DEF Screen, Shape, Comes
  <1>3. t.cx \in Nat /\ t.cy \in Nat /\ t.cx \in Col /\ t.cy \in Row /\ t \in Screens
    BY <1>1, ReadsMemory DEF Cursor
  <1>4. t' = [t EXCEPT !.cells = Cell(t, t.cx, t.cy, Head(todo))] /\ reg' = [x |-> t.cx, y |-> t.cy]
    BY ReadsMemory DEF PutStore, Known
  <1>5. t'.cx = t.cx /\ t'.cy = t.cy /\ t'.cells = Cell(t, t.cx, t.cy, Head(todo))
    BY <1>3, <1>4 DEF Screens
  <1>6. \A r \in Row : \A z \in Col :
           t'.cells[r][z] = IF r = t.cy /\ z = t.cx THEN Head(todo) ELSE t.cells[r][z]
    BY <1>3, <1>5, CellAt
  <1>7. InStep'
    BY <1>1, <1>3, <1>4, <1>5, <1>6 DEF InStep
  <1>8. Head(todo) \notin {NL, CLEAR, MARK, REDRAW, HOME, SHOW}
    BY <1>1, GlyphFacts
  <1>9. Comes(SHOW, todo)' <=> Comes(SHOW, todo)
    BY <1>1 DEF Comes
  <1>10. Between' /\ WillRedraw'
    BY <1>1, <1>8 DEF Between, WillRedraw
  <1>11. ASSUME Comes(SHOW, todo) PROVE t.cy = py /\ Completes(t'.cells[py], line, px, todo, t.cx)
    <2>1. t.cy = py /\ Completes(t.cells[py], line, px, todo, t.cx)
      BY <1>1, <1>8, <1>11, ReadsMemory DEF DrawsLine
    <2>2. \A x \in Col : x # t.cx => t'.cells[py][x] = t.cells[py][x]
      BY <1>6, ReadsMemory
    <2>3. todo[1] # SHOW /\ todo \in Seq(Outputs) /\ px \in Nat
      BY <1>1, <1>8, HeadOfTodo, ReadsMemory, Sizes DEF Col
    <2>. QED  BY <1>3, <2>1, <2>2, <2>3, StoreCompletes
  <1>12. DrawsLine'
    BY <1>1, <1>5, <1>8, <1>9, <1>11 DEF DrawsLine
  <1>13. \A y \in Row : y >= t.cy /\ BlankBelow(t.cells, y) => BlankBelow(t'.cells, y)
    <2>. SUFFICES ASSUME NEW y \in Row, y >= t.cy, BlankBelow(t.cells, y), NEW r \in Row, r > y, NEW x \in Col
                  PROVE  t'.cells[r][x] = BLANK
      BY DEF BlankBelow
    <2>1. r # t.cy
      BY <1>3 DEF Row
    <2>. QED  BY <1>6, <2>1 DEF BlankBelow
  <1>14. LineStands'
    BY <1>1, <1>3, <1>9, <1>11, <1>13, ReadsMemory DEF LineStands, Row
  <1>15. WritesOutput'
    <2>. SUFFICES ASSUME ~Comes(SHOW, todo)
                  PROVE  BlankBelow(t'.cells, t.cy) /\ BlankFrom(t'.cells, t.cy, t.cx + 1)
      BY <1>1, <1>5, <1>9 DEF WritesOutput
    <2>1. BlankBelow(t.cells, t.cy) /\ BlankFrom(t.cells, t.cy, t.cx)
      BY <1>1, <1>8, ReadsMemory DEF WritesOutput
    <2>2. BlankBelow(t'.cells, t.cy)
      BY <1>3, <1>13, <2>1 DEF Row
    <2>3. \A x \in Col : x >= t.cx + 1 => x >= t.cx /\ x # t.cx
      BY <1>3 DEF Col
    <2>4. BlankFrom(t'.cells, t.cy, t.cx + 1)
      BY <1>3, <1>6, <2>1, <2>3 DEF BlankFrom
    <2>. QED  BY <2>2, <2>4
  <1>. QED  BY <1>7, <1>10, <1>12, <1>14, <1>15

(* The first character is in its place: the others complete the row.       *)
LEMMA TailCompletes ==
    ASSUME NEW r, NEW l, NEW p, NEW s \in Seq(Outputs), NEW c, p \in Nat, c \in Nat, s # <<>>,
           s[1] # SHOW, Completes(r, l, p, s, c), r[c] = s[1]
    PROVE  Completes(r, l, p, Tail(s), c + 1)
  <1>1. PICK k \in 1 .. Len(s) : CompletesAt(r, l, p, s, c, k)
    BY DEF Completes
  <1>2. k # 1 /\ k \in Nat /\ k > 1 /\ Len(s) \in Nat
    BY <1>1, LenProperties DEF CompletesAt
  <1>3. /\ Len(Tail(s)) = Len(s) - 1
        /\ \A i \in 1 .. Len(s) - 1 : Tail(s)[i] = s[i + 1]
    BY HeadTailProperties
  <1>4. k - 1 \in 1 .. Len(s) - 1 /\ (k - 1) + 1 = k
    BY <1>2
  <1>5. Tail(s)[k - 1] = SHOW
    <2>1. s[k] = SHOW
      BY <1>1 DEF CompletesAt
    <2>. QED  BY <1>3, <1>4, <2>1
  <1>6. p <= c + 1 /\ (c + 1) + (k - 1) - 1 < W /\ p <= c /\ c + k - 1 < W
    <2>1. p <= c /\ c + k - 1 < W
      BY <1>1 DEF CompletesAt
    <2>. QED  BY <1>2, <2>1, Sizes
  <1>7. ASSUME NEW x \in p .. W - 1
        PROVE  IF c + 1 <= x /\ x < (c + 1) + (k - 1) - 1 THEN Tail(s)[x - (c + 1) + 1] = Want(l, p, x)
               ELSE r[x] = Want(l, p, x)
    <2>0. x \in Nat
      BY <1>7, Sizes
    <2>1. IF c <= x /\ x < c + k - 1 THEN s[x - c + 1] = Want(l, p, x) ELSE r[x] = Want(l, p, x)
      BY <1>1 DEF CompletesAt
    <2>2. CASE x = c
      <3>1. s[x - c + 1] = Want(l, p, x) /\ x - c + 1 = 1
        BY <1>2, <2>0, <2>1, <2>2
      <3>. QED  BY <2>0, <2>2, <3>1
    <2>3. CASE x > c /\ x < c + k - 1
      <3>1. s[x - c + 1] = Want(l, p, x)
        BY <2>0, <2>1, <2>3
      <3>2. x - (c + 1) + 1 \in 1 .. Len(s) - 1 /\ (x - (c + 1) + 1) + 1 = x - c + 1
        BY <1>2, <2>0, <2>3
      <3>3. Tail(s)[x - (c + 1) + 1] = s[x - c + 1]
        BY <1>3, <3>2
      <3>. QED  BY <1>2, <2>0, <2>3, <3>1, <3>3
    <2>4. CASE ~(x >= c /\ x < c + k - 1)
      BY <1>2, <2>0, <2>1, <2>4
    <2>. QED  BY <1>2, <2>0, <2>2, <2>3, <2>4
  <1>8. CompletesAt(r, l, p, Tail(s), c + 1, k - 1)
    BY <1>3, <1>4, <1>5, <1>6, <1>7 DEF CompletesAt
  <1>. QED  BY <1>3, <1>4, <1>8 DEF Completes

LEMMA PutIncScreen ==
    ASSUME Inv, Screen, PutInc
    PROVE  Screen'
  <1>1. /\ pc = "inc" /\ todo # <<>> /\ Head(todo) \in Glyphs \cup {NL} /\ pc' = "wrap" /\ todo' = todo
        /\ line' = line /\ cur' = cur /\ drawn' = drawn /\ px' = px /\ py' = py /\ quiet' = quiet
    BY DrawingSame DEF PutInc, Rest, Inv, Cursor
  <1>2. Shape(todo')
    BY <1>1, HeadOfTodo
  <1>. SUFFICES ASSUME quiet PROVE (InStep /\ Between /\ DrawsLine /\ LineStands /\ WillRedraw /\ WritesOutput)'
    BY <1>1, <1>2 DEF Screen, Shape, Comes
  <1>3. t.cx \in Nat /\ t.cy \in Nat /\ t.cx \in Col /\ t.cy \in Row /\ t \in Screens
    BY <1>1, ReadsMemory DEF Cursor
  <1>4. t' = [t EXCEPT !.cx = t.cx + 1] /\ reg' = [x |-> t.cx + 1, y |-> reg.y]
    BY ReadsMemory DEF PutInc, Known
  <1>5. t'.cx = t.cx + 1 /\ t'.cy = t.cy /\ t'.cells = t.cells
    BY <1>3, <1>4 DEF Screens
  <1>6. InStep'
    BY <1>1, <1>4, <1>5, ReadsMemory DEF InStep
  <1>7. Head(todo) \notin {REDRAW, HOME, SHOW}
    BY <1>1, GlyphsApart DEF Ops, NL, REDRAW, HOME, SHOW
  <1>8. Comes(SHOW, todo)' <=> Comes(SHOW, todo)
    BY <1>1 DEF Comes
  <1>9. Between' /\ WillRedraw'
    BY <1>1, <1>7 DEF Between, WillRedraw
  <1>10. LineStands'
    BY <1>1, <1>5, <1>8, ReadsMemory DEF LineStands
  <1>11. ASSUME Comes(SHOW, todo) PROVE t.cy = py /\ Completes(t.cells[py], line, px, Tail(todo), t.cx + 1)
    <2>1. t.cy = py /\ Completes(t.cells[py], line, px, todo, t.cx)
      BY <1>1, <1>7, <1>11, ReadsMemory DEF DrawsLine
    <2>2. t.cells[py][t.cx] = Head(todo)
      BY <1>1, <2>1, ReadsMemory DEF InStep
    <2>3. todo[1] # SHOW /\ todo \in Seq(Outputs) /\ px \in Nat /\ Head(todo) = todo[1]
      BY <1>1, <1>7, HeadOfTodo, ReadsMemory, Sizes DEF Col
    <2>. QED  BY <1>1, <1>3, <2>1, <2>2, <2>3, TailCompletes
  <1>12. DrawsLine'
    BY <1>1, <1>5, <1>7, <1>8, <1>11 DEF DrawsLine
  <1>13. WritesOutput'
    BY <1>1, <1>5, <1>7, <1>8, ReadsMemory DEF WritesOutput
  <1>. QED  BY <1>6, <1>9, <1>10, <1>12, <1>13

(* A character or a newline is done, with the cursor inside the grid.      *)
LEMMA DoneScreen ==
    ASSUME Inv, Screen, quiet, todo # <<>>, Head(todo) \in Glyphs \cup {NL},
           pc' = "next", todo' = Tail(todo), InStep',
           line' = line, cur' = cur, drawn' = drawn, px' = px, py' = py, quiet' = quiet,
           Comes(SHOW, todo) =>
              /\ t'.cells = t.cells /\ t'.cy = py
              /\ Completes(t.cells[py], line, px, Tail(todo), t'.cx),
           ~Comes(SHOW, todo) => BlankBelow(t'.cells, t'.cy) /\ BlankFrom(t'.cells, t'.cy, t'.cx)
    PROVE  Screen'
  <1>1. Head(todo) \notin {REDRAW, HOME, SHOW}
    BY GlyphsApart DEF Ops, NL, REDRAW, HOME, SHOW
  <1>2. /\ todo' # <<>> /\ Head(todo') # REDRAW /\ Head(todo') # HOME /\ Shape(todo')
        /\ Comes(SHOW, todo') <=> Comes(SHOW, todo)
    BY <1>1, HeadOfTodo
  <1>3. Comes(SHOW, todo)' <=> Comes(SHOW, todo')
    BY DEF Comes
  <1>4. Shape(todo)'
    BY <1>2 DEF Shape, Comes
  <1>5. Between' /\ WillRedraw'
    BY <1>2 DEF Between, WillRedraw
  <1>6. DrawsLine'
    BY <1>2, <1>3 DEF DrawsLine
  <1>7. LineStands'
    BY <1>2, <1>3, ReadsMemory DEF LineStands
  <1>8. WritesOutput'
    BY <1>2, <1>3 DEF WritesOutput
  <1>. QED  BY <1>4, <1>5, <1>6, <1>7, <1>8 DEF Screen

LEMMA PutWrapScreen ==
    ASSUME Inv, Screen, PutWrap
    PROVE  Screen'
  <1>1. /\ pc = "wrap" /\ todo # <<>> /\ Head(todo) \in Glyphs \cup {NL}
        /\ line' = line /\ cur' = cur /\ drawn' = drawn /\ px' = px /\ py' = py /\ quiet' = quiet
        /\ todo' = todo \/ todo' = Tail(todo)
    BY DrawingSame DEF PutWrap, Rest, Inv, Cursor
  <1>2. Shape(todo)'
    <2>1. Shape(todo')
      BY <1>1, HeadOfTodo
    <2>. QED  BY <2>1 DEF Shape, Comes
  <1>3. CASE ~quiet
    BY <1>1, <1>2, <1>3 DEF Screen
  <1>4. ASSUME quiet PROVE Screen'
    <2>1. /\ t.cx \in Nat /\ t.cy \in Nat /\ t \in Screens /\ InStep
          /\ IF t.cx >= W THEN t' = [t EXCEPT !.cx = 0, !.cy = t.cy + 1] /\ Known(0, t.cy + 1) /\ Rest("scroll")
             ELSE UNCHANGED <<t, reg>> /\ Rest("next")
      BY <1>4, ReadsMemory DEF PutWrap
    <2>2. Head(todo) \notin {REDRAW, HOME, SHOW, CLEAR}
      BY <1>1, GlyphsApart DEF Ops, NL, REDRAW, HOME, SHOW, CLEAR
    <2>3. ASSUME Comes(SHOW, todo)
          PROVE  t.cy = py /\ Completes(t.cells[py], line, px, Tail(todo), t.cx) /\ t.cx < W
      <3>1. t.cy = py /\ Completes(t.cells[py], line, px, Tail(todo), t.cx)
        BY <1>1, <1>4, <2>2, <2>3, ReadsMemory DEF DrawsLine
      <3>2. PICK k \in 1 .. Len(Tail(todo)) : CompletesAt(t.cells[py], line, px, Tail(todo), t.cx, k)
        BY <3>1 DEF Completes
      <3>3. k \in Nat /\ k >= 1 /\ t.cx + k - 1 < W
        <4>1. Len(Tail(todo)) \in Nat
          BY <1>1, HeadOfTodo, LenProperties
        <4>. QED  BY <3>2, <4>1 DEF CompletesAt
      <3>. QED  BY <2>1, <3>1, <3>3, Sizes
    <2>4. ASSUME ~Comes(SHOW, todo) PROVE BlankBelow(t.cells, t.cy) /\ BlankFrom(t.cells, t.cy, t.cx)
      BY <1>1, <1>4, <2>2, <2>4, ReadsMemory DEF WritesOutput
    <2>5. CASE t.cx >= W
      <3>1. ~Comes(SHOW, todo)
        BY <2>1, <2>3, <2>5, Sizes
      <3>2. /\ t' = [t EXCEPT !.cx = 0, !.cy = t.cy + 1] /\ reg' = [x |-> 0, y |-> t.cy + 1]
            /\ pc' = "scroll" /\ todo' = todo
        BY <2>1, <2>5 DEF Known, Rest
      <3>3. t'.cx = 0 /\ t'.cy = t.cy + 1 /\ t'.cells = t.cells
        BY <2>1, <3>2 DEF Screens
      <3>4. InStep'
        BY <3>2, <3>3 DEF InStep
      <3>5. BlankBelow(t.cells, t.cy + 1) /\ BlankFrom(t.cells, t.cy + 1, 0)
        BY <2>1, <2>4, <3>1 DEF BlankBelow, BlankFrom, Row
      <3>6. WritesOutput'
        BY <3>2, <3>3, <3>5 DEF WritesOutput
      <3>7. ~Comes(SHOW, todo)'
        BY <3>1, <3>2 DEF Comes
      <3>8. Between' /\ DrawsLine' /\ LineStands' /\ WillRedraw'
        BY <1>1, <2>2, <3>2, <3>7 DEF Between, DrawsLine, LineStands, WillRedraw
      <3>. QED  BY <1>2, <3>4, <3>6, <3>8 DEF Screen
    <2>6. CASE ~(t.cx >= W)
      <3>1. t' = t /\ reg' = reg /\ pc' = "next" /\ todo' = Tail(todo)
        BY <2>1, <2>6 DEF Rest
      <3>2. InStep'
        BY <2>1, <3>1 DEF InStep
      <3>. QED  BY <1>1, <1>4, <2>3, <2>4, <3>1, <3>2, DoneScreen
    <2>. QED  BY <2>5, <2>6
  <1>. QED  BY <1>3, <1>4

LEMMA PutScrollScreen ==
    ASSUME Inv, Screen, PutScroll
    PROVE  Screen'
  <1>1. /\ pc = "scroll" /\ todo # <<>> /\ Head(todo) \in Glyphs \cup {NL}
        /\ pc' = "next" /\ todo' = Tail(todo)
        /\ line' = line /\ cur' = cur /\ drawn' = drawn /\ px' = px /\ py' = py /\ quiet' = quiet
    BY DrawingSame DEF PutScroll, Rest, Inv, Cursor
  <1>2. Shape(todo)'
    <2>1. Shape(todo')
      BY <1>1, HeadOfTodo
    <2>. QED  BY <2>1 DEF Shape, Comes
  <1>3. CASE ~quiet
    BY <1>1, <1>2, <1>3 DEF Screen
  <1>4. ASSUME quiet PROVE Screen'
    <2>1. /\ t.cx = 0 /\ t.cy \in Nat /\ t \in Screens
          /\ t' = Scrolled(t, t.cy) /\ reg' = [x |-> 0, y |-> Min2(t.cy, H - 1)]
      BY <1>1, <1>4, ReadsMemory DEF PutScroll, Known, InStep
    <2>2. Head(todo) \notin {REDRAW, HOME, SHOW, CLEAR}
      BY <1>1, GlyphsApart DEF Ops, NL, REDRAW, HOME, SHOW, CLEAR
    <2>3. ~Comes(SHOW, todo)
      BY <1>1, <1>4, <2>2, ReadsMemory DEF DrawsLine
    <2>4. BlankBelow(t.cells, t.cy) /\ BlankFrom(t.cells, t.cy, t.cx)
      BY <1>1, <1>4, <2>2, <2>3, ReadsMemory DEF WritesOutput
    <2>5. t'.cx = 0 /\ t'.cy = IF t.cy < H THEN t.cy ELSE H - 1
      BY <2>1, ScrolledScreen
    <2>6. InStep'
      <3>1. Min2(t.cy, H - 1) = IF t.cy < H THEN t.cy ELSE H - 1
        BY <2>1, Sizes DEF Min2
      <3>. QED  BY <1>1, <2>1, <2>5, <3>1 DEF InStep
    <2>7. BlankBelow(t'.cells, t'.cy) /\ BlankFrom(t'.cells, t'.cy, t'.cx)
      <3>1. CASE t.cy < H
        <4>1. t' = t
          BY <2>1, <3>1 DEF Scrolled
        <4>. QED  BY <2>4, <4>1
      <3>2. CASE ~(t.cy < H)
        <4>1. t'.cy = H - 1 /\ \A z \in Col : t'.cells[H - 1][z] = BLANK
          BY <2>1, <2>5, <3>2, ScrolledAt, Sizes
        <4>2. \A r \in Row : ~(r > H - 1)
          BY Sizes DEF Row
        <4>. QED  BY <4>1, <4>2 DEF BlankBelow, BlankFrom
      <3>. QED  BY <3>1, <3>2
    <2>. QED  BY <1>1, <1>4, <2>3, <2>6, <2>7, DoneScreen
  <1>. QED  BY <1>3, <1>4

(* Nothing is left to be written into the row.                             *)
LEMMA CompletedShows ==
    ASSUME NEW r, NEW l, NEW p, NEW s \in Seq(Outputs), NEW c, p \in Nat, c \in Nat,
           Shape(s), s # <<>>, s[1] = SHOW, Completes(r, l, p, s, c)
    PROVE  Shows(r, l, p)
  <1>1. PICK k \in 1 .. Len(s) : CompletesAt(r, l, p, s, c, k)
    BY DEF Completes
  <1>2. k = 1
    <2>1. SUFFICES ASSUME k # 1 PROVE FALSE
      OBVIOUS
    <2>2. 1 \in 1 .. k - 1 /\ s[k] = SHOW
      BY <1>1, <2>1, LenProperties DEF CompletesAt
    <2>3. s[1] \in Glyphs \/ s[1] = HOME
      BY <2>2 DEF Shape
    <2>. QED  BY <2>3, GlyphsApart DEF Ops, SHOW, HOME
  <1>3. \A x \in p .. W - 1 : ~(c <= x /\ x < c + k - 1)
    BY <1>2, Sizes
  <1>. QED  BY <1>1, <1>3 DEF CompletesAt, Shows

LEMMA MoveCursorScreen ==
    ASSUME Inv, Screen, MoveCursor
    PROVE  Screen'
  <1>1. /\ pc = "next" /\ todo # <<>> /\ pc' = "next" /\ todo' = Tail(todo)
        /\ line' = line /\ cur' = cur /\ drawn' = drawn /\ px' = px /\ py' = py /\ quiet' = quiet
        /\ Head(todo) \in {HOME, SHOW, CLEAR} /\ reg' = [x |-> t'.cx, y |-> t'.cy]
    BY DrawingSame DEF MoveCursor, Doing, Known
  <1>2. Shape(todo') /\ Shape(todo)'
    <2>1. Shape(todo')
      BY <1>1, HeadOfTodo
    <2>. QED  BY <2>1 DEF Shape, Comes
  <1>3. CASE ~quiet
    BY <1>1, <1>2, <1>3 DEF Screen
  <1>4. ASSUME quiet PROVE Screen'
    <2>1. InStep'
      BY <1>1 DEF InStep
    <2>2. Comes(SHOW, todo)' <=> Comes(SHOW, Tail(todo))
      BY <1>1 DEF Comes
    <2>3. CASE Head(todo) = HOME
      <3>1. /\ Comes(SHOW, todo) /\ Comes(SHOW, Tail(todo)) /\ todo' # <<>>
            /\ Head(todo') # HOME /\ Head(todo') # REDRAW
        BY <1>1, <2>3, HeadOfTodo DEF HOME, SHOW
      <3>2. Completes(t.cells[py], line, px, Tail(todo), px) /\ drawn = Len(line) /\ px + Len(line) < W /\ BlankBelow(t.cells, py)
        BY <1>4, <2>3, <3>1, ReadsMemory DEF DrawsLine, LineStands
      <3>3. t'.cx = px /\ t'.cy = py /\ t'.cells = t.cells
        <4>1. t' = [t EXCEPT !.cx = Min2(px, W - 1), !.cy = Min2(py, H - 1)]
          BY <2>3 DEF MoveCursor, Doing, Clamp, HOME, SHOW, CLEAR
        <4>2. Min2(px, W - 1) = px /\ Min2(py, H - 1) = py
          BY <1>4, ReadsMemory, Sizes DEF Min2, Col, Row
        <4>. QED  BY <1>4, <4>1, <4>2, ReadsMemory DEF Screens
      <3>4. Between' /\ WillRedraw' /\ WritesOutput' /\ LineStands'
        BY <1>1, <2>2, <3>1, <3>2, <3>3 DEF Between, WillRedraw, WritesOutput, LineStands
      <3>5. DrawsLine'
        BY <1>1, <3>1, <3>2, <3>3 DEF DrawsLine
      <3>. QED  BY <1>2, <2>1, <3>4, <3>5 DEF Screen
    <2>4. CASE Head(todo) = SHOW
      <3>1. /\ ~Comes(SHOW, Tail(todo)) /\ Comes(SHOW, todo)
            /\ Tail(todo) = <<>> \/ Head(Tail(todo)) = NL
        <4>1. todo[1] = SHOW /\ 1 \in 1 .. Len(todo)
          BY <1>1, <2>4, HeadOfTodo, EmptySeq, LenProperties
        <4>. QED  BY <1>1, <2>4, <4>1, HeadOfTodo DEF Comes
      <3>2. Completes(t.cells[py], line, px, todo, t.cx) /\ drawn = Len(line) /\ BlankBelow(t.cells, py)
        <4>1. Head(todo) # HOME /\ pc # "wrap"
          BY <1>1, <2>4 DEF HOME, SHOW
        <4>. QED  BY <1>4, <3>1, <4>1, ReadsMemory DEF DrawsLine, LineStands
      <3>3. Shows(t.cells[py], line, px)
        BY <1>1, <1>4, <2>4, <3>2, HeadOfTodo, ReadsMemory, CompletedShows DEF Col
      <3>4. px + Len(line) < W
        BY <1>4, <3>1, ReadsMemory DEF LineStands
      <3>5. t'.cx = px + cur /\ t'.cy = py /\ t'.cells = t.cells
        <4>1. t' = [t EXCEPT !.cx = Min2(px + cur, W - 1), !.cy = Min2(py, H - 1)]
          BY <2>4 DEF MoveCursor, Doing, Clamp, HOME, SHOW, CLEAR
        <4>2. Min2(px + cur, W - 1) = px + cur
          <5>1. px \in Nat /\ cur \in Nat /\ cur <= Len(line) /\ Len(line) \in Nat
            BY <1>4, ReadsMemory, Sizes DEF Col
          <5>. QED  BY <3>4, <5>1, Sizes DEF Min2
        <4>3. Min2(py, H - 1) = py
          <5>1. py \in Nat /\ py <= H - 1
            BY <1>4, ReadsMemory, Sizes DEF Row
          <5>. QED  BY <5>1, Sizes DEF Min2
        <4>. QED  BY <1>4, <4>1, <4>2, <4>3, ReadsMemory DEF Screens
      <3>6. ~Comes(SHOW, todo)' /\ (todo' # <<>> => Head(todo') = NL)
        BY <1>1, <2>2, <3>1
      <3>7. Between' /\ LineStands'
        BY <1>1, <3>2, <3>3, <3>4, <3>5, <3>6 DEF Between, LineStands
      <3>8. DrawsLine' /\ WillRedraw' /\ WritesOutput'
        BY <1>1, <3>2, <3>5, <3>6 DEF DrawsLine, WillRedraw, WritesOutput, NL, REDRAW
      <3>. QED  BY <1>2, <2>1, <3>7, <3>8 DEF Screen
    <2>5. CASE Head(todo) = CLEAR
      <3>1. /\ ~Comes(SHOW, Tail(todo)) /\ todo' # <<>> /\ Head(todo') # REDRAW
        BY <1>1, <2>5, HeadOfTodo DEF CLEAR, SHOW
      <3>2. t' = [cells |-> Blank, cx |-> 0, cy |-> 0]
        BY <2>5 DEF MoveCursor, Doing, HOME, SHOW, CLEAR
      <3>3. BlankBelow(Blank, 0) /\ BlankFrom(Blank, 0, 0)
        BY BlankAt DEF BlankBelow, BlankFrom
      <3>4. WritesOutput'
        BY <1>1, <3>2, <3>3 DEF WritesOutput
      <3>5. Between' /\ DrawsLine' /\ LineStands' /\ WillRedraw'
        BY <2>2, <3>1 DEF Between, DrawsLine, LineStands, WillRedraw
      <3>. QED  BY <1>2, <2>1, <3>4, <3>5 DEF Screen
    <2>. QED  BY <1>1, <2>3, <2>4, <2>5
  <1>. QED  BY <1>3, <1>4

LEMMA MarkScreen ==
    ASSUME Inv, Screen, Mark
    PROVE  Screen'
  <1>1. /\ pc = "next" /\ todo # <<>> /\ pc' = "next" /\ todo' = Tail(todo) /\ Head(todo) = MARK
        /\ line' = line /\ cur' = cur /\ drawn' = 0 /\ px' = t.cx /\ py' = t.cy /\ quiet' = quiet
        /\ t' = t /\ reg' = reg
    BY DEF Mark, Doing
  <1>2. /\ Shape(todo') /\ todo' # <<>> /\ Head(todo') = REDRAW /\ ~Comes(SHOW, todo) /\ ~Comes(SHOW, Tail(todo))
    BY <1>1, HeadOfTodo DEF MARK, SHOW
  <1>3. Shape(todo)' /\ ~Comes(SHOW, todo)'
    BY <1>1, <1>2 DEF Shape, Comes
  <1>4. CASE ~quiet
    BY <1>1, <1>3, <1>4 DEF Screen
  <1>5. ASSUME quiet PROVE Screen'
    <2>1. t.cx \in Col /\ t.cy \in Row
      BY <1>1, <1>5, ReadsMemory DEF Cursor
    <2>2. BlankBelow(t.cells, t.cy) /\ BlankFrom(t.cells, t.cy, t.cx)
      BY <1>1, <1>2, <1>5, ReadsMemory DEF WritesOutput, MARK, REDRAW, NL, CLEAR
    <2>3. WillRedraw'
      <3>1. t.cx + 0 = t.cx /\ t.cx < W
        BY <2>1, Sizes DEF Col
      <3>. QED  BY <1>1, <2>1, <2>2, <3>1 DEF WillRedraw
    <2>4. InStep'
      BY <1>1, <1>5, ReadsMemory DEF InStep
    <2>5. Between' /\ DrawsLine' /\ LineStands' /\ WritesOutput'
      BY <1>2, <1>3 DEF Between, DrawsLine, LineStands, WritesOutput
    <2>. QED  BY <1>3, <2>3, <2>4, <2>5 DEF Screen
  <1>. QED  BY <1>4, <1>5

(* The blanks that Redraw appends.                                         *)
LEMMA GapFacts ==
    ASSUME NEW d \in Nat, NEW n \in Nat, NEW g, g = [i \in 1 .. d - n |-> BLANK]
    PROVE  /\ g \in Seq({BLANK})
           /\ Len(g) = IF d > n THEN d - n ELSE 0
           /\ \A i \in 1 .. Len(g) : g[i] = BLANK
  <1>1. PICK m \in Nat : m = (IF d > n THEN d - n ELSE 0) /\ 1 .. d - n = 1 .. m
    <2>1. CASE d > n
      BY <2>1
    <2>2. CASE ~(d > n)
      <3>1. 1 .. d - n = 1 .. 0
        BY <2>2
      <3>. QED  BY <2>2, <3>1
    <2>. QED  BY <2>1, <2>2
  <1>2. g = [i \in 1 .. m |-> BLANK]
    BY <1>1
  <1>3. g \in [1 .. m -> {BLANK}]
    BY <1>2
  <1>4. g \in Seq({BLANK})
    BY <1>3, SeqDef
  <1>5. Len(g) \in Nat /\ DOMAIN g = 1 .. Len(g) /\ DOMAIN g = 1 .. m
    BY <1>2, <1>4, LenProperties
  <1>6. Len(g) = m
    <2>1. \A i \in Nat : i \in 1 .. Len(g) <=> i \in 1 .. m
      BY <1>5
    <2>2. PICK q \in Nat : q = Len(g)
      BY <1>5
    <2>3. (m \in 1 .. m => m \in 1 .. q) /\ (q \in 1 .. q => q \in 1 .. m)
      BY <2>1, <2>2
    <2>4. q = m
      BY <2>3
    <2>. QED  BY <2>2, <2>4
  <1>. QED  BY <1>1, <1>2, <1>4, <1>6

LEMMA CatAt ==
    ASSUME NEW a \in Seq(Outputs), NEW b \in Seq(Outputs), NEW n \in Nat, n = Len(a)
    PROVE  /\ a \o b \in Seq(Outputs) /\ Len(a \o b) = n + Len(b)
           /\ \A i \in 1 .. n : (a \o b)[i] = a[i]
           /\ \A i \in 1 .. Len(b) : (a \o b)[n + i] = b[i]
  <1>1. Len(b) \in Nat
    BY LenProperties
  <1>2. /\ a \o b \in Seq(Outputs) /\ Len(a \o b) = n + Len(b)
        /\ \A i \in 1 .. n + Len(b) : (a \o b)[i] = IF i <= n THEN a[i] ELSE b[i - n]
    BY ConcatProperties
  <1>3. ASSUME NEW i \in 1 .. n PROVE (a \o b)[i] = a[i]
    <2>1. i \in 1 .. n + Len(b) /\ i <= n
      BY <1>1
    <2>. QED  BY <1>2, <2>1
  <1>4. ASSUME NEW i \in 1 .. Len(b) PROVE (a \o b)[n + i] = b[i]
    <2>1. n + i \in 1 .. n + Len(b) /\ ~(n + i <= n) /\ (n + i) - n = i
      BY <1>1
    <2>. QED  BY <1>2, <2>1
  <1>. QED  BY <1>2, <1>3, <1>4

(* What Redraw has written into todo: the line, blanks, and the rest.      *)
LineRow(l, g, r) == <<HOME>> \o l \o g \o <<SHOW>> \o r

IsRow(s, l, g, r, u, v) ==
    /\ u = 1 + Len(l) /\ v = u + Len(g)
    /\ s \in Seq(Outputs) /\ Len(s) = v + 1 + Len(r)
    /\ s[1] = HOME
    /\ \A i \in 1 .. Len(l) : s[1 + i] = l[i]
    /\ \A i \in 1 .. Len(g) : s[u + i] = g[i]
    /\ s[v + 1] = SHOW
    /\ \A i \in 1 .. Len(r) : s[v + 1 + i] = r[i]

LEMMA RowFacts ==
    ASSUME NEW l \in Seq(Chars), NEW g \in Seq({BLANK}), NEW r \in Seq(Outputs), NEW s,
           s = LineRow(l, g, r)
    PROVE  \E u, v \in Nat : IsRow(s, l, g, r, u, v)
  <1>1. Chars \subseteq Outputs /\ {BLANK} \subseteq Outputs /\ HOME \in Outputs /\ SHOW \in Outputs
    BY DEF Outputs, Glyphs, Ops
  <1>2. l \in Seq(Outputs) /\ g \in Seq(Outputs) /\ <<HOME>> \in Seq(Outputs) /\ <<SHOW>> \in Seq(Outputs)
    BY <1>1, SeqMonotonic
  <1>3. /\ Len(l) \in Nat /\ Len(g) \in Nat /\ Len(r) \in Nat
        /\ Len(<<HOME>>) = 1 /\ Len(<<SHOW>>) = 1 /\ <<HOME>>[1] = HOME /\ <<SHOW>>[1] = SHOW
    BY LenProperties
  <1>4. PICK u \in Nat, v \in Nat : u = 1 + Len(l) /\ v = u + Len(g) /\ u >= 1 /\ v >= u
    BY <1>3
  <1>5. PICK a : a = <<HOME>> \o l
    OBVIOUS
  <1>6. /\ a \in Seq(Outputs) /\ Len(a) = u /\ a[1] = HOME
        /\ \A i \in 1 .. Len(l) : a[1 + i] = l[i]
    <2>1. 1 \in 1 .. 1
      OBVIOUS
    <2>. QED  BY <1>2, <1>3, <1>4, <1>5, <2>1, CatAt
  <1>7. PICK b : b = a \o g
    OBVIOUS
  <1>8. /\ b \in Seq(Outputs) /\ Len(b) = v
        /\ \A i \in 1 .. u : b[i] = a[i]
        /\ \A i \in 1 .. Len(g) : b[u + i] = g[i]
    <2>1. PICK n \in Nat : n = Len(a)
      BY <1>4, <1>6
    <2>0. g \in Seq(Outputs) /\ a \in Seq(Outputs)
      BY <1>2, <1>6
    <2>2. /\ a \o g \in Seq(Outputs) /\ Len(a \o g) = n + Len(g)
          /\ \A i \in 1 .. n : (a \o g)[i] = a[i]
          /\ \A i \in 1 .. Len(g) : (a \o g)[n + i] = g[i]
      BY <2>0, <2>1, CatAt
    <2>3. n = u
      BY <1>6, <2>1
    <2>. QED  BY <1>4, <1>7, <2>2, <2>3
  <1>9. PICK c : c = b \o <<SHOW>>
    OBVIOUS
  <1>10. /\ c \in Seq(Outputs) /\ Len(c) = v + 1
         /\ \A i \in 1 .. v : c[i] = b[i]
         /\ c[v + 1] = SHOW
    <2>1. PICK w \in Seq(Outputs) : w = <<SHOW>> /\ Len(w) = 1 /\ w[1] = SHOW
      BY <1>2, <1>3
    <2>0. w \in Seq(Outputs) /\ b \in Seq(Outputs)
      BY <1>8, <2>1
    <2>2. PICK n \in Nat : n = Len(b)
      BY <1>4, <1>8
    <2>3. /\ b \o w \in Seq(Outputs) /\ Len(b \o w) = n + Len(w)
          /\ \A i \in 1 .. n : (b \o w)[i] = b[i]
          /\ \A i \in 1 .. Len(w) : (b \o w)[n + i] = w[i]
      BY <2>0, <2>2, CatAt
    <2>4. 1 \in 1 .. Len(w) /\ n = v
      BY <1>8, <2>1, <2>2
    <2>. QED  BY <1>9, <2>1, <2>3, <2>4
  <1>11. /\ s \in Seq(Outputs) /\ Len(s) = v + 1 + Len(r)
         /\ \A i \in 1 .. v + 1 : s[i] = c[i]
         /\ \A i \in 1 .. Len(r) : s[v + 1 + i] = r[i]
    <2>1. s = c \o r
      BY <1>5, <1>7, <1>9 DEF LineRow
    <2>2. PICK n \in Nat : n = v + 1
      BY <1>4
    <2>3. /\ c \o r \in Seq(Outputs) /\ Len(c \o r) = n + Len(r)
          /\ \A i \in 1 .. n : (c \o r)[i] = c[i]
          /\ \A i \in 1 .. Len(r) : (c \o r)[n + i] = r[i]
      BY <1>10, <2>2, CatAt
    <2>. QED  BY <2>1, <2>2, <2>3
  <1>12. \A i \in 1 .. u : s[i] = a[i]
    <2>1. \A i \in 1 .. u : i \in 1 .. v /\ i \in 1 .. v + 1
      BY <1>4
    <2>. QED  BY <1>8, <1>10, <1>11, <2>1
  <1>13. s[1] = HOME
    <2>1. 1 \in 1 .. u
      BY <1>4
    <2>. QED  BY <1>6, <1>12, <2>1
  <1>14. \A i \in 1 .. Len(l) : s[1 + i] = l[i]
    <2>1. \A i \in 1 .. Len(l) : 1 + i \in 1 .. u
      BY <1>3, <1>4
    <2>. QED  BY <1>6, <1>12, <2>1
  <1>15. \A i \in 1 .. Len(g) : s[u + i] = g[i]
    <2>1. \A i \in 1 .. Len(g) : u + i \in 1 .. v /\ u + i \in 1 .. v + 1
      BY <1>3, <1>4
    <2>. QED  BY <1>8, <1>10, <1>11, <2>1
  <1>16. s[v + 1] = SHOW
    <2>1. v + 1 \in 1 .. v + 1
      BY <1>4
    <2>. QED  BY <1>10, <1>11, <2>1
  <1>. QED  BY <1>4, <1>11, <1>13, <1>14, <1>15, <1>16 DEF IsRow

LEMMA RowShape ==
    ASSUME NEW l \in Seq(Chars), NEW g \in Seq({BLANK}), NEW r \in Seq(Outputs), NEW s,
           s = LineRow(l, g, r),
           Shape(r), ~Comes(SHOW, r), r # <<>> => Head(r) = NL
    PROVE  Shape(s)
  <1>1. Len(l) \in Nat /\ Len(g) \in Nat /\ Len(r) \in Nat
    BY LenProperties
  <1>0. PICK u \in Nat, v \in Nat : IsRow(s, l, g, r, u, v)
    BY RowFacts
  <1>2. /\ u = 1 + Len(l) /\ v = u + Len(g)
        /\ \A i \in 1 .. Len(l) : s[1 + i] = l[i]
        /\ \A i \in 1 .. Len(g) : s[u + i] = g[i]
    BY <1>0 DEF IsRow
  <1>n. PICK n \in Nat : n = v + 1
    OBVIOUS
  <1>3. /\ n = v + 1
        /\ s \in Seq(Outputs) /\ Len(s) = n + Len(r) /\ s[1] = HOME /\ s[n] = SHOW
        /\ \A i \in 1 .. Len(r) : s[n + i] = r[i]
    BY <1>0, <1>n DEF IsRow
  <1>4. ASSUME NEW i \in 2 .. n - 1 PROVE s[i] \in Glyphs
    <2>1. CASE i <= u
      <3>1. i - 1 \in 1 .. Len(l) /\ 1 + (i - 1) = i
        BY <1>1, <1>2, <2>1
      <3>2. s[i] = l[i - 1] /\ l[i - 1] \in Chars
        BY <1>2, <3>1, ElementOfSeq
      <3>. QED  BY <3>2 DEF Glyphs
    <2>2. CASE ~(i <= u)
      <3>1. i - u \in 1 .. Len(g) /\ u + (i - u) = i
        BY <1>1, <1>2, <1>3, <2>2
      <3>2. s[i] = g[i - u] /\ g[i - u] \in {BLANK}
        BY <1>2, <3>1, ElementOfSeq
      <3>. QED  BY <3>2 DEF Glyphs
    <2>. QED  BY <2>1, <2>2
  <1>5. ASSUME NEW i \in 1 .. Len(s)
        PROVE  i = 1 \/ i \in 2 .. n - 1 \/ i = n \/ (i - n \in 1 .. Len(r) /\ n + (i - n) = i)
    BY <1>1, <1>2, <1>3
  <1>6. Comes(SHOW, s)
    <2>1. n \in 1 .. Len(s)
      BY <1>1, <1>2, <1>3
    <2>. QED  BY <1>3, <2>1 DEF Comes
  <1>7. \A c \in Glyphs : c \notin {NL, CLEAR, MARK, REDRAW, HOME, SHOW}
    BY GlyphsApart DEF Ops
  <1>8. r # <<>> => Len(r) > 0 /\ r[1] = NL
    <2>1. r # <<>> => Head(r) = r[1]
      BY HeadTailProperties
    <2>. QED  BY <1>1, <2>1, EmptySeq
  <1>9. \A i \in 1 .. Len(r) : r[i] # SHOW /\ r[i] # HOME
    BY DEF Shape, Comes
  <1>10. ASSUME NEW i \in 1 .. Len(s)
         PROVE  /\ s[i] = MARK => i < Len(s) /\ s[i + 1] = REDRAW
                /\ s[i] = REDRAW => i = 1 \/ s[i - 1] = MARK
                /\ s[i] \in {SHOW, REDRAW} => i = Len(s) \/ s[i + 1] = NL
                /\ s[i] = HOME => i = 1 /\ Comes(SHOW, s)
                /\ s[i] = SHOW => \A j \in 1 .. i - 1 : s[j] \in Glyphs \/ s[j] = HOME
    <2>1. CASE i = 1
      BY <1>3, <1>6, <2>1 DEF HOME, MARK, REDRAW, SHOW
    <2>2. CASE i \in 2 .. n - 1
      BY <1>4, <1>7, <2>2
    <2>3. CASE i = n
      <3>1. i = Len(s) \/ s[i + 1] = NL
        <4>1. CASE r = <<>>
          BY <1>1, <1>3, <2>3, <4>1
        <4>2. CASE r # <<>>
          <5>1. 1 \in 1 .. Len(r) /\ s[n + 1] = r[1]
            BY <1>1, <1>3, <1>8, <4>2
          <5>. QED  BY <1>8, <2>3, <4>2, <5>1
        <4>. QED  BY <4>1, <4>2
      <3>2. \A j \in 1 .. i - 1 : s[j] \in Glyphs \/ s[j] = HOME
        <4>1. \A j \in 1 .. i - 1 : j = 1 \/ j \in 2 .. n - 1
          BY <1>2, <2>3
        <4>. QED  BY <1>3, <1>4, <4>1
      <3>. QED  BY <1>3, <2>3, <3>1, <3>2 DEF HOME, MARK, REDRAW, SHOW
    <2>4. CASE i - n \in 1 .. Len(r) /\ n + (i - n) = i
      <3>1. PICK k \in 1 .. Len(r) : i = n + k
        BY <2>4
      <3>2. s[i] = r[k] /\ s[i] # SHOW /\ s[i] # HOME
        BY <1>3, <1>9, <3>1
      <3>3. /\ r[k] = MARK => k < Len(r) /\ r[k + 1] = REDRAW
            /\ r[k] = REDRAW => k = 1 \/ r[k - 1] = MARK
            /\ r[k] \in {SHOW, REDRAW} => k = Len(r) \/ r[k + 1] = NL
        BY <3>1 DEF Shape
      <3>4. /\ i < Len(s) <=> k < Len(r)
            /\ i = Len(s) <=> k = Len(r)
            /\ k < Len(r) => s[i + 1] = r[k + 1]
            /\ k # 1 => s[i - 1] = r[k - 1]
        <4>1. /\ i < Len(s) <=> k < Len(r)
              /\ i = Len(s) <=> k = Len(r)
          <5>0. k \in Nat /\ Len(r) \in Nat
            BY <1>1, <3>1
          <5>1. PICK a \in Nat, b \in Nat : a = k /\ b = Len(r)
            BY <5>0
          <5>2. i = n + a /\ Len(s) = n + b
            BY <1>3, <3>1, <5>1
          <5>3. (n + a < n + b <=> a < b) /\ (n + a = n + b <=> a = b)
            OBVIOUS
          <5>. QED  BY <5>1, <5>2, <5>3
        <4>2. k < Len(r) => k + 1 \in 1 .. Len(r) /\ n + (k + 1) = i + 1
          BY <1>1, <1>2, <3>1
        <4>3. k # 1 => k - 1 \in 1 .. Len(r) /\ n + (k - 1) = i - 1
          BY <1>1, <1>2, <3>1
        <4>. QED  BY <1>3, <4>1, <4>2, <4>3
      <3>5. k = 1 => r[k] = NL
        <4>1. r # <<>>
          BY <1>1, <3>1
        <4>. QED  BY <1>8, <4>1
      <3>6. k < Len(r) \/ k = Len(r)
        BY <1>1, <3>1
      <3>7. NL # REDRAW
        BY DEF NL, REDRAW
      <3>. QED  BY <3>2, <3>3, <3>4, <3>5, <3>6, <3>7
    <2>. QED  BY <1>5, <2>1, <2>2, <2>3, <2>4
  <1>11. s[Len(s)] \in {SHOW, REDRAW}
    <2>1. CASE r = <<>>
      BY <1>1, <1>3, <2>1
    <2>2. CASE r # <<>>
      <3>1. Len(r) \in 1 .. Len(r) /\ r[Len(r)] \in {SHOW, REDRAW}
        BY <1>1, <1>8, <2>2 DEF Shape
      <3>. QED  BY <1>3, <3>1
    <2>. QED  BY <2>1, <2>2
  <1>. QED  BY <1>10, <1>11 DEF Shape

(* What Redraw writes completes the row: the blanks reach as far as the    *)
(* longer line did that was there before.                                  *)
Gap(d, l)    == IF d > Len(l) THEN d - Len(l) ELSE 0
Tidy(row, c) == \A x \in Col : x >= c => row[x] = BLANK
Fits(l, p)   == p + Len(l) < W

LEMMA RowCompletes ==
    ASSUME NEW l \in Seq(Chars), NEW d \in Nat, NEW g \in Seq({BLANK}), NEW r \in Seq(Outputs), NEW s,
           NEW p \in Nat, NEW e \in Nat, NEW row,
           s = LineRow(l, g, r), Len(g) = Gap(d, l), Fits(l, p), e = p + d, e < W, Tidy(row, e)
    PROVE  s # <<>> /\ s \in Seq(Outputs) /\ Head(s) = HOME /\ Completes(row, l, p, Tail(s), p)
  <1>1. PICK u \in Nat, v \in Nat : IsRow(s, l, g, r, u, v)
    BY RowFacts
  <1>2. PICK n \in Nat, m \in Nat, q \in Nat : n = Len(l) /\ m = Len(g) /\ q = Len(r)
    <2>1. Len(l) \in Nat /\ Len(g) \in Nat /\ Len(r) \in Nat
      BY LenProperties
    <2>. QED  BY <2>1
  <1>3. /\ u = 1 + n /\ v = u + m
        /\ s \in Seq(Outputs) /\ Len(s) = v + 1 + q /\ s[1] = HOME /\ s[v + 1] = SHOW
        /\ \A i \in 1 .. n : s[1 + i] = l[i]
        /\ \A i \in 1 .. m : s[u + i] = g[i]
        /\ m = IF d > n THEN d - n ELSE 0
        /\ p + n < W
    BY <1>1, <1>2 DEF IsRow, Gap, Fits
  <1>4. s # <<>>
    BY <1>3, EmptySeq
  <1>5. /\ Head(s) = s[1] /\ Tail(s) \in Seq(Outputs) /\ Len(Tail(s)) = Len(s) - 1
        /\ \A i \in 1 .. Len(s) - 1 : Tail(s)[i] = s[i + 1]
    BY <1>3, <1>4, HeadTailProperties
  <1>6. \A i \in 1 .. v + q : Tail(s)[i] = s[i + 1]
    BY <1>3, <1>5
  <1>7. v \in 1 .. v + q /\ v \in 1 .. Len(Tail(s)) /\ Tail(s)[v] = SHOW
    <2>1. v \in 1 .. v + q /\ v \in 1 .. Len(Tail(s))
      BY <1>3, <1>5
    <2>. QED  BY <1>3, <1>6, <2>1
  <1>8. p + v - 1 < W
    BY <1>3, Sizes
  <1>9. ASSUME NEW x \in p .. W - 1, p <= x /\ x < p + v - 1
        PROVE  Tail(s)[x - p + 1] = Want(l, p, x)
    <2>1. PICK i \in Nat : i = x - p
      BY <1>9, Sizes
    <2>2. i < v - 1 /\ x - p + 1 = i + 1 /\ i + 1 \in 1 .. v + q
      BY <1>3, <1>9, <2>1, Sizes
    <2>3. Tail(s)[x - p + 1] = s[(i + 1) + 1]
      BY <1>6, <2>2
    <2>4. CASE i < n
      <3>1. i + 1 \in 1 .. n /\ (i + 1) + 1 = 1 + (i + 1)
        BY <2>4
      <3>2. s[(i + 1) + 1] = l[i + 1]
        BY <1>3, <3>1
      <3>. QED  BY <1>2, <2>1, <2>2, <2>3, <2>4, <3>2 DEF Want
    <2>5. CASE ~(i < n)
      <3>1. (i + 1) - n \in 1 .. m /\ (i + 1) + 1 = u + ((i + 1) - n)
        BY <1>3, <2>2, <2>5
      <3>2. PICK j \in 1 .. m : j = (i + 1) - n
        BY <3>1
      <3>3. s[(i + 1) + 1] = g[j]
        BY <1>3, <3>1, <3>2
      <3>4. g[j] = BLANK
        BY <1>2, <3>2, ElementOfSeq
      <3>. QED  BY <1>2, <2>1, <2>3, <2>5, <3>3, <3>4 DEF Want
    <2>. QED  BY <2>4, <2>5
  <1>10. ASSUME NEW x \in p .. W - 1, ~(p <= x /\ x < p + v - 1)
         PROVE  row[x] = Want(l, p, x)
    <2>1. x \in Col /\ x >= e /\ ~(x - p < n)
      BY <1>3, <1>10, Sizes DEF Col
    <2>2. row[x] = BLANK
      BY <2>1 DEF Tidy
    <2>. QED  BY <1>2, <2>1, <2>2 DEF Want
  <1>11. CompletesAt(row, l, p, Tail(s), p, v)
    BY <1>7, <1>8, <1>9, <1>10 DEF CompletesAt
  <1>. QED  BY <1>3, <1>4, <1>5, <1>7, <1>11 DEF Completes

LEMMA RedrawScreen ==
    ASSUME Inv, Screen, Redraw
    PROVE  Screen'
  <1>1. /\ pc = "next" /\ todo # <<>> /\ pc' = "next" /\ Head(todo) = REDRAW
        /\ px' = px /\ py' = py /\ quiet' = quiet /\ t' = t /\ reg' = reg
        /\ drawn' = Len(line')
    BY DEF Redraw, Doing, prompt
  <1>2. /\ line' \in Seq(Chars) /\ Len(line') \in Nat
    <2>1. line' \in Lines
      BY RedrawStep DEF Inv, Types
    <2>. QED  BY <2>1, LenProperties DEF Lines
  <1>3. px + Len(line') < W
    <2>1. PICK n : n = Min2(Len(line), W - 1 - px)
      OBVIOUS
    <2>2. Len(line) \in Nat /\ px \in Nat /\ W - 1 - px \in Nat /\ \A i \in 1 .. Len(line) : line[i] \in Chars
      BY LineFacts, Sizes DEF Inv, Types, Col
    <2>3. n \in Nat /\ n <= Len(line) /\ n <= W - 1 - px
      BY <2>1, <2>2 DEF Min2
    <2>4. line' = SubSeq(line, 1, n)
      BY <2>1 DEF Redraw
    <2>5. Len(SubSeq(line, 1, n)) = n
      <3>1. \A i \in 1 .. n : line[i] \in Chars
        BY <2>2, <2>3
      <3>2. Len(SubSeq(line, 1, n)) = IF 1 <= n THEN n - 1 + 1 ELSE 0
        BY <2>3, <3>1, SubSeqProperties
      <3>. QED  BY <2>3, <3>2
    <2>. QED  BY <2>2, <2>3, <2>4, <2>5, Sizes
  <1>4. PICK g : g = [i \in 1 .. drawn - Len(line') |-> BLANK]
    OBVIOUS
  <1>5. g \in Seq({BLANK}) /\ Len(g) = IF drawn > Len(line') THEN drawn - Len(line') ELSE 0
    BY <1>2, <1>4, GapFacts DEF Inv, Types
  <1>6. todo' = LineRow(line', g, Tail(todo))
    BY <1>4 DEF Redraw, LineRow
  <1>7. /\ Tail(todo) \in Seq(Outputs) /\ Shape(Tail(todo)) /\ ~Comes(SHOW, Tail(todo))
        /\ Tail(todo) # <<>> => Head(Tail(todo)) = NL
    BY <1>1, HeadOfTodo DEF SHOW, REDRAW
  <1>8. Shape(todo')
    BY <1>2, <1>5, <1>6, <1>7, RowShape
  <1>9. Shape(todo)'
    BY <1>8 DEF Shape, Comes
  <1>10. CASE ~quiet
    BY <1>1, <1>9, <1>10 DEF Screen
  <1>11. ASSUME quiet PROVE Screen'
    <2>1. px + drawn < W /\ BlankFrom(t.cells, py, px + drawn) /\ BlankBelow(t.cells, py)
      BY <1>1, <1>11, ReadsMemory DEF WillRedraw
    <2>2. px \in Nat /\ py \in Row /\ drawn \in Nat
      BY <1>11, ReadsMemory, Sizes DEF Col
    <2>3. \A x \in Col : x >= px + drawn => t.cells[py][x] = BLANK
      BY <2>1, <2>2 DEF BlankFrom
    <2>4. /\ todo' # <<>> /\ todo' \in Seq(Outputs) /\ Head(todo') = HOME
          /\ Completes(t.cells[py], line', px, Tail(todo'), px)
      <3>1. PICK d \in Nat, p \in Nat, e \in Nat : d = drawn /\ p = px /\ e = p + d
        BY <2>2
      <3>2. PICK l \in Seq(Chars), r \in Seq(Outputs), h \in Seq({BLANK}) :
               l = line' /\ r = Tail(todo) /\ h = g
        BY <1>2, <1>5, <1>7
      <3>3. PICK s, row : s = todo' /\ row = t.cells[py]
        OBVIOUS
      <3>4. Fits(l, p) /\ e < W
        BY <1>3, <2>1, <3>1, <3>2 DEF Fits
      <3>5. Len(h) = Gap(d, l)
        BY <1>5, <3>1, <3>2 DEF Gap
      <3>6. Tidy(row, e)
        BY <2>3, <3>1, <3>3 DEF Tidy
      <3>7. s = LineRow(l, h, r)
        BY <1>6, <3>2, <3>3
      <3>8. s # <<>> /\ s \in Seq(Outputs) /\ Head(s) = HOME /\ Completes(row, l, p, Tail(s), p)
        BY <3>1, <3>4, <3>5, <3>6, <3>7, RowCompletes
      <3>. QED  BY <3>1, <3>2, <3>3, <3>8
    <2>5. Comes(SHOW, todo')
      <3>1. todo'[1] = HOME
        BY <2>4
      <3>. QED  BY <1>8, <2>4, <3>1, StepOutputs
    <2>6. Comes(SHOW, todo)'
      BY <2>5 DEF Comes
    <2>7. InStep'
      BY <1>1, <1>11, ReadsMemory DEF InStep
    <2>8. Between' /\ WillRedraw' /\ WritesOutput'
      BY <2>4, <2>6 DEF Between, WillRedraw, WritesOutput, HOME, REDRAW
    <2>9. DrawsLine'
      BY <1>1, <2>4 DEF DrawsLine
    <2>10. LineStands'
      BY <1>1, <1>3, <2>1 DEF LineStands
    <2>. QED  BY <1>9, <2>7, <2>8, <2>9, <2>10 DEF Screen
  <1>. QED  BY <1>10, <1>11

-----------------------------------------------------------------------------
(* The output of an event.                                                 *)

(* What comes before the last redraw, or all of it.                        *)
Spoken(s) ==
    \A i \in 1 .. Len(s) :
       /\ s[i] \notin {HOME, SHOW}
       /\ s[i] = MARK => i < Len(s) /\ s[i + 1] = REDRAW
       /\ s[i] = REDRAW => i > 1 /\ s[i - 1] = MARK
       /\ s[i] = REDRAW => i = Len(s) \/ s[i + 1] = NL

LEMMA SpokenShape ==
    ASSUME NEW s \in Seq(Outputs), Spoken(s), s # <<>>, s[Len(s)] = REDRAW
    PROVE  Shape(s) /\ ~Comes(SHOW, s)
  BY DEF Spoken, Shape, Comes

LEMMA SpokenConcat ==
    ASSUME NEW a \in Seq(Outputs), NEW b \in Seq(Outputs), Spoken(a), Spoken(b),
           b # <<>> => b[1] = NL \/ (a # <<>> => a[Len(a)] # REDRAW)
    PROVE  a \o b \in Seq(Outputs) /\ Spoken(a \o b)
  <1>1. PICK n \in Nat, m \in Nat : n = Len(a) /\ m = Len(b)
    <2>1. Len(a) \in Nat /\ Len(b) \in Nat
      BY LenProperties
    <2>. QED  BY <2>1
  <1>2. PICK s \in Seq(Outputs) :
           /\ s = a \o b /\ Len(s) = n + m
           /\ \A i \in 1 .. n : s[i] = a[i]
           /\ \A i \in 1 .. m : s[n + i] = b[i]
    BY <1>1, CatAt
  <1>3. ASSUME NEW i \in 1 .. n
        PROVE  /\ s[i] \notin {HOME, SHOW}
               /\ s[i] = MARK => i < n + m /\ s[i + 1] = REDRAW
               /\ s[i] = REDRAW => i > 1 /\ s[i - 1] = MARK
               /\ s[i] = REDRAW => i = n + m \/ s[i + 1] = NL
    <2>1. /\ a[i] \notin {HOME, SHOW}
          /\ a[i] = MARK => i < n /\ a[i + 1] = REDRAW
          /\ a[i] = REDRAW => i > 1 /\ a[i - 1] = MARK
          /\ a[i] = REDRAW => i = n \/ a[i + 1] = NL
      BY <1>1 DEF Spoken
    <2>2. i < n => i + 1 \in 1 .. n /\ i < n + m
      OBVIOUS
    <2>3. i > 1 => i - 1 \in 1 .. n
      OBVIOUS
    <2>4. s[i] = a[i] /\ (i < n => s[i + 1] = a[i + 1]) /\ (i > 1 => s[i - 1] = a[i - 1])
      BY <1>2, <2>2, <2>3
    <2>5. ASSUME a[i] = REDRAW, i = n PROVE i = n + m \/ s[i + 1] = NL
      <3>1. CASE m = 0
        BY <2>5, <3>1
      <3>2. CASE m # 0
        <4>1. b # <<>> /\ a # <<>>
          BY <1>1, <3>2, EmptySeq
        <4>2. b[1] = NL
          BY <1>1, <2>5, <4>1
        <4>3. 1 \in 1 .. m
          BY <3>2
        <4>. QED  BY <1>2, <2>5, <4>2, <4>3
      <3>. QED  BY <3>1, <3>2
    <2>. QED  BY <2>1, <2>2, <2>4, <2>5
  <1>4. ASSUME NEW k \in 1 .. m
        PROVE  /\ s[n + k] \notin {HOME, SHOW}
               /\ s[n + k] = MARK => n + k < n + m /\ s[(n + k) + 1] = REDRAW
               /\ s[n + k] = REDRAW => n + k > 1 /\ s[(n + k) - 1] = MARK
               /\ s[n + k] = REDRAW => n + k = n + m \/ s[(n + k) + 1] = NL
    <2>1. /\ b[k] \notin {HOME, SHOW}
          /\ b[k] = MARK => k < m /\ b[k + 1] = REDRAW
          /\ b[k] = REDRAW => k > 1 /\ b[k - 1] = MARK
          /\ b[k] = REDRAW => k = m \/ b[k + 1] = NL
      BY <1>1 DEF Spoken
    <2>2. k < m => k + 1 \in 1 .. m /\ n + (k + 1) = (n + k) + 1 /\ n + k < n + m
      OBVIOUS
    <2>3. k > 1 => k - 1 \in 1 .. m /\ n + (k - 1) = (n + k) - 1 /\ n + k > 1
      OBVIOUS
    <2>4. s[n + k] = b[k] /\ (k < m => s[(n + k) + 1] = b[k + 1]) /\ (k > 1 => s[(n + k) - 1] = b[k - 1])
      BY <1>2, <2>2, <2>3
    <2>5. k < m \/ k = m
      OBVIOUS
    <2>. QED  BY <2>1, <2>2, <2>3, <2>4, <2>5
  <1>5. ASSUME NEW i \in 1 .. Len(s)
        PROVE  /\ s[i] \notin {HOME, SHOW}
               /\ s[i] = MARK => i < Len(s) /\ s[i + 1] = REDRAW
               /\ s[i] = REDRAW => i > 1 /\ s[i - 1] = MARK
               /\ s[i] = REDRAW => i = Len(s) \/ s[i + 1] = NL
    <2>1. CASE i \in 1 .. n
      BY <1>2, <1>3, <2>1
    <2>2. CASE ~(i \in 1 .. n)
      <3>1. i \in 1 .. n + m /\ Len(s) = n + m
        BY <1>2
      <3>2. i - n \in 1 .. m /\ i = n + (i - n)
        BY <2>2, <3>1
      <3>3. PICK k \in 1 .. m : i = n + k
        BY <3>2
      <3>. QED  BY <1>4, <3>1, <3>3
    <2>. QED  BY <2>1, <2>2
  <1>. QED  BY <1>2, <1>5 DEF Spoken

(* A prompt and its redraw.                                                *)
Prompted(p) == Prompt(p) \o <<REDRAW>>

LEMMA PromptedFacts ==
    ASSUME NEW p \in Seq(STRING), NEW s, s = Prompted(p)
    PROVE  s \in Seq(Outputs) /\ Spoken(s) /\ s # <<>> /\ s[1] = NL /\ s[Len(s)] = REDRAW
  <1>1. PICK d : d = [i \in DOMAIN p |-> ">"]
    OBVIOUS
  <1>2. d \in Seq({">"}) /\ d \in Seq(Outputs)
    <2>1. Len(p) \in Nat /\ DOMAIN p = 1 .. Len(p)
      BY LenProperties
    <2>2. d \in [1 .. Len(p) -> {">"}]
      BY <1>1, <2>1
    <2>3. d \in Seq({">"})
      BY <2>1, <2>2, SeqDef
    <2>4. {">"} \subseteq Outputs
      BY DEF Outputs, Glyphs
    <2>. QED  BY <2>3, <2>4, SeqMonotonic
  <1>3. PICK n \in Nat : n = Len(d)
    BY <1>2, LenProperties
  <1>4. \A i \in 1 .. n : d[i] = ">"
    BY <1>2, <1>3, ElementOfSeq
  <1>5. PICK a, b, c : a = <<NL, ">">> /\ b = <<">", MARK>> /\ c = <<REDRAW>>
    OBVIOUS
  <1>6. /\ a \in Seq(Outputs) /\ Len(a) = 2 /\ a[1] = NL /\ a[2] = ">"
        /\ b \in Seq(Outputs) /\ Len(b) = 2 /\ b[1] = ">" /\ b[2] = MARK
    <2>1. {NL, ">", MARK} \subseteq Outputs
      BY DEF Outputs, Glyphs, Ops
    <2>. QED  BY <1>5, <2>1
  <1>7. c \in Seq(Outputs) /\ Len(c) = 1 /\ c[1] = REDRAW
    <2>1. REDRAW \in Outputs
      BY DEF Outputs, Ops
    <2>. QED  BY <1>5, <2>1
  <1>c. PICK x, y, e : x = a \o d /\ y = x \o b /\ e = y \o c
    OBVIOUS
  <1>8. /\ x \in Seq(Outputs) /\ Len(x) = 2 + n
        /\ \A i \in 1 .. 2 : x[i] = a[i]
        /\ \A i \in 1 .. n : x[2 + i] = d[i]
    <2>1. PICK k \in Nat : k = 2
      OBVIOUS
    <2>2. /\ a \o d \in Seq(Outputs) /\ Len(a \o d) = k + Len(d)
          /\ \A i \in 1 .. k : (a \o d)[i] = a[i]
          /\ \A i \in 1 .. Len(d) : (a \o d)[k + i] = d[i]
      BY <1>2, <1>6, <2>1, CatAt
    <2>. QED  BY <1>3, <1>c, <2>1, <2>2
  <1>9. PICK q \in Nat : q = 2 + n
    OBVIOUS
  <1>10. /\ y \in Seq(Outputs) /\ Len(y) = q + 2
         /\ \A i \in 1 .. q : y[i] = x[i]
         /\ \A i \in 1 .. 2 : y[q + i] = b[i]
    <2>1. q = Len(x)
      BY <1>8, <1>9
    <2>2. /\ x \o b \in Seq(Outputs) /\ Len(x \o b) = q + Len(b)
          /\ \A i \in 1 .. q : (x \o b)[i] = x[i]
          /\ \A i \in 1 .. Len(b) : (x \o b)[q + i] = b[i]
      BY <1>6, <1>8, <2>1, CatAt
    <2>. QED  BY <1>6, <1>c, <2>2
  <1>11. PICK z \in Nat : z = q + 2
    OBVIOUS
  <1>12. /\ e \in Seq(Outputs) /\ Len(e) = z + 1
         /\ \A i \in 1 .. z : e[i] = y[i]
         /\ \A i \in 1 .. 1 : e[z + i] = c[i]
    <2>1. z = Len(y)
      BY <1>10, <1>11
    <2>2. /\ y \o c \in Seq(Outputs) /\ Len(y \o c) = z + Len(c)
          /\ \A i \in 1 .. z : (y \o c)[i] = y[i]
          /\ \A i \in 1 .. Len(c) : (y \o c)[z + i] = c[i]
      BY <1>7, <1>10, <2>1, CatAt
    <2>. QED  BY <1>7, <1>c, <2>2
  <1>13. s = e
    BY <1>1, <1>5, <1>c DEF Prompted, Prompt
  <1>14. e[z + 1] = REDRAW
    BY <1>7, <1>12
  <1>15. e[z] = MARK
    <2>1. z \in 1 .. z /\ z = q + 2 /\ 2 \in 1 .. 2
      BY <1>9, <1>11
    <2>2. e[z] = y[z] /\ y[q + 2] = b[2]
      BY <1>10, <1>12, <2>1
    <2>. QED  BY <1>6, <2>1, <2>2
  <1>16. e[1] = NL
    <2>1. 1 \in 1 .. z /\ 1 \in 1 .. q /\ 1 \in 1 .. 2
      BY <1>9, <1>11
    <2>2. e[1] = y[1] /\ y[1] = x[1] /\ x[1] = a[1]
      BY <1>8, <1>10, <1>12, <2>1
    <2>. QED  BY <1>6, <2>2
  <1>17. ASSUME NEW i \in 2 .. z - 1 PROVE e[i] = ">"
    <2>1. i \in 1 .. z /\ e[i] = y[i]
      BY <1>12
    <2>2. CASE i = q + 1
      <3>1. 1 \in 1 .. 2 /\ y[q + 1] = b[1]
        BY <1>10
      <3>. QED  BY <1>6, <2>1, <2>2, <3>1
    <2>3. CASE i # q + 1
      <3>1. i \in 1 .. q
        BY <1>11, <2>3
      <3>2. e[i] = x[i]
        BY <1>10, <2>1, <3>1
      <3>3. CASE i = 2
        <4>1. 2 \in 1 .. 2
          OBVIOUS
        <4>. QED  BY <1>6, <1>8, <3>2, <3>3, <4>1
      <3>4. CASE i # 2
        <4>1. i - 2 \in 1 .. n /\ 2 + (i - 2) = i
          BY <1>9, <3>1, <3>4
        <4>. QED  BY <1>4, <1>8, <3>2, <4>1
      <3>. QED  BY <3>3, <3>4
    <2>. QED  BY <2>2, <2>3
  <1>18. ASSUME NEW i \in 1 .. z + 1 PROVE i = 1 \/ i \in 2 .. z - 1 \/ i = z \/ i = z + 1
    BY <1>9, <1>11
  <1>19. z > 1 /\ (z + 1) - 1 = z
    BY <1>9, <1>11
  <1>20. ">" \notin {NL, CLEAR, MARK, REDRAW, HOME, SHOW} /\ NL \notin {MARK, REDRAW, HOME, SHOW}
         /\ MARK \notin {REDRAW, HOME, SHOW} /\ REDRAW \notin {MARK, HOME, SHOW}
    BY DEF NL, CLEAR, MARK, REDRAW, HOME, SHOW
  <1>21. Spoken(e)
    <2>. SUFFICES ASSUME NEW i \in 1 .. z + 1
                  PROVE  /\ e[i] \notin {HOME, SHOW}
                         /\ e[i] = MARK => i < z + 1 /\ e[i + 1] = REDRAW
                         /\ e[i] = REDRAW => i > 1 /\ e[i - 1] = MARK
                         /\ e[i] = REDRAW => i = z + 1 \/ e[i + 1] = NL
      BY <1>12 DEF Spoken
    <2>1. CASE i = 1
      BY <1>16, <1>20, <2>1
    <2>2. CASE i \in 2 .. z - 1
      BY <1>17, <1>20, <2>2
    <2>3. CASE i = z
      BY <1>14, <1>15, <1>20, <2>3
    <2>4. CASE i = z + 1
      BY <1>14, <1>15, <1>19, <1>20, <2>4
    <2>. QED  BY <1>18, <2>1, <2>2, <2>3, <2>4
  <1>22. e # <<>>
    BY <1>12, EmptySeq
  <1>. QED  BY <1>12, <1>13, <1>14, <1>16, <1>21, <1>22

-----------------------------------------------------------------------------
(* The editor's events, between which the line stands on the screen.       *)

LEMMA Standing ==
    ASSUME Inv, Screen, Ready, quiet
    PROVE  /\ t.cx = px + cur /\ t.cy = py /\ Shows(t.cells[py], line, px)
           /\ drawn = Len(line) /\ px + Len(line) < W /\ BlankBelow(t.cells, py)
  BY ReadsMemory DEF Ready, Between, LineStands

LEMMA EditSame ==
    ASSUME Inv, Screen, Ready, NEW l, NEW c, NEW out, Edit(l, c, out)
    PROVE  /\ todo = <<>> /\ pc = "next" /\ pc' = "next" /\ line' = l /\ cur' = c /\ todo' = out
           /\ t' = t /\ reg' = reg /\ px' = px /\ py' = py /\ drawn' = drawn /\ quiet' = quiet
           /\ Shape(out) => Shape(todo)'
           /\ Comes(SHOW, todo)' <=> Comes(SHOW, out)
           /\ quiet => InStep'
  <1>1. /\ todo = <<>> /\ pc = "next" /\ pc' = "next" /\ line' = l /\ cur' = c /\ todo' = out
        /\ t' = t /\ reg' = reg /\ px' = px /\ py' = py /\ drawn' = drawn /\ quiet' = quiet
    BY DEF Ready, Edit, prompt, screen
  <1>2. Shape(out) => Shape(todo)'
    BY <1>1 DEF Shape, Comes
  <1>3. Comes(SHOW, todo)' <=> Comes(SHOW, out)
    BY <1>1 DEF Comes
  <1>4. quiet => InStep'
    BY <1>1, ReadsMemory DEF InStep
  <1>. QED  BY <1>1, <1>2, <1>3, <1>4

(* A single output.                                                        *)
LEMMA JustOne ==
    ASSUME NEW x \in Outputs, NEW s, s = <<x>>
    PROVE  /\ s \in Seq(Outputs) /\ Len(s) = 1 /\ s[1] = x /\ s # <<>> /\ Head(s) = x
           /\ \A i \in 1 .. Len(s) : i = 1
  <1>1. s \in Seq(Outputs) /\ Len(s) = 1 /\ s[1] = x
    OBVIOUS
  <1>2. s # <<>>
    BY <1>1, EmptySeq
  <1>3. Head(s) = s[1]
    BY <1>1, <1>2, HeadTailProperties
  <1>. QED  BY <1>1, <1>2, <1>3

LEMMA CaretScreen ==
    ASSUME Inv, Screen, Ready, NEW c, Edit(line, c, <<SHOW>>)
    PROVE  Screen'
  <1>0. PICK s : s = <<SHOW>>
    OBVIOUS
  <1>1. s \in Seq(Outputs) /\ Len(s) = 1 /\ s[1] = SHOW /\ s # <<>> /\ Head(s) = SHOW
    <2>1. SHOW \in Outputs
      BY DEF Outputs, Ops
    <2>. QED  BY <1>0, <2>1, JustOne
  <1>2. Comes(SHOW, s) /\ Shape(s)
    <2>1. \A i \in 1 .. Len(s) : i = 1
      BY <1>1
    <2>2. 1 \in 1 .. Len(s)
      BY <1>1
    <2>3. \A j \in 1 .. 1 - 1 : FALSE
      OBVIOUS
    <2>4. Comes(SHOW, s)
      BY <1>1, <2>2 DEF Comes
    <2>5. SHOW \notin {MARK, REDRAW, HOME}
      BY DEF SHOW, MARK, REDRAW, HOME
    <2>. QED  BY <1>1, <2>1, <2>3, <2>4, <2>5 DEF Shape
  <1>3. Edit(line, c, s)
    BY <1>0
  <1>4. /\ pc' = "next" /\ line' = line /\ todo' = s
        /\ t' = t /\ px' = px /\ py' = py /\ drawn' = drawn /\ quiet' = quiet
        /\ Shape(todo)' /\ Comes(SHOW, todo)' /\ (quiet => InStep')
    BY <1>2, <1>3, EditSame
  <1>5. CASE ~quiet
    BY <1>4, <1>5 DEF Screen
  <1>6. ASSUME quiet PROVE Screen'
    <2>1. /\ t.cx = px + cur /\ t.cy = py /\ Shows(t.cells[py], line, px)
          /\ drawn = Len(line) /\ px + Len(line) < W /\ BlankBelow(t.cells, py)
      BY <1>6, Standing
    <2>2. px \in Nat /\ cur \in Nat /\ cur <= Len(line) /\ Len(line) \in Nat
      BY LineFacts
    <2>3. Completes(t.cells[py], line, px, s, t.cx)
      <3>1. PICK p \in Nat, x0 \in Nat : p = px /\ x0 = t.cx /\ p <= x0 /\ x0 < W
        <4>1. px <= px + cur /\ px + cur < W /\ px + cur \in Nat
          BY <2>1, <2>2, Sizes
        <4>. QED  BY <2>1, <2>2, <4>1
      <3>2. 1 \in 1 .. Len(s) /\ x0 + 1 - 1 = x0
        BY <1>1
      <3>3. ASSUME NEW x \in p .. W - 1
            PROVE  ~(x0 <= x /\ x < x0) /\ t.cells[py][x] = Want(line, p, x)
        BY <2>1, <3>1 DEF Shows
      <3>4. CompletesAt(t.cells[py], line, p, s, x0, 1)
        BY <1>1, <3>1, <3>2, <3>3 DEF CompletesAt
      <3>. QED  BY <3>1, <3>2, <3>4 DEF Completes
    <2>4. DrawsLine'
      <3>1. SHOW # HOME
        BY DEF SHOW, HOME
      <3>. QED  BY <1>1, <1>4, <2>1, <2>3, <3>1 DEF DrawsLine
    <2>5. LineStands'
      BY <1>4, <2>1 DEF LineStands
    <2>6. Between' /\ WillRedraw' /\ WritesOutput'
      <3>1. SHOW # REDRAW
        BY DEF SHOW, REDRAW
      <3>. QED  BY <1>1, <1>4, <3>1 DEF Between, WillRedraw, WritesOutput
    <2>. QED  BY <1>4, <1>6, <2>4, <2>5, <2>6 DEF Screen
  <1>. QED  BY <1>5, <1>6

(* A new line: what is drawn behind the prompt is known to the redraw.     *)
LEMMA SetLineScreen ==
    ASSUME Inv, Screen, Ready, NEW l, NEW c, Edit(l, c, <<REDRAW>>)
    PROVE  Screen'
  <1>0. PICK s : s = <<REDRAW>>
    OBVIOUS
  <1>1. s \in Seq(Outputs) /\ Len(s) = 1 /\ s[1] = REDRAW /\ s # <<>> /\ Head(s) = REDRAW
    <2>1. REDRAW \in Outputs
      BY DEF Outputs, Ops
    <2>. QED  BY <1>0, <2>1, JustOne
  <1>2. ~Comes(SHOW, s) /\ Shape(s)
    <2>1. \A i \in 1 .. Len(s) : i = 1
      BY <1>1
    <2>2. REDRAW \notin {MARK, SHOW, HOME}
      BY DEF SHOW, MARK, REDRAW, HOME
    <2>3. ~Comes(SHOW, s)
      BY <1>1, <2>1, <2>2 DEF Comes
    <2>. QED  BY <1>1, <2>1, <2>2, <2>3 DEF Shape
  <1>3. Edit(l, c, s)
    BY <1>0
  <1>4. /\ pc' = "next" /\ todo' = s
        /\ t' = t /\ px' = px /\ py' = py /\ drawn' = drawn /\ quiet' = quiet
        /\ Shape(todo)' /\ ~Comes(SHOW, todo)' /\ (quiet => InStep')
    BY <1>2, <1>3, EditSame
  <1>5. CASE ~quiet
    BY <1>4, <1>5 DEF Screen
  <1>6. ASSUME quiet PROVE Screen'
    <2>1. /\ Shows(t.cells[py], line, px)
          /\ drawn = Len(line) /\ px + Len(line) < W /\ BlankBelow(t.cells, py)
      BY <1>6, Standing
    <2>2. PICK p \in Nat, n \in Nat : p = px /\ n = Len(line)
      BY LineFacts
    <2>3. BlankFrom(t.cells, py, p + n)
      <3>1. ASSUME NEW x \in Col, x >= p + n PROVE t.cells[py][x] = BLANK
        <4>1. x \in p .. W - 1 /\ ~(x - p < n)
          BY <3>1, Sizes DEF Col
        <4>. QED  BY <2>1, <2>2, <4>1 DEF Shows, Want
      <3>. QED  BY <3>1 DEF BlankFrom
    <2>4. WillRedraw'
      BY <1>4, <2>1, <2>2, <2>3 DEF WillRedraw
    <2>5. Between' /\ DrawsLine' /\ LineStands' /\ WritesOutput'
      BY <1>1, <1>4 DEF Between, DrawsLine, LineStands, WritesOutput
    <2>. QED  BY <1>4, <1>6, <2>4, <2>5 DEF Screen
  <1>. QED  BY <1>5, <1>6

(* A command's output goes to the rows below the line's.                   *)
LEMMA SpeakScreen ==
    ASSUME Inv, Screen, Ready, NEW l, NEW c, NEW s \in Seq(Outputs), Edit(l, c, s),
           Spoken(s), s # <<>>, s[1] = NL, s[Len(s)] = REDRAW
    PROVE  Screen'
  <1>1. Shape(s) /\ ~Comes(SHOW, s)
    BY SpokenShape
  <1>2. /\ pc' = "next" /\ todo' = s
        /\ t' = t /\ px' = px /\ py' = py /\ quiet' = quiet
        /\ Shape(todo)' /\ ~Comes(SHOW, todo)' /\ (quiet => InStep')
    BY <1>1, EditSame
  <1>3. Head(s) = NL
    BY HeadTailProperties
  <1>4. CASE ~quiet
    BY <1>2, <1>4 DEF Screen
  <1>5. ASSUME quiet PROVE Screen'
    <2>1. t.cy = py /\ BlankBelow(t.cells, py)
      BY <1>5, Standing
    <2>2. WritesOutput'
      BY <1>2, <1>3, <2>1 DEF WritesOutput
    <2>3. NL # REDRAW
      BY DEF NL, REDRAW
    <2>4. Between' /\ DrawsLine' /\ LineStands' /\ WillRedraw'
      BY <1>2, <1>3, <2>3 DEF Between, DrawsLine, LineStands, WillRedraw
    <2>. QED  BY <1>2, <1>5, <2>2, <2>4 DEF Screen
  <1>. QED  BY <1>4, <1>5

-----------------------------------------------------------------------------
(* What the commands say.                                                  *)

LEMMA SpokenEmpty == <<>> \in Seq(Outputs) /\ Spoken(<<>>)
  <1>1. Len(<<>>) = 0
    OBVIOUS
  <1>. QED  BY <1>1 DEF Spoken

(* Characters, newlines and the clearing of the screen.                    *)
LEMMA SpokenPlain ==
    ASSUME NEW s \in Seq(Outputs), \A i \in 1 .. Len(s) : s[i] \notin {HOME, SHOW, MARK, REDRAW}
    PROVE  Spoken(s)
  BY DEF Spoken

LEMMA SpokenWords ==
    ASSUME NEW s, s \in {<<"o">>, <<"o", NL>>, <<NL>>, <<NL, "o">>, <<CLEAR>>}
    PROVE  s \in Seq(Outputs) /\ Spoken(s) /\ s # <<>> /\ Len(s) \in 1 .. 2 /\ s[Len(s)] # REDRAW
  <1>1. /\ {"o", NL, CLEAR} \subseteq Outputs
        /\ \A x \in {"o", NL, CLEAR} : x \notin {HOME, SHOW, MARK, REDRAW}
    BY DEF Outputs, Glyphs, Ops, NL, CLEAR, HOME, SHOW, MARK, REDRAW
  <1>2. ASSUME NEW x \in {"o", NL, CLEAR}, s = <<x>>
        PROVE  /\ s \in Seq(Outputs) /\ Len(s) = 1 /\ \A i \in 1 .. Len(s) : s[i] \in {"o", NL, CLEAR}
    BY <1>1, <1>2
  <1>3. ASSUME NEW x \in {"o", NL, CLEAR}, NEW y \in {"o", NL, CLEAR}, s = <<x, y>>
        PROVE  /\ s \in Seq(Outputs) /\ Len(s) = 2 /\ \A i \in 1 .. Len(s) : s[i] \in {"o", NL, CLEAR}
    BY <1>1, <1>3
  <1>4. s \in Seq(Outputs) /\ Len(s) \in 1 .. 2 /\ \A i \in 1 .. Len(s) : s[i] \in {"o", NL, CLEAR}
    BY <1>2, <1>3
  <1>5. \A i \in 1 .. Len(s) : s[i] \notin {HOME, SHOW, MARK, REDRAW}
    BY <1>1, <1>4
  <1>6. s # <<>> /\ Len(s) \in 1 .. Len(s)
    BY <1>4, EmptySeq
  <1>. QED  BY <1>4, <1>5, <1>6, SpokenPlain

(* A prompt behind what was said.                                          *)
LEMMA SpokenAndPrompt ==
    ASSUME NEW a \in Seq(Outputs), Spoken(a), NEW p \in Seq(STRING),
           NEW s, s = a \o Prompted(p)
    PROVE  /\ s \in Seq(Outputs) /\ Spoken(s) /\ s # <<>> /\ s[Len(s)] = REDRAW
           /\ a # <<>> => s[1] = a[1]
           /\ a = <<>> => s[1] = NL
  <1>1. PICK b \in Seq(Outputs) : b = Prompted(p) /\ Spoken(b) /\ b # <<>> /\ b[1] = NL /\ b[Len(b)] = REDRAW
    BY PromptedFacts
  <1>2. s = a \o b /\ s \in Seq(Outputs) /\ Spoken(s)
    BY <1>1, SpokenConcat
  <1>3. PICK n \in Nat, m \in Nat : n = Len(a) /\ m = Len(b) /\ m > 0
    <2>1. Len(a) \in Nat /\ Len(b) \in Nat /\ Len(b) # 0
      BY <1>1, LenProperties, EmptySeq
    <2>. QED  BY <2>1
  <1>4. /\ Len(s) = n + m
        /\ \A i \in 1 .. n : s[i] = a[i]
        /\ \A i \in 1 .. m : s[n + i] = b[i]
    BY <1>2, <1>3, CatAt
  <1>5. s[Len(s)] = REDRAW
    <2>1. m \in 1 .. m
      BY <1>3
    <2>. QED  BY <1>1, <1>3, <1>4, <2>1
  <1>6. s # <<>>
    BY <1>3, <1>4, EmptySeq
  <1>7. a # <<>> => s[1] = a[1]
    <2>1. a # <<>> => 1 \in 1 .. n
      BY <1>3, EmptySeq
    <2>. QED  BY <1>4, <2>1
  <1>8. a = <<>> => s[1] = NL
    <2>1. 1 \in 1 .. m
      BY <1>3
    <2>2. ASSUME a = <<>> PROVE n = 0 /\ n + 1 = 1
      BY <1>3, <2>2
    <2>. QED  BY <1>1, <1>4, <2>1, <2>2
  <1>. QED  BY <1>2, <1>5, <1>6, <1>7, <1>8

LEMMA PromptConcat ==
    ASSUME NEW a \in Seq(Outputs), NEW p \in Seq(STRING)
    PROVE  a \o Prompt(p) \o <<REDRAW>> = a \o Prompted(p)
  <1>1. <<REDRAW>> \in Seq(Outputs) /\ Prompt(p) \in Seq(Outputs)
    BY JustRedraw, PromptIsOutput
  <1>. QED  BY <1>1, ConcatAssociative DEF Prompted

LEMMA ExecuteScreen ==
    ASSUME Inv, Screen, NEW a \in Seq(Outputs), Spoken(a),
           NEW p \in Seq(STRING), Execute(a, p)
    PROVE  Screen'
  <1>1. Ready /\ Edit(<<>>, 0, <<NL>> \o a \o Prompt(p) \o <<REDRAW>>)
    BY DEF Execute
  <1>2. PICK w : w = <<NL>>
    OBVIOUS
  <1>3. w \in Seq(Outputs) /\ Spoken(w) /\ w # <<>> /\ w[Len(w)] # REDRAW /\ w[1] = NL /\ Len(w) = 1
    <2>1. w[1] = NL /\ Len(w) = 1
      BY <1>2
    <2>. QED  BY <1>2, <2>1, SpokenWords
  <1>4. PICK b : b = w \o a
    OBVIOUS
  <1>5. b \in Seq(Outputs) /\ Spoken(b)
    BY <1>3, <1>4, SpokenConcat
  <1>6. b # <<>> /\ b[1] = NL
    <2>1. PICK n \in Nat, m \in Nat : n = 1 /\ n = Len(w) /\ m = Len(a)
      BY <1>3, LenProperties
    <2>2. Len(b) = n + m /\ \A i \in 1 .. n : b[i] = w[i]
      <3>1. w \in Seq(Outputs) /\ n = Len(w)
        BY <1>3, <2>1
      <3>2. /\ Len(w \o a) = n + Len(a)
            /\ \A i \in 1 .. n : (w \o a)[i] = w[i]
        BY <3>1, CatAt
      <3>. QED  BY <1>4, <2>1, <3>2
    <2>3. 1 \in 1 .. n /\ n + m # 0
      BY <2>1
    <2>. QED  BY <1>3, <1>5, <2>2, <2>3, EmptySeq
  <1>7. PICK s : s = b \o Prompted(p)
    OBVIOUS
  <1>8. s \in Seq(Outputs) /\ Spoken(s) /\ s # <<>> /\ s[Len(s)] = REDRAW /\ s[1] = NL
    BY <1>5, <1>6, <1>7, SpokenAndPrompt
  <1>9. Edit(<<>>, 0, s)
    <2>1. b \o Prompt(p) \o <<REDRAW>> = s
      BY <1>5, <1>7, PromptConcat
    <2>. QED  BY <1>1, <1>2, <1>4, <2>1
  <1>. QED  BY <1>1, <1>8, <1>9, SpeakScreen

LEMMA SayScreen ==
    ASSUME Inv, Screen, \/ \E out \in {<<>>, <<"o">>, <<"o", NL>>} : Say(out)
                        \/ Clear
                        \/ Exec
    PROVE  Screen'
  <1>1. path \in Seq(STRING)
    BY WhereIsDir
  <1>2. PICK a \in Seq(Outputs) : Spoken(a) /\ Execute(a, path)
    <2>1. ASSUME NEW out \in {<<>>, <<"o">>, <<"o", NL>>}, Say(out)
          PROVE  \E a \in Seq(Outputs) : Spoken(a) /\ Execute(a, path)
      <3>1. out \in Seq(Outputs) /\ Spoken(out)
        BY SpokenEmpty, SpokenWords
      <3>. QED  BY <2>1, <3>1 DEF Say
    <2>2. ASSUME Clear
          PROVE  \E a \in Seq(Outputs) : Spoken(a) /\ Execute(a, path)
      <3>1. PICK w : w = <<CLEAR>>
        OBVIOUS
      <3>2. w \in Seq(Outputs) /\ Spoken(w)
        BY <3>1, SpokenWords
      <3>3. PICK s : s = w \o Prompted(path)
        OBVIOUS
      <3>4. s \in Seq(Outputs) /\ Spoken(s)
        BY <1>1, <3>2, <3>3, SpokenAndPrompt
      <3>5. w \o Prompt(path) \o <<REDRAW>> = s
        BY <1>1, <3>2, <3>3, PromptConcat
      <3>6. Execute(s, path)
        BY <2>2, <3>1, <3>5 DEF Clear
      <3>. QED  BY <3>4, <3>6
    <2>3. ASSUME Exec
          PROVE  \E a \in Seq(Outputs) : Spoken(a) /\ Execute(a, path)
      <3>1. <<"o", NL>> \in Seq(Outputs) /\ Spoken(<<"o", NL>>)
        BY SpokenWords
      <3>. QED  BY <2>3, <3>1 DEF Exec
    <2>. QED  BY <2>1, <2>2, <2>3
  <1>. QED  BY <1>1, <1>2, ExecuteScreen

LEMMA CdScreen ==
    ASSUME Inv, Screen, NEW a \in CdArgs, Cd(a)
    PROVE  Screen'
  <1>1. CASE Resolved(a) = NotFound
    <2>1. Execute(<<"o", NL>>, path)
      BY <1>1 DEF Cd
    <2>2. <<"o", NL>> \in Seq(Outputs) /\ Spoken(<<"o", NL>>)
      BY SpokenWords
    <2>. QED  BY <2>1, <2>2, WhereIsDir, ExecuteScreen
  <1>2. CASE Resolved(a) # NotFound
    <2>1. Execute(<<>>, Normalized(a))
      BY <1>2 DEF Cd
    <2>2. Normalized(a) \in Seq(STRING)
      BY <1>2, CdAgrees, DirsAssumption DEF DirsAssumption
    <2>. QED  BY <2>1, <2>2, SpokenEmpty, ExecuteScreen
  <1>. QED  BY <1>1, <1>2

LEMMA TabScreen ==
    ASSUME Inv, Screen, KeyTab
    PROVE  Screen'
  <1>1. Ready
    BY DEF KeyTab
  <1>2. ASSUME NEW c, SetLine(c) PROVE Screen'
    BY <1>1, <1>2, SetLineScreen DEF SetLine
  <1>3. ASSUME Edit(line, cur, <<NL, "o">> \o Prompt(path) \o <<REDRAW>>) PROVE Screen'
    <2>1. PICK w : w = <<NL, "o">>
      OBVIOUS
    <2>2. w \in Seq(Outputs) /\ Spoken(w) /\ w # <<>> /\ w[1] = NL
      <3>1. w[1] = NL
        BY <2>1
      <3>. QED  BY <2>1, <3>1, SpokenWords
    <2>3. path \in Seq(STRING)
      BY WhereIsDir
    <2>4. PICK s : s = w \o Prompted(path)
      OBVIOUS
    <2>5. s \in Seq(Outputs) /\ Spoken(s) /\ s # <<>> /\ s[Len(s)] = REDRAW /\ s[1] = NL
      BY <2>2, <2>3, <2>4, SpokenAndPrompt
    <2>6. w \o Prompt(path) \o <<REDRAW>> = s
      BY <2>2, <2>3, <2>4, PromptConcat
    <2>7. Edit(line, cur, s)
      BY <1>3, <2>1, <2>6
    <2>. QED  BY <1>1, <2>5, <2>7, SpeakScreen
  <1>4. (\E c : SetLine(c)) \/ Edit(line, cur, <<NL, "o">> \o Prompt(path) \o <<REDRAW>>)
    BY DEF KeyTab
  <1>. QED  BY <1>2, <1>3, <1>4

LEMMA KeyScreen ==
    ASSUME Inv, Screen, \/ \E c \in Chars : OnChar(c)
                        \/ KeyLeft \/ KeyRight \/ KeyDelete \/ KeyUp \/ KeyDown
    PROVE  Screen'
  <1>1. \/ \E c : Ready /\ Edit(line, c, <<SHOW>>)
        \/ \E l, c : Ready /\ Edit(l, c, <<REDRAW>>)
    <2>1. CASE KeyLeft \/ KeyRight
      BY <2>1 DEF KeyLeft, KeyRight
    <2>2. CASE KeyDelete \/ \E c \in Chars : OnChar(c)
      BY <2>2 DEF KeyDelete, OnChar
    <2>3. CASE KeyUp \/ KeyDown
      <3>1. \E l : Ready /\ SetLine(l)
        BY <2>3 DEF KeyUp, KeyDown
      <3>. QED  BY <3>1 DEF SetLine
    <2>. QED  BY <2>1, <2>2, <2>3
  <1>. QED  BY <1>1, CaretScreen, SetLineScreen

-----------------------------------------------------------------------------
LEMMA InitScreen == Init => Screen
  <1>. SUFFICES ASSUME Init PROVE Screen
    OBVIOUS
  <1>1. PICK w : w = <<"o", NL>>
    OBVIOUS
  <1>2. w \in Seq(Outputs) /\ Spoken(w) /\ w # <<>> /\ w[1] = "o"
    <2>1. w[1] = "o"
      BY <1>1
    <2>. QED  BY <1>1, <2>1, SpokenWords
  <1>3. PICK s : s = w \o Prompted(<<>>)
    OBVIOUS
  <1>4. s \in Seq(Outputs) /\ Spoken(s) /\ s # <<>> /\ s[Len(s)] = REDRAW /\ s[1] = "o"
    <2>1. <<>> \in Seq(STRING)
      OBVIOUS
    <2>. QED  BY <1>2, <1>3, <2>1, SpokenAndPrompt
  <1>5. todo = s
    <2>1. w \o Prompt(<<>>) \o <<REDRAW>> = s
      <3>1. <<>> \in Seq(STRING)
        OBVIOUS
      <3>. QED  BY <1>2, <1>3, <3>1, PromptConcat
    <2>. QED  BY <1>1, <2>1 DEF Init
  <1>6. Shape(todo) /\ ~Comes(SHOW, todo) /\ todo # <<>> /\ Head(todo) = "o"
    <2>1. Head(s) = s[1]
      BY <1>4, HeadTailProperties
    <2>. QED  BY <1>4, <1>5, <2>1, SpokenShape
  <1>7. pc = "next" /\ t.cells = Blank /\ t.cx = 0 /\ t.cy = 0 /\ reg.x = 0 /\ reg.y = 0
    BY DEF Init
  <1>8. InStep
    BY <1>7 DEF InStep
  <1>9. WritesOutput
    <2>1. BlankBelow(Blank, 0) /\ BlankFrom(Blank, 0, 0)
      BY BlankAt DEF BlankBelow, BlankFrom
    <2>. QED  BY <1>7, <2>1 DEF WritesOutput
  <1>10. Between /\ DrawsLine /\ LineStands /\ WillRedraw
    BY <1>6 DEF Between, DrawsLine, LineStands, WillRedraw, REDRAW
  <1>. QED  BY <1>6, <1>8, <1>9, <1>10 DEF Screen

LEMMA StepScreen == Inv /\ Screen /\ [Next]_vars => Screen'
  <1>. SUFFICES ASSUME Inv, Screen, [Next]_vars PROVE Screen'
    OBVIOUS
  <1>1. CASE UNCHANGED vars
    <2>1. UNCHANGED <<line, cur, drawn, px, py, t, pc, reg, todo, quiet>>
      BY <1>1 DEF vars, editor, prompt, screen
    <2>2. Shape(todo)' /\ (Comes(SHOW, todo)' <=> Comes(SHOW, todo))
      BY <2>1 DEF Screen, Shape, Comes
    <2>3. ASSUME quiet PROVE Screen'
      <3>1. InStep /\ Between /\ DrawsLine /\ LineStands /\ WillRedraw /\ WritesOutput
        BY <2>3 DEF Screen
      <3>2. InStep' /\ Between' /\ LineStands'
        BY <2>1, <2>2, <3>1 DEF InStep, Between, LineStands
      <3>3. DrawsLine' /\ WillRedraw' /\ WritesOutput'
        BY <2>1, <2>2, <3>1 DEF DrawsLine, WillRedraw, WritesOutput
      <3>. QED  BY <2>2, <3>2, <3>3 DEF Screen
    <2>. QED  BY <2>1, <2>2, <2>3 DEF Screen
  <1>2. CASE \E c \in {"o", NL} : ProgramWrites(c)
    BY <1>2, ProgramScreen
  <1>3. CASE Output
    BY <1>3, PutNewlineScreen, PutCheckScreen, PutStoreScreen, PutIncScreen, PutWrapScreen,
       PutScrollScreen, MoveCursorScreen, MarkScreen, RedrawScreen DEF Output
  <1>4. CASE Event
    <2>1. CASE \/ \E c \in Chars : OnChar(c)
               \/ KeyLeft \/ KeyRight \/ KeyDelete \/ KeyUp \/ KeyDown
      BY <2>1, KeyScreen
    <2>2. CASE KeyTab
      BY <2>2, TabScreen
    <2>3. CASE (\E out \in {<<>>, <<"o">>, <<"o", NL>>} : Say(out)) \/ Clear \/ Exec
      BY <2>3, SayScreen
    <2>4. CASE \E a \in CdArgs : Cd(a)
      BY <2>4, CdScreen
    <2>. QED  BY <1>4, <2>1, <2>2, <2>3, <2>4 DEF Event
  <1>. QED  BY <1>1, <1>2, <1>3, <1>4 DEF Next

LEMMA ScreenInvariance == Spec => []Screen
  BY InitScreen, StepScreen, Invariance, PTL DEF Spec

(* What the user sees is what Enter will run: as long as no program has    *)
(* written, whenever the shell waits for a key, the row of the prompt      *)
(* shows the line behind it and blanks to its end, and the cursor stands   *)
(* at the caret.  For every size of the screen, every line, prompt and     *)
(* history, and every place where output wrapped or scrolled: redraw_line  *)
(* blanks exactly what its last call left behind the line (shell.c), and   *)
(* term_putc (terminal.c) keeps everything below the prompt blank.         *)
THEOREM LineIsOnScreen == Spec => []ScreenShowsLine
  <1>1. Inv /\ Screen => ScreenShowsLine
    <2>. SUFFICES ASSUME Inv, Screen, Ready, quiet
                  PROVE  /\ t.cx = px + cur /\ t.cy = py
                         /\ \A x \in px .. W - 1 :
                               t.cells[py][x] = IF x - px < Len(line) THEN line[x - px + 1] ELSE BLANK
      BY DEF ScreenShowsLine
    <2>. QED  BY Standing DEF Shows, Want
  <1>. QED  BY <1>1, Invariance, ScreenInvariance, PTL
=============================================================================
