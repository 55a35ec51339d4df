------------------------------ MODULE Explorer ------------------------------
(***************************************************************************)
(* The file explorer and the notepad of wm.cpp, the two windows that keep  *)
(* a copy of what is on the volume, and the shell's commands that change   *)
(* the volume behind them.                                                 *)
(*                                                                         *)
(* A path is the sequence of the names under C:\, a text a sequence of     *)
(* characters, and a directory's entries stand in slots.  Every operation  *)
(* of fat32.c is one step here (Fat32 has their transfers), and any read   *)
(* may fail.  fs_gen_seen is kept as whether it equals the generation.     *)
(*                                                                         *)
(* Left out: which window has the keyboard (WindowManager), the scroll     *)
(* positions, and that a file takes a cluster: a directory's cluster that  *)
(* was freed lists as empty until a directory takes it again.              *)
(***************************************************************************)
EXTENDS Naturals, Sequences, FiniteSets, SequencesExt

CONSTANTS
    Names,      \* names the user gives to files and directories
    DefaultName, \* NOTE.TXT
    MaxCluster, \* clusters of directories: Root .. MaxCluster
    Slots,      \* entries a directory has room for
    MaxRows,    \* items[64]
    PathMax,    \* names that surely fit into path[64]
    NoteMax,    \* sizeof(note) - 1
    Texts,      \* what the shell writes into a file
    Initial,    \* the root directory in the beginning
    MaxOps,     \* bound on the shell's commands and the notepad's saves
    NONE

Root  == 2
CR    == "CR"
Char  == "x"         \* any character but a carriage return
UP    == ".."
ERROR == "(error)"
EMPTY == "(empty)"
CUT   == "cut"       \* a name that did not fit, and so another name
LOST  == "could not read file"
MSG   == <<LOST>>

Clusters == Root .. MaxCluster
Slot     == 1 .. Slots
AnyName  == Names \cup {UP, ERROR, EMPTY, CUT}

ASSUME SizesAssumption ==
    /\ MaxCluster \in Nat /\ MaxCluster >= Root
    /\ {Slots, MaxRows, NoteMax} \subseteq Nat \ {0} /\ PathMax \in Nat /\ MaxOps \in Nat
    /\ DefaultName \in Names /\ Names \cap {UP, ERROR, EMPTY, CUT} = {}

(* A character is Char or CR, or LOST, which stands for all of that line.  *)
Text  == Seq({Char, CR, LOST})
Entry == [name : AnyName, cl : {0} \cup Clusters, text : Text]

ASSUME TextsAssumption == Texts \subseteq Text /\ NONE \notin Entry

(* The volume begins with files only, no two of one name.                  *)
ASSUME InitialAssumption ==
    /\ Initial \in [Slot -> {NONE} \cup {e \in Entry : e.cl = 0}]
    /\ \A s, r \in Slot : Initial[s] # NONE /\ Initial[r] # NONE /\ Initial[s].name = Initial[r].name
                            => s = r

VARIABLES
    vol,        \* the entries of every directory, by its cluster
    ex,         \* the explorer: path, dir_cluster, items, list_sel, fs_gen_seen
    note,       \* the notepad: note_path, note, note_caret
    ops,
    read        \* for the properties: what the notepad read and shows as it is, or NONE

explorerVars == <<vol, ex, note, ops, read>>

-----------------------------------------------------------------------------
(* The volume, as its callers see it.                                      *)

File(n, t) == [name |-> n, cl |-> 0, text |-> t]
Dir(n, c)  == [name |-> n, cl |-> c, text |-> <<>>]
IsDir(e)   == e.cl # 0

(* The elements of s at the places in S, in their order.                   *)
Picked(s, S) ==
    LET upto[i \in 0 .. Len(s)] == IF i = 0 THEN <<>>
                                   ELSE IF i \in S THEN Append(upto[i - 1], s[i])
                                   ELSE upto[i - 1]
    IN  upto[Len(s)]

Used(c)     == IF c \in DOMAIN vol THEN {s \in Slot : vol[c][s] # NONE} ELSE {}
Entries(c)  == IF c \in DOMAIN vol THEN Picked(vol[c], Used(c)) ELSE <<>>
Named(c, n) == {vol[c][s] : s \in {s \in Used(c) : vol[c][s].name = n}}

(* fat32_resolve_dir: 0 when there is no such directory.                   *)
Child(c, n) ==
    LET found == {e \in Named(c, n) : IsDir(e)}
    IN  IF found = {} THEN 0 ELSE (CHOOSE e \in found : TRUE).cl

Resolve(p) ==
    LET upto[i \in 0 .. Len(p)] == IF i = 0 THEN Root ELSE Child(upto[i - 1], p[i])
    IN  upto[Len(p)]

FileText(p) ==
    LET found == {e \in Named(Resolve(Front(p)), Last(p)) : ~IsDir(e)}
    IN  IF found = {} THEN NONE ELSE (CHOOSE e \in found : TRUE).text

Put(c, s, e) == [vol EXCEPT ![c][s] = e]
FreeSlots(c) == {s \in Slot : vol[c][s] = NONE}
First(S)     == CHOOSE s \in S : \A r \in S : s <= r

(* fat32_write: the file is made when it is not there.  NONE: it fails.    *)
Written(c, n, t) ==
    LET at   == {s \in Used(c) : vol[c][s].name = n}
        room == IF at # {} THEN at ELSE FreeSlots(c)
    IN  IF c \notin DOMAIN vol THEN NONE
        ELSE IF Child(c, n) # 0 \/ room = {} THEN NONE
        ELSE Put(c, First(room), File(n, t))

(* Every operation that changes the volume moves the generation.           *)
Changed(v) ==
    /\ vol' = v
    /\ ops < MaxOps /\ ops' = ops + 1

Unseen == ex' = [ex EXCEPT !.seen = FALSE]

-----------------------------------------------------------------------------
(* explorer_refresh                                                        *)

Row(e)  == [name |-> e.name, dir |-> IsDir(e)]
Only(n) == <<[name |-> n, dir |-> FALSE]>>

(* The parent, the directories, the files; at most MaxRows.                *)
Listing(c) ==
    LET es  == Entries(c)
        dirs == {i \in DOMAIN es : IsDir(es[i])}
        sorted == Picked(es, dirs) \o Picked(es, DOMAIN es \ dirs)
        up  == IF c = Root THEN <<>> ELSE <<[name |-> UP, dir |-> TRUE]>>
        all == up \o [i \in DOMAIN sorted |-> Row(sorted[i])]
    IN  IF all = <<>> THEN Only(EMPTY) ELSE SubSeq(all, 1, IF Len(all) < MaxRows THEN Len(all) ELSE MaxRows)

(* Mutant: the list keeps its selection also when it became shorter.       *)
RefreshedPastEnd(e, keep, fails) ==
    LET rows == IF fails THEN Only(ERROR) ELSE Listing(e.dir)
    IN  [e EXCEPT !.rows = rows, !.seen = TRUE, !.sel = IF keep /\ ~fails THEN @ ELSE 1]

Refreshed(e, keep, fails) ==
    LET rows == IF fails THEN Only(ERROR) ELSE Listing(e.dir)
        last == IF e.sel > Len(rows) THEN Len(rows) ELSE e.sel
    IN  [e EXCEPT !.rows = rows, !.seen = TRUE, !.sel = IF keep THEN last ELSE 1]

(* open_app_window                                                         *)
ShowExplorer(fails) ==
    /\ ex' = Refreshed([ex EXCEPT !.visible = TRUE], TRUE, fails)
    /\ UNCHANGED <<vol, note, ops, read>>

(* Closed, minimized or hidden with all others.                            *)
HideExplorer ==
    /\ ex' = [ex EXCEPT !.visible = FALSE]
    /\ UNCHANGED <<vol, note, ops, read>>

(* What show desktop hid comes back as it was.                             *)
BringBack ==
    /\ ex' = [ex EXCEPT !.visible = TRUE]
    /\ UNCHANGED <<vol, note, ops, read>>

(* EV_TICK                                                                 *)
ListTick(fails) ==
    /\ ex.visible /\ ~ex.seen
    /\ ex' = Refreshed(ex, TRUE, fails)
    /\ UNCHANGED <<vol, note, ops, read>>

(* A press on a row, KEY_UP and KEY_DOWN.                                  *)
Select(i) ==
    /\ ex.visible /\ i \in DOMAIN ex.rows
    /\ ex' = [ex EXCEPT !.sel = i]
    /\ UNCHANGED <<vol, note, ops, read>>

-----------------------------------------------------------------------------
(* explorer_open_selected, by Enter or by a second press on the row.       *)

Selected == ex.rows[ex.sel]

(* "..": the path loses its last name and is resolved from the root.  If   *)
(* that fails the root is shown, under the path that could not be found.   *)
GoUp(lost, fails) ==
    /\ ex.visible /\ Selected.name = UP
    /\ LET p == IF ex.path = <<>> THEN <<>> ELSE Front(ex.path)
           c == IF lost \/ Resolve(p) = 0 THEN Root ELSE Resolve(p)
       IN  ex' = Refreshed([ex EXCEPT !.path = p, !.dir = c], FALSE, fails)
    /\ UNCHANGED <<vol, note, ops, read>>

(* Mutant: the name is appended before the directory is looked up.         *)
EnterPathFirst(lost, fails) ==
    /\ ex.visible /\ Selected.name # UP /\ Selected.dir
    /\ LET c == Child(ex.dir, Selected.name)
           e == [ex EXCEPT !.path = Append(@, Selected.name)]
       IN  IF lost \/ c = 0
           THEN ex' = [e EXCEPT !.rows = Only(ERROR), !.sel = 1]
           ELSE ex' = Refreshed([e EXCEPT !.dir = c], FALSE, fails)
    /\ UNCHANGED <<vol, note, ops, read>>

(* A long path is not continued, or with part of the name.                 *)
Continued(p, n) ==
    IF Len(p) < PathMax THEN {Append(p, n)}
    ELSE {p} \cup (IF CUT \in ToSet(p) THEN {} ELSE {Append(p, CUT)})

Enter(lost, fails) ==
    /\ ex.visible /\ Selected.name # UP /\ Selected.dir
    /\ LET c == Child(ex.dir, Selected.name)
       IN  IF lost \/ c = 0
           THEN ex' = [ex EXCEPT !.rows = Only(ERROR), !.sel = 1]
           ELSE \E p \in Continued(ex.path, Selected.name) :
                   ex' = Refreshed([ex EXCEPT !.path = p, !.dir = c], FALSE, fails)
    /\ UNCHANGED <<vol, note, ops, read>>

(* Mutant: one byte less than the buffer holds.                           *)
ShownShort(t) ==
    LET n == IF Len(t) < NoteMax THEN Len(t) ELSE NoteMax - 1
    IN  Picked(SubSeq(t, 1, n), {i \in 1 .. n : t[i] # CR})

(* As much as the buffer holds, without carriage returns.                  *)
Shown(t) ==
    LET n == IF Len(t) < NoteMax THEN Len(t) ELSE NoteMax
    IN  Picked(SubSeq(t, 1, n), {i \in 1 .. n : t[i] # CR})

(* A file is read into the notepad by its path; "(error)" and "(empty)"    *)
(* are rows, and so files, too.                                            *)
NotePath(p, n) == {Append(p, n)} \cup (IF Len(p) < PathMax THEN {} ELSE {Append(p, CUT)})

OpenFile(fails) ==
    /\ ex.visible /\ Selected.name # UP /\ ~Selected.dir
    /\ \E p \in NotePath(ex.path, Selected.name) :
          LET t == IF fails THEN NONE ELSE FileText(p)
              s == IF t = NONE THEN MSG ELSE Shown(t)
          IN  /\ note' = [path |-> p, text |-> s, caret |-> Len(s)]
              /\ read' = t
    /\ UNCHANGED <<vol, ex, ops>>

-----------------------------------------------------------------------------
(* The notepad's keys.                                                     *)

Insert ==
    /\ Len(note.text) < NoteMax
    /\ note' = [note EXCEPT !.text = InsertAt(@, note.caret + 1, Char), !.caret = @ + 1]
    /\ read' = NONE
    /\ UNCHANGED <<vol, ex, ops>>

Erase(at) ==
    /\ note' = [note EXCEPT !.text = RemoveAt(@, at), !.caret = at - 1]
    /\ read' = NONE
    /\ UNCHANGED <<vol, ex, ops>>

Backspace  == note.caret > 0 /\ Erase(note.caret)
DeleteChar == note.caret < Len(note.text) /\ Erase(note.caret + 1)

(* KEY_LEFT, KEY_RIGHT and a press into the text.                          *)
MoveCaret(to) ==
    /\ to \in 0 .. Len(note.text)
    /\ note' = [note EXCEPT !.caret = to]
    /\ UNCHANGED <<vol, ex, ops, read>>

(* Ctrl+N                                                                  *)
NewFile ==
    /\ note' = [path |-> <<DefaultName>>, text |-> <<>>, caret |-> 0]
    /\ read' = NONE
    /\ UNCHANGED <<vol, ex, ops>>

(* Ctrl+S                                                                  *)
Save ==
    /\ LET v == Written(Resolve(Front(note.path)), Last(note.path), note.text)
       IN  IF v = NONE THEN UNCHANGED <<vol, ops, ex>> ELSE Changed(v) /\ Unseen
    /\ UNCHANGED <<note, read>>

-----------------------------------------------------------------------------
(* The shell: mkdir, write and rm, in any directory.                       *)

ShellMkdir(c, n) ==
    /\ Named(c, n) = {} /\ FreeSlots(c) # {}
    /\ LET free == Clusters \ DOMAIN vol
           new  == First(free)
       IN  /\ free # {}
           /\ Changed([d \in DOMAIN vol \cup {new} |->
                         IF d = new THEN [s \in Slot |-> NONE]
                         ELSE IF d = c THEN [vol[c] EXCEPT ![First(FreeSlots(c))] = Dir(n, new)]
                         ELSE vol[d]])
    /\ Unseen
    /\ UNCHANGED <<note, read>>

ShellWrite(c, n, t) ==
    /\ Written(c, n, t) # NONE
    /\ Changed(Written(c, n, t))
    /\ Unseen
    /\ UNCHANGED <<note, read>>

(* Mutant: rm leaves the generation alone.                                 *)
ShellRmUnseen(c, s) ==
    /\ vol[c][s] # NONE
    /\ LET e == vol[c][s]
       IN  /\ IsDir(e) => Used(e.cl) = {}
           /\ Changed([d \in DOMAIN vol \ {e.cl} |-> IF d = c THEN [vol[c] EXCEPT ![s] = NONE] ELSE vol[d]])
    /\ UNCHANGED <<ex, note, read>>

(* A directory must be empty.                                              *)
ShellRm(c, s) ==
    /\ vol[c][s] # NONE
    /\ LET e == vol[c][s]
       IN  /\ IsDir(e) => Used(e.cl) = {}
           /\ Changed([d \in DOMAIN vol \ {e.cl} |-> IF d = c THEN [vol[c] EXCEPT ![s] = NONE] ELSE vol[d]])
    /\ Unseen
    /\ UNCHANGED <<note, read>>

-----------------------------------------------------------------------------
(* wm_init: explorer_build_root and notepad_new_file.                      *)
ExplorerInit ==
    /\ vol = [c \in {Root} |-> Initial]
    /\ \E fails \in BOOLEAN :
          ex = Refreshed([visible |-> FALSE, path |-> <<>>, dir |-> Root, rows |-> <<>>,
                          sel |-> 1, seen |-> TRUE], FALSE, fails)
    /\ note = [path |-> <<DefaultName>>, text |-> <<>>, caret |-> 0]
    /\ ops = 0 /\ read = NONE

ListNext ==
    \/ HideExplorer \/ BringBack
    \/ \E fails \in BOOLEAN : ShowExplorer(fails) \/ ListTick(fails) \/ OpenFile(fails)
    \/ \E i \in 1 .. MaxRows : Select(i)
    \/ \E lost, fails \in BOOLEAN : GoUp(lost, fails) \/ Enter(lost, fails)

NoteNext ==
    \/ \E to \in 0 .. NoteMax : MoveCaret(to)
    \/ Insert \/ Backspace \/ DeleteChar \/ NewFile \/ Save

ShellNext ==
    \E c \in DOMAIN vol :
       \/ \E n \in Names : ShellMkdir(c, n) \/ \E t \in Texts : ShellWrite(c, n, t)
       \/ \E s \in Slot : ShellRm(c, s)

ExplorerNext == ListNext \/ NoteNext \/ ShellNext

ExplorerSpec == ExplorerInit /\ [][ExplorerNext]_explorerVars

-----------------------------------------------------------------------------
(* Properties.                                                             *)

(* The list is never empty and has a selected row; the text fits the       *)
(* buffer and the caret the text; a cluster belongs to one directory.      *)
ExplorerTypeOK ==
    /\ DOMAIN vol \subseteq Clusters /\ Root \in DOMAIN vol
    /\ \A c \in DOMAIN vol : Cardinality({p \in (DOMAIN vol) \X Slot :
            vol[p[1]][p[2]] # NONE /\ vol[p[1]][p[2]].cl = c}) = IF c = Root THEN 0 ELSE 1
    /\ ex.sel \in DOMAIN ex.rows /\ Len(ex.rows) <= MaxRows
    /\ ex.dir \in Clusters
    /\ Len(note.text) <= NoteMax \/ note.text = MSG
    /\ note.caret \in 0 .. Len(note.text) /\ Len(note.path) > 0

(* The rows on the screen are those of the directory's cluster as it is    *)
(* now, or they are older than the generation, which the next tick or the  *)
(* next opening of the window sees (wm.cpp:1750): through commands run     *)
(* while the window is hidden, saves, and removed and reused directories.  *)
ListingIsCurrent ==
    ex.seen /\ ex.rows # Only(ERROR) => ex.rows = Listing(ex.dir)

(* The files are opened and saved by path, the rows come from dir_cluster. *)
(* The path leads to the directory that is listed until one of these parts *)
(* them: its removal, a path that is full, or a ".." that fails.           *)
PathFollows ==
    [][Resolve(ex.path) = ex.dir =>
         \/ (Resolve(ex.path) = ex.dir)'
         \/ Resolve(ex.path)' = 0 /\ UNCHANGED <<ex.path, ex.dir>>
         \/ Len(ex.path) >= PathMax /\ ex'.dir # ex.dir
         \/ Selected.name = UP /\ ex'.dir = Root]_explorerVars

(* Opening a file and saving it leaves it as it was, unless it holds what  *)
(* the notepad cannot (a carriage return, or more than the buffer takes),  *)
(* could not be read, or was written meanwhile.                            *)
SaveKeepsUnedited ==
    [][Save /\ read # NONE /\ read = FileText(note.path)
         /\ Len(read) <= NoteMax /\ CR \notin ToSet(read) => vol' = vol]_explorerVars
=============================================================================
