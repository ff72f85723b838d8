---------------------------- MODULE FileManager ----------------------------
(***************************************************************************)
(* src/file_manager: two panels that list directories, a cursor in each,   *)
(* and one working directory for both.  An action is one turn of main's    *)
(* loop: everything that a key does.                                       *)
(*                                                                         *)
(* A path is a directory, for its absolute name, or the name of an entry,  *)
(* which is looked up in the working directory.  Colours, refreshes and    *)
(* list_end, which is only printed, are left out.                          *)
(***************************************************************************)
EXTENDS Integers, Sequences

CONSTANTS
    Dirs, Names,
    Files,      \* regular files that are not executable
    Programs,   \* those that are
    Node,       \* Node[d][x]: what entry x of d is
    Order,      \* Order[d]: the names in d as alphasort gives them
    Hidden,     \* directories that cannot be read
    Closed,     \* directories that cannot be entered
    Home, Start,\* $HOME and where the program was started
    Heights,    \* lines between the borders of a window
    Word        \* how many values an unsigned int has

Range(s) == {s[j] : j \in DOMAIN s}

ASSUME TreeAssumption ==
    /\ Dirs \cap (Names \cup Files \cup Programs) = {} /\ Files \cap Programs = {}
    /\ {".", ".."} \subseteq Names
    /\ Order \in [Dirs -> Seq(Names)]
    /\ DOMAIN Node = Dirs
    /\ \A d \in Dirs :
        /\ Node[d] \in [Range(Order[d]) -> Dirs \cup Files \cup Programs]
        /\ {".", ".."} \subseteq Range(Order[d])
        /\ Node[d]["."] = d /\ Node[d][".."] \in Dirs
        /\ Len(Order[d]) \in 2 .. Word - 2

\* Otherwise the program crashes before it shows anything: ListDir reports a
\* failure by an entry of a list that is not there yet.
ASSUME StartAssumption == {Home, Start} \subseteq Dirs \ (Hidden \cup Closed)

ASSUME WordAssumption == Word \in Nat /\ Heights \subseteq 0 .. Word - 1

Panels == {"left", "right"}
Other(p) == IF p = "left" THEN "right" ELSE "left"

VARIABLES
    ch,         \* the key that getch read last
    running,    \* "yes", or how the program has ended
    active,     \* the panel that the keys are for
    cwd,        \* the working directory of the process
    work,       \* work_dir of each panel
    list,       \* name_list: names and types
    y, sel, begin, \* y, selected_obj and list_begin
    size        \* the window's lines when its list was read

cursorVars == <<y, sel, begin>>
dirVars == <<cwd, work, list, size>>
vars == <<ch, running, active, dirVars, cursorVars>>

\* A counter with a sign.
MutDec(x) == x - 1

Dec(x) == (x - 1) % Word
Inc(x) == (x + 1) % Word

-----------------------------------------------------------------------------
(* Directories *)

Nothing == "nothing"

Lookup(d, path) ==
    IF path \in Dirs THEN path
    ELSE IF path \in DOMAIN Node[d] THEN Node[d][path] ELSE Nothing

\* chdir; nobody tests whether it worked.
Chdir(d, path) ==
    IF Lookup(d, path) \in Dirs \ Closed THEN Lookup(d, path) ELSE d

TypeOf(node) ==
    IF node \in Dirs THEN "DT_DIR" ELSE IF node \in Programs THEN "DT_EXEC" ELSE "DT_REG"

\* Types that are read one entry too early.
MutListing(dir, wd) ==
    [j \in DOMAIN Order[dir] |->
        [name |-> Order[dir][j],
         type |-> TypeOf(Node[wd][Order[dir][IF j = 1 THEN 1 ELSE j - 1]])]]

\* The names come from the directory, the types from an lstat of each name,
\* which is looked up in the working directory.
Listing(dir, wd) ==
    [j \in DOMAIN Order[dir] |->
        [name |-> Order[dir][j], type |-> TypeOf(Node[wd][Order[dir][j]])]]

Init ==
    /\ ch = "none"
    /\ running = "yes"
    /\ active = "left"
    /\ cwd = Start
    /\ work = [p \in Panels |-> IF p = "left" THEN Start ELSE Home]
    /\ list = [p \in Panels |-> Listing(work[p], work[p])]
    /\ size \in [Panels -> Heights]
    /\ y = [p \in Panels |-> 1]
    /\ sel = [p \in Panels |-> 1]
    /\ begin = [p \in Panels |-> 0]

-----------------------------------------------------------------------------
(* The arrow keys *)

SetCursor(p, row, entry, first) ==
    /\ y' = [y EXCEPT ![p] = row]
    /\ sel' = [sel EXCEPT ![p] = entry]
    /\ begin' = [begin EXCEPT ![p] = first]

\* A scroll that does not start again after the last entry.
MutScrollDown(p, entry) == SetCursor(p, Dec(size[p]), entry, Inc(begin[p]))

\* The list is longer than the window and the cursor is below it, or above it.
ScrollDown(p, entry) ==
    IF entry < Len(list[p])
    THEN SetCursor(p, Dec(size[p]), entry, Inc(begin[p]))
    ELSE SetCursor(p, 1, 1, 0)

\* A jump to the last page that leaves the cursor in the first row.
MutScrollUp(p, entry) ==
    IF entry > 0
    THEN SetCursor(p, 1, entry, Dec(begin[p]))
    ELSE SetCursor(p, 1, Len(list[p]) - size[p] + 1, Len(list[p]) - size[p])

ScrollUp(p, entry) ==
    IF entry > 0
    THEN SetCursor(p, 1, entry, Dec(begin[p]))
    ELSE SetCursor(p, Dec(size[p]), Len(list[p]) - 1, Len(list[p]) - size[p])

CoordControl(p, row, entry) ==
    LET num == Len(list[p])
    IN  \/ num > size[p] /\ row >= size[p] /\ ScrollDown(p, entry)
        \/ num > size[p] /\ row < size[p] /\ row < 1 /\ ScrollUp(p, entry)
        \/ num > size[p] /\ row \in 1 .. size[p] - 1 /\ SetCursor(p, row, entry, begin[p])
        \/ num <= size[p] /\ row < 1 /\ SetCursor(p, num - 1, num - 1, begin[p])
        \/ num <= size[p] /\ row >= num /\ SetCursor(p, 1, 1, begin[p])
        \/ num <= size[p] /\ row \in 1 .. num - 1 /\ SetCursor(p, row, entry, begin[p])

KeyUp ==
    /\ ch' = "up"
    /\ CoordControl(active, Dec(y[active]), Dec(sel[active]))
    /\ UNCHANGED <<running, active, dirVars>>

KeyDown ==
    /\ ch' = "down"
    /\ CoordControl(active, Inc(y[active]), Inc(sel[active]))
    /\ UNCHANGED <<running, active, dirVars>>

-----------------------------------------------------------------------------
(* Tab and Enter *)

Tab ==
    /\ ch' = "tab"
    /\ active' = Other(active)
    /\ cwd' = Chdir(cwd, work[Other(active)])
    /\ UNCHANGED <<running, work, list, size, cursorVars>>

Selected(p) == list[p][sel[p] + 1]

ProgramSelected == active = "left" /\ Selected("left").type = "DT_EXEC"

\* A new list of panel p: ListDir of dir when the process was in wd.  The
\* window may have another height by now.
NewList(p, dir, path, wd) ==
    /\ cwd' = Chdir(wd, dir)
    /\ list' = [list EXCEPT ![p] = Listing(dir, cwd')]
    /\ work' = [work EXCEPT ![p] = path]
    /\ \E h \in Heights : size' = [size EXCEPT ![p] = h]
    /\ UNCHANGED <<running, active>>

\* A list that is shown from where the old one was scrolled to.
MutShow(p, dir, path, wd) ==
    NewList(p, dir, path, wd) /\ SetCursor(p, 1, 1, begin[p])

Show(p, dir, path, wd) == NewList(p, dir, path, wd) /\ SetCursor(p, 1, 1, 0)

\* An lstat that fails ends the program.
Missing(dir, wd) == ~(Range(Order[dir]) \subseteq DOMAIN Node[Chdir(wd, dir)])

LstatFails ==
    /\ running' = "failed"
    /\ UNCHANGED <<active, dirVars, cursorVars>>

\* A failure that moves the cursor to the first entry all the same.
MutRefused(path) ==
    /\ work' = [work EXCEPT ![active] = path]
    /\ sel' = [sel EXCEPT ![active] = 1]
    /\ UNCHANGED <<running, active, cwd, list, size, y, begin>>

\* scandir fails: only work_dir has been changed.
Refused(path) ==
    /\ work' = [work EXCEPT ![active] = path]
    /\ UNCHANGED <<running, active, cwd, list, size, cursorVars>>

\* Enter on anything but "..".
Enter ==
    LET path == Selected(active).name
        dir == Lookup(cwd, path)
    IN  /\ ch' = "enter"
        /\ path # ".."
        /\ ~ProgramSelected
        /\ \/ dir \notin Dirs \ Hidden /\ Refused(path)
           \/ /\ dir \in Dirs \ Hidden
              /\ IF Missing(dir, cwd) THEN LstatFails ELSE Show(active, dir, path, cwd)

\* The new directory's path is written over the name of the entry.
EnterUp ==
    LET dir == Chdir(cwd, "..")
    IN  /\ ch' = "enter"
        /\ Selected(active).name = ".."
        /\ ~ProgramSelected
        /\ \/ /\ dir \in Hidden
              /\ cwd' = dir
              /\ work' = [work EXCEPT ![active] = dir]
              /\ list' = [list EXCEPT ![active][sel[active] + 1].name = dir]
              /\ UNCHANGED <<running, active, size, cursorVars>>
           \/ dir \notin Hidden /\ Show(active, dir, dir, dir)

\* The program runs and ends; the left panel is drawn again.
EnterProgram ==
    /\ ch' = "enter"
    /\ ProgramSelected
    /\ UNCHANGED <<running, active, dirVars, cursorVars>>

\* A key of no case; a window that changes its height reads as one, too.
OtherKey ==
    /\ ch' = "other"
    /\ UNCHANGED <<running, active, dirVars, cursorVars>>

Quit ==
    /\ ch' = "quit"
    /\ running' = "quit"
    /\ UNCHANGED <<active, dirVars, cursorVars>>

Key == KeyUp \/ KeyDown \/ Tab \/ Enter \/ EnterUp \/ EnterProgram \/ OtherKey \/ Quit

Next ==
    \/ running = "yes" /\ Key
    \/ running # "yes" /\ UNCHANGED vars

Spec == Init /\ [][Next]_vars

-----------------------------------------------------------------------------
(* Types *)

Entries == [name : Names \cup Dirs, type : {"DT_DIR", "DT_EXEC", "DT_REG"}]
Unsigned == 0 .. Word - 1

\* Every variable has its type, and a list has the entries "." and "..".
TypeOK ==
    /\ ch \in {"none", "up", "down", "tab", "enter", "other", "quit"}
    /\ running \in {"yes", "quit", "failed"}
    /\ active \in Panels
    /\ cwd \in Dirs
    /\ work \in [Panels -> Names \cup Dirs]
    /\ list \in [Panels -> Seq(Entries)]
    /\ \A p \in Panels : Len(list[p]) \in 2 .. Word - 2
    /\ size \in [Panels -> Heights]
    /\ y \in [Panels -> Unsigned]
    /\ sel \in [Panels -> Unsigned]
    /\ begin \in [Panels -> Unsigned]

-----------------------------------------------------------------------------
(* Safety *)

\* No sequence of keys reads past the list, in windows of whatever height:
\* with its unsigned counters the cursor comes back before selected_obj is used
\* (main_scandir.c:92-145, read_dir.c:84-131).
SelectedIsEntry == \A p \in Panels : sel[p] < Len(list[p])

\* In a window that had room for the cursor when its list was read, the
\* highlighted row is the one in which the selected entry is printed, and it lies
\* inside the borders; a long list is never scrolled past its end
\* (read_dir.c:56-75, 84-131).
CursorOnSelected ==
    \A p \in Panels : size[p] > 1 =>
        /\ sel[p] = begin[p] + y[p]
        /\ y[p] \in 1 .. size[p] - 1
        /\ begin[p] + size[p] <= Len(list[p]) \/ begin[p] = 0

\* Whatever the keys before, a panel lists one directory: entry by entry, with
\* the types of that directory's files.  Two things go wrong at most: the types of
\* a directory that cannot be entered come from where the process is, and a ".."
\* that could not be opened shows the path (read_dir.c:9-51).
ShowsDirectory ==
    \A p \in Panels : \E d \in Dirs \ Hidden :
        /\ Len(list[p]) = Len(Order[d])
        /\ \A j \in DOMAIN list[p] :
            /\ \/ list[p][j].name = Order[d][j]
               \/ Order[d][j] = ".." /\ list[p][j].name \in Hidden
            /\ d \in Closed \/ list[p][j].type = TypeOf(Node[d][Order[d][j]])

\* Enter will list another directory: it can be read, and lstat finds its names.
Opens ==
    LET name == Selected(active).name
        dir == IF name = ".." THEN Chdir(cwd, "..") ELSE Lookup(cwd, name)
    IN  /\ ~ProgramSelected
        /\ dir \in Dirs \ Hidden
        /\ name = ".." \/ ~Missing(dir, cwd)

\* Every key does what TwoPanels says and nothing else: the arrows move the
\* active panel's selection around the whole list, however it is scrolled, Enter
\* starts at the first entry of a list that can be opened and otherwise leaves
\* everything where it is, and the other panel stays as it is, whatever fails
\* (main_scandir.c:84-191, read_dir.c:18-25, 84-131).
Lists ==
    INSTANCE TwoPanels
        WITH key <- ch,
             n <- [p \in Panels |-> Len(list[p])],
             cur <- sel,
             roomy <- [p \in Panels |-> size[p] > 1],
             opens <- Opens

PanelsAreLists == Lists!PanelsSpec

-----------------------------------------------------------------------------
(* What the code says *)

\* common.h:35, "working directory for the process": the directory whose entries
\* the active panel shows is the one in which they are looked up.
ActiveInWorkingDirectory ==
    running = "yes" =>
        \A j \in DOMAIN list[active] :
            Lookup(cwd, list[active][j].name) # Nothing
=============================================================================
