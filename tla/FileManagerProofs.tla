------------------------- MODULE FileManagerProofs -------------------------
(***************************************************************************)
(* The cursors and the lists of FileManager, for every tree of directories,*)
(* every height of the windows and every width of the counters.            *)
(***************************************************************************)
EXTENDS FileManager, TLAPS

\* The counters of a panel of num entries in a window of s lines.  In a window of
\* one line the row is 0 after every scroll; in row 1 the entry is not the first.
CursorOK(num, s, row, entry, first) ==
    /\ entry < num
    /\ s = 1 => row \in {0, 1} /\ (row = 1 => entry > 0)
    /\ s > 1 =>
        /\ entry = first + row
        /\ row \in 1 .. s - 1
        /\ first + s <= num \/ first = 0

\* What CoordControl makes of them.
Moved(num, s, row, entry, first, row2, entry2, first2) ==
    \/ num > s /\ row >= s /\ entry < num
        /\ row2 = Dec(s) /\ entry2 = entry /\ first2 = Inc(first)
    \/ num > s /\ row >= s /\ entry >= num /\ row2 = 1 /\ entry2 = 1 /\ first2 = 0
    \/ num > s /\ row < s /\ row < 1 /\ entry > 0
        /\ row2 = 1 /\ entry2 = entry /\ first2 = Dec(first)
    \/ num > s /\ row < s /\ row < 1 /\ ~(entry > 0)
        /\ row2 = Dec(s) /\ entry2 = num - 1 /\ first2 = num - s
    \/ num > s /\ row \in 1 .. s - 1 /\ row2 = row /\ entry2 = entry /\ first2 = first
    \/ num <= s /\ row < 1 /\ row2 = num - 1 /\ entry2 = num - 1 /\ first2 = first
    \/ num <= s /\ row >= num /\ row2 = 1 /\ entry2 = 1 /\ first2 = first
    \/ num <= s /\ row \in 1 .. num - 1 /\ row2 = row /\ entry2 = entry /\ first2 = first

CursorsOK ==
    \A p \in Panels : CursorOK(Len(list[p]), size[p], y[p], sel[p], begin[p])

\* The inductive invariant.
IInv == TypeOK /\ CursorsOK /\ ShowsDirectory

-----------------------------------------------------------------------------
(* Arithmetic *)

LEMMA Wrap ==
    ASSUME NEW x \in Unsigned
    PROVE  /\ Dec(x) = IF x = 0 THEN Word - 1 ELSE x - 1
           /\ Inc(x) = IF x = Word - 1 THEN 0 ELSE x + 1
BY WordAssumption DEF Dec, Inc, Unsigned

\* The counters after a move of the cursor, one entry down or up, are in order
\* again, and in a window with room for the cursor the entry is the next one in the
\* circle.
LEMMA MoveDown ==
    ASSUME NEW num \in 2 .. Word - 2, NEW s \in Unsigned,
           NEW row \in Unsigned, NEW entry \in Unsigned, NEW first \in Unsigned,
           CursorOK(num, s, row, entry, first),
           NEW row2, NEW entry2, NEW first2,
           Moved(num, s, Inc(row), Inc(entry), first, row2, entry2, first2)
    PROVE  /\ row2 \in Unsigned /\ entry2 \in Unsigned /\ first2 \in Unsigned
           /\ CursorOK(num, s, row2, entry2, first2)
           /\ s > 1 => entry2 = IF entry = num - 1 THEN 1 ELSE entry + 1
<1>1. /\ Word \in Nat /\ num \in Nat /\ s \in Nat
      /\ Inc(row) = (IF row = Word - 1 THEN 0 ELSE row + 1)
      /\ Inc(entry) = entry + 1
      /\ Inc(first) = (IF first = Word - 1 THEN 0 ELSE first + 1)
      /\ Dec(s) = (IF s = 0 THEN Word - 1 ELSE s - 1)
  BY Wrap, WordAssumption DEF CursorOK, Unsigned
<1>2. CASE s > 1
  BY <1>1, <1>2 DEF CursorOK, Moved, Unsigned
<1>3. CASE s = 1
  BY <1>1, <1>3 DEF CursorOK, Moved, Unsigned
<1>4. CASE s = 0
  BY <1>1, <1>4 DEF CursorOK, Moved, Unsigned
<1> QED BY <1>1, <1>2, <1>3, <1>4

LEMMA MoveUp ==
    ASSUME NEW num \in 2 .. Word - 2, NEW s \in Unsigned,
           NEW row \in Unsigned, NEW entry \in Unsigned, NEW first \in Unsigned,
           CursorOK(num, s, row, entry, first),
           NEW row2, NEW entry2, NEW first2,
           Moved(num, s, Dec(row), Dec(entry), first, row2, entry2, first2)
    PROVE  /\ row2 \in Unsigned /\ entry2 \in Unsigned /\ first2 \in Unsigned
           /\ CursorOK(num, s, row2, entry2, first2)
           /\ s > 1 => entry2 = IF entry = 1 THEN num - 1 ELSE entry - 1
<1>1. /\ Word \in Nat /\ num \in Nat /\ s \in Nat
      /\ Dec(row) = (IF row = 0 THEN Word - 1 ELSE row - 1)
      /\ Dec(entry) = (IF entry = 0 THEN Word - 1 ELSE entry - 1)
      /\ Dec(first) = (IF first = 0 THEN Word - 1 ELSE first - 1)
      /\ Inc(first) = (IF first = Word - 1 THEN 0 ELSE first + 1)
      /\ Dec(s) = (IF s = 0 THEN Word - 1 ELSE s - 1)
  BY Wrap, WordAssumption DEF Unsigned
<1>2. CASE s > 1
  BY <1>1, <1>2 DEF CursorOK, Moved, Unsigned
<1>3. CASE s = 1
  BY <1>1, <1>3 DEF CursorOK, Moved, Unsigned
<1>4. CASE s = 0
  BY <1>1, <1>4 DEF CursorOK, Moved, Unsigned
<1> QED BY <1>1, <1>2, <1>3, <1>4

-----------------------------------------------------------------------------
(* The keys *)

LEMMA ControlMoves ==
    ASSUME TypeOK, NEW p \in Panels, NEW row \in Int, NEW entry \in Int,
           CoordControl(p, row, entry)
    PROVE  /\ Moved(Len(list[p]), size[p], row, entry, begin[p],
                    y'[p], sel'[p], begin'[p])
           /\ y' = [y EXCEPT ![p] = y'[p]]
           /\ sel' = [sel EXCEPT ![p] = sel'[p]]
           /\ begin' = [begin EXCEPT ![p] = begin'[p]]
<1>1. ASSUME NEW r, NEW e, NEW f, SetCursor(p, r, e, f)
      PROVE  /\ y' = [y EXCEPT ![p] = r] /\ y'[p] = r
             /\ sel' = [sel EXCEPT ![p] = e] /\ sel'[p] = e
             /\ begin' = [begin EXCEPT ![p] = f] /\ begin'[p] = f
  BY <1>1 DEF SetCursor, TypeOK
<1> DEFINE num == Len(list[p])
           s == size[p]
<1>2. num \in Int /\ s \in Int
  <2>1. num \in 2 .. Word - 2 /\ s \in Heights  BY DEF TypeOK
  <2>2. /\ \A x \in 2 .. Word - 2 : x \in Int
        /\ \A x \in Heights : x \in Int
    BY WordAssumption
  <2> HIDE DEF num, s
  <2> QED BY <2>1, <2>2
<1>3. CASE num > s /\ row >= s /\ ScrollDown(p, entry)
  <2>1. CASE entry < num
    <3>1. SetCursor(p, Dec(s), entry, Inc(begin[p]))  BY <1>3, <2>1 DEF ScrollDown
    <3> QED BY <1>3, <2>1, <3>1, <1>1 DEF Moved
  <2>2. CASE ~(entry < num)
    <3>1. SetCursor(p, 1, 1, 0)  BY <1>3, <2>2 DEF ScrollDown
    <3>2. entry >= num  BY <1>2, <2>2
    <3> QED BY <1>3, <3>2, <3>1, <1>1 DEF Moved
  <2> QED BY <2>1, <2>2
<1>4. CASE num > s /\ row < s /\ row < 1 /\ ScrollUp(p, entry)
  <2>1. CASE entry > 0
    <3>1. SetCursor(p, 1, entry, Dec(begin[p]))  BY <1>4, <2>1 DEF ScrollUp
    <3> QED BY <1>4, <2>1, <3>1, <1>1 DEF Moved
  <2>2. CASE ~(entry > 0)
    <3>1. SetCursor(p, Dec(s), num - 1, num - s)  BY <1>4, <2>2 DEF ScrollUp
    <3> QED BY <1>4, <2>2, <3>1, <1>1 DEF Moved
  <2> QED BY <2>1, <2>2
<1>5. CASE num > s /\ row \in 1 .. s - 1 /\ SetCursor(p, row, entry, begin[p])
  BY <1>5, <1>1 DEF Moved
<1>6. CASE num <= s /\ row < 1 /\ SetCursor(p, num - 1, num - 1, begin[p])
  BY <1>6, <1>1 DEF Moved
<1>7. CASE num <= s /\ row >= num /\ SetCursor(p, 1, 1, begin[p])
  BY <1>7, <1>1 DEF Moved
<1>8. CASE num <= s /\ row \in 1 .. num - 1 /\ SetCursor(p, row, entry, begin[p])
  BY <1>8, <1>1 DEF Moved
<1> QED BY <1>3, <1>4, <1>5, <1>6, <1>7, <1>8 DEF CoordControl

\* What a panel shows and where its cursor is stays as it is.
Rests(p) ==
    /\ list'[p] = list[p] /\ size'[p] = size[p]
    /\ y'[p] = y[p] /\ sel'[p] = sel[p] /\ begin'[p] = begin[p]

\* Its cursor goes around, downwards or upwards.
Goes(p) ==
    /\ list'[p] = list[p] /\ size'[p] = size[p]
    /\ sel'[p] \in 0 .. Len(list[p]) - 1
    /\ \/ /\ ch' = "down"
          /\ size[p] > 1 => sel'[p] = IF sel[p] = Len(list[p]) - 1 THEN 1 ELSE sel[p] + 1
       \/ /\ ch' = "up"
          /\ size[p] > 1 => sel'[p] = IF sel[p] = 1 THEN Len(list[p]) - 1 ELSE sel[p] - 1

LEMMA KeyMoves ==
    ASSUME IInv, NEW p \in Panels, p = active, KeyUp \/ KeyDown
    PROVE  /\ IInv'
           /\ Goes(p)
           /\ \A q \in Panels \ {p} : Rests(q)
<1> DEFINE num == Len(list[p])
<1>1. /\ num \in 2 .. Word - 2 /\ size[p] \in Unsigned
      /\ y[p] \in Unsigned /\ sel[p] \in Unsigned /\ begin[p] \in Unsigned
      /\ CursorOK(num, size[p], y[p], sel[p], begin[p])
  BY WordAssumption DEF IInv, TypeOK, CursorsOK, Unsigned
<1>2. UNCHANGED <<running, active, cwd, work, list, size>>
  BY DEF KeyUp, KeyDown, dirVars
<1>3. \A x \in Unsigned : Inc(x) \in Int /\ Dec(x) \in Int
  BY Wrap, WordAssumption DEF Unsigned
<1>4. /\ y'[p] \in Unsigned /\ sel'[p] \in Unsigned /\ begin'[p] \in Unsigned
      /\ CursorOK(num, size[p], y'[p], sel'[p], begin'[p])
      /\ Goes(p)
      /\ y' = [y EXCEPT ![p] = y'[p]]
      /\ sel' = [sel EXCEPT ![p] = sel'[p]]
      /\ begin' = [begin EXCEPT ![p] = begin'[p]]
  <2>1. CASE KeyDown
    <3>1. CoordControl(p, Inc(y[p]), Inc(sel[p]))  BY <2>1 DEF KeyDown
    <3>2. /\ Moved(num, size[p], Inc(y[p]), Inc(sel[p]), begin[p],
                   y'[p], sel'[p], begin'[p])
          /\ y' = [y EXCEPT ![p] = y'[p]]
          /\ sel' = [sel EXCEPT ![p] = sel'[p]]
          /\ begin' = [begin EXCEPT ![p] = begin'[p]]
      BY <1>1, <1>3, <3>1, ControlMoves DEF IInv
    <3>3. /\ y'[p] \in Unsigned /\ sel'[p] \in Unsigned /\ begin'[p] \in Unsigned
          /\ CursorOK(num, size[p], y'[p], sel'[p], begin'[p])
          /\ size[p] > 1 => sel'[p] = IF sel[p] = num - 1 THEN 1 ELSE sel[p] + 1
      BY <1>1, <3>2, MoveDown
    <3>4. sel'[p] \in 0 .. num - 1  BY <1>1, <3>3, WordAssumption DEF CursorOK, Unsigned
    <3>5. ch' = "down"  BY <2>1 DEF KeyDown
    <3> QED BY <1>2, <3>2, <3>3, <3>4, <3>5 DEF Goes
  <2>2. CASE KeyUp
    <3>1. CoordControl(p, Dec(y[p]), Dec(sel[p]))  BY <2>2 DEF KeyUp
    <3>2. /\ Moved(num, size[p], Dec(y[p]), Dec(sel[p]), begin[p],
                   y'[p], sel'[p], begin'[p])
          /\ y' = [y EXCEPT ![p] = y'[p]]
          /\ sel' = [sel EXCEPT ![p] = sel'[p]]
          /\ begin' = [begin EXCEPT ![p] = begin'[p]]
      BY <1>1, <1>3, <3>1, ControlMoves DEF IInv
    <3>3. /\ y'[p] \in Unsigned /\ sel'[p] \in Unsigned /\ begin'[p] \in Unsigned
          /\ CursorOK(num, size[p], y'[p], sel'[p], begin'[p])
          /\ size[p] > 1 => sel'[p] = IF sel[p] = 1 THEN num - 1 ELSE sel[p] - 1
      BY <1>1, <3>2, MoveUp
    <3>4. sel'[p] \in 0 .. num - 1  BY <1>1, <3>3, WordAssumption DEF CursorOK, Unsigned
    <3>5. ch' = "up"  BY <2>2 DEF KeyUp
    <3> QED BY <1>2, <3>2, <3>3, <3>4, <3>5 DEF Goes
  <2> QED BY <2>1, <2>2
<1>5. \A q \in Panels \ {p} : Rests(q)
  BY <1>2, <1>4 DEF Rests, IInv, TypeOK
<1>6. TypeOK'
  <2>1. ch' \in {"up", "down"}  BY DEF KeyUp, KeyDown
  <2> QED BY <1>2, <1>4, <2>1 DEF IInv, TypeOK
<1>7. CursorsOK'
  <2> SUFFICES ASSUME NEW q \in Panels
               PROVE  CursorOK(Len(list[q]), size[q], y[q], sel[q], begin[q])'
    BY DEF CursorsOK
  <2>1. CASE q = p
    BY <1>2, <1>4, <2>1 DEF CursorOK
  <2>2. CASE q # p
    BY <1>5, <2>2 DEF Rests, CursorOK, IInv, CursorsOK
  <2> QED BY <2>1, <2>2
<1>8. ShowsDirectory'
  BY <1>2 DEF IInv, ShowsDirectory
<1> QED BY <1>4, <1>5, <1>6, <1>7, <1>8 DEF IInv

-----------------------------------------------------------------------------
(* New lists *)

\* Another directory is shown from its first entry.
Shows(p) ==
    /\ Len(list'[p]) > 1
    /\ sel'[p] = 1

LEMMA DirectoryFacts ==
    ASSUME NEW d \in Dirs, NEW wd
    PROVE  /\ Order[d] \in Seq(Names)
           /\ Len(Order[d]) \in 2 .. Word - 2
           /\ Listing(d, wd) \in Seq(Entries)
           /\ Len(Listing(d, wd)) = Len(Order[d])
<1>1. Order[d] \in Seq(Names) /\ Len(Order[d]) \in 2 .. Word - 2
  BY TreeAssumption
<1>2. \A x : TypeOf(x) \in {"DT_DIR", "DT_EXEC", "DT_REG"}
  BY DEF TypeOf
<1>3. \A j \in 1 .. Len(Order[d]) :
        [name |-> Order[d][j], type |-> TypeOf(Node[wd][Order[d][j]])] \in Entries
  BY <1>1, <1>2 DEF Entries
<1>4. DOMAIN Order[d] = 1 .. Len(Order[d]) /\ Len(Order[d]) \in Nat
  BY <1>1
<1>5. Listing(d, wd) \in [1 .. Len(Order[d]) -> Entries]
  BY <1>3, <1>4 DEF Listing
<1> QED BY <1>1, <1>4, <1>5

LEMMA WordFacts == Word \in Nat /\ Word >= 4 /\ {0, 1} \subseteq Unsigned
<1>1. Len(Order[Home]) \in 2 .. Word - 2
  BY TreeAssumption, StartAssumption
<1> QED BY <1>1, WordAssumption DEF Unsigned

LEMMA NewListShown ==
    ASSUME IInv, NEW p \in Panels, NEW d \in Dirs \ Hidden, NEW path \in Names \cup Dirs,
           NEW wd \in Dirs, Show(p, d, path, wd), ch' = "enter"
    PROVE  /\ IInv'
           /\ Shows(p)
           /\ \A q \in Panels \ {p} : Rests(q)
<1>1. PICK h \in Heights :
        /\ size' = [size EXCEPT ![p] = h]
        /\ cwd' = Chdir(wd, d)
        /\ list' = [list EXCEPT ![p] = Listing(d, cwd')]
        /\ work' = [work EXCEPT ![p] = path]
        /\ y' = [y EXCEPT ![p] = 1]
        /\ sel' = [sel EXCEPT ![p] = 1]
        /\ begin' = [begin EXCEPT ![p] = 0]
        /\ UNCHANGED <<running, active>>
  BY DEF Show, NewList, SetCursor
<1>2. cwd' \in Dirs /\ (d \notin Closed => cwd' = d)
  BY <1>1 DEF Chdir, Lookup
<1>3. /\ list'[p] = Listing(d, cwd')
      /\ list'[p] \in Seq(Entries)
      /\ Len(list'[p]) = Len(Order[d])
      /\ Len(list'[p]) \in 2 .. Word - 2
  BY <1>1, DirectoryFacts DEF IInv, TypeOK
<1>4. size'[p] = h /\ y'[p] = 1 /\ sel'[p] = 1 /\ begin'[p] = 0
  BY <1>1 DEF IInv, TypeOK
<1>5. \A q \in Panels \ {p} : Rests(q)
  BY <1>1 DEF Rests, IInv, TypeOK
<1>6. TypeOK'
  <2>1. list' \in [Panels -> Seq(Entries)]
    BY <1>1, <1>3 DEF IInv, TypeOK
  <2>2. \A q \in Panels : Len(list'[q]) \in 2 .. Word - 2
    BY <1>3, <1>5 DEF IInv, TypeOK, Rests
  <2>3. work' \in [Panels -> Names \cup Dirs] /\ size' \in [Panels -> Heights]
    BY <1>1 DEF IInv, TypeOK
  <2>4. /\ y' \in [Panels -> Unsigned]
        /\ sel' \in [Panels -> Unsigned]
        /\ begin' \in [Panels -> Unsigned]
    BY <1>1, WordFacts DEF IInv, TypeOK
  <2> QED BY <1>1, <1>2, <2>1, <2>2, <2>3, <2>4 DEF IInv, TypeOK
<1>7. CursorsOK'
  <2> SUFFICES ASSUME NEW q \in Panels
               PROVE  CursorOK(Len(list[q]), size[q], y[q], sel[q], begin[q])'
    BY DEF CursorsOK
  <2>1. CASE q = p
    <3>1. h \in Nat /\ Len(list'[p]) \in Nat /\ Len(list'[p]) > 1
      BY <1>3, WordAssumption
    <3> QED BY <1>4, <2>1, <3>1 DEF CursorOK
  <2>2. CASE q # p
    BY <1>5, <2>2 DEF Rests, CursorOK, IInv, CursorsOK
  <2> QED BY <2>1, <2>2
<1>8. ShowsDirectory'
  <2> SUFFICES ASSUME NEW q \in Panels
               PROVE  \E e \in Dirs \ Hidden :
                        /\ Len(list'[q]) = Len(Order[e])
                        /\ \A j \in DOMAIN list'[q] :
                            /\ \/ list'[q][j].name = Order[e][j]
                               \/ Order[e][j] = ".." /\ list'[q][j].name \in Hidden
                            /\ e \in Closed \/ list'[q][j].type = TypeOf(Node[e][Order[e][j]])
    BY DEF ShowsDirectory
  <2>1. CASE q = p
    <3>1. \A j \in DOMAIN list'[p] :
            /\ list'[p][j].name = Order[d][j]
            /\ d \in Closed \/ list'[p][j].type = TypeOf(Node[d][Order[d][j]])
      BY <1>2, <1>3 DEF Listing
    <3> QED BY <1>3, <2>1, <3>1
  <2>2. CASE q # p
    BY <1>5, <2>2 DEF Rests, IInv, ShowsDirectory
  <2> QED BY <2>1, <2>2
<1>9. Shows(p)
  BY <1>3, <1>4, WordAssumption DEF Shows
<1> QED BY <1>5, <1>6, <1>7, <1>8, <1>9 DEF IInv

\* A ".." that cannot be opened: only the name of an entry changes.
LEMMA FailedUp ==
    ASSUME IInv, NEW p \in Panels, NEW d \in Dirs, d \in Hidden, sel[p] < Len(list[p]),
           list[p][sel[p] + 1].name = "..",
           list' = [list EXCEPT ![p][sel[p] + 1].name = d],
           cwd' = d, work' = [work EXCEPT ![p] = d],
           UNCHANGED <<running, active, size, y, sel, begin>>, ch' = "enter"
    PROVE  IInv' /\ \A q \in Panels : Len(list'[q]) = Len(list[q])
<1> DEFINE j == sel[p] + 1
<1>1. /\ list \in [Panels -> Seq(Entries)] /\ list[p] \in Seq(Entries)
      /\ sel[p] \in Nat /\ Len(list[p]) \in Nat
      /\ j \in 1 .. Len(list[p])
  BY WordAssumption DEF IInv, TypeOK, Unsigned
<1>2. list' = [list EXCEPT ![p] = [list[p] EXCEPT ![j].name = d]]
  OBVIOUS
<1>3. list[p][j] \in Entries
  BY <1>1
<1>4. [list[p][j] EXCEPT !.name = d] \in Entries
  BY <1>3 DEF Entries
<1>5. /\ list'[p] \in Seq(Entries) /\ Len(list'[p]) = Len(list[p])
      /\ list'[p][j] = [list[p][j] EXCEPT !.name = d]
      /\ \A i \in 1 .. Len(list[p]) : i # j => list'[p][i] = list[p][i]
  <2>1. list'[p] = [list[p] EXCEPT ![j] = [list[p][j] EXCEPT !.name = d]]
    BY <1>1, <1>2
  <2>2. list[p] \in [1 .. Len(list[p]) -> Entries]
    BY <1>1
  <2> HIDE DEF j
  <2>3. list'[p] \in [1 .. Len(list[p]) -> Entries]
    BY <1>1, <1>4, <2>1, <2>2
  <2>4. list'[p] \in Seq(Entries) /\ Len(list'[p]) = Len(list[p])
    BY <1>1, <2>3
  <2> QED BY <1>1, <2>1, <2>2, <2>4
<1>6. \A q \in Panels \ {p} : list'[q] = list[q]
  BY <1>1, <1>2
<1>7. \A q \in Panels : Len(list'[q]) = Len(list[q])
  BY <1>5, <1>6
<1>8. TypeOK'
  <2>1. list' \in [Panels -> Seq(Entries)]
    BY <1>1, <1>2, <1>5
  <2>2. work' \in [Panels -> Names \cup Dirs]
    BY DEF IInv, TypeOK
  <2> QED BY <1>7, <2>1, <2>2 DEF IInv, TypeOK
<1>9. CursorsOK'
  BY <1>7 DEF IInv, CursorsOK, CursorOK
<1>10. ShowsDirectory'
  <2> SUFFICES ASSUME NEW q \in Panels
               PROVE  \E e \in Dirs \ Hidden :
                        /\ Len(list'[q]) = Len(Order[e])
                        /\ \A i \in DOMAIN list'[q] :
                            /\ \/ list'[q][i].name = Order[e][i]
                               \/ Order[e][i] = ".." /\ list'[q][i].name \in Hidden
                            /\ e \in Closed \/ list'[q][i].type = TypeOf(Node[e][Order[e][i]])
    BY DEF ShowsDirectory
  <2>1. PICK e \in Dirs \ Hidden :
                        /\ Len(list[q]) = Len(Order[e])
                        /\ \A i \in DOMAIN list[q] :
                            /\ \/ list[q][i].name = Order[e][i]
                               \/ Order[e][i] = ".." /\ list[q][i].name \in Hidden
                            /\ e \in Closed \/ list[q][i].type = TypeOf(Node[e][Order[e][i]])
    BY DEF IInv, ShowsDirectory
  <2>2. CASE q # p
    BY <1>6, <2>1, <2>2
  <2>3. CASE q = p
    <3>1. DOMAIN list'[p] = 1 .. Len(list[p]) /\ DOMAIN list[p] = 1 .. Len(list[p])
      BY <1>1, <1>5
    <3>2. d \notin Names
      BY TreeAssumption
    <3>3. j \in DOMAIN list[p] /\ list[p][j].name = ".."
      BY <1>1, <3>1
    <3>4. Order[e][j] = ".."
      BY <2>1, <2>3, <3>3
    <3>5. [list[p][j] EXCEPT !.name = d].name = d
          /\ [list[p][j] EXCEPT !.name = d].type = list[p][j].type
      BY <1>3 DEF Entries
    <3>6. ASSUME NEW i \in DOMAIN list'[p]
          PROVE  /\ \/ list'[p][i].name = Order[e][i]
                    \/ Order[e][i] = ".." /\ list'[p][i].name \in Hidden
                 /\ e \in Closed \/ list'[p][i].type = TypeOf(Node[e][Order[e][i]])
      <4>1. CASE i = j
        BY <1>5, <2>1, <2>3, <3>1, <3>4, <3>5, <3>6, <4>1
      <4>2. CASE i # j
        BY <1>5, <2>1, <2>3, <3>1, <3>6, <4>2
      <4> QED BY <4>1, <4>2
    <3> QED BY <1>7, <2>1, <2>3, <3>6
  <2> QED BY <2>2, <2>3
<1> QED BY <1>7, <1>8, <1>9, <1>10 DEF IInv

-----------------------------------------------------------------------------
(* The theorems *)

LEMMA Inits == Init => IInv
<1> SUFFICES ASSUME Init PROVE IInv
  OBVIOUS
<1>1. \A p \in Panels :
        /\ work[p] \in Dirs \ Hidden
        /\ list[p] = Listing(work[p], work[p])
        /\ list[p] \in Seq(Entries)
        /\ Len(list[p]) = Len(Order[work[p]])
        /\ Len(list[p]) \in 2 .. Word - 2
        /\ size[p] \in Heights /\ y[p] = 1 /\ sel[p] = 1 /\ begin[p] = 0
  BY StartAssumption, DirectoryFacts DEF Init, Panels
<1>2. TypeOK
  BY <1>1, StartAssumption, WordFacts DEF Init, TypeOK, Panels
<1>3. CursorsOK
  <2> SUFFICES ASSUME NEW p \in Panels
               PROVE  CursorOK(Len(list[p]), size[p], y[p], sel[p], begin[p])
    BY DEF CursorsOK
  <2>1. size[p] \in Heights /\ Len(list[p]) \in 2 .. Word - 2
    BY <1>1
  <2>2. size[p] \in Nat /\ Len(list[p]) \in Nat /\ Len(list[p]) > 1
    <3>1. /\ \A x \in 2 .. Word - 2 : x \in Nat /\ x > 1
          /\ \A x \in Heights : x \in Nat
      BY WordAssumption
    <3> QED BY <2>1, <3>1
  <2> QED BY <1>1, <2>2 DEF CursorOK
<1>4. ShowsDirectory
  <2>1. \A d : \A j \in DOMAIN Listing(d, d) :
            /\ Listing(d, d)[j].name = Order[d][j]
            /\ Listing(d, d)[j].type = TypeOf(Node[d][Order[d][j]])
    BY DEF Listing
  <2> QED BY <1>1, <2>1 DEF ShowsDirectory
<1> QED BY <1>2, <1>3, <1>4 DEF IInv

\* What a step may do to the two panels, as TwoPanels has it.
Stays(p) ==
    /\ Len(list'[p]) = Len(list[p])
    /\ size'[p] = size[p] /\ sel'[p] = sel[p]

PanelStep ==
    \/ /\ active' = active
       /\ Goes(active)
       /\ \A q \in Panels \ {active} : Stays(q)
    \/ /\ active' = active
       /\ ch' = "enter" /\ Opens
       /\ Shows(active)
       /\ \A q \in Panels \ {active} : Stays(q)
    \/ /\ \A q \in Panels : Stays(q)
       /\ \/ ch' = "tab" /\ active' \in Panels \ {active}
          \/ active' = active /\ ch' \in {"quit", "other"}
          \/ active' = active /\ ch' = "enter" /\ ~Opens
    \/ UNCHANGED vars

LEMMA Step ==
    ASSUME IInv, [Next]_vars
    PROVE  IInv' /\ PanelStep
<1> DEFINE Goal == IInv' /\ PanelStep
<1>1. active \in Panels /\ cwd \in Dirs
  BY DEF IInv, TypeOK
<1>2. PICK p \in Panels : p = active
  BY <1>1
<1>3. /\ sel[p] < Len(list[p])
      /\ Selected(p) \in Entries
  <2>1. /\ sel[p] < Len(list[p]) /\ sel[p] \in Nat /\ list[p] \in Seq(Entries)
        /\ Len(list[p]) \in Nat
    BY WordAssumption DEF IInv, TypeOK, CursorsOK, CursorOK, Unsigned
  <2> QED BY <2>1 DEF Selected
<1>4. ASSUME UNCHANGED <<list, y, sel, begin, size>>,
             ch' \in {"none", "up", "down", "tab", "enter", "other", "quit"},
             running' \in {"yes", "quit", "failed"}, active' \in Panels, cwd' \in Dirs,
             work' \in [Panels -> Names \cup Dirs]
      PROVE  IInv' /\ \A q \in Panels : Stays(q)
  BY <1>4 DEF IInv, TypeOK, CursorsOK, CursorOK, ShowsDirectory, Stays
<1>5. ASSUME NEW d \in Dirs \ Hidden, NEW path \in Names \cup Dirs, NEW wd \in Dirs,
             Show(p, d, path, wd), ch' = "enter", Opens
      PROVE  Goal
  <2>1. IInv' /\ Shows(p) /\ \A q \in Panels \ {p} : Rests(q)
    BY <1>5, NewListShown
  <2>2. active' = active
    BY <1>5 DEF Show, NewList
  <2> QED BY <1>2, <1>5, <2>1, <2>2 DEF PanelStep, Stays, Rests
<1>6. \A d \in Dirs : \A path : Chdir(d, path) \in Dirs
  BY DEF Chdir
<1>7. CASE KeyUp \/ KeyDown
  <2>1. IInv' /\ Goes(p) /\ \A q \in Panels \ {p} : Rests(q)
    BY <1>2, <1>7, KeyMoves
  <2>2. active' = active
    BY <1>7 DEF KeyUp, KeyDown
  <2> QED BY <1>2, <2>1, <2>2 DEF PanelStep, Stays, Rests
<1>8. CASE Tab
  <2>1. active' \in Panels \ {active} /\ cwd' \in Dirs /\ ch' = "tab"
    BY <1>1, <1>6, <1>8 DEF Tab, Other, Panels
  <2>2. IInv' /\ \A q \in Panels : Stays(q)
    BY <1>4, <1>8, <2>1 DEF Tab, cursorVars, IInv, TypeOK
  <2> QED BY <2>1, <2>2 DEF PanelStep
<1>9. CASE Enter
  <2> DEFINE path == Selected(p).name
             d == Lookup(cwd, path)
  <2>1. path \in Names \cup Dirs /\ path # ".." /\ ch' = "enter" /\ ~ProgramSelected
    BY <1>2, <1>3, <1>9 DEF Entries, Enter
  <2>2. Opens <=> d \in Dirs \ Hidden /\ ~Missing(d, cwd)
    BY <1>2, <2>1 DEF Opens
  <2>3. CASE d \notin Dirs \ Hidden
    <3>1. work' = [work EXCEPT ![p] = path]
          /\ UNCHANGED <<running, active, cwd, list, size, cursorVars>>
      BY <1>2, <1>9, <2>3 DEF Enter, Refused
    <3>2. work' \in [Panels -> Names \cup Dirs]
      BY <2>1, <3>1 DEF IInv, TypeOK
    <3>3. IInv' /\ \A q \in Panels : Stays(q)
      BY <1>1, <1>4, <2>1, <3>1, <3>2 DEF cursorVars, IInv, TypeOK
    <3> QED BY <2>1, <2>2, <2>3, <3>1, <3>3 DEF PanelStep
  <2>4. CASE d \in Dirs \ Hidden /\ Missing(d, cwd)
    <3>1. LstatFails
      BY <1>2, <1>9, <2>4 DEF Enter
    <3>2. IInv' /\ \A q \in Panels : Stays(q)
      BY <1>4, <2>1, <3>1 DEF LstatFails, dirVars, cursorVars, IInv, TypeOK
    <3> QED BY <2>1, <2>2, <2>4, <3>1, <3>2 DEF LstatFails, PanelStep
  <2>5. CASE d \in Dirs \ Hidden /\ ~Missing(d, cwd)
    <3>1. Show(p, d, path, cwd)
      BY <1>2, <1>9, <2>5 DEF Enter
    <3> QED BY <1>1, <1>5, <2>1, <2>2, <2>5, <3>1
  <2> QED BY <2>3, <2>4, <2>5
<1>10. CASE EnterUp
  <2> DEFINE d == Chdir(cwd, "..")
  <2>1. d \in Dirs /\ ch' = "enter" /\ (Opens <=> d \notin Hidden)
    BY <1>1, <1>6, <1>10 DEF EnterUp, Opens
  <2>2. CASE d \in Hidden
    <3>1. /\ list[p][sel[p] + 1].name = ".."
          /\ cwd' = d
          /\ work' = [work EXCEPT ![p] = d]
          /\ list' = [list EXCEPT ![p][sel[p] + 1].name = d]
          /\ UNCHANGED <<running, active, size, y, sel, begin>>
      BY <1>2, <1>10, <2>2 DEF EnterUp, Selected, cursorVars
    <3> HIDE DEF d
    <3>2. IInv' /\ \A q \in Panels : Len(list'[q]) = Len(list[q])
      BY <1>3, <2>1, <2>2, <3>1, FailedUp
    <3>3. \A q \in Panels : Stays(q)
      BY <3>1, <3>2 DEF Stays
    <3> QED BY <2>1, <2>2, <3>1, <3>2, <3>3 DEF PanelStep
  <2>3. CASE d \notin Hidden
    <3>1. Show(p, d, d, d)
      BY <1>2, <1>10, <2>3 DEF EnterUp
    <3> QED BY <1>5, <2>1, <2>3, <3>1
  <2> QED BY <2>2, <2>3
<1>11. CASE Quit \/ OtherKey
  <2>1. IInv' /\ \A q \in Panels : Stays(q)
    BY <1>4, <1>11 DEF Quit, OtherKey, dirVars, cursorVars, IInv, TypeOK
  <2> QED BY <1>11, <2>1 DEF Quit, OtherKey, PanelStep
<1>12. CASE UNCHANGED vars
  <2>1. IInv'
    BY <1>4, <1>12 DEF vars, dirVars, cursorVars, IInv, TypeOK
  <2> QED BY <1>12, <2>1 DEF PanelStep
<1>13. CASE EnterProgram
  <2>1. IInv' /\ \A q \in Panels : Stays(q)
    BY <1>4, <1>13 DEF EnterProgram, dirVars, cursorVars, IInv, TypeOK
  <2>2. ch' = "enter" /\ active' = active /\ ~Opens
    BY <1>13 DEF EnterProgram, Opens
  <2> QED BY <2>1, <2>2 DEF PanelStep
<1> QED BY <1>7, <1>8, <1>9, <1>10, <1>11, <1>12, <1>13 DEF Next, Key

LEMMA Invariance == Spec => []IInv
BY Inits, Step, PTL DEF Spec

\* Every variable keeps its type in every tree: no counter leaves its width.
THEOREM TypeCorrect == Spec => []TypeOK
<1>1. IInv => TypeOK  BY DEF IInv
<1> QED BY <1>1, Invariance, PTL

\* No sequence of keys makes the program read past the list of a panel
\* (main_scandir.c:92-145), in windows of any height.
THEOREM SelectionCorrect == Spec => []SelectedIsEntry
<1>1. IInv => SelectedIsEntry  BY DEF IInv, CursorsOK, CursorOK, SelectedIsEntry
<1> QED BY <1>1, Invariance, PTL

\* The highlighted row is the selected entry's (read_dir.c:56-75, 84-131).
THEOREM CursorCorrect == Spec => []CursorOnSelected
<1>1. IInv => CursorOnSelected
  BY WordAssumption DEF IInv, CursorsOK, CursorOK, CursorOnSelected, TypeOK
<1> QED BY <1>1, Invariance, PTL

\* A panel lists one directory, whatever failed on the way (read_dir.c:9-51).
THEOREM ListsCorrect == Spec => []ShowsDirectory
<1>1. IInv => ShowsDirectory  BY DEF IInv
<1> QED BY <1>1, Invariance, PTL

\* Every key does what TwoPanels says: an arrow moves the active panel's selection
\* to the next entry in the circle, however the list is scrolled, Enter starts a list
\* only where one can be opened, and nothing else moves a selection, not the keys of
\* the other panel and not a failure (main_scandir.c:84-191, read_dir.c:84-131).
THEOREM Circular == Spec => PanelsAreLists
<1> DEFINE num == [p \in Panels |-> Len(list[p])]
           room == [p \in Panels |-> size[p] > 1]
<1>1. Init => Lists!Init
  <2> SUFFICES ASSUME Init PROVE Lists!Init
    OBVIOUS
  <2>1. IInv /\ sel = [p \in Panels |-> 1] /\ active = "left"
    BY Inits DEF Init
  <2>2. \A p \in Panels : Len(list[p]) > 1
    BY <2>1, WordAssumption DEF IInv, TypeOK
  <2> QED BY <2>1, <2>2 DEF Lists!Init, Panels
<1>2. IInv /\ IInv' /\ [Next]_vars => [Lists!PanelsNext]_(Lists!panelVars)
  <2> SUFFICES ASSUME IInv, IInv', [Next]_vars PROVE [Lists!PanelsNext]_(Lists!panelVars)
    OBVIOUS
  <2>1. active \in Panels /\ sel \in [Panels -> Unsigned] /\ sel' \in [Panels -> Unsigned]
    BY DEF IInv, TypeOK
  <2>2. PanelStep
    BY Step
  <2>3. ASSUME \A q \in Panels : Stays(q)
        PROVE  num' = num /\ room' = room /\ sel' = sel
    BY <2>1, <2>3 DEF Stays
  <2>4. CASE /\ active' = active
             /\ Goes(active)
             /\ \A q \in Panels \ {active} : Stays(q)
    <3>1. num' = num /\ room' = room
      BY <2>4 DEF Goes, Stays
    <3>2. sel' = [sel EXCEPT ![active] = sel'[active]]
      BY <2>1, <2>4 DEF Stays
    <3>3. /\ num[active] = Len(list[active]) /\ room[active] = (size[active] > 1)
          /\ sel'[active] \in 0 .. num[active] - 1
      BY <2>1, <2>4 DEF Goes
    <3>4. \/ /\ ch' = "down"
             /\ room[active] => sel'[active] = IF sel[active] = num[active] - 1 THEN 1 ELSE sel[active] + 1
          \/ /\ ch' = "up"
             /\ room[active] => sel'[active] = IF sel[active] = 1 THEN num[active] - 1 ELSE sel[active] - 1
      BY <2>4, <3>3 DEF Goes
    <3> HIDE DEF num, room
    <3>5. ASSUME NEW e, room[active] => sel'[active] = e
          PROVE  Lists!Select(e)
      <4>1. \E x \in 0 .. num[active] - 1 :
              (room[active] => x = e) /\ sel' = [sel EXCEPT ![active] = x]
        BY <3>2, <3>3, <3>5
      <4> QED BY <2>4, <3>1, <4>1 DEF Lists!Select, num, room
    <3>6. CASE ch' = "down" /\ (room[active] =>
                   sel'[active] = IF sel[active] = num[active] - 1 THEN 1 ELSE sel[active] + 1)
      <4>1. Lists!Select(IF sel[active] = num[active] - 1 THEN 1 ELSE sel[active] + 1)
        BY <3>5, <3>6
      <4> QED BY <3>6, <4>1 DEF Lists!Down, Lists!PanelsNext, num
    <3>7. CASE ch' = "up" /\ (room[active] =>
                   sel'[active] = IF sel[active] = 1 THEN num[active] - 1 ELSE sel[active] - 1)
      <4>1. Lists!Select(IF sel[active] = 1 THEN num[active] - 1 ELSE sel[active] - 1)
        BY <3>5, <3>7
      <4> QED BY <3>7, <4>1 DEF Lists!Up, Lists!PanelsNext, num
    <3> QED BY <3>4, <3>6, <3>7
  <2>5. CASE /\ active' = active
             /\ ch' = "enter" /\ Opens
             /\ Shows(active)
             /\ \A q \in Panels \ {active} : Stays(q)
    <3>1. num' = [num EXCEPT ![active] = num'[active]]
          /\ room' = [room EXCEPT ![active] = room'[active]]
      BY <2>1, <2>5 DEF Stays
    <3>2. sel' = [sel EXCEPT ![active] = 1] /\ num'[active] > 1
      BY <2>1, <2>5 DEF Stays, Shows
    <3> QED BY <2>5, <3>1, <3>2 DEF Lists!Show, Lists!PanelsNext
  <2>6. CASE /\ \A q \in Panels : Stays(q)
             /\ ch' = "tab" /\ active' \in Panels \ {active}
    BY <2>3, <2>6 DEF Lists!Turn, Lists!PanelsNext
  <2>7. CASE /\ \A q \in Panels : Stays(q)
             /\ active' = active
             /\ ch' \in {"quit", "other"} \/ (ch' = "enter" /\ ~Opens)
    BY <2>3, <2>7 DEF Lists!Rest, Lists!PanelsNext
  <2>8. CASE UNCHANGED vars
    <3>1. UNCHANGED Opens
      BY <2>8 DEF vars, dirVars, cursorVars, Opens, ProgramSelected, Selected,
                  Chdir, Lookup, Missing
    <3> QED BY <2>8, <3>1 DEF vars, dirVars, cursorVars, Lists!panelVars
  <2> QED BY <2>2, <2>4, <2>5, <2>6, <2>7, <2>8 DEF PanelStep
<1> QED BY <1>1, <1>2, Invariance, PTL DEF Spec, PanelsAreLists, Lists!PanelsSpec

=============================================================================
