--------------------------- MODULE TerminalBuffer ---------------------------
(***************************************************************************)
(* The screen of the Linux target: dos_mcp.terminal.TerminalBuffer renders *)
(* a subset of ANSI into a fixed grid.  feed() takes what one read of the  *)
(* PTY returned and treats it character by character; escape sequences may *)
(* be split over reads.  One step of this module is one round of that      *)
(* loop.  Text and attribute of a cell, two arrays in the code that are    *)
(* always written together, are one record here.                           *)
(***************************************************************************)
EXTENDS Integers, Sequences, SequencesExt

CONSTANTS
  Columns, Rows,   \* size of the grid
  MaxSequence,     \* bound of a CSI sequence, 64 in the code
  Chunks,          \* what one read may return: sequences of characters
  MaxFeeds         \* bound of the model on the number of feeds

ASSUME SizeAssumption == Columns \in Nat \ {0} /\ Rows \in Nat \ {0}
ASSUME SequenceAssumption == MaxSequence \in Nat
ASSUME ChunksAssumption == Chunks \subseteq Seq(STRING)

VARIABLES
  cells,           \* _chars and _attrs
  row, column,     \* the cursor
  visible,         \* is the cursor shown
  generation,      \* counts changes, shown to the client with each capture
  pen,             \* _foreground, _background, _bold, _blink
  state,           \* of the parser
  sequence,        \* _sequence: what a CSI has collected
  todo,            \* characters of the current feed still to be treated
  feeding,         \* feed() is running
  before,          \* its local: the generation it started with
  raised,          \* it was left by an exception
  shown,           \* history: the cells it started with
  typed,           \* history: all characters so far, or Mixed after a control
  feeds            \* number of feeds, bounded by MaxFeeds

screen == <<cells, row, column, visible, generation, pen>>
parser == <<state, sequence>>
history == <<shown, typed, feeds>>
vars == <<cells, row, column, visible, generation, pen, state, sequence,
          todo, feeding, before, raised, shown, typed, feeds>>

States == {"normal", "escape", "csi", "csi_discard", "osc", "osc_escape"}
LastRow == Rows - 1
LastColumn == Columns - 1
Lower(a, b) == IF a < b THEN a ELSE b
Higher(a, b) == IF a > b THEN a ELSE b

-----------------------------------------------------------------------------
(* Characters are strings; control characters have their ASCII names.      *)

LineFeeds == {"LF", "VT", "FF"}
Ignored == {"BEL", "NUL", "DEL"}
Controls == LineFeeds \cup Ignored \cup {"ESC", "CR", "BS", "TAB"}
Digits == <<"0", "1", "2", "3", "4", "5", "6", "7", "8", "9">>

\* "@" .. "~" end a CSI sequence, every other character continues it.
Finals ==
  {"@", "[", "\\", "]", "^", "_", "GRAVE", "{", "|", "}", "~",
   "A", "B", "C", "D", "E", "F", "G", "H", "I", "J", "K", "L", "M",
   "N", "O", "P", "Q", "R", "S", "T", "U", "V", "W", "X", "Y", "Z",
   "a", "b", "c", "d", "e", "f", "g", "h", "i", "j", "k", "l", "m",
   "n", "o", "p", "q", "r", "s", "t", "u", "v", "w", "x", "y", "z"}

IsFinal(ch) == ch \in Finals

-----------------------------------------------------------------------------
(* Parameters of a CSI sequence: parts between semicolons, 0 if a part is  *)
(* empty or not a number.  While a part is read it is its value, NotDigits *)
(* if it is no number, or NotInt if str.isdigit() holds and int() raises,  *)
(* as it does for the superscript two, SUP2.                               *)

NotDigits == -1
NotInt == -2

Private(raw) == raw # <<>> /\ Head(raw) = "?"

AddToPart(parts, ch) ==
  LET n == Len(parts) IN
  IF ch = ";" THEN Append(parts, 0)
  ELSE IF ch \in Range(Digits) /\ parts[n] >= 0
  THEN [parts EXCEPT ![n] = 10 * @ + CHOOSE d \in 0 .. 9 : Digits[d + 1] = ch]
  ELSE IF ch \in Range(Digits) \cup {"SUP2"} /\ parts[n] # NotDigits
  THEN [parts EXCEPT ![n] = NotInt]
  ELSE [parts EXCEPT ![n] = NotDigits]

Params(raw) ==
  FoldLeft(AddToPart, <<0>>, IF Private(raw) THEN Tail(raw) ELSE raw)

Param(raw, i) ==
  IF i \in DOMAIN Params(raw) /\ Params(raw)[i] \in Nat THEN Params(raw)[i] ELSE 0

\* params[i] or 1
ParamOr1(raw, i) == IF Param(raw, i) = 0 THEN 1 ELSE Param(raw, i)

\* int() of the superscript raises ValueError, which leaves feed().
Raises(raw) == NotInt \in Range(Params(raw))

-----------------------------------------------------------------------------
Attribute ==
  pen.foreground + (IF pen.bold THEN 8 ELSE 0) + 16 * pen.background
    + (IF pen.blink THEN 128 ELSE 0)

Plain == [foreground |-> 7, background |-> 0, bold |-> FALSE, blink |-> FALSE]
Cell(ch, a) == [char |-> ch, attr |-> a]
Blank == Cell(" ", Attribute)

\* Mutant: a row is removed, the last one stays.
ScrolledTwice(grid) ==
  IF row < LastRow THEN grid
  ELSE [r \in 0 .. LastRow |-> grid[Lower(r + 1, LastRow)]]

\* The grid that _line_feed leaves: rows move up when the cursor is in the last.
Scrolled(grid) ==
  IF row < LastRow THEN grid
  ELSE [r \in 0 .. LastRow |-> IF r < LastRow THEN grid[r + 1]
                               ELSE [c \in 0 .. LastColumn |-> Blank]]

LineFeed ==
  /\ cells' = Scrolled(cells)
  /\ row' = Lower(row + 1, LastRow)
  /\ generation' = generation + 1
  /\ UNCHANGED <<column, visible, pen>>

Put(ch) ==
  LET grid == [cells EXCEPT ![row][column] = Cell(ch, Attribute)] IN
  IF column < LastColumn
  THEN /\ cells' = grid
       /\ column' = column + 1
       /\ generation' = generation + 1
       /\ UNCHANGED <<row, visible, pen>>
  ELSE /\ cells' = Scrolled(grid)
       /\ column' = 0
       /\ row' = Lower(row + 1, LastRow)
       /\ generation' = generation + 2
       /\ UNCHANGED <<visible, pen>>

\* Mutant: a place is clamped at the far edge only.
ClampAbove(x, last) == Lower(x, last)

\* min(max(x, 0), last)
Clamp(x, last) == Lower(Higher(x, 0), last)

MoveTo(r, c) ==
  /\ row' = r
  /\ column' = c
  /\ UNCHANGED <<cells, visible, generation, pen>>

\* _erase_cells for every row in rows, and its generations.
EraseCells(Erased(_, _), rows) ==
  /\ cells' = [r \in 0 .. LastRow |-> [c \in 0 .. LastColumn |->
                 IF Erased(r, c) THEN Blank ELSE cells[r][c]]]
  /\ generation' = generation + rows
  /\ UNCHANGED <<row, column, visible, pen>>

EraseDisplay(mode) ==
  CASE mode = 2 -> EraseCells(LAMBDA r, c : TRUE, Rows)
    [] mode = 1 -> EraseCells(LAMBDA r, c : r < row \/ (r = row /\ c <= column), row + 1)
    [] OTHER    -> EraseCells(LAMBDA r, c : r > row \/ (r = row /\ c >= column), Rows - row)

EraseLine(mode) ==
  EraseCells(LAMBDA r, c : /\ r = row
                           /\ mode = 1 => c <= column
                           /\ mode \notin {1, 2} => c >= column, 1)

AnsiToDos == <<0, 4, 2, 6, 1, 5, 3, 7>>

SgrCode(p, code) ==
  CASE code = 0        -> Plain
    [] code = 1        -> [p EXCEPT !.bold = TRUE]
    [] code = 5        -> [p EXCEPT !.blink = TRUE]
    [] code = 22       -> [p EXCEPT !.bold = FALSE]
    [] code = 25       -> [p EXCEPT !.blink = FALSE]
    [] code \in 30..37 -> [p EXCEPT !.foreground = AnsiToDos[code - 29]]
    [] code \in 40..47 -> [p EXCEPT !.background = AnsiToDos[code - 39]]
    [] OTHER           -> p

Sgr(raw) ==
  /\ pen' = FoldLeft(SgrCode, pen,
                     [i \in DOMAIN Params(raw) |-> Param(raw, i)])
  /\ UNCHANGED <<cells, row, column, visible, generation>>

ShowCursor(raw, final) ==
  /\ visible' = IF Private(raw) /\ \E i \in DOMAIN Params(raw) : Param(raw, i) = 25
                THEN final = "h" ELSE visible
  /\ UNCHANGED <<cells, row, column, generation, pen>>

\* The second parameter of H defaults to 1 only where there is none: an empty
\* one is 0, and only the clamp keeps the column in the grid.
ApplyCsi(raw, final) ==
  LET n == ParamOr1(raw, 1) IN
  CASE final \in {"H", "f"} ->
         MoveTo(Clamp(n - 1, LastRow),
                Clamp((IF Len(Params(raw)) > 1 THEN Param(raw, 2) ELSE 1) - 1, LastColumn))
    [] final = "A" -> MoveTo(Higher(0, row - n), column)
    [] final = "B" -> MoveTo(Lower(LastRow, row + n), column)
    [] final = "C" -> MoveTo(row, Lower(LastColumn, column + n))
    [] final = "D" -> MoveTo(row, Higher(0, column - n))
    [] final = "G" -> MoveTo(row, Clamp(n - 1, LastColumn))
    [] final = "d" -> MoveTo(Clamp(n - 1, LastRow), column)
    [] final = "J" -> EraseDisplay(Param(raw, 1))
    [] final = "K" -> EraseLine(Param(raw, 1))
    [] final = "m" -> Sgr(raw)
    [] final \in {"h", "l"} -> ShowCursor(raw, final)
    [] OTHER -> UNCHANGED screen

-----------------------------------------------------------------------------
Init ==
  /\ pen = Plain
  /\ cells = [r \in 0 .. LastRow |-> [c \in 0 .. LastColumn |-> Cell(" ", 7)]]
  /\ shown = cells
  /\ row = 0 /\ column = 0 /\ visible = TRUE
  /\ generation = 0 /\ before = -1
  /\ state = "normal" /\ sequence = <<>>
  /\ todo = <<>> /\ typed = <<>>
  /\ feeding = FALSE /\ raised = FALSE
  /\ feeds = 0

\* feed() returns at once for an empty string.
Feed(chunk) ==
  /\ ~feeding /\ chunk # <<>>
  /\ feeds < MaxFeeds /\ feeds' = feeds + 1
  /\ todo' = chunk
  /\ feeding' = TRUE /\ raised' = FALSE
  /\ before' = generation
  /\ shown' = cells
  /\ UNCHANGED <<screen, parser, typed>>

Char == Head(todo)
Mixed == <<"ESC">>
Record == typed' = IF typed = Mixed \/ Char \in Controls THEN Mixed ELSE Append(typed, Char)

\* One round of the loop takes one character.
Treat ==
  /\ todo # <<>>
  /\ todo' = Tail(todo)
  /\ Record
  /\ UNCHANGED <<feeding, before, raised, shown, feeds>>

Normal ==
  /\ state = "normal" /\ Treat
  /\ state' = IF Char = "ESC" THEN "escape" ELSE "normal"
  /\ UNCHANGED sequence
  /\ CASE Char = "CR" -> MoveTo(row, 0)
       [] Char = "BS" -> MoveTo(row, Higher(0, column - 1))
       [] Char = "TAB" -> MoveTo(row, Lower(LastColumn, 8 * (column \div 8) + 8))
       [] Char \in LineFeeds -> LineFeed
       [] Char \in Ignored \cup {"ESC"} -> UNCHANGED screen
       [] OTHER -> Put(Char)

Escape ==
  /\ state = "escape" /\ Treat
  /\ state' = CASE Char = "[" -> "csi" [] Char = "]" -> "osc" [] OTHER -> "normal"
  /\ sequence' = IF Char \in {"[", "]"} THEN <<>> ELSE sequence
  /\ UNCHANGED screen

CsiFinal ==
  /\ state = "csi" /\ Treat
  /\ IsFinal(Char) /\ ~Raises(sequence)
  /\ state' = "normal" /\ sequence' = <<>>
  /\ ApplyCsi(sequence, Char)

\* The rest of the chunk is lost and the generation is not advanced.
CsiRaises ==
  /\ state = "csi" /\ todo # <<>>
  /\ IsFinal(Char) /\ Raises(sequence)
  /\ todo' = <<>>
  /\ feeding' = FALSE /\ raised' = TRUE
  /\ state' = "normal" /\ sequence' = <<>>
  /\ UNCHANGED <<screen, before, history>>

CsiCollect ==
  /\ state = "csi" /\ Treat
  /\ ~IsFinal(Char)
  /\ IF Len(sequence) < MaxSequence
     THEN sequence' = Append(sequence, Char) /\ UNCHANGED state
     ELSE sequence' = <<>> /\ state' = "csi_discard"
  /\ UNCHANGED screen

Skip ==
  /\ state \in {"csi_discard", "osc", "osc_escape"} /\ Treat
  /\ state' = CASE state = "csi_discard" -> IF IsFinal(Char) THEN "normal" ELSE state
                [] state = "osc" -> CASE Char = "BEL" -> "normal"
                                      [] Char = "ESC" -> "osc_escape"
                                      [] OTHER -> "osc"
                [] OTHER -> IF Char = "\\" THEN "normal" ELSE "osc"
  /\ UNCHANGED <<sequence, screen>>

\* Mutant: a feed that only moves the cursor leaves the generation.
FeedEndUncounted ==
  /\ feeding /\ todo = <<>>
  /\ feeding' = FALSE
  /\ UNCHANGED <<screen, parser, todo, before, raised, history>>

FeedEnd ==
  /\ feeding /\ todo = <<>>
  /\ feeding' = FALSE
  /\ generation' = IF generation = before THEN generation + 1 ELSE generation
  /\ UNCHANGED <<cells, row, column, visible, pen, parser, todo, before, raised, history>>

Next ==
  \/ \E chunk \in Chunks : Feed(chunk)
  \/ Normal \/ Escape \/ CsiFinal \/ CsiRaises \/ CsiCollect \/ Skip
  \/ FeedEnd

Spec == Init /\ [][Next]_vars

-----------------------------------------------------------------------------
(* The cursor never leaves the grid, whatever sequences a program prints,  *)
(* and a CSI sequence is bounded (TerminalBuffer.feed, all branches): the  *)
(* next _put, _erase_cells and snapshot index the grid with the cursor.    *)
CursorInGrid ==
  /\ row \in 0 .. LastRow /\ column \in 0 .. LastColumn
  /\ state \in States
  /\ Len(sequence) <= MaxSequence

(* A client that compares generations sees every change: a feed() that     *)
(* returned has advanced the generation, and one left by an exception has  *)
(* if it changed text or attributes (the cursor may have moved unseen).    *)
ChangeIsSeen ==
  ~feeding => generation > before \/ (raised /\ cells = shown)

(* Reference for wrapping and scrolling: while only glyphs were printed,   *)
(* the grid shows the last rows of the text broken every Columns           *)
(* characters, and the cursor stands after its last character (_put,       *)
(* _line_feed).                                                            *)
TextIsShown ==
  LET n == Len(typed)
      top == Higher(0, (n \div Columns) - LastRow)
      at(r, c) == (top + r) * Columns + c + 1
  IN typed # Mixed =>
       /\ row = (n \div Columns) - top /\ column = n % Columns
       /\ \A r \in 0 .. LastRow, c \in 0 .. LastColumn :
            cells[r][c].char = IF at(r, c) <= n THEN typed[at(r, c)] ELSE " "

=============================================================================
