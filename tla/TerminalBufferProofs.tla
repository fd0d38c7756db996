------------------------ MODULE TerminalBufferProofs ------------------------
(***************************************************************************)
(* TerminalBuffer for every size of the grid, every bound of a CSI         *)
(* sequence and every text.                                                *)
(*                                                                         *)
(* CursorInGrid needs what the collected sequence and the characters to    *)
(* come are.  Every branch of the parser moves the cursor with the minimum *)
(* and maximum of a place and an edge; the lemmas say that of each kind of *)
(* move, and the parameters of a sequence only need to be numbers.         *)
(*                                                                         *)
(* ChangeIsSeen needs what holds in the middle of a feed (ChangeInv), and  *)
(* that every write counts, which rests on the cursor being in the grid.   *)
(*                                                                         *)
(* TextIsShown needs that the parser is in its normal state (TextInv), and *)
(* that quotient and remainder by Columns advance as _put wraps.           *)
(***************************************************************************)
EXTENDS TerminalBuffer, TLAPS

CursorInv ==
  /\ CursorInGrid
  /\ sequence \in Seq(STRING)
  /\ todo \in Seq(STRING)

\* The cursor is in the grid after the step.
CursorNext == row' \in 0 .. LastRow /\ column' \in 0 .. LastColumn

(* Parameters are numbers, and those with a default are at least 1         *)
(* (_apply_csi: int(part) if part.isdigit() else 0, params[0] or 1).       *)
LEMMA ParamIsNumber ==
  ASSUME NEW raw, NEW i
  PROVE  Param(raw, i) \in Nat /\ ParamOr1(raw, i) \in Nat \ {0}
BY DEF Param, ParamOr1

(* A clamped place is in the grid, wherever the sequence wants it.         *)
LEMMA Clamped ==
  ASSUME NEW x \in Int
  PROVE  Clamp(x, LastRow) \in 0 .. LastRow /\ Clamp(x, LastColumn) \in 0 .. LastColumn
BY SizeAssumption DEF Clamp, Lower, Higher, LastRow, LastColumn

(* Moving by some places stops at the edges.                               *)
LEMMA Moved ==
  ASSUME CursorInGrid, NEW n \in Nat
  PROVE  /\ Higher(0, row - n) \in 0 .. LastRow
         /\ Lower(LastRow, row + n) \in 0 .. LastRow
         /\ Lower(LastColumn, column + n) \in 0 .. LastColumn
         /\ Higher(0, column - n) \in 0 .. LastColumn
BY SizeAssumption DEF CursorInGrid, Lower, Higher, LastRow, LastColumn

(* The grid is not empty.                                                  *)
LEMMA ZeroInGrid == 0 \in 0 .. LastRow /\ 0 \in 0 .. LastColumn
BY SizeAssumption DEF LastRow, LastColumn

(* _line_feed and _put move by one and stop at the last row.               *)
LEMMA PutKeepsCursor ==
  ASSUME CursorInGrid, NEW ch
  PROVE  /\ LineFeed => CursorNext
         /\ Put(ch) => CursorNext
<1>1. Lower(row + 1, LastRow) \in 0 .. LastRow
  BY SizeAssumption DEF CursorInGrid, Lower, LastRow
<1>2. column < LastColumn => column + 1 \in 0 .. LastColumn
  BY SizeAssumption DEF CursorInGrid, LastColumn
<1>3. LineFeed => CursorNext
  BY <1>1 DEF LineFeed, CursorNext, CursorInGrid
<1>4. CASE column < LastColumn
  <2>1. Put(ch) => row' = row /\ column' = column + 1
    BY <1>4 DEF Put
  <2>2. QED BY <1>2, <1>3, <1>4, <2>1 DEF CursorNext, CursorInGrid
<1>5. CASE ~(column < LastColumn)
  <2>1. Put(ch) => row' = Lower(row + 1, LastRow) /\ column' = 0
    BY <1>5 DEF Put
  <2>2. QED BY <1>1, <1>3, <2>1, ZeroInGrid DEF CursorNext
<1>6. QED BY <1>4, <1>5

(* The erasing sequences, the attributes and the visibility leave it.      *)
LEMMA EraseKeepsCursor ==
  ASSUME CursorInGrid, NEW raw, NEW final, NEW mode
  PROVE  /\ EraseDisplay(mode) => CursorNext
         /\ EraseLine(mode) => CursorNext
         /\ Sgr(raw) => CursorNext
         /\ ShowCursor(raw, final) => CursorNext
<1>1. EraseDisplay(mode) => row' = row /\ column' = column
  BY DEF EraseDisplay, EraseCells
<1>2. EraseLine(mode) => row' = row /\ column' = column
  BY DEF EraseLine, EraseCells
<1>3. (Sgr(raw) => row' = row /\ column' = column)
      /\ (ShowCursor(raw, final) => row' = row /\ column' = column)
  BY DEF Sgr, ShowCursor
<1>4. QED BY <1>1, <1>2, <1>3 DEF CursorInGrid, CursorNext

(* Every control sequence, whatever its parameters (_apply_csi).           *)
LEMMA CsiKeepsCursor ==
  ASSUME CursorInGrid, NEW raw, NEW final, ApplyCsi(raw, final)
  PROVE  CursorNext
<1> DEFINE n == ParamOr1(raw, 1)
           second == IF Len(Params(raw)) > 1 THEN Param(raw, 2) ELSE 1
<1>1. n \in Nat /\ n - 1 \in Int BY ParamIsNumber
<1>2. second - 1 \in Int
  <2>1. Param(raw, 2) \in Nat BY ParamIsNumber
  <2>2. QED BY <2>1
<1>3. CursorInGrid => row \in 0 .. LastRow /\ column \in 0 .. LastColumn
  BY DEF CursorInGrid
<1>4. \/ \E r, c : MoveTo(r, c) /\ r \in 0 .. LastRow /\ c \in 0 .. LastColumn
      \/ EraseDisplay(Param(raw, 1)) \/ EraseLine(Param(raw, 1)) \/ Sgr(raw)
      \/ ShowCursor(raw, final) \/ UNCHANGED screen
  <2>1. CASE final \in {"H", "f"}
    <3>1. MoveTo(Clamp(n - 1, LastRow), Clamp(second - 1, LastColumn)) BY <2>1 DEF ApplyCsi
    <3>2. QED BY <3>1, <1>1, <1>2, Clamped
  <2>2. CASE final = "A"
    <3>1. MoveTo(Higher(0, row - n), column) BY <2>2 DEF ApplyCsi
    <3>2. QED BY <3>1, <1>1, <1>3, Moved
  <2>3. CASE final = "B"
    <3>1. MoveTo(Lower(LastRow, row + n), column) BY <2>3 DEF ApplyCsi
    <3>2. QED BY <3>1, <1>1, <1>3, Moved
  <2>4. CASE final = "C"
    <3>1. MoveTo(row, Lower(LastColumn, column + n)) BY <2>4 DEF ApplyCsi
    <3>2. QED BY <3>1, <1>1, <1>3, Moved
  <2>5. CASE final = "D"
    <3>1. MoveTo(row, Higher(0, column - n)) BY <2>5 DEF ApplyCsi
    <3>2. QED BY <3>1, <1>1, <1>3, Moved
  <2>6. CASE final = "G"
    <3>1. MoveTo(row, Clamp(n - 1, LastColumn)) BY <2>6 DEF ApplyCsi
    <3>2. QED BY <3>1, <1>1, <1>3, Clamped
  <2>7. CASE final = "d"
    <3>1. MoveTo(Clamp(n - 1, LastRow), column) BY <2>7 DEF ApplyCsi
    <3>2. QED BY <3>1, <1>1, <1>3, Clamped
  <2>8. CASE final \notin {"H", "f", "A", "B", "C", "D", "G", "d"}
    BY <2>8 DEF ApplyCsi
  <2>9. QED BY <2>1, <2>2, <2>3, <2>4, <2>5, <2>6, <2>7, <2>8
<1>5. (\E r, c : MoveTo(r, c) /\ r \in 0 .. LastRow /\ c \in 0 .. LastColumn) => CursorNext
  BY DEF MoveTo, CursorNext
<1>6. UNCHANGED screen => CursorNext
  BY <1>3 DEF screen, CursorNext
<1>7. QED BY <1>4, <1>5, <1>6, EraseKeepsCursor

(* A sequence that was dropped, and one that grows below the bound         *)
(* (_sequence).                                                            *)
LEMMA EmptySequence ==
  << >> \in Seq(STRING) /\ Len(<< >>) <= MaxSequence
<1>1. << >> \in Seq(STRING) OBVIOUS
<1>2. Len(<< >>) <= MaxSequence BY SequenceAssumption
<1>3. QED BY <1>1, <1>2

(* Appending below a bound, for any elements.                              *)
LEMMA AppendIsSequence ==
  ASSUME NEW T, NEW s \in Seq(T), NEW c \in T, NEW bound \in Nat, Len(s) < bound
  PROVE  Append(s, c) \in Seq(T) /\ Len(Append(s, c)) <= bound
OBVIOUS

(* The CSI bound of _csi.                                                  *)
LEMMA AppendBounded ==
  ASSUME NEW s \in Seq(STRING), NEW c \in STRING, Len(s) < MaxSequence
  PROVE  Append(s, c) \in Seq(STRING) /\ Len(Append(s, c)) <= MaxSequence
BY AppendIsSequence, SequenceAssumption, Zenon

(* A character taken from the chunk leaves the rest of it.                 *)
LEMMA TreatKeepsTodo ==
  ASSUME CursorInv, Treat
  PROVE  todo' \in Seq(STRING) /\ Char \in STRING
BY DEF CursorInv, Treat, Char

(* Init of the grid.                                                       *)
LEMMA CursorStarts == Init => CursorInv
<1>1. Init => row \in 0 .. LastRow /\ column \in 0 .. LastColumn
  BY ZeroInGrid DEF Init
<1>2. Init => state \in States /\ sequence = <<>> /\ todo = <<>>
  BY DEF Init, States
<1>3. QED BY <1>1, <1>2, EmptySequence DEF CursorInv, CursorInGrid

(* One step of feed() per case, and the stutter.                           *)
LEMMA CursorStep ==
  ASSUME CursorInv, [Next]_vars
  PROVE  CursorInv'
<1> USE DEF CursorInv
<1>g. CursorInGrid /\ row \in 0 .. LastRow /\ column \in 0 .. LastColumn
  BY DEF CursorInGrid
<1>u. UNCHANGED screen => CursorNext
  BY <1>g DEF screen, CursorNext
<1>j. ASSUME CursorNext, state' \in States, sequence' \in Seq(STRING),
             Len(sequence') <= MaxSequence, todo' \in Seq(STRING)
      PROVE  CursorInv'
  BY <1>j DEF CursorNext, CursorInGrid
<1>1. ASSUME NEW chunk \in Chunks, Feed(chunk) PROVE CursorInv'
  <2>1. todo' \in Seq(STRING) BY <1>1, ChunksAssumption DEF Feed
  <2>2. CursorNext BY <1>1, <1>u DEF Feed
  <2>3. QED BY <1>1, <1>j, <2>1, <2>2 DEF Feed, parser, CursorInGrid
<1>2. CASE Normal
  <2>1. CursorNext
    <3>1. ASSUME MoveTo(row, 0) PROVE CursorNext
      BY <3>1, <1>g, ZeroInGrid DEF MoveTo, CursorNext
    <3>2. ASSUME MoveTo(row, Higher(0, column - 1)) PROVE CursorNext
      <4>1. Higher(0, column - 1) \in 0 .. LastColumn
        BY <1>g, SizeAssumption DEF Higher, LastColumn
      <4>2. QED BY <3>2, <1>g, <4>1 DEF MoveTo, CursorNext
    <3>3. ASSUME MoveTo(row, Lower(LastColumn, 8 * (column \div 8) + 8)) PROVE CursorNext
      <4>1. Lower(LastColumn, 8 * (column \div 8) + 8) \in 0 .. LastColumn
        BY <1>g, SizeAssumption DEF Lower, LastColumn
      <4>2. QED BY <3>3, <1>g, <4>1 DEF MoveTo, CursorNext
    <3>4. QED BY <1>2, <1>g, <1>u, <3>1, <3>2, <3>3, PutKeepsCursor DEF Normal
  <2>2. state' \in States /\ sequence' = sequence BY <1>2 DEF Normal, States
  <2>3. todo' \in Seq(STRING) BY <1>2, TreatKeepsTodo DEF Normal
  <2>4. QED BY <1>j, <2>1, <2>2, <2>3 DEF CursorInGrid
<1>3. CASE Escape
  <2>1. CursorNext BY <1>3, <1>u DEF Escape
  <2>2. state' \in States BY <1>3 DEF Escape, States
  <2>3. sequence' \in Seq(STRING) /\ Len(sequence') <= MaxSequence
    <3>1. sequence' = <<>> \/ sequence' = sequence BY <1>3 DEF Escape
    <3>2. QED BY <3>1, EmptySequence DEF CursorInGrid
  <2>4. todo' \in Seq(STRING) BY <1>3, TreatKeepsTodo DEF Escape
  <2>5. QED BY <1>j, <2>1, <2>2, <2>3, <2>4
<1>4. CASE CsiFinal
  <2>1. CursorNext BY <1>4, <1>g, CsiKeepsCursor DEF CsiFinal
  <2>2. state' \in States /\ sequence' \in Seq(STRING) /\ Len(sequence') <= MaxSequence
    BY <1>4, EmptySequence DEF CsiFinal, States
  <2>3. todo' \in Seq(STRING) BY <1>4, TreatKeepsTodo DEF CsiFinal
  <2>4. QED BY <1>j, <2>1, <2>2, <2>3
<1>5. CASE CsiRaises
  <2>1. CursorNext BY <1>5, <1>u DEF CsiRaises
  <2>2. state' \in States /\ sequence' = <<>> /\ todo' = <<>>
    BY <1>5 DEF CsiRaises, States
  <2>3. QED BY <1>j, <2>1, <2>2, EmptySequence
<1>6. CASE CsiCollect
  <2>1. CursorNext BY <1>6, <1>u DEF CsiCollect
  <2>2. Char \in STRING /\ todo' \in Seq(STRING) BY <1>6, TreatKeepsTodo DEF CsiCollect
  <2>3. state' \in States BY <1>6 DEF CsiCollect, States
  <2>4. sequence' \in Seq(STRING) /\ Len(sequence') <= MaxSequence
    <3>1. CASE Len(sequence) < MaxSequence
      <4>1. sequence' = Append(sequence, Char) BY <1>6, <3>1 DEF CsiCollect
      <4>2. QED BY <4>1, <3>1, <2>2, AppendBounded
    <3>2. CASE ~(Len(sequence) < MaxSequence)
      BY <1>6, <3>2, SequenceAssumption DEF CsiCollect
    <3>3. QED BY <3>1, <3>2
  <2>5. QED BY <1>j, <2>1, <2>2, <2>3, <2>4
<1>7. CASE Skip
  <2>1. CursorNext BY <1>7, <1>u DEF Skip
  <2>2. state' \in States /\ sequence' = sequence BY <1>7 DEF Skip, States
  <2>3. todo' \in Seq(STRING) BY <1>7, TreatKeepsTodo DEF Skip
  <2>4. QED BY <1>j, <2>1, <2>2, <2>3 DEF CursorInGrid
<1>8. CASE FeedEnd
  <2>1. CursorNext BY <1>8, <1>g DEF FeedEnd, CursorNext
  <2>2. QED BY <1>8, <1>j, <2>1 DEF FeedEnd, parser, CursorInGrid
<1>9. CASE UNCHANGED vars
  <2>1. CursorNext BY <1>9, <1>g DEF vars, CursorNext
  <2>2. QED BY <1>9, <1>j, <2>1 DEF vars, CursorInGrid
<1>10. QED
  BY <1>1, <1>2, <1>3, <1>4, <1>5, <1>6, <1>7, <1>8, <1>9 DEF Next

(* Whatever a program prints, and however its output is split over reads,  *)
(* feed() never moves the cursor out of the grid that _put, _erase_cells   *)
(* and snapshot index with it, and never collects more than the bound.     *)
THEOREM CursorStays == Spec => []CursorInGrid
<1>1. Init => CursorInv BY CursorStarts
<1>2. CursorInv /\ [Next]_vars => CursorInv' BY CursorStep
<1>3. CursorInv => CursorInGrid BY DEF CursorInv
<1>4. QED BY <1>1, <1>2, <1>3, PTL DEF Spec

-----------------------------------------------------------------------------
(* The generation of the screen.  ChangeIsSeen speaks of the time between  *)
(* feeds; during one, the generation may still be the one it began with as *)
(* long as no cell was written.                                            *)

ChangeInv ==
  /\ generation \in Nat /\ before \in Int
  /\ generation >= before
  /\ generation = before => cells = shown
  /\ ~feeding => generation > before \/ raised

\* Cells change only together with the generation, which never goes back.
Counted ==
  /\ generation' \in Nat /\ generation' >= generation
  /\ generation' = generation => cells' = cells

(* Each of the calls that write to the grid counts at least once           *)
(* (_put, _line_feed, _erase_cells).                                       *)
LEMMA WritesAreCounted ==
  ASSUME CursorInGrid, generation \in Nat, NEW ch, NEW mode
  PROVE  /\ LineFeed => Counted
         /\ Put(ch) => Counted
         /\ EraseLine(mode) => Counted
         /\ EraseDisplay(mode) => Counted
<1>1. LineFeed => generation' = generation + 1 BY DEF LineFeed
<1>2. Put(ch) => generation' = generation + 1 \/ generation' = generation + 2 BY DEF Put
<1>3. EraseLine(mode) => generation' = generation + 1 BY DEF EraseLine, EraseCells
<1>4. EraseDisplay(mode) => \/ generation' = generation + Rows
                            \/ generation' = generation + (row + 1)
                            \/ generation' = generation + (Rows - row)
  BY DEF EraseDisplay, EraseCells
<1>5. Rows \in Nat /\ Rows > 0 /\ row \in Nat /\ row < Rows
  BY SizeAssumption DEF CursorInGrid, LastRow
<1>6. QED BY <1>1, <1>2, <1>3, <1>4, <1>5 DEF Counted

(* Every control sequence (_apply_csi).                                    *)
LEMMA CsiIsCounted ==
  ASSUME CursorInGrid, generation \in Nat, NEW raw, NEW final, ApplyCsi(raw, final)
  PROVE  Counted
<1>1. \/ \E r, c : MoveTo(r, c)
      \/ EraseDisplay(Param(raw, 1)) \/ EraseLine(Param(raw, 1)) \/ Sgr(raw)
      \/ ShowCursor(raw, final) \/ UNCHANGED screen
  BY DEF ApplyCsi
<1>2. (\E r, c : MoveTo(r, c)) => Counted BY DEF MoveTo, Counted
<1>3. Sgr(raw) \/ ShowCursor(raw, final) \/ UNCHANGED screen => Counted
  BY DEF Sgr, ShowCursor, screen, Counted
<1>4. QED BY <1>1, <1>2, <1>3, WritesAreCounted

(* One step of feed() per case, and the stutter.                           *)
LEMMA ChangeStep ==
  ASSUME ChangeInv, CursorInGrid, [Next]_vars
  PROVE  ChangeInv'
<1> USE DEF ChangeInv
<1>u. UNCHANGED screen => Counted BY DEF screen, Counted
<1>j. ASSUME Counted, UNCHANGED <<before, shown, feeding, raised>> PROVE ChangeInv'
  BY <1>j DEF Counted
<1>1. ASSUME NEW chunk \in Chunks, Feed(chunk) PROVE ChangeInv'
  BY <1>1 DEF Feed, screen
<1>2. CASE Normal
  <2>1. \/ \E r, c : MoveTo(r, c)
        \/ LineFeed \/ Put(Char) \/ UNCHANGED screen
    BY <1>2 DEF Normal
  <2>2. (\E r, c : MoveTo(r, c)) => Counted BY DEF MoveTo, Counted
  <2>3. Counted BY <2>1, <2>2, <1>u, WritesAreCounted
  <2>4. QED BY <1>2, <1>j, <2>3 DEF Normal, Treat
<1>3. CASE Escape
  BY <1>3, <1>j, <1>u DEF Escape, Treat
<1>4. CASE CsiFinal
  <2>1. Counted BY <1>4, CsiIsCounted DEF CsiFinal
  <2>2. QED BY <1>4, <1>j, <2>1 DEF CsiFinal, Treat
<1>5. CASE CsiRaises
  BY <1>5 DEF CsiRaises, screen, history
<1>6. CASE CsiCollect
  BY <1>6, <1>j, <1>u DEF CsiCollect, Treat
<1>7. CASE Skip
  BY <1>7, <1>j, <1>u DEF Skip, Treat
<1>8. CASE FeedEnd
  BY <1>8 DEF FeedEnd, history
<1>9. CASE UNCHANGED vars
  BY <1>9 DEF vars
<1>10. QED
  BY <1>1, <1>2, <1>3, <1>4, <1>5, <1>6, <1>7, <1>8, <1>9 DEF Next

(* A client that compares generations sees every change, for every grid    *)
(* and every output: a feed() that returned has advanced the generation,   *)
(* and one left by an exception has if it wrote to a cell (feed).          *)
THEOREM ChangesAreSeen == Spec => []ChangeIsSeen
<1>1. Init => ChangeInv
  <2>1. Init => generation = 0 /\ before = -1
    BY DEF Init
  <2>2. QED BY <2>1 DEF ChangeInv
<1>2. ChangeInv /\ CursorInGrid /\ [Next]_vars => ChangeInv' BY ChangeStep
<1>3. ChangeInv => ChangeIsSeen BY DEF ChangeInv, ChangeIsSeen
<1>4. QED BY <1>1, <1>2, <1>3, CursorStays, PTL DEF Spec

-----------------------------------------------------------------------------
(* Wrapping and scrolling.  While only glyphs were printed the parser is   *)
(* in its normal state, and the cell at the cursor is the one that the     *)
(* reference formula has for the next character.                           *)

Top(n) == Higher(0, (n \div Columns) - LastRow)
At(top, r, c) == (top + r) * Columns + c + 1

\* The grid shows the lines of a text from line top on.
Shows(grid, top, text) ==
  \A r \in 0 .. LastRow, c \in 0 .. LastColumn :
    grid[r][c].char = IF At(top, r, c) <= Len(text) THEN text[At(top, r, c)] ELSE " "

CursorAfter(n) == row = (n \div Columns) - Top(n) /\ column = n % Columns

\* A grid is a function of rows to functions of columns.
IsGrid(grid) == grid = [r \in 0 .. LastRow |-> [c \in 0 .. LastColumn |-> grid[r][c]]]

TextInv ==
  typed # Mixed =>
    /\ state = "normal"
    /\ typed \in Seq(STRING)
    /\ IsGrid(cells)
    /\ CursorAfter(Len(typed))
    /\ Shows(cells, Top(Len(typed)), typed)

(* Quotient and remainder.                                                 *)
LEMMA DivMod ==
  ASSUME NEW n \in Nat, NEW C \in Nat \ {0}
  PROVE  n = (n \div C) * C + (n % C) /\ n \div C \in Nat /\ n % C \in 0 .. C - 1
<1>1. n = C * (n \div C) + (n % C) OBVIOUS
<1>2. n \div C \in Nat OBVIOUS
<1>3. n % C \in 0 .. C - 1 OBVIOUS
<1>4. C * (n \div C) = (n \div C) * C BY <1>2
<1>5. QED BY <1>1, <1>2, <1>3, <1>4

(* They are unique.                                                        *)
LEMMA DivModUnique ==
  ASSUME NEW C \in Nat \ {0}, NEW a \in Int, NEW b \in Int,
         NEW c \in 0 .. C - 1, NEW d \in 0 .. C - 1, a * C + c = b * C + d
  PROVE  a = b /\ c = d
<1>1. ASSUME a < b PROVE FALSE
  <2>1. (b - a) * C >= C BY <1>1
  <2>2. QED BY <2>1
<1>2. ASSUME b < a PROVE FALSE
  <2>1. (a - b) * C >= C BY <1>2
  <2>2. QED BY <2>1
<1>3. QED BY <1>1, <1>2

(* The place after the next character: the next column, or the first       *)
(* column of the next line.                                                *)
LEMMA NextPlace ==
  ASSUME NEW n \in Nat, NEW C \in Nat \ {0}
  PROVE  /\ n % C < C - 1 => (n + 1) \div C = n \div C /\ (n + 1) % C = (n % C) + 1
         /\ n % C = C - 1 => (n + 1) \div C = (n \div C) + 1 /\ (n + 1) % C = 0
<1> DEFINE q == n \div C
           m == n % C
           q2 == (n + 1) \div C
           m2 == (n + 1) % C
<1>1. n = q * C + m /\ q \in Nat /\ m \in 0 .. C - 1 BY DivMod
<1>2. n + 1 = q2 * C + m2 /\ q2 \in Nat /\ m2 \in 0 .. C - 1
  <2>1. n + 1 \in Nat OBVIOUS
  <2>2. QED BY <2>1, DivMod
<1> HIDE DEF q, m, q2, m2
<1>3. CASE m < C - 1
  <2>1. q * C + (m + 1) = q2 * C + m2 BY <1>1, <1>2
  <2>2. m + 1 \in 0 .. C - 1 BY <1>1, <1>3
  <2>3. q = q2 /\ m + 1 = m2 BY <1>1, <1>2, <2>1, <2>2, DivModUnique
  <2>4. QED BY <1>1, <1>3, <2>3 DEF q, m, q2, m2
<1>4. CASE m = C - 1
  <2>1. (q + 1) * C + 0 = q2 * C + m2 BY <1>1, <1>2, <1>4
  <2>2. 0 \in 0 .. C - 1 OBVIOUS
  <2>3. q + 1 = q2 /\ 0 = m2 BY <1>1, <1>2, <2>1, <2>2, DivModUnique
  <2>4. QED BY <1>1, <1>4, <2>3 DEF q, m, q2, m2
<1>5. QED BY <1>1, <1>3, <1>4 DEF m

\* t is s with c behind it.
Longer(s, c, t) ==
  /\ Len(s) \in Nat /\ Len(t) = Len(s) + 1
  /\ t[Len(s) + 1] = c
  /\ \A i \in 1 .. Len(s) : t[i] = s[i]

(* What Append leaves, for any elements.                                   *)
LEMMA AppendIsAny ==
  ASSUME NEW T, NEW s \in Seq(T), NEW c \in T
  PROVE  Append(s, c) \in Seq(T) /\ Longer(s, c, Append(s, c))
BY DEF Longer

(* And for a text.                                                         *)
LEMMA AppendIsLonger ==
  ASSUME NEW s \in Seq(STRING), NEW c \in STRING
  PROVE  Append(s, c) \in Seq(STRING) /\ Longer(s, c, Append(s, c))
BY AppendIsAny, Zenon

(* Writing the next character at the cursor shows the longer text in the   *)
(* same lines (_put, before it wraps).                                     *)
LEMMA PutShows ==
  ASSUME CursorInGrid, IsGrid(cells), NEW text \in Seq(STRING), NEW ch \in STRING,
         NEW a, CursorAfter(Len(text)), Shows(cells, Top(Len(text)), text)
  PROVE  LET grid == [cells EXCEPT ![row][column] = Cell(ch, a)]
         IN  IsGrid(grid) /\ Shows(grid, Top(Len(text)), Append(text, ch))
<1> DEFINE grid == [cells EXCEPT ![row][column] = Cell(ch, a)]
           n == Len(text)
           top == Top(n)
<1>1. row \in 0 .. LastRow /\ column \in 0 .. LastColumn BY DEF CursorInGrid
<1>2. \A r \in 0 .. LastRow, c \in 0 .. LastColumn :
        grid[r][c] = IF r = row /\ c = column THEN Cell(ch, a) ELSE cells[r][c]
  BY <1>1 DEF IsGrid
<1>3. IsGrid(grid)
  BY <1>1 DEF IsGrid
<1>4. /\ n \in Nat /\ top \in Nat
      /\ n = (n \div Columns) * Columns + (n % Columns)
      /\ n \div Columns \in Nat /\ n % Columns \in 0 .. Columns - 1
  <2>1. n \in Nat BY AppendIsLonger DEF Longer
  <2>2. /\ n = (n \div Columns) * Columns + (n % Columns)
        /\ n \div Columns \in Nat /\ n % Columns \in 0 .. Columns - 1
    BY <2>1, DivMod, SizeAssumption
  <2>3. top \in Nat
    BY <2>2, SizeAssumption DEF Top, Higher, LastRow
  <2>4. QED BY <2>1, <2>2, <2>3
<1>5. ASSUME NEW r \in 0 .. LastRow, NEW c \in 0 .. LastColumn
      PROVE  /\ At(top, r, c) \in Nat \ {0}
             /\ (At(top, r, c) = n + 1) <=> (r = row /\ c = column)
  <2>1. top + r \in Nat /\ c \in 0 .. Columns - 1
    BY <1>4, SizeAssumption DEF LastRow, LastColumn
  <2>2. row = (n \div Columns) - top /\ column = n % Columns BY DEF CursorAfter
  <2> HIDE DEF top, n
  <2>3. At(top, r, c) = ((top + r) * Columns + c) + 1 /\ (top + r) * Columns + c \in Nat
    BY <1>4, <2>1, SizeAssumption DEF At, LastColumn
  <2>4. ASSUME At(top, r, c) = n + 1 PROVE r = row /\ c = column
    <3>1. (top + r) * Columns + c = (n \div Columns) * Columns + (n % Columns)
      BY <1>4, <2>3, <2>4
    <3>2. top + r = n \div Columns /\ c = n % Columns
      BY <1>4, <2>1, <3>1, SizeAssumption, DivModUnique
    <3>3. QED BY <1>4, <2>2, <3>2, SizeAssumption DEF LastRow
  <2>5. ASSUME r = row, c = column PROVE At(top, r, c) = n + 1
    <3>1. top + r = n \div Columns /\ c = n % Columns
      BY <1>4, <2>2, <2>5
    <3>2. QED BY <1>4, <2>3, <3>1
  <2>6. QED BY <2>3, <2>4, <2>5
<1>6. /\ Len(Append(text, ch)) = n + 1
      /\ Append(text, ch)[n + 1] = ch
      /\ \A i \in 1 .. n : Append(text, ch)[i] = text[i]
  BY AppendIsLonger DEF Longer
<1>7. ASSUME NEW r \in 0 .. LastRow, NEW c \in 0 .. LastColumn
      PROVE  grid[r][c].char = IF At(top, r, c) <= Len(Append(text, ch))
                               THEN Append(text, ch)[At(top, r, c)] ELSE " "
  <2> DEFINE here == At(top, r, c)
  <2>1. here \in Nat \ {0} /\ ((here = n + 1) <=> (r = row /\ c = column)) BY <1>5
  <2>2. grid[r][c] = IF r = row /\ c = column THEN Cell(ch, a) ELSE cells[r][c] BY <1>2
  <2>3. cells[r][c].char = IF here <= n THEN text[here] ELSE " " BY DEF Shows
  <2> HIDE DEF here, grid, n
  <2>4. CASE here = n + 1
    <3>1. grid[r][c].char = ch BY <2>1, <2>2, <2>4 DEF Cell
    <3>2. QED BY <1>4, <1>6, <2>4, <3>1 DEF here
  <2>5. CASE here # n + 1
    <3>1. grid[r][c] = cells[r][c] BY <2>1, <2>2, <2>5
    <3>2. here <= n + 1 <=> here <= n BY <1>4, <2>1, <2>5
    <3>3. here <= n => Append(text, ch)[here] = text[here]
      <4>1. here <= n => here \in 1 .. n BY <1>4, <2>1
      <4>2. QED BY <1>6, <4>1
    <3>4. QED BY <1>6, <2>3, <3>1, <3>2, <3>3 DEF here
  <2>6. QED BY <2>4, <2>5
<1>8. QED BY <1>3, <1>7 DEF Shows

(* _put with its wrap and the line feed that scrolls.                      *)
LEMMA PutKeepsText ==
  ASSUME CursorInGrid, TextInv, typed # Mixed, NEW ch \in STRING, Put(ch),
         typed' = Append(typed, ch)
  PROVE  IsGrid(cells') /\ CursorAfter(Len(typed))' /\ Shows(cells', Top(Len(typed')), typed')
<1> DEFINE grid == [cells EXCEPT ![row][column] = Cell(ch, Attribute)]
           n == Len(typed)
           q == n \div Columns
           m == n % Columns
           q2 == (n + 1) \div Columns
           m2 == (n + 1) % Columns
<1>1. n \in Nat /\ Len(typed') = n + 1
  BY AppendIsLonger DEF TextInv, Longer
<1>2. IsGrid(grid) /\ Shows(grid, Top(n), typed')
  BY PutShows DEF TextInv
<1>3. q \in Nat /\ m \in 0 .. Columns - 1 /\ n = q * Columns + m
  BY <1>1, DivMod, SizeAssumption
<1>4. /\ m < Columns - 1 => q2 = q /\ m2 = m + 1
      /\ m = Columns - 1 => q2 = q + 1 /\ m2 = 0
  BY <1>1, NextPlace, SizeAssumption
<1>5. row = q - Top(n) /\ column = m /\ row \in 0 .. LastRow /\ column \in 0 .. LastColumn
  BY DEF TextInv, CursorAfter, CursorInGrid
<1>6. Top(n) = Higher(0, q - LastRow) /\ Top(n + 1) = Higher(0, q2 - LastRow) BY DEF Top
<1>7. ASSUME row' = q2 - Top(n + 1), column' = m2 PROVE CursorAfter(Len(typed))'
  BY <1>1, <1>7 DEF CursorAfter
<1> HIDE DEF grid, n, q, m, q2, m2
<1>8. LastRow \in Nat /\ LastColumn \in Nat /\ LastColumn = Columns - 1
  BY SizeAssumption DEF LastRow, LastColumn
<1>9. CASE column < LastColumn
  <2>1. cells' = grid /\ column' = column + 1 /\ row' = row
    BY <1>9 DEF Put, grid
  <2>2. q2 = q /\ m2 = m + 1 BY <1>4, <1>5, <1>8, <1>9
  <2>3. Top(n + 1) = Top(n) BY <1>6, <2>2
  <2>4. QED BY <1>1, <1>2, <1>5, <1>7, <2>1, <2>2, <2>3
<1>10. CASE ~(column < LastColumn)
  <2>1. cells' = Scrolled(grid) /\ column' = 0 /\ row' = Lower(row + 1, LastRow)
    BY <1>10 DEF Put, grid
  <2>2. q2 = q + 1 /\ m2 = 0 BY <1>3, <1>4, <1>5, <1>8, <1>10
  <2>3. CASE row < LastRow
    <3>1. Top(n) = 0 /\ Top(n + 1) = 0 /\ row = q
      BY <1>3, <1>5, <1>6, <1>8, <2>2, <2>3 DEF Higher
    <3>2. cells' = grid /\ row' = row + 1
      BY <1>5, <1>8, <2>1, <2>3 DEF Scrolled, Lower
    <3>3. row' = q2 - Top(n + 1) BY <1>3, <2>2, <3>1, <3>2
    <3>4. CursorAfter(Len(typed))' BY <1>7, <2>1, <2>2, <3>3
    <3>5. QED BY <1>1, <1>2, <3>1, <3>2, <3>4
  <2>4. CASE ~(row < LastRow)
    <3>1. row = LastRow /\ Top(n) = q - LastRow /\ Top(n + 1) = Top(n) + 1 /\ Top(n) \in Nat
      BY <1>3, <1>5, <1>6, <1>8, <2>2, <2>4 DEF Higher
    <3>2. row' = LastRow BY <1>8, <2>1, <3>1 DEF Lower
    <3>3. CursorAfter(Len(typed))'
      BY <1>3, <1>7, <1>8, <2>1, <2>2, <3>1, <3>2
    <3>4. cells' = [r \in 0 .. LastRow |-> IF r < LastRow THEN grid[r + 1]
                                           ELSE [c \in 0 .. LastColumn |-> Blank]]
      BY <2>1, <2>4 DEF Scrolled
    <3>5. IsGrid(cells')
      <4>1. \A r \in 0 .. LastRow : grid[r] = [c \in 0 .. LastColumn |-> grid[r][c]]
        BY <1>2 DEF IsGrid
      <4>2. ASSUME NEW r \in 0 .. LastRow
            PROVE  cells'[r] = [c \in 0 .. LastColumn |-> cells'[r][c]]
        <5>1. CASE r < LastRow
          <6>1. r + 1 \in 0 .. LastRow /\ cells'[r] = grid[r + 1] BY <1>8, <3>4, <5>1
          <6>2. QED BY <4>1, <6>1
        <5>2. CASE ~(r < LastRow)
          BY <3>4, <5>2
        <5>3. QED BY <5>1, <5>2
      <4>3. cells' = [r \in 0 .. LastRow |-> cells'[r]] BY <3>4
      <4>4. QED BY <4>2, <4>3 DEF IsGrid
    <3>6. ASSUME NEW r \in 0 .. LastRow, NEW c \in 0 .. LastColumn
          PROVE  cells'[r][c].char = IF At(Top(n + 1), r, c) <= Len(typed')
                                     THEN typed'[At(Top(n + 1), r, c)] ELSE " "
      <4>1. CASE r < LastRow
        <5>1. r + 1 \in 0 .. LastRow /\ cells'[r][c] = grid[r + 1][c]
          BY <1>8, <3>4, <4>1
        <5>2. At(Top(n + 1), r, c) = At(Top(n), r + 1, c)
          <6>1. Top(n) + 1 + r = Top(n) + (r + 1) BY <1>8, <3>1
          <6>2. QED BY <3>1, <6>1 DEF At
        <5>3. QED BY <1>2, <5>1, <5>2 DEF Shows
      <4>2. CASE ~(r < LastRow)
        <5>1. r = LastRow BY <1>8, <4>2
        <5>2. cells'[r][c].char = " " BY <3>4, <4>2 DEF Blank, Cell
        <5>3. Top(n + 1) + r = q + 1 BY <1>3, <1>8, <3>1, <5>1
        <5>4. (q + 1) * Columns = n + 1
          BY <1>3, <1>4, <1>5, <1>8, <1>10, SizeAssumption
        <5>5. ~(At(Top(n + 1), r, c) <= Len(typed'))
          BY <1>1, <1>8, <5>3, <5>4 DEF At
        <5>6. QED BY <5>2, <5>5
      <4>3. QED BY <4>1, <4>2
    <3>7. QED BY <1>1, <3>3, <3>5, <3>6 DEF Shows
  <2>5. QED BY <2>3, <2>4
<1>11. QED BY <1>9, <1>10

(* The first line of a text that fits is the first line of the grid.       *)
LEMMA TextStarts == Init => TextInv
<1> SUFFICES ASSUME Init PROVE TextInv OBVIOUS
<1>1. typed = <<>> /\ state = "normal" /\ row = 0 /\ column = 0
  BY DEF Init
<1>2. cells = [r \in 0 .. LastRow |-> [c \in 0 .. LastColumn |-> Cell(" ", 7)]]
  BY DEF Init
<1>3. typed \in Seq(STRING) /\ Len(typed) = 0
  BY <1>1, EmptySequence
<1>4. IsGrid(cells) BY <1>2 DEF IsGrid
<1>5. 0 \div Columns = 0 /\ 0 % Columns = 0 BY SizeAssumption
<1>6. Top(0) = 0 BY <1>5, SizeAssumption DEF Top, Higher, LastRow
<1>7. CursorAfter(Len(typed)) BY <1>1, <1>3, <1>5, <1>6 DEF CursorAfter
<1>8. ASSUME NEW r \in 0 .. LastRow, NEW c \in 0 .. LastColumn
      PROVE  cells[r][c].char = " " /\ ~(At(Top(0), r, c) <= 0)
  <2>1. cells[r][c].char = " " BY <1>2 DEF Cell
  <2>2. r * Columns \in Nat BY SizeAssumption DEF LastRow
  <2>3. At(Top(0), r, c) = r * Columns + c + 1 BY <1>6, SizeAssumption DEF At, LastRow
  <2>4. c \in Nat BY SizeAssumption DEF LastColumn
  <2>5. ~(At(Top(0), r, c) <= 0) BY <2>2, <2>3, <2>4
  <2>6. QED BY <2>1, <2>5
<1>9. Shows(cells, Top(Len(typed)), typed)
  BY ONLY <1>3, <1>8 DEF Shows
<1>10. QED BY <1>1, <1>3, <1>4, <1>7, <1>9 DEF TextInv

(* One step of feed() per case: a glyph makes the text longer, a control   *)
(* ends the comparison, and other states of the parser have seen one.      *)
LEMMA TextStep ==
  ASSUME CursorInv, TextInv, [Next]_vars
  PROVE  TextInv'
<1>g. CursorInGrid BY DEF CursorInv
<1>s. ASSUME UNCHANGED <<typed, state, cells, row, column>> PROVE TextInv'
  BY <1>s DEF TextInv, IsGrid, CursorAfter, Shows
<1>m. ASSUME state # "normal", Treat PROVE TextInv'
  BY <1>m DEF TextInv, Treat, Record
<1>1. ASSUME NEW chunk \in Chunks, Feed(chunk) PROVE TextInv'
  BY <1>1, <1>s DEF Feed, screen, parser
<1>2. CASE Normal
  <2>1. CASE typed = Mixed \/ Char \in Controls
    BY <1>2, <2>1 DEF Normal, Treat, Record, TextInv
  <2>2. CASE ~(typed = Mixed \/ Char \in Controls)
    <3>1. typed' = Append(typed, Char) /\ Char \in STRING
      BY <1>2, <2>2, TreatKeepsTodo DEF Normal, Treat, Record
    <3>2. Char \notin LineFeeds \cup Ignored \cup {"ESC", "CR", "BS", "TAB"}
      BY <2>2 DEF Controls
    <3>3. Put(Char) /\ state' = "normal"
      BY <1>2, <3>2 DEF Normal
    <3>4. typed' \in Seq(STRING)
      BY <2>2, <3>1, AppendIsLonger DEF TextInv
    <3>5. QED BY <1>g, <2>2, <3>1, <3>3, <3>4, PutKeepsText DEF TextInv
  <2>3. QED BY <2>1, <2>2
<1>3. CASE Escape BY <1>3, <1>m DEF Escape
<1>4. CASE CsiFinal BY <1>4, <1>m DEF CsiFinal
<1>5. CASE CsiRaises BY <1>5 DEF CsiRaises, TextInv, history
<1>6. CASE CsiCollect BY <1>6, <1>m DEF CsiCollect
<1>7. CASE Skip BY <1>7, <1>m DEF Skip
<1>8. CASE FeedEnd BY <1>8, <1>s DEF FeedEnd, parser, history
<1>9. CASE UNCHANGED vars BY <1>9, <1>s DEF vars
<1>10. QED
  BY <1>1, <1>2, <1>3, <1>4, <1>5, <1>6, <1>7, <1>8, <1>9 DEF Next

(* For every size of the grid and every text of glyphs, however it is      *)
(* split over reads: the grid shows the last lines of the text, broken     *)
(* every Columns characters, and the cursor stands behind it (_put,        *)
(* _line_feed).                                                            *)
THEOREM TextIsAlwaysShown == Spec => []TextIsShown
<1>1. Init => CursorInv /\ TextInv BY CursorStarts, TextStarts
<1>2. CursorInv /\ TextInv /\ [Next]_vars => CursorInv' /\ TextInv'
  BY CursorStep, TextStep
<1>3. TextInv => TextIsShown
  BY DEF TextInv, TextIsShown, CursorAfter, Shows, Top, At
<1>4. QED BY <1>1, <1>2, <1>3, PTL DEF Spec

=============================================================================
