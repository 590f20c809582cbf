-------------------------------- MODULE Tetris --------------------------------
(***************************************************************************)
(* The falling-block game of multi_array_tetris.cpp.  The field is a       *)
(* function from rows to the set of their filled columns, a stone a square *)
(* matrix; row 0 is the highest.                                           *)
(***************************************************************************)
EXTENDS Integers, Sequences, FiniteSetsExt

CONSTANTS
    Rows,       \* number of rows of the field
    Columns,    \* number of its columns
    Stones      \* the names of the stones that come (model bound)

VARIABLES
    field,      \* vmat_
    stone,      \* smat_
    pos,        \* p_: row and column of its upper left corner
    preview,    \* pv_
    phase       \* "round" before next_round, "play", "over"

tetrisVars == <<field, stone, pos, preview, phase>>

AllColumns == 0 .. Columns - 1
Cells(n) == (0 .. n - 1) \X (0 .. n - 1)

\* A stone from the cells that are filled: its side and its matrix.
Matrix(n, filled) == [n |-> n, m |-> [x \in Cells(n) |-> x \in filled]]

\* mats_init
mats ==
    [O |-> Matrix(2, Cells(2)),
     T |-> Matrix(3, {<<0, 1>>, <<1, 0>>, <<1, 1>>, <<1, 2>>}),
     Z |-> Matrix(3, {<<0, 0>>, <<0, 1>>, <<1, 1>>, <<1, 2>>}),
     N |-> Matrix(3, {<<0, 1>>, <<0, 2>>, <<1, 0>>, <<1, 1>>}),
     F |-> Matrix(3, {<<0, 0>>, <<0, 1>>, <<1, 1>>, <<2, 1>>}),
     E |-> Matrix(3, {<<0, 1>>, <<0, 2>>, <<1, 1>>, <<2, 1>>}),
     L |-> Matrix(4, {<<0, 1>>, <<1, 1>>, <<2, 1>>, <<3, 1>>})]

-----------------------------------------------------------------------------
(* Matrices                                                                *)

\* The i-th four points of ring k that take turns.
Points(n, k, i) ==
    LET e == n - 1 - k
    IN  <<<<k, k + i>>, <<k + i, e>>, <<e, e - i>>, <<e - i, k>>>>

\* The first point is swapped with the second, the third and the fourth in turn.
Swap(m, p) ==
    [m EXCEPT ![p[1]] = m[p[4]], ![p[2]] = m[p[1]], ![p[3]] = m[p[2]], ![p[4]] = m[p[3]]]

\* rotate90_right: ring by ring from the outside.
rotate90_right(s) ==
    LET rings == {<<k, i>> \in Cells(s.n) : i < s.n - 1 - 2 * k}
    IN  [s EXCEPT !.m = FoldSet(LAMBDA r, m : Swap(m, Points(s.n, r[1], r[2])), s.m, rings)]

\* Array2dx::at: everything beside and below the field is filled, above it is free.
At(f, r, c) ==
    IF c \in AllColumns /\ r \in DOMAIN f THEN c \in f[r]
    ELSE c \notin AllColumns \/ r >= Rows

is_collision(f, p, s) == \E x \in Cells(s.n) : s.m[x] /\ At(f, p[1] + x[1], p[2] + x[2])

\* or_assign: what lies outside of the field is lost.
or_assign(f, p, s) ==
    [r \in 0 .. Rows - 1 |->
        f[r] \union {c \in AllColumns :
                        <<r - p[1], c - p[2]>> \in Cells(s.n) /\ s.m[<<r - p[1], c - p[2]>>]}]

\* collapse: from row rb upward, full rows between rb and r0 are cleared and the
\* others moved down by the number nc of them.
RECURSIVE collapse(_, _, _, _)
collapse(f, rb, r0, nc) ==
    LET full == rb >= r0 /\ f[rb] = AllColumns
        g == IF full THEN [f EXCEPT ![rb] = {}]
             ELSE IF nc > 0 THEN [f EXCEPT ![rb + nc] = f[rb], ![rb] = {}]
             ELSE f
    IN  IF rb = 0 \/ (rb = r0 /\ nc = 0 /\ ~full)
        THEN g
        ELSE collapse(g, rb - 1, r0, IF full THEN nc + 1 ELSE nc)

-----------------------------------------------------------------------------
(* The game                                                                *)

MinOf(a, b) == IF a < b THEN a ELSE b
MaxOf(a, b) == IF a > b THEN a ELSE b

\* new_game
TetrisInit ==
    /\ field = [r \in 0 .. Rows - 1 |-> {}]
    /\ stone = mats.O
    /\ pos = <<0, 0>>
    /\ preview \in Stones
    /\ phase = "round"

\* next_round: the stone comes down from above the field, row by row; where it
\* collides first it stays and the game is over.
next_round ==
    LET s == mats[preview]
        column == (Columns - s.n) \div 2
        hits == {r \in -(s.n - 1) .. 0 : is_collision(field, <<r, column>>, s)}
    IN  /\ phase = "round"
        /\ preview' \in Stones
        /\ stone' = s
        /\ IF hits = {}
           THEN /\ pos' = <<0, column>>
                /\ phase' = "play"
                /\ UNCHANGED field
           ELSE LET r == CHOOSE r \in hits : \A q \in hits : r <= q
                IN  /\ pos' = <<r, column>>
                    /\ field' = or_assign(field, <<r, column>>, s)
                    /\ phase' = "over"

\* Move(-1) and Move(1)
MoveSide(d) ==
    /\ phase = "play"
    /\ ~is_collision(field, <<pos[1], pos[2] + d>>, stone)
    /\ pos' = <<pos[1], pos[2] + d>>
    /\ UNCHANGED <<field, stone, preview, phase>>

\* Move(0) as long as the stone falls
MoveDown ==
    /\ phase = "play"
    /\ ~is_collision(field, <<pos[1] + 1, pos[2]>>, stone)
    /\ pos' = <<pos[1] + 1, pos[2]>>
    /\ UNCHANGED <<field, stone, preview, phase>>

\* Move(0) of a stone that has come to lie: the rows it touches are looked at.
\* LockLow is the slip of leaving its first row out.
LockLow ==
    /\ phase = "play"
    /\ is_collision(field, <<pos[1] + 1, pos[2]>>, stone)
    /\ field' = collapse(or_assign(field, pos, stone),
                         MinOf(pos[1] + stone.n, Rows - 1), MaxOf(0, pos[1] + 1), 0)
    /\ phase' = "round"
    /\ UNCHANGED <<stone, pos, preview>>

Lock ==
    /\ phase = "play"
    /\ is_collision(field, <<pos[1] + 1, pos[2]>>, stone)
    /\ field' = collapse(or_assign(field, pos, stone),
                         MinOf(pos[1] + stone.n, Rows - 1), MaxOf(0, pos[1]), 0)
    /\ phase' = "round"
    /\ UNCHANGED <<stone, pos, preview>>

rotate ==
    /\ phase = "play"
    /\ ~is_collision(field, pos, rotate90_right(stone))
    /\ stone' = rotate90_right(stone)
    /\ UNCHANGED <<field, pos, preview, phase>>

TetrisNext ==
    \/ next_round
    \/ \E d \in {-1, 1} : MoveSide(d)
    \/ MoveDown \/ Lock \/ rotate

-----------------------------------------------------------------------------
(* Properties                                                              *)

\* Whatever moves and rotations are made near the walls and the stones that lie,
\* all four cells of the falling stone are inside the field, below its upper edge
\* once it plays, and free.
StoneFree ==
    phase = "play" =>
        \A x \in Cells(stone.n) :
            stone.m[x] =>
                /\ pos[1] + x[1] \in 0 .. Rows - 1
                /\ pos[2] + x[2] \in AllColumns
                /\ pos[2] + x[2] \notin field[pos[1] + x[1]]

\* The rows that are not full, in their order, at the bottom of the field.
Settled(f) ==
    LET kept == SelectSeq([i \in 1 .. Rows |-> f[i - 1]], LAMBDA row : row # AllColumns)
        free == Rows - Len(kept)
    IN  [r \in 0 .. Rows - 1 |-> IF r < free THEN {} ELSE kept[r + 1 - free]]

\* collapse moves rows one at a time through one array and looks only at those the
\* stone touches, several of which may be full with others between them: the
\* outcome is that all full rows are gone and nothing else has changed.
CollapsesRight ==
    [][phase = "play" /\ phase' = "round" =>
        field' = Settled(or_assign(field, pos, stone))]_tetrisVars

\* The swaps around the rings turn a stone of any size a quarter to the right.
TurnsRight ==
    [][stone'.n = stone.n /\ phase = "play" /\ stone' # stone =>
        \A x \in Cells(stone.n) :
            stone'.m[<<x[2], stone.n - 1 - x[1]>>] = stone.m[x]]_tetrisVars

\* The game is played by its rules: these three, of move, rotate and collapse.
GameRules == []StoneFree /\ CollapsesRight /\ TurnsRight
=============================================================================
