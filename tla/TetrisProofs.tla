----------------------------- MODULE TetrisProofs -----------------------------
(***************************************************************************)
(* Machine-checked proofs about Tetris, for every width, height, set of    *)
(* types and bound on the score: the falling piece always lies inside the  *)
(* grid on empty tiles, a game starts afresh, what is saved of a lost one  *)
(* is right, and clear_lines lets the lines fall down right.               *)
(***************************************************************************)
EXTENDS Tetris, FiniteSetTheorems, WellFoundedInduction, TLAPS

(* A piece lies where it is, which check_col says with no displacement.    *)
Fits(g, p) == ~check_col(g, p, 0, 0, 0)

(* The inductive invariant: outside of a game the piece is a fresh one, as *)
(* Return starts the next game with whatever piece is there.               *)
GameInv ==
  /\ state \in {"MENU", "PLAYING", "GAMEOVER", "OVERWRITTEN"}
  /\ cur \in Piece /\ next_type \in 0 .. 6
  /\ state = "MENU" => grid = EmptyGrid /\ score = 0
  /\ state # "PLAYING" => cur = Spawned(cur.type)
  /\ state = "PLAYING" => Fits(grid, cur)
  /\ state = "GAMEOVER" /\ ~unsaved => scores = <<final_name, score>>

-----------------------------------------------------------------------------
(* About pieces.                                                           *)

(* A shape has its tiles in a square of four by four.                      *)
LEMMA ShapeInSquare ==
  ASSUME NEW type \in 0 .. 6, NEW rot \in 0 .. 3
  PROVE  Shape(type, rot) \subseteq (0 .. 3) \X (0 .. 3)
<1>1. type \in {0, 1, 2, 3, 4, 5, 6} /\ rot \in {0, 1, 2, 3}
  OBVIOUS
<1>2. /\ Bar \subseteq (0 .. 3) \X (0 .. 3) /\ Lying \subseteq (0 .. 3) \X (0 .. 3)
      /\ Square \subseteq (0 .. 3) \X (0 .. 3)
  BY DEF Bar, Lying, Square
<1>3. /\ S1 \subseteq (0 .. 3) \X (0 .. 3) /\ S2 \subseteq (0 .. 3) \X (0 .. 3)
      /\ Z1 \subseteq (0 .. 3) \X (0 .. 3) /\ Z2 \subseteq (0 .. 3) \X (0 .. 3)
  BY DEF S1, S2, Z1, Z2
<1>4. /\ Row1 \subseteq (0 .. 3) \X (0 .. 3) /\ Col1 \subseteq (0 .. 3) \X (0 .. 3)
      /\ \A i, j \in 0 .. 3 : {<<i, j>>} \subseteq (0 .. 3) \X (0 .. 3)
  BY DEF Row1, Col1
<1>5. \A i, j \in 0 .. 3 : /\ Row1 \cup {<<i, j>>} \subseteq (0 .. 3) \X (0 .. 3)
                           /\ Col1 \cup {<<i, j>>} \subseteq (0 .. 3) \X (0 .. 3)
  BY <1>4
<1>6. CASE type = 0
  BY <1>1, <1>2, <1>6 DEF Shape, SHAPES
<1>7. CASE type = 1
  BY <1>1, <1>2, <1>7 DEF Shape, SHAPES
<1>8. CASE type = 2
  BY <1>1, <1>5, <1>8 DEF Shape, SHAPES
<1>9. CASE type = 3
  BY <1>1, <1>3, <1>9 DEF Shape, SHAPES
<1>10. CASE type = 4
  BY <1>1, <1>3, <1>10 DEF Shape, SHAPES
<1>11. CASE type = 5
  BY <1>1, <1>5, <1>11 DEF Shape, SHAPES
<1>12. CASE type = 6
  BY <1>1, <1>5, <1>12 DEF Shape, SHAPES
<1> QED
  BY <1>1, <1>6, <1>7, <1>8, <1>9, <1>10, <1>11, <1>12

(* A move makes a piece of a piece.                                        *)
LEMMA MovedPiece ==
  ASSUME NEW p \in Piece, NEW dx \in {-1, 0, 1}, NEW dy \in {0, 1}, NEW dr \in {0, 1}
  PROVE  Moved(p, dx, dy, dr) \in Piece
<1>1. p.x + dx \in Int /\ p.y + dy \in Nat
  BY DEF Piece
<1>2. (p.rot + dr) % 4 \in 0 .. 3
  BY DEF Piece
<1> QED
  BY <1>1, <1>2 DEF Piece, Moved

(* No displacement leaves a piece where it is.                             *)
LEMMA MovedNowhere ==
  ASSUME NEW p \in Piece
  PROVE  Moved(p, 0, 0, 0) = p
<1>1. p.x + 0 = p.x /\ p.y + 0 = p.y /\ (p.rot + 0) % 4 = p.rot
  BY DEF Piece
<1> QED
  BY <1>1 DEF Piece, Moved

(* A piece moved to where check_col finds room fits there.                 *)
LEMMA MovedFits ==
  ASSUME NEW g, NEW p \in Piece,
         NEW dx \in {-1, 0, 1}, NEW dy \in {0, 1}, NEW dr \in {0, 1},
         ~check_col(g, p, dx, dy, dr)
  PROVE  Moved(p, dx, dy, dr) \in Piece /\ Fits(g, Moved(p, dx, dy, dr))
<1> DEFINE q == Moved(p, dx, dy, dr)
<1>1. q \in Piece
  BY MovedPiece
<1>2. \A t \in Tiles(q) : Free(g, t)
  BY DEF check_col
<1> HIDE DEF q
<1>3. Moved(q, 0, 0, 0) = q
  BY <1>1, MovedNowhere
<1>4. Fits(g, q)
  BY <1>2, <1>3 DEF Fits, check_col
<1> QED
  BY <1>1, <1>4 DEF q

(* The piece that appears is a piece, and fits an empty grid.              *)
LEMMA SpawnedFits ==
  ASSUME NEW type \in 0 .. 6
  PROVE  /\ Spawned(type) \in Piece
         /\ Spawned(type) = Spawned(Spawned(type).type)
         /\ Fits(EmptyGrid, Spawned(type))
<1> DEFINE q == Spawned(type)
<1>1. q \in Piece /\ q.type = type /\ q.x = COLS \div 2 - 2 /\ q.y = 0 /\ q.rot = 0
  BY SizeAssumption DEF Spawned, Piece
<1>2. COLS \div 2 - 2 \in Int /\ COLS \div 2 - 2 >= 0 /\ COLS \div 2 - 2 + 3 <= COLS - 1
  BY SizeAssumption
<1> HIDE DEF q
<1>3. ASSUME NEW t \in Tiles(q) PROVE Free(EmptyGrid, t)
  <2>1. PICK s \in Shape(type, 0) : t = <<0 + s[1], COLS \div 2 - 2 + s[2]>>
    BY <1>1, <1>3 DEF Tiles
  <2>2. s[1] \in 0 .. 3 /\ s[2] \in 0 .. 3
    BY ShapeInSquare
  <2>3. t[1] \in Rows /\ t[2] \in Columns
    BY <1>2, <2>1, <2>2, SizeAssumption DEF Rows, Columns
  <2>4. t[1] < ROWS
    BY <2>3, SizeAssumption DEF Rows
  <2> QED
    BY <2>3, <2>4 DEF Free, EmptyGrid, EmptyRow
<1>4. Fits(EmptyGrid, q)
  BY <1>1, <1>3, MovedNowhere DEF Fits, check_col
<1> QED
  BY <1>1, <1>4 DEF q

(* The tiles of a piece that fits are free tiles of the grid.              *)
LEMMA FitsInside ==
  ASSUME NEW g, NEW p \in Piece, Fits(g, p), NEW t \in Tiles(p)
  PROVE  t[1] \in Rows /\ Free(g, t)
<1>1. Free(g, t)
  BY MovedNowhere DEF Fits, check_col
<1>2. PICK s \in Shape(p.type, p.rot) : t = <<p.y + s[1], p.x + s[2]>>
  BY DEF Tiles
<1>3. s[1] \in 0 .. 3
  BY ShapeInSquare DEF Piece
<1>4. t[1] \in Nat /\ t[1] < ROWS
  BY <1>1, <1>2, <1>3 DEF Free, Piece
<1> QED
  BY <1>1, <1>4, SizeAssumption DEF Rows

-----------------------------------------------------------------------------
(* The invariant.                                                          *)

(* The invariant holds when main enters its loop.                          *)
LEMMA GameInit == Init => GameInv
<1> SUFFICES ASSUME Init PROVE GameInv
  OBVIOUS
<1>1. PICK type \in Types : cur = Spawned(type)
  BY DEF Init
<1>2. type \in 0 .. 6 /\ next_type \in 0 .. 6
  BY TypesAssumption DEF Init
<1>3. cur \in Piece /\ cur = Spawned(cur.type)
  BY <1>1, <1>2, SpawnedFits
<1> QED
  BY <1>2, <1>3 DEF Init, GameInv

(* A key that moves the piece keeps the invariant.                         *)
LEMMA GameMoveKey ==
  ASSUME GameInv,
         NEW dx \in {-1, 0, 1}, NEW dy \in {0, 1}, NEW dr \in {0, 1},
         MoveKey(dx, dy, dr)
  PROVE  GameInv'
<1>1. cur' \in Piece /\ Fits(grid, cur')
  BY MovedFits DEF GameInv, MoveKey
<1> QED
  BY <1>1 DEF GameInv, MoveKey, Fits, check_col, Free

(* Every event keeps the invariant.                                        *)
LEMMA GameInput == ASSUME GameInv, handle_input PROVE GameInv'
<1>1. CASE Quit
  BY <1>1 DEF GameInv, Quit, Fits, check_col, Free, final_name
<1>2. CASE TextInput
  BY <1>2 DEF GameInv, TextInput, Fits, check_col, Free
<1>3. CASE Backspace
  BY <1>3 DEF GameInv, Backspace, Fits, check_col, Free
<1>4. CASE Return
  <2>1. cur.type \in 0 .. 6
    BY DEF GameInv, Piece
  <2>2. Fits(grid, cur)
    BY <1>4, <2>1, SpawnedFits DEF GameInv, Return
  <2> QED
    BY <1>4, <2>2 DEF GameInv, Return, Fits, check_col, Free
<1>5. CASE BackToMenu
  BY <1>5 DEF GameInv, BackToMenu
<1>6. CASE MoveKey(0, 0, 1)
  BY <1>6, GameMoveKey
<1>7. CASE MoveKey(-1, 0, 0)
  BY <1>7, GameMoveKey
<1>8. CASE MoveKey(1, 0, 0)
  BY <1>8, GameMoveKey
<1>9. CASE MoveKey(0, 1, 0)
  BY <1>9, GameMoveKey
<1> QED
  BY <1>1, <1>2, <1>3, <1>4, <1>5, <1>6, <1>7, <1>8, <1>9 DEF handle_input

(* Every turn of the game keeps the invariant.                             *)
LEMMA GameUpdate == ASSUME GameInv, update_game PROVE GameInv'
<1>1. CASE TooEarly
  BY <1>1 DEF GameInv, TooEarly, Fits, check_col, Free, final_name
<1>2. CASE Fall
  <2>1. cur' \in Piece /\ Fits(grid, cur')
    BY <1>2, MovedFits DEF GameInv, Fall
  <2> QED
    BY <1>2, <2>1 DEF GameInv, Fall, Fits, check_col, Free
<1>3. CASE Land
  <2>1. cur' = Spawned(next_type) /\ next_type' \in 0 .. 6
    BY <1>3, TypesAssumption DEF Land
  <2>2. cur' \in Piece /\ cur' = Spawned(cur'.type)
    BY <2>1, SpawnedFits DEF GameInv
  <2>3. /\ state = "PLAYING"
        /\ state' = IF check_col(grid', cur', 0, 0, 0) THEN "GAMEOVER" ELSE state
        /\ state' = "GAMEOVER" => save_score(score')
        /\ player_name' = player_name
    BY <1>3 DEF Land
  <2>4. (state' = "PLAYING" => ~check_col(grid', cur', 0, 0, 0)) /\ state' # "MENU"
    BY <2>3
  <2>5. state' = "PLAYING" => Fits(grid, cur)'
    BY <2>4 DEF Fits, check_col, Free
  <2>6. state' = "GAMEOVER" /\ ~unsaved' => (scores = <<final_name, score>>)'
    BY <2>3 DEF final_name, save_score
  <2> QED
    BY <2>1, <2>2, <2>3, <2>5, <2>6 DEF GameInv
<1> QED
  BY <1>1, <1>2, <1>3 DEF update_game

(* The invariant is inductive.                                             *)
LEMMA GameStep == GameInv /\ [Next]_vars => GameInv'
<1> SUFFICES ASSUME GameInv, [Next]_vars PROVE GameInv'
  OBVIOUS
<1>1. CASE handle_input
  BY <1>1, GameInput
<1>2. CASE NoMoreEvents
  BY <1>2 DEF GameInv, NoMoreEvents, Fits, check_col, Free, final_name
<1>3. CASE update_game
  BY <1>3, GameUpdate
<1>4. CASE UNCHANGED vars
  BY <1>4 DEF GameInv, vars, Fits, check_col, Free, final_name
<1> QED
  BY <1>1, <1>2, <1>3, <1>4 DEF Next

(* What the invariant implies.                                             *)
LEMMA GameImplies == GameInv => PieceFits /\ FreshGame /\ ShownScoreIsSaved
<1> SUFFICES ASSUME GameInv PROVE PieceFits /\ FreshGame /\ ShownScoreIsSaved
  OBVIOUS
<1>1. PieceFits
  BY FitsInside DEF GameInv, PieceFits
<1>2. FreshGame
  <2>1. cur.type \in 0 .. 6
    BY DEF GameInv, Piece
  <2> QED
    BY <2>1, SpawnedFits DEF GameInv, FreshGame, Fits
<1>3. ShownScoreIsSaved
  BY DEF GameInv, ShownScoreIsSaved, final_name
<1> QED
  BY <1>1, <1>2, <1>3

(* handle_input and update_game never move the falling piece off the grid  *)
(* or onto a tile that is taken, on a grid of any size, so that the writes *)
(* of a landing stay inside the array.                                     *)
THEOREM PieceAlwaysFits == Spec => []PieceFits
  BY GameInit, GameStep, GameImplies, PTL DEF Spec

(* Whatever happened in the games before, the menu offers an empty grid, a *)
(* score of zero and a piece that fits.                                    *)
THEOREM GameStartsAfresh == Spec => []FreshGame
  BY GameInit, GameStep, GameImplies, PTL DEF Spec

(* The line saved of a lost game has the score that its screen shows and   *)
(* the name that was entered, unless scores.txt could not be written or the *)
(* name fills its array (save_score), for any texts and sizes.             *)
THEOREM ScoreIsSaved == Spec => []ShownScoreIsSaved
  BY GameInit, GameStep, GameImplies, PTL DEF Spec

-----------------------------------------------------------------------------
(* clear_lines.  Its turns are followed one by one: the least number of a  *)
(* set of naturals, which well-foundedness gives, carries the induction.   *)

Smaller == OpToRel(<, Nat)

LEMMA Counting ==
  ASSUME NEW P, 0 \in P, \A n \in Nat : n \in P => n + 1 \in P
  PROVE  Nat \subseteq P
<1> SUFFICES ASSUME Nat \ P # {} PROVE FALSE
  OBVIOUS
<1>1. \A y, x \in Nat : <<y, x>> \in Smaller <=> y < x
  BY DEF OpToRel, Smaller
<1>2. IsWellFoundedOn(Smaller, Nat)
  BY NatLessThanWellFounded DEF Smaller
<1>3. PICK m \in Nat \ P : \A n \in Nat \ P : ~(<<n, m>> \in Smaller)
  BY <1>2, WFMin
<1>4. m # 0 /\ m - 1 \in Nat /\ m - 1 < m
  BY <1>3
<1>4a. m - 1 \in P
  <2>1. <<m - 1, m>> \in Smaller
    BY <1>1, <1>3, <1>4
  <2> QED
    BY <1>3, <1>4, <2>1
<1>5. (m - 1) + 1 \in P
  BY <1>4, <1>4a
<1> QED
  BY <1>3, <1>5

Start(g, s) == [grid |-> g, score |-> s, i |-> ROWS - 1]
Follows(f, g, s, n) ==
  f = [turn \in 0 .. n |-> IF turn = 0 THEN Start(g, s) ELSE ClearTurn(f[turn - 1])]

(* The turns can be made, one after the other.                             *)
LEMMA TurnsExist ==
  ASSUME NEW g, NEW s, NEW n \in Nat
  PROVE  \E f : Follows(f, g, s, n)
<1> DEFINE P == {m \in Nat : \E f : Follows(f, g, s, m)}
<1>1. 0 \in P
  <2> DEFINE d == [turn \in 0 .. 0 |-> Start(g, s)]
  <2>1. d = [turn \in 0 .. 0 |-> IF turn = 0 THEN Start(g, s) ELSE ClearTurn(d[turn - 1])]
    OBVIOUS
  <2> HIDE DEF d
  <2>2. Follows(d, g, s, 0)
    BY <2>1 DEF Follows
  <2> QED
    BY <2>2
<1>2. ASSUME NEW m \in Nat, m \in P PROVE m + 1 \in P
  <2>1. PICK f : Follows(f, g, s, m)
    BY <1>2
  <2> DEFINE d == [turn \in 0 .. m + 1 |-> IF turn = 0 THEN Start(g, s)
                                           ELSE ClearTurn(f[turn - 1])]
  <2>2. \A turn \in 0 .. m : f[turn] = IF turn = 0 THEN Start(g, s)
                                       ELSE ClearTurn(f[turn - 1])
    BY <2>1 DEF Follows
  <2>3. \A turn \in 0 .. m : turn \in 0 .. m + 1 /\ d[turn] = f[turn]
    BY <2>2
  <2>4. \A turn \in 0 .. m + 1 : turn # 0 => turn - 1 \in 0 .. m /\ d[turn - 1] = f[turn - 1]
    <3>1. \A turn \in 0 .. m + 1 : turn # 0 => turn - 1 \in 0 .. m
      OBVIOUS
    <3> HIDE DEF d
    <3> QED
      BY <2>3, <3>1
  <2>5. d = [turn \in 0 .. m + 1 |-> IF turn = 0 THEN Start(g, s)
                                     ELSE ClearTurn(d[turn - 1])]
    BY <2>4
  <2> HIDE DEF d
  <2>6. Follows(d, g, s, m + 1)
    BY <2>5 DEF Follows
  <2> QED
    BY <2>6
<1>3. Nat \subseteq P
  <2> HIDE DEF P
  <2> QED
    BY <1>1, <1>2, Counting
<1> QED
  BY <1>3

LEMMA ClearLinesIs ==
  ASSUME NEW g, NEW s
  PROVE  \E f : Follows(f, g, s, 2 * ROWS) /\ clear_lines(g, s) = f[2 * ROWS]
<1> DEFINE f == CHOOSE after : after =
                  [turn \in 0 .. 2 * ROWS |->
                     IF turn = 0 THEN [grid |-> g, score |-> s, i |-> ROWS - 1]
                                 ELSE ClearTurn(after[turn - 1])]
<1>1. clear_lines(g, s) = f[2 * ROWS]
  BY DEF clear_lines
<1>2. Follows(f, g, s, 2 * ROWS)
  <2>1. 2 * ROWS \in Nat
    BY SizeAssumption
  <2>2. PICK d : Follows(d, g, s, 2 * ROWS)
    BY <2>1, TurnsExist
  <2> QED
    BY <2>2 DEF Follows, Start
<1> QED
  BY <1>1, <1>2

(* After some turns, n lines are gone and the row looked at is row i - n   *)
(* of the grid before: above it nothing has changed but that n empty rows  *)
(* came in on top, and below it every row that was not full has fallen by  *)
(* as many rows as were full below it.                                     *)
Done(g, q) == {r \in FullRows(g) : r > q}
Fell(g, h, i, q) == /\ q + Cardinality(FullBelow(g, q)) \in i + 1 .. ROWS - 1
                    /\ h[q + Cardinality(FullBelow(g, q))] = g[q]
Turned(a, g, s, n) ==
  /\ a = [grid |-> a.grid, score |-> a.score, i |-> a.i]
  /\ a.i \in -1 .. ROWS - 1 /\ n \in Nat
  /\ a.score = s + 100 * n
  /\ n = Cardinality(Done(g, a.i - n))
  /\ \A r \in Rows : r < n => a.grid[r] = EmptyRow
  /\ \A r \in n .. a.i : a.grid[r] = g[r - n]
  /\ \A q \in Rows \ FullRows(g) : q > a.i - n => Fell(g, a.grid, a.i, q)

LEMMA FullFinite ==
  ASSUME NEW g, NEW q \in Int
  PROVE  /\ IsFiniteSet(Done(g, q)) /\ Cardinality(Done(g, q)) \in 0 .. ROWS
         /\ FullBelow(g, q) = Done(g, q)
<1>1. IsFiniteSet(Rows) /\ Cardinality(Rows) = ROWS
  BY SizeAssumption, FS_Interval DEF Rows
<1>2. Done(g, q) \in SUBSET Rows
  BY DEF Done, FullRows
<1>3. /\ IsFiniteSet(Done(g, q)) /\ Cardinality(Done(g, q)) \in Nat
      /\ Cardinality(Done(g, q)) <= ROWS
  BY <1>1, <1>2, FS_Subset, FS_CardinalityType
<1> QED
  BY <1>3, SizeAssumption DEF FullBelow, Done

LEMMA EmptyNotFull == ~Full(EmptyRow)
<1>1. 0 \in Columns
  BY SizeAssumption DEF Columns
<1> QED
  BY <1>1 DEF Full, EmptyRow

(* One row further down, the full rows below are the same or one more.     *)
LEMMA DoneAbove ==
  ASSUME NEW g, NEW q \in Int
  PROVE  /\ q \in FullRows(g) => /\ Done(g, q - 1) = Done(g, q) \cup {q}
                                 /\ q \notin Done(g, q)
         /\ q \notin FullRows(g) => Done(g, q - 1) = Done(g, q)
<1>1. \A r \in FullRows(g) : r \in Int
  BY SizeAssumption DEF FullRows, Rows
<1>2. \A r \in Int : r > q - 1 <=> r > q \/ r = q
  OBVIOUS
<1>3. ~(q > q)
  OBVIOUS
<1> QED
  BY <1>1, <1>2, <1>3 DEF Done

LEMMA TurnKeeps ==
  ASSUME NEW a, NEW g, NEW s \in Int, NEW n, Turned(a, g, s, n), a.i >= 0
  PROVE  \/ ClearTurn(a).i = a.i - 1 /\ Turned(ClearTurn(a), g, s, n)
         \/ ClearTurn(a).i = a.i /\ Turned(ClearTurn(a), g, s, n + 1)
<1> DEFINE i == a.i
           h == a.grid
           b == ClearTurn(a)
           o == i - n
<1>1. /\ i \in Rows /\ i \in Int /\ n \in Nat /\ o \in Int
      /\ Rows = 0 .. ROWS - 1 /\ ROWS \in Nat
  BY SizeAssumption DEF Turned, Rows
<1>2. n >= 0 /\ i < n => h[i] = EmptyRow
  BY <1>1 DEF Turned
<1>3. i >= n => h[i] = g[o] /\ o \in Rows
  BY <1>1 DEF Turned
<1>4. Full(h[i]) <=> o \in FullRows(g)
  <2>1. CASE i < n
    <3>1. ~Full(h[i])
      BY <1>1, <1>2, <2>1, EmptyNotFull
    <3>2. o \notin Rows
      BY <1>1, <2>1
    <3> QED
      BY <3>1, <3>2 DEF FullRows
  <2>2. CASE i >= n
    BY <1>3, <2>2 DEF FullRows
  <2> QED
    BY <1>1, <2>1, <2>2
<1>5. CASE ~Full(h[i])
  <2>0. ~(a.i < 0)
    BY <1>1
  <2>1. b = [a EXCEPT !.i = i - 1]
    BY <1>5, <2>0 DEF ClearTurn
  <2>2. b.grid = h /\ b.score = a.score /\ b.i = i - 1
        /\ b = [grid |-> b.grid, score |-> b.score, i |-> b.i]
    BY <2>1 DEF Turned
  <2> HIDE DEF b
  <2>3. Done(g, o - 1) = Done(g, o) /\ o - 1 = b.i - n /\ o \notin FullRows(g)
    BY <1>1, <1>4, <1>5, <2>2, DoneAbove
  <2>4. n = Cardinality(Done(g, o))
    BY DEF Turned
  <2>5. ASSUME NEW q \in Rows \ FullRows(g), q > b.i - n PROVE Fell(g, h, b.i, q)
    <3>1. q \in Int /\ (q > o \/ q = o)
      BY <1>1, <2>2, <2>5
    <3>2. CASE q > o
      <4>1. Fell(g, h, i, q)
        BY <3>2 DEF Turned
      <4>2. Cardinality(FullBelow(g, q)) \in Int
        BY <3>1, FullFinite
      <4> QED
        BY <1>1, <2>2, <3>1, <4>1, <4>2 DEF Fell
    <3>3. CASE q = o
      <4>1. Cardinality(FullBelow(g, q)) = n
        BY <1>1, <2>4, <3>3, FullFinite
      <4>2. q + n = i /\ i >= n
        BY <1>1, <2>5, <3>3
      <4>3. h[i] = g[q]
        BY <1>3, <3>3, <4>2
      <4> QED
        BY <1>1, <2>2, <4>1, <4>2, <4>3 DEF Fell
    <3> QED
      BY <3>1, <3>2, <3>3
  <2>6. /\ \A r \in Rows : r < n => b.grid[r] = EmptyRow
        /\ \A r \in n .. b.i : b.grid[r] = g[r - n]
    <3>1. \A r \in n .. i - 1 : r \in n .. i
      BY <1>1
    <3> QED
      BY <2>2, <3>1 DEF Turned
  <2>7. b.i \in -1 .. ROWS - 1 /\ b.score = s + 100 * n
    BY <1>1, <2>2 DEF Turned
  <2>8. n = Cardinality(Done(g, b.i - n))
    BY <2>3, <2>4
  <2>9. Turned(b, g, s, n)
    BY <1>1, <2>2, <2>5, <2>6, <2>7, <2>8 DEF Turned
  <2> QED
    BY <2>2, <2>9 DEF b
<1>6. CASE Full(h[i])
  <2> DEFINE k == [r \in Rows |-> IF r = 0 THEN EmptyRow
                                  ELSE IF r <= i THEN h[r - 1] ELSE h[r]]
  <2>1. b = [a EXCEPT !.score = @ + 100, !.grid = k]
    BY <1>1, <1>6 DEF ClearTurn
  <2>2. b.grid = k /\ b.score = a.score + 100 /\ b.i = i
        /\ b = [grid |-> b.grid, score |-> b.score, i |-> b.i]
    <3>1. a = [grid |-> h, score |-> a.score, i |-> i]
      BY DEF Turned
    <3> DEFINE c == [a EXCEPT !.score = @ + 100]
    <3>2. c = [grid |-> h, score |-> a.score + 100, i |-> i]
      <4> HIDE DEF h, i
      <4> QED
        BY <3>1
    <3>3. b = [c EXCEPT !.grid = k]
      BY <2>1
    <3> HIDE DEF h, i, k, b, c
    <3>4. b = [grid |-> k, score |-> a.score + 100, i |-> i]
      BY <3>2, <3>3
    <3> QED
      BY <3>4
  <2>3. o \in FullRows(g) /\ i >= n
    BY <1>1, <1>4, <1>6, <1>2, EmptyNotFull
  <2>4. n = Cardinality(Done(g, o))
    BY DEF Turned
  <2>5. n + 1 = Cardinality(Done(g, o - 1)) /\ o - 1 = i - (n + 1)
    <3>1. Done(g, o - 1) = Done(g, o) \cup {o} /\ o \notin Done(g, o)
      BY <1>1, <2>3, DoneAbove
    <3>2. IsFiniteSet(Done(g, o))
      BY <1>1, FullFinite
    <3>3. Cardinality(Done(g, o) \cup {o}) = n + 1
      BY <2>4, <3>1, <3>2, FS_AddElement
    <3>4. o - 1 = i - (n + 1)
      BY <1>1
    <3> HIDE DEF o, i
    <3> QED
      BY <3>1, <3>3, <3>4
  <2> HIDE DEF b, o
  <2>6. ASSUME NEW r \in Rows, r < n + 1 PROVE k[r] = EmptyRow
    <3>1. r \in Int /\ r <= i
      BY <1>1, <2>3, <2>6
    <3>2. CASE r = 0
      BY <3>2
    <3>3. CASE r # 0
      <4>1. k[r] = h[r - 1]
        BY <3>1, <3>3
      <4>2. r - 1 \in Rows /\ r - 1 < n
        BY <1>1, <2>6, <3>3
      <4> QED
        BY <4>1, <4>2 DEF Turned
    <3> QED
      BY <3>2, <3>3
  <2>7. ASSUME NEW r \in n + 1 .. i PROVE k[r] = g[r - (n + 1)]
    <3>1. r \in Rows /\ r # 0 /\ r <= i /\ r - 1 \in n .. i /\ (r - 1) - n = r - (n + 1)
      BY <1>1, <2>7
    <3>2. k[r] = h[r - 1]
      BY <3>1
    <3>3. h[r - 1] = g[(r - 1) - n]
      BY <3>1 DEF Turned
    <3> QED
      BY <3>1, <3>2, <3>3
  <2>8. ASSUME NEW q \in Rows \ FullRows(g), q > i - (n + 1) PROVE Fell(g, k, i, q)
    <3>1. q \in Int /\ q > o
      <4>1. q # o
        BY <2>3, <2>8
      <4> QED
        BY <1>1, <2>8, <4>1 DEF o
    <3>2. Fell(g, h, i, q)
      BY <3>1 DEF Turned, o
    <3> DEFINE p == q + Cardinality(FullBelow(g, q))
    <3>3. p \in i + 1 .. ROWS - 1 /\ h[p] = g[q]
      BY <3>2 DEF Fell
    <3> HIDE DEF p
    <3>4. p \in Rows /\ p # 0 /\ ~(p <= i)
      BY <1>1, <3>3
    <3>5. k[p] = h[p]
      BY <3>4
    <3> QED
      BY <3>3, <3>5 DEF Fell, p
  <2>9. b.score = s + 100 * (n + 1) /\ n + 1 \in Nat /\ b.i \in -1 .. ROWS - 1
    BY <1>1, <2>2 DEF Turned
  <2> HIDE DEF k
  <2>10. Turned(b, g, s, n + 1)
    BY <2>2, <2>5, <2>6, <2>7, <2>8, <2>9 DEF Turned
  <2> QED
    BY <2>2, <2>10 DEF b
<1> QED
  BY <1>5, <1>6

(* The loop ends at the top row, within as many turns as the model makes.  *)
LEMMA ClearLinesEnds ==
  ASSUME NEW g, NEW s \in Int
  PROVE  \E n : Turned(clear_lines(g, s), g, s, n) /\ clear_lines(g, s).i = -1
<1>1. PICK f : Follows(f, g, s, 2 * ROWS) /\ clear_lines(g, s) = f[2 * ROWS]
  BY ClearLinesIs
<1>2. ROWS \in Nat /\ 2 * ROWS \in Nat
  BY SizeAssumption
<1> DEFINE Good(t) == \E n : /\ Turned(f[t], g, s, n)
                             /\ f[t].i = -1 \/ (ROWS - 1 - f[t].i) + n = t
           P == {t \in Nat : t <= 2 * ROWS => Good(t)}
<1>3. Good(0)
  <2>1. f[0] = Start(g, s)
    BY <1>1, <1>2 DEF Follows
  <2>2. /\ Start(g, s).grid = g /\ Start(g, s).score = s /\ Start(g, s).i = ROWS - 1
        /\ Start(g, s) = [grid |-> Start(g, s).grid, score |-> Start(g, s).score,
                          i |-> Start(g, s).i]
    BY DEF Start
  <2>3. Done(g, ROWS - 1 - 0) = {}
    <3>1. \A r \in Rows : ~(r > ROWS - 1 - 0)
      BY <1>2 DEF Rows
    <3> QED
      BY <3>1 DEF Done, FullRows
  <2>4. \A r \in Rows : ~(r < 0) /\ ~(r > ROWS - 1 - 0)
    BY <1>2 DEF Rows
  <2>5. Turned(Start(g, s), g, s, 0)
    <3>1. s = s + 100 * 0 /\ ROWS - 1 \in -1 .. ROWS - 1
      BY <1>2
    <3>2. \A r \in 0 .. ROWS - 1 : r - 0 = r
      BY <1>2
    <3>3. 0 = Cardinality(Done(g, ROWS - 1 - 0))
      BY <2>3, FS_EmptySet
    <3> HIDE DEF Good
    <3> QED
      BY <2>2, <2>4, <3>1, <3>2, <3>3 DEF Turned
  <2>6. (ROWS - 1 - Start(g, s).i) + 0 = 0
    BY <1>2, <2>2
  <2> QED
    BY <2>1, <2>5, <2>6
<1>4. ASSUME NEW t \in Nat, t \in P PROVE t + 1 \in P
  <2> SUFFICES ASSUME t + 1 <= 2 * ROWS PROVE Good(t + 1)
    OBVIOUS
  <2>1. PICK n : /\ Turned(f[t], g, s, n)
                 /\ f[t].i = -1 \/ (ROWS - 1 - f[t].i) + n = t
    <3>1. t <= 2 * ROWS
      BY <1>2
    <3> QED
      BY <1>4, <3>1
  <2> DEFINE a == f[t]
  <2>2. f[t + 1] = ClearTurn(a)
    <3>1. t + 1 \in 0 .. 2 * ROWS /\ t + 1 # 0 /\ (t + 1) - 1 = t
      BY <1>2
    <3> QED
      BY <1>1, <3>1 DEF Follows
  <2>3. a.i \in -1 .. ROWS - 1 /\ n \in Nat
    BY <2>1 DEF Turned
  <2> HIDE DEF a
  <2>4. CASE a.i = -1
    <3>1. ClearTurn(a) = a
      BY <2>4 DEF ClearTurn
    <3> QED
      BY <2>1, <2>2, <2>4, <3>1 DEF a
  <2>5. CASE a.i >= 0
    <3>1. \/ ClearTurn(a).i = a.i - 1 /\ Turned(ClearTurn(a), g, s, n)
          \/ ClearTurn(a).i = a.i /\ Turned(ClearTurn(a), g, s, n + 1)
      BY <2>1, <2>5, TurnKeeps DEF a
    <3>2. (ROWS - 1 - a.i) + n = t
      BY <2>1, <2>5 DEF a
    <3>3. CASE ClearTurn(a).i = a.i - 1 /\ Turned(ClearTurn(a), g, s, n)
      <4>1. (ROWS - 1 - (a.i - 1)) + n = t + 1
        BY <1>2, <2>3, <3>2
      <4> QED
        BY <2>2, <3>3, <4>1
    <3>4. CASE ClearTurn(a).i = a.i /\ Turned(ClearTurn(a), g, s, n + 1)
      <4>1. (ROWS - 1 - a.i) + (n + 1) = t + 1
        BY <1>2, <2>3, <3>2
      <4> QED
        BY <2>2, <3>4, <4>1
    <3> QED
      BY <3>1, <3>3, <3>4
  <2> QED
    BY <1>2, <2>3, <2>4, <2>5
<1>5. Good(2 * ROWS)
  <2>1. 0 \in P
    <3> HIDE DEF Good
    <3> QED
      BY <1>3
  <2>2. Nat \subseteq P
    <3> HIDE DEF P
    <3> QED
      BY <1>4, <2>1, Counting
  <2> HIDE DEF Good
  <2> QED
    BY <1>2, <2>2
<1>6. PICK n : /\ Turned(f[2 * ROWS], g, s, n)
               /\ \/ f[2 * ROWS].i = -1
                  \/ (ROWS - 1 - f[2 * ROWS].i) + n = 2 * ROWS
  BY <1>5
<1>7. f[2 * ROWS].i = -1
  <2> DEFINE i == f[2 * ROWS].i
  <2>1. i \in -1 .. ROWS - 1 /\ n \in Nat /\ n = Cardinality(Done(g, i - n))
    BY <1>6 DEF Turned
  <2> HIDE DEF i
  <2>2. n <= ROWS
    <3>1. i - n \in Int
      BY <2>1
    <3> QED
      BY <1>2, <2>1, <3>1, FullFinite
  <2>3. i = -1 \/ (ROWS - 1 - i) + n = 2 * ROWS
    BY <1>6 DEF i
  <2>4. i = -1
    BY <1>2, <2>1, <2>2, <2>3
  <2> QED
    BY <2>4 DEF i
<1> QED
  BY <1>1, <1>6, <1>7

(* What clear_lines leaves.                                                *)
LEMMA ClearLinesRight ==
  ASSUME NEW g, NEW s \in Int
  PROVE  LET gone == Cardinality(FullRows(g))
             done == clear_lines(g, s)
         IN  /\ done.score = s + 100 * gone
             /\ \A r \in Rows : r < gone => done.grid[r] = EmptyRow
             /\ \A q \in Rows \ FullRows(g) :
                  done.grid[q + Cardinality(FullBelow(g, q))] = g[q]
<1>1. PICK n : Turned(clear_lines(g, s), g, s, n) /\ clear_lines(g, s).i = -1
  BY ClearLinesEnds
<1>2. n \in Nat /\ \A r \in Rows : r \in Nat
  BY <1>1, SizeAssumption DEF Turned, Rows
<1>3. \A r \in Rows : r > -1 - n
  BY <1>2
<1>4. Done(g, -1 - n) = FullRows(g)
  BY <1>3 DEF Done, FullRows
<1>5. n = Cardinality(FullRows(g))
  BY <1>1, <1>4 DEF Turned
<1>6. /\ clear_lines(g, s).score = s + 100 * n
      /\ \A r \in Rows : r < n => clear_lines(g, s).grid[r] = EmptyRow
      /\ \A q \in Rows \ FullRows(g) : Fell(g, clear_lines(g, s).grid, -1, q)
  BY <1>1, <1>3 DEF Turned
<1> QED
  BY <1>5, <1>6 DEF Fell

(* The score is a number.                                                  *)
ScoreInv == score \in Int

LEMMA ScoreInit == Init => ScoreInv
  BY DEF Init, ScoreInv

LEMMA ScoreStep == ScoreInv /\ [Next]_vars => ScoreInv'
<1> SUFFICES ASSUME score \in Int, [Next]_vars PROVE score' \in Int
  BY DEF ScoreInv
<1>1. CASE Land
  <2> DEFINE g == Placed(grid, cur)
  <2>1. score' = clear_lines(g, score).score
    BY <1>1 DEF Land
  <2>2. score' = score + 100 * Cardinality(FullRows(g))
    BY <2>1, ClearLinesRight
  <2>3. Cardinality(FullRows(g)) \in Int
    <3>1. FullRows(g) = Done(g, -1)
      BY SizeAssumption DEF FullRows, Done, Rows
    <3> QED
      BY <3>1, FullFinite
  <2> QED
    BY <2>2, <2>3
<1>2. CASE handle_input
  BY <1>2 DEF handle_input, Quit, TextInput, Backspace, Return, BackToMenu, MoveKey
<1>3. CASE NoMoreEvents \/ TooEarly \/ Fall \/ UNCHANGED vars
  BY <1>3 DEF NoMoreEvents, TooEarly, Fall, vars
<1> QED
  BY <1>1, <1>2, <1>3 DEF Next, update_game

(* Whatever the landing piece fills, on a grid of any size and for any     *)
(* number of full rows, above one another or apart, clear_lines takes them *)
(* out, lets the others fall by as many rows as went below them, fills up  *)
(* with empty rows and counts 100 for each.                                *)
THEOREM LinesFallDownRight == Spec => LinesFallDown
<1>1. ASSUME score \in Int, [Next]_vars, phase = "update", grid' # grid \/ score' # score
      PROVE  FallsDown
  <2>1. Land
    <3>1. ~handle_input
      BY <1>1 DEF handle_input, Quit, TextInput, Backspace, Return, BackToMenu, MoveKey
    <3>2. ~NoMoreEvents /\ ~TooEarly /\ ~Fall /\ ~UNCHANGED vars
      BY <1>1 DEF NoMoreEvents, TooEarly, Fall, vars
    <3> QED
      BY <1>1, <3>1, <3>2 DEF Next, update_game
  <2>2. /\ grid' = clear_lines(Placed(grid, cur), score).grid
        /\ score' = clear_lines(Placed(grid, cur), score).score
    BY <2>1 DEF Land
  <2> QED
    BY <1>1, <2>2, ClearLinesRight DEF FallsDown
<1>2. ScoreInv /\ [Next]_vars
        => [phase = "update" /\ (grid' # grid \/ score' # score) => FallsDown]_vars
  BY <1>1 DEF ScoreInv
<1> QED
  BY <1>2, ScoreInit, ScoreStep, PTL DEF Spec, LinesFallDown
===============================================================================
