-------------------------------- MODULE Tetris --------------------------------
(***************************************************************************)
(* The game of src/DZ_35_Game/tetris.c: the loop of main, handle_input,    *)
(* update_game, check_col, clear_lines and save_score.  A row of grid is a *)
(* function of the column; 0 is an empty tile.  Time is left open: whenever *)
(* update_game runs, the 500 ms may have passed or not.                    *)
(***************************************************************************)
EXTENDS Integers, Sequences, FiniteSets, SequencesExt

CONSTANTS
  COLS, ROWS,
  Types,        \* bound: the types of piece that rand() % 7 gives
  Letters,      \* bound: the bytes that a text has
  TextSizes,    \* bound: how many of them an SDL_TEXTINPUT brings
  MAX_NAME,
  MaxScore      \* bound: a game that has this score is not followed further

ASSUME SizeAssumption ==
  COLS \in Nat /\ ROWS \in Nat /\ COLS >= 4 /\ ROWS >= 4
ASSUME TypesAssumption == Types \subseteq 0 .. 6 /\ Types # {}

VARIABLES
  grid, score, player_name, state,
  cur,          \* the falling piece
  next_type,
  scores,       \* the last line of scores.txt, << >> when there is none
  unsaved,      \* history: that of the last lost game could not be written
  quit,
  phase         \* "events", "update", or "over" when main has left its loop

vars == <<grid, score, player_name, state, cur, next_type, scores, unsaved, quit, phase>>

(* SHAPES[type + 1][rot + 1] is the set of the <<row, column>> that are 1. *)
Bar    == {<<0,1>>, <<1,1>>, <<2,1>>, <<3,1>>}
Lying  == {<<1,0>>, <<1,1>>, <<1,2>>, <<1,3>>}
Square == {<<0,0>>, <<0,1>>, <<1,0>>, <<1,1>>}
S1 == {<<0,1>>, <<0,2>>, <<1,0>>, <<1,1>>}
S2 == {<<0,1>>, <<1,1>>, <<1,2>>, <<2,2>>}
Z1 == {<<0,0>>, <<0,1>>, <<1,1>>, <<1,2>>}
Z2 == {<<0,2>>, <<1,1>>, <<1,2>>, <<2,1>>}
Row1   == {<<1,0>>, <<1,1>>, <<1,2>>}
Col1   == {<<0,1>>, <<1,1>>, <<2,1>>}
SHAPES ==
  << <<Bar, Lying, Bar, Lying>>,
     <<Square, Square, Square, Square>>,
     <<Row1 \cup {<<0,1>>}, Col1 \cup {<<1,2>>}, Row1 \cup {<<2,1>>}, Col1 \cup {<<1,0>>}>>,
     <<S1, S2, S1, S2>>,
     <<Z1, Z2, Z1, Z2>>,
     <<Row1 \cup {<<0,0>>}, Col1 \cup {<<0,2>>}, Row1 \cup {<<2,2>>}, Col1 \cup {<<2,0>>}>>,
     <<Row1 \cup {<<0,2>>}, Col1 \cup {<<2,2>>}, Row1 \cup {<<2,0>>}, Col1 \cup {<<0,0>>}>> >>

Shape(type, rot) == SHAPES[type + 1][rot + 1]
Rows    == 0 .. ROWS - 1
Columns == 0 .. COLS - 1
Piece   == [x : Int, y : Nat, type : 0 .. 6, rot : 0 .. 3]
Spawned(type) == [x |-> COLS \div 2 - 2, y |-> 0, type |-> type, rot |-> 0]
EmptyRow  == [c \in Columns |-> 0]
EmptyGrid == [r \in Rows |-> EmptyRow]

(* The tiles of a piece, as <<row, column>> of the grid.                   *)
Tiles(p) == {<<p.y + t[1], p.x + t[2]>> : t \in Shape(p.type, p.rot)}
Free(g, t) == t[2] \in Columns /\ t[1] < ROWS /\ (t[1] >= 0 => g[t[1]][t[2]] = 0)

Moved(p, dx, dy, dr) ==
  [p EXCEPT !.x = @ + dx, !.y = @ + dy, !.rot = (@ + dr) % 4]
check_col(g, p, dx, dy, dr) == \E t \in Tiles(Moved(p, dx, dy, dr)) : ~Free(g, t)

Full(row) == \A c \in Columns : row[c] # 0

(* Mutant: the top row is copied but not emptied.                          *)
ClearTurn_KeepsTop(a) ==
  IF a.i < 0 THEN a
  ELSE IF ~Full(a.grid[a.i]) THEN [a EXCEPT !.i = @ - 1]
  ELSE [a EXCEPT !.score = @ + 100,
                 !.grid = [r \in Rows |-> IF r = 0 THEN a.grid[0]
                                          ELSE IF r <= a.i THEN a.grid[r - 1] ELSE a.grid[r]]]

(* One turn of the outer loop of clear_lines, at row a.i: a full row makes *)
(* way for the rows above it and is looked at again.                       *)
ClearTurn(a) ==
  IF a.i < 0 THEN a
  ELSE IF ~Full(a.grid[a.i]) THEN [a EXCEPT !.i = @ - 1]
  ELSE [a EXCEPT !.score = @ + 100,
                 !.grid = [r \in Rows |-> IF r = 0 THEN EmptyRow
                                          ELSE IF r <= a.i THEN a.grid[r - 1] ELSE a.grid[r]]]

(* Every row is looked at once, and once more for each full one.           *)
clear_lines(g, s) ==
  LET after[turn \in 0 .. 2 * ROWS] ==
        IF turn = 0 THEN [grid |-> g, score |-> s, i |-> ROWS - 1]
                    ELSE ClearTurn(after[turn - 1])
  IN  after[2 * ROWS]

Init ==
  /\ grid = EmptyGrid /\ score = 0 /\ player_name = << >> /\ state = "MENU"
  /\ cur \in {Spawned(t) : t \in Types}
  /\ next_type \in Types
  /\ scores = << >> /\ unsaved = FALSE /\ quit = FALSE /\ phase = "events"

-----------------------------------------------------------------------------
(* handle_input, for each kind of event.                                   *)

Quit ==                                                     \* SDL_QUIT
  /\ phase = "events"
  /\ quit' = TRUE
  /\ UNCHANGED <<grid, score, player_name, state, cur, next_type, scores, unsaved, phase>>

(* The whole text is appended to a name that is not full yet.  state lies   *)
(* behind player_name in memory, as the Makefile builds it: the terminating *)
(* zero alone leaves the menu, letters make it none of the three states.   *)
TextInput ==
  /\ phase = "events" /\ state = "MENU"
  /\ Len(player_name) < MAX_NAME - 1
  /\ \E n \in TextSizes : \E text \in [1 .. n -> Letters] :
       player_name' = player_name \o text
  /\ state' = IF Len(player_name') > MAX_NAME THEN "OVERWRITTEN" ELSE state
  /\ UNCHANGED <<grid, score, cur, next_type, scores, unsaved, quit, phase>>

Backspace ==
  /\ phase = "events" /\ state = "MENU"
  /\ player_name # << >>
  /\ player_name' = Front(player_name)
  /\ UNCHANGED <<grid, score, state, cur, next_type, scores, unsaved, quit, phase>>

Return ==
  /\ phase = "events" /\ state = "MENU"
  /\ state' = "PLAYING"
  /\ UNCHANGED <<grid, score, player_name, cur, next_type, scores, unsaved, quit, phase>>

(* Mutant: the rotation is not checked.                                    *)
MoveKey_Turns(dx, dy, dr) ==
  /\ phase = "events" /\ state = "PLAYING"
  /\ dr = 0 => ~check_col(grid, cur, dx, dy, dr)
  /\ cur' = Moved(cur, dx, dy, dr)
  /\ UNCHANGED <<grid, score, player_name, state, next_type, scores, unsaved, quit, phase>>

MoveKey(dx, dy, dr) ==
  /\ phase = "events" /\ state = "PLAYING"
  /\ ~check_col(grid, cur, dx, dy, dr)
  /\ cur' = Moved(cur, dx, dy, dr)
  /\ UNCHANGED <<grid, score, player_name, state, next_type, scores, unsaved, quit, phase>>

(* Mutant: the grid is not emptied.                                        *)
BackToMenu_KeepsGrid ==
  /\ phase = "events" /\ state = "GAMEOVER"
  /\ state' = "MENU" /\ score' = 0
  /\ UNCHANGED <<grid, player_name, cur, next_type, scores, unsaved, quit, phase>>

BackToMenu ==
  /\ phase = "events" /\ state = "GAMEOVER"
  /\ state' = "MENU" /\ score' = 0 /\ grid' = EmptyGrid
  /\ UNCHANGED <<player_name, cur, next_type, scores, unsaved, quit, phase>>

handle_input ==
  \/ Quit \/ TextInput \/ Backspace \/ Return \/ BackToMenu
  \/ MoveKey(0, 0, 1) \/ MoveKey(-1, 0, 0) \/ MoveKey(1, 0, 0) \/ MoveKey(0, 1, 0)

NoMoreEvents ==
  /\ phase = "events"
  /\ phase' = "update"
  /\ UNCHANGED <<grid, score, player_name, state, cur, next_type, scores, unsaved, quit>>

-----------------------------------------------------------------------------
(* update_game, and the test of quit that follows it.                      *)

NextTurn == phase = "update" /\ phase' = IF quit THEN "over" ELSE "events"

TooEarly ==
  /\ NextTurn
  /\ UNCHANGED <<grid, score, player_name, state, cur, next_type, scores, unsaved, quit>>

Fall ==
  /\ NextTurn /\ state = "PLAYING"
  /\ ~check_col(grid, cur, 0, 1, 0)
  /\ cur' = Moved(cur, 0, 1, 0)
  /\ UNCHANGED <<grid, score, player_name, state, next_type, scores, unsaved, quit>>

Placed(g, p) ==
  [r \in Rows |-> [c \in Columns |-> IF <<r, c>> \in Tiles(p) THEN p.type + 1 ELSE g[r][c]]]

(* save_score: the name that it finds.  One that fills player_name goes on *)
(* into state, which is not zero when a game is lost.                      *)
final_name ==
  IF player_name = << >> THEN <<"Player">>
  ELSE IF Len(player_name) < MAX_NAME THEN player_name
  ELSE Append(player_name, "GAMEOVER")

(* Nothing is said when the file cannot be opened, or takes only a part.   *)
save_score(s) ==
  \/ scores' = <<final_name, s>> /\ unsaved' = FALSE
  \/ scores' \in {scores, <<final_name>>} /\ unsaved' = TRUE

(* Mutant: the score is saved before the cleared lines are counted.        *)
Land_SavesOld ==
  LET done == clear_lines(Placed(grid, cur), score)
  IN  /\ NextTurn /\ state = "PLAYING" /\ score < MaxScore
      /\ check_col(grid, cur, 0, 1, 0)
      /\ grid' = done.grid /\ score' = done.score
      /\ cur' = Spawned(next_type) /\ next_type' \in Types
      /\ state' = IF check_col(grid', cur', 0, 0, 0) THEN "GAMEOVER" ELSE state
      /\ IF state' = "GAMEOVER" THEN save_score(score) ELSE UNCHANGED <<scores, unsaved>>
      /\ UNCHANGED <<player_name, quit>>

Land ==
  LET done == clear_lines(Placed(grid, cur), score)
  IN  /\ NextTurn /\ state = "PLAYING" /\ score < MaxScore
      /\ check_col(grid, cur, 0, 1, 0)
      /\ grid' = done.grid /\ score' = done.score
      /\ cur' = Spawned(next_type) /\ next_type' \in Types
      /\ state' = IF check_col(grid', cur', 0, 0, 0) THEN "GAMEOVER" ELSE state
      /\ IF state' = "GAMEOVER" THEN save_score(score') ELSE UNCHANGED <<scores, unsaved>>
      /\ UNCHANGED <<player_name, quit>>

update_game == TooEarly \/ Fall \/ Land

Next == handle_input \/ NoMoreEvents \/ update_game

Spec == Init /\ [][Next]_vars

-----------------------------------------------------------------------------
(* Properties.                                                             *)

(* While the game is played the falling piece lies inside the grid on      *)
(* empty tiles, whatever keys and turns came before, so that update_game   *)
(* writes it into tiles that exist and are free.                           *)
PieceFits ==
  state = "PLAYING" => \A t \in Tiles(cur) : t[1] \in Rows /\ Free(grid, t)

(* A game starts from the menu with an empty grid, no score and a piece    *)
(* that fits, also after a game was lost.                                  *)
FreshGame ==
  state = "MENU" => grid = EmptyGrid /\ score = 0 /\ ~check_col(grid, cur, 0, 0, 0)

(* After a landing every row that is not full has fallen by as many rows  *)
(* as were full below it, with empty rows on top, and the score grows by   *)
(* 100 for each row that went (clear_lines).                               *)
FullRows(g)     == {r \in Rows : Full(g[r])}
FullBelow(g, q) == {r \in FullRows(g) : r > q}
FallsDown ==
  LET g    == Placed(grid, cur)
      gone == Cardinality(FullRows(g))
  IN  /\ score' = score + 100 * gone
      /\ \A r \in Rows : r < gone => grid'[r] = EmptyRow
      /\ \A q \in Rows \ FullRows(g) :
           grid'[q + Cardinality(FullBelow(g, q))] = g[q]
LinesFallDown ==
  [][phase = "update" /\ (grid' # grid \/ score' # score) => FallsDown]_vars

(* The line written to scores.txt has the score that the screen of the     *)
(* lost game shows and the name that was entered, unless the file could not *)
(* be written, of which the player is told nothing, or the name fills its  *)
(* array (save_score after clear_lines).                                   *)
ShownScoreIsSaved ==
  state = "GAMEOVER" /\ ~unsaved /\ Len(player_name) < MAX_NAME =>
    scores = <<IF player_name = << >> THEN <<"Player">> ELSE player_name, score>>
=============================================================================
