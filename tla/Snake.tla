-------------------------------- MODULE Snake --------------------------------
(***************************************************************************)
(* The game (SimpleSnake/game.c): the snakes, the bonuses, the walls and   *)
(* the order of one iteration of the game loop, inside the control flow of *)
(* module Shell.  The process has one thread, so an iteration is a fixed   *)
(* sequence of steps: steer, spawn, move, then the checks of player 1, of  *)
(* player 2 and of one snake against the other.                            *)
(*                                                                         *)
(* As in the code a position's x is a screen row and its y a column, while *)
(* max_x is the number of columns and max_y of rows.  A snake is the list  *)
(* from its tail (the list's first cell) to its head (the last), and a     *)
(* cell's dir is the direction in which the head entered it.  rand() is a  *)
(* free choice.                                                            *)
(***************************************************************************)
EXTENDS Integers, Sequences, FiniteSets

CONSTANTS
  Argv1, Keyboard, Garbage,  \* of Shell
  Keys,        \* what key_pressed can return in the game
  MenuKeys,    \* what key_pressed can return in the menus
  MAX_BONUS,   \* the size of bonus_list
  Amounts,     \* the amounts typed in menu 2
  Sizes,       \* terminal sizes <<rows, columns>>
  MaxScore     \* bound: the score at which a behaviour is no longer followed

ASSUME ShellConstants == Argv1 \in Int /\ Keyboard \subseteq Int /\ Garbage \subseteq Int
ASSUME BonusConstants == MAX_BONUS \in Nat \ {0} /\ Amounts \subseteq Int
\* A terminal in which the three initial cells of a snake are not in a wall;
\* rows and columns are unsigned shorts (struct winsize).
USHRT_MAX == 65535
ASSUME SizesFit == Sizes # {} /\ Sizes \subseteq (5..USHRT_MAX) \X (5..USHRT_MAX)
ASSUME MaxScoreAssumption == MaxScore \in Nat /\ Keys \subseteq Nat /\ MenuKeys \subseteq Nat

VARIABLES
  pc, highlight, spawning_rate, start, ch2, loose, tosend,
  step,          \* where the iteration is, when pc = "turn"
  ch,            \* the last key of player 1
  term,          \* the size of stdscr, as ncurses last learnt it
  max_y, max_x,  \* the size main last read
  snake,         \* per player: the list of cells
  snake_end,     \* per player: the copy of the last cell
  dir,           \* per player: the direction asked for
  score,         \* per player
  nb_bonus, max_bonus, bonus_list

shellVars == <<pc, highlight, spawning_rate, start, ch2, loose, tosend>>
sizeVars  == <<term, max_y, max_x>>
snakeVars == <<snake, snake_end, dir, score>>
bonusVars == <<nb_bonus, max_bonus, bonus_list>>

vars == <<shellVars, step, ch, sizeVars, snakeVars, bonusVars>>

S == INSTANCE Shell

Players == 1..S!nb_player

UP == 1
DOWN == 2
RIGHT == 3
LEFT == 4
Dirs == {UP, DOWN, RIGHT, LEFT}

KEY_DOWN == 258
KEY_UP == 259
KEY_LEFT == 260
KEY_RIGHT == 261
KEY_RESIZE == 410

-----------------------------------------------------------------------------
(* The helpers.                                                            *)

DX(d) == IF d = UP THEN -1 ELSE IF d = DOWN THEN 1 ELSE 0
DY(d) == IF d = LEFT THEN -1 ELSE IF d = RIGHT THEN 1 ELSE 0

Opposite(d) == IF d = UP THEN DOWN ELSE IF d = DOWN THEN UP
               ELSE IF d = LEFT THEN RIGHT ELSE LEFT

\* Mutant: the opposite direction is accepted.
NewHead_NoOpposite(end, d) == [x |-> end.x + DX(d), y |-> end.y + DY(d), dir |-> d]

\* The cell the head enters: asking for the opposite direction changes nothing.
NewHead(end, d) ==
  LET e == IF d = Opposite(end.dir) THEN end.dir ELSE d
  IN  [x |-> end.x + DX(e), y |-> end.y + DY(e), dir |-> e]

\* Mutant: head_del is forgotten.
snake_move_NoDelete(s, end, d) == Append(s, NewHead(end, d))

\* tail_add, then head_del
snake_move(s, end, d) == Append(Tail(s), NewHead(end, d))

\* Mutant: the cell is put in front of the tail.
snake_grow_Ahead(s) ==
  LET c == Head(s)
  IN  <<[x |-> c.x + DX(c.dir), y |-> c.y + DY(c.dir), dir |-> c.dir]>> \o s

\* One more cell behind the tail, in the tail's direction.
snake_grow(s) ==
  LET c == Head(s)
  IN  <<[x |-> c.x - DX(c.dir), y |-> c.y - DY(c.dir), dir |-> c.dir]>> \o s

SamePos(a, b) == a.x = b.x /\ a.y = b.y

\* Mutant: the top wall is one row too high.
wall_check_OffByOne(c) == c.x <= 0 \/ c.x >= max_y - 2 \/ c.y <= 0 \/ c.y >= max_x - 1

wall_check(c) == c.x <= 1 \/ c.x >= max_y - 2 \/ c.y <= 0 \/ c.y >= max_x - 1

\* Mutant: the inner loop stops before the last cell.
crash_check_SkipsHead(s) == \E j \in 2..(Len(s)-1) : \E i \in 1..(j-1) : SamePos(s[i], s[j])

crash_check(s) == \E j \in 2..Len(s) : \E i \in 1..(j-1) : SamePos(s[i], s[j])

crash_snake_check(s, end) == \E i \in 1..Len(s) : SamePos(s[i], end)

First(I) == CHOOSE i \in I : \A j \in I : i <= j

\* The slots in use; an inactive slot keeps the position of its last bonus.
Slots == 0..(max_bonus - 1)
Active == {i \in Slots : bonus_list[i].activ = 1}

\* bonus_check compares positions only.
Hits(end) == {i \in Slots : end.x = bonus_list[i].pos_y /\ end.y = bonus_list[i].pos_x}

\* What rand() % n can be, n # 0.
RandMod(n) == IF n > 0 THEN 0..(n - 1) ELSE 0..(-n - 1)

init_snake(row) == [i \in 1..3 |-> [x |-> row, y |-> i, dir |-> RIGHT]]

NoBonus == [pos_x |-> 0, pos_y |-> 0, activ |-> 0]

-----------------------------------------------------------------------------

Init ==
  /\ S!Init
  /\ step = "steer" /\ ch = 0
  /\ term \in Sizes /\ max_y = term[1] /\ max_x = term[2]
  /\ snake = [id \in Players |-> <<>>]
  /\ snake_end = [id \in Players |-> [x |-> 0, y |-> 0, dir |-> 0]]
  /\ dir = [id \in Players |-> RIGHT]
  /\ score = [id \in Players |-> 0]
  /\ nb_bonus = 0 /\ max_bonus = 0
  /\ bonus_list = [i \in 0..(MAX_BONUS - 1) |-> NoBonus]

Begin ==
  /\ S!Refused \/ S!init_usb \/ S!init_usb_done \/ \E k \in MenuKeys : S!menu_disp(k)
  /\ UNCHANGED <<step, ch, sizeVars, snakeVars, bonusVars>>

\* Mutant: the amount is not capped.
Menu2_NoCap ==
  /\ S!menu2_disp
  /\ max_bonus' \in Amounts
  /\ term' \in Sizes /\ max_y' = term'[1] /\ max_x' = term'[2]
  /\ snake' = [id \in Players |-> init_snake(IF id = 1 THEN 2 ELSE max_y' - 3)]
  /\ snake_end' = [id \in Players |-> snake'[id][3]]
  /\ UNCHANGED <<step, ch, dir, score, nb_bonus, bonus_list>>

\* The amount menu and what main does before the loop: the size, the snakes,
\* and the slots of bonus_list, which are zero already.
Menu2 ==
  /\ S!menu2_disp
  /\ \E n \in Amounts : max_bonus' = IF n > MAX_BONUS THEN MAX_BONUS ELSE n
  /\ term' \in Sizes /\ max_y' = term'[1] /\ max_x' = term'[2]
  /\ snake' = [id \in Players |-> init_snake(IF id = 1 THEN 2 ELSE max_y' - 3)]
  /\ snake_end' = [id \in Players |-> snake'[id][3]]
  /\ UNCHANGED <<step, ch, dir, score, nb_bonus, bonus_list>>

\* getmaxyx, key_pressed, getch.  A resize is learnt by getch, so it shows in
\* max_y and max_x at the next getmaxyx: the next iteration's, or quit_disp's.
Poll ==
  /\ \A id \in Players : score[id] < MaxScore
  /\ \E k \in Keys, k2 \in Keyboard :
       /\ S!Poll(k, k2)
       /\ ch' = k
       /\ IF S!nb_player = 2 /\ k2 = KEY_RESIZE THEN term' \in Sizes ELSE UNCHANGED term
  /\ LET z == IF pc' = "pause" THEN term' ELSE term
     IN  max_y' = z[1] /\ max_x' = z[2]
  /\ step' = "steer"
  /\ UNCHANGED <<snakeVars, bonusVars>>

Pause ==
  /\ \E k \in MenuKeys : S!quit_disp(k)
  /\ UNCHANGED <<step, ch, sizeVars, snakeVars, bonusVars>>

Send ==
  /\ S!usb_send
  /\ UNCHANGED <<step, ch, sizeVars, snakeVars, bonusVars>>

-----------------------------------------------------------------------------
(* The iteration.                                                          *)

At(s) == pc = "turn" /\ tosend = <<>> /\ step = s

DirOfKey ==
  [k \in {S!USBKEY_UP, S!USBKEY_DOWN, S!USBKEY_LEFT, S!USBKEY_RIGHT} |->
     IF k = S!USBKEY_UP THEN UP ELSE IF k = S!USBKEY_DOWN THEN DOWN
     ELSE IF k = S!USBKEY_LEFT THEN LEFT ELSE RIGHT]

DirOfArrow ==
  [k \in {KEY_UP, KEY_DOWN, KEY_LEFT, KEY_RIGHT} |->
     IF k = KEY_UP THEN UP ELSE IF k = KEY_DOWN THEN DOWN
     ELSE IF k = KEY_LEFT THEN LEFT ELSE RIGHT]

\* The direction a key asks for; other keys leave the current one.
set_dir(id) ==
  IF id = 1 THEN IF ch \in DOMAIN DirOfKey THEN DirOfKey[ch] ELSE dir[1]
  ELSE IF ch2 \in DOMAIN DirOfArrow THEN DirOfArrow[ch2] ELSE dir[2]

\* ch is not read again before the next Poll assigns it: its value is dropped.
Steer ==
  /\ At("steer")
  /\ dir' = [id \in Players |-> set_dir(id)]
  /\ ch' = 0
  /\ step' = "spawn"
  /\ UNCHANGED <<shellVars, sizeVars, snake, snake_end, score, bonusVars>>

\* rand() % spawning_rate was not 1, or there are enough bonuses.
NoSpawn ==
  /\ At("spawn")
  /\ step' = "move"
  /\ UNCHANGED <<shellVars, ch, sizeVars, snakeVars, bonusVars>>

\* The first inactive slot takes the bonus; nb_bonus counts it in any case.
bonus_create ==
  /\ At("spawn")
  /\ nb_bonus < max_bonus /\ max_x # 4 /\ max_y # 6
  /\ \E px \in RandMod(max_x - 4), py \in RandMod(max_y - 6) :
       LET free == Slots \ Active
           new  == [pos_x |-> 2 + px, pos_y |-> 3 + py, activ |-> 1]
       IN  bonus_list' = IF free = {} THEN bonus_list
                         ELSE [bonus_list EXCEPT ![First(free)] = new]
  /\ nb_bonus' = nb_bonus + 1
  /\ step' = "move"
  /\ UNCHANGED <<shellVars, ch, sizeVars, snakeVars, max_bonus>>

\* rand() % 0
SpawnKilled ==
  /\ At("spawn")
  /\ nb_bonus < max_bonus /\ (max_x = 4 \/ max_y = 6)
  /\ S!Killed
  /\ UNCHANGED <<step, ch, sizeVars, snakeVars, bonusVars>>

\* Mutant: tail_add copies every new head to player 1's snake_end.
Move_OneEnd ==
  /\ At("move")
  /\ snake' = [id \in Players |-> snake_move(snake[id], snake_end[id], dir[id])]
  /\ snake_end' = [snake_end EXCEPT ![1] = NewHead(snake_end[S!nb_player], dir[S!nb_player])]
  /\ step' = "one"
  /\ UNCHANGED <<shellVars, ch, sizeVars, dir, score, bonusVars>>

Move ==
  /\ At("move")
  /\ snake' = [id \in Players |-> snake_move(snake[id], snake_end[id], dir[id])]
  /\ snake_end' = [id \in Players |-> NewHead(snake_end[id], dir[id])]
  /\ step' = "one"
  /\ UNCHANGED <<shellVars, ch, sizeVars, dir, score, bonusVars>>

\* A player in a wall or across its own body loses, and nothing more is done.
Lose(id) ==
  /\ wall_check(snake_end[id]) \/ crash_check(snake[id])
  /\ S!Turn(id)
  /\ UNCHANGED <<step, ch, sizeVars, snakeVars, bonusVars>>

\* Mutant: nb_bonus is not decremented.
bonus_check_NoCount(id) ==
  LET hits == Hits(snake_end[id])
  IN  IF hits = {}
        THEN UNCHANGED <<snake, score, nb_bonus, bonus_list>>
        ELSE /\ score' = [score EXCEPT ![id] = @ + 1]
             /\ bonus_list' = [bonus_list EXCEPT ![First(hits)].activ = 0]
             /\ snake' = [snake EXCEPT ![id] = snake_grow(@)]
             /\ UNCHANGED nb_bonus

\* A slot with the head's position: one point, one cell, and the slot is free.
bonus_check(id) ==
  LET hits == Hits(snake_end[id])
  IN  IF hits = {}
        THEN UNCHANGED <<snake, score, nb_bonus, bonus_list>>
        ELSE /\ score' = [score EXCEPT ![id] = @ + 1]
             /\ nb_bonus' = nb_bonus - 1
             /\ bonus_list' = [bonus_list EXCEPT ![First(hits)].activ = 0]
             /\ snake' = [snake EXCEPT ![id] = snake_grow(@)]

Survive(id) ==
  /\ ~wall_check(snake_end[id]) /\ ~crash_check(snake[id])
  /\ bonus_check(id)
  /\ UNCHANGED <<ch, sizeVars, snake_end, dir, max_bonus>>

CheckOne ==
  /\ At("one")
  /\ \/ Lose(1)
     \/ Survive(1) /\ S!nb_player = 2 /\ step' = "two" /\ UNCHANGED shellVars
     \/ Survive(1) /\ S!nb_player = 1 /\ S!Turn(0) /\ UNCHANGED step

CheckTwo ==
  /\ At("two")
  /\ \/ Lose(2)
     \/ Survive(2) /\ step' = "cross" /\ UNCHANGED shellVars

\* Mutant: only player 2's head is looked at.
CrossOutcome_OneSided == IF crash_snake_check(snake[1], snake_end[2]) THEN 2 ELSE 0

\* Player 2's head is looked at first.
CrossOutcome ==
  IF crash_snake_check(snake[1], snake_end[2]) THEN 2
  ELSE IF crash_snake_check(snake[2], snake_end[1]) THEN 1 ELSE 0

CheckCross ==
  /\ At("cross")
  /\ S!Turn(CrossOutcome)
  /\ UNCHANGED <<step, ch, sizeVars, snakeVars, bonusVars>>

Next ==
  \/ Begin \/ Menu2 \/ Poll \/ Pause \/ Send
  \/ Steer \/ NoSpawn \/ bonus_create \/ SpawnKilled \/ Move
  \/ CheckOne \/ CheckTwo \/ CheckCross

Spec == Init /\ [][Next]_vars

-----------------------------------------------------------------------------

Cell == [x : Int, y : Int, dir : Dirs]

\* The snakes exist: main is past its menus.
Playing == pc \notin {"init", "exit", "wait", "menu", "menu2"}

TypeOK ==
  /\ S!TypeOK
  /\ step \in {"steer", "spawn", "move", "one", "two", "cross"}
  /\ ch \in Nat
  /\ term \in Sizes /\ max_y \in Int /\ max_x \in Int
  /\ snake \in [Players -> Seq(Cell)]
  /\ DOMAIN snake_end = Players
  /\ Playing => snake_end \in [Players -> Cell]
  /\ dir \in [Players -> Dirs]
  /\ score \in [Players -> Nat]
  /\ nb_bonus \in Int /\ max_bonus \in Int /\ max_bonus <= MAX_BONUS
  /\ bonus_list \in [0..(MAX_BONUS - 1) -> [pos_x : Int, pos_y : Int, activ : 0..1]]

\* A snake has three cells and one more for each point (snake_grow is called
\* exactly where the score rises, and snake_move adds and frees one cell).
LengthIsScore == Playing => \A id \in Players : Len(snake[id]) = 3 + score[id]

\* The copy of the head that the checks read is the last cell of the list.
EndIsHead == Playing => \A id \in Players : snake_end[id] = snake[id][Len(snake[id])]

\* Each cell is the neighbour of the one before it, in the direction recorded
\* in it, and no cell turns back: a key for the opposite direction, alone or
\* followed by others between two moves, never makes the head re-enter the
\* cell behind it.
Chained(s) ==
  \A i \in 1..(Len(s) - 1) :
    /\ s[i+1].x = s[i].x + DX(s[i+1].dir)
    /\ s[i+1].y = s[i].y + DY(s[i+1].dir)
    /\ s[i+1].dir # Opposite(s[i].dir)

Chain == \A id \in Players : Chained(snake[id])

\* A snake of fewer than five cells cannot bite itself.
ShortIsSafe == \A id \in Players : crash_check(snake[id]) => Len(snake[id]) >= 5

MaxRows == CHOOSE r \in {z[1] : z \in Sizes} : \A z \in Sizes : z[1] <= r
MaxCols == CHOOSE c \in {z[2] : z \in Sizes} : \A z \in Sizes : z[2] <= c

\* Behind the head the body stays inside the walls of the largest terminal:
\* snake_grow looks at no wall, yet it only refills the cell that the move of
\* the same iteration left.
BodyInside ==
  \A id \in Players : \A i \in 1..(Len(snake[id]) - 1) :
    snake[id][i].x \in 2..(MaxRows - 3) /\ snake[id][i].y \in 1..(MaxCols - 2)

\* crash_check compares every pair of cells, yet right after a move only the
\* head can lie on another cell, and between iterations only the tail that
\* snake_grow added: no player loses for a cell that did not move.
Overlaps(s) == {p \in (1..Len(s)) \X (1..Len(s)) : p[1] < p[2] /\ SamePos(s[p[1]], s[p[2]])}

Moved(id) == pc = "turn" /\ (step = "one" \/ (step = "two" /\ id = 2))

OnlyHeadCrashes ==
  \A id \in Players : \A p \in Overlaps(snake[id]) :
    IF Moved(id) THEN p[2] = Len(snake[id]) ELSE pc \notin {"halt"} => p[1] = 1

\* The two snakes share no cell when an iteration ends with both alive, though
\* crash_snake_check looks at the heads only and a snake may grow after the
\* other has moved next to it.
SnakesApart ==
  (pc = "poll" /\ ~start /\ S!nb_player = 2) =>
    \A i \in 1..Len(snake[1]), j \in 1..Len(snake[2]) : ~SamePos(snake[1][i], snake[2][j])

\* Documented: the terminal can be resized during the game (README.md, "il est
\* possible de redimensionner en cours de partie").  The program survives it.
ResizeSurvived == pc # "sigfpe"

\* nb_bonus, at which bonus_create stops, never exceeds the bonuses on the
\* screen (it may fall below them, which is harmless), although bonus_check frees
\* slots that were free and bonus_create counts bonuses it found no slot for.
BonusAccounting == nb_bonus <= Cardinality(Active)
==============================================================================
