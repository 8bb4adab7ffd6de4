--------------------------- MODULE SnakeBodyProofs ---------------------------
(***************************************************************************)
(* Theorems about where the bodies of the snakes can be: inside the walls, *)
(* across themselves, across each other.  For every set of terminal sizes, *)
(* resizes included, and any number of turns.                              *)
(***************************************************************************)
EXTENDS SnakeProofs

\* The cells a snake held before its last move, and its head.  Between a move
\* and the player's check the tail just left is what snake_grow would put back.
Trail(id) == IF Moved(id) THEN snake_grow(snake[id]) ELSE snake[id]

InRoom(c) == c.x \in 2..(MaxRows - 3) /\ c.y \in 1..(MaxCols - 2)

\* The size main works with is a size of the terminal, the pause menu comes
\* before the first step of an iteration, and the start flag is set before.
Place ==
  /\ <<max_y, max_x>> \in Sizes
  /\ pc = "pause" => step = "steer"
  /\ ~Playing => start

TrailInside(id) == \A i \in 1..(Len(Trail(id)) - 1) : InRoom(Trail(id)[i])

HeadInside(id) == ~Moved(id) /\ pc # "halt" => InRoom(snake_end[id])

Inside == Playing => \A id \in Players : TrailInside(id) /\ HeadInside(id)

\* The checks of an iteration are under way.
Checking == pc = "turn" /\ step \in {"one", "two", "cross"}

SnakesOf2 == S!nb_player = 2 /\ pc \in {"poll", "turn", "pause"}

TrailsApart ==
  \A i \in 1..(Len(Trail(1)) - 1), j \in 1..(Len(Trail(2)) - 1) :
    ~SamePos(Trail(1)[i], Trail(2)[j])

SnakesDiffer ==
  \A i \in 1..Len(snake[1]), j \in 1..Len(snake[2]) : ~SamePos(snake[1][i], snake[2][j])

\* With five rows both snakes start on the same row, and the first iteration
\* ends the game: a head that leaves the row is in a wall, and the two that
\* stay on it meet.
Twins ==
  /\ max_y = 5
  /\ (pc = "poll" /\ start /\ term[1] = 5) \/ pc = "turn"
  /\ IF Checking
     THEN /\ \A id \in 1..2 : snake_end[id].x = 2 => snake_end[id].y = 4
          /\ step # "one" => snake_end[1].x = 2
          /\ step = "cross" => snake_end[2].x = 2
     ELSE \A id \in 1..2 : snake_end[id] = [x |-> 2, y |-> 3, dir |-> RIGHT]

Apart == SnakesOf2 => Twins \/ (IF Checking THEN TrailsApart ELSE SnakesDiffer)

BodyInv == Place /\ Inside /\ OnlyHeadCrashes /\ Apart

-----------------------------------------------------------------------------
(* The largest terminal.                                                     *)

\* A bounded set of numbers has a greatest element.
LEMMA Greatest ==
  ASSUME NEW B \in Nat, NEW I \in SUBSET (0..B), I # {}
  PROVE  \E x \in I : \A y \in I : y <= x
<1> DEFINE J == {B - y : y \in I}
<1>1. J \in SUBSET Nat /\ J # {}
  <2>1. \A y \in I : B - y \in Nat
    OBVIOUS
  <2>2. PICK y : y \in I
    OBVIOUS
  <2>3. B - y \in J
    BY <2>2
  <2> QED
    BY <2>1, <2>3
<1>2. PICK k \in J : \A j \in J : k <= j
  BY <1>1, Least
<1>3. PICK x \in I : k = B - x
  OBVIOUS
<1>4. ASSUME NEW y \in I PROVE y <= x
  <2>1. B - y \in J /\ y \in Int /\ x \in Int
    OBVIOUS
  <2> QED
    BY <2>1, <1>2, <1>3
<1> QED
  BY <1>4

\* MaxRows and MaxCols bound every size.
LEMMA LargestSize ==
  /\ MaxRows \in Int /\ MaxCols \in Int
  /\ \A z \in Sizes : /\ z[1] \in Int /\ 5 <= z[1] /\ z[1] <= MaxRows
                      /\ z[2] \in Int /\ 5 <= z[2] /\ z[2] <= MaxCols
<1> DEFINE R == {z[1] : z \in Sizes}
           C == {z[2] : z \in Sizes}
<1>0. USHRT_MAX \in Nat
  BY DEF USHRT_MAX
<1>1. \A z \in Sizes : z[1] \in 5..USHRT_MAX /\ z[2] \in 5..USHRT_MAX
  BY SizesFit
<1>2. R \in SUBSET (0..USHRT_MAX) /\ C \in SUBSET (0..USHRT_MAX) /\ R # {} /\ C # {}
  BY <1>0, <1>1, SizesFit
<1>3. PICK r \in R : \A y \in R : y <= r
  BY <1>0, <1>2, Greatest
<1>4. PICK c \in C : \A y \in C : y <= c
  BY <1>0, <1>2, Greatest
<1>5. /\ \E x \in R : \A z \in Sizes : z[1] <= x
      /\ \E x \in C : \A z \in Sizes : z[2] <= x
  BY <1>3, <1>4
<1>6. MaxRows \in R /\ \A z \in Sizes : z[1] <= MaxRows
  BY <1>5 DEF MaxRows
<1>7. MaxCols \in C /\ \A z \in Sizes : z[2] <= MaxCols
  BY <1>5 DEF MaxCols
<1> QED
  BY <1>0, <1>1, <1>2, <1>6, <1>7

-----------------------------------------------------------------------------
(* The trail of one snake.                                                   *)

\* snake_grow shifts the cells by one.
LEMMA GrowShift ==
  ASSUME NEW s \in Seq(Cell), Len(s) >= 1
  PROVE  /\ snake_grow(s) \in Seq(Cell) /\ Len(snake_grow(s)) = Len(s) + 1
         /\ \A i \in 1..Len(s) : snake_grow(s)[i+1] = s[i]
         /\ snake_grow(s)[1].x = s[1].x - DX(s[1].dir)
         /\ snake_grow(s)[1].y = s[1].y - DY(s[1].dir)
<1> DEFINE c == [x |-> s[1].x - DX(s[1].dir), y |-> s[1].y - DY(s[1].dir), dir |-> s[1].dir]
<1>1. s[1] \in Cell /\ Head(s) = s[1]
  OBVIOUS
<1>2. s[1].x \in Int /\ s[1].y \in Int /\ s[1].dir \in Dirs
  BY <1>1 DEF Cell
<1>3. DX(s[1].dir) \in Int /\ DY(s[1].dir) \in Int
  BY <1>2, DirFacts
<1>4. c \in Cell
  BY <1>2, <1>3 DEF Cell
<1>5. snake_grow(s) = <<c>> \o s
  BY <1>1 DEF snake_grow
<1>6. c.x = s[1].x - DX(s[1].dir) /\ c.y = s[1].y - DY(s[1].dir)
  OBVIOUS
<1> HIDE DEF c
<1> QED
  BY <1>4, <1>5, <1>6, GrowSeq

\* After a move the trail is the old snake with the new head, square by square.
LEMMA MoveTrail ==
  ASSUME NEW s, NEW e, NEW n \in Nat, NEW d \in Dirs, SnakeOK(s, e, n)
  PROVE  LET t == snake_move(s, e, d)
         IN  /\ t \in Seq(Cell) /\ Len(t) = Len(s)
             /\ \A i \in 1..(Len(s) - 1) : t[i] = s[i+1]
             /\ Len(snake_grow(t)) = Len(s) + 1
             /\ \A i \in 1..Len(s) : snake_grow(t)[i].x = s[i].x /\ snake_grow(t)[i].y = s[i].y
<1> DEFINE t == snake_move(s, e, d)
<1>1. s \in Seq(Cell) /\ Len(s) = 3 + n /\ e \in Cell /\ Chained(s)
  BY DEF SnakeOK
<1>2. NewHead(e, d) \in Cell
  BY <1>1, NewHeadCell
<1>3. t \in Seq(Cell) /\ Len(t) = Len(s) /\ \A i \in 1..(Len(s) - 1) : t[i] = s[i+1]
  BY <1>1, <1>2, MoveSeq DEF snake_move
<1> HIDE DEF t
<1>4. /\ Len(snake_grow(t)) = Len(s) + 1
      /\ \A i \in 1..Len(t) : snake_grow(t)[i+1] = t[i]
      /\ snake_grow(t)[1].x = t[1].x - DX(t[1].dir)
      /\ snake_grow(t)[1].y = t[1].y - DY(t[1].dir)
  <2>1. Len(t) >= 1
    BY <1>1, <1>3
  <2> QED
    BY <1>3, <2>1, GrowShift
<1>5. ASSUME NEW i \in 1..Len(s)
      PROVE  snake_grow(t)[i].x = s[i].x /\ snake_grow(t)[i].y = s[i].y
  <2>1. CASE i = 1
    <3>1. t[1] = s[2] /\ s[2] = s[1+1] /\ 1 \in 1..(Len(s) - 1)
      BY <1>1, <1>3
    <3>2. s[2].x = s[1].x + DX(s[2].dir) /\ s[2].y = s[1].y + DY(s[2].dir)
      BY <1>1, <3>1 DEF Chained
    <3>3. s[1] \in Cell /\ s[2] \in Cell
      BY <1>1
    <3>4. /\ s[1].x \in Int /\ s[1].y \in Int
          /\ DX(s[2].dir) \in Int /\ DY(s[2].dir) \in Int
      BY <3>3, DirFacts DEF Cell
    <3> QED
      BY <1>4, <2>1, <3>1, <3>2, <3>4
  <2>2. CASE i # 1
    <3>1. i - 1 \in 1..(Len(s) - 1) /\ i - 1 \in 1..Len(t) /\ (i - 1) + 1 = i
      BY <1>1, <1>3, <2>2
    <3>2. snake_grow(t)[(i - 1) + 1] = t[i - 1] /\ t[i - 1] = s[(i - 1) + 1]
      BY <1>3, <1>4, <3>1
    <3> QED
      BY <3>1, <3>2
  <2> QED
    BY <2>1, <2>2
<1> QED
  BY <1>3, <1>4, <1>5 DEF t

-----------------------------------------------------------------------------
(* The steps that leave the bodies alone.                                    *)

\* What the invariant reads.
LEMMA StillBody ==
  ASSUME BodyInv, UNCHANGED <<pc, step, start, term, max_y, max_x, snake, snake_end>>
  PROVE  BodyInv'
BY DEF BodyInv, Place, Inside, TrailInside, HeadInside, Trail, Moved, Playing,
       OnlyHeadCrashes, Overlaps, Apart, SnakesOf2, Twins, Checking, TrailsApart, SnakesDiffer

\* Outside the checks a step that moves no snake keeps what is said of each.
LEMMA SameBodies ==
  ASSUME BodyInv, Playing, pc # "halt", UNCHANGED <<snake, snake_end>>,
         \A id \in Players : ~Moved(id) /\ ~Moved(id)'
  PROVE  Inside' /\ OnlyHeadCrashes'
<1>1. ASSUME NEW id \in Players PROVE TrailInside(id)' /\ HeadInside(id)'
  <2>1. Trail(id) = snake[id] /\ Trail(id)' = snake[id]
    BY DEF Trail
  <2> QED
    BY <2>1 DEF BodyInv, Inside, TrailInside, HeadInside
<1>2. OnlyHeadCrashes'
  BY DEF BodyInv, OnlyHeadCrashes, Overlaps
<1> QED
  BY <1>1, <1>2 DEF Inside

\* The start of the program: there are no snakes.
LEMMA BeginBody ==
  ASSUME Inv, BodyInv, Begin
  PROVE  BodyInv'
<1>1. ~Playing /\ ~Playing' /\ pc' \notin {"poll", "turn", "pause"}
  BY DEF Begin, Playing, S!Refused, S!init_usb, S!init_usb_done, S!menu_disp
<1>2. UNCHANGED <<step, max_y, max_x, snake, start>>
  BY DEF Begin, sizeVars, snakeVars, S!Refused, S!init_usb, S!init_usb_done, S!menu_disp
<1>3. \A id \in Players : Overlaps(snake[id]) = {}
  <2>1. \A id \in Players : snake[id] = <<>>
    BY <1>1 DEF Inv, Control
  <2>2. Overlaps(<<>>) = {}
    BY DEF Overlaps
  <2> QED
    BY <2>1, <2>2
<1>4. OnlyHeadCrashes'
  BY <1>2, <1>3 DEF OnlyHeadCrashes, Overlaps
<1> QED
  BY <1>1, <1>2, <1>4 DEF BodyInv, Place, Inside, Apart, SnakesOf2

\* Reading the keys, the pause menu, steering and spawning.
LEMMA LoopBody ==
  ASSUME BodyInv, Inv, Poll \/ Pause \/ Steer \/ NoSpawn \/ bonus_create \/ SpawnKilled
  PROVE  BodyInv'
<1>1. CASE Poll
  <2>1. /\ pc = "poll" /\ pc' \in {"turn", "pause"} /\ step' = "steer"
        /\ start => pc' = "turn"
        /\ UNCHANGED <<snake, snake_end>>
    BY <1>1 DEF Poll, S!Poll, snakeVars
  <2>2. /\ term \in Sizes /\ term' \in Sizes
        /\ pc' = "turn" => max_y' = term[1] /\ max_x' = term[2]
        /\ pc' = "pause" => max_y' = term'[1] /\ max_x' = term'[2]
    BY <1>1, <2>1 DEF Poll, Inv, TypeOK
  <2>3. Place'
    <3>1. \A z \in Sizes : <<z[1], z[2]>> \in Sizes
      BY SizesFit
    <3> QED
      BY <2>1, <2>2, <3>1 DEF Place, Playing
  <2>4. Inside' /\ OnlyHeadCrashes'
    BY <2>1, SameBodies DEF Moved, Playing
  <2>5. Apart'
    BY <2>1, <2>2 DEF BodyInv, Apart, SnakesOf2, Twins, Checking, SnakesDiffer
  <2> QED
    BY <2>3, <2>4, <2>5 DEF BodyInv
<1>2. CASE Pause
  <2>1. /\ pc = "pause" /\ pc' \in {"turn", "halt", "pause"} /\ step = "steer" /\ step' = step
        /\ UNCHANGED <<max_y, max_x, snake, snake_end>>
    BY <1>2 DEF Pause, S!quit_disp, snakeVars, sizeVars, BodyInv, Place
  <2>2. Place'
    BY <2>1 DEF BodyInv, Place, Playing
  <2>3. Inside' /\ OnlyHeadCrashes'
    BY <2>1, SameBodies DEF Moved, Playing
  <2>4. Apart'
    BY <2>1 DEF BodyInv, Apart, SnakesOf2, Twins, Checking, SnakesDiffer
  <2> QED
    BY <2>2, <2>3, <2>4 DEF BodyInv
<1>3. CASE Steer \/ NoSpawn \/ bonus_create
  <2>1. /\ pc = "turn" /\ pc' = "turn" /\ step \in {"steer", "spawn"} /\ step' \in {"spawn", "move"}
        /\ UNCHANGED <<max_y, max_x, snake, snake_end>>
    BY <1>3 DEF Steer, NoSpawn, bonus_create, At, snakeVars, sizeVars, shellVars
  <2>2. Place'
    BY <2>1 DEF BodyInv, Place, Playing
  <2>3. Inside' /\ OnlyHeadCrashes'
    BY <2>1, SameBodies DEF Moved, Playing
  <2>4. Apart'
    BY <2>1 DEF BodyInv, Apart, SnakesOf2, Twins, Checking, SnakesDiffer
  <2> QED
    BY <2>2, <2>3, <2>4 DEF BodyInv
<1>4. CASE SpawnKilled
  <2>1. /\ pc = "turn" /\ pc' = "sigfpe" /\ step = "spawn"
        /\ UNCHANGED <<max_y, max_x, snake, snake_end>>
    BY <1>4 DEF SpawnKilled, At, S!Killed, snakeVars, sizeVars
  <2>2. Place' /\ Apart'
    BY <2>1 DEF BodyInv, Place, Playing, Apart, SnakesOf2
  <2>3. Inside' /\ OnlyHeadCrashes'
    BY <2>1, SameBodies DEF Moved, Playing
  <2> QED
    BY <2>2, <2>3 DEF BodyInv
<1> QED
  BY <1>1, <1>2, <1>3, <1>4

-----------------------------------------------------------------------------
(* The new snakes.                                                           *)

\* The initial snakes lie inside the walls, on themselves nowhere, and apart
\* unless the terminal has five rows.
LEMMA Menu2Body ==
  ASSUME Inv, BodyInv, Menu2
  PROVE  BodyInv'
<1>0. PICK row : row = [id \in Players |-> IF id = 1 THEN 2 ELSE max_y' - 3]
  OBVIOUS
<1>1. /\ pc = "menu2" /\ pc' = "poll" /\ start' = start /\ start
      /\ term' \in Sizes /\ max_y' = term'[1] /\ max_x' = term'[2]
  BY DEF Menu2, S!menu2_disp, BodyInv, Place, Playing
<1>2. /\ max_y' \in Int /\ 5 <= max_y' /\ max_y' <= MaxRows /\ MaxRows \in Int
      /\ 5 <= max_x' /\ max_x' <= MaxCols /\ MaxCols \in Int /\ max_x' \in Int
  BY <1>1, LargestSize
<1>2a. <<max_y', max_x'>> \in Sizes
  <2>1. <<term'[1], term'[2]>> = term'
    BY <1>1, SizesFit
  <2> QED
    BY <1>1, <2>1
<1>3. \A id \in Players :
        /\ Len(snake'[id]) = 3 /\ snake_end'[id] = snake'[id][3]
        /\ \A i \in 1..3 : snake'[id][i] = [x |-> row[id], y |-> i, dir |-> RIGHT]
  <2>1. \A r : Len(init_snake(r)) = 3 /\ \A i \in 1..3 : init_snake(r)[i] = [x |-> r, y |-> i, dir |-> RIGHT]
    BY DEF init_snake
  <2>2. \A id \in Players : snake'[id] = init_snake(row[id]) /\ snake_end'[id] = snake'[id][3]
    BY <1>0 DEF Menu2
  <2> QED
    BY <2>1, <2>2
<1>4. ASSUME NEW id \in Players PROVE row[id] \in 2..(MaxRows - 3)
  <2>1. CASE id = 1
    BY <1>0, <1>2, <2>1
  <2>2. CASE id # 1
    <3>1. row[id] = max_y' - 3
      BY <1>0, <2>2
    <3>2. max_y' - 3 \in 2..(MaxRows - 3)
      <4>1. ASSUME NEW m \in Int, NEW M \in Int, 5 <= m, m <= M PROVE m - 3 \in 2..(M - 3)
        BY <4>1
      <4>2. max_y' \in Int /\ MaxRows \in Int /\ 5 <= max_y' /\ max_y' <= MaxRows
        BY <1>2
      <4> QED
        BY <4>1, <4>2
    <3> QED
      BY <3>1, <3>2
  <2> QED
    BY <2>1, <2>2
<1>5. \A id \in Players : ~Moved(id)' /\ Trail(id)' = snake'[id]
  BY <1>1 DEF Moved, Trail
<1>6. 1 \in Players => row[1] = 2
  BY <1>0
<1>7. 2 \in Players => row[2] = max_y' - 3
  BY <1>0
<1>8. \A id \in Players, i \in 1..3 :
        snake'[id][i].x = row[id] /\ snake'[id][i].y = i /\ snake'[id][i].dir = RIGHT
  <2> TAKE id \in Players, i \in 1..3
  <2>1. snake'[id][i] = [x |-> row[id], y |-> i, dir |-> RIGHT]
    BY <1>3
  <2> QED
    BY <2>1
<1>9. Inside'
  <2>1. ASSUME NEW id \in Players, NEW i \in 1..3 PROVE InRoom(snake'[id][i])
    <3>1. snake'[id][i].x = row[id] /\ snake'[id][i].y = i /\ row[id] \in 2..(MaxRows - 3)
      BY <1>4, <1>8
    <3> QED
      BY <3>1, <1>2 DEF InRoom
  <2>2. ASSUME NEW id \in Players PROVE TrailInside(id)' /\ HeadInside(id)'
    <3>1. InRoom(snake'[id][1]) /\ InRoom(snake'[id][2]) /\ InRoom(snake'[id][3])
      BY <2>1
    <3>2. Len(Trail(id)') = 3 /\ Trail(id)' = snake'[id] /\ snake_end'[id] = snake'[id][3]
      BY <1>3, <1>5
    <3>3. TrailInside(id)'
      BY <3>1, <3>2 DEF TrailInside, InRoom
    <3>4. HeadInside(id)'
      BY <3>1, <3>2 DEF HeadInside, InRoom
    <3> QED
      BY <3>3, <3>4
  <2> QED
    BY <2>2 DEF Inside
<1>10. OnlyHeadCrashes'
  <2>1. ASSUME NEW id \in Players PROVE Overlaps(snake'[id]) = {}
    <3>1. Len(snake'[id]) = 3 /\ \A i \in 1..3 : snake'[id][i].y = i
      BY <1>3, <1>8
    <3> QED
      BY <3>1 DEF Overlaps, SamePos
  <2> QED
    BY <2>1 DEF OnlyHeadCrashes, Overlaps
<1>11. Apart'
  <2> SUFFICES ASSUME S!nb_player = 2 PROVE Twins' \/ SnakesDiffer'
    BY <1>1 DEF Apart, SnakesOf2, Checking
  <2>0. 1 \in Players /\ 2 \in Players
    BY DEF Players
  <2>1. CASE max_y' = 5
    <3>1. ASSUME NEW id \in 1..2 PROVE snake_end'[id] = [x |-> 2, y |-> 3, dir |-> RIGHT]
      <4>1. id \in Players /\ row[id] = 2
        BY <1>6, <1>7, <2>0, <2>1
      <4>2. snake_end'[id] = snake'[id][3] /\ snake'[id][3] = [x |-> row[id], y |-> 3, dir |-> RIGHT]
        <5>1. 3 \in 1..3
          OBVIOUS
        <5> QED
          BY <1>3, <4>1, <5>1
      <4> QED
        BY <4>1, <4>2
    <3>2. Checking' = FALSE
      BY <1>1 DEF Checking
    <3>3. max_y' = 5 /\ pc' = "poll" /\ start' /\ term'[1] = 5
      BY <1>1, <2>1
    <3> QED
      BY <3>1, <3>2, <3>3 DEF Twins
  <2>2. CASE max_y' # 5
    <3>1. /\ \A i \in 1..3 : snake'[1][i].x = 2 /\ snake'[2][i].x = max_y' - 3
          /\ Len(snake'[1]) = 3 /\ Len(snake'[2]) = 3
      BY <1>3, <1>6, <1>7, <1>8, <2>0
    <3> QED
      BY <1>2, <2>2, <3>1 DEF SnakesDiffer, SamePos
  <2> QED
    BY <2>1, <2>2
<1> QED
  BY <1>1, <1>2a, <1>9, <1>10, <1>11 DEF BodyInv, Place, Playing

-----------------------------------------------------------------------------
(* The move.                                                                 *)

\* A move keeps the invariant: the old heads, inside and apart, become bodies.
LEMMA MoveBody ==
  ASSUME Inv, BodyInv, Move
  PROVE  BodyInv'
<1> USE PlayersFact
<1> DEFINE t(id) == snake_move(snake[id], snake_end[id], dir[id])
<1>1. /\ pc = "turn" /\ pc' = "turn" /\ step = "move" /\ step' = "one"
      /\ UNCHANGED <<start, max_y, max_x>> /\ Playing /\ Playing'
  BY DEF Move, At, shellVars, sizeVars, Playing
<1>2. \A id \in Players : snake'[id] = t(id) /\ snake_end'[id] = NewHead(snake_end[id], dir[id])
  BY DEF Move
<1>3. \A id \in Players : SnakeOK(snake[id], snake_end[id], score[id]) /\ dir[id] \in Dirs /\ score[id] \in Nat
  BY <1>1 DEF Inv, Bodies, TypeOK
<1>4. ASSUME NEW id \in Players
      PROVE  /\ t(id) \in Seq(Cell) /\ Len(t(id)) = Len(snake[id])
             /\ Len(snake[id]) \in Nat /\ Len(snake[id]) >= 3
             /\ \A i \in 1..(Len(snake[id]) - 1) : t(id)[i] = snake[id][i+1]
             /\ Len(snake_grow(t(id))) = Len(snake[id]) + 1
             /\ \A i \in 1..Len(snake[id]) : /\ snake_grow(t(id))[i].x = snake[id][i].x
                                              /\ snake_grow(t(id))[i].y = snake[id][i].y
             /\ snake_end[id] = snake[id][Len(snake[id])]
  <2>1. SnakeOK(snake[id], snake_end[id], score[id]) /\ dir[id] \in Dirs /\ score[id] \in Nat
    BY <1>3
  <2>2. /\ Len(snake[id]) \in Nat /\ Len(snake[id]) >= 3
        /\ snake_end[id] = snake[id][Len(snake[id])]
    BY <2>1 DEF SnakeOK
  <2> QED
    BY <2>1, <2>2, MoveTrail
<1> HIDE DEF t
<1>5. \A id \in Players : ~Moved(id) /\ Moved(id)' /\ Trail(id) = snake[id] /\ Trail(id)' = snake_grow(t(id))
  BY <1>1, <1>2 DEF Moved, Trail
<1>6. Place'
  BY <1>1 DEF BodyInv, Place
<1>7. Inside'
  <2>1. ASSUME NEW id \in Players, NEW i \in 1..Len(snake[id])
        PROVE  InRoom(snake[id][i])
    <3>1. TrailInside(id) /\ HeadInside(id)
      BY <1>1 DEF BodyInv, Inside
    <3>2. CASE i = Len(snake[id])
      BY <1>1, <1>4, <1>5, <3>1, <3>2 DEF HeadInside
    <3>3. CASE i # Len(snake[id])
      <4>1. i \in 1..(Len(snake[id]) - 1)
        BY <1>4, <3>3
      <4> QED
        BY <4>1, <1>5, <3>1 DEF TrailInside
    <3> QED
      BY <3>2, <3>3
  <2>2. ASSUME NEW id \in Players PROVE TrailInside(id)' /\ HeadInside(id)'
    <3>1. HeadInside(id)'
      BY <1>5 DEF HeadInside
    <3>2. ASSUME NEW i \in 1..(Len(snake_grow(t(id))) - 1)
          PROVE  InRoom(snake_grow(t(id))[i])
      <4>1. i \in 1..Len(snake[id])
        BY <1>4
      <4>2. InRoom(snake[id][i])
        BY <2>1, <4>1
      <4> QED
        BY <1>4, <4>1, <4>2 DEF InRoom
    <3>3. TrailInside(id)'
      BY <1>5, <3>2 DEF TrailInside, InRoom
    <3> QED
      BY <3>1, <3>3
  <2> QED
    BY <2>2 DEF Inside
<1>8. OnlyHeadCrashes'
  <2>1. ASSUME NEW id \in Players, NEW i \in 1..Len(t(id)), NEW j \in 1..Len(t(id)), i < j,
               SamePos(t(id)[i], t(id)[j]), j # Len(t(id))
        PROVE  FALSE
    <3>0. /\ i \in 1..(Len(snake[id]) - 1) /\ j \in 1..(Len(snake[id]) - 1)
          /\ Len(snake[id]) \in Nat /\ Len(t(id)) = Len(snake[id])
      BY <1>4, <2>1
    <3>1. /\ i + 1 \in 1..Len(snake[id]) /\ j + 1 \in 1..Len(snake[id]) /\ i + 1 < j + 1
          /\ t(id)[i] = snake[id][i+1] /\ t(id)[j] = snake[id][j+1]
      BY <1>4, <2>1, <3>0
    <3>2. <<i+1, j+1>> \in Overlaps(snake[id])
      BY <2>1, <3>1 DEF Overlaps
    <3>3. <<i+1, j+1>>[1] = 1
      BY <1>1, <1>5, <3>2 DEF BodyInv, OnlyHeadCrashes
    <3>4. i + 1 = 1
      BY <3>3
    <3> QED
      BY <3>0, <3>4
  <2>2. ASSUME NEW id \in Players, NEW p \in Overlaps(t(id)) PROVE p[2] = Len(t(id))
    <3>1. /\ p[1] \in 1..Len(t(id)) /\ p[2] \in 1..Len(t(id)) /\ p[1] < p[2]
          /\ SamePos(t(id)[p[1]], t(id)[p[2]])
      BY DEF Overlaps
    <3> QED
      BY <3>1, <2>1
  <2> QED
    BY <1>2, <1>5, <2>2 DEF OnlyHeadCrashes, Overlaps
<1>9. Apart'
  <2> SUFFICES ASSUME S!nb_player = 2 PROVE Twins' \/ TrailsApart'
    BY <1>1 DEF Apart, SnakesOf2, Checking
  <2>0. 1 \in Players /\ 2 \in Players
    BY DEF Players
  <2>1. CASE Twins
    <3>1. /\ max_y = 5 /\ \A id \in 1..2 : snake_end[id] = [x |-> 2, y |-> 3, dir |-> RIGHT]
      BY <1>1, <2>1 DEF Twins, Checking
    <3>2. \A d \in Dirs : NewHead([x |-> 2, y |-> 3, dir |-> RIGHT], d).x = 2
                            => NewHead([x |-> 2, y |-> 3, dir |-> RIGHT], d).y = 4
      BY DEF NewHead, Dirs, UP, DOWN, LEFT, RIGHT, Opposite, DX, DY
    <3>3. \A id \in 1..2 : snake_end'[id].x = 2 => snake_end'[id].y = 4
      BY <1>2, <1>3, <2>0, <3>1, <3>2
    <3> QED
      BY <1>1, <3>1, <3>3 DEF Twins, Checking
  <2>2. CASE ~Twins
    <3>1. SnakesDiffer
      BY <1>1, <2>2 DEF BodyInv, Apart, SnakesOf2, Checking
    <3>2. ASSUME NEW i \in 1..(Len(snake_grow(t(1))) - 1), NEW j \in 1..(Len(snake_grow(t(2))) - 1)
          PROVE  ~SamePos(snake_grow(t(1))[i], snake_grow(t(2))[j])
      <4>1. i \in 1..Len(snake[1]) /\ j \in 1..Len(snake[2])
        BY <1>4, <2>0
      <4>2. ~SamePos(snake[1][i], snake[2][j])
        BY <3>1, <4>1 DEF SnakesDiffer
      <4> QED
        BY <1>4, <2>0, <4>1, <4>2 DEF SamePos
    <3>3. TrailsApart'
      BY <1>5, <2>0, <3>2 DEF TrailsApart, SamePos
    <3> QED
      BY <3>3
  <2> QED
    BY <2>1, <2>2
<1> QED
  BY <1>6, <1>7, <1>8, <1>9 DEF BodyInv
-----------------------------------------------------------------------------
(* The checks.                                                               *)

\* The lengths the checks rely on; with the trail one cell longer after a move.
LEMMA TrailLength ==
  ASSUME Inv, Playing, NEW id \in Players
  PROVE  /\ snake[id] \in Seq(Cell) /\ Len(snake[id]) \in Nat /\ Len(snake[id]) >= 3
         /\ snake_end[id] = snake[id][Len(snake[id])] /\ snake_end[id] \in Cell
         /\ Moved(id) => /\ Trail(id) = snake_grow(snake[id])
                         /\ Len(Trail(id)) = Len(snake[id]) + 1
                         /\ \A i \in 1..Len(snake[id]) : Trail(id)[i+1] = snake[id][i]
         /\ ~Moved(id) => Trail(id) = snake[id]
<1>1. SnakeOK(snake[id], snake_end[id], score[id]) /\ score[id] \in Nat
  BY DEF Inv, Bodies, TypeOK
<1>2. /\ snake[id] \in Seq(Cell) /\ Len(snake[id]) \in Nat /\ Len(snake[id]) >= 3
      /\ snake_end[id] = snake[id][Len(snake[id])] /\ snake_end[id] \in Cell
  BY <1>1 DEF SnakeOK
<1>3. /\ Len(snake_grow(snake[id])) = Len(snake[id]) + 1
      /\ \A i \in 1..Len(snake[id]) : snake_grow(snake[id])[i+1] = snake[id][i]
  <2>1. Len(snake[id]) >= 1
    BY <1>2
  <2> QED
    BY <1>2, <2>1, GrowShift
<1> QED
  BY <1>2, <1>3 DEF Trail

\* A head that wall_check accepts is inside the walls of the largest terminal,
\* and on row 2 when the terminal has five rows.
LEMMA WallRoom ==
  ASSUME Place, NEW c \in Cell, ~wall_check(c)
  PROVE  InRoom(c) /\ (max_y = 5 => c.x = 2)
<1>1. /\ max_y \in Int /\ max_y <= MaxRows /\ MaxRows \in Int
      /\ max_x \in Int /\ max_x <= MaxCols /\ MaxCols \in Int
  <2>1. <<max_y, max_x>> \in Sizes
    BY DEF Place
  <2>2. <<max_y, max_x>>[1] = max_y /\ <<max_y, max_x>>[2] = max_x
    OBVIOUS
  <2> QED
    BY <2>1, <2>2, LargestSize
<1>2. c.x \in Int /\ c.y \in Int
  BY DEF Cell
<1>3. c.x > 1 /\ c.x < max_y - 2 /\ c.y > 0 /\ c.y < max_x - 1
  BY <1>1, <1>2 DEF wall_check
<1> QED
  BY <1>1, <1>2, <1>3 DEF InRoom

\* A snake that crash_check accepts has no two cells on one square.
LEMMA NoCrash ==
  ASSUME NEW s, Len(s) \in Nat, ~crash_check(s)
  PROVE  Overlaps(s) = {}
<1> SUFFICES ASSUME NEW p \in Overlaps(s) PROVE FALSE
  OBVIOUS
<1>1. p[1] \in 1..Len(s) /\ p[2] \in 1..Len(s) /\ p[1] < p[2] /\ SamePos(s[p[1]], s[p[2]])
  BY DEF Overlaps
<1>2. p[2] \in 2..Len(s) /\ p[1] \in 1..(p[2] - 1)
  BY <1>1
<1> QED
  BY <1>1, <1>2 DEF crash_check

\* A player that survives: the head is inside, the snake grows by the square it
\* just left or not at all, and only that square can be on another.
LEMMA SurviveOne ==
  ASSUME Inv, BodyInv, Playing, NEW id \in Players, Moved(id), Survive(id)
  PROVE  /\ InRoom(snake_end[id]) /\ (max_y = 5 => snake_end[id].x = 2)
         /\ \A i \in 1..(Len(snake'[id]) - 1) :
              \E j \in 1..(Len(Trail(id)) - 1) : snake'[id][i] = Trail(id)[j]
         /\ \A p \in Overlaps(snake'[id]) : p[1] = 1
         /\ \A k \in Players : k # id => snake'[k] = snake[k]
         /\ UNCHANGED <<snake_end, max_y, max_x>>
<1>1. UNCHANGED <<snake_end, max_y, max_x>> /\ ~wall_check(snake_end[id]) /\ ~crash_check(snake[id])
  BY DEF Survive, sizeVars
<1>2. /\ Len(snake[id]) \in Nat /\ Len(snake[id]) >= 3 /\ snake_end[id] \in Cell
      /\ Trail(id) = snake_grow(snake[id]) /\ Len(Trail(id)) = Len(snake[id]) + 1
      /\ \A i \in 1..Len(snake[id]) : Trail(id)[i+1] = snake[id][i]
  BY TrailLength
<1>3. InRoom(snake_end[id]) /\ (max_y = 5 => snake_end[id].x = 2)
  BY <1>1, <1>2, WallRoom DEF BodyInv
<1>4. Overlaps(snake[id]) = {}
  BY <1>1, <1>2, NoCrash
<1>5. CASE Hits(snake_end[id]) = {}
  <2>1. snake' = snake
    BY <1>5 DEF Survive, bonus_check
  <2>2. ASSUME NEW i \in 1..(Len(snake[id]) - 1)
        PROVE  \E j \in 1..(Len(Trail(id)) - 1) : snake[id][i] = Trail(id)[j]
    <3>1. i + 1 \in 1..(Len(Trail(id)) - 1) /\ snake[id][i] = Trail(id)[i+1]
      BY <1>2
    <3> QED
      BY <3>1
  <2> QED
    BY <1>1, <1>3, <1>4, <2>1, <2>2
<1>6. CASE Hits(snake_end[id]) # {}
  <2>1. snake' = [snake EXCEPT ![id] = snake_grow(snake[id])]
    BY <1>6 DEF Survive, bonus_check
  <2>2. snake'[id] = Trail(id) /\ \A k \in Players : k # id => snake'[k] = snake[k]
    BY <1>2, <2>1 DEF Inv, TypeOK
  <2>3. ASSUME NEW p \in Overlaps(Trail(id)) PROVE p[1] = 1
    <3>1. /\ p[1] \in 1..(Len(snake[id]) + 1) /\ p[2] \in 1..(Len(snake[id]) + 1) /\ p[1] < p[2]
          /\ SamePos(Trail(id)[p[1]], Trail(id)[p[2]])
      BY <1>2 DEF Overlaps
    <3>2. ASSUME p[1] # 1 PROVE FALSE
      <4>1. /\ p[1] - 1 \in 1..Len(snake[id]) /\ p[2] - 1 \in 1..Len(snake[id])
            /\ p[1] - 1 < p[2] - 1 /\ (p[1] - 1) + 1 = p[1] /\ (p[2] - 1) + 1 = p[2]
        <5>1. ASSUME NEW n \in Nat, NEW a \in 1..(n+1), NEW b \in 1..(n+1), a < b, a # 1
              PROVE  a - 1 \in 1..n /\ b - 1 \in 1..n /\ a - 1 < b - 1 /\ (a - 1) + 1 = a /\ (b - 1) + 1 = b
          BY <5>1
        <5> QED
          BY <1>2, <3>1, <3>2, <5>1
      <4>2. Trail(id)[p[1]] = snake[id][p[1] - 1] /\ Trail(id)[p[2]] = snake[id][p[2] - 1]
        BY <1>2, <4>1
      <4>3. <<p[1] - 1, p[2] - 1>> \in Overlaps(snake[id])
        BY <3>1, <4>1, <4>2 DEF Overlaps
      <4> QED
        BY <1>4, <4>3
    <3> QED
      BY <3>2
  <2> QED
    BY <1>1, <1>3, <2>2, <2>3
<1> QED
  BY <1>5, <1>6

\* The player's own invariants after its check.
LEMMA SurviveInside ==
  ASSUME Inv, BodyInv, Playing, NEW id \in Players, Moved(id), Survive(id), ~Moved(id)'
  PROVE  TrailInside(id)' /\ HeadInside(id)' /\ Trail(id)' = snake'[id]
<1>1. TrailInside(id)
  BY DEF BodyInv, Inside
<1>2. Trail(id)' = snake'[id]
  BY DEF Trail
<1>3. ASSUME NEW i \in 1..(Len(snake'[id]) - 1) PROVE InRoom(snake'[id][i])
  <2>1. PICK j \in 1..(Len(Trail(id)) - 1) : snake'[id][i] = Trail(id)[j]
    BY SurviveOne
  <2> QED
    BY <1>1, <2>1 DEF TrailInside
<1>4. TrailInside(id)'
  BY <1>2, <1>3 DEF TrailInside, InRoom
<1>5. HeadInside(id)'
  BY SurviveOne DEF HeadInside, InRoom
<1> QED
  BY <1>2, <1>4, <1>5

\* The end of the game: the bodies are where they were.
LEMMA HaltBody ==
  ASSUME Inv, BodyInv, pc = "turn", pc' = "halt", UNCHANGED <<step, max_y, max_x, snake, snake_end>>
  PROVE  BodyInv'
<1>1. Playing /\ Playing'
  BY DEF Playing
<1>2. Place' /\ Apart'
  BY <1>1 DEF BodyInv, Place, Apart, SnakesOf2
<1>3. \A id \in Players : ~Moved(id)' /\ Trail(id)' = snake[id]
  BY DEF Moved, Trail
<1>4. OnlyHeadCrashes'
  BY <1>3 DEF OnlyHeadCrashes
<1>5. ASSUME NEW id \in Players, NEW i \in 1..(Len(snake[id]) - 1) PROVE InRoom(snake[id][i])
  <2>1. TrailInside(id)
    BY <1>1 DEF BodyInv, Inside
  <2>2. CASE Moved(id)
    <3>1. /\ Len(snake[id]) \in Nat /\ Len(Trail(id)) = Len(snake[id]) + 1
          /\ \A k \in 1..Len(snake[id]) : Trail(id)[k+1] = snake[id][k]
      BY <1>1, <2>2, TrailLength
    <3>2. i + 1 \in 1..(Len(Trail(id)) - 1) /\ Trail(id)[i+1] = snake[id][i]
      BY <3>1
    <3> QED
      BY <2>1, <3>2 DEF TrailInside
  <2>3. CASE ~Moved(id)
    BY <1>1, <2>1, <2>3, TrailLength DEF TrailInside
  <2> QED
    BY <2>2, <2>3
<1>6. ASSUME NEW id \in Players PROVE TrailInside(id)' /\ HeadInside(id)'
  BY <1>3, <1>5 DEF TrailInside, HeadInside, InRoom
<1> QED
  BY <1>2, <1>4, <1>6 DEF BodyInv, Inside

\* A trail that did not change during the other player's check.
LEMMA OtherSnake ==
  ASSUME BodyInv, Playing, pc # "halt", NEW k \in Players, snake'[k] = snake[k], UNCHANGED snake_end,
         Moved(k)' = Moved(k)
  PROVE  /\ Trail(k)' = Trail(k) /\ TrailInside(k)' /\ HeadInside(k)'
         /\ \A p \in Overlaps(snake'[k]) : IF Moved(k)' THEN p[2] = Len(snake'[k]) ELSE p[1] = 1
<1>1. Trail(k)' = Trail(k)
  BY DEF Trail
<1>2. TrailInside(k) /\ HeadInside(k)
  BY DEF BodyInv, Inside
<1>3. TrailInside(k)' /\ HeadInside(k)'
  BY <1>1, <1>2 DEF TrailInside, HeadInside, InRoom
<1> QED
  BY <1>1, <1>3 DEF BodyInv, OnlyHeadCrashes

\* Player 1's check keeps the invariant.
LEMMA CheckOneBody ==
  ASSUME Inv, BodyInv, CheckOne
  PROVE  BodyInv'
<1> USE PlayersFact
<1>1. pc = "turn" /\ step = "one" /\ Playing /\ Moved(1)
  BY DEF CheckOne, At, Playing, Moved
<1>2. CASE Lose(1)
  <2>1. pc' = "halt" /\ UNCHANGED <<step, max_y, max_x, snake, snake_end>>
    BY <1>2 DEF Lose, S!Turn, sizeVars, snakeVars
  <2> QED
    BY <1>1, <2>1, HaltBody
<1>3. CASE Survive(1) /\ S!nb_player = 2 /\ step' = "two" /\ UNCHANGED shellVars
  <2>0. pc' = "turn" /\ start' = start /\ Playing' /\ ~Moved(1)' /\ Players = {1, 2}
    BY <1>1, <1>3 DEF shellVars, Playing, Moved, Players
  <2>0a. Moved(2) = TRUE /\ Moved(2)' = TRUE
    BY <1>1, <1>3, <2>0 DEF Moved
  <2>1. /\ \A i \in 1..(Len(snake'[1]) - 1) :
             \E j \in 1..(Len(Trail(1)) - 1) : snake'[1][i] = Trail(1)[j]
        /\ \A p \in Overlaps(snake'[1]) : p[1] = 1
        /\ snake'[2] = snake[2] /\ UNCHANGED <<snake_end, max_y, max_x>>
        /\ max_y = 5 => snake_end[1].x = 2
    BY <1>1, <1>3, <2>0, SurviveOne
  <2>2. TrailInside(1)' /\ HeadInside(1)' /\ Trail(1)' = snake'[1]
    BY <1>1, <1>3, <2>0, SurviveInside
  <2>3. /\ Trail(2)' = Trail(2) /\ TrailInside(2)' /\ HeadInside(2)'
        /\ \A p \in Overlaps(snake'[2]) : IF Moved(2)' THEN p[2] = Len(snake'[2]) ELSE p[1] = 1
    BY <1>1, <2>0, <2>0a, <2>1, OtherSnake
  <2>4. Place'
    BY <2>0, <2>1 DEF BodyInv, Place
  <2>5. Inside'
    BY <2>0, <2>2, <2>3 DEF Inside
  <2>6. OnlyHeadCrashes'
    <3>1. ASSUME NEW id \in Players
          PROVE  \A p \in Overlaps(snake'[id]) : IF Moved(id)' THEN p[2] = Len(snake'[id]) ELSE p[1] = 1
      <4>1. CASE id = 1
        BY <2>0, <2>1, <4>1
      <4>2. CASE id = 2
        BY <2>3, <4>2
      <4> QED
        BY <2>0, <4>1, <4>2
    <3> QED
      BY <3>1 DEF OnlyHeadCrashes, Overlaps
  <2>7. Apart'
    <3>1. CASE Twins
      <4>1. Twins'
        BY <1>1, <1>3, <2>0, <2>1, <3>1 DEF Twins, Checking
      <4> QED
        BY <4>1 DEF Apart
    <3>2. CASE ~Twins
      <4>1. TrailsApart
        BY <1>1, <1>3, <3>2 DEF BodyInv, Apart, SnakesOf2, Checking
      <4>2. ASSUME NEW i \in 1..(Len(snake'[1]) - 1), NEW j \in 1..(Len(Trail(2)) - 1)
            PROVE  ~SamePos(snake'[1][i], Trail(2)[j])
        BY <2>1, <4>1 DEF TrailsApart
      <4>3. TrailsApart'
        BY <2>2, <2>3, <4>2 DEF TrailsApart, SamePos
      <4> QED
        BY <1>3, <2>0, <4>3 DEF Apart, Checking
    <3> QED
      BY <3>1, <3>2
  <2> QED
    BY <2>4, <2>5, <2>6, <2>7 DEF BodyInv
<1>4. CASE Survive(1) /\ S!nb_player = 1 /\ S!Turn(0) /\ UNCHANGED step
  <2>0. pc' = "poll" /\ start' = start /\ Playing' /\ ~Moved(1)' /\ Players = {1}
    BY <1>4 DEF S!Turn, Playing, Moved, Players
  <2>1. (\A p \in Overlaps(snake'[1]) : p[1] = 1) /\ UNCHANGED <<max_y, max_x>>
    BY <1>1, <1>4, <2>0, SurviveOne
  <2>2. TrailInside(1)' /\ HeadInside(1)'
    BY <1>1, <1>4, <2>0, SurviveInside
  <2>3. Place' /\ Apart'
    BY <1>4, <2>0, <2>1 DEF BodyInv, Place, Apart, SnakesOf2
  <2>4. Inside'
    BY <2>0, <2>2 DEF Inside
  <2>5. OnlyHeadCrashes'
    BY <2>0, <2>1 DEF OnlyHeadCrashes, Overlaps
  <2> QED
    BY <2>3, <2>4, <2>5 DEF BodyInv
<1> QED
  BY <1>2, <1>3, <1>4 DEF CheckOne

\* Player 2's check keeps the invariant.
LEMMA CheckTwoBody ==
  ASSUME Inv, BodyInv, CheckTwo
  PROVE  BodyInv'
<1>1. pc = "turn" /\ step = "two" /\ Playing /\ Moved(2) /\ S!nb_player = 2 /\ Players = {1, 2}
  BY DEF CheckTwo, At, Playing, Moved, Inv, Control, Players
<1>2. CASE Lose(2)
  <2>1. pc' = "halt" /\ UNCHANGED <<step, max_y, max_x, snake, snake_end>>
    BY <1>2 DEF Lose, S!Turn, sizeVars, snakeVars
  <2> QED
    BY <1>1, <2>1, HaltBody
<1>3. CASE Survive(2) /\ step' = "cross" /\ UNCHANGED shellVars
  <2>0. pc' = "turn" /\ start' = start /\ Playing' /\ ~Moved(2)'
    BY <1>1, <1>3 DEF shellVars, Playing, Moved
  <2>0a. Moved(1) = FALSE /\ Moved(1)' = FALSE
    BY <1>1, <1>3, <2>0 DEF Moved
  <2>1. /\ \A i \in 1..(Len(snake'[2]) - 1) :
             \E j \in 1..(Len(Trail(2)) - 1) : snake'[2][i] = Trail(2)[j]
        /\ \A p \in Overlaps(snake'[2]) : p[1] = 1
        /\ snake'[1] = snake[1] /\ UNCHANGED <<snake_end, max_y, max_x>>
        /\ max_y = 5 => snake_end[2].x = 2
    BY <1>1, <1>3, SurviveOne
  <2>2. TrailInside(2)' /\ HeadInside(2)' /\ Trail(2)' = snake'[2]
    BY <1>1, <1>3, <2>0, SurviveInside
  <2>3. /\ Trail(1)' = Trail(1) /\ TrailInside(1)' /\ HeadInside(1)'
        /\ \A p \in Overlaps(snake'[1]) : IF Moved(1)' THEN p[2] = Len(snake'[1]) ELSE p[1] = 1
    BY <1>1, <2>0a, <2>1, OtherSnake
  <2>4. Place'
    BY <2>0, <2>1 DEF BodyInv, Place
  <2>5. Inside'
    BY <1>1, <2>2, <2>3 DEF Inside
  <2>6. OnlyHeadCrashes'
    <3>1. ASSUME NEW id \in Players
          PROVE  \A p \in Overlaps(snake'[id]) : IF Moved(id)' THEN p[2] = Len(snake'[id]) ELSE p[1] = 1
      <4>1. CASE id = 1
        BY <2>3, <4>1
      <4>2. CASE id = 2
        BY <2>0, <2>1, <4>2
      <4> QED
        BY <1>1, <4>1, <4>2
    <3> QED
      BY <3>1 DEF OnlyHeadCrashes, Overlaps
  <2>7. Apart'
    <3>1. CASE Twins
      <4>1. Twins'
        BY <1>1, <1>3, <2>0, <2>1, <3>1 DEF Twins, Checking
      <4> QED
        BY <4>1 DEF Apart
    <3>2. CASE ~Twins
      <4>1. TrailsApart
        BY <1>1, <3>2 DEF BodyInv, Apart, SnakesOf2, Checking
      <4>2. ASSUME NEW i \in 1..(Len(Trail(1)) - 1), NEW j \in 1..(Len(snake'[2]) - 1)
            PROVE  ~SamePos(Trail(1)[i], snake'[2][j])
        BY <2>1, <4>1 DEF TrailsApart
      <4>3. TrailsApart'
        BY <2>2, <2>3, <4>2 DEF TrailsApart, SamePos
      <4> QED
        BY <1>3, <2>0, <4>3 DEF Apart, Checking
    <3> QED
      BY <3>1, <3>2
  <2> QED
    BY <2>4, <2>5, <2>6, <2>7 DEF BodyInv
<1> QED
  BY <1>2, <1>3 DEF CheckTwo

\* The check of one snake against the other keeps the invariant.
LEMMA CheckCrossBody ==
  ASSUME Inv, BodyInv, CheckCross
  PROVE  BodyInv'
<1>1. /\ pc = "turn" /\ step = "cross" /\ Playing /\ S!nb_player = 2 /\ Players = {1, 2}
      /\ UNCHANGED <<step, max_y, max_x, snake, snake_end, start>>
      /\ pc' = IF CrossOutcome = 0 THEN "poll" ELSE "halt"
  BY DEF CheckCross, At, Playing, Inv, Control, Players, S!Turn, sizeVars, snakeVars
<1>2. CASE CrossOutcome # 0
  BY <1>1, <1>2, HaltBody
<1>3. CASE CrossOutcome = 0
  <2>1. pc' = "poll" /\ \A id \in Players : ~Moved(id) /\ ~Moved(id)'
    BY <1>1, <1>3 DEF Moved
  <2>2. Inside' /\ OnlyHeadCrashes'
    BY <1>1, <2>1, SameBodies
  <2>3. Place'
    BY <1>1, <2>1 DEF BodyInv, Place, Playing
  <2>4. ASSUME NEW id \in Players
        PROVE  /\ Len(snake[id]) \in Nat /\ Len(snake[id]) \in 1..Len(snake[id]) /\ Trail(id) = snake[id]
               /\ snake_end[id] = snake[id][Len(snake[id])]
    BY <1>1, <2>1, TrailLength
  <2>5. /\ \A i \in 1..Len(snake[1]) : ~SamePos(snake[1][i], snake_end[2])
        /\ \A j \in 1..Len(snake[2]) : ~SamePos(snake[2][j], snake_end[1])
    BY <1>3 DEF CrossOutcome, crash_snake_check
  <2>6. ~Twins
    <3> SUFFICES ASSUME Twins PROVE FALSE
      OBVIOUS
    <3>1. SamePos(snake_end[1], snake_end[2])
      BY <1>1 DEF Twins, Checking, SamePos
    <3> QED
      BY <1>1, <2>4, <2>5, <3>1
  <2>7. TrailsApart
    BY <1>1, <2>6 DEF BodyInv, Apart, SnakesOf2, Checking
  <2>8. ASSUME NEW i \in 1..Len(snake[1]), NEW j \in 1..Len(snake[2])
        PROVE  ~SamePos(snake[1][i], snake[2][j])
    <3>1. CASE i = Len(snake[1])
      BY <1>1, <2>4, <2>5, <3>1 DEF SamePos
    <3>2. CASE j = Len(snake[2])
      BY <1>1, <2>4, <2>5, <3>2
    <3>3. CASE i # Len(snake[1]) /\ j # Len(snake[2])
      <4>1. i \in 1..(Len(snake[1]) - 1) /\ j \in 1..(Len(snake[2]) - 1)
        BY <1>1, <2>4, <3>3
      <4> QED
        BY <1>1, <2>4, <2>7, <4>1 DEF TrailsApart
    <3> QED
      BY <3>1, <3>2, <3>3
  <2>9. Apart'
    BY <1>1, <2>1, <2>8 DEF Apart, Checking, SnakesDiffer, SamePos
  <2> QED
    BY <2>2, <2>3, <2>9 DEF BodyInv
<1> QED
  BY <1>2, <1>3

-----------------------------------------------------------------------------

\* The invariant holds at the start.
LEMMA InitBody == Init => BodyInv
<1> SUFFICES ASSUME Init PROVE BodyInv
  OBVIOUS
<1>1. pc = "init" /\ start /\ ~Playing
  BY DEF Init, S!Init, Playing
<1>2. <<max_y, max_x>> \in Sizes
  <2>1. \A z \in Sizes : <<z[1], z[2]>> \in Sizes
    BY SizesFit
  <2> QED
    BY <2>1 DEF Init
<1>3. \A id \in Players : Overlaps(snake[id]) = {}
  BY DEF Init, Overlaps
<1> QED
  BY <1>1, <1>2, <1>3 DEF BodyInv, Place, Inside, OnlyHeadCrashes, Apart, SnakesOf2

\* BodyInv is inductive relative to Inv.
LEMMA NextBody == Inv /\ BodyInv /\ [Next]_vars => BodyInv'
<1> SUFFICES ASSUME Inv, BodyInv, [Next]_vars PROVE BodyInv'
  OBVIOUS
<1>1. CASE Send
  BY <1>1, StillBody DEF Send, S!usb_send, sizeVars, snakeVars
<1>2. CASE UNCHANGED vars
  BY <1>2, StillBody DEF vars, shellVars, sizeVars, snakeVars
<1> QED
  BY <1>1, <1>2, BeginBody, Menu2Body, LoopBody, MoveBody, CheckOneBody, CheckTwoBody,
     CheckCrossBody DEF Next

\* BodyInv, the inductive invariant behind the theorems below, holds always.
THEOREM BodyInvariance == Spec => [](Inv /\ BodyInv)
BY InitInv, NextInv, InitBody, NextBody, PTL DEF Spec

\* No cell behind the head is ever in a wall of the largest terminal, though
\* snake_grow looks at no wall: for every set of sizes and any resizes.
THEOREM BodyStaysInside == Spec => []BodyInside
<1>1. Inv /\ BodyInv => BodyInside
  <2> SUFFICES ASSUME Inv, BodyInv, NEW id \in Players, NEW i \in 1..(Len(snake[id]) - 1)
               PROVE  InRoom(snake[id][i])
    BY DEF BodyInside, InRoom
  <2>1. CASE ~Playing
    <3>1. snake[id] = <<>>
      BY <2>1 DEF Inv, Control
    <3> QED
      BY <3>1
  <2>2. CASE Playing
    <3>1. TrailInside(id)
      BY <2>2 DEF BodyInv, Inside
    <3>2. CASE Moved(id)
      <4>1. /\ Len(snake[id]) \in Nat /\ Len(Trail(id)) = Len(snake[id]) + 1
            /\ \A k \in 1..Len(snake[id]) : Trail(id)[k+1] = snake[id][k]
        BY <2>2, <3>2, TrailLength
      <4>2. i + 1 \in 1..(Len(Trail(id)) - 1) /\ Trail(id)[i+1] = snake[id][i]
        BY <4>1
      <4> QED
        BY <3>1, <4>2 DEF TrailInside
    <3>3. CASE ~Moved(id)
      BY <2>2, <3>1, <3>3, TrailLength DEF TrailInside
    <3> QED
      BY <3>2, <3>3
  <2> QED
    BY <2>1, <2>2
<1> QED
  BY <1>1, BodyInvariance, PTL

\* crash_check, which compares all pairs of cells, only ever fails a player for
\* its head, or for the cell it grew in the iteration before.
THEOREM CrashIsTheHeads == Spec => []OnlyHeadCrashes
<1>1. BodyInv => OnlyHeadCrashes
  BY DEF BodyInv
<1> QED
  BY <1>1, BodyInvariance, PTL

\* Two snakes that are both alive at the end of an iteration share no square,
\* though crash_snake_check compares heads with bodies only.
THEOREM SnakesStayApart == Spec => []SnakesApart
<1>1. BodyInv => SnakesApart
  BY DEF BodyInv, Apart, SnakesOf2, Twins, Checking, SnakesDiffer, SnakesApart
<1> QED
  BY <1>1, BodyInvariance, PTL
==============================================================================
