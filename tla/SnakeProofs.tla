----------------------------- MODULE SnakeProofs -----------------------------
(***************************************************************************)
(* Theorems about module Snake, for every terminal, every amount of        *)
(* bonuses and any number of turns.                                        *)
(***************************************************************************)
EXTENDS Snake, TLAPS, WellFoundedInduction, FiniteSetTheorems

-----------------------------------------------------------------------------
(* Facts about the list operations.                                        *)

\* tail_add then head_del: the cells shift by one and the new one is last.
LEMMA MoveSeq ==
  ASSUME NEW T, NEW s \in Seq(T), Len(s) >= 1, NEW c \in T
  PROVE  /\ Append(Tail(s), c) \in Seq(T)
         /\ Len(Append(Tail(s), c)) = Len(s)
         /\ \A i \in 1..(Len(s) - 1) : Append(Tail(s), c)[i] = s[i+1]
         /\ Append(Tail(s), c)[Len(s)] = c
OBVIOUS

\* head_add: the cells shift the other way and the new one is first.
LEMMA GrowSeq ==
  ASSUME NEW T, NEW s \in Seq(T), NEW c \in T
  PROVE  /\ <<c>> \o s \in Seq(T)
         /\ Len(<<c>> \o s) = Len(s) + 1
         /\ (<<c>> \o s)[1] = c
         /\ \A i \in 1..Len(s) : (<<c>> \o s)[i+1] = s[i]
OBVIOUS

\* A set of numbers has a least element.
LEMMA Least ==
  ASSUME NEW I \in SUBSET Nat, I # {}
  PROVE  \E x \in I : \A y \in I : x <= y
<1>1. PICK x \in I : \A y \in I : ~(<<y, x>> \in OpToRel(<, Nat))
  BY NatLessThanWellFounded, WFMin
<1>2. ASSUME NEW y \in I PROVE x <= y
  <2>1. <<y, x>> \in Nat \X Nat /\ <<y, x>>[1] = y /\ <<y, x>>[2] = x
    OBVIOUS
  <2>2. (<<y, x>>[1] < <<y, x>>[2]) => <<y, x>> \in OpToRel(<, Nat)
    BY <2>1 DEF OpToRel
  <2>3. ~(y < x)
    BY <1>1, <2>1, <2>2
  <2> QED
    BY <2>3
<1> QED
  BY <1>2

\* The loops over bonus_list that stop at the first slot of a kind find one
\* whenever there is one.
LEMMA FirstIn ==
  ASSUME NEW I \in SUBSET Nat, I # {}
  PROVE  First(I) \in I
BY Least DEF First

\* One player or two, whatever the command line says.
LEMMA PlayersFact == S!nb_player \in {1, 2} /\ Players \subseteq {1, 2} /\ 1 \in Players
BY ShellConstants DEF S!nb_player, Players

\* A direction and its opposite.
LEMMA DirFacts ==
  ASSUME NEW d \in Dirs
  PROVE  /\ DX(d) \in {-1, 0, 1} /\ DY(d) \in {-1, 0, 1}
         /\ Opposite(d) \in Dirs /\ Opposite(Opposite(d)) = d /\ Opposite(d) # d
BY DEF Dirs, UP, DOWN, LEFT, RIGHT, DX, DY, Opposite

\* The cell the head enters is a cell next to the head, and not behind it.
LEMMA NewHeadCell ==
  ASSUME NEW e \in Cell, NEW d \in Dirs
  PROVE  /\ NewHead(e, d) \in Cell
         /\ NewHead(e, d).x = e.x + DX(NewHead(e, d).dir)
         /\ NewHead(e, d).y = e.y + DY(NewHead(e, d).dir)
         /\ NewHead(e, d).dir # Opposite(e.dir)
<1> DEFINE f == IF d = Opposite(e.dir) THEN e.dir ELSE d
<1>1. e.dir \in Dirs /\ e.x \in Int /\ e.y \in Int
  BY DEF Cell
<1>2. f \in Dirs /\ f # Opposite(e.dir)
  BY <1>1, DirFacts
<1>3. DX(f) \in Int /\ DY(f) \in Int
  BY <1>2, DirFacts
<1>4. NewHead(e, d) = [x |-> e.x + DX(f), y |-> e.y + DY(f), dir |-> f]
  BY DEF NewHead
<1> HIDE DEF f
<1> QED
  BY <1>1, <1>2, <1>3, <1>4 DEF Cell

-----------------------------------------------------------------------------
(* The control flow keeps its type.  The pause menu has two lines, so its    *)
(* highlight stays below 2.                                                  *)

PauseLine == pc = "pause" => highlight \in 0..1

ShellStep ==
  \/ S!Refused \/ S!init_usb \/ S!init_usb_done \/ S!menu2_disp \/ S!Killed \/ S!usb_send
  \/ \E k \in Nat : S!menu_disp(k) \/ S!quit_disp(k) \/ \E k2 \in Keyboard : S!Poll(k, k2)
  \/ \E out \in 0..S!nb_player : S!Turn(out)
  \/ UNCHANGED shellVars

Commands == {q \in Seq({48, 49}) : Len(q) <= 2}

\* The LED commands are sequences of 48 and 49.
LEMMA CommandsFact == <<48, 48>> \in Commands /\ <<49, 49>> \in Commands
BY DEF Commands

\* The control flow around the game keeps its types.
LEMMA ShellType ==
  ASSUME S!TypeOK, PauseLine, ShellStep
  PROVE  S!TypeOK' /\ PauseLine'
<1> USE PlayersFact
<1>0. tosend \in Commands
  BY DEF S!TypeOK, Commands
<1>1. CASE S!Refused \/ S!init_usb \/ S!init_usb_done \/ S!menu2_disp \/ S!Killed
  BY <1>1 DEF S!TypeOK, PauseLine, S!Refused, S!init_usb, S!init_usb_done, S!menu2_disp, S!Killed
<1>2. CASE S!usb_send
  BY <1>2 DEF S!TypeOK, PauseLine, S!usb_send
<1>3. ASSUME NEW k \in Nat, S!menu_disp(k) PROVE S!TypeOK' /\ PauseLine'
  <2>1. highlight \in 0..3 /\ S!Rate[highlight] \in {0, 120, 80, 50, 5}
    BY DEF S!TypeOK, S!Rate
  <2>2. S!Highlight(k, 4) \in 0..3
    BY <2>1 DEF S!Highlight
  <2> QED
    BY <1>3, <2>1, <2>2 DEF S!TypeOK, PauseLine, S!menu_disp
<1>4. ASSUME NEW k \in Nat, S!quit_disp(k) PROVE S!TypeOK' /\ PauseLine'
  <2>1. highlight \in 0..1
    BY <1>4 DEF PauseLine, S!quit_disp
  <2>2. S!Highlight(k, 2) \in 0..1
    BY <2>1 DEF S!Highlight
  <2>3. highlight' \in 0..1 /\ pc' \in {"turn", "halt", "pause"}
    BY <1>4, <2>1, <2>2 DEF S!quit_disp
  <2>4. tosend' \in Commands
    <3>1. tosend' \in {tosend, <<48, 48>>}
      BY <1>4 DEF S!quit_disp
    <3> QED
      BY <3>1, <1>0, CommandsFact
  <2> QED
    BY <1>4, <2>3, <2>4 DEF S!TypeOK, PauseLine, S!quit_disp, Commands
<1>5. ASSUME NEW k \in Nat, NEW k2 \in Keyboard, S!Poll(k, k2) PROVE S!TypeOK' /\ PauseLine'
  <2>1. ch2' \in Keyboard \cup Garbage
    BY <1>5 DEF S!TypeOK, S!Poll
  <2>2. PauseLine' /\ highlight' \in 0..3 /\ pc' \in {"turn", "pause"}
    BY <1>5 DEF S!TypeOK, PauseLine, S!Poll
  <2>3. tosend' \in Commands
    <3>1. tosend' \in {tosend, <<49, 49>>}
      BY <1>5 DEF S!Poll
    <3> QED
      BY <3>1, <1>0, CommandsFact
  <2> QED
    BY <1>5, <2>1, <2>2, <2>3 DEF S!TypeOK, S!Poll, Commands
<1>6. ASSUME NEW out \in 0..S!nb_player, S!Turn(out) PROVE S!TypeOK' /\ PauseLine'
  <2>1. tosend' \in Commands
    <3>1. tosend' \in {tosend, <<48, 48>>}
      BY <1>6 DEF S!Turn
    <3> QED
      BY <3>1, <1>0, CommandsFact
  <2>2. pc' \in {"poll", "halt"}
    BY <1>6 DEF S!Turn
  <2> QED
    BY <1>6, <2>1, <2>2 DEF S!TypeOK, PauseLine, S!Turn, Commands
<1>7. CASE UNCHANGED shellVars
  BY <1>7 DEF S!TypeOK, PauseLine, shellVars
<1> QED
  BY <1>1, <1>2, <1>3, <1>4, <1>5, <1>6, <1>7 DEF ShellStep

-----------------------------------------------------------------------------
(* One snake.                                                                *)

\* What the list s, the copy e of its head and the score n have to do with
\* one another.
SnakeOK(s, e, n) ==
  /\ s \in Seq(Cell)
  /\ Len(s) = 3 + n
  /\ e = s[Len(s)]
  /\ Chained(s)

\* snake_move keeps the snake well formed.
LEMMA MoveOK ==
  ASSUME NEW s, NEW e, NEW n \in Nat, NEW d \in Dirs, SnakeOK(s, e, n)
  PROVE  SnakeOK(snake_move(s, e, d), NewHead(e, d), n)
<1> DEFINE c == NewHead(e, d)
           t == snake_move(s, e, d)
<1>1. s \in Seq(Cell) /\ Len(s) = 3 + n /\ e = s[Len(s)] /\ e \in Cell
  BY DEF SnakeOK
<1>2. /\ c \in Cell /\ c.x = e.x + DX(c.dir) /\ c.y = e.y + DY(c.dir)
      /\ c.dir # Opposite(e.dir)
  BY <1>1, NewHeadCell
<1> HIDE DEF c
<1>3. /\ t \in Seq(Cell) /\ Len(t) = Len(s) /\ t[Len(s)] = c
      /\ \A i \in 1..(Len(s) - 1) : t[i] = s[i+1]
  BY <1>1, <1>2, MoveSeq DEF snake_move, c
<1> HIDE DEF t
<1>4. ASSUME NEW i \in 1..(Len(t) - 1)
      PROVE  /\ t[i+1].x = t[i].x + DX(t[i+1].dir)
             /\ t[i+1].y = t[i].y + DY(t[i+1].dir)
             /\ t[i+1].dir # Opposite(t[i].dir)
  <2>1. CASE i = Len(s) - 1
    <3>1. t[i] = e /\ t[i+1] = c
      BY <1>1, <1>3, <2>1
    <3> QED
      BY <3>1, <1>2
  <2>2. CASE i # Len(s) - 1
    <3>1. i \in 1..(Len(s) - 2) /\ i + 1 \in 1..(Len(s) - 1)
      BY <1>1, <1>3, <2>2
    <3>2. t[i] = s[i+1] /\ t[i+1] = s[(i+1)+1]
      BY <1>3, <3>1, <1>1
    <3> QED
      BY <3>1, <3>2 DEF SnakeOK, Chained
  <2> QED
    BY <2>1, <2>2
<1> QED
  BY <1>1, <1>3, <1>4 DEF SnakeOK, Chained, c, t

\* snake_grow keeps the snake well formed and one cell longer.
LEMMA GrowOK ==
  ASSUME NEW s, NEW e, NEW n \in Nat, SnakeOK(s, e, n)
  PROVE  SnakeOK(snake_grow(s), e, n + 1)
<1> DEFINE h == Head(s)
           c == [x |-> h.x - DX(h.dir), y |-> h.y - DY(h.dir), dir |-> h.dir]
           t == snake_grow(s)
<1>1. s \in Seq(Cell) /\ Len(s) = 3 + n /\ e = s[Len(s)] /\ h = s[1] /\ h \in Cell
  BY DEF SnakeOK
<1> HIDE DEF h
<1>2. h.x \in Int /\ h.y \in Int /\ h.dir \in Dirs
  BY <1>1 DEF Cell
<1>3. DX(h.dir) \in Int /\ DY(h.dir) \in Int /\ h.dir # Opposite(h.dir)
  BY <1>2, DirFacts
<1>4. c \in Cell /\ h.x = c.x + DX(h.dir) /\ h.y = c.y + DY(h.dir) /\ c.dir = h.dir
  BY <1>2, <1>3 DEF Cell
<1> HIDE DEF c
<1>5. t = <<c>> \o s
  BY DEF snake_grow, c, h
<1>6. /\ t \in Seq(Cell) /\ Len(t) = Len(s) + 1 /\ t[1] = c
      /\ \A i \in 1..Len(s) : t[i+1] = s[i]
  BY <1>1, <1>4, <1>5, GrowSeq
<1> HIDE DEF t
<1>7. ASSUME NEW i \in 1..(Len(t) - 1)
      PROVE  /\ t[i+1].x = t[i].x + DX(t[i+1].dir)
             /\ t[i+1].y = t[i].y + DY(t[i+1].dir)
             /\ t[i+1].dir # Opposite(t[i].dir)
  <2>1. CASE i = 1
    <3>1. t[i] = c /\ t[i+1] = h
      BY <1>1, <1>6, <2>1
    <3> QED
      BY <3>1, <1>3, <1>4
  <2>2. CASE i # 1
    <3>1. i - 1 \in 1..(Len(s) - 1) /\ i \in 1..Len(s)
      BY <1>1, <1>6, <2>2
    <3>2. t[i] = s[i-1] /\ t[i+1] = s[(i-1)+1]
      BY <1>6, <3>1, <1>1
    <3> QED
      BY <3>1, <3>2 DEF SnakeOK, Chained
  <2> QED
    BY <2>1, <2>2
<1>8. e = t[Len(t)]
  BY <1>1, <1>6
<1> QED
  BY <1>1, <1>6, <1>7, <1>8 DEF SnakeOK, Chained, t

\* Two cells at most three apart in a well-formed snake do not coincide: one
\* apart they are neighbours, two apart they are not a reversal, and three
\* apart they are on squares of different colours.
LEMMA ShortNoCrash ==
  ASSUME NEW s \in Seq(Cell), Chained(s), Len(s) <= 4
  PROVE  ~crash_check(s)
<1>1. ASSUME NEW j \in 2..Len(s), NEW i \in 1..(j-1), SamePos(s[i], s[j])
      PROVE  FALSE
  <2>1. \A k \in 1..Len(s) : s[k].x \in Int /\ s[k].y \in Int /\ s[k].dir \in Dirs
    <3>1. \A k \in 1..Len(s) : s[k] \in Cell
      OBVIOUS
    <3> QED
      BY <3>1 DEF Cell
  <2>2. \A k \in 1..(Len(s)-1) :
          /\ s[k+1].x = s[k].x + DX(s[k+1].dir)
          /\ s[k+1].y = s[k].y + DY(s[k+1].dir)
          /\ s[k+1].dir # Opposite(s[k].dir)
    BY DEF Chained
  <2>3. CASE j = i + 1
    BY <1>1, <2>1, <2>2, <2>3 DEF SamePos, DX, DY, Dirs, UP, DOWN, LEFT, RIGHT
  <2>4. CASE j = i + 2
    <3>1. i \in 1..(Len(s)-1) /\ i + 1 \in 1..(Len(s)-1) /\ (i+1)+1 = i + 2 /\ i + 2 \in 1..Len(s)
      BY <2>4
    <3>2. ASSUME NEW a \in Dirs, NEW b \in Dirs, b # Opposite(a), NEW x \in Int, NEW y \in Int
          PROVE  x + DX(a) + DX(b) # x \/ y + DY(a) + DY(b) # y
      BY <3>2 DEF DX, DY, Dirs, UP, DOWN, LEFT, RIGHT, Opposite
    <3>3. /\ s[i+2].x = s[i].x + DX(s[i+1].dir) + DX(s[i+2].dir)
          /\ s[i+2].y = s[i].y + DY(s[i+1].dir) + DY(s[i+2].dir)
          /\ s[i+2].dir # Opposite(s[i+1].dir)
      BY <2>2, <3>1
    <3> QED
      BY <1>1, <2>1, <2>4, <3>1, <3>2, <3>3 DEF SamePos
  <2>5. CASE j = i + 3
    <3>1. /\ i \in 1..(Len(s)-1) /\ i + 1 \in 1..(Len(s)-1) /\ (i+1)+1 = i + 2
          /\ i + 2 \in 1..(Len(s)-1) /\ (i+2)+1 = i + 3 /\ i + 3 \in 1..Len(s)
      BY <2>5
    <3>2. ASSUME NEW a \in Dirs, NEW b \in Dirs, NEW c \in Dirs, NEW x \in Int, NEW y \in Int
          PROVE  x + DX(a) + DX(b) + DX(c) # x \/ y + DY(a) + DY(b) + DY(c) # y
      BY <3>2 DEF DX, DY, Dirs, UP, DOWN, LEFT, RIGHT
    <3>3. /\ s[i+3].x = s[i].x + DX(s[i+1].dir) + DX(s[i+2].dir) + DX(s[i+3].dir)
          /\ s[i+3].y = s[i].y + DY(s[i+1].dir) + DY(s[i+2].dir) + DY(s[i+3].dir)
      BY <2>2, <3>1
    <3> QED
      BY <1>1, <2>1, <2>5, <3>1, <3>2, <3>3 DEF SamePos
  <2> QED
    BY <2>3, <2>4, <2>5
<1> QED
  BY <1>1 DEF crash_check

-----------------------------------------------------------------------------
(* The inductive invariant: types, control, and a well-formed snake for each *)
(* player from the end of menu 2 on.                                         *)

Control ==
  /\ PauseLine
  /\ step \in {"two", "cross"} => S!nb_player = 2
  /\ ~Playing => nb_bonus = 0 /\ \A id \in Players : score[id] = 0 /\ snake[id] = <<>>

Bodies == Playing => \A id \in Players : SnakeOK(snake[id], snake_end[id], score[id])

Inv == TypeOK /\ Control /\ Bodies

\* The invariant holds at the start.
LEMMA InitInv == Init => Inv
<1> SUFFICES ASSUME Init PROVE Inv
  OBVIOUS
<1> USE PlayersFact
<1>1. S!TypeOK /\ ~Playing /\ PauseLine
  BY DEF Init, S!Init, S!TypeOK, Playing, PauseLine
<1>2. /\ step \in {"steer"} /\ ch \in Nat /\ term \in Sizes /\ max_y \in Int /\ max_x \in Int
      /\ snake \in [Players -> Seq(Cell)] /\ DOMAIN snake_end = Players
      /\ dir \in [Players -> Dirs] /\ score \in [Players -> Nat]
  BY SizesFit DEF Init, Dirs, RIGHT
<1>3. /\ nb_bonus = 0 /\ max_bonus = 0 /\ 0 <= MAX_BONUS
      /\ bonus_list \in [0..(MAX_BONUS - 1) -> [pos_x : Int, pos_y : Int, activ : 0..1]]
  BY BonusConstants DEF Init, NoBonus
<1>4. \A id \in Players : score[id] = 0 /\ snake[id] = <<>>
  BY DEF Init
<1> QED
  BY <1>1, <1>2, <1>3, <1>4 DEF Inv, TypeOK, Control, Bodies

\* The steps that leave the snakes and their scores alone.
LEMMA FrameBodies ==
  ASSUME Bodies, Playing' => Playing, UNCHANGED <<snake, snake_end, score>>
  PROVE  Bodies'
BY DEF Bodies

\* The three cells that init_snake links form a snake.
LEMMA InitSnakeOK ==
  ASSUME NEW row \in Int
  PROVE  SnakeOK(init_snake(row), init_snake(row)[3], 0) /\ init_snake(row)[3] \in Cell
<1>1. RIGHT \in Dirs /\ RIGHT # Opposite(RIGHT) /\ DX(RIGHT) = 0 /\ DY(RIGHT) = 1
  BY DEF Dirs, UP, DOWN, LEFT, RIGHT, Opposite, DX, DY
<1>2. /\ init_snake(row) \in Seq(Cell) /\ Len(init_snake(row)) = 3
      /\ \A i \in 1..3 : init_snake(row)[i] = [x |-> row, y |-> i, dir |-> RIGHT]
  BY <1>1 DEF init_snake, Cell
<1>3. Chained(init_snake(row))
  BY <1>1, <1>2 DEF Chained
<1>4. init_snake(row)[3] \in Cell
  BY <1>1, <1>2 DEF Cell
<1> QED
  BY <1>2, <1>3, <1>4 DEF SnakeOK

\* The start of the program and the start menu keep the invariant.
LEMMA BeginInv ==
  ASSUME Inv, Begin
  PROVE  Inv'
<1>1. ShellStep
  BY MaxScoreAssumption DEF Begin, ShellStep
<1>2. S!TypeOK' /\ PauseLine'
  BY <1>1, ShellType DEF Inv, TypeOK, Control
<1>3. ~Playing /\ ~Playing'
  BY DEF Begin, Playing, S!Refused, S!init_usb, S!init_usb_done, S!menu_disp
<1>4. UNCHANGED <<step, ch, sizeVars, snakeVars, bonusVars>>
  BY DEF Begin
<1> QED
  BY <1>2, <1>3, <1>4 DEF Inv, TypeOK, Control, Bodies, sizeVars, snakeVars, bonusVars

\* The amount menu and the set-up that follows it keep the invariant.
LEMMA Menu2Inv ==
  ASSUME Inv, Menu2
  PROVE  Inv'
<1> USE PlayersFact
<1>1. ShellStep
  BY DEF Menu2, ShellStep
<1>2. S!TypeOK' /\ PauseLine'
  BY <1>1, ShellType DEF Inv, TypeOK, Control
<1>3. ~Playing /\ Playing'
  BY DEF Menu2, Playing, S!menu2_disp
<1>4. max_bonus' \in Int /\ max_bonus' <= MAX_BONUS
  BY BonusConstants DEF Menu2
<1>5. term' \in Sizes /\ max_y' \in Int /\ max_x' \in Int
  BY SizesFit DEF Menu2
<1> DEFINE row(id) == IF id = 1 THEN 2 ELSE max_y' - 3
<1>6. \A id \in Players : row(id) \in Int
  BY <1>5
<1>7. /\ snake' = [id \in Players |-> init_snake(row(id))]
      /\ snake_end' = [id \in Players |-> init_snake(row(id))[3]]
  BY DEF Menu2
<1> HIDE DEF row
<1>8. \A id \in Players :
        /\ SnakeOK(init_snake(row(id)), init_snake(row(id))[3], 0)
        /\ init_snake(row(id))[3] \in Cell
  BY <1>6, InitSnakeOK
<1>9. snake' \in [Players -> Seq(Cell)] /\ snake_end' \in [Players -> Cell]
  BY <1>7, <1>8 DEF SnakeOK
<1>10. UNCHANGED <<step, ch, dir, score, nb_bonus, bonus_list>>
  BY DEF Menu2
<1>11. \A id \in Players : score'[id] = 0
  BY <1>3, <1>10 DEF Inv, Control
<1>12. Bodies'
  BY <1>7, <1>8, <1>11 DEF Bodies
<1>13. TypeOK'
  BY <1>2, <1>4, <1>5, <1>9, <1>10 DEF Inv, TypeOK
<1> QED
  BY <1>2, <1>3, <1>10, <1>12, <1>13 DEF Inv, Control

\* Reading the size and the keys keeps the invariant.
LEMMA PollInv ==
  ASSUME Inv, Poll
  PROVE  Inv'
<1>1. ShellStep
  BY MaxScoreAssumption DEF Poll, ShellStep
<1>2. S!TypeOK' /\ PauseLine'
  BY <1>1, ShellType DEF Inv, TypeOK, Control
<1>3. Playing /\ Playing'
  BY DEF Poll, Playing, S!Poll
<1>4. term' \in Sizes /\ ch' \in Nat /\ step' = "steer"
  BY MaxScoreAssumption DEF Poll, Inv, TypeOK
<1>5. max_y' \in Int /\ max_x' \in Int
  <2>1. term \in Sizes
    BY DEF Inv, TypeOK
  <2>2. /\ max_y' = term[1] \/ max_y' = term'[1]
        /\ max_x' = term[2] \/ max_x' = term'[2]
    BY DEF Poll
  <2> QED
    BY <1>4, <2>1, <2>2, SizesFit
<1>6. UNCHANGED <<snakeVars, bonusVars>>
  BY DEF Poll
<1>7. Bodies'
  BY <1>3, <1>6, FrameBodies DEF Inv, snakeVars
<1> QED
  BY <1>2, <1>3, <1>4, <1>5, <1>6, <1>7 DEF Inv, TypeOK, Control, snakeVars, bonusVars

\* The steps of the shell in the game that leave the game alone.
LEMMA ShellOnlyInv ==
  ASSUME Inv, ShellStep, Playing' <=> Playing,
         UNCHANGED <<step, ch, sizeVars, snakeVars, bonusVars>>
  PROVE  Inv'
<1>1. S!TypeOK' /\ PauseLine'
  BY ShellType DEF Inv, TypeOK, Control
<1>2. Bodies'
  BY FrameBodies DEF Inv, snakeVars
<1> QED
  BY <1>1, <1>2 DEF Inv, TypeOK, Control, sizeVars, snakeVars, bonusVars

\* The pause menu keeps the invariant.
LEMMA PauseInv == Inv /\ Pause => Inv'
<1> SUFFICES ASSUME Inv, Pause PROVE Inv'
  OBVIOUS
<1>1. ShellStep
  BY MaxScoreAssumption DEF Pause, ShellStep
<1>2. Playing' <=> Playing
  BY DEF Pause, Playing, S!quit_disp
<1> QED
  BY <1>1, <1>2, ShellOnlyInv DEF Pause

\* usb_send keeps the invariant.
LEMMA SendInv == Inv /\ Send => Inv'
<1> SUFFICES ASSUME Inv, Send PROVE Inv'
  OBVIOUS
<1>1. ShellStep
  BY DEF Send, ShellStep
<1>2. Playing' <=> Playing
  BY DEF Send, Playing, S!usb_send
<1> QED
  BY <1>1, <1>2, ShellOnlyInv DEF Send

\* set_dir keeps the invariant.
LEMMA SteerInv == Inv /\ Steer => Inv'
<1> SUFFICES ASSUME Inv, Steer PROVE Inv'
  OBVIOUS
<1> USE PlayersFact
<1>1. S!TypeOK' /\ PauseLine' /\ (Playing' <=> Playing)
  BY ShellType DEF Inv, TypeOK, Control, Steer, ShellStep, Playing, shellVars
<1>2. \A id \in Players : set_dir(id) \in Dirs
  <2>1. dir[1] \in Dirs /\ \A id \in Players : dir[id] \in Dirs
    BY DEF Inv, TypeOK
  <2>2. \A k \in DOMAIN DirOfKey : DirOfKey[k] \in Dirs
    BY DEF DirOfKey, Dirs, UP, DOWN, LEFT, RIGHT
  <2>3. \A k \in DOMAIN DirOfArrow : DirOfArrow[k] \in Dirs
    BY DEF DirOfArrow, Dirs, UP, DOWN, LEFT, RIGHT
  <2> QED
    BY <2>1, <2>2, <2>3 DEF set_dir
<1>3. dir' \in [Players -> Dirs] /\ step' = "spawn" /\ ch' = 0
  BY <1>2 DEF Steer
<1>4. UNCHANGED <<sizeVars, snake, snake_end, score, bonusVars>>
  BY DEF Steer
<1>5. Bodies'
  BY <1>1, <1>4, FrameBodies DEF Inv
<1> QED
  BY <1>1, <1>3, <1>4, <1>5 DEF Inv, TypeOK, Control, sizeVars, bonusVars

\* bonus_create keeps the invariant.
LEMMA SpawnInv == Inv /\ (NoSpawn \/ bonus_create \/ SpawnKilled) => Inv'
<1>1. ASSUME Inv, NoSpawn PROVE Inv'
  <2>1. S!TypeOK' /\ PauseLine' /\ (Playing' <=> Playing)
    BY <1>1, ShellType DEF Inv, TypeOK, Control, NoSpawn, ShellStep, Playing, shellVars
  <2>2. step' = "move" /\ UNCHANGED <<ch, sizeVars, snakeVars, bonusVars>>
    BY <1>1 DEF NoSpawn
  <2>3. Bodies'
    BY <1>1, <2>1, <2>2, FrameBodies DEF Inv, snakeVars
  <2> QED
    BY <1>1, <2>1, <2>2, <2>3 DEF Inv, TypeOK, Control, sizeVars, snakeVars, bonusVars
<1>2. ASSUME Inv, bonus_create PROVE Inv'
  <2>1. S!TypeOK' /\ PauseLine' /\ (Playing' <=> Playing)
    BY <1>2, ShellType DEF Inv, TypeOK, Control, bonus_create, ShellStep, Playing, shellVars
  <2>2. /\ step' = "move" /\ UNCHANGED <<ch, sizeVars, snakeVars, max_bonus>>
        /\ nb_bonus' = nb_bonus + 1 /\ Playing'
    BY <1>2, <2>1 DEF bonus_create, At, Playing
  <2>3. bonus_list' \in [0..(MAX_BONUS - 1) -> [pos_x : Int, pos_y : Int, activ : 0..1]]
    <3>1. PICK px \in RandMod(max_x - 4), py \in RandMod(max_y - 6) :
            bonus_list' = IF Slots \ Active = {} THEN bonus_list
                          ELSE [bonus_list EXCEPT ![First(Slots \ Active)] =
                                  [pos_x |-> 2 + px, pos_y |-> 3 + py, activ |-> 1]]
      BY <1>2 DEF bonus_create
    <3>2. max_x \in Int /\ max_y \in Int
      BY <1>2 DEF Inv, TypeOK
    <3>3. px \in Int /\ py \in Int
      BY <3>2 DEF RandMod
    <3>4. [pos_x |-> 2 + px, pos_y |-> 3 + py, activ |-> 1] \in [pos_x : Int, pos_y : Int, activ : 0..1]
      BY <3>3
    <3> QED
      BY <1>2, <3>1, <3>4 DEF Inv, TypeOK
  <2>4. Bodies'
    BY <1>2, <2>1, <2>2, FrameBodies DEF Inv, snakeVars
  <2> QED
    BY <1>2, <2>1, <2>2, <2>3, <2>4 DEF Inv, TypeOK, Control, sizeVars, snakeVars
<1>3. ASSUME Inv, SpawnKilled PROVE Inv'
  <2>1. ShellStep /\ (Playing' <=> Playing)
    BY <1>3 DEF SpawnKilled, ShellStep, Playing, S!Killed
  <2> QED
    BY <1>3, <2>1, ShellOnlyInv DEF SpawnKilled
<1> QED
  BY <1>1, <1>2, <1>3

\* Moving the snakes keeps the invariant.
LEMMA MoveInv == Inv /\ Move => Inv'
<1> SUFFICES ASSUME Inv, Move PROVE Inv'
  OBVIOUS
<1>1. S!TypeOK' /\ PauseLine' /\ Playing /\ Playing'
  BY ShellType DEF Inv, TypeOK, Control, Move, At, ShellStep, Playing, shellVars
<1>2. /\ step' = "one" /\ UNCHANGED <<ch, sizeVars, dir, score, bonusVars>>
      /\ snake' = [id \in Players |-> snake_move(snake[id], snake_end[id], dir[id])]
      /\ snake_end' = [id \in Players |-> NewHead(snake_end[id], dir[id])]
  BY DEF Move
<1>3. \A id \in Players :
        /\ SnakeOK(snake[id], snake_end[id], score[id])
        /\ snake_end[id] \in Cell /\ dir[id] \in Dirs /\ score[id] \in Nat
  BY <1>1 DEF Inv, Bodies, TypeOK
<1>4. \A id \in Players :
        /\ SnakeOK(snake_move(snake[id], snake_end[id], dir[id]),
                   NewHead(snake_end[id], dir[id]), score[id])
        /\ NewHead(snake_end[id], dir[id]) \in Cell
  BY <1>3, MoveOK, NewHeadCell
<1>5. snake' \in [Players -> Seq(Cell)] /\ snake_end' \in [Players -> Cell]
  BY <1>2, <1>4 DEF SnakeOK
<1>6. Bodies'
  BY <1>2, <1>4 DEF Bodies
<1> QED
  BY <1>1, <1>2, <1>5, <1>6 DEF Inv, TypeOK, Control, sizeVars, bonusVars

\* The end of the game keeps the invariant.
LEMMA LoseInv ==
  ASSUME Inv, NEW id \in Players, Lose(id)
  PROVE  Inv'
<1>1. id \in 0..S!nb_player
  BY PlayersFact DEF Players
<1>2. ShellStep
  BY <1>1 DEF Lose, ShellStep
<1>3. Playing' <=> Playing
  BY DEF Lose, Playing, S!Turn
<1> QED
  BY <1>2, <1>3, ShellOnlyInv DEF Lose

\* A slot that bonus_check finds is a slot of bonus_list.
LEMMA HitsFirst ==
  ASSUME TypeOK, NEW e, Hits(e) # {}
  PROVE  First(Hits(e)) \in Hits(e) /\ First(Hits(e)) \in Slots /\ First(Hits(e)) \in 0..(MAX_BONUS - 1)
<1>1. max_bonus \in Int /\ max_bonus <= MAX_BONUS /\ MAX_BONUS \in Nat
  BY BonusConstants DEF TypeOK
<1>2. Hits(e) \subseteq Slots /\ Slots \subseteq 0..(MAX_BONUS - 1) /\ Slots \subseteq Nat
  BY <1>1 DEF Hits, Slots
<1>3. First(Hits(e)) \in Hits(e)
  BY <1>2, FirstIn
<1> QED
  BY <1>2, <1>3

\* What bonus_check does to the state the other steps rely on.
LEMMA SurviveFacts ==
  ASSUME Inv, Playing, NEW id \in Players, Survive(id)
  PROVE  /\ snake' \in [Players -> Seq(Cell)] /\ score' \in [Players -> Nat]
         /\ \A k \in Players : SnakeOK(snake'[k], snake_end'[k], score'[k])
         /\ nb_bonus' \in Int
         /\ bonus_list' \in [0..(MAX_BONUS - 1) -> [pos_x : Int, pos_y : Int, activ : 0..1]]
         /\ UNCHANGED <<ch, sizeVars, snake_end, dir, max_bonus>>
<1>1. /\ snake \in [Players -> Seq(Cell)] /\ score \in [Players -> Nat]
      /\ \A k \in Players : SnakeOK(snake[k], snake_end[k], score[k])
      /\ nb_bonus \in Int
      /\ bonus_list \in [0..(MAX_BONUS - 1) -> [pos_x : Int, pos_y : Int, activ : 0..1]]
  BY DEF Inv, TypeOK, Bodies
<1>2. UNCHANGED <<ch, sizeVars, snake_end, dir, max_bonus>>
  BY DEF Survive
<1>3. CASE Hits(snake_end[id]) = {}
  <2>1. UNCHANGED <<snake, score, nb_bonus, bonus_list>>
    BY <1>3 DEF Survive, bonus_check
  <2> QED
    BY <1>1, <1>2, <2>1
<1>4. CASE Hits(snake_end[id]) # {}
  <2>1. /\ score' = [score EXCEPT ![id] = score[id] + 1]
        /\ nb_bonus' = nb_bonus - 1
        /\ bonus_list' = [bonus_list EXCEPT ![First(Hits(snake_end[id]))].activ = 0]
        /\ snake' = [snake EXCEPT ![id] = snake_grow(snake[id])]
    BY <1>4 DEF Survive, bonus_check
  <2>2. SnakeOK(snake_grow(snake[id]), snake_end[id], score[id] + 1)
    BY <1>1, GrowOK
  <2>3. snake' \in [Players -> Seq(Cell)] /\ score' \in [Players -> Nat]
    BY <1>1, <2>1, <2>2 DEF SnakeOK
  <2>4. \A k \in Players : SnakeOK(snake'[k], snake_end'[k], score'[k])
    BY <1>1, <1>2, <2>1, <2>2
  <2>5. bonus_list' \in [0..(MAX_BONUS - 1) -> [pos_x : Int, pos_y : Int, activ : 0..1]]
    <3> DEFINE f == First(Hits(snake_end[id]))
               b == [bonus_list[f] EXCEPT !.activ = 0]
    <3>1. f \in 0..(MAX_BONUS - 1)
      BY <1>4, HitsFirst DEF Inv
    <3>2. b \in [pos_x : Int, pos_y : Int, activ : 0..1]
      <4> HIDE DEF f
      <4>1. bonus_list[f] \in [pos_x : Int, pos_y : Int, activ : 0..1]
        BY <1>1, <3>1
      <4> QED
        BY <4>1
    <3>3. bonus_list' = [bonus_list EXCEPT ![f] = b]
      BY <2>1
    <3> HIDE DEF f, b
    <3> QED
      BY <1>1, <3>2, <3>3
  <2> QED
    BY <1>1, <1>2, <2>1, <2>3, <2>4, <2>5
<1> QED
  BY <1>3, <1>4

\* A player that survives its checks, whatever the shell does then.
LEMMA SurviveInv ==
  ASSUME Inv, Playing, NEW id \in Players, Survive(id), ShellStep, Playing',
         step' \in {"one", "two", "cross"}, step' = "one" \/ S!nb_player = 2
  PROVE  Inv'
<1>1. S!TypeOK' /\ PauseLine'
  BY ShellType DEF Inv, TypeOK, Control
<1> QED
  BY <1>1, SurviveFacts DEF Inv, TypeOK, Control, Bodies, sizeVars

\* The checks of an iteration keep the invariant.
LEMMA CheckInv == Inv /\ (CheckOne \/ CheckTwo \/ CheckCross) => Inv'
<1> USE PlayersFact
<1>1. ASSUME Inv, CheckOne PROVE Inv'
  <2>1. Playing /\ step = "one"
    BY <1>1 DEF CheckOne, At, Playing
  <2>2. CASE Lose(1)
    BY <1>1, <2>2, LoseInv
  <2>3. CASE Survive(1) /\ S!nb_player = 2 /\ step' = "two" /\ UNCHANGED shellVars
    <3>1. ShellStep /\ Playing'
      BY <2>1, <2>3 DEF ShellStep, Playing, shellVars
    <3> QED
      BY <1>1, <2>1, <2>3, <3>1, SurviveInv
  <2>4. CASE Survive(1) /\ S!nb_player = 1 /\ S!Turn(0) /\ UNCHANGED step
    <3>1. ShellStep /\ Playing'
      BY <2>4 DEF ShellStep, Playing, S!Turn
    <3> QED
      BY <1>1, <2>1, <2>4, <3>1, SurviveInv
  <2> QED
    BY <1>1, <2>2, <2>3, <2>4 DEF CheckOne
<1>2. ASSUME Inv, CheckTwo PROVE Inv'
  <2>1. Playing /\ S!nb_player = 2 /\ 2 \in Players
    BY <1>2 DEF CheckTwo, At, Playing, Inv, Control, Players
  <2>2. CASE Lose(2)
    BY <1>2, <2>1, <2>2, LoseInv
  <2>3. CASE Survive(2) /\ step' = "cross" /\ UNCHANGED shellVars
    <3>1. ShellStep /\ Playing'
      BY <2>1, <2>3 DEF ShellStep, Playing, shellVars
    <3> QED
      BY <1>2, <2>1, <2>3, <3>1, SurviveInv
  <2> QED
    BY <1>2, <2>2, <2>3 DEF CheckTwo
<1>3. ASSUME Inv, CheckCross PROVE Inv'
  <2>1. CrossOutcome \in 0..S!nb_player
    BY <1>3 DEF CheckCross, At, CrossOutcome, Inv, Control
  <2>2. ShellStep
    BY <1>3, <2>1 DEF CheckCross, ShellStep
  <2>3. Playing' <=> Playing
    BY <1>3 DEF CheckCross, Playing, S!Turn
  <2> QED
    BY <1>3, <2>2, <2>3, ShellOnlyInv DEF CheckCross
<1> QED
  BY <1>1, <1>2, <1>3

\* The invariant is about the variables only.
LEMMA StutterInv == Inv /\ UNCHANGED vars => Inv'
<1> SUFFICES ASSUME Inv, UNCHANGED vars PROVE Inv'
  OBVIOUS
<1>1. ShellStep /\ (Playing' <=> Playing)
  BY DEF vars, ShellStep, shellVars, Playing
<1> QED
  BY <1>1, ShellOnlyInv DEF vars

\* Inv is inductive.
LEMMA NextInv == Inv /\ [Next]_vars => Inv'
BY BeginInv, Menu2Inv, PollInv, PauseInv, SendInv, SteerInv, SpawnInv, MoveInv,
   CheckInv, StutterInv DEF Next

\* Inv, the inductive invariant behind the theorems below, holds always.
THEOREM Invariance == Spec => []Inv
BY InitInv, NextInv, PTL DEF Spec

-----------------------------------------------------------------------------

\* The game keeps its types: in particular the pause menu never highlights a
\* line that it does not have, and no more bonuses are handled than bonus_list
\* has slots.
THEOREM TypeCorrect == Spec => []TypeOK
<1>1. Inv => TypeOK
  BY DEF Inv
<1> QED
  BY <1>1, Invariance, PTL

\* The snakes of the invariant are chained.
LEMMA InvChain == Inv => Chain
<1> SUFFICES ASSUME Inv, NEW id \in Players PROVE Chained(snake[id])
  BY DEF Chain
<1>1. CASE Playing
  BY <1>1 DEF Inv, Bodies, SnakeOK
<1>2. CASE ~Playing
  <2>1. snake[id] = <<>>
    BY <1>2 DEF Inv, Control
  <2> QED
    BY <2>1 DEF Chained
<1> QED
  BY <1>1, <1>2

\* The snake is never torn and never reverses, its length is its score plus
\* three, and the cached head is its head: for every size of the terminal, any
\* sequence of keys, bonuses and resizes, and both players.
THEOREM SnakeWellFormed == Spec => [](LengthIsScore /\ EndIsHead /\ Chain)
<1>1. Inv => LengthIsScore /\ EndIsHead
  BY DEF Inv, Bodies, SnakeOK, LengthIsScore, EndIsHead
<1> QED
  BY <1>1, InvChain, Invariance, PTL

\* snake_move and snake_grow keep a snake's length at its score plus three.
THEOREM LengthFromScore == Spec => []LengthIsScore
BY SnakeWellFormed, PTL

\* snake_end, which every check reads, is a true copy of the head of each
\* snake, also when only one of the two moves or grows.
THEOREM CachedHead == Spec => []EndIsHead
BY SnakeWellFormed, PTL

\* crash_check cannot fail a snake of three or four cells: a player needs two
\* points before it can bite itself.
THEOREM ShortSnakesAreSafe == Spec => []ShortIsSafe
<1>1. Inv => ShortIsSafe
  <2> SUFFICES ASSUME Inv, NEW id \in Players, Len(snake[id]) < 5
               PROVE  ~crash_check(snake[id])
    BY DEF ShortIsSafe, Inv, TypeOK
  <2>1. snake[id] \in Seq(Cell) /\ Chained(snake[id])
    BY InvChain DEF Inv, TypeOK, Chain
  <2> QED
    BY <2>1, ShortNoCrash
<1> QED
  BY <1>1, Invariance, PTL

-----------------------------------------------------------------------------
(* The count of the bonuses.                                                 *)

\* The bonuses on the screen are finitely many.
LEMMA ActiveFinite ==
  ASSUME TypeOK
  PROVE  IsFiniteSet(Slots) /\ IsFiniteSet(Active) /\ Cardinality(Active) \in Nat
<1>1. IsFiniteSet(Slots)
  BY FS_Interval DEF TypeOK, Slots
<1>2. Active \in SUBSET Slots
  BY DEF Active
<1>3. IsFiniteSet(Active)
  BY <1>1, <1>2, FS_Subset
<1> QED
  BY <1>1, <1>3, FS_CardinalityType

\* So their number is a natural number.
LEMMA ActiveCount == TypeOK => Cardinality(Active) \in Nat
BY ActiveFinite

\* bonus_create adds at most one to nb_bonus per bonus put on the screen.
LEMMA CreateCount ==
  ASSUME Inv, BonusAccounting, bonus_create
  PROVE  BonusAccounting'
<1>1. /\ nb_bonus \in Int /\ max_bonus \in Int /\ nb_bonus < max_bonus
      /\ nb_bonus' = nb_bonus + 1 /\ max_bonus' = max_bonus /\ Slots' = Slots
      /\ max_bonus <= MAX_BONUS
      /\ bonus_list \in [0..(MAX_BONUS - 1) -> [pos_x : Int, pos_y : Int, activ : 0..1]]
  BY DEF Inv, TypeOK, bonus_create, Slots
<1>2. IsFiniteSet(Slots) /\ IsFiniteSet(Active) /\ Cardinality(Active) \in Nat
  BY ActiveFinite DEF Inv
<1>3. CASE Slots \ Active = {}
  <2>1. bonus_list' = bonus_list
    BY <1>3 DEF bonus_create
  <2>2. Active' = Active /\ Active = Slots
    BY <1>1, <1>3, <2>1 DEF Active
  <2>3. Cardinality(Slots) >= max_bonus
    BY <1>1, FS_Interval DEF Slots
  <2> QED
    BY <1>1, <2>2, <2>3, <1>2 DEF BonusAccounting
<1>4. CASE Slots \ Active # {}
  <2> DEFINE f == First(Slots \ Active)
  <2>1. f \in Slots /\ f \notin Active
    <3>1. Slots \ Active \in SUBSET Nat
      BY <1>1 DEF Slots
    <3> QED
      BY <1>4, <3>1, FirstIn
  <2>2. PICK px, py : bonus_list' = [bonus_list EXCEPT ![f] = [pos_x |-> 2 + px, pos_y |-> 3 + py, activ |-> 1]]
    BY <1>4 DEF bonus_create
  <2> HIDE DEF f
  <2>3. f \in 0..(MAX_BONUS - 1)
    BY <1>1, <2>1, BonusConstants DEF Slots
  <2>4. bonus_list'[f].activ = 1 /\ \A i \in Slots : i # f => bonus_list'[i] = bonus_list[i]
    BY <1>1, <2>2, <2>3
  <2>5. Active' = Active \cup {f}
    BY <1>1, <2>1, <2>4 DEF Active
  <2>6. Cardinality(Active') = Cardinality(Active) + 1
    BY <1>2, <2>1, <2>5, FS_AddElement
  <2> QED
    BY <1>1, <1>2, <2>6 DEF BonusAccounting
<1> QED
  BY <1>3, <1>4

\* bonus_check takes away at most one bonus and one from nb_bonus.
LEMMA EatCount ==
  ASSUME Inv, BonusAccounting, NEW id \in Players, Survive(id)
  PROVE  BonusAccounting'
<1>1. /\ nb_bonus \in Int /\ max_bonus' = max_bonus /\ Slots' = Slots
      /\ bonus_list \in [0..(MAX_BONUS - 1) -> [pos_x : Int, pos_y : Int, activ : 0..1]]
  BY DEF Inv, TypeOK, Survive, Slots
<1>2. IsFiniteSet(Active) /\ Cardinality(Active) \in Nat
  BY ActiveFinite DEF Inv
<1>3. CASE Hits(snake_end[id]) = {}
  <2>1. UNCHANGED <<nb_bonus, bonus_list>>
    BY <1>3 DEF Survive, bonus_check
  <2> QED
    BY <1>1, <2>1 DEF BonusAccounting, Active
<1>4. CASE Hits(snake_end[id]) # {}
  <2> DEFINE f == First(Hits(snake_end[id]))
  <2>1. f \in Slots /\ f \in 0..(MAX_BONUS - 1)
    BY <1>4, HitsFirst DEF Inv
  <2>2. nb_bonus' = nb_bonus - 1 /\ bonus_list' = [bonus_list EXCEPT ![f].activ = 0]
    BY <1>4 DEF Survive, bonus_check
  <2> HIDE DEF f
  <2>3. bonus_list'[f].activ = 0
    <3>1. bonus_list[f] \in [pos_x : Int, pos_y : Int, activ : 0..1]
      BY <1>1, <2>1
    <3>2. bonus_list'[f] = [bonus_list[f] EXCEPT !.activ = 0]
      BY <1>1, <2>1, <2>2
    <3> QED
      BY <3>1, <3>2
  <2>4. \A i \in 0..(MAX_BONUS - 1) : i # f => bonus_list'[i] = bonus_list[i]
    BY <1>1, <2>2
  <2>5. Slots \subseteq 0..(MAX_BONUS - 1)
    BY BonusConstants DEF Inv, TypeOK, Slots
  <2>6. Active' = Active \ {f}
    <3>1. \A i \in Slots : (bonus_list'[i].activ = 1) <=> (bonus_list[i].activ = 1 /\ i # f)
      BY <2>3, <2>4, <2>5
    <3> QED
      BY <1>1, <3>1 DEF Active
  <2>7. Cardinality(Active') >= Cardinality(Active) - 1
    BY <1>2, <2>6, FS_RemoveElement
  <2>8. Cardinality(Active') \in Nat
    BY <1>2, <2>6, FS_RemoveElement, FS_CardinalityType
  <2> QED
    BY <1>1, <1>2, <2>2, <2>7, <2>8 DEF BonusAccounting
<1> QED
  BY <1>3, <1>4

\* BonusAccounting is inductive relative to Inv.
LEMMA NextCount ==
  ASSUME Inv, BonusAccounting, [Next]_vars
  PROVE  BonusAccounting'
<1>1. CASE UNCHANGED bonusVars
  BY <1>1 DEF bonusVars, BonusAccounting, Active, Slots
<1>2. CASE Menu2
  <2>1. nb_bonus' = 0
    BY <1>2 DEF Inv, Control, Menu2, Playing, S!menu2_disp
  <2>2. TypeOK'
    BY <1>2, Menu2Inv DEF Inv
  <2>3. (Cardinality(Active) \in Nat)'
    BY <2>2, ActiveCount, PTL
  <2> QED
    BY <2>1, <2>3 DEF BonusAccounting
<1>3. CASE bonus_create
  BY <1>3, CreateCount
<1>4. CASE CheckOne
  BY <1>1, <1>4, EatCount, PlayersFact DEF CheckOne, Lose
<1>5. CASE CheckTwo
  <2>1. 2 \in Players
    BY <1>5 DEF CheckTwo, At, Inv, Control, Players
  <2> QED
    BY <1>1, <1>5, <2>1, EatCount DEF CheckTwo, Lose
<1> QED
  BY <1>1, <1>2, <1>3, <1>4, <1>5 DEF Next, vars, Begin, Poll, Pause, Send, Steer,
     NoSpawn, SpawnKilled, Move, CheckCross

\* nb_bonus never exceeds the bonuses shown, for every amount and whichever
\* slots the players walk over, free slots and a full list included.
THEOREM BonusesCounted == Spec => []BonusAccounting
<1>1. Init => BonusAccounting
  <2> SUFFICES ASSUME Init PROVE BonusAccounting
    OBVIOUS
  <2>1. Cardinality(Active) \in Nat /\ nb_bonus = 0
    BY InitInv, ActiveFinite DEF Inv, Init
  <2> QED
    BY <2>1 DEF BonusAccounting
<1>2. Inv /\ BonusAccounting /\ [Next]_vars => BonusAccounting'
  BY NextCount
<1> QED
  BY <1>1, <1>2, Invariance, PTL DEF Spec
==============================================================================
