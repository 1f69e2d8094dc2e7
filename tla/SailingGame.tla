---- MODULE SailingGame ----
(***************************************************************************)
(* A race of the game of Structured_Programming (main.c), the first since  *)
(* the program started: the rounds of play_turn until somebody wins or     *)
(* every ship is lost.  A ship's position is kept nowhere but on the lake, *)
(* where findship looks for its colour, so most of what can go wrong is    *)
(* one player's move painting over another player's cells.                 *)
(*                                                                         *)
(* Ships occupy two cells side by side.  The previews of declared moves,   *)
(* which moveplayers clears, and the finish line's colour are open water   *)
(* to every test of the code and so they are here.                         *)
(***************************************************************************)
EXTENDS Integers, Sequences, FiniteSetsExt

CONSTANTS Height, Width,         \* of the lake: 25 and 64
          Island,                \* its cells of land
          FinishRow, FinishEnd,  \* the finish line: row 6, columns 0 to 11
          StartRow,              \* 11
          NumPlayers,
          Fleets,                \* the choices of ships, one function per fleet
          Difficulty,            \* 0, 1 or 2
          Gusts,                 \* bound: the wind speeds that occur
          MaxRounds,             \* bound: rounds of a race
          Phases,                \* 8
          MaxMoves, Bonus,       \* 6, and 2 more for ship 1
          East                   \* for WinnersRounded: a column beyond the island

Players == 1..NumPlayers
Cells == (0..Height-1) \X (0..Width-1)
Sea == 0
Land == 0-1
Wreckage == 0-2
Codes == {Sea, Land, Wreckage} \cup Players    \* a player's number: its colour

ASSUME GameAssumption ==
    /\ Height \in Nat \ {0} /\ Width \in Nat \ {0} /\ Width % 2 = 0
    /\ Island \subseteq Cells
    /\ FinishRow \in 1..Height-1 /\ StartRow \in 1..Height-1
    /\ FinishEnd \in 0..Width-1 /\ FinishEnd % 2 = 1
    /\ NumPlayers \in 1..4 /\ 4 * NumPlayers - 2 <= Width
    /\ Fleets \subseteq [Players -> 0..2]
    /\ Difficulty \in 0..2 /\ Gusts \subseteq 0..19 /\ MaxRounds \in Nat
    /\ Phases \in Nat \ {0} /\ MaxMoves \in Nat /\ Bonus \in Nat
    /\ MaxMoves + Bonus <= Phases

(* The rows of land between start and finish whose places all have land in *)
(* the right cell as far as East: row 8 of the lake, where East is 58.     *)
Barriers ==
    {y \in FinishRow+1 .. StartRow-1 :
        \A x \in 0..East-1 : x % 2 = 1 => <<y, x>> \in Island}

ASSUME IslandAssumption == East \in Nat /\ East % 2 = 0 /\ Barriers # {}

VARIABLES lake, preview,          \* lake, and the row of prevlake behind it
          ships, alive, lives, donemoving,
          moves,                  \* playermovements
          wreckship, wreckcounter, winners,
          windDir, windSpd,
          cur_round,
          at, turn, phase,        \* where play_turn and moveplayers are
          heading, again, blown,  \* direction of the move, doublemovement, affectedbywind
          astray,                 \* history: ships that were painted over
          rounded                 \* history: ships that have been beyond the island

board == <<lake, alive, lives, wreckship, wreckcounter>>
wind == <<windDir, windSpd, cur_round>>
plan == <<donemoving, moves>>
move == <<heading, again, blown>>
history == <<astray, rounded>>
vars == <<lake, preview, ships, alive, lives, wreckship, wreckcounter, winners,
          windDir, windSpd, cur_round, donemoving, moves, at, turn, phase,
          heading, again, blown, astray, rounded>>

----------------------------------------------------------------------------
(* The lake *)

Before(c, d) == c[1] < d[1] \/ (c[1] = d[1] /\ c[2] < d[2])

(* findship: the left cell of a player's ship, and <<0, 0>> if there is none. *)
Shown(l, p) == {c \in Cells : l[c] = p}
FindShip(l, p) ==
    LET shown == Shown(l, p)
    IN  IF shown = {} THEN <<0, 0>>
        ELSE CHOOSE c \in shown : \A d \in shown \ {c} : Before(c, d)
Ship(p) == FindShip(lake, p)

Beside(c) == <<c[1], c[2] + 1>>
Paint(l, c, code) == [l EXCEPT ![c] = code, ![Beside(c)] = code]

StartingLake ==
    [c \in Cells |->
        IF \E p \in Players : c[1] = StartRow /\ c[2] \in 4*(p-1) .. 4*(p-1) + 1
        THEN (c[2] \div 4) + 1
        ELSE IF c \in Island THEN Land ELSE Sea]

TopRow == [x \in 0..Width-1 |-> lake[<<0, x>>]]

(* lake[y][x] for any y and x.  A column beyond the last is a cell of the  *)
(* next row; behind the last row lies prevlake or something without ships, *)
(* and nothing in front of the first row looks like one.                   *)
Read(y, x) ==
    LET i == (y * Width) + x
    IN  IF i < 0 THEN {Sea}
        ELSE IF i < Height * Width THEN {lake[<<i \div Width, i % Width>>]}
        ELSE {Sea, preview[i - Height * Width]}

Init ==
    /\ lake = StartingLake
    /\ preview = TopRow
    /\ ships \in Fleets
    /\ alive = [p \in Players |-> TRUE]
    /\ lives = [p \in Players |-> IF ships[p] = 2 THEN 2 ELSE 1]
    /\ donemoving = [p \in Players |-> FALSE]
    /\ moves = [p \in Players |-> [i \in 1..Phases |-> 0]]
    /\ wreckship = [p \in Players |-> <<0, 0>>]
    /\ wreckcounter = [p \in Players |-> 0]
    /\ winners = {}
    /\ windDir = 1 /\ windSpd = 0 /\ cur_round = 0
    /\ at = "wind" /\ turn = 1 /\ phase = 1
    /\ heading = 0 /\ again = FALSE /\ blown = {}
    /\ astray = {} /\ rounded = {}

(* History: of the lake as the step leaves it. *)
Observe ==
    /\ astray' = astray \cup {p \in Players : alive'[p] /\ Shown(lake', p) = {}}
    /\ rounded' = rounded \cup {p \in Players : FindShip(lake', p)[2] >= East}

----------------------------------------------------------------------------
(* windchange and declaremove *)

WindSpeeds == CASE Difficulty = 0 -> 0..9
                [] Difficulty = 1 -> 0..14
                [] Difficulty = 2 -> 0..19

Turned(dir, by) == ((dir - 1 + by + 4) % 4) + 1

WindChange ==
    /\ at = "wind" /\ cur_round < MaxRounds
    /\ windDir' \in IF Difficulty = 2 THEN 1..4
                    ELSE {Turned(windDir, by) : by \in {-1, 0, 1}}
    /\ windSpd' \in IF cur_round = 0 THEN {0} ELSE WindSpeeds \cap Gusts
    /\ at' = "declare" /\ turn' = 1
    /\ UNCHANGED <<board, preview, ships, winners, cur_round, plan, phase, move, history>>

Count(s, d) == Cardinality({i \in DOMAIN s : s[i] = d})
After(c, s) == <<c[1] + Count(s, 3) - Count(s, 1), c[2] + 2 * (Count(s, 2) - Count(s, 4))>>
Opposite(d) == IF d <= 2 THEN d + 2 ELSE d - 2

(* The moves the keys can leave declared: the cursor keeps on the lake and *)
(* off land and wrecks, and a key against the last move takes that back.   *)
Declarable(p) ==
    LET from == Ship(p)
        longest == IF ships[p] = 1 THEN MaxMoves + Bonus ELSE MaxMoves
        Legal(s) ==
            \A i \in DOMAIN s :
                LET c == After(from, SubSeq(s, 1, i))
                IN  /\ c \in Cells /\ Beside(c) \in Cells
                    /\ {lake[c], lake[Beside(c)]} \cap {Land, Wreckage} = {}
                    /\ i > 1 => s[i] # Opposite(s[i-1])
    IN  {s \in UNION {[1..n -> 1..4] : n \in 0..longest} : Legal(s)}

EndDeclare ==
    IF turn < NumPlayers
    THEN turn' = turn + 1 /\ UNCHANGED at
    ELSE at' = "start" /\ UNCHANGED turn

(* playermovements of a ship still sailing is cleared when it moves. *)
DeclareMove ==
    /\ at = "declare" /\ alive[turn]
    /\ \E s \in Declarable(turn) :
          moves' = [moves EXCEPT ![turn] = [i \in 1..Phases |-> IF i <= Len(s) THEN s[i] ELSE 0]]
    /\ EndDeclare
    /\ UNCHANGED <<board, preview, ships, winners, wind, donemoving, phase, move, history>>

PassOver ==
    /\ at = "declare" /\ ~alive[turn]
    /\ EndDeclare
    /\ UNCHANGED <<board, preview, ships, winners, wind, plan, phase, move, history>>

----------------------------------------------------------------------------
(* moveplayers *)

FinishLine == {c \in Cells : c[1] = FinishRow /\ c[2] <= FinishEnd}

(* The beginning of moveplayers draws the finish line, over whatever is on *)
(* it.                                                                     *)
StartMoving ==
    /\ at = "start"
    /\ donemoving' = [p \in Players |-> FALSE]
    /\ lake' = [c \in Cells |-> IF c \in FinishLine THEN Sea ELSE lake[c]]
    /\ phase' = 1
    /\ at' = "wincheck"
    /\ UNCHANGED <<preview, ships, alive, lives, wreckship, wreckcounter, winners,
                   wind, moves, turn, move>>
    /\ Observe

(* wincheck, at the beginning of each phase *)
WinCheck ==
    /\ at = "wincheck"
    /\ winners' = winners \cup {p \in Players : Ship(p) \in FinishLine}
    /\ IF winners' # {}
       THEN at' = "won" /\ UNCHANGED <<preview, turn, blown>>
       ELSE at' = "windcheck" /\ turn' = 1 /\ preview' = TopRow /\ blown' = {}
    /\ UNCHANGED <<board, ships, wind, plan, phase, heading, again, history>>

(* The chance in a hundred that the wind takes a ship along. *)
Chances(p) ==
    LET full == 5 * windSpd
        raw == IF ships[p] # 0 \/ windSpd > 15 THEN full
               ELSE IF windSpd <= 5 THEN 0 ELSE full \div 2
    IN  IF raw >= 10 THEN raw - 10 ELSE raw

WindCheck ==
    /\ at = "windcheck" /\ alive[turn]
    /\ \/ /\ heading' = moves[turn][phase] /\ again' = FALSE
          /\ UNCHANGED blown
       \/ /\ Chances(turn) > 0
          /\ heading' = windDir /\ again' = (moves[turn][phase] = windDir)
          /\ blown' = blown \cup {turn}
    /\ at' = "moveto"
    /\ UNCHANGED <<board, preview, ships, winners, wind, plan, turn, phase, history>>

NextShip ==
    IF turn < NumPlayers
    THEN turn' = turn + 1 /\ at' = "windcheck"
    ELSE at' = "endphase" /\ UNCHANGED turn

SkipWreck ==
    /\ at = "windcheck" /\ ~alive[turn]
    /\ NextShip
    /\ UNCHANGED <<board, preview, ships, winners, wind, plan, phase, move, history>>

----------------------------------------------------------------------------
(* moveto, crashcheck and wreck *)

Toward(c, d) ==
    CASE d = 1 -> <<c[1] - 1, c[2]>>
      [] d = 2 -> <<c[1], c[2] + 2>>
      [] d = 3 -> <<c[1] + 1, c[2]>>
      [] d = 4 -> <<c[1], c[2] - 2>>

AtEdge(c, d) ==
    \/ d = 1 /\ c[1] = 0
    \/ d = 2 /\ c[2] > Width - 3
    \/ d = 3 /\ c[1] = Height - 1
    \/ d = 4 /\ c[2] < 2

(* Faulty variant: only one of the two cells is looked at. *)
LookOnce(c, d) == IF d = 4 THEN <<c[1], c[2] - 1>> ELSE Toward(c, d)
LookedAtOne(c, d) == <<LookOnce(c, d), LookOnce(c, d)>>

(* The cells crashcheck looks at: on the way to the left, the right one of *)
(* the two and the ship's own.                                             *)
LookedAt(c, d) ==
    LET first == IF d = 4 THEN <<c[1], c[2] - 1>> ELSE Toward(c, d)
    IN  <<first, Beside(first)>>

(* A ship in the way is rammed unless it will move out of it later in this *)
(* phase, which is what the code takes a higher number to mean.  Where     *)
(* there is no ship the code reads donemoving[4], which is behind the      *)
(* array (line 1317): it is taken to be false, as in any build in which a  *)
(* ship can cross open water.                                              *)
Rammed(target) == {q \in Players : q = target /\ (q < turn \/ donemoving[q])}

(* Faulty variant: only the rammed ship pays. *)
OwnDamageSpared(target, second) ==
    (IF AtEdge(Ship(turn), heading) THEN 1 ELSE 0) +
    (IF {target, second} \cap {Land, Wreckage} # {} THEN 1 ELSE 0)

(* Faulty variant: nothing is lost at the edge of the lake. *)
OwnDamageInside(target, second) ==
    (IF {target, second} \cap {Land, Wreckage} # {} THEN 1 ELSE 0) +
    Cardinality(Rammed(target))

(* The lives the moving ship loses: at the edge, aground, in a collision. *)
OwnDamage(target, second) ==
    (IF AtEdge(Ship(turn), heading) THEN 1 ELSE 0) +
    (IF {target, second} \cap {Land, Wreckage} # {} THEN 1 ELSE 0) +
    Cardinality(Rammed(target))

(* The lives its move costs everybody. *)
Damage(target, second) ==
    [p \in Players |->
        (IF p = turn THEN OwnDamage(target, second) ELSE 0) +
        (IF p \in Rammed(target) THEN 1 ELSE 0)]

(* Faulty variant: the ship that was rammed stays on the lake. *)
WreckTurnOnly(lost) ==
    LET w == lost \cap {turn}
    IN  /\ lake' = IF w = {} THEN lake ELSE Paint(lake, Ship(turn), Wreckage)
        /\ wreckship' = [p \in Players |-> IF p \in lost THEN Beside(Ship(p)) ELSE wreckship[p]]
        /\ wreckcounter' = [p \in Players |-> IF p \in lost THEN 3 ELSE wreckcounter[p]]

(* wreck() of the ships that are lost, the rammed one first. *)
Wreck(lost) ==
    LET rammed == lost \ {turn}
        lake1 == [c \in Cells |-> IF \E p \in rammed : c \in {Ship(p), Beside(Ship(p))}
                                  THEN Wreckage ELSE lake[c]]
        Where(p) == IF p = turn THEN FindShip(lake1, p) ELSE Ship(p)
    IN  /\ lake' = IF turn \in lost THEN Paint(lake1, Where(turn), Wreckage) ELSE lake1
        /\ wreckship' = [p \in Players |-> IF p \in lost THEN Beside(Where(p)) ELSE wreckship[p]]
        /\ wreckcounter' = [p \in Players |-> IF p \in lost THEN 3 ELSE wreckcounter[p]]

(* The ship moves if nothing was in the way and it is not at the edge. *)
Sail(target, second) ==
    /\ Damage(target, second) = [p \in Players |-> 0]
    /\ lake' = Paint(Paint(lake, Ship(turn), Sea), Toward(Ship(turn), heading), turn)
    /\ UNCHANGED <<alive, lives, wreckship, wreckcounter>>

Crash(target, second) ==
    LET cost == Damage(target, second)
        hit == {p \in Players : cost[p] > 0}
    IN  /\ hit # {}
        /\ lives' = [p \in Players |-> lives[p] - cost[p]]
        /\ alive' = [p \in Players |-> alive[p] /\ lives'[p] > 0]
        /\ Wreck({p \in hit : lives'[p] <= 0})

(* A ship that has no further move declared is done. *)
EndMove ==
    /\ donemoving' = IF phase < Phases /\ moves[turn][phase+1] = 0
                     THEN [donemoving EXCEPT ![turn] = TRUE] ELSE donemoving
    /\ moves' = [moves EXCEPT ![turn][phase] = 0]
    /\ heading' = 0 /\ again' = FALSE
    /\ NextShip

MoveTo ==
    /\ at = "moveto"
    /\ IF heading = 0 \/ ~alive[turn]
       THEN UNCHANGED board
       ELSE LET look == LookedAt(Ship(turn), heading)
            IN  \E t \in Read(look[1][1], look[1][2]), s \in Read(look[2][1], look[2][2]) :
                    Sail(t, s) \/ Crash(t, s)
    /\ IF again
       THEN again' = FALSE /\ UNCHANGED <<plan, heading, at, turn>>
       ELSE EndMove
    /\ UNCHANGED <<preview, ships, winners, wind, phase, blown>>
    /\ Observe

(* The ships the wind took along are drawn again where findship finds      *)
(* them: one that is not on the lake comes back in the corner.             *)
EndPhase ==
    /\ at = "endphase"
    /\ LET corner == {p \in blown : alive[p] /\ Ship(p) = <<0, 0>>}
       IN  lake' = IF corner = {} THEN lake ELSE Paint(lake, <<0, 0>>, Max(corner))
    /\ IF phase < Phases
       THEN phase' = phase + 1 /\ at' = "wincheck"
       ELSE at' = "endturn" /\ UNCHANGED phase
    /\ blown' = {}
    /\ UNCHANGED <<preview, ships, alive, lives, wreckship, wreckcounter, winners,
                   wind, plan, turn, heading, again>>
    /\ Observe

----------------------------------------------------------------------------
(* The end of play_turn, and the loop of sailing *)

(* Faulty variant: the wreck is removed but not forgotten. *)
EndTurnKeepsWreck ==
    /\ at = "endturn"
    /\ wreckcounter' = [p \in Players |-> IF wreckcounter[p] = 0 THEN 0 ELSE wreckcounter[p] - 1]
    /\ lake' = lake
    /\ at' = IF \A p \in Players : ~alive[p] THEN "lost" ELSE "wind"
    /\ cur_round' = cur_round + 1
    /\ UNCHANGED <<preview, ships, alive, lives, wreckship, winners, windDir, windSpd, plan,
                   turn, phase, move>>
    /\ Observe

(* A wreck goes when its counter has run out, unless it lies in row 0. *)
EndTurn ==
    /\ at = "endturn"
    /\ wreckcounter' = [p \in Players |-> IF wreckcounter[p] = 0 THEN 0 ELSE wreckcounter[p] - 1]
    /\ LET gone == {p \in Players : wreckcounter'[p] = 0 /\ wreckship[p][1] # 0}
           Under(p) == {wreckship[p], <<wreckship[p][1], wreckship[p][2] - 1>>}
       IN  /\ lake' = [c \in Cells |-> IF \E p \in gone : c \in Under(p) THEN Sea ELSE lake[c]]
           /\ wreckship' = [p \in Players |-> IF p \in gone THEN <<0, 0>> ELSE wreckship[p]]
    /\ at' = IF \A p \in Players : ~alive[p] THEN "lost" ELSE "wind"
    /\ cur_round' = cur_round + 1
    /\ UNCHANGED <<preview, ships, alive, lives, winners, windDir, windSpd, plan,
                   turn, phase, move>>
    /\ Observe

Next ==
    \/ WindChange \/ DeclareMove \/ PassOver
    \/ StartMoving \/ WinCheck \/ WindCheck \/ SkipWreck \/ MoveTo \/ EndPhase
    \/ EndTurn

Spec == Init /\ [][Next]_vars

----------------------------------------------------------------------------
(* Properties *)

TypeOK ==
    /\ lake \in [Cells -> Codes] /\ preview \in [0..Width-1 -> Codes]
    /\ ships \in Fleets
    /\ alive \in [Players -> BOOLEAN] /\ lives \in [Players -> Int]
    /\ donemoving \in [Players -> BOOLEAN]
    /\ moves \in [Players -> [1..Phases -> 0..4]]
    /\ wreckship \in [Players -> Cells] /\ wreckcounter \in [Players -> 0..3]
    /\ winners \subseteq Players
    /\ windDir \in 1..4 /\ windSpd \in 0..19 /\ cur_round \in Nat
    /\ at \in {"wind", "declare", "start", "wincheck", "windcheck", "moveto",
               "endphase", "endturn", "won", "lost"}
    /\ turn \in Players /\ phase \in 1..Phases
    /\ heading \in 0..4 /\ again \in BOOLEAN /\ blown \subseteq Players
    /\ astray \subseteq Players /\ rounded \subseteq Players

(* A ship is on the lake once, whole and in an even column, or not at all, *)
(* and a ship that is lost is not on it: whatever was painted over what.   *)
ShipsInv ==
    \A p \in Players :
        Shown(lake, p) # {} =>
            /\ alive[p]
            /\ Shown(lake, p) = {Ship(p), Beside(Ship(p))}
            /\ Ship(p)[2] % 2 = 0

(* A ship sails exactly as long as it has lives left. *)
LivesInv == \A p \in Players : alive[p] <=> lives[p] > 0

(* wreckship holds the right cell of a wreck, and nothing of a ship that   *)
(* sails.                                                                  *)
WreckInv ==
    \A p \in Players :
        /\ wreckship[p][1] # 0 => wreckship[p][2] % 2 = 1
        /\ alive[p] => wreckcounter[p] = 0 /\ wreckship[p] = <<0, 0>>

IInv == TypeOK /\ ShipsInv /\ LivesInv /\ WreckInv

(* Every wreck outside row 0 is one whose removal is due within 3 rounds,  *)
(* unless a wreck has been recorded in the corner: that of a ship painted  *)
(* over, or of one already wrecked that was rammed once more by a ship     *)
(* reading prevlake behind the last row, so that its first wreck stays.    *)
WrecksAreTimed ==
    \/ \E p \in Players : wreckship[p] = Beside(<<0, 0>>)
    \/ \A c \in Cells :
          lake[c] = Wreckage /\ c[1] > 0 =>
              \E p \in Players : wreckcounter[p] > 0 /\ wreckship[p] \in {c, Beside(c)}

(* In its move a ship that is on the lake goes one place in its direction, *)
(* unharmed, or it stays where it is, or is wrecked, and pays for it.      *)
MoveOrPay ==
    [][MoveTo /\ heading # 0 /\ alive[turn] /\ Shown(lake, turn) # {} =>
        \/ /\ lives' = lives
           /\ FindShip(lake', turn) = Toward(Ship(turn), heading)
        \/ /\ lives'[turn] < lives[turn]
           /\ alive'[turn] => FindShip(lake', turn) = Ship(turn)]_vars

(* Nobody loses a life by another ship's move without that ship losing one *)
(* in the collision; and away from the edges of the lake the rammed ship   *)
(* was in the place the other one headed for.                              *)
RammingIsMutual ==
    [][\A p \in Players : lives'[p] < lives[p] /\ p # turn =>
        /\ lives'[turn] < lives[turn]
        /\ AtEdge(Ship(turn), heading) \/ Ship(p) = Toward(Ship(turn), heading)]_vars

(* A race that is won has winners, who sail, and is over; and a race is    *)
(* lost only when no ship is left.                                         *)
WinnersSail ==
    /\ \A p \in winners : alive[p]
    /\ at = "won" <=> winners # {}
    /\ at = "lost" => \A p \in Players : ~alive[p]

(* "Whoever reaches the finish line first, completing a full cruising      *)
(* around the island" (README.md): a winner sails, and has been on the     *)
(* other side of the island, unless its ship was painted over on the way.  *)
WinnersRounded ==
    /\ \A p \in winners : p \in rounded \/ p \in astray
    /\ WinnersSail
====
