-------------------------- MODULE SailingGameProofs --------------------------
(***************************************************************************)
(* Proofs about SailingGame, for every lake, island, number of players,    *)
(* fleet and wind: whatever is painted over what, a ship is on the lake    *)
(* whole or not at all; a move succeeds or is paid for; a collision costs  *)
(* both ships; and wrecks are removed in time, with the exception the      *)
(* property names.  On a lake whose island has a row that bars the way from *)
(* start to finish, a winner has been beyond it.                           *)
(***************************************************************************)
EXTENDS SailingGame, FiniteSetTheorems, NaturalsInduction, WellFoundedInduction, TLAPS

-----------------------------------------------------------------------------
(* Places: two cells side by side, the left one in an even column *)

EvenCells == {c \in Cells : c[2] % 2 = 0}
Pair(c) == {c, Beside(c)}

\* A player's ship is on the lake l whole, or not at all.
Whole(l, p) == Shown(l, p) = {} \/ \E c \in EvenCells : Shown(l, p) = Pair(c)

\* A set of whole places, and the lake with all of it painted.
Aligned(region) ==
    region \subseteq Cells /\ \A c \in EvenCells : c \in region <=> Beside(c) \in region
Painted(l, region, code) == [c \in Cells |-> IF c \in region THEN code ELSE l[c]]

LEMMA CellIsPair ==
    /\ \A c \in Cells : /\ c[1] \in 0..(Height - 1) /\ c[2] \in 0..(Width - 1)
                        /\ c[1] \in Nat /\ c[2] \in Nat /\ c = <<c[1], c[2]>>
    /\ \A y \in 0..(Height - 1), x \in 0..(Width - 1) : <<y, x>> \in Cells
    /\ Height \in Nat \ {0} /\ Width \in Nat \ {0} /\ Width % 2 = 0
BY GameAssumption DEF Cells

LEMMA PlaceFits ==
    ASSUME NEW c \in EvenCells
    PROVE  /\ c \in Cells /\ Beside(c) \in Cells /\ Beside(c) # c
           /\ Beside(c) = <<c[1], c[2] + 1>> /\ c[2] % 2 = 0
           /\ Beside(c)[1] = c[1] /\ Beside(c)[2] = c[2] + 1 /\ Beside(c)[2] % 2 = 1
<1>1. /\ c \in Cells /\ c[1] \in 0..(Height - 1) /\ c[2] \in 0..(Width - 1)
      /\ c[2] % 2 = 0 /\ Width % 2 = 0 /\ Width \in Nat
    BY CellIsPair DEF EvenCells
<1>2. c[2] + 1 \in 0..(Width - 1) /\ (c[2] + 1) % 2 = 1
    BY <1>1
<1>3. Beside(c) = <<c[1], c[2] + 1>>
    BY DEF Beside
<1>4. Beside(c) \in Cells
    BY <1>1, <1>2, <1>3, CellIsPair
<1>5. Beside(c) # c
    BY <1>1, <1>2, <1>3
<1> QED BY <1>1, <1>2, <1>3, <1>4, <1>5

(* Two places are the same or have no cell in common. *)
LEMMA PlacesApart ==
    ASSUME NEW c \in EvenCells, NEW d \in EvenCells, Pair(c) \cap Pair(d) # {}
    PROVE  c = d
<1>1. c \in Cells /\ d \in Cells /\ c[2] % 2 = 0 /\ d[2] % 2 = 0
      /\ Beside(c)[2] % 2 = 1 /\ Beside(d)[2] % 2 = 1
      /\ Beside(c) = <<c[1], c[2] + 1>> /\ Beside(d) = <<d[1], d[2] + 1>>
    BY PlaceFits
<1>2. c[2] \in Nat /\ d[2] \in Nat /\ c = <<c[1], c[2]>> /\ d = <<d[1], d[2]>>
    BY <1>1, CellIsPair
<1>3. c = d \/ Beside(c) = Beside(d)
    BY <1>1 DEF Pair
<1>4. Beside(c) = Beside(d) => c[1] = d[1] /\ c[2] + 1 = d[2] + 1
    BY <1>1
<1>5. c[2] + 1 = d[2] + 1 => c[2] = d[2]
    BY <1>2
<1> QED BY <1>2, <1>3, <1>4, <1>5

LEMMA CornerIsPlace == <<0, 0>> \in EvenCells
<1>1. 0 \in 0..(Height - 1) /\ 0 \in 0..(Width - 1) /\ 0 % 2 = 0
    BY CellIsPair
<1>2. <<0, 0>> \in Cells
    BY <1>1, CellIsPair
<1> QED BY <1>1, <1>2 DEF EvenCells

LEMMA PlaceAligned ==
    ASSUME NEW c \in EvenCells
    PROVE  Aligned(Pair(c))
<1>1. Pair(c) \subseteq Cells
    BY PlaceFits DEF Pair
<1>2. ASSUME NEW d \in EvenCells PROVE d \in Pair(c) <=> Beside(d) \in Pair(c)
    <2>1. ASSUME d \in Pair(c) \/ Beside(d) \in Pair(c) PROVE d = c
        <3>1. Pair(c) \cap Pair(d) # {}
            BY <2>1 DEF Pair
        <3> QED BY <3>1, PlacesApart
    <2> QED BY <2>1 DEF Pair
<1> QED BY <1>1, <1>2 DEF Aligned

LEMMA UnionAligned ==
    ASSUME NEW F, \A R \in F : Aligned(R)
    PROVE  Aligned(UNION F)
BY DEF Aligned

(* findship finds the left cell of a ship that is shown whole. *)
LEMMA FindsPlace ==
    ASSUME NEW l, NEW p, NEW c \in EvenCells, Shown(l, p) = Pair(c)
    PROVE  FindShip(l, p) = c
<1> DEFINE First(x) == \A d \in Shown(l, p) \ {x} : Before(x, d)
<1>1. /\ Beside(c) = <<c[1], c[2] + 1>> /\ Beside(c) # c /\ c \in Cells
      /\ Beside(c)[1] = c[1] /\ Beside(c)[2] = c[2] + 1
    BY PlaceFits
<1>2. c[2] \in Nat
    BY <1>1, CellIsPair
<1>3. Before(c, Beside(c)) /\ ~Before(Beside(c), c)
    <2>1. c[2] < c[2] + 1 /\ ~(c[2] + 1 < c[2])
        BY <1>2
    <2>2. c[1] \in Nat
        BY <1>1, CellIsPair
    <2> QED BY <1>1, <2>1, <2>2 DEF Before
<1>4. First(c) /\ c \in Shown(l, p)
    BY <1>3 DEF Pair
<1>5. ~First(Beside(c))
    BY <1>1, <1>3 DEF Pair
<1>6. \A x \in Shown(l, p) : First(x) => x = c
    BY <1>5 DEF Pair
<1>7. Shown(l, p) # {}
    BY <1>4
<1>8. FindShip(l, p) = CHOOSE x \in Shown(l, p) : First(x)
    BY <1>7 DEF FindShip
<1> QED BY <1>4, <1>6, <1>8

LEMMA FindsWhole ==
    ASSUME NEW l, NEW p, Whole(l, p)
    PROVE  /\ FindShip(l, p) \in EvenCells
           /\ Shown(l, p) # {} => Shown(l, p) = Pair(FindShip(l, p))
           /\ Shown(l, p) = {} => FindShip(l, p) = <<0, 0>>
<1>1. CASE Shown(l, p) = {}
    BY <1>1, CornerIsPlace DEF FindShip
<1>2. ASSUME NEW c \in EvenCells, Shown(l, p) = Pair(c)
      PROVE  /\ FindShip(l, p) \in EvenCells
             /\ Shown(l, p) # {} => Shown(l, p) = Pair(FindShip(l, p))
             /\ Shown(l, p) = {} => FindShip(l, p) = <<0, 0>>
    <2>1. FindShip(l, p) = c /\ Shown(l, p) # {}
        BY <1>2, FindsPlace DEF Pair
    <2> QED BY <1>2, <2>1
<1> QED BY <1>1, <1>2 DEF Whole

(* What is painted over a region of whole places covers a ship or spares it. *)
LEMMA PaintedShips ==
    ASSUME NEW l, NEW region, Aligned(region), NEW code, NEW p, p # code, Whole(l, p)
    PROVE  LET after == Painted(l, region, code)
           IN  /\ Whole(after, p)
               /\ Shown(after, p) = {} \/ Shown(after, p) = Shown(l, p)
               /\ Shown(l, p) \cap region # {} => Shown(after, p) = {}
               /\ Shown(l, p) \cap region = {} => Shown(after, p) = Shown(l, p)
<1> DEFINE after == Painted(l, region, code)
<1>1. Shown(after, p) = Shown(l, p) \ region
    <2>1. \A c \in Cells : after[c] = IF c \in region THEN code ELSE l[c]
        BY DEF Painted
    <2> QED BY <2>1 DEF Shown
<1>2. Shown(l, p) \cap region # {} => Shown(after, p) = {}
    <2> SUFFICES ASSUME Shown(l, p) \cap region # {} PROVE Shown(l, p) \ region = {}
        BY <1>1
    <2>1. PICK c \in EvenCells : Shown(l, p) = Pair(c)
        BY DEF Whole
    <2>2. c \in region <=> Beside(c) \in region
        BY DEF Aligned
    <2> QED BY <2>1, <2>2 DEF Pair
<1>3. Shown(l, p) \cap region = {} => Shown(after, p) = Shown(l, p)
    BY <1>1
<1>4. Shown(after, p) = {} \/ Shown(after, p) = Shown(l, p)
    BY <1>2, <1>3
<1>5. Whole(after, p)
    BY <1>4 DEF Whole
<1> HIDE DEF after
<1> QED BY <1>2, <1>3, <1>4, <1>5 DEF after

LEMMA PaintIsPainted ==
    ASSUME NEW l \in [Cells -> Codes], NEW c \in EvenCells, NEW code
    PROVE  Paint(l, c, code) = Painted(l, Pair(c), code)
<1>1. c \in Cells /\ Beside(c) \in Cells
    BY PlaceFits
<1> QED BY <1>1 DEF Paint, Painted, Pair

LEMMA PaintedLake ==
    ASSUME NEW l \in [Cells -> Codes], NEW region, NEW code \in Codes
    PROVE  Painted(l, region, code) \in [Cells -> Codes]
BY DEF Painted

(* A ship drawn in a place of its own is there. *)
LEMMA DrawnShip ==
    ASSUME NEW l \in [Cells -> Codes], NEW c \in EvenCells, NEW p,
           Shown(l, p) = {} \/ Shown(l, p) = Pair(c)
    PROVE  /\ Shown(Painted(l, Pair(c), p), p) = Pair(c)
           /\ Whole(Painted(l, Pair(c), p), p)
           /\ FindShip(Painted(l, Pair(c), p), p) = c
<1> DEFINE after == Painted(l, Pair(c), p)
<1>1. Pair(c) \subseteq Cells
    BY PlaceFits DEF Pair
<1>2. \A d \in Cells : after[d] = IF d \in Pair(c) THEN p ELSE l[d]
    BY DEF Painted
<1>3. Shown(after, p) = Pair(c)
    BY <1>1, <1>2 DEF Shown
<1> HIDE DEF after
<1>4. Whole(after, p)
    BY <1>3 DEF Whole
<1>5. FindShip(after, p) = c
    BY <1>3, FindsPlace
<1> QED BY <1>3, <1>4, <1>5 DEF after

LEMMA CodesApart ==
    /\ Sea \in Codes /\ Land \in Codes /\ Wreckage \in Codes /\ Players \subseteq Codes
    /\ \A p \in Players : p # Sea /\ p # Land /\ p # Wreckage
    /\ Sea # Wreckage /\ Land # Wreckage /\ Sea # Land
BY GameAssumption DEF Sea, Land, Wreckage, Codes, Players

(* The invariant about ships, of a lake and of who sails. *)
Fleet(l, sailing) == \A p \in Players : Whole(l, p) /\ (Shown(l, p) # {} => sailing[p])

LEMMA ShipsAreFleet == ShipsInv <=> Fleet(lake, alive)
<1>1. ASSUME ShipsInv PROVE Fleet(lake, alive)
    <2> SUFFICES ASSUME NEW p \in Players
                 PROVE  Whole(lake, p) /\ (Shown(lake, p) # {} => alive[p])
        BY DEF Fleet
    <2>1. CASE Shown(lake, p) = {}
        BY <2>1 DEF Whole
    <2>2. CASE Shown(lake, p) # {}
        <3>1. /\ alive[p] /\ Shown(lake, p) = Pair(Ship(p)) /\ Ship(p)[2] % 2 = 0
            BY <1>1, <2>2 DEF ShipsInv, Pair
        <3>2. Ship(p) \in Cells
            BY <3>1 DEF Pair, Shown
        <3>3. Ship(p) \in EvenCells
            BY <3>1, <3>2 DEF EvenCells
        <3> QED BY <3>1, <3>3 DEF Whole
    <2> QED BY <2>1, <2>2
<1>2. ASSUME Fleet(lake, alive) PROVE ShipsInv
    <2> SUFFICES ASSUME NEW p \in Players, Shown(lake, p) # {}
                 PROVE  /\ alive[p] /\ Shown(lake, p) = {Ship(p), Beside(Ship(p))}
                        /\ Ship(p)[2] % 2 = 0
        BY DEF ShipsInv
    <2>1. Whole(lake, p) /\ alive[p]
        BY <1>2 DEF Fleet
    <2>2. FindShip(lake, p) \in EvenCells /\ Shown(lake, p) = Pair(FindShip(lake, p))
        BY <2>1, FindsWhole
    <2>3. FindShip(lake, p)[2] % 2 = 0
        BY <2>2, PlaceFits
    <2> QED BY <2>1, <2>2, <2>3 DEF Ship, Pair
<1> QED BY <1>1, <1>2

LEMMA PaintedFleet ==
    ASSUME NEW l, NEW sailing, Fleet(l, sailing), NEW region, Aligned(region),
           NEW code, code \notin Players
    PROVE  Fleet(Painted(l, region, code), sailing)
<1> SUFFICES ASSUME NEW p \in Players
             PROVE  /\ Whole(Painted(l, region, code), p)
                    /\ Shown(Painted(l, region, code), p) # {} => sailing[p]
    BY DEF Fleet
<1>1. Whole(l, p) /\ (Shown(l, p) # {} => sailing[p]) /\ p # code
    BY DEF Fleet
<1>2. /\ Whole(Painted(l, region, code), p)
      /\ Shown(Painted(l, region, code), p) = {}
         \/ Shown(Painted(l, region, code), p) = Shown(l, p)
    BY <1>1, PaintedShips
<1> QED BY <1>1, <1>2

-----------------------------------------------------------------------------
(* Types, and the start of the race *)

(* Inside the lake, lake[y][x] is the cell of row y and column x. *)
LEMMA Remainder ==
    ASSUME NEW c \in Nat \ {0}, NEW a \in Nat, NEW r \in 0..(c - 1)
    PROVE  /\ a * c + r \in Nat /\ (a * c + r) % c = r
           /\ (a * c + r) \div c = a
OBVIOUS

LEMMA QuotientRemainder ==
    ASSUME NEW c \in Nat \ {0}, NEW n \in Nat
    PROVE  /\ n \div c \in Nat /\ n % c \in 0..(c - 1)
           /\ n = (n \div c) * c + (n % c)
OBVIOUS

LEMMA ProductOrder ==
    ASSUME NEW c \in Nat \ {0}, NEW a \in Nat, NEW b \in Nat, a * c < b * c
    PROVE  a < b
OBVIOUS

LEMMA RowsFit ==
    ASSUME NEW c \in Nat \ {0}, NEW h \in Nat, NEW a \in 0..(h - 1), NEW r \in 0..(c - 1)
    PROVE  a * c + r < h * c
<1>1. (a + 1) * c <= h * c
    OBVIOUS
<1>2. (a + 1) * c = a * c + c
    OBVIOUS
<1>3. a * c \in Nat /\ h * c \in Nat /\ r < c
    OBVIOUS
<1> QED BY <1>1, <1>2, <1>3

LEMMA ReadsCell ==
    ASSUME NEW c \in Cells
    PROVE  Read(c[1], c[2]) = {lake[c]}
<1>1. /\ c[1] \in 0..(Height - 1) /\ c[2] \in 0..(Width - 1) /\ c = <<c[1], c[2]>>
      /\ Height \in Nat /\ Width \in Nat \ {0} /\ c[1] \in Nat
    BY CellIsPair
<1> DEFINE i == (c[1] * Width) + c[2]
<1>2. i \in Nat /\ i % Width = c[2] /\ i \div Width = c[1]
    BY <1>1, Remainder
<1>3. i < Height * Width
    BY <1>1, RowsFit
<1>4. ~(i < 0)
    BY <1>2
<1> QED BY <1>1, <1>2, <1>3, <1>4 DEF Read

LEMMA TopRowTyped == ASSUME TypeOK PROVE TopRow \in [0..(Width - 1) -> Codes]
<1>1. \A x \in 0..(Width - 1) : <<0, x>> \in Cells
    BY CellIsPair
<1> QED BY <1>1 DEF TopRow, TypeOK

(* The start of the race: a ship every four columns. *)
LEMMA Started ==
    /\ StartingLake \in [Cells -> Codes]
    /\ \A p \in Players : Shown(StartingLake, p) = Pair(<<StartRow, 4 * (p - 1)>>)
    /\ \A p \in Players : <<StartRow, 4 * (p - 1)>> \in EvenCells
<1>1. ASSUME NEW c \in Cells, NEW p \in Players, c[2] \in 4 * (p - 1) .. 4 * (p - 1) + 1
      PROVE  (c[2] \div 4) + 1 = p
    <2>1. c[2] \in Nat
        BY CellIsPair
    <2>2. p \in 1..4
        BY GameAssumption DEF Players
    <2> QED BY <1>1, <2>1, <2>2
<1> DEFINE Here(c, p) == c[1] = StartRow /\ c[2] \in 4 * (p - 1) .. 4 * (p - 1) + 1
<1>2. ASSUME NEW c \in Cells
      PROVE  /\ StartingLake[c] \in Codes
             /\ \A p \in Players : StartingLake[c] = p <=> Here(c, p)
    <2>1. StartingLake[c] = IF \E p \in Players : Here(c, p) THEN (c[2] \div 4) + 1
                            ELSE IF c \in Island THEN Land ELSE Sea
        BY DEF StartingLake
    <2>2. CASE \E p \in Players : Here(c, p)
        <3>1. PICK p \in Players : Here(c, p)
            BY <2>2
        <3>2. StartingLake[c] = p
            BY <2>1, <3>1, <1>1
        <3>3. \A q \in Players : Here(c, q) => q = p
            BY <3>1, <1>1
        <3> QED BY <3>1, <3>2, <3>3, CodesApart
    <2>3. CASE ~\E p \in Players : Here(c, p)
        <3> HIDE DEF Here
        <3>1. StartingLake[c] \in {Land, Sea}
            BY <2>1, <2>3
        <3> QED BY <2>3, <3>1, CodesApart
    <2> QED BY <2>2, <2>3
<1>3. StartingLake \in [Cells -> Codes]
    <2>1. StartingLake = [c \in Cells |-> StartingLake[c]]
        BY DEF StartingLake
    <2> QED BY <2>1, <1>2
<1>4. ASSUME NEW p \in Players PROVE <<StartRow, 4 * (p - 1)>> \in EvenCells
    <2>1. p \in 1..4 /\ p <= NumPlayers /\ NumPlayers \in Nat /\ 4 * NumPlayers - 2 <= Width
          /\ StartRow \in 0..(Height - 1) /\ Width \in Nat
        BY GameAssumption DEF Players
    <2>2. 4 * (p - 1) \in 0..(Width - 1) /\ (4 * (p - 1)) % 2 = 0
        BY <2>1
    <2> QED BY <2>1, <2>2, CellIsPair DEF EvenCells
<1>5. ASSUME NEW p \in Players PROVE Shown(StartingLake, p) = Pair(<<StartRow, 4 * (p - 1)>>)
    <2> DEFINE a == <<StartRow, 4 * (p - 1)>>
    <2>1. a \in Cells /\ Beside(a) \in Cells
        BY <1>4, PlaceFits
    <2>2. ASSUME NEW c \in Cells PROVE Here(c, p) <=> c \in Pair(a)
        <3>1. c[2] \in Nat /\ c = <<c[1], c[2]>>
            BY CellIsPair
        <3>6. p \in 1..4
            BY GameAssumption DEF Players
        <3>2. Beside(a) = <<StartRow, 4 * (p - 1) + 1>>
            BY DEF Beside
        <3>3. c[2] \in 4 * (p - 1) .. 4 * (p - 1) + 1
              <=> c[2] = 4 * (p - 1) \/ c[2] = 4 * (p - 1) + 1
            BY <3>1, <3>6
        <3>4. c = a <=> c[1] = StartRow /\ c[2] = 4 * (p - 1)
            BY <3>1
        <3>5. c = Beside(a) <=> c[1] = StartRow /\ c[2] = 4 * (p - 1) + 1
            BY <3>1, <3>2
        <3> QED BY <3>3, <3>4, <3>5 DEF Pair
    <2> HIDE DEF Here
    <2>3. \A c \in Cells : StartingLake[c] = p <=> c \in Pair(a)
        BY <1>2, <2>2
    <2> QED BY <2>1, <2>3 DEF Shown, Pair
<1> QED BY <1>3, <1>4, <1>5

LEMMA InitTypeOK == Init => TypeOK
<1> SUFFICES ASSUME Init PROVE TypeOK
    OBVIOUS
<1>1. lake \in [Cells -> Codes]
    BY Started DEF Init
<1>2. <<0, 0>> \in Cells /\ \A x \in 0..(Width - 1) : <<0, x>> \in Cells
    BY CornerIsPlace, CellIsPair DEF EvenCells
<1>3. preview \in [0..(Width - 1) -> Codes]
    BY <1>1, <1>2 DEF Init, TopRow
<1>4. wreckship \in [Players -> Cells]
    BY <1>2 DEF Init
<1>5. turn \in Players /\ phase \in 1..Phases
    BY GameAssumption DEF Init, Players
<1>6. moves \in [Players -> [1..Phases -> 0..4]]
    BY DEF Init
<1>7. /\ ships \in Fleets /\ alive \in [Players -> BOOLEAN] /\ lives \in [Players -> Int]
      /\ donemoving \in [Players -> BOOLEAN]
      /\ wreckcounter \in [Players -> 0..3]
      /\ winners \subseteq Players
      /\ windDir \in 1..4 /\ windSpd \in 0..19 /\ cur_round \in Nat
      /\ at \in {"wind", "declare", "start", "wincheck", "windcheck", "moveto",
                 "endphase", "endturn", "won", "lost"}
      /\ heading \in 0..4 /\ again \in BOOLEAN /\ blown \subseteq Players
      /\ astray \subseteq Players /\ rounded \subseteq Players
    <2>2. lives \in [Players -> Int]
        BY DEF Init
    <2>3. /\ ships \in Fleets /\ alive \in [Players -> BOOLEAN]
          /\ donemoving \in [Players -> BOOLEAN]
          /\ wreckcounter \in [Players -> 0..3]
        BY DEF Init
    <2>4. /\ winners \subseteq Players
          /\ windDir \in 1..4 /\ windSpd \in 0..19 /\ cur_round \in Nat
          /\ at \in {"wind", "declare", "start", "wincheck", "windcheck", "moveto",
                     "endphase", "endturn", "won", "lost"}
        BY DEF Init
    <2>5. /\ heading \in 0..4 /\ blown \subseteq Players
          /\ astray \subseteq Players /\ rounded \subseteq Players
        BY DEF Init
    <2>6. again \in BOOLEAN
        BY Zenon DEF Init
    <2> QED BY <2>2, <2>3, <2>4, <2>5, <2>6
<1> QED BY <1>1, <1>3, <1>4, <1>5, <1>6, <1>7 DEF TypeOK

LEMMA InitInvariant == Init => IInv /\ WrecksAreTimed
<1> SUFFICES ASSUME Init PROVE IInv /\ WrecksAreTimed
    OBVIOUS
<1>1. TypeOK
    BY InitTypeOK
<1>2. ShipsInv
    <2>1. \A p \in Players : Whole(lake, p)
        BY Started DEF Init, Whole
    <2>2. Fleet(lake, alive)
        BY <2>1 DEF Fleet, Init
    <2> QED BY <2>2, ShipsAreFleet
<1>3. LivesInv
    BY DEF Init, LivesInv
<1>4. WreckInv
    BY DEF Init, WreckInv
<1>5. ASSUME NEW c \in Cells PROVE lake[c] # Wreckage
    <2>1. CASE \E p \in Players : c[1] = StartRow /\ c[2] \in 4 * (p - 1) .. 4 * (p - 1) + 1
        <3>1. c[2] \in Nat
            BY CellIsPair
        <3>2. StartingLake[c] = (c[2] \div 4) + 1
            BY <2>1 DEF StartingLake
        <3> QED BY <3>1, <3>2 DEF Init, Wreckage
    <2>2. CASE ~\E p \in Players : c[1] = StartRow /\ c[2] \in 4 * (p - 1) .. 4 * (p - 1) + 1
        <3>1. StartingLake[c] \in {Land, Sea}
            BY <2>2 DEF StartingLake
        <3> QED BY <3>1, CodesApart DEF Init
    <2> QED BY <2>1, <2>2
<1>6. WrecksAreTimed
    BY <1>5 DEF WrecksAreTimed
<1> QED BY <1>1, <1>2, <1>3, <1>4, <1>6 DEF IInv

-----------------------------------------------------------------------------
(* What a move may do *)

LEMMA ShipsFound ==
    ASSUME ShipsInv, NEW p \in Players
    PROVE  /\ Whole(lake, p) /\ Ship(p) \in EvenCells
           /\ Shown(lake, p) # {} => Shown(lake, p) = Pair(Ship(p)) /\ alive[p]
           /\ Shown(lake, p) = {} => Ship(p) = <<0, 0>>
<1>1. Whole(lake, p) /\ (Shown(lake, p) # {} => alive[p])
    BY ShipsAreFleet DEF Fleet
<1> QED BY <1>1, FindsWhole DEF Ship

LEMMA FleetKept ==
    ASSUME Fleet(lake', alive')
    PROVE  ShipsInv'
<1>1. (ShipsInv <=> Fleet(lake, alive))'
    BY ShipsAreFleet, PTL
<1> QED BY <1>1

(* Away from the edges a move ends in another place of the lake. *)
LEMMA TowardFits ==
    ASSUME NEW c \in EvenCells, NEW d \in 1..4, ~AtEdge(c, d)
    PROVE  Toward(c, d) \in EvenCells /\ Toward(c, d) # c
<1>1. /\ c[1] \in 0..(Height - 1) /\ c[2] \in 0..(Width - 1) /\ c = <<c[1], c[2]>>
      /\ Height \in Nat /\ Width \in Nat /\ Width % 2 = 0
    BY CellIsPair DEF EvenCells
<1>2. c[2] % 2 = 0
    BY DEF EvenCells
<1>3. CASE d = 1
    <2>1. c[1] - 1 \in 0..(Height - 1) /\ c[1] - 1 # c[1]
        BY <1>1, <1>3 DEF AtEdge
    <2>2. Toward(c, d) = <<c[1] - 1, c[2]>>
        BY <1>3 DEF Toward
    <2> QED BY <1>1, <1>2, <2>1, <2>2, CellIsPair DEF EvenCells
<1>4. CASE d = 2
    <2>1. c[2] + 2 \in 0..(Width - 1) /\ (c[2] + 2) % 2 = 0 /\ c[2] + 2 # c[2]
        BY <1>1, <1>2, <1>4 DEF AtEdge
    <2>2. Toward(c, d) = <<c[1], c[2] + 2>>
        BY <1>4 DEF Toward
    <2> QED BY <1>1, <2>1, <2>2, CellIsPair DEF EvenCells
<1>5. CASE d = 3
    <2>1. c[1] + 1 \in 0..(Height - 1) /\ c[1] + 1 # c[1]
        BY <1>1, <1>5 DEF AtEdge
    <2>2. Toward(c, d) = <<c[1] + 1, c[2]>>
        BY <1>5 DEF Toward
    <2> QED BY <1>1, <1>2, <2>1, <2>2, CellIsPair DEF EvenCells
<1>6. CASE d = 4
    <2>1. c[2] - 2 \in 0..(Width - 1) /\ (c[2] - 2) % 2 = 0 /\ c[2] - 2 # c[2]
        BY <1>1, <1>2, <1>6 DEF AtEdge
    <2>2. Toward(c, d) = <<c[1], c[2] - 2>>
        BY <1>6 DEF Toward
    <2> QED BY <1>1, <2>1, <2>2, CellIsPair DEF EvenCells
<1> QED BY <1>3, <1>4, <1>5, <1>6

(* The first cell crashcheck looks at belongs to the place moved to. *)
LEMMA LooksAhead ==
    ASSUME NEW c \in EvenCells, NEW d \in 1..4, ~AtEdge(c, d)
    PROVE  LET look == LookedAt(c, d)[1]
           IN  look \in Pair(Toward(c, d)) /\ look \in Cells
<1> DEFINE look == LookedAt(c, d)[1]
<1>1. Toward(c, d) \in EvenCells
    BY TowardFits
<1>2. CASE d # 4
    <2>1. look = Toward(c, d)
        BY <1>2 DEF LookedAt
    <2> QED BY <1>1, <2>1, PlaceFits DEF Pair
<1>3. CASE d = 4
    <2>1. look = <<c[1], c[2] - 1>> /\ Toward(c, d) = <<c[1], c[2] - 2>>
        BY <1>3 DEF LookedAt, Toward
    <2>2. c[2] \in Nat
        BY CellIsPair DEF EvenCells
    <2>3. (c[2] - 2) + 1 = c[2] - 1
        BY <2>2
    <2>4. Beside(Toward(c, d)) = look
        BY <2>1, <2>3 DEF Beside
    <2> QED BY <1>1, <2>4, PlaceFits DEF Pair
<1> QED BY <1>2, <1>3

(* What a move costs, and whom. *)
LEMMA RammedOnce ==
    ASSUME NEW t
    PROVE  /\ Rammed(t) = {} \/ Rammed(t) = {t}
           /\ Cardinality(Rammed(t)) = 0 <=> Rammed(t) = {}
           /\ Cardinality(Rammed(t)) \in Nat
<1>1. Rammed(t) = {} \/ Rammed(t) = {t}
    BY DEF Rammed
<1>2. Cardinality({}) = 0 /\ Cardinality({t}) = 1
    BY FS_EmptySet, FS_Singleton
<1> QED BY <1>1, <1>2

LEMMA DamageCounts ==
    ASSUME TypeOK, NEW t, NEW s
    PROVE  /\ Damage(t, s) \in [Players -> Nat]
           /\ AtEdge(Ship(turn), heading) => Damage(t, s)[turn] > 0
           /\ Rammed(t) # {} => Damage(t, s)[turn] > 0
           /\ \A p \in Players : Damage(t, s)[p] > 0 /\ p # turn => p \in Rammed(t)
<1> DEFINE n == Cardinality(Rammed(t))
           e == IF AtEdge(Ship(turn), heading) THEN 1 ELSE 0
           g == IF {t, s} \cap {Land, Wreckage} # {} THEN 1 ELSE 0
<1>1. /\ n \in Nat /\ (Rammed(t) # {} => n > 0) /\ e \in Nat /\ g \in Nat
      /\ AtEdge(Ship(turn), heading) => e > 0
    BY RammedOnce
<1>2. OwnDamage(t, s) = e + g + n
    BY DEF OwnDamage
<1> HIDE DEF n, e, g
<1>3. /\ OwnDamage(t, s) \in Nat
      /\ AtEdge(Ship(turn), heading) \/ Rammed(t) # {} => OwnDamage(t, s) > 0
    BY <1>1, <1>2
<1>4. turn \in Players
    BY DEF TypeOK
<1>5. ASSUME NEW p \in Players
      PROVE  /\ Damage(t, s)[p] \in Nat
             /\ p = turn /\ OwnDamage(t, s) > 0 => Damage(t, s)[p] > 0
             /\ Damage(t, s)[p] > 0 /\ p # turn => p \in Rammed(t)
    <2>1. Damage(t, s)[p] = (IF p = turn THEN OwnDamage(t, s) ELSE 0) +
                            (IF p \in Rammed(t) THEN 1 ELSE 0)
        BY DEF Damage
    <2> QED BY <1>3, <2>1
<1>6. Damage(t, s) = [p \in Players |-> Damage(t, s)[p]]
    BY DEF Damage
<1>7. Damage(t, s) \in [Players -> Nat]
    BY <1>5, <1>6
<1> QED BY <1>3, <1>4, <1>5, <1>7

-----------------------------------------------------------------------------
(* The steps that paint *)

BoardOK ==
    /\ lake \in [Cells -> Codes]
    /\ alive \in [Players -> BOOLEAN] /\ lives \in [Players -> Int]
    /\ wreckship \in [Players -> Cells] /\ wreckcounter \in [Players -> 0..3]

Kept == BoardOK /\ ShipsInv /\ LivesInv /\ WreckInv /\ WrecksAreTimed

(* No new wreck, and nobody harmed. *)
LEMMA HarmlessPaint ==
    ASSUME IInv, WrecksAreTimed, UNCHANGED <<alive, lives, wreckship, wreckcounter>>,
           lake' \in [Cells -> Codes], Fleet(lake', alive),
           \A c \in Cells : lake'[c] = Wreckage => lake[c] = Wreckage
    PROVE  Kept'
<1>1. BoardOK'
    BY DEF BoardOK, IInv, TypeOK
<1>2. ShipsInv'
    BY FleetKept
<1>3. LivesInv' /\ WreckInv'
    BY DEF LivesInv, WreckInv, IInv
<1>4. WrecksAreTimed'
    BY DEF WrecksAreTimed
<1> QED BY <1>1, <1>2, <1>3, <1>4 DEF Kept

LEMMA PaintedWrecks ==
    ASSUME NEW l, NEW region, NEW code, code # Wreckage
    PROVE  \A c \in Cells : Painted(l, region, code)[c] = Wreckage => l[c] = Wreckage
BY DEF Painted

LEMMA StartMovingKeeps == IInv /\ WrecksAreTimed /\ StartMoving => Kept'
<1> SUFFICES ASSUME IInv, WrecksAreTimed, StartMoving PROVE Kept'
    OBVIOUS
<1>1. lake' = Painted(lake, FinishLine, Sea)
    BY DEF StartMoving, Painted
<1>2. Aligned(FinishLine)
    <2>1. ASSUME NEW c \in EvenCells PROVE c \in FinishLine <=> Beside(c) \in FinishLine
        <3>1. /\ c \in Cells /\ Beside(c) \in Cells /\ c[2] % 2 = 0
              /\ Beside(c)[1] = c[1] /\ Beside(c)[2] = c[2] + 1
            BY PlaceFits
        <3>2. c[2] \in Nat /\ FinishEnd \in Nat /\ FinishEnd % 2 = 1
            BY <3>1, CellIsPair, GameAssumption
        <3>3. c[2] <= FinishEnd <=> c[2] + 1 <= FinishEnd
            BY <3>1, <3>2
        <3> QED BY <3>1, <3>3 DEF FinishLine
    <2> QED BY <2>1 DEF Aligned, FinishLine
<1>3. lake \in [Cells -> Codes] /\ Fleet(lake, alive)
    BY ShipsAreFleet DEF IInv, TypeOK
<1>4. lake' \in [Cells -> Codes]
    BY <1>1, <1>3, CodesApart, PaintedLake
<1>5. Fleet(lake', alive)
    <2>1. Sea \notin Players
        BY CodesApart
    <2> QED BY <1>1, <1>2, <1>3, <2>1, PaintedFleet
<1>6. \A c \in Cells : lake'[c] = Wreckage => lake[c] = Wreckage
    BY <1>1, CodesApart, PaintedWrecks
<1>7. UNCHANGED <<alive, lives, wreckship, wreckcounter>>
    BY DEF StartMoving
<1> QED BY <1>4, <1>5, <1>6, <1>7, HarmlessPaint

(* A ship that sails arrives whole, in the next place. *)
LEMMA SailKeeps ==
    ASSUME IInv, WrecksAreTimed, heading \in 1..4, alive[turn], NEW t, NEW s, Sail(t, s)
    PROVE  /\ Kept'
           /\ lives' = lives /\ FindShip(lake', turn) = Toward(Ship(turn), heading)
<1> DEFINE from == Ship(turn)
           to == Toward(Ship(turn), heading)
           clear == Painted(lake, Pair(from), Sea)
<1>1. /\ TypeOK /\ ShipsInv /\ lake \in [Cells -> Codes] /\ turn \in Players
      /\ Fleet(lake, alive)
    BY ShipsAreFleet DEF IInv, TypeOK
<1>2. from \in EvenCells /\ Whole(lake, turn)
      /\ (Shown(lake, turn) # {} => Shown(lake, turn) = Pair(from))
    BY <1>1, ShipsFound
<1>3. ~AtEdge(from, heading)
    <2>1. Damage(t, s)[turn] = 0
        BY <1>1 DEF Sail
    <2> QED BY <1>1, <2>1, DamageCounts
<1>4. to \in EvenCells
    BY <1>2, <1>3, TowardFits
<1>5. lake' = Paint(Paint(lake, from, Sea), to, turn)
    BY DEF Sail
<1>6. Paint(lake, from, Sea) = clear /\ clear \in [Cells -> Codes]
    BY <1>1, <1>2, PaintIsPainted, PaintedLake, CodesApart
<1> HIDE DEF clear
<1>7. lake' = Painted(clear, Pair(to), turn)
    BY <1>4, <1>5, <1>6, PaintIsPainted
<1>8. /\ Sea # turn /\ turn \in Codes /\ Sea # Wreckage /\ turn # Wreckage /\ Sea \notin Players
    BY <1>1, CodesApart
<1>9. lake' \in [Cells -> Codes]
    BY <1>6, <1>7, <1>8, PaintedLake
<1>10. Aligned(Pair(from)) /\ Aligned(Pair(to))
    BY <1>2, <1>4, PlaceAligned
<1>11. Shown(clear, turn) = {}
    <2>1. /\ Shown(lake, turn) \cap Pair(from) # {} => Shown(clear, turn) = {}
          /\ Shown(lake, turn) \cap Pair(from) = {} => Shown(clear, turn) = Shown(lake, turn)
        BY <1>2, <1>8, <1>10, PaintedShips DEF clear
    <2> QED BY <1>2, <2>1 DEF Pair
<1>12. /\ Shown(lake', turn) = Pair(to) /\ Whole(lake', turn) /\ FindShip(lake', turn) = to
    BY <1>4, <1>6, <1>7, <1>11, DrawnShip
<1>13. Fleet(lake', alive)
    <2>1. Fleet(clear, alive)
        BY <1>1, <1>8, <1>10, PaintedFleet DEF clear
    <2>2. ASSUME NEW p \in Players, p # turn
          PROVE  Whole(lake', p) /\ (Shown(lake', p) # {} => alive[p])
        <3>1. Whole(clear, p) /\ (Shown(clear, p) # {} => alive[p])
            BY <2>1 DEF Fleet
        <3>2. Whole(lake', p) /\ (Shown(lake', p) = {} \/ Shown(lake', p) = Shown(clear, p))
            BY <1>7, <1>10, <2>2, <3>1, PaintedShips
        <3> QED BY <3>1, <3>2
    <2> QED BY <1>12, <2>2 DEF Fleet
<1>14. \A c \in Cells : lake'[c] = Wreckage => lake[c] = Wreckage
    <2>1. \A c \in Cells : clear[c] = Wreckage => lake[c] = Wreckage
        BY <1>8, PaintedWrecks DEF clear
    <2>2. \A c \in Cells : lake'[c] = Wreckage => clear[c] = Wreckage
        BY <1>7, <1>8, PaintedWrecks
    <2> QED BY <2>1, <2>2
<1>15. UNCHANGED <<alive, lives, wreckship, wreckcounter>>
    BY DEF Sail
<1> QED BY <1>9, <1>12, <1>13, <1>14, <1>15, HarmlessPaint

(* A collision, a grounding or the edge: the lives it costs and the wrecks *)
(* it leaves.                                                              *)
LEMMA CrashCosts ==
    ASSUME IInv, NEW t, NEW s, Crash(t, s)
    PROVE  /\ lives' = [p \in Players |-> lives[p] - Damage(t, s)[p]]
           /\ alive' = [p \in Players |-> alive[p] /\ lives'[p] > 0]
           /\ lives' \in [Players -> Int] /\ alive' \in [Players -> BOOLEAN]
           /\ LivesInv'
           /\ \A p \in Players : Damage(t, s)[p] \in Nat
           /\ \A p \in Players : lives'[p] <= 0 <=> ~alive'[p]
           /\ \A p \in Players : alive'[p] => alive[p]
           /\ \A p \in Players : Damage(t, s)[p] = 0 => lives'[p] = lives[p]
<1>1. /\ lives' = [p \in Players |-> lives[p] - Damage(t, s)[p]]
      /\ alive' = [p \in Players |-> alive[p] /\ lives'[p] > 0]
    BY DEF Crash
<1>2. Damage(t, s) \in [Players -> Nat] /\ lives \in [Players -> Int]
    BY DamageCounts DEF IInv, TypeOK
<1>3. \A p \in Players : lives'[p] = lives[p] - Damage(t, s)[p]
    BY <1>1
<1>4. lives' \in [Players -> Int]
    <2>1. \A p \in Players : lives[p] - Damage(t, s)[p] \in Int
        BY <1>2
    <2> QED BY <1>1, <2>1
<1>5. alive' \in [Players -> BOOLEAN]
    BY <1>1
<1>6. \A p \in Players : alive'[p] <=> alive[p] /\ lives'[p] > 0
    BY <1>1
<1>7. ASSUME NEW p \in Players
      PROVE  /\ alive'[p] <=> lives'[p] > 0
             /\ lives'[p] <= 0 <=> ~alive'[p]
             /\ Damage(t, s)[p] = 0 => lives'[p] = lives[p]
    <2>1. Damage(t, s)[p] \in Nat /\ lives[p] \in Int /\ lives'[p] = lives[p] - Damage(t, s)[p]
        BY <1>2, <1>3
    <2>2. alive[p] <=> lives[p] > 0
        BY DEF IInv, LivesInv
    <2>3. lives'[p] > 0 => lives[p] > 0
        BY <2>1
    <2>4. alive'[p] <=> lives'[p] > 0
        BY <1>6, <2>2, <2>3
    <2>5. lives'[p] <= 0 <=> ~(lives'[p] > 0)
        BY <2>1
    <2>6. Damage(t, s)[p] = 0 => lives'[p] = lives[p]
        BY <2>1
    <2> QED BY <2>4, <2>5, <2>6
<1>8. LivesInv'
    BY <1>7 DEF LivesInv
<1>9. \A p \in Players : Damage(t, s)[p] \in Nat
    BY <1>2
<1> QED BY <1>1, <1>4, <1>5, <1>6, <1>7, <1>8, <1>9

(* The lake with the rammed ship's wreck, and where each ship's wreck is.  *)
Rest(lost) == Painted(lake, UNION {Pair(Ship(p)) : p \in lost \ {turn}}, Wreckage)
WreckOf(lost, p) == IF p = turn THEN FindShip(Rest(lost), p) ELSE Ship(p)

LEMMA RestKeeps ==
    ASSUME IInv, NEW lost \in SUBSET Players
    PROVE  /\ Rest(lost) \in [Cells -> Codes] /\ Fleet(Rest(lost), alive)
           /\ \A p \in lost \ {turn} : Shown(Rest(lost), p) = {}
           /\ \A p \in Players : Shown(lake, p) = {} => Shown(Rest(lost), p) = {}
           /\ \A p \in Players \ lost :
                 Shown(Rest(lost), p) = {} \/ Shown(Rest(lost), p) = Shown(lake, p)
           /\ \A p \in Players : WreckOf(lost, p) \in EvenCells
           /\ \A p \in Players : Shown(lake, p) = {} => WreckOf(lost, p) = <<0, 0>>
<1> DEFINE F == {Pair(Ship(p)) : p \in lost \ {turn}}
           region == UNION F
<1>1. lake \in [Cells -> Codes] /\ ShipsInv /\ Fleet(lake, alive) /\ turn \in Players
    BY ShipsAreFleet DEF IInv, TypeOK
<1>2. \A p \in Players : Ship(p) \in EvenCells
    BY <1>1, ShipsFound
<1>3. Aligned(region)
    <2>1. \A R \in F : Aligned(R)
        BY <1>2, PlaceAligned
    <2> QED BY <2>1, UnionAligned
<1>4. \A p \in lost \ {turn} : Pair(Ship(p)) \subseteq region
    OBVIOUS
<1> HIDE DEF region
<1>5. Rest(lost) = Painted(lake, region, Wreckage)
    BY DEF Rest, region
<1>6. Wreckage \in Codes /\ Wreckage \notin Players
    BY CodesApart
<1>7. Rest(lost) \in [Cells -> Codes] /\ Fleet(Rest(lost), alive)
    BY <1>1, <1>3, <1>5, <1>6, PaintedLake, PaintedFleet
<1>8. ASSUME NEW p \in Players
      PROVE  /\ Shown(Rest(lost), p) = {} \/ Shown(Rest(lost), p) = Shown(lake, p)
             /\ Shown(lake, p) \cap region # {} => Shown(Rest(lost), p) = {}
    <2>1. Whole(lake, p) /\ p # Wreckage
        BY <1>1, <1>6 DEF Fleet
    <2> QED BY <1>3, <1>5, <2>1, PaintedShips
<1>9. ASSUME NEW p \in lost \ {turn} PROVE Shown(Rest(lost), p) = {}
    <2>1. Shown(lake, p) # {} => Shown(lake, p) = Pair(Ship(p))
        BY <1>1, ShipsFound
    <2>2. Shown(lake, p) # {} => Shown(lake, p) \cap region # {}
        BY <1>4, <2>1 DEF Pair
    <2> QED BY <1>8, <2>2
<1>10. ASSUME NEW p \in Players
       PROVE  /\ WreckOf(lost, p) \in EvenCells
              /\ Shown(lake, p) = {} => WreckOf(lost, p) = <<0, 0>>
    <2>1. CASE p = turn
        <3>1. Whole(Rest(lost), p)
            BY <1>7 DEF Fleet
        <3>2. /\ FindShip(Rest(lost), p) \in EvenCells
              /\ Shown(Rest(lost), p) = {} => FindShip(Rest(lost), p) = <<0, 0>>
            BY <3>1, FindsWhole
        <3> QED BY <1>8, <2>1, <3>2 DEF WreckOf
    <2>2. CASE p # turn
        BY <1>1, <2>2, ShipsFound DEF WreckOf
    <2> QED BY <2>1, <2>2
<1> QED BY <1>7, <1>8, <1>9, <1>10

LEMMA WreckPaints ==
    ASSUME IInv, NEW lost \in SUBSET Players, Wreck(lost)
    PROVE  /\ lake' = IF turn \in lost
                      THEN Painted(Rest(lost), Pair(WreckOf(lost, turn)), Wreckage)
                      ELSE Rest(lost)
           /\ wreckship' = [p \in Players |->
                               IF p \in lost THEN Beside(WreckOf(lost, p)) ELSE wreckship[p]]
           /\ wreckcounter' = [p \in Players |-> IF p \in lost THEN 3 ELSE wreckcounter[p]]
<1> DEFINE lake1 == [c \in Cells |-> IF \E p \in lost \ {turn} : c \in {Ship(p), Beside(Ship(p))}
                                     THEN Wreckage ELSE lake[c]]
           Where(p) == IF p = turn THEN FindShip(lake1, p) ELSE Ship(p)
<1>1. lake1 = Rest(lost)
    BY DEF Rest, Painted, Pair
<1>2. /\ lake' = IF turn \in lost THEN Paint(lake1, Where(turn), Wreckage) ELSE lake1
      /\ wreckship' = [p \in Players |-> IF p \in lost THEN Beside(Where(p)) ELSE wreckship[p]]
      /\ wreckcounter' = [p \in Players |-> IF p \in lost THEN 3 ELSE wreckcounter[p]]
    BY DEF Wreck
<1> HIDE DEF lake1
<1>3. \A p : Where(p) = WreckOf(lost, p)
    BY <1>1 DEF WreckOf
<1> HIDE DEF Where
<1>4. turn \in Players /\ Rest(lost) \in [Cells -> Codes] /\ WreckOf(lost, turn) \in EvenCells
    BY RestKeeps DEF IInv, TypeOK
<1>5. Paint(Rest(lost), WreckOf(lost, turn), Wreckage)
      = Painted(Rest(lost), Pair(WreckOf(lost, turn)), Wreckage)
    BY <1>4, PaintIsPainted
<1> QED BY <1>1, <1>2, <1>3, <1>5

(* The cells that are wreckage after the wrecks of this move.              *)
LEMMA WreckCells ==
    ASSUME IInv, NEW lost \in SUBSET Players, Wreck(lost)
    PROVE  \A c \in Cells : lake'[c] = Wreckage =>
              \/ lake[c] = Wreckage
              \/ \E p \in lost : c \in Pair(WreckOf(lost, p))
<1> SUFFICES ASSUME NEW c \in Cells, lake'[c] = Wreckage, lake[c] # Wreckage
             PROVE  \E p \in lost : c \in Pair(WreckOf(lost, p))
    OBVIOUS
<1>1. CASE turn \in lost /\ c \in Pair(WreckOf(lost, turn))
    BY <1>1
<1>2. CASE ~(turn \in lost /\ c \in Pair(WreckOf(lost, turn)))
    <2>1. lake'[c] = Rest(lost)[c]
        BY <1>2, WreckPaints DEF Painted
    <2>2. c \in UNION {Pair(Ship(p)) : p \in lost \ {turn}}
        BY <2>1 DEF Rest, Painted
    <2>3. PICK p \in lost \ {turn} : c \in Pair(Ship(p))
        BY <2>2
    <2> QED BY <2>3 DEF WreckOf
<1> QED BY <1>1, <1>2

(* The ship whose wreck it is no longer sails, the others are untouched;   *)
(* and a wreck struck once more is recorded in the corner.                 *)
LEMMA CrashKeeps ==
    ASSUME IInv, WrecksAreTimed, NEW t, NEW s, Crash(t, s)
    PROVE  Kept'
<1> DEFINE hit == {p \in Players : Damage(t, s)[p] > 0}
           cut == {p \in hit : lives'[p] <= 0}
<1>1. PICK lost \in SUBSET Players : lost = cut
    OBVIOUS
<1>2. Wreck(cut)
    BY DEF Crash
<1>3. Wreck(lost)
    BY <1>1, <1>2
<1>4. /\ lives' \in [Players -> Int] /\ alive' \in [Players -> BOOLEAN] /\ LivesInv'
      /\ \A p \in Players : Damage(t, s)[p] \in Nat
      /\ \A p \in Players : lives'[p] <= 0 <=> ~alive'[p]
      /\ \A p \in Players : alive'[p] => alive[p]
      /\ \A p \in Players : Damage(t, s)[p] = 0 => lives'[p] = lives[p]
    BY CrashCosts
<1>5. /\ TypeOK /\ ShipsInv /\ WreckInv /\ turn \in Players
      /\ wreckship \in [Players -> Cells] /\ wreckcounter \in [Players -> 0..3]
    BY DEF IInv, TypeOK
<1>6. ASSUME NEW p \in Players
      PROVE  /\ p \in lost => ~alive'[p]
             /\ p \notin lost => (alive'[p] <=> alive[p])
    <2>1. CASE p \in lost
        BY <1>1, <1>4, <2>1
    <2>2. CASE p \notin lost /\ Damage(t, s)[p] = 0
        <3>1. lives'[p] = lives[p]
            BY <1>4, <2>2
        <3>2. (alive'[p] <=> lives'[p] > 0) /\ (alive[p] <=> lives[p] > 0)
            BY <1>4 DEF LivesInv, IInv
        <3> QED BY <2>2, <3>1, <3>2
    <2>3. CASE p \notin lost /\ Damage(t, s)[p] # 0
        <3>1. p \in hit
            BY <1>4, <2>3
        <3>2. ~(lives'[p] <= 0)
            BY <1>1, <2>3, <3>1
        <3> QED BY <1>4, <2>3, <3>2
    <2> QED BY <2>1, <2>2, <2>3
<1>7. /\ lake' = IF turn \in lost
                 THEN Painted(Rest(lost), Pair(WreckOf(lost, turn)), Wreckage)
                 ELSE Rest(lost)
      /\ wreckship' = [p \in Players |->
                          IF p \in lost THEN Beside(WreckOf(lost, p)) ELSE wreckship[p]]
      /\ wreckcounter' = [p \in Players |-> IF p \in lost THEN 3 ELSE wreckcounter[p]]
    BY <1>3, WreckPaints
<1>8. /\ Rest(lost) \in [Cells -> Codes] /\ Fleet(Rest(lost), alive)
      /\ \A p \in lost \ {turn} : Shown(Rest(lost), p) = {}
      /\ \A p \in Players \ lost :
            Shown(Rest(lost), p) = {} \/ Shown(Rest(lost), p) = Shown(lake, p)
      /\ \A p \in Players : WreckOf(lost, p) \in EvenCells
      /\ \A p \in Players : Shown(lake, p) = {} => WreckOf(lost, p) = <<0, 0>>
    BY RestKeeps
<1>9. Wreckage \in Codes /\ Wreckage \notin Players
    BY CodesApart
<1>10. lake' \in [Cells -> Codes]
    BY <1>7, <1>8, <1>9, PaintedLake
<1>11. ASSUME NEW p \in lost
       PROVE  /\ Beside(WreckOf(lost, p)) \in Cells
              /\ Beside(WreckOf(lost, p))[2] % 2 = 1
    BY <1>8, PlaceFits
<1>12. wreckship' \in [Players -> Cells] /\ wreckcounter' \in [Players -> 0..3]
    BY <1>5, <1>7, <1>11
<1>13. BoardOK'
    BY <1>4, <1>10, <1>12 DEF BoardOK
<1>14. Fleet(lake', alive')
    <2>1. ASSUME NEW p \in Players
          PROVE  Whole(lake', p) /\ (Shown(lake', p) # {} => alive'[p])
        <3>1. Whole(Rest(lost), p) /\ (Shown(Rest(lost), p) # {} => alive[p]) /\ p # Wreckage
            BY <1>8, <1>9 DEF Fleet
        <3>2. CASE turn \in lost
            <4> DEFINE place == Pair(WreckOf(lost, turn))
            <4>1. Aligned(place)
                BY <1>5, <1>8, PlaceAligned
            <4>2. /\ Whole(lake', p)
                  /\ Shown(lake', p) = {} \/ Shown(lake', p) = Shown(Rest(lost), p)
                  /\ Shown(Rest(lost), p) \cap place # {} => Shown(lake', p) = {}
                BY <1>7, <3>1, <3>2, <4>1, PaintedShips
            <4>3. p \in lost => Shown(lake', p) = {}
                <5>1. CASE p = turn
                    <6>1. Shown(Rest(lost), p) # {} =>
                              Shown(Rest(lost), p) = Pair(FindShip(Rest(lost), p))
                        BY <3>1, FindsWhole
                    <6>2. WreckOf(lost, turn) = FindShip(Rest(lost), p)
                        BY <5>1 DEF WreckOf
                    <6>3. Shown(Rest(lost), p) # {} => Shown(Rest(lost), p) \cap place # {}
                        BY <6>1, <6>2
                    <6> QED BY <4>2, <6>3
                <5>2. CASE p # turn
                    BY <1>8, <4>2, <5>2
                <5> QED BY <5>1, <5>2
            <4> QED BY <1>6, <3>1, <4>2, <4>3
        <3>3. CASE turn \notin lost
            <4>1. lake' = Rest(lost)
                BY <1>7, <3>3
            <4>2. p \in lost => Shown(lake', p) = {}
                BY <1>8, <3>3, <4>1
            <4> QED BY <1>6, <3>1, <4>1, <4>2
        <3> QED BY <3>2, <3>3
    <2> QED BY <2>1 DEF Fleet
<1>15. ShipsInv'
    BY <1>14, FleetKept
<1>16. WreckInv'
    <2>1. ASSUME NEW p \in Players
          PROVE  /\ wreckship'[p][1] # 0 => wreckship'[p][2] % 2 = 1
                 /\ alive'[p] => wreckcounter'[p] = 0 /\ wreckship'[p] = <<0, 0>>
        <3>1. CASE p \in lost
            BY <1>6, <1>7, <1>11, <3>1
        <3>2. CASE p \notin lost
            <4>1. wreckship'[p] = wreckship[p] /\ wreckcounter'[p] = wreckcounter[p]
                BY <1>7, <3>2
            <4> QED BY <1>4, <1>5, <4>1 DEF WreckInv
        <3> QED BY <3>1, <3>2
    <2> QED BY <2>1 DEF WreckInv
<1>17. ASSUME NEW p \in lost, wreckcounter[p] > 0 \/ wreckship[p] # <<0, 0>>
       PROVE  wreckship'[p] = Beside(<<0, 0>>)
    <2>1. ~alive[p]
        <3>1. wreckcounter[p] > 0 => wreckcounter[p] # 0
            OBVIOUS
        <3> QED BY <1>5, <1>17, <3>1 DEF WreckInv
    <2>2. Shown(lake, p) = {}
        BY <1>5, <2>1, ShipsFound
    <2> QED BY <1>7, <1>8, <2>2
<1>18. WrecksAreTimed'
    <2>1. ASSUME NEW p \in Players, wreckship[p] = Beside(<<0, 0>>) PROVE WrecksAreTimed'
        <3>1. wreckship[p] # <<0, 0>>
            BY <2>1, CornerIsPlace, PlaceFits
        <3>2. wreckship'[p] = Beside(<<0, 0>>)
            BY <1>7, <1>17, <2>1, <3>1
        <3> QED BY <3>2 DEF WrecksAreTimed
    <2>2. ASSUME \A c \in Cells :
                    lake[c] = Wreckage /\ c[1] > 0 =>
                        \E p \in Players : wreckcounter[p] > 0 /\ wreckship[p] \in {c, Beside(c)},
                 \A p \in Players : wreckship'[p] # Beside(<<0, 0>>)
          PROVE  WrecksAreTimed'
        <3>1. ASSUME NEW c \in Cells, lake'[c] = Wreckage, c[1] > 0
              PROVE  \E p \in Players : wreckcounter'[p] > 0 /\ wreckship'[p] \in {c, Beside(c)}
            <4>1. CASE \E p \in lost : c \in Pair(WreckOf(lost, p))
                <5>1. PICK p \in lost : c \in Pair(WreckOf(lost, p))
                    BY <4>1
                <5>2. wreckship'[p] = Beside(WreckOf(lost, p)) /\ wreckcounter'[p] = 3
                    BY <1>7
                <5> QED BY <5>1, <5>2 DEF Pair
            <4>2. CASE lake[c] = Wreckage
                <5>1. PICK p \in Players : wreckcounter[p] > 0 /\ wreckship[p] \in {c, Beside(c)}
                    BY <2>2, <3>1, <4>2
                <5>2. p \notin lost
                    BY <1>17, <2>2, <5>1
                <5> QED BY <1>7, <5>1, <5>2
            <4> QED BY <1>3, <3>1, <4>1, <4>2, WreckCells
        <3> QED BY <3>1 DEF WrecksAreTimed
    <2> QED BY <2>1, <2>2 DEF WrecksAreTimed
<1> QED BY <1>4, <1>13, <1>15, <1>16, <1>18 DEF Kept

(* Only prevlake can hold a ship that is on the lake no longer, and from   *)
(* the top row nothing of prevlake is seen.                                *)
LEMMA GhostsAreBelow ==
    ASSUME NEW c \in EvenCells, NEW d \in 1..4, NEW p \in Players,
           p \in Read(LookedAt(c, d)[1][1], LookedAt(c, d)[1][2]), Shown(lake, p) = {}
    PROVE  c[1] # 0
<1> SUFFICES ASSUME c[1] = 0 PROVE FALSE
    OBVIOUS
<1> DEFINE y == LookedAt(c, d)[1][1]
           x == LookedAt(c, d)[1][2]
           i == (y * Width) + x
<1>1. /\ c[2] \in 0..(Width - 1) /\ c[2] % 2 = 0
      /\ Height \in Nat \ {0} /\ Width \in Nat \ {0} /\ Width % 2 = 0
    BY CellIsPair DEF EvenCells
<1>2. Height >= 2
    BY GameAssumption
<1>3. Height * Width >= 2 * Width
    BY <1>1, <1>2
<1>4. \/ y = 0 - 1 /\ x = c[2]
      \/ y = 0 /\ x = c[2] + 2
      \/ y = 1 /\ x = c[2]
      \/ y = 0 /\ x = c[2] - 1
    BY <1>1 DEF LookedAt, Toward
<1>5. i \in Int /\ i < 2 * Width
    <2>1. CASE y = 0 - 1 /\ x = c[2]
        BY <1>1, <2>1
    <2>2. CASE y = 0 /\ x = c[2] + 2
        BY <1>1, <2>2
    <2>3. CASE y = 1 /\ x = c[2]
        <3>1. i = Width + c[2]
            BY <1>1, <2>3
        <3> QED BY <1>1, <3>1
    <2>4. CASE y = 0 /\ x = c[2] - 1
        BY <1>1, <2>4
    <2> QED BY <1>4, <2>1, <2>2, <2>3, <2>4
<1>6. i < Height * Width
    BY <1>1, <1>3, <1>5
<1> HIDE DEF y, x
<1>7. CASE i < 0
    <2>1. Read(y, x) = {Sea}
        BY <1>7 DEF Read
    <2> QED BY <2>1, CodesApart DEF x, y
<1>8. CASE ~(i < 0)
    <2>1. Read(y, x) = {lake[<<i \div Width, i % Width>>]}
        BY <1>6, <1>8 DEF Read
    <2>2. <<i \div Width, i % Width>> \in Cells
        <3>1. i \in Nat /\ i \div Width \in Nat /\ i % Width \in 0..(Width - 1)
              /\ i = (i \div Width) * Width + (i % Width)
            <4>1. i \in Nat
                BY <1>5, <1>8
            <4> QED BY <1>1, <4>1, QuotientRemainder
        <3>2. (i \div Width) * Width < 2 * Width
            BY <1>1, <1>5, <3>1
        <3>3. i \div Width < 2
            BY <1>1, <3>1, <3>2, ProductOrder
        <3>4. i \div Width \in 0..(Height - 1)
            BY <1>1, <1>2, <3>1, <3>3
        <3> QED BY <3>1, <3>4, CellIsPair
    <2>3. <<i \div Width, i % Width>> \in Shown(lake, p)
        BY <2>1, <2>2 DEF Shown, x, y
    <2> QED BY <2>3
<1> QED BY <1>7, <1>8

(* A ship that is not wrecked by its collision stays where it is.          *)
LEMMA CrashStays ==
    ASSUME IInv, heading \in 1..4, Shown(lake, turn) # {},
           NEW t \in Read(LookedAt(Ship(turn), heading)[1][1],
                          LookedAt(Ship(turn), heading)[1][2]),
           NEW s, Crash(t, s), alive'[turn]
    PROVE  FindShip(lake', turn) = Ship(turn)
<1> DEFINE hit == {p \in Players : Damage(t, s)[p] > 0}
           cut == {p \in hit : lives'[p] <= 0}
<1>1. PICK lost \in SUBSET Players : lost = cut
    OBVIOUS
<1>2. Wreck(cut)
    BY DEF Crash
<1>3. Wreck(lost)
    BY <1>1, <1>2
<1>4. turn \in Players /\ ShipsInv /\ TypeOK
    BY DEF IInv, TypeOK
<1>5. turn \notin lost
    <2>1. lives'[turn] <= 0 <=> ~alive'[turn]
        BY <1>4, CrashCosts
    <2> QED BY <1>1, <2>1
<1> DEFINE F == {Pair(Ship(p)) : p \in lost \ {turn}}
<1>6. lake' = Painted(lake, UNION F, Wreckage)
    BY <1>3, <1>5, WreckPaints DEF Rest
<1>7. Shown(lake, turn) = Pair(Ship(turn)) /\ Ship(turn) \in EvenCells
    BY <1>4, ShipsFound
<1>8. Shown(lake, turn) \cap UNION F = {}
    <2> SUFFICES ASSUME NEW c \in Shown(lake, turn), NEW p \in lost \ {turn}, c \in Pair(Ship(p))
                 PROVE  FALSE
        OBVIOUS
    <2>1. p \in Rammed(t) /\ p \in Players
        BY <1>1, <1>4, DamageCounts
    <2>2. p = t
        BY <2>1 DEF Rammed
    <2>3. CASE Shown(lake, p) # {}
        <3>1. c \in Shown(lake, p)
            BY <1>4, <2>1, <2>3, ShipsFound
        <3> QED BY <3>1 DEF Shown
    <2>4. CASE Shown(lake, p) = {}
        <3>1. Ship(p) = <<0, 0>>
            BY <1>4, <2>1, <2>4, ShipsFound
        <3>2. Pair(Ship(turn)) \cap Pair(<<0, 0>>) # {}
            BY <1>7, <3>1
        <3>3. Ship(turn) = <<0, 0>>
            BY <1>7, <3>2, CornerIsPlace, PlacesApart
        <3>4. Ship(turn)[1] # 0
            BY <1>7, <2>1, <2>2, <2>4, GhostsAreBelow
        <3> QED BY <3>3, <3>4
    <2> QED BY <2>3, <2>4
<1>9. Shown(lake', turn) = Shown(lake, turn)
    <2>1. turn # Wreckage
        BY <1>4, CodesApart
    <2>2. \A c \in Cells : lake'[c] = IF c \in UNION F THEN Wreckage ELSE lake[c]
        BY <1>6 DEF Painted
    <2> HIDE DEF F
    <2>3. \A c \in Cells : lake'[c] = turn <=> lake[c] = turn
        BY <1>8, <2>1, <2>2 DEF Shown
    <2> QED BY <2>3 DEF Shown
<1> QED BY <1>9 DEF FindShip, Ship

LEMMA MoveToKeeps == IInv /\ WrecksAreTimed /\ MoveTo => Kept'
<1> SUFFICES ASSUME IInv, WrecksAreTimed, MoveTo PROVE Kept'
    OBVIOUS
<1>1. CASE UNCHANGED board
    <2>1. UNCHANGED <<alive, lives, wreckship, wreckcounter>> /\ lake' = lake
        BY <1>1 DEF board
    <2>2. lake \in [Cells -> Codes] /\ Fleet(lake, alive)
        BY ShipsAreFleet DEF IInv, TypeOK
    <2> QED BY <2>1, <2>2, HarmlessPaint
<1>2. CASE heading # 0 /\ alive[turn]
    <2>1. heading \in 1..4
        BY <1>2 DEF IInv, TypeOK
    <2>2. PICK t, s : Sail(t, s) \/ Crash(t, s)
        BY <1>2 DEF MoveTo
    <2> QED BY <1>2, <2>1, <2>2, SailKeeps, CrashKeeps
<1> QED BY <1>1, <1>2 DEF MoveTo

(* The ship drawn in the corner is one whose place was not found, or was there.  *)
LEMMA CornerHasLast ==
    ASSUME NEW S \in SUBSET Players, S # {}
    PROVE  Max(S) \in S
<1> DEFINE Behind == {NumPlayers - n : n \in S}
<1>1. S \subseteq Nat /\ NumPlayers \in Nat /\ \A n \in S : NumPlayers - n \in Nat
    BY GameAssumption DEF Players
<1>2. Behind # {} /\ Behind \subseteq Nat
    BY <1>1
<1>3. PICK b \in Behind : \A d \in Behind : ~(<<d, b>> \in OpToRel(<, Nat))
    BY <1>2, NatLessThanWellFounded, WFMin
<1>4. PICK n \in S : b = NumPlayers - n
    BY <1>3
<1>5. ASSUME NEW m \in S PROVE n >= m
    <2>1. NumPlayers - m \in Behind /\ NumPlayers - m \in Nat /\ b \in Nat
        BY <1>1, <1>2
    <2>2. ~(NumPlayers - m < b)
        BY <1>3, <2>1 DEF OpToRel
    <2> QED BY <1>1, <1>4, <2>2
<1>6. \E x \in S : \A y \in S : x >= y
    BY <1>5
<1> QED BY <1>6 DEF Max

LEMMA EndPhaseKeeps == IInv /\ WrecksAreTimed /\ EndPhase => Kept'
<1> SUFFICES ASSUME IInv, WrecksAreTimed, EndPhase PROVE Kept'
    OBVIOUS
<1>1. PICK corner \in SUBSET Players : corner = {p \in blown : alive[p] /\ Ship(p) = <<0, 0>>}
    BY DEF IInv, TypeOK
<1>2. /\ lake' = IF corner = {} THEN lake ELSE Paint(lake, <<0, 0>>, Max(corner))
      /\ UNCHANGED <<alive, lives, wreckship, wreckcounter>>
    BY <1>1 DEF EndPhase
<1>3. lake \in [Cells -> Codes] /\ Fleet(lake, alive) /\ ShipsInv
    BY ShipsAreFleet DEF IInv, TypeOK
<1>4. CASE corner = {}
    <2>1. lake' = lake
        BY <1>2, <1>4
    <2> QED BY <1>2, <1>3, <2>1, HarmlessPaint
<1>5. CASE corner # {}
    <2>1. PICK q \in corner : q = Max(corner)
        BY <1>5, CornerHasLast
    <2>2. q \in Players /\ alive[q] /\ Ship(q) = <<0, 0>>
        BY <1>1
    <2>3. <<0, 0>> \in EvenCells /\ Aligned(Pair(<<0, 0>>))
        BY CornerIsPlace, PlaceAligned
    <2>4. lake' = Painted(lake, Pair(<<0, 0>>), q)
        BY <1>2, <1>3, <1>5, <2>1, <2>3, PaintIsPainted
    <2>5. q \in Codes /\ q # Wreckage
        BY <2>2, CodesApart
    <2>6. lake' \in [Cells -> Codes]
        BY <1>3, <2>4, <2>5, PaintedLake
    <2>7. Whole(lake', q)
        <3>1. Shown(lake, q) = {} \/ Shown(lake, q) = Pair(<<0, 0>>)
            BY <1>3, <2>2, ShipsFound
        <3> QED BY <1>3, <2>3, <2>4, <3>1, DrawnShip
    <2>8. ASSUME NEW p \in Players, p # q
          PROVE  Whole(lake', p) /\ (Shown(lake', p) # {} => alive[p])
        <3>1. Whole(lake, p) /\ (Shown(lake, p) # {} => alive[p])
            BY <1>3 DEF Fleet
        <3>2. Whole(lake', p) /\ (Shown(lake', p) = {} \/ Shown(lake', p) = Shown(lake, p))
            BY <2>3, <2>4, <2>8, <3>1, PaintedShips
        <3> QED BY <3>1, <3>2
    <2>9. Fleet(lake', alive)
        BY <2>2, <2>7, <2>8 DEF Fleet
    <2>10. \A c \in Cells : lake'[c] = Wreckage => lake[c] = Wreckage
        BY <2>4, <2>5, PaintedWrecks
    <2> QED BY <1>2, <2>6, <2>9, <2>10, HarmlessPaint
<1> QED BY <1>4, <1>5

(* What a wreck recorded outside row 0 takes of the lake is a whole place. *)
Under(c) == {c, <<c[1], c[2] - 1>>}

LEMMA UnderAligned ==
    ASSUME NEW c \in Cells, c[2] % 2 = 1
    PROVE  /\ Aligned(Under(c))
           /\ \A d \in Cells : c = d \/ c = Beside(d) => d \in Under(c)
<1> DEFINE left == <<c[1], c[2] - 1>>
<1>1. /\ c[1] \in 0..(Height - 1) /\ c[2] \in 0..(Width - 1) /\ c = <<c[1], c[2]>>
      /\ Width \in Nat
    BY CellIsPair
<1>2. c[2] - 1 \in 0..(Width - 1) /\ (c[2] - 1) % 2 = 0 /\ (c[2] - 1) + 1 = c[2]
    BY <1>1
<1>3. left \in EvenCells
    BY <1>1, <1>2, CellIsPair DEF EvenCells
<1>4. Beside(left) = c
    BY <1>1, <1>2 DEF Beside
<1>5. Under(c) = Pair(left)
    BY <1>4 DEF Under, Pair
<1>6. ASSUME NEW d \in Cells, c = Beside(d) PROVE d = left
    <2>1. d = <<d[1], d[2]>> /\ d[2] \in Nat
        BY CellIsPair
    <2>2. c[1] = d[1] /\ c[2] = d[2] + 1
        BY <1>6 DEF Beside
    <2>3. c[2] - 1 = d[2]
        BY <2>1, <2>2
    <2> QED BY <2>1, <2>2, <2>3
<1> QED BY <1>3, <1>5, <1>6, PlaceAligned DEF Under

(* Every wreck whose counter runs out is removed with the last of its rounds. *)
LEMMA EndTurnKeeps == IInv /\ WrecksAreTimed /\ EndTurn => Kept'
<1> SUFFICES ASSUME IInv, WrecksAreTimed, EndTurn PROVE Kept'
    OBVIOUS
<1>1. wreckcounter' = [p \in Players |-> IF wreckcounter[p] = 0 THEN 0 ELSE wreckcounter[p] - 1]
    BY DEF EndTurn
<1>2. wreckcounter' \in [Players -> 0..3]
    <2>1. wreckcounter \in [Players -> 0..3]
        BY DEF IInv, TypeOK
    <2>2. \A p \in Players : (IF wreckcounter[p] = 0 THEN 0 ELSE wreckcounter[p] - 1) \in 0..3
        BY <2>1
    <2> QED BY <1>1, <2>2
<1>3. PICK gone \in SUBSET Players :
          gone = {p \in Players : wreckcounter'[p] = 0 /\ wreckship[p][1] # 0}
    OBVIOUS
<1> DEFINE F == {Under(wreckship[p]) : p \in gone}
<1>4. /\ lake' = [c \in Cells |-> IF \E p \in gone : c \in Under(wreckship[p])
                                  THEN Sea ELSE lake[c]]
      /\ wreckship' = [p \in Players |-> IF p \in gone THEN <<0, 0>> ELSE wreckship[p]]
      /\ UNCHANGED <<alive, lives>>
    BY <1>3 DEF EndTurn, Under
<1>5. lake' = Painted(lake, UNION F, Sea)
    BY <1>4 DEF Painted
<1>6. /\ lake \in [Cells -> Codes] /\ Fleet(lake, alive) /\ wreckship \in [Players -> Cells]
      /\ alive \in [Players -> BOOLEAN] /\ lives \in [Players -> Int] /\ WreckInv /\ LivesInv
    BY ShipsAreFleet DEF IInv, TypeOK
<1>7. ASSUME NEW p \in Players, wreckship[p][1] # 0
      PROVE  /\ Aligned(Under(wreckship[p]))
             /\ \A d \in Cells : wreckship[p] \in {d, Beside(d)} => d \in Under(wreckship[p])
    <2>1. wreckship[p] \in Cells /\ wreckship[p][2] % 2 = 1
        BY <1>6, <1>7 DEF WreckInv
    <2> QED BY <2>1, UnderAligned
<1>8. Aligned(UNION F)
    <2>1. \A R \in F : Aligned(R)
        BY <1>3, <1>7
    <2> QED BY <2>1, UnionAligned
<1>9. Sea \in Codes /\ Sea \notin Players /\ Sea # Wreckage
    BY CodesApart
<1>10. lake' \in [Cells -> Codes] /\ Fleet(lake', alive)
    <2> HIDE DEF F
    <2> QED BY <1>5, <1>6, <1>8, <1>9, PaintedLake, PaintedFleet
<1>11. <<0, 0>> \in Cells
    BY CornerIsPlace DEF EvenCells
<1>12. wreckship' \in [Players -> Cells]
    BY <1>4, <1>6, <1>11
<1>13. BoardOK'
    BY <1>2, <1>4, <1>6, <1>10, <1>12 DEF BoardOK
<1>14. ShipsInv'
    BY <1>4, <1>10, FleetKept
<1>15. LivesInv'
    BY <1>4, <1>6 DEF LivesInv
<1>16. WreckInv'
    <2>1. ASSUME NEW p \in Players
          PROVE  /\ wreckship'[p][1] # 0 => wreckship'[p][2] % 2 = 1
                 /\ alive'[p] => wreckcounter'[p] = 0 /\ wreckship'[p] = <<0, 0>>
        <3>1. wreckship'[p] = <<0, 0>> \/ wreckship'[p] = wreckship[p]
            BY <1>4
        <3>2. wreckcounter[p] = 0 => wreckcounter'[p] = 0
            BY <1>1
        <3> QED BY <1>4, <1>6, <3>1, <3>2 DEF WreckInv
    <2> QED BY <2>1 DEF WreckInv
<1>17. WrecksAreTimed'
    <2>1. ASSUME NEW p \in Players, wreckship[p] = Beside(<<0, 0>>) PROVE WrecksAreTimed'
        <3>1. wreckship[p][1] = 0
            BY <2>1 DEF Beside
        <3>2. wreckship'[p] = Beside(<<0, 0>>)
            BY <1>3, <1>4, <2>1, <3>1
        <3> QED BY <3>2 DEF WrecksAreTimed
    <2>2. ASSUME \A c \in Cells :
                    lake[c] = Wreckage /\ c[1] > 0 =>
                        \E p \in Players : wreckcounter[p] > 0 /\ wreckship[p] \in {c, Beside(c)}
          PROVE  WrecksAreTimed'
        <3>1. ASSUME NEW c \in Cells, lake'[c] = Wreckage, c[1] > 0
              PROVE  \E p \in Players : wreckcounter'[p] > 0 /\ wreckship'[p] \in {c, Beside(c)}
            <4>1. lake[c] = Wreckage
                BY <1>4, <1>9, <3>1
            <4>2. PICK p \in Players : wreckcounter[p] > 0 /\ wreckship[p] \in {c, Beside(c)}
                BY <2>2, <3>1, <4>1
            <4>3. wreckship[p][1] = c[1]
                BY <4>2 DEF Beside
            <4>4. wreckship[p][1] # 0
                BY <3>1, <4>3
            <4>5. c \in Under(wreckship[p])
                BY <1>7, <4>2, <4>4
            <4>6. p \notin gone
                BY <1>4, <1>9, <3>1, <4>5
            <4>7. wreckcounter'[p] \in 0..3 /\ wreckcounter'[p] # 0
                BY <1>2, <1>3, <4>4, <4>6
            <4>8. wreckship'[p] = wreckship[p] /\ wreckcounter'[p] > 0
                BY <1>4, <4>6, <4>7
            <4> QED BY <4>2, <4>8
        <3> QED BY <3>1 DEF WrecksAreTimed
    <2> QED BY <2>1, <2>2 DEF WrecksAreTimed
<1> QED BY <1>13, <1>14, <1>15, <1>16, <1>17 DEF Kept

-----------------------------------------------------------------------------
(* The types of the rest *)

RoundOK ==
    /\ preview \in [0..(Width - 1) -> Codes] /\ ships \in Fleets
    /\ winners \subseteq Players
    /\ windDir \in 1..4 /\ windSpd \in 0..19 /\ cur_round \in Nat
    /\ at \in {"wind", "declare", "start", "wincheck", "windcheck", "moveto",
               "endphase", "endturn", "won", "lost"}
    /\ turn \in Players /\ phase \in 1..Phases
PlanOK ==
    /\ donemoving \in [Players -> BOOLEAN]
    /\ moves \in [Players -> [1..Phases -> 0..4]]
MoveOK == heading \in 0..4 /\ again \in BOOLEAN /\ blown \subseteq Players
HistoryOK == astray \subseteq Players /\ rounded \subseteq Players

LEMMA TypesTogether == TypeOK <=> BoardOK /\ RoundOK /\ PlanOK /\ MoveOK /\ HistoryOK
BY DEF TypeOK, BoardOK, RoundOK, PlanOK, MoveOK, HistoryOK

LEMMA ObserveTyped == ASSUME HistoryOK, Observe PROVE HistoryOK'
BY DEF HistoryOK, Observe

LEMMA NextShipTyped ==
    ASSUME turn \in Players, NextShip
    PROVE  turn' \in Players /\ at' \in {"windcheck", "endphase"}
BY GameAssumption DEF NextShip, Players

LEMMA EndDeclareTyped ==
    ASSUME turn \in Players, at = "declare", EndDeclare
    PROVE  turn' \in Players /\ at' \in {"declare", "start"}
BY GameAssumption DEF EndDeclare, Players

LEMMA DeclaredMovesTyped ==
    ASSUME NEW p \in Players, NEW s \in Declarable(p)
    PROVE  [i \in 1..Phases |-> IF i <= Len(s) THEN s[i] ELSE 0] \in [1..Phases -> 0..4]
<1>1. PICK n \in 0..(IF ships[p] = 1 THEN MaxMoves + Bonus ELSE MaxMoves) : s \in [1..n -> 1..4]
    BY DEF Declarable
<1>2. n \in Nat
    BY <1>1, GameAssumption
<1>3. Len(s) = n
    BY <1>1, <1>2
<1>4. ASSUME NEW i \in 1..Phases PROVE (IF i <= Len(s) THEN s[i] ELSE 0) \in 0..4
    <2>1. CASE i <= Len(s)
        <3>1. i \in 1..n
            BY <1>2, <1>3, <2>1
        <3>2. s[i] \in 1..4
            BY <1>1, <3>1
        <3> QED BY <2>1, <3>2
    <2>2. CASE ~(i <= Len(s))
        BY <2>2
    <2> QED BY <2>1, <2>2
<1> QED BY <1>4

LEMMA WindChangeTyped ==
    ASSUME TypeOK, WindChange
    PROVE  RoundOK' /\ PlanOK' /\ MoveOK' /\ HistoryOK'
<1>1. RoundOK /\ PlanOK /\ MoveOK /\ HistoryOK
    BY TypesTogether
<1>2. windDir' \in 1..4
    <2>1. CASE windDir' \in 1..4
        BY <2>1
    <2>2. ASSUME NEW by \in {-1, 0, 1}, windDir' = Turned(windDir, by) PROVE windDir' \in 1..4
        <3>1. windDir \in 1..4
            BY <1>1 DEF RoundOK
        <3>2. windDir - 1 + by + 4 \in Nat
            BY <3>1
        <3>3. (windDir - 1 + by + 4) % 4 \in 0..3
            BY <3>2
        <3> QED BY <2>2, <3>3 DEF Turned
    <2> QED BY <2>1, <2>2 DEF WindChange
<1>3. windSpd' \in 0..19
    <2>1. windSpd' \in {0} \cup Gusts
        BY DEF WindChange
    <2> QED BY <2>1, GameAssumption
<1>4. 1 \in Players
    BY GameAssumption DEF Players
<1>5. RoundOK'
    BY <1>1, <1>2, <1>3, <1>4 DEF WindChange, RoundOK
<1>6. PlanOK' /\ MoveOK' /\ HistoryOK'
    BY <1>1 DEF WindChange, PlanOK, MoveOK, HistoryOK, plan, move, history
<1> QED BY <1>5, <1>6

LEMMA DeclareTyped ==
    ASSUME TypeOK, DeclareMove \/ PassOver
    PROVE  RoundOK' /\ PlanOK' /\ MoveOK' /\ HistoryOK'
<1>1. RoundOK /\ PlanOK /\ MoveOK /\ HistoryOK
    BY TypesTogether
<1>2. turn' \in Players /\ at' \in {"declare", "start"}
    BY <1>1, EndDeclareTyped DEF RoundOK, DeclareMove, PassOver
<1>3. RoundOK'
    BY <1>1, <1>2 DEF RoundOK, DeclareMove, PassOver, wind
<1>4. MoveOK' /\ HistoryOK'
    BY <1>1 DEF DeclareMove, PassOver, MoveOK, HistoryOK, move, history
<1>5. PlanOK'
    <2>1. CASE DeclareMove
        <3>1. turn \in Players
            BY <1>1 DEF RoundOK
        <3>2. PICK s \in Declarable(turn) :
                  moves' = [moves EXCEPT ![turn] =
                               [i \in 1..Phases |-> IF i <= Len(s) THEN s[i] ELSE 0]]
            BY <2>1 DEF DeclareMove
        <3>3. PICK m \in [1..Phases -> 0..4] :
                  m = [i \in 1..Phases |-> IF i <= Len(s) THEN s[i] ELSE 0]
            BY <3>1, <3>2, DeclaredMovesTyped
        <3>4. moves' = [moves EXCEPT ![turn] = m]
            BY <3>2, <3>3
        <3>5. moves' \in [Players -> [1..Phases -> 0..4]]
            BY <1>1, <3>1, <3>4 DEF PlanOK
        <3>6. donemoving' = donemoving
            BY <2>1 DEF DeclareMove
        <3> QED BY <1>1, <3>5, <3>6 DEF PlanOK
    <2>2. CASE PassOver
        BY <1>1, <2>2 DEF PassOver, PlanOK, plan
    <2> QED BY <2>1, <2>2
<1> QED BY <1>3, <1>4, <1>5

LEMMA StartMovingTyped ==
    ASSUME TypeOK, StartMoving
    PROVE  RoundOK' /\ PlanOK' /\ MoveOK' /\ HistoryOK'
<1>1. RoundOK /\ PlanOK /\ MoveOK /\ HistoryOK
    BY TypesTogether
<1>2. 1 \in 1..Phases
    BY GameAssumption
<1>3. RoundOK'
    BY <1>1, <1>2 DEF RoundOK, StartMoving, wind
<1>4. MoveOK'
    BY <1>1 DEF StartMoving, MoveOK, move
<1>5. donemoving' \in [Players -> BOOLEAN] /\ moves' = moves
    BY DEF StartMoving
<1>6. PlanOK'
    BY <1>1, <1>5 DEF PlanOK
<1>7. HistoryOK'
    BY <1>1, ObserveTyped DEF StartMoving
<1> QED BY <1>3, <1>4, <1>6, <1>7

LEMMA CheckTyped ==
    ASSUME TypeOK, WinCheck \/ WindCheck \/ SkipWreck
    PROVE  RoundOK' /\ PlanOK' /\ MoveOK' /\ HistoryOK'
<1>1. RoundOK /\ PlanOK /\ MoveOK /\ HistoryOK
    BY TypesTogether
<1>2. PlanOK' /\ HistoryOK'
    BY <1>1 DEF PlanOK, HistoryOK, plan, history, WinCheck, WindCheck, SkipWreck
<1>3. CASE WinCheck
    <2>1. 1 \in Players
        BY GameAssumption DEF Players
    <2>2. TopRow \in [0..(Width - 1) -> Codes]
        BY TopRowTyped
    <2>3. preview' \in [0..(Width - 1) -> Codes] /\ turn' \in Players /\ blown' \subseteq Players
        BY <1>1, <1>3, <2>1, <2>2 DEF WinCheck, RoundOK, MoveOK
    <2>4. RoundOK'
        BY <1>1, <1>3, <2>3 DEF WinCheck, RoundOK, wind
    <2>5. MoveOK'
        BY <1>1, <1>3, <2>3 DEF WinCheck, MoveOK
    <2> QED BY <1>2, <2>4, <2>5
<1>4. CASE WindCheck
    <2>1. RoundOK'
        BY <1>1, <1>4 DEF WindCheck, RoundOK, wind
    <2>5. turn \in Players /\ phase \in 1..Phases /\ windDir \in 0..4
        BY <1>1 DEF RoundOK
    <2>6. moves[turn] \in [1..Phases -> 0..4]
        BY <1>1, <2>5 DEF PlanOK
    <2>2. moves[turn][phase] \in 0..4 /\ windDir \in 0..4 /\ turn \in Players
        BY <2>5, <2>6
    <2>3. heading' \in 0..4 /\ blown' \subseteq Players
        BY <1>1, <1>4, <2>2 DEF WindCheck, MoveOK
    <2>4. again' \in BOOLEAN
        BY <1>4, Zenon DEF WindCheck
    <2> QED BY <1>2, <2>1, <2>3, <2>4 DEF MoveOK
<1>5. CASE SkipWreck
    <2>1. turn' \in Players /\ at' \in {"windcheck", "endphase"}
        BY <1>1, <1>5, NextShipTyped DEF RoundOK, SkipWreck
    <2>2. RoundOK'
        BY <1>1, <1>5, <2>1 DEF RoundOK, SkipWreck, wind
    <2>3. MoveOK'
        BY <1>1, <1>5 DEF MoveOK, SkipWreck, move
    <2> QED BY <1>2, <2>2, <2>3
<1> QED BY <1>3, <1>4, <1>5

LEMMA MoveToTyped ==
    ASSUME TypeOK, MoveTo
    PROVE  RoundOK' /\ PlanOK' /\ MoveOK' /\ HistoryOK'
<1>1. RoundOK /\ PlanOK /\ MoveOK /\ HistoryOK
    BY TypesTogether
<1>2. HistoryOK'
    BY <1>1, ObserveTyped DEF MoveTo
<1>3. CASE again
    <2>1. again' = FALSE /\ UNCHANGED <<plan, heading, at, turn>>
        BY <1>3 DEF MoveTo
    <2>2. RoundOK' /\ PlanOK'
        BY <1>1, <2>1 DEF MoveTo, RoundOK, PlanOK, plan, wind
    <2>3. heading' \in 0..4 /\ blown' \subseteq Players
        BY <1>1, <2>1 DEF MoveTo, MoveOK
    <2>4. again' \in BOOLEAN
        BY <2>1, Zenon
    <2> QED BY <1>2, <2>2, <2>3, <2>4 DEF MoveOK
<1>4. CASE ~again
    <2>1. EndMove
        BY <1>4 DEF MoveTo
    <2>2. turn' \in Players /\ at' \in {"windcheck", "endphase"}
        BY <1>1, <2>1, NextShipTyped DEF RoundOK, EndMove
    <2>3. RoundOK'
        BY <1>1, <2>2 DEF RoundOK, MoveTo, wind
    <2>4. heading' \in 0..4 /\ blown' \subseteq Players
        BY <1>1, <2>1 DEF MoveTo, EndMove, MoveOK
    <2>5. again' \in BOOLEAN
        BY <2>1, Zenon DEF EndMove
    <2>6. turn \in Players /\ phase \in 1..Phases /\ 0 \in 0..4
        BY <1>1 DEF RoundOK
    <2>7. moves' \in [Players -> [1..Phases -> 0..4]]
        <3>1. moves' = [moves EXCEPT ![turn][phase] = 0]
            BY <2>1 DEF EndMove
        <3> QED BY <1>1, <2>6, <3>1 DEF PlanOK
    <2>8. donemoving' \in [Players -> BOOLEAN]
        <3>1. donemoving' = [donemoving EXCEPT ![turn] = TRUE] \/ donemoving' = donemoving
            BY <2>1 DEF EndMove
        <3> QED BY <1>1, <2>6, <3>1 DEF PlanOK
    <2> QED BY <1>2, <2>3, <2>4, <2>5, <2>7, <2>8 DEF MoveOK, PlanOK
<1> QED BY <1>3, <1>4

LEMMA EndPhaseTyped ==
    ASSUME TypeOK, EndPhase
    PROVE  RoundOK' /\ PlanOK' /\ MoveOK' /\ HistoryOK'
<1>1. RoundOK /\ PlanOK /\ MoveOK /\ HistoryOK
    BY TypesTogether
<1>2. phase' \in 1..Phases
    BY <1>1, GameAssumption DEF EndPhase, RoundOK
<1>3. RoundOK'
    BY <1>1, <1>2 DEF EndPhase, RoundOK, wind
<1>4. PlanOK' /\ MoveOK'
    BY <1>1 DEF EndPhase, PlanOK, MoveOK, plan
<1>5. HistoryOK'
    BY <1>1, ObserveTyped DEF EndPhase
<1> QED BY <1>3, <1>4, <1>5

LEMMA EndTurnTyped ==
    ASSUME TypeOK, EndTurn
    PROVE  RoundOK' /\ PlanOK' /\ MoveOK' /\ HistoryOK'
<1>1. RoundOK /\ PlanOK /\ MoveOK /\ HistoryOK
    BY TypesTogether
<1>2. cur_round' \in Nat /\ at' \in {"lost", "wind"}
    BY <1>1 DEF EndTurn, RoundOK
<1>3. RoundOK'
    BY <1>1, <1>2 DEF EndTurn, RoundOK
<1>4. PlanOK' /\ MoveOK'
    BY <1>1 DEF EndTurn, PlanOK, MoveOK, plan, move
<1>5. HistoryOK'
    BY <1>1, ObserveTyped DEF EndTurn
<1> QED BY <1>3, <1>4, <1>5

-----------------------------------------------------------------------------
(* The invariant *)

LEMMA BoardUntouched ==
    ASSUME IInv, WrecksAreTimed, UNCHANGED board
    PROVE  Kept'
<1>1. UNCHANGED <<alive, lives, wreckship, wreckcounter>> /\ lake' = lake
    BY DEF board
<1>2. lake \in [Cells -> Codes] /\ Fleet(lake, alive)
    BY ShipsAreFleet DEF IInv, TypeOK
<1> QED BY <1>1, <1>2, HarmlessPaint

LEMMA StepKeeps == IInv /\ WrecksAreTimed /\ [Next]_vars => IInv' /\ WrecksAreTimed'
<1> SUFFICES ASSUME IInv, WrecksAreTimed, [Next]_vars PROVE IInv' /\ WrecksAreTimed'
    OBVIOUS
<1>1. TypeOK
    BY DEF IInv
<1> DEFINE Others == RoundOK /\ PlanOK /\ MoveOK /\ HistoryOK
<1>2. ASSUME Kept', Others' PROVE IInv' /\ WrecksAreTimed'
    <2>1. (TypeOK <=> BoardOK /\ RoundOK /\ PlanOK /\ MoveOK /\ HistoryOK)'
        BY TypesTogether, PTL
    <2>2. TypeOK'
        BY <1>2, <2>1 DEF Kept
    <2> QED BY <1>2, <2>2 DEF Kept, IInv
<1>3. CASE WindChange
    BY <1>1, <1>2, <1>3, BoardUntouched, WindChangeTyped DEF WindChange
<1>4. CASE DeclareMove \/ PassOver
    BY <1>1, <1>2, <1>4, BoardUntouched, DeclareTyped DEF DeclareMove, PassOver
<1>5. CASE StartMoving
    BY <1>1, <1>2, <1>5, StartMovingKeeps, StartMovingTyped
<1>6. CASE WinCheck \/ WindCheck \/ SkipWreck
    BY <1>1, <1>2, <1>6, BoardUntouched, CheckTyped DEF WinCheck, WindCheck, SkipWreck
<1>7. CASE MoveTo
    BY <1>1, <1>2, <1>7, MoveToKeeps, MoveToTyped
<1>8. CASE EndPhase
    BY <1>1, <1>2, <1>8, EndPhaseKeeps, EndPhaseTyped
<1>9. CASE EndTurn
    BY <1>1, <1>2, <1>9, EndTurnKeeps, EndTurnTyped
<1>10. CASE UNCHANGED vars
    <2>1. UNCHANGED board
        BY <1>10 DEF vars, board
    <2>2. Others'
        BY <1>1, <1>10, TypesTogether DEF vars, RoundOK, PlanOK, MoveOK, HistoryOK
    <2> QED BY <1>2, <2>1, <2>2, BoardUntouched
<1> QED BY <1>3, <1>4, <1>5, <1>6, <1>7, <1>8, <1>9, <1>10 DEF Next

(* Whatever one player's move, the wind, the finish line or a wreck paints *)
(* over what, a ship is on the lake once, whole and in an even column, or  *)
(* not at all; a ship that is lost is not on it; a ship sails as long as   *)
(* it has lives; and wreckship names the right cell of a wreck (moveto,    *)
(* crashcheck, wreck, wreckdel of main.c).                                 *)
THEOREM InvariantHolds == Spec => []IInv
<1>1. Spec => [](IInv /\ WrecksAreTimed)
    BY InitInvariant, StepKeeps, PTL DEF Spec
<1> QED BY <1>1, PTL

(* Every wreck outside row 0 has been recorded and is due to be removed    *)
(* within three rounds, until one is recorded in the corner (wreck,        *)
(* wreckdel of main.c).                                                    *)
THEOREM WrecksTimed == Spec => []WrecksAreTimed
<1>1. Spec => [](IInv /\ WrecksAreTimed)
    BY InitInvariant, StepKeeps, PTL DEF Spec
<1> QED BY <1>1, PTL

-----------------------------------------------------------------------------
(* What a move costs *)

LEMMA StepPays ==
    ASSUME IInv, WrecksAreTimed, MoveTo, heading # 0, alive[turn], Shown(lake, turn) # {}
    PROVE  \/ /\ lives' = lives
              /\ FindShip(lake', turn) = Toward(Ship(turn), heading)
           \/ /\ lives'[turn] < lives[turn]
              /\ alive'[turn] => FindShip(lake', turn) = Ship(turn)
<1>1. heading \in 1..4 /\ turn \in Players /\ TypeOK /\ lives \in [Players -> Int]
    BY DEF IInv, TypeOK
<1> DEFINE look == LookedAt(Ship(turn), heading)
<1>2. PICK t \in Read(look[1][1], look[1][2]), s \in Read(look[2][1], look[2][2]) :
          Sail(t, s) \/ Crash(t, s)
    BY DEF MoveTo
<1>3. CASE Sail(t, s)
    BY <1>1, <1>3, SailKeeps
<1>4. CASE Crash(t, s)
    <2>1. PICK p \in Players : Damage(t, s)[p] > 0
        BY <1>4 DEF Crash
    <2>2. Damage(t, s)[turn] > 0
        BY <1>1, <2>1, DamageCounts
    <2>3. lives'[turn] = lives[turn] - Damage(t, s)[turn]
        BY <1>1, <1>4, CrashCosts
    <2>4. Damage(t, s)[turn] \in Nat /\ lives[turn] \in Int
        BY <1>1, DamageCounts
    <2>5. lives'[turn] < lives[turn]
        BY <2>2, <2>3, <2>4
    <2>6. alive'[turn] => FindShip(lake', turn) = Ship(turn)
        BY <1>1, <1>2, <1>4, CrashStays
    <2> QED BY <2>5, <2>6
<1> QED BY <1>2, <1>3, <1>4

(* A ship on the lake goes one place in its direction without harm to any  *)
(* ship, or loses a life and stays where it is unless it is lost.          *)
THEOREM MovesArePaid == Spec => MoveOrPay
<1>1. Spec => [](IInv /\ WrecksAreTimed)
    BY InvariantHolds, WrecksTimed, PTL
<1>2. IInv /\ WrecksAreTimed /\ [Next]_vars =>
          [MoveTo /\ heading # 0 /\ alive[turn] /\ Shown(lake, turn) # {} =>
              \/ /\ lives' = lives
                 /\ FindShip(lake', turn) = Toward(Ship(turn), heading)
              \/ /\ lives'[turn] < lives[turn]
                 /\ alive'[turn] => FindShip(lake', turn) = Ship(turn)]_vars
    BY StepPays
<1> QED BY <1>1, <1>2, PTL DEF Spec, MoveOrPay

LEMMA OnlyMovesCost ==
    ASSUME [Next]_vars, ~MoveTo
    PROVE  lives' = lives
BY DEF Next, vars, board, WindChange, DeclareMove, PassOver, StartMoving, WinCheck, WindCheck,
       SkipWreck, EndPhase, EndTurn

LEMMA StepIsMutual ==
    ASSUME IInv, WrecksAreTimed, [Next]_vars, NEW p \in Players, lives'[p] < lives[p], p # turn
    PROVE  /\ lives'[turn] < lives[turn]
           /\ AtEdge(Ship(turn), heading) \/ Ship(p) = Toward(Ship(turn), heading)
<1>1. turn \in Players /\ TypeOK /\ ShipsInv /\ lives \in [Players -> Int]
    BY DEF IInv, TypeOK
<1>2. lives' # lives
    BY <1>1
<1>3. MoveTo
    BY <1>2, OnlyMovesCost
<1>4. heading # 0 /\ alive[turn]
    BY <1>2, <1>3 DEF MoveTo, board
<1>5. heading \in 1..4
    BY <1>4 DEF IInv, TypeOK
<1> DEFINE look == LookedAt(Ship(turn), heading)
<1>6. PICK t \in Read(look[1][1], look[1][2]), s \in Read(look[2][1], look[2][2]) :
          Sail(t, s) \/ Crash(t, s)
    BY <1>3, <1>4 DEF MoveTo
<1>7. Crash(t, s)
    BY <1>2, <1>6 DEF Sail
<1>8. \A q \in Players : lives'[q] = lives[q] - Damage(t, s)[q] /\ Damage(t, s)[q] \in Nat
    BY <1>7, CrashCosts
<1>9. Damage(t, s)[p] > 0
    <2>1. lives'[p] = lives[p] - Damage(t, s)[p] /\ Damage(t, s)[p] \in Nat /\ lives[p] \in Int
        BY <1>1, <1>8
    <2> QED BY <2>1
<1>10. p \in Rammed(t) /\ Damage(t, s)[turn] > 0
    BY <1>1, <1>9, DamageCounts
<1>11. lives'[turn] < lives[turn]
    <2>1. /\ lives'[turn] = lives[turn] - Damage(t, s)[turn]
          /\ Damage(t, s)[turn] \in Nat /\ lives[turn] \in Int
        BY <1>1, <1>8
    <2> QED BY <1>10, <2>1
<1>12. ASSUME ~AtEdge(Ship(turn), heading) PROVE Ship(p) = Toward(Ship(turn), heading)
    <2>1. Ship(turn) \in EvenCells
        BY <1>1, ShipsFound
    <2>2. /\ look[1] \in Pair(Toward(Ship(turn), heading)) /\ look[1] \in Cells
          /\ Toward(Ship(turn), heading) \in EvenCells
        BY <1>5, <1>12, <2>1, LooksAhead, TowardFits
    <2>3. Read(look[1][1], look[1][2]) = {lake[look[1]]}
        BY <2>2, ReadsCell
    <2>4. lake[look[1]] = p
        BY <1>6, <1>10, <2>3 DEF Rammed
    <2>5. look[1] \in Shown(lake, p)
        BY <2>2, <2>4 DEF Shown
    <2>6. Shown(lake, p) = Pair(Ship(p)) /\ Ship(p) \in EvenCells
        BY <1>1, <2>5, ShipsFound
    <2> QED BY <2>2, <2>5, <2>6, PlacesApart
<1> QED BY <1>11, <1>12

(* A life lost by another ship's move is a collision that costs both, and  *)
(* away from the edges the rammed ship was in the place headed for         *)
(* (crashcheck of main.c).                                                 *)
THEOREM RammingCostsBoth == Spec => RammingIsMutual
<1>1. Spec => [](IInv /\ WrecksAreTimed)
    BY InvariantHolds, WrecksTimed, PTL
<1>2. IInv /\ WrecksAreTimed /\ [Next]_vars =>
          [\A p \in Players : lives'[p] < lives[p] /\ p # turn =>
              /\ lives'[turn] < lives[turn]
              /\ AtEdge(Ship(turn), heading) \/ Ship(p) = Toward(Ship(turn), heading)]_vars
    BY StepIsMutual
<1> QED BY <1>1, <1>2, PTL DEF Spec, RammingIsMutual

-----------------------------------------------------------------------------
(* How a race ends *)

LEMMA StepWinners ==
    ASSUME IInv, WinnersSail, [Next]_vars
    PROVE  WinnersSail'
<1>1. TypeOK /\ ShipsInv /\ winners \subseteq Players
    BY DEF IInv, TypeOK
<1>2. CASE WinCheck
    <2>1. ASSUME NEW p \in Players, Ship(p) \in FinishLine PROVE alive[p]
        <3>1. FinishRow # 0
            BY GameAssumption
        <3>2. Ship(p) # <<0, 0>>
            BY <2>1, <3>1 DEF FinishLine
        <3> QED BY <1>1, <3>2, ShipsFound
    <2>2. winners' = winners \cup {p \in Players : Ship(p) \in FinishLine} /\ alive' = alive
        BY <1>2 DEF WinCheck, board
    <2>3. \A p \in winners' : alive'[p]
        BY <2>1, <2>2 DEF WinnersSail
    <2>4. at' = IF winners' # {} THEN "won" ELSE "windcheck"
        BY <1>2 DEF WinCheck
    <2> QED BY <2>3, <2>4 DEF WinnersSail
<1>3. CASE EndTurn
    <2>1. winners' = winners /\ alive' = alive /\ at = "endturn"
          /\ at' = IF \A p \in Players : ~alive[p] THEN "lost" ELSE "wind"
        BY <1>3 DEF EndTurn
    <2> QED BY <2>1 DEF WinnersSail
<1>4. CASE UNCHANGED vars
    BY <1>4 DEF vars, WinnersSail
<1>5. CASE Next /\ ~WinCheck /\ ~EndTurn
    <2>1. winners' = winners /\ at \notin {"won", "lost"}
        BY <1>5 DEF Next, WindChange, DeclareMove, PassOver, StartMoving, WindCheck, SkipWreck,
                    MoveTo, EndPhase
    <2>2. winners = {}
        BY <2>1 DEF WinnersSail
    <2>3. at' \notin {"won", "lost"}
        BY <1>5, <2>1 DEF Next, WindChange, DeclareMove, PassOver, StartMoving, WindCheck,
                    SkipWreck, MoveTo, EndPhase, EndDeclare, NextShip, EndMove
    <2> QED BY <2>1, <2>2, <2>3 DEF WinnersSail
<1> QED BY <1>2, <1>3, <1>4, <1>5

(* Only a ship that sails wins, a race with a winner is over, and a race   *)
(* is lost only when no ship is left (wincheck and sailing of main.c).     *)
THEOREM RacesEndRight == Spec => []WinnersSail
<1>1. Init => WinnersSail
    BY DEF Init, WinnersSail
<1>2. IInv /\ WinnersSail /\ [Next]_vars => WinnersSail'
    BY StepWinners
<1> QED BY <1>1, <1>2, InvariantHolds, PTL DEF Spec

-----------------------------------------------------------------------------
(* A winner has been beyond the island *)

WallRow == CHOOSE y \in Barriers : TRUE
Wall == {<<WallRow, x>> : x \in {z \in 0..(East - 1) : z % 2 = 1}}
Walled(l) == \A c \in Wall : l[c] = Land

\* Nothing takes the wall away, and a ship that has been nowhere beyond the
\* island and was never painted over is still on the side of the start.
Course ==
    /\ Walled(lake)
    /\ \A p \in Players : wreckship[p] \notin Wall
    /\ \A p \in Players \ (rounded \cup astray) :
          Shown(lake, p) # {} => Ship(p)[1] > WallRow
    /\ \A p \in Players : alive[p] /\ Shown(lake, p) = {} => p \in astray

LEMMA WallIsLand ==
    /\ WallRow \in (FinishRow + 1)..(StartRow - 1) /\ WallRow \in Nat
    /\ WallRow > 0 /\ WallRow > FinishRow /\ WallRow < StartRow
    /\ East \in Nat /\ East % 2 = 0
    /\ Wall \subseteq Island /\ Wall \subseteq Cells
    /\ \A c \in Wall : c[1] = WallRow /\ c[2] % 2 = 1
<1>1. WallRow \in Barriers
    BY IslandAssumption DEF WallRow
<1>2. /\ WallRow \in (FinishRow + 1)..(StartRow - 1)
      /\ \A x \in 0..(East - 1) : x % 2 = 1 => <<WallRow, x>> \in Island
    BY <1>1 DEF Barriers
<1>3. FinishRow \in Nat /\ FinishRow > 0 /\ StartRow \in Nat /\ Island \subseteq Cells
    BY GameAssumption
<1>4. Wall \subseteq Island
    BY <1>2 DEF Wall
<1>5. \A c \in Wall : c[1] = WallRow /\ c[2] % 2 = 1
    BY DEF Wall
<1> QED BY <1>2, <1>3, <1>4, <1>5, IslandAssumption

(* A place meets the wall in its right cell or not at all. *)
LEMMA PlaceOffWall ==
    ASSUME NEW c \in EvenCells
    PROVE  /\ c \notin Wall
           /\ Beside(c) \notin Wall => Pair(c) \cap Wall = {}
           /\ c[1] # WallRow => Pair(c) \cap Wall = {}
           /\ Beside(c) \notin Wall /\ c[1] = WallRow => c[2] >= East
<1>1. /\ c \in Cells /\ c[2] % 2 = 0 /\ Beside(c) = <<c[1], c[2] + 1>>
      /\ Beside(c)[1] = c[1] /\ Beside(c)[2] % 2 = 1 /\ (c[2] + 1) % 2 = 1
    BY PlaceFits
<1>2. c[2] \in Nat
    BY <1>1, CellIsPair
<1>3. c \notin Wall
    <2>1. 0 # 1
        OBVIOUS
    <2> QED BY <1>1, <2>1, WallIsLand
<1>4. c[1] # WallRow => Beside(c) \notin Wall
    BY <1>1, WallIsLand
<1>5. ASSUME Beside(c) \notin Wall, c[1] = WallRow PROVE c[2] >= East
    <2>1. c[2] + 1 \notin 0..(East - 1)
        BY <1>1, <1>5 DEF Wall
    <2>2. East \in Nat /\ East % 2 = 0
        BY WallIsLand
    <2> QED BY <1>1, <1>2, <2>1, <2>2
<1> QED BY <1>3, <1>4, <1>5 DEF Pair

LEMMA CornerOffWall == Pair(<<0, 0>>) \cap Wall = {}
BY CornerIsPlace, PlaceOffWall, WallIsLand

LEMMA ShipOffWall ==
    ASSUME NEW l, Walled(l), NEW p \in Players, Whole(l, p)
    PROVE  Pair(FindShip(l, p)) \cap Wall = {}
<1>1. CASE Shown(l, p) = {}
    BY <1>1, FindsWhole, CornerOffWall
<1>2. CASE Shown(l, p) # {}
    <2>1. Shown(l, p) = Pair(FindShip(l, p))
        BY <1>2, FindsWhole
    <2>2. \A c \in Shown(l, p) : l[c] # Land
        BY CodesApart DEF Shown
    <2> QED BY <2>1, <2>2 DEF Walled
<1> QED BY <1>1, <1>2

LEMMA PaintOffWall ==
    ASSUME NEW l, Walled(l), NEW region, region \cap Wall = {}, NEW code
    PROVE  Walled(Painted(l, region, code))
BY WallIsLand DEF Walled, Painted

(* A ship painted over in part would not be whole. *)
LEMMA ShipsStay ==
    ASSUME ShipsInv, ShipsInv', NEW p \in Players, Shown(lake', p) \subseteq Shown(lake, p),
           Shown(lake', p) # {}
    PROVE  Shown(lake, p) # {} /\ FindShip(lake', p) = Ship(p)
<1>1. (ShipsInv <=> Fleet(lake, alive))'
    BY ShipsAreFleet, PTL
<1>2. Whole(lake', p)
    BY <1>1 DEF Fleet
<1>3. FindShip(lake', p) \in EvenCells /\ Shown(lake', p) = Pair(FindShip(lake', p))
    BY <1>2, FindsWhole
<1>4. Ship(p) \in EvenCells /\ Shown(lake, p) = Pair(Ship(p))
    BY ShipsFound
<1>5. Pair(FindShip(lake', p)) \cap Pair(Ship(p)) # {}
    BY <1>3, <1>4 DEF Pair
<1> QED BY <1>3, <1>4, <1>5, PlacesApart

LEMMA CourseKept ==
    ASSUME ShipsInv, ShipsInv', Course, Observe, Walled(lake'),
           \A p \in Players : wreckship'[p] \notin Wall,
           \A p \in Players : \/ Shown(lake', p) \subseteq Shown(lake, p)
                              \/ p \in rounded' \cup astray'
                              \/ FindShip(lake', p)[1] > WallRow
    PROVE  Course'
<1>1. /\ astray \subseteq astray' /\ rounded \subseteq rounded'
      /\ \A p \in Players : alive'[p] /\ Shown(lake', p) = {} => p \in astray'
    BY DEF Observe
<1>2. ASSUME NEW p \in Players, p \notin rounded' \cup astray', Shown(lake', p) # {}
      PROVE  FindShip(lake', p)[1] > WallRow
    <2>1. CASE Shown(lake', p) \subseteq Shown(lake, p)
        <3>1. Shown(lake, p) # {} /\ FindShip(lake', p) = Ship(p)
            BY <1>2, <2>1, ShipsStay
        <3>2. p \notin rounded \cup astray
            BY <1>1, <1>2
        <3> QED BY <3>1, <3>2 DEF Course
    <2> QED BY <1>2, <2>1
<1> QED BY <1>1, <1>2 DEF Course, Ship

LEMMA InitCourse == Init => Course
<1> SUFFICES ASSUME Init PROVE Course
    OBVIOUS
<1>1. lake = StartingLake
    BY DEF Init
<1>2. ASSUME NEW c \in Wall PROVE lake[c] = Land
    <2>1. c \in Cells /\ c \in Island /\ c[1] # StartRow
        BY WallIsLand, GameAssumption
    <2> QED BY <1>1, <2>1 DEF StartingLake
<1>3. ASSUME NEW p \in Players
      PROVE  Shown(lake, p) # {} /\ Ship(p)[1] > WallRow /\ wreckship[p] \notin Wall
    <2> DEFINE a == <<StartRow, 4 * (p - 1)>>
    <2>1. Shown(lake, p) = Pair(a) /\ a \in EvenCells
        BY <1>1, Started
    <2>2. Ship(p) = a
        BY <2>1, FindsPlace DEF Ship
    <2>3. StartRow > WallRow
        BY WallIsLand, GameAssumption
    <2>4. wreckship[p] = <<0, 0>>
        BY DEF Init
    <2> QED BY <2>1, <2>2, <2>3, <2>4, CornerIsPlace, PlaceOffWall DEF Pair
<1> QED BY <1>2, <1>3 DEF Course, Walled

LEMMA StartMovingCourse ==
    ASSUME IInv, ShipsInv', Course, StartMoving
    PROVE  Course'
<1>1. lake' = Painted(lake, FinishLine, Sea) /\ wreckship' = wreckship /\ Observe
    BY DEF StartMoving, Painted
<1>2. FinishLine \cap Wall = {}
    BY WallIsLand, GameAssumption DEF FinishLine
<1>3. Walled(lake')
    BY <1>1, <1>2, PaintOffWall DEF Course
<1>4. \A p \in Players : Shown(lake', p) \subseteq Shown(lake, p)
    BY <1>1, CodesApart DEF Shown, Painted
<1> QED BY <1>1, <1>3, <1>4, CourseKept DEF Course, IInv

(* crashcheck looks at the right cell of the place moved to. *)
LEMMA LooksRight ==
    ASSUME NEW c \in EvenCells, NEW d \in 1..4, ~AtEdge(c, d)
    PROVE  \E i \in 1..2 : LookedAt(c, d)[i] = Beside(Toward(c, d))
<1>1. CASE d # 4
    BY <1>1 DEF LookedAt
<1>2. CASE d = 4
    <2>1. LookedAt(c, d)[1] = <<c[1], c[2] - 1>> /\ Toward(c, d) = <<c[1], c[2] - 2>>
        BY <1>2 DEF LookedAt, Toward
    <2>2. c[2] \in Nat
        BY CellIsPair DEF EvenCells
    <2>3. (c[2] - 2) + 1 = c[2] - 1
        BY <2>2
    <2> QED BY <2>1, <2>3 DEF Beside
<1> QED BY <1>1, <1>2

LEMMA TowardIsNear ==
    ASSUME NEW c \in EvenCells, NEW d \in 1..4
    PROVE  Toward(c, d)[1] >= c[1] - 1
<1>1. c[1] \in Nat
    BY CellIsPair DEF EvenCells
<1>2. Toward(c, d)[1] \in {c[1] - 1, c[1], c[1] + 1}
    BY DEF Toward
<1> QED BY <1>1, <1>2

(* A ship that reaches the barrier's row by sailing arrives beyond it. *)
LEMMA SailCourse ==
    ASSUME IInv, WrecksAreTimed, Course, Observe, heading \in 1..4, alive[turn],
           NEW t \in Read(LookedAt(Ship(turn), heading)[1][1],
                          LookedAt(Ship(turn), heading)[1][2]),
           NEW s \in Read(LookedAt(Ship(turn), heading)[2][1],
                          LookedAt(Ship(turn), heading)[2][2]),
           Sail(t, s)
    PROVE  Course'
<1> DEFINE from == Ship(turn)
           to == Toward(Ship(turn), heading)
           clear == Painted(lake, Pair(from), Sea)
<1>1. /\ TypeOK /\ ShipsInv /\ lake \in [Cells -> Codes] /\ turn \in Players
      /\ Walled(lake)
    BY DEF IInv, TypeOK, Course
<1>2. from \in EvenCells /\ Whole(lake, turn)
    BY <1>1, ShipsFound
<1>3. Damage(t, s)[turn] = 0
    BY <1>1 DEF Sail
<1>4. ~AtEdge(from, heading)
    BY <1>1, <1>3, DamageCounts
<1>5. to \in EvenCells /\ Beside(to) \in Cells
    BY <1>2, <1>4, TowardFits, PlaceFits
<1>6. t # Land /\ s # Land
    <2>1. Damage(t, s)[turn] = OwnDamage(t, s) + (IF turn \in Rammed(t) THEN 1 ELSE 0)
        BY <1>1 DEF Damage
    <2>2. OwnDamage(t, s) = (IF AtEdge(from, heading) THEN 1 ELSE 0) +
                            (IF {t, s} \cap {Land, Wreckage} # {} THEN 1 ELSE 0) +
                            Cardinality(Rammed(t))
        BY DEF OwnDamage
    <2>3. Cardinality(Rammed(t)) \in Nat
        BY RammedOnce
    <2>4. ~({t, s} \cap {Land, Wreckage} # {})
        BY <1>3, <2>1, <2>2, <2>3
    <2> QED BY <2>4
<1>7. lake[Beside(to)] # Land
    <2>1. PICK i \in 1..2 : LookedAt(from, heading)[i] = Beside(to)
        BY <1>2, <1>4, LooksRight
    <2>2. Read(Beside(to)[1], Beside(to)[2]) = {lake[Beside(to)]}
        BY <1>5, ReadsCell
    <2>3. CASE i = 1
        BY <1>6, <2>1, <2>2, <2>3
    <2>4. CASE i = 2
        BY <1>6, <2>1, <2>2, <2>4
    <2> QED BY <2>3, <2>4
<1>8. Beside(to) \notin Wall
    BY <1>1, <1>7 DEF Walled
<1>9. lake' = Painted(clear, Pair(to), turn)
    <2>1. lake' = Paint(Paint(lake, from, Sea), to, turn)
        BY DEF Sail
    <2>2. Paint(lake, from, Sea) = clear /\ clear \in [Cells -> Codes]
        BY <1>1, <1>2, PaintIsPainted, PaintedLake, CodesApart
    <2> HIDE DEF clear
    <2> QED BY <1>5, <2>1, <2>2, PaintIsPainted
<1>10. Walled(lake')
    <2>1. Pair(from) \cap Wall = {} /\ Pair(to) \cap Wall = {}
        BY <1>1, <1>2, <1>5, <1>8, ShipOffWall, PlaceOffWall DEF Ship
    <2>2. Walled(clear)
        BY <1>1, <2>1, PaintOffWall
    <2> HIDE DEF clear
    <2> QED BY <1>9, <2>1, <2>2, PaintOffWall
<1>11. Kept' /\ FindShip(lake', turn) = to
    BY SailKeeps
<1>12. ASSUME NEW p \in Players, p # turn PROVE Shown(lake', p) \subseteq Shown(lake, p)
    <2>1. \A c \in Cells : lake'[c] = p => lake[c] = p
        BY <1>9, <1>12, CodesApart DEF Painted
    <2> QED BY <2>1 DEF Shown
<1>13. turn \in rounded' \cup astray' \/ FindShip(lake', turn)[1] > WallRow
    <2> SUFFICES ASSUME turn \notin rounded \cup astray, ~(to[1] > WallRow)
                 PROVE  turn \in rounded'
        BY <1>11 DEF Observe
    <2>1. Shown(lake, turn) # {}
        BY <1>1 DEF Course
    <2>2. from[1] > WallRow
        BY <1>1, <2>1 DEF Course
    <2>3. to[1] >= from[1] - 1
        BY <1>2, TowardIsNear
    <2>4. to[1] \in Nat /\ from[1] \in Nat /\ WallRow \in Nat
        BY <1>2, <1>5, CellIsPair, WallIsLand DEF EvenCells
    <2>5. to[1] = WallRow
        BY <2>2, <2>3, <2>4
    <2>6. to[2] >= East
        BY <1>5, <1>8, <2>5, PlaceOffWall
    <2> QED BY <1>1, <1>11, <2>6 DEF Observe
<1>14. wreckship' = wreckship
    BY DEF Sail
<1> QED BY <1>1, <1>10, <1>11, <1>12, <1>13, <1>14, CourseKept DEF Course, Kept

(* A wreck lies where its ship was, or in the corner: never on the wall. *)
LEMMA CrashCourse ==
    ASSUME IInv, WrecksAreTimed, Course, Observe, NEW t, NEW s, Crash(t, s)
    PROVE  Course'
<1> DEFINE hit == {p \in Players : Damage(t, s)[p] > 0}
           cut == {p \in hit : lives'[p] <= 0}
<1>1. PICK lost \in SUBSET Players : lost = cut
    OBVIOUS
<1>2. Wreck(lost)
    BY <1>1 DEF Crash
<1>3. Kept' /\ ShipsInv' /\ ShipsInv /\ Walled(lake) /\ turn \in Players
    BY CrashKeeps DEF Kept, IInv, TypeOK, Course
<1> HIDE DEF cut
<1>4. /\ lake' = IF turn \in lost
                 THEN Painted(Rest(lost), Pair(WreckOf(lost, turn)), Wreckage)
                 ELSE Rest(lost)
      /\ wreckship' = [p \in Players |->
                          IF p \in lost THEN Beside(WreckOf(lost, p)) ELSE wreckship[p]]
    BY <1>2, WreckPaints
<1>5. ASSUME NEW p \in Players PROVE Pair(Ship(p)) \cap Wall = {}
    BY <1>3, ShipsFound, ShipOffWall DEF Ship
<1>6. Walled(Rest(lost))
    <2> DEFINE region == UNION {Pair(Ship(p)) : p \in lost \ {turn}}
    <2>1. region \cap Wall = {}
        BY <1>5
    <2> HIDE DEF region
    <2>2. Walled(Painted(lake, region, Wreckage))
        BY <1>3, <2>1, PaintOffWall
    <2> QED BY <2>2 DEF Rest, region
<1>7. ASSUME NEW p \in Players PROVE Pair(WreckOf(lost, p)) \cap Wall = {}
    <2>1. CASE p = turn
        <3>1. Whole(Rest(lost), p)
            BY RestKeeps DEF Fleet
        <3> QED BY <1>6, <2>1, <3>1, ShipOffWall DEF WreckOf
    <2>2. CASE p # turn
        BY <1>5, <2>2 DEF WreckOf
    <2> QED BY <2>1, <2>2
<1>8. Walled(lake')
    BY <1>3, <1>4, <1>6, <1>7, PaintOffWall
<1>9. ASSUME NEW p \in Players PROVE wreckship'[p] \notin Wall
    BY <1>4, <1>7 DEF Pair, Course
<1>10. ASSUME NEW p \in Players PROVE Shown(lake', p) \subseteq Shown(lake, p)
    <2>1. \A c \in Cells : Rest(lost)[c] = p => lake[c] = p
        BY CodesApart DEF Rest, Painted
    <2>2. \A c \in Cells : lake'[c] = p => Rest(lost)[c] = p
        BY <1>4, CodesApart DEF Painted
    <2> QED BY <2>1, <2>2 DEF Shown
<1> QED BY <1>3, <1>8, <1>9, <1>10, CourseKept

LEMMA MoveToCourse ==
    ASSUME IInv, WrecksAreTimed, Course, MoveTo
    PROVE  Course'
<1>1. Observe /\ ShipsInv' /\ ShipsInv
    BY MoveToKeeps DEF MoveTo, Kept, IInv
<1>2. CASE UNCHANGED board
    <2>1. lake' = lake /\ wreckship' = wreckship
        BY <1>2 DEF board
    <2> QED BY <1>1, <2>1, CourseKept DEF Course
<1>3. CASE heading # 0 /\ alive[turn]
    <2>1. heading \in 1..4
        BY <1>3 DEF IInv, TypeOK
    <2> DEFINE look == LookedAt(Ship(turn), heading)
    <2>2. PICK t \in Read(look[1][1], look[1][2]), s \in Read(look[2][1], look[2][2]) :
              Sail(t, s) \/ Crash(t, s)
        BY <1>3 DEF MoveTo
    <2> QED BY <1>1, <1>3, <2>1, <2>2, SailCourse, CrashCourse
<1> QED BY <1>2, <1>3 DEF MoveTo

(* A ship drawn in the corner was there or had been painted over. *)
LEMMA EndPhaseCourse ==
    ASSUME IInv, WrecksAreTimed, Course, EndPhase
    PROVE  Course'
<1>1. PICK corner \in SUBSET Players : corner = {p \in blown : alive[p] /\ Ship(p) = <<0, 0>>}
    BY DEF IInv, TypeOK
<1>2. /\ lake' = IF corner = {} THEN lake ELSE Paint(lake, <<0, 0>>, Max(corner))
      /\ wreckship' = wreckship /\ Observe
    BY <1>1 DEF EndPhase
<1>3. ShipsInv' /\ ShipsInv /\ lake \in [Cells -> Codes] /\ Walled(lake)
    BY EndPhaseKeeps DEF Kept, IInv, TypeOK, Course
<1>4. CASE corner = {}
    BY <1>2, <1>3, <1>4, CourseKept DEF Course
<1>5. CASE corner # {}
    <2>1. PICK q \in corner : q = Max(corner)
        BY <1>5, CornerHasLast
    <2>2. q \in Players /\ alive[q] /\ Ship(q) = <<0, 0>>
        BY <1>1
    <2>3. lake' = Painted(lake, Pair(<<0, 0>>), q)
        BY <1>2, <1>3, <1>5, <2>1, CornerIsPlace, PaintIsPainted
    <2>4. Walled(lake')
        BY <1>3, <2>3, CornerOffWall, PaintOffWall
    <2>5. q \in rounded \cup astray
        <3>1. ~(Ship(q)[1] > WallRow)
            BY <2>2, WallIsLand
        <3> QED BY <2>2, <3>1 DEF Course
    <2>6. q \in rounded' \cup astray'
        BY <1>2, <2>5 DEF Observe
    <2>7. ASSUME NEW p \in Players, p # q PROVE Shown(lake', p) \subseteq Shown(lake, p)
        BY <2>3, <2>7 DEF Shown, Painted
    <2> QED BY <1>2, <1>3, <2>4, <2>6, <2>7, CourseKept DEF Course
<1> QED BY <1>4, <1>5

(* The removal of a wreck clears no land. *)
LEMMA EndTurnCourse ==
    ASSUME IInv, WrecksAreTimed, Course, EndTurn
    PROVE  Course'
<1>1. PICK gone \in SUBSET Players :
          gone = {p \in Players : wreckcounter'[p] = 0 /\ wreckship[p][1] # 0}
    OBVIOUS
<1>2. /\ lake' = [c \in Cells |-> IF \E p \in gone : c \in Under(wreckship[p])
                                  THEN Sea ELSE lake[c]]
      /\ wreckship' = [p \in Players |-> IF p \in gone THEN <<0, 0>> ELSE wreckship[p]]
      /\ Observe
    BY <1>1 DEF EndTurn, Under
<1>3. ShipsInv' /\ ShipsInv /\ WreckInv /\ Walled(lake) /\ wreckship \in [Players -> Cells]
    BY EndTurnKeeps DEF Kept, IInv, TypeOK, Course
<1>4. ASSUME NEW p \in gone PROVE Under(wreckship[p]) \cap Wall = {}
    <2> DEFINE w == wreckship[p]
    <2>1. w \in Cells /\ w[2] % 2 = 1 /\ w \notin Wall
        BY <1>1, <1>3 DEF WreckInv, Course
    <2>2. w[2] \in Nat
        BY <2>1, CellIsPair
    <2>3. (w[2] - 1) % 2 # 1
        BY <2>1, <2>2
    <2>4. <<w[1], w[2] - 1>> \notin Wall
        BY <2>3, WallIsLand
    <2> QED BY <2>1, <2>4 DEF Under
<1>5. Walled(lake')
    BY <1>2, <1>3, <1>4, WallIsLand DEF Walled
<1>6. ASSUME NEW p \in Players PROVE wreckship'[p] \notin Wall
    <2>1. <<0, 0>> \notin Wall
        BY CornerOffWall DEF Pair
    <2> QED BY <1>2, <2>1 DEF Course
<1>7. \A p \in Players : Shown(lake', p) \subseteq Shown(lake, p)
    BY <1>2, CodesApart DEF Shown
<1> QED BY <1>2, <1>3, <1>5, <1>6, <1>7, CourseKept

LEMMA StepCourse ==
    ASSUME IInv, WrecksAreTimed, Course, [Next]_vars
    PROVE  Course'
<1>1. CASE UNCHANGED <<lake, alive, wreckship, astray, rounded>>
    BY <1>1 DEF Course, Ship
<1>2. CASE WindChange \/ DeclareMove \/ PassOver \/ WinCheck \/ WindCheck \/ SkipWreck
    <2>1. UNCHANGED <<board, history>>
        BY <1>2 DEF WindChange, DeclareMove, PassOver, WinCheck, WindCheck, SkipWreck
    <2> QED BY <1>1, <2>1 DEF board, history
<1>3. CASE StartMoving
    <2>1. ShipsInv'
        BY <1>3, StartMovingKeeps DEF Kept
    <2> QED BY <1>3, <2>1, StartMovingCourse
<1>4. CASE MoveTo
    BY <1>4, MoveToCourse
<1>5. CASE EndPhase
    BY <1>5, EndPhaseCourse
<1>6. CASE EndTurn
    BY <1>6, EndTurnCourse
<1>7. CASE UNCHANGED vars
    BY <1>1, <1>7 DEF vars
<1> QED BY <1>2, <1>3, <1>4, <1>5, <1>6, <1>7 DEF Next

LEMMA StepRounded ==
    ASSUME IInv, Course, WinnersRounded, [Next]_vars
    PROVE  WinnersRounded'
<1>1. WinnersSail' /\ ShipsInv
    BY StepWinners DEF WinnersRounded, IInv
<1>2. CASE WinCheck
    <2>1. ASSUME NEW p \in Players, Ship(p) \in FinishLine PROVE p \in rounded \cup astray
        <3>1. Ship(p)[1] = FinishRow /\ FinishRow \in Nat /\ FinishRow # 0
            BY <2>1, GameAssumption DEF FinishLine
        <3>2. Shown(lake, p) # {}
            BY <1>1, <3>1, ShipsFound
        <3>3. ~(Ship(p)[1] > WallRow)
            BY <3>1, WallIsLand
        <3> QED BY <3>2, <3>3 DEF Course
    <2>2. /\ winners' = winners \cup {p \in Players : Ship(p) \in FinishLine}
          /\ UNCHANGED <<rounded, astray>>
        BY <1>2 DEF WinCheck, history
    <2> QED BY <1>1, <2>1, <2>2 DEF WinnersRounded
<1>3. CASE [Next]_vars /\ ~WinCheck
    <2>1. winners' = winners /\ rounded \subseteq rounded' /\ astray \subseteq astray'
        BY <1>3 DEF Next, vars, history, Observe, WindChange, DeclareMove, PassOver, StartMoving,
                    WindCheck, SkipWreck, MoveTo, EndPhase, EndTurn
    <2> QED BY <1>1, <2>1 DEF WinnersRounded
<1> QED BY <1>2, <1>3

(* A winner sails and has been on the other side of the island, unless its *)
(* ship was painted over on the way: no move, wreck or drawing lets a ship *)
(* past the barrier, whatever the wind (moveto, crashcheck and wincheck of *)
(* main.c).                                                                *)
THEOREM WinnersHaveRounded == Spec => []WinnersRounded
<1>1. Init => Course /\ WinnersRounded
    BY InitCourse DEF Init, WinnersRounded, WinnersSail
<1>2. IInv /\ WrecksAreTimed /\ Course /\ WinnersRounded /\ [Next]_vars
      => Course' /\ WinnersRounded'
    BY StepCourse, StepRounded
<1> QED BY <1>1, <1>2, InvariantHolds, WrecksTimed, PTL DEF Spec
=============================================================================
