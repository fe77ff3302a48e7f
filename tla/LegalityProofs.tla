--------------------------- MODULE LegalityProofs ---------------------------
(***************************************************************************)
(* What is_illegal() and is_in_check() say, by the rules of Chess: a game  *)
(* mirrors a position, and then a move is let pass if the rules have it    *)
(* among the ways of the man that moves, and a king is in check if a man of *)
(* the other player attacks his square.                                    *)
(***************************************************************************)
EXTENDS Positions, EngineProofs

-----------------------------------------------------------------------------
(* Directions and slides. *)
\* The names that Engine and Chess share mean the same.
LEMMA SameNames ==
  /\ Rules!ROOK = ROOK /\ Rules!KNIGHT = KNIGHT /\ Rules!BISHOP = BISHOP
  /\ Rules!QUEEN = QUEEN /\ Rules!KING = KING /\ Rules!PAWN = PAWN
  /\ Rules!WHITE = WHITE /\ Rules!BLACK = BLACK
  /\ Rules!Promotions = Promotions /\ Rules!Board = Squares
  /\ \A p : Rules!Opponent(p) = Opponent(p)
  /\ \A p : Rules!Forward(p) = Direction(p) /\ Rules!Home(p) = HomeRow(p)
  /\ \A m : Rules!Source(m) = From(m) /\ Rules!Target(m) = To(m)
  BY DEF Rules!ROOK, ROOK, Rules!KNIGHT, KNIGHT, Rules!BISHOP, BISHOP,
         Rules!QUEEN, QUEEN, Rules!KING, KING, Rules!PAWN, PAWN,
         Rules!WHITE, WHITE, Rules!BLACK, BLACK, Rules!Promotions, Promotions,
         Rules!Board, Squares, Rules!Coord, Coord, Rules!Opponent, Opponent,
         Rules!Forward, Direction, Rules!Home, HomeRow, Rules!Source, From,
         Rules!Target, To

\* The numbers of all men.
LEMMA MenAreNumbers ==
  /\ ROOK = 0 /\ KNIGHT = 1 /\ BISHOP = 2 /\ QUEEN = 3 /\ KING = 4 /\ PAWN = 5
  /\ EMPTY = 6
  BY DEF ROOK, KNIGHT, BISHOP, QUEEN, KING, PAWN, EMPTY

\* The eight directions.
LEMMA Directions ==
  /\ \A d \in Rules!Straight \cup Rules!Diagonal :
       d = <<d[1], d[2]>> /\ d[1] \in {-1, 0, 1} /\ d[2] \in {-1, 0, 1}
  /\ \A d \in Rules!Straight : d[1] * d[2] = 0 /\ d[1] # d[2]
  /\ \A d \in Rules!Diagonal : d[1] # 0 /\ d[2] # 0
  /\ \A x, y \in {-1, 0, 1} :
       /\ x * y = 0 /\ x # y => <<x, y>> \in Rules!Straight
       /\ x # 0 /\ y # 0 => <<x, y>> \in Rules!Diagonal
  BY DEF Rules!Straight, Rules!Diagonal

\* The larger of two numbers.
LEMMA LargerOfTwo ==
  ASSUME NEW a \in Int, NEW b \in Int
  PROVE  Max({a, b}) = IF a >= b THEN a ELSE b
  BY DEF Max

\* A move along a direction, and how far it goes.
LEMMA Slide ==
  ASSUME NEW s \in Squares, NEW x \in {-1, 0, 1}, NEW y \in {-1, 0, 1},
         x # 0 \/ y # 0, NEW k \in 1 .. 7, NEW t \in Squares,
         t = Rules!Plus(s, <<x, y>>, k), NEW promotion
  PROVE  LET m == MoveOf(s, t, promotion)
         IN  /\ Sign(RowDiff(m)) = x /\ Sign(ColDiff(m)) = y
             /\ RowDiff(m) = k * x /\ ColDiff(m) = k * y
             /\ Between(m) = {Rules!Plus(s, <<x, y>>, i) : i \in 1 .. k - 1}
<1> DEFINE m == MoveOf(s, t, promotion)
<1>1. s[1] \in Int /\ s[2] \in Int
  BY DEF Squares, Coord
<1>2. t[1] = s[1] + k * x /\ t[2] = s[2] + k * y
  BY DEF Rules!Plus
<1>3. /\ RowDiff(m) = k * x /\ ColDiff(m) = k * y
      /\ m.r_i = s[1] /\ m.c_i = s[2]
  <2>1. RowDiff(m) = t[1] - s[1] /\ ColDiff(m) = t[2] - s[2]
    BY DEF MoveOf, RowDiff, ColDiff
  <2>2. k * x \in Int /\ k * y \in Int
    OBVIOUS
  <2> QED
    BY <1>1, <1>2, <2>1, <2>2 DEF MoveOf
<1> HIDE DEF m
<1>4. /\ x = -1 => k * x = -k
      /\ x = 0 => k * x = 0
      /\ x = 1 => k * x = k
      /\ y = -1 => k * y = -k
      /\ y = 0 => k * y = 0
      /\ y = 1 => k * y = k
  OBVIOUS
<1>5. Sign(RowDiff(m)) = x /\ Sign(ColDiff(m)) = y
  BY <1>3, <1>4 DEF Sign
<1>6. Max({Abs(RowDiff(m)), Abs(ColDiff(m))}) = k
  <2>1. /\ Abs(RowDiff(m)) = IF x = 0 THEN 0 ELSE k
        /\ Abs(ColDiff(m)) = IF y = 0 THEN 0 ELSE k
    BY <1>3, <1>4 DEF Abs
  <2> QED
    BY <2>1, LargerOfTwo
<1>7. Between(m) = {Rules!Plus(s, <<x, y>>, i) : i \in 1 .. k - 1}
  BY <1>3, <1>5, <1>6 DEF Between, Rules!Plus
<1> QED
  BY <1>3, <1>5, <1>7 DEF m

\* A straight or diagonal move goes along one of the directions.
LEMMA SlideOf ==
  ASSUME NEW s \in Squares, NEW t \in Squares, s # t, NEW promotion
  PROVE  LET m == MoveOf(s, t, promotion)
         IN  /\ RowDiff(m) * ColDiff(m) = 0 =>
                  \E d \in Rules!Straight, k \in 1 .. 7 : t = Rules!Plus(s, d, k)
             /\ Abs(RowDiff(m)) = Abs(ColDiff(m)) =>
                  \E d \in Rules!Diagonal, k \in 1 .. 7 : t = Rules!Plus(s, d, k)
<1> DEFINE m == MoveOf(s, t, promotion)
           rd == t[1] - s[1]
           cd == t[2] - s[2]
<1>1. /\ s = <<s[1], s[2]>> /\ t = <<t[1], t[2]>>
      /\ s[1] \in 0 .. 7 /\ s[2] \in 0 .. 7 /\ t[1] \in 0 .. 7 /\ t[2] \in 0 .. 7
  BY DEF Squares, Coord
<1>2. RowDiff(m) = rd /\ ColDiff(m) = cd
  BY DEF MoveOf, RowDiff, ColDiff
<1>3. rd \in -7 .. 7 /\ cd \in -7 .. 7 /\ (rd # 0 \/ cd # 0)
  BY <1>1
<1>4. t[1] = s[1] + rd /\ t[2] = s[2] + cd
  BY <1>1
<1> HIDE DEF rd, cd, m
<1>5. \A x, y \in {-1, 0, 1}, k \in 1 .. 7 :
        rd = k * x /\ cd = k * y => t = Rules!Plus(s, <<x, y>>, k)
  BY <1>1, <1>4 DEF Rules!Plus
<1>6. ASSUME RowDiff(m) * ColDiff(m) = 0
      PROVE  \E d \in Rules!Straight, k \in 1 .. 7 : t = Rules!Plus(s, d, k)
  <2>1. CASE rd = 0
    <3>1. CASE cd > 0
      <4>1. rd = cd * 0 /\ cd = cd * 1 /\ cd \in 1 .. 7
        BY <1>3, <2>1, <3>1
      <4> QED
        BY <1>5, <4>1, Directions
    <3>2. CASE cd < 0
      <4>1. rd = (-cd) * 0 /\ cd = (-cd) * (-1) /\ -cd \in 1 .. 7
        BY <1>3, <2>1, <3>2
      <4> QED
        BY <1>5, <4>1, Directions
    <3> QED
      BY <1>3, <2>1, <3>1, <3>2
  <2>2. CASE cd = 0
    <3>1. CASE rd > 0
      <4>1. rd = rd * 1 /\ cd = rd * 0 /\ rd \in 1 .. 7
        BY <1>3, <2>2, <3>1
      <4> QED
        BY <1>5, <4>1, Directions
    <3>2. CASE rd < 0
      <4>1. rd = (-rd) * (-1) /\ cd = (-rd) * 0 /\ -rd \in 1 .. 7
        BY <1>3, <2>2, <3>2
      <4> QED
        BY <1>5, <4>1, Directions
    <3> QED
      BY <1>3, <2>2, <3>1, <3>2
  <2> QED
    BY <1>2, <1>3, <1>6, <2>1, <2>2
<1>7. ASSUME Abs(RowDiff(m)) = Abs(ColDiff(m))
      PROVE  \E d \in Rules!Diagonal, k \in 1 .. 7 : t = Rules!Plus(s, d, k)
  <2>1. rd = cd \/ rd = -cd
    BY <1>2, <1>3, <1>7 DEF Abs
  <2>2. PICK k \in 1 .. 7, x \in {-1, 1}, y \in {-1, 1} : rd = k * x /\ cd = k * y
    <3>1. CASE rd > 0
      <4>1. rd \in 1 .. 7 /\ rd = rd * 1 /\ (cd = rd * 1 \/ cd = rd * (-1))
        BY <1>3, <2>1, <3>1
      <4> QED
        BY <4>1
    <3>2. CASE rd < 0
      <4>1. -rd \in 1 .. 7 /\ rd = (-rd) * (-1)
            /\ (cd = (-rd) * 1 \/ cd = (-rd) * (-1))
        BY <1>3, <2>1, <3>2
      <4> QED
        BY <4>1
    <3> QED
      BY <1>3, <2>1, <3>1, <3>2
  <2>3. <<x, y>> \in Rules!Diagonal
    BY Directions
  <2> QED
    BY <1>5, <2>2, <2>3
<1> QED
  BY <1>6, <1>7 DEF m

-----------------------------------------------------------------------------
(* What a man sees. *)
\* Squares along a direction are different squares.
LEMMA PlusDiffers ==
  ASSUME NEW s \in Squares, NEW d \in Rules!Straight \cup Rules!Diagonal,
         NEW i \in Int, NEW k \in Int,
         Rules!Plus(s, d, i) = Rules!Plus(s, d, k)
  PROVE  i = k
<1>1. s[1] \in Int /\ s[2] \in Int
  BY DEF Squares, Coord
<1>2. /\ d[1] \in {-1, 0, 1} /\ d[2] \in {-1, 0, 1}
      /\ d[1] # 0 \/ d[2] # 0
  BY Directions
<1>3. s[1] + i * d[1] = s[1] + k * d[1] /\ s[2] + i * d[2] = s[2] + k * d[2]
  BY DEF Rules!Plus
<1>4. CASE d[1] = 1 \/ d[2] = 1
  BY <1>1, <1>3, <1>4
<1>5. CASE d[1] = -1 \/ d[2] = -1
  BY <1>1, <1>3, <1>5
<1> QED
  BY <1>2, <1>4, <1>5

\* What a man sees in a direction.
LEMMA RayReaches ==
  ASSUME NEW men, NEW s \in Squares, NEW t \in Squares,
         NEW d \in Rules!Straight \cup Rules!Diagonal, NEW k \in 1 .. 7,
         t = Rules!Plus(s, d, k)
  PROVE  t \in Rules!Ray(men, s, d) <=>
           \A i \in 1 .. k - 1 : Rules!Plus(s, d, i) \notin DOMAIN men
<1>1. ASSUME NEW n \in 1 .. 7, t = Rules!Plus(s, d, n)
      PROVE  n = k
  <2>1. Rules!Plus(s, d, n) = Rules!Plus(s, d, k) /\ n \in Int /\ k \in Int
    BY <1>1
  <2> QED
    BY <2>1, PlusDiffers
<1>2. t \in Rules!Ray(men, s, d) <=>
        \E n \in 1 .. 7 : /\ t = Rules!Plus(s, d, n)
                          /\ Rules!Plus(s, d, n) \in Squares
                          /\ \A i \in 1 .. n - 1 : Rules!Plus(s, d, i) \notin DOMAIN men
  BY SameNames DEF Rules!Ray
<1> QED
  BY <1>1, <1>2

\* A move in a direction is free of men exactly if its end is in the ray.  Who
\* stands at the end does not matter.
LEMMA ClearIsRay ==
  ASSUME NEW a, NEW men, NEW s \in Squares, NEW t \in Squares, NEW promotion,
         DOMAIN a \ {t} = DOMAIN men \ {t},
         NEW d \in Rules!Straight \cup Rules!Diagonal, NEW k \in 1 .. 7,
         t = Rules!Plus(s, d, k)
  PROVE  LET m == MoveOf(s, t, promotion)
         IN  /\ Clear(a, m) <=> t \in Rules!Ray(men, s, d)
             /\ RowDiff(m) = k * d[1] /\ ColDiff(m) = k * d[2]
<1> DEFINE m == MoveOf(s, t, promotion)
<1>1. /\ d = <<d[1], d[2]>> /\ d[1] \in {-1, 0, 1} /\ d[2] \in {-1, 0, 1}
      /\ d[1] # 0 \/ d[2] # 0
  BY Directions
<1>2. /\ Between(m) = {Rules!Plus(s, d, i) : i \in 1 .. k - 1}
      /\ RowDiff(m) = k * d[1] /\ ColDiff(m) = k * d[2]
  BY <1>1, Slide
<1> HIDE DEF m
<1>3. \A i \in 1 .. k - 1 : Rules!Plus(s, d, i) # t
  BY PlusDiffers
<1>4. Clear(a, m) <=> \A i \in 1 .. k - 1 : Rules!Plus(s, d, i) \notin DOMAIN men
  BY <1>2, <1>3 DEF Clear, Occupied
<1> QED
  BY <1>2, <1>4, RayReaches DEF m

\* The rook's and the bishop's ways, together the queen's.
LEMMA SlidesAreRays ==
  ASSUME NEW a, NEW men, NEW s \in Squares, NEW t \in Squares, s # t,
         NEW promotion, DOMAIN a \ {t} = DOMAIN men \ {t}
  PROVE  LET m == MoveOf(s, t, promotion)
         IN  /\ RookReaches(a, m) <=>
                  \E d \in Rules!Straight : t \in Rules!Ray(men, s, d)
             /\ BishopReaches(a, m) <=>
                  \E d \in Rules!Diagonal : t \in Rules!Ray(men, s, d)
<1> DEFINE m == MoveOf(s, t, promotion)
<1>1. ASSUME NEW d \in Rules!Straight \cup Rules!Diagonal, t \in Rules!Ray(men, s, d)
      PROVE  /\ Clear(a, m)
             /\ \E k \in 1 .. 7 : RowDiff(m) = k * d[1] /\ ColDiff(m) = k * d[2]
  <2>1. PICK k \in 1 .. 7 : t = Rules!Plus(s, d, k)
    BY <1>1 DEF Rules!Ray
  <2>2. Clear(a, m) <=> t \in Rules!Ray(men, s, d)
    BY <2>1, ClearIsRay
  <2>3. RowDiff(m) = k * d[1] /\ ColDiff(m) = k * d[2]
    BY <2>1, ClearIsRay
  <2> HIDE DEF m
  <2> QED
    BY <1>1, <2>2, <2>3
<1>2. /\ RowDiff(m) * ColDiff(m) = 0 =>
           \E d \in Rules!Straight, k \in 1 .. 7 : t = Rules!Plus(s, d, k)
      /\ Abs(RowDiff(m)) = Abs(ColDiff(m)) =>
           \E d \in Rules!Diagonal, k \in 1 .. 7 : t = Rules!Plus(s, d, k)
  BY SlideOf
<1>3. \A d \in Rules!Straight \cup Rules!Diagonal, k \in 1 .. 7 :
        t = Rules!Plus(s, d, k) => (Clear(a, m) <=> t \in Rules!Ray(men, s, d))
  BY ClearIsRay
<1> HIDE DEF m
<1>4. RookReaches(a, m) <=> \E d \in Rules!Straight : t \in Rules!Ray(men, s, d)
  <2>1. ASSUME RookReaches(a, m)
        PROVE  \E d \in Rules!Straight : t \in Rules!Ray(men, s, d)
    BY <1>2, <1>3, <2>1 DEF RookReaches
  <2>2. ASSUME NEW d \in Rules!Straight, t \in Rules!Ray(men, s, d)
        PROVE  RookReaches(a, m)
    <3>1. PICK k \in 1 .. 7 : RowDiff(m) = k * d[1] /\ ColDiff(m) = k * d[2]
      BY <1>1, <2>2
    <3>2. d[1] \in {-1, 0, 1} /\ d[2] \in {-1, 0, 1} /\ d[1] * d[2] = 0
      BY Directions
    <3>3. RowDiff(m) * ColDiff(m) = 0
      BY <3>1, <3>2
    <3> QED
      BY <1>1, <2>2, <3>3 DEF RookReaches
  <2> QED
    BY <2>1, <2>2
<1>5. BishopReaches(a, m) <=> \E d \in Rules!Diagonal : t \in Rules!Ray(men, s, d)
  <2>1. ASSUME BishopReaches(a, m)
        PROVE  \E d \in Rules!Diagonal : t \in Rules!Ray(men, s, d)
    BY <1>2, <1>3, <2>1 DEF BishopReaches
  <2>2. ASSUME NEW d \in Rules!Diagonal, t \in Rules!Ray(men, s, d)
        PROVE  BishopReaches(a, m)
    <3>1. PICK k \in 1 .. 7 : RowDiff(m) = k * d[1] /\ ColDiff(m) = k * d[2]
      BY <1>1, <2>2
    <3>2. d[1] \in {-1, 1} /\ d[2] \in {-1, 1}
      BY Directions
    <3>3. Abs(RowDiff(m)) = k /\ Abs(ColDiff(m)) = k
      BY <3>1, <3>2 DEF Abs
    <3> QED
      BY <1>1, <2>2, <3>3 DEF BishopReaches
  <2> QED
    BY <2>1, <2>2
<1> QED
  BY <1>4, <1>5 DEF m

\* Steps of a knight, a king and a pawn that takes.
LEMMA StepsAreSteps ==
  ASSUME NEW s \in Squares, NEW t \in Squares, s # t, NEW promotion,
         NEW men, NEW man, men[s] = man
  PROVE  LET m == MoveOf(s, t, promotion)
         IN  /\ man.type = KNIGHT =>
                  (KnightReaches(m) <=> t \in Rules!Attacks(men, s))
             /\ man.type = KING => (KingSteps(m) <=> t \in Rules!Attacks(men, s))
             /\ man.type = PAWN =>
                  (/\ Abs(ColDiff(m)) = 1
                   /\ RowDiff(m) = Direction(man.player)
                   <=> t \in Rules!Attacks(men, s))
<1> DEFINE m == MoveOf(s, t, promotion)
           rd == t[1] - s[1]
           cd == t[2] - s[2]
<1>1. /\ s = <<s[1], s[2]>> /\ t = <<t[1], t[2]>>
      /\ s[1] \in 0 .. 7 /\ s[2] \in 0 .. 7 /\ t[1] \in 0 .. 7 /\ t[2] \in 0 .. 7
  BY DEF Squares, Coord
<1>2. RowDiff(m) = rd /\ ColDiff(m) = cd
  BY DEF MoveOf, RowDiff, ColDiff
<1>3. rd \in -7 .. 7 /\ cd \in -7 .. 7 /\ (rd # 0 \/ cd # 0)
  BY <1>1
<1>4. \A x, y \in -2 .. 2, k \in {1, 2} :
        t = Rules!Plus(s, <<x, y>>, k) <=> rd = k * x /\ cd = k * y
  BY <1>1 DEF Rules!Plus
<1>5. ASSUME man.type = KNIGHT
      PROVE  KnightReaches(m) <=> t \in Rules!Attacks(men, s)
  <2> DEFINE far == {-2, -1, 1, 2}
  <2>1. Rules!Attacks(men, s) =
          {Rules!Plus(s, <<dr, dc>>, 1) : dr \in far, dc \in far}
            \ {Rules!Plus(s, d, k) : d \in Rules!Diagonal, k \in {1, 2}}
    BY <1>5, SameNames, MenAreNumbers DEF Rules!Attacks
  <2> DEFINE jumps == {Rules!Plus(s, <<dr, dc>>, 1) : dr \in far, dc \in far}
  <2>2. t \in jumps <=> rd \in far /\ cd \in far
    <3>1. \A x, y \in far : t = Rules!Plus(s, <<x, y>>, 1) <=> rd = x /\ cd = y
      BY <1>4
    <3> HIDE DEF rd, cd
    <3>2. t \in jumps <=> \E x, y \in far : t = Rules!Plus(s, <<x, y>>, 1)
      OBVIOUS
    <3> HIDE DEF far, jumps
    <3>3. ASSUME rd \in far, cd \in far
          PROVE  \E x, y \in far : t = Rules!Plus(s, <<x, y>>, 1)
      BY <3>1, <3>3
    <3> QED
      BY <3>1, <3>2, <3>3
  <2>3. t \in {Rules!Plus(s, d, k) : d \in Rules!Diagonal, k \in {1, 2}} <=>
          rd \in far /\ (rd = cd \/ rd = -cd)
    <3>1. t \in {Rules!Plus(s, d, k) : d \in Rules!Diagonal, k \in {1, 2}} <=>
            \E x, y \in {-1, 1}, k \in {1, 2} : t = Rules!Plus(s, <<x, y>>, k)
      BY DEF Rules!Diagonal
    <3>2. \A x, y \in {-1, 1}, k \in {1, 2} :
            t = Rules!Plus(s, <<x, y>>, k) <=> rd = k * x /\ cd = k * y
      BY <1>4
    <3>3. (\E x, y \in {-1, 1}, k \in {1, 2} : rd = k * x /\ cd = k * y) <=>
             rd \in far /\ (rd = cd \/ rd = -cd)
      <4>1. (\E x, y \in {-1, 1}, k \in {1, 2} : rd = k * x /\ cd = k * y) <=>
              \/ rd \in {-1, 1} /\ cd \in {-1, 1}
              \/ rd \in {-2, 2} /\ cd \in {-2, 2}
        <5> HIDE DEF rd, cd
        <5> QED
          OBVIOUS
      <4> HIDE DEF rd, cd
      <4> QED
        BY <1>3, <4>1
    <3> QED
      BY <3>1, <3>2, <3>3
  <2>4. KnightReaches(m) <=> {Abs(rd), Abs(cd)} = {1, 2}
    BY <1>2 DEF KnightReaches
  <2> HIDE DEF rd, cd
  <2>5. {Abs(rd), Abs(cd)} = {1, 2} <=>
          rd \in far /\ cd \in far /\ ~(rd = cd \/ rd = -cd)
    BY <1>3 DEF Abs
  <2> QED
    BY <2>1, <2>2, <2>3, <2>4, <2>5
<1>6. ASSUME man.type = KING
      PROVE  KingSteps(m) <=> t \in Rules!Attacks(men, s)
  <2>1. t \in Rules!Attacks(men, s) <=>
          \E d \in Rules!Straight \cup Rules!Diagonal : t = Rules!Plus(s, d, 1)
    BY <1>6, SameNames, MenAreNumbers DEF Rules!Attacks
  <2>2. t \in Rules!Attacks(men, s) <=>
          \E x, y \in {-1, 0, 1} : (x # 0 \/ y # 0) /\ t = Rules!Plus(s, <<x, y>>, 1)
    BY <2>1 DEF Rules!Straight, Rules!Diagonal
  <2>3. \A x, y \in {-1, 0, 1} :
          t = Rules!Plus(s, <<x, y>>, 1) <=> rd = x /\ cd = y
    BY <1>4
  <2>4. KingSteps(m) <=> rd \in {-1, 0, 1} /\ cd \in {-1, 0, 1}
    BY <1>2, <1>3 DEF KingSteps, Abs
  <2> HIDE DEF rd, cd
  <2> QED
    BY <1>3, <2>2, <2>3, <2>4
<1>7. ASSUME man.type = PAWN
      PROVE  /\ Abs(ColDiff(m)) = 1
             /\ RowDiff(m) = Direction(man.player)
             <=> t \in Rules!Attacks(men, s)
  <2>1. t \in Rules!Attacks(men, s) <=>
          \E y \in {-1, 1} : t = Rules!Plus(s, <<Direction(man.player), y>>, 1)
    <3>1. t \in Rules!Attacks(men, s) <=>
            \E y \in {-1, 1} :
              t = Rules!Plus(s, <<Rules!Forward(men[s].player), y>>, 1)
      BY <1>7, SameNames, MenAreNumbers DEF Rules!Attacks
    <3>2. Rules!Forward(man.player) = Direction(man.player)
      BY SameNames
    <3> QED
      BY <3>1, <3>2
  <2>2. Direction(man.player) \in {-1, 1}
    BY DEF Direction
  <2>3. \A y \in {-1, 1} :
          t = Rules!Plus(s, <<Direction(man.player), y>>, 1) <=>
            rd = Direction(man.player) /\ cd = y
    BY <1>4, <2>2
  <2>4. Abs(cd) = 1 <=> cd \in {-1, 1}
    BY <1>3 DEF Abs
  <2> HIDE DEF rd, cd
  <2> QED
    BY <1>2, <2>1, <2>3, <2>4
<1> QED
  BY <1>5, <1>6, <1>7 DEF m

\* The pieces go where they attack.
LEMMA ReachesIsAttacks ==
  ASSUME NEW a, NEW men, NEW s \in Squares, NEW t \in Squares, s # t,
         NEW promotion, DOMAIN a \ {t} = DOMAIN men \ {t},
         a[s].type = men[s].type, a[s].type \in PieceTypes \ {PAWN}
  PROVE  Reaches(a, MoveOf(s, t, promotion)) <=> t \in Rules!Attacks(men, s)
<1> DEFINE m == MoveOf(s, t, promotion)
           type == men[s].type
<1>1. From(m) = s
  BY DEF MoveOf, From, Squares
<1>2. /\ RookReaches(a, m) <=> \E d \in Rules!Straight : t \in Rules!Ray(men, s, d)
      /\ BishopReaches(a, m) <=> \E d \in Rules!Diagonal : t \in Rules!Ray(men, s, d)
  BY SlidesAreRays
<1>3. /\ type = KNIGHT => (KnightReaches(m) <=> t \in Rules!Attacks(men, s))
      /\ type = KING => (KingSteps(m) <=> t \in Rules!Attacks(men, s))
  BY StepsAreSteps
<1> HIDE DEF m
<1>4. Reaches(a, m) <=>
        \/ type \in {ROOK, QUEEN} /\ RookReaches(a, m)
        \/ type \in {BISHOP, QUEEN} /\ BishopReaches(a, m)
        \/ type = KNIGHT /\ KnightReaches(m)
        \/ type = KING /\ KingSteps(m)
  BY <1>1 DEF Reaches
<1>5. type \in {ROOK, BISHOP, QUEEN} =>
        (t \in Rules!Attacks(men, s) <=>
           \E d \in Rules!Slides(type) : t \in Rules!Ray(men, s, d))
  BY SameNames, MenAreNumbers DEF Rules!Attacks
<1>6. /\ type = ROOK => Rules!Slides(type) = Rules!Straight
      /\ type = BISHOP => Rules!Slides(type) = Rules!Diagonal
      /\ type = QUEEN => Rules!Slides(type) = Rules!Straight \cup Rules!Diagonal
  BY SameNames, MenAreNumbers DEF Rules!Slides
<1>7. type \in {ROOK, KNIGHT, BISHOP, QUEEN, KING}
  BY MenAreNumbers DEF PieceTypes
<1>8. CASE type = KNIGHT \/ type = KING
  BY <1>3, <1>4, <1>8, MenAreNumbers DEF m
<1>9. CASE type = ROOK
  BY <1>2, <1>4, <1>5, <1>6, <1>9, MenAreNumbers DEF m
<1>10. CASE type = BISHOP
  BY <1>2, <1>4, <1>5, <1>6, <1>10, MenAreNumbers DEF m
<1>11. CASE type = QUEEN
  BY <1>2, <1>4, <1>5, <1>6, <1>11, MenAreNumbers DEF m
<1> QED
  BY <1>7, <1>8, <1>9, <1>10, <1>11 DEF m

-----------------------------------------------------------------------------
(* What other men change of an attack. *)
\* Fewer men on the board see no less.
LEMMA FewerMenSeeMore ==
  ASSUME NEW men, NEW fewer, DOMAIN fewer \subseteq DOMAIN men,
         NEW x, fewer[x] = men[x]
  PROVE  Rules!Attacks(men, x) \subseteq Rules!Attacks(fewer, x)
<1>1. \A d : Rules!Ray(men, x, d) \subseteq Rules!Ray(fewer, x, d)
  BY DEF Rules!Ray
<1>2. UNION {Rules!Ray(men, x, d) : d \in Rules!Slides(men[x].type)}
        \subseteq UNION {Rules!Ray(fewer, x, d) : d \in Rules!Slides(men[x].type)}
  BY <1>1
<1>3. /\ men[x].type = Rules!PAWN => Rules!Attacks(men, x) = Rules!Attacks(fewer, x)
      /\ men[x].type = Rules!KNIGHT => Rules!Attacks(men, x) = Rules!Attacks(fewer, x)
      /\ men[x].type = Rules!KING => Rules!Attacks(men, x) = Rules!Attacks(fewer, x)
  BY SameNames, MenAreNumbers DEF Rules!Attacks
<1>4. ASSUME men[x].type \notin {Rules!PAWN, Rules!KNIGHT, Rules!KING}
      PROVE  /\ Rules!Attacks(men, x) =
                  UNION {Rules!Ray(men, x, d) : d \in Rules!Slides(men[x].type)}
             /\ Rules!Attacks(fewer, x) =
                  UNION {Rules!Ray(fewer, x, d) : d \in Rules!Slides(men[x].type)}
  BY <1>4 DEF Rules!Attacks
<1> QED
  BY <1>2, <1>3, <1>4

\* A queen sees what a pawn in her place would see.
LEMMA QueensSeeMore ==
  ASSUME NEW men, NEW other, NEW x \in Squares, NEW t \in Squares,
         men[x].type = PAWN, men[x].player \in Players, other[x].type = QUEEN,
         t \in Rules!Attacks(men, x)
  PROVE  t \in Rules!Attacks(other, x)
<1> DEFINE fwd == Direction(men[x].player)
<1>1. PICK dc \in {-1, 1} : t = Rules!Plus(x, <<fwd, dc>>, 1)
  BY SameNames, MenAreNumbers DEF Rules!Attacks
<1>2. fwd \in {-1, 1}
  BY DEF Direction
<1> DEFINE d == <<fwd, dc>>
<1>3. d \in Rules!Diagonal
  BY <1>2 DEF Rules!Diagonal
<1> HIDE DEF d
<1>4. t = Rules!Plus(x, d, 1) /\ d \in Rules!Straight \cup Rules!Diagonal
  BY <1>1, <1>3 DEF d
<1>5. t \in Rules!Ray(other, x, d)
  <2>1. \A i \in 1 .. 1 - 1 : Rules!Plus(x, d, i) \notin DOMAIN other
    OBVIOUS
  <2> QED
    BY <1>4, <2>1, RayReaches
<1>6. Rules!Slides(QUEEN) = Rules!Straight \cup Rules!Diagonal
  BY SameNames, MenAreNumbers DEF Rules!Slides
<1>7. Rules!Attacks(other, x) = UNION {Rules!Ray(other, x, e) : e \in Rules!Slides(QUEEN)}
  BY SameNames, MenAreNumbers DEF Rules!Attacks
<1> QED
  BY <1>4, <1>5, <1>6, <1>7

\* Of two kings, each sees the other or neither does, whatever else is there.
LEMMA KingsSeeEachOther ==
  ASSUME NEW men, NEW other, NEW w \in Squares, NEW k \in Squares, w # k,
         men[k].type = KING, other[w].type = KING, w \in Rules!Attacks(men, k)
  PROVE  k \in Rules!Attacks(other, w)
<1> DEFINE there == MoveOf(k, w, EMPTY)
           back  == MoveOf(w, k, EMPTY)
<1>1. KingSteps(there) => KingSteps(back)
  BY DEF KingSteps, MoveOf, RowDiff, ColDiff, Abs, Squares, Coord
<1>2. KingSteps(there) <=> w \in Rules!Attacks(men, k)
  BY StepsAreSteps
<1>3. KingSteps(back) <=> k \in Rules!Attacks(other, w)
  BY StepsAreSteps
<1> QED
  BY <1>1, <1>2, <1>3

-----------------------------------------------------------------------------
(* Attacks and checks. *)
\* What the rules see of a board is where its men stand, and whose they are.
LEMMA MenOfBoard ==
  ASSUME NEW b
  PROVE  /\ DOMAIN MenOf(b) = DOMAIN b
         /\ \A s \in DOMAIN b : /\ MenOf(b)[s].type = b[s].type
                                /\ MenOf(b)[s].player = b[s].player
                                /\ MenOf(b)[s] = [type |-> b[s].type, player |-> b[s].player]
  BY DEF MenOf

\* One question of piece_is_attacked(): a man of the other player can go to a
\* square where a man stands, be it only for the question, if he attacks it.
LEMMA AnswerIsAttack ==
  ASSUME NEW g \in EngineGames, NEW square \in Squares, NEW player \in Players,
         square \in DOMAIN g.board => g.board[square].player = player,
         NEW s \in HeldBy(g.board, Opponent(player))
  PROVE  StepReport(Asked(g, square, player), MoveOf(s, square, QUEEN),
                    Opponent(player)).code >= 0
           <=> square \in Rules!Attacks(MenOf(g.board), s)
<1> DEFINE b == g.board
           asked == Asked(g, square, player)
           a == asked.board
           m == MoveOf(s, square, QUEEN)
           men == MenOf(b)
<1>1. /\ DOMAIN b \subseteq Squares /\ b \in [DOMAIN b -> Pieces]
      /\ s \in DOMAIN b /\ s \in Squares /\ b[s].player = Opponent(player)
      /\ b[s] \in Pieces
  BY BoardIs DEF EngineGames, HeldBy
<1>2. /\ s \in Coord \X Coord /\ square \in Coord \X Coord
      /\ From(m) = s /\ To(m) = square
      /\ m.r_i = s[1] /\ m.c_i = s[2] /\ m.r_f = square[1] /\ m.c_f = square[2]
      /\ m.promotion = QUEEN
  BY <1>1 DEF Squares, From, To, MoveOf
<1>3. /\ DOMAIN a = DOMAIN b \cup {square}
      /\ \A t \in DOMAIN b : a[t] = b[t]
      /\ a[square].player = player
  BY DEF Asked, Occupied, With, EngineGames
<1>4. /\ DOMAIN men = DOMAIN b
      /\ men[s].type = b[s].type /\ men[s].player = b[s].player
  BY <1>1, MenOfBoard
<1>5. player # Opponent(player) /\ s # square
  BY <1>1, <1>3 DEF Players, Opponent, WHITE, BLACK
<1> HIDE DEF asked, men, m
<1>6. MayTry(a, m, Opponent(player))
  BY <1>1, <1>2, <1>3, <1>5 DEF MayTry, Occupied
<1>7. a[s] = b[s] /\ a[s].type \in PieceTypes /\ DOMAIN a \ {square} = DOMAIN men \ {square}
  BY <1>1, <1>3, <1>4 DEF Pieces
<1>8. CASE a[s].type = PAWN
  <2>1. StepReport(asked, m, Opponent(player)) = PawnReport(asked, m)
    BY <1>2, <1>6, <1>8 DEF StepReport
  <2>2. ~PawnAdvances(a, m)
    <3> SUFFICES ASSUME PawnAdvances(a, m) PROVE FALSE
      OBVIOUS
    <3> DEFINE dir == Direction(a[s].player)
    <3>1. dir \in {-1, 1}
      BY DEF Direction
    <3>2. /\ ColDiff(m) = 0 /\ <<m.r_i + 1 * dir, m.c_i>> \notin DOMAIN a
          /\ \/ RowDiff(m) = dir
             \/ RowDiff(m) = 2 * dir /\ <<m.r_i + 2 * dir, m.c_i>> \notin DOMAIN a
      BY <1>2 DEF PawnAdvances, Occupied
    <3> HIDE DEF dir
    <3>3. m.c_f = m.c_i /\ (m.r_f = m.r_i + 1 * dir \/ m.r_f = m.r_i + 2 * dir)
      BY <1>2, <3>1, <3>2 DEF RowDiff, ColDiff, Coord
    <3>4. <<m.r_f, m.c_f>> = square /\ square \in DOMAIN a
      BY <1>2, <1>3
    <3> QED
      BY <1>2, <3>1, <3>2, <3>3, <3>4 DEF RowDiff, Coord
  <2>3. PawnTakes(asked, m) <=>
          Abs(ColDiff(m)) = 1 /\ RowDiff(m) = Direction(a[s].player)
    BY <1>2, <1>3 DEF PawnTakes, Occupied
  <2>4. PawnReport(asked, m).code >= 0 <=> PawnTakes(asked, m)
    BY <1>2, <2>2, Numbers DEF PawnReport, Rejected, Report
  <2>5. /\ Abs(ColDiff(m)) = 1 /\ RowDiff(m) = Direction(men[s].player)
        <=> square \in Rules!Attacks(men, s)
    BY <1>1, <1>4, <1>5, <1>7, <1>8, StepsAreSteps DEF m
  <2> QED
    BY <1>4, <1>7, <2>1, <2>3, <2>4, <2>5 DEF asked, men, m
<1>9. CASE a[s].type # PAWN
  <2>1. StepReport(asked, m, Opponent(player)).code >= 0 <=> Reaches(a, m)
    BY <1>2, <1>6, <1>9, Numbers DEF StepReport, Rejected, Report
  <2>2. Reaches(a, m) <=> square \in Rules!Attacks(men, s)
    <3>1. a[s].type = men[s].type /\ a[s].type \in PieceTypes \ {PAWN}
      BY <1>4, <1>7, <1>9
    <3> QED
      BY <1>1, <1>5, <1>7, <3>1, ReachesIsAttacks DEF m
  <2> QED
    BY <2>1, <2>2 DEF asked, men, m
<1> QED
  BY <1>8, <1>9

\* piece_is_attacked() gives the answer of the rules.
LEMMA AttackIsAttacked ==
  ASSUME NEW g \in EngineGames, NEW square \in Squares, NEW player \in Players,
         square \in DOMAIN g.board => g.board[square].player = player
  PROVE  Attack(g, square, player).attacked
           <=> Rules!Attacked(MenOf(g.board), square, Opponent(player))
<1> DEFINE attackers ==
             {s \in HeldBy(g.board, Opponent(player)) :
                StepReport(Asked(g, square, player), MoveOf(s, square, QUEEN),
                           Opponent(player)).code >= 0}
           men == MenOf(g.board)
<1>1. Attack(g, square, player).attacked <=> attackers # {}
  BY DEF Attack
<1>2. \A s \in HeldBy(g.board, Opponent(player)) :
        s \in attackers <=> square \in Rules!Attacks(men, s)
  BY AnswerIsAttack
<1>3. \A s : s \in HeldBy(g.board, Opponent(player)) <=>
               s \in DOMAIN men /\ men[s].player = Opponent(player)
  BY MenOfBoard DEF HeldBy
<1>4. attackers \subseteq HeldBy(g.board, Opponent(player))
  OBVIOUS
<1> HIDE DEF attackers, men
<1>5. attackers # {} <=>
        \E s \in DOMAIN men : /\ men[s].player = Opponent(player)
                              /\ square \in Rules!Attacks(men, s)
  BY <1>2, <1>3, <1>4
<1> QED
  BY <1>1, <1>5 DEF Rules!Attacked, men

\* is_in_check() gives the answer of the rules to a player with one king.
LEMMA CheckIsInCheck ==
  ASSUME NEW g \in EngineGames, NEW player \in Players,
         NEW k, KingsOf(MenOf(g.board), player) = {k}
  PROVE  CheckOn(g, player).attacked <=> Rules!InCheck(MenOf(g.board), player)
<1> DEFINE kings == {s \in HeldBy(g.board, player) : g.board[s].type = KING}
           men == MenOf(g.board)
<1>1. \A s : s \in kings <=> s \in DOMAIN men /\ men[s] = [type |-> KING, player |-> player]
  <2>1. \A s \in DOMAIN men :
          men[s] = [type |-> KING, player |-> player] <=>
            g.board[s].type = KING /\ g.board[s].player = player
    <3>1. \A s \in DOMAIN men :
            men[s] = [type |-> g.board[s].type, player |-> g.board[s].player]
      BY DEF MenOf
    <3> HIDE DEF men
    <3> QED
      BY <3>1
  <2>2. DOMAIN men = DOMAIN g.board
    BY MenOfBoard
  <2> HIDE DEF men
  <2> QED
    BY <2>1, <2>2 DEF HeldBy
<1>2. \A s : s = k <=>
             s \in DOMAIN men /\ men[s] = [type |-> KING, player |-> player]
  BY DEF KingsOf
<1>3. kings = {k}
  BY <1>1, <1>2
<1>4. Rules!InCheck(men, player) <=> Rules!Attacked(men, k, Opponent(player))
  <2>1. Rules!InCheck(men, player) <=>
          \E s \in DOMAIN men : /\ men[s] = [type |-> KING, player |-> player]
                                /\ Rules!Attacked(men, s, Opponent(player))
    BY SameNames DEF Rules!InCheck
  <2> HIDE DEF men
  <2> QED
    BY <1>2, <2>1
<1>5. FirstOf(kings) = k
  <2>1. k \in Squares
    BY <1>3, BoardIs DEF EngineGames, HeldBy
  <2>2. Before(k, k)
    BY <2>1 DEF Before, Squares, Coord
  <2> QED
    BY <1>3, <2>2 DEF FirstOf
<1>6. /\ k \in Squares /\ g.board[k].player = player
  BY <1>3, BoardIs DEF EngineGames, HeldBy
<1>7. CheckOn(g, player) = Attack(g, k, player)
  BY <1>3, <1>5 DEF CheckOn
<1> QED
  BY <1>4, <1>6, <1>7, AttackIsAttacked

-----------------------------------------------------------------------------
(* Games and the positions they mirror. *)
\* The man on s, one of the player whose king is on w, cannot leave his square:
\* somebody else than the king on k would then see w.
Tied(men, s, w, k) ==
  /\ s # w
  /\ \E x \in DOMAIN men \ {k} :
       /\ men[x].player # men[s].player
       /\ w \in Rules!Attacks(Without(men, {s}), x)

\* Both players have their king, and nobody can take one.  A rejected promotion
\* may have left the player whose turn it is a man that sees the opponent's
\* king, but such a man is tied.
KingsAreKept(men, turn) ==
  /\ \A player \in Players : \E k \in Squares : KingsOf(men, player) = {k}
  /\ \A w \in KingsOf(men, turn), k \in KingsOf(men, Opponent(turn)),
        s \in DOMAIN men :
       men[s].player = turn /\ k \in Rules!Attacks(men, s) => Tied(men, s, w, k)

\* The position p of Chess is the engine's game g.  This is all that the rules
\* and the engine have to share for their judgements to be the same: `moves'
\* and `last_move' stand for the rights to castle and for the skipped square.
Mirrors(g, p) ==
  /\ MenOf(g.board) = p.men /\ GetPlayer(g) = p.turn
  /\ p.rights = RightsOf(g.board)
  /\ {<<s[1] + Direction(p.turn), s[2]>> : s \in JustPassed(g)} = {p.skipped} \ {None}
  /\ p.skipped \notin DOMAIN p.men
  /\ KingsAreKept(p.men, p.turn)
  /\ PastIsInOrder(g)

\* What a mirrored board is made of.
LEMMA MirroredBoard ==
  ASSUME NEW g \in EngineGames, NEW p, Mirrors(g, p)
  PROVE  /\ DOMAIN g.board \subseteq Squares /\ g.board \in [DOMAIN g.board -> Pieces]
         /\ AtHome(g.board) /\ PastIsInOrder(g)
         /\ p.turn = GetPlayer(g) /\ p.turn \in Players
         /\ p.men = MenOf(g.board) /\ DOMAIN p.men = DOMAIN g.board
         /\ \A s \in DOMAIN g.board : /\ g.board[s] \in Pieces
                                      /\ p.men[s].type = g.board[s].type
                                      /\ p.men[s].player = g.board[s].player
<1>1. /\ DOMAIN g.board \subseteq Squares /\ g.board \in [DOMAIN g.board -> Pieces]
      /\ AtHome(g.board) /\ PastIsInOrder(g)
  BY BoardIs DEF EngineGames, Mirrors
<1>2. /\ p.turn = GetPlayer(g) /\ p.turn \in Players /\ p.men = MenOf(g.board)
  BY DEF Mirrors, GetPlayer, Players
<1>3. DOMAIN p.men = DOMAIN g.board
  BY <1>2, MenOfBoard
<1>4. \A s \in DOMAIN g.board : /\ p.men[s].type = g.board[s].type
                                /\ p.men[s].player = g.board[s].player
  BY <1>2 DEF MenOf
<1>5. \A s \in DOMAIN g.board : g.board[s] \in Pieces
  BY <1>1
<1> QED
  BY <1>1, <1>2, <1>3, <1>4, <1>5

\* A move on the board goes from a square to a square.
LEMMA MoveSquares ==
  ASSUME NEW m \in MoveSet
  PROVE  /\ From(m) \in Squares /\ To(m) \in Squares
         /\ From(m) = <<m.r_i, m.c_i>> /\ To(m) = <<m.r_f, m.c_f>>
         /\ From(m)[1] = m.r_i /\ From(m)[2] = m.c_i
         /\ To(m)[1] = m.r_f /\ To(m)[2] = m.c_f
         /\ m.r_i \in 0 .. 7 /\ m.c_i \in 0 .. 7 /\ m.r_f \in 0 .. 7 /\ m.c_f \in 0 .. 7
         /\ m = MoveOf(From(m), To(m), m.promotion)
  BY DEF MoveSet, From, To, Squares, Coord, MoveOf

\* A pawn that may be taken in passing is beside the square that it skipped.
LEMMA PassingIsSkipped ==
  ASSUME NEW g \in EngineGames, NEW p, Mirrors(g, p), NEW m \in MoveSet,
         From(m) \in DOMAIN g.board, g.board[From(m)].player = p.turn,
         Abs(ColDiff(m)) = 1, RowDiff(m) = Direction(p.turn)
  PROVE  EnPessant(g, m) <=> To(m) = p.skipped
<1> DEFINE b == g.board
           t == Pessant(m)
           dir == Direction(p.turn)
<1>1. /\ DOMAIN b \subseteq Squares /\ p.turn = GetPlayer(g) /\ p.turn \in Players
      /\ DOMAIN p.men = DOMAIN b
  BY MirroredBoard
<1>2. /\ m.r_i \in 0 .. 7 /\ m.c_i \in 0 .. 7 /\ m.r_f \in 0 .. 7 /\ m.c_f \in 0 .. 7
      /\ To(m) = <<m.r_f, m.c_f>> /\ To(m) \in Squares
  BY MoveSquares
<1>3. dir \in {-1, 1} /\ m.r_f = m.r_i + dir
  BY <1>2 DEF Direction, RowDiff
<1>4. t = <<m.r_i, m.c_f>> /\ t[1] = m.r_i /\ t[2] = m.c_f
  BY DEF Pessant
<1>5. EnPessant(g, m) <=> To(m) \notin DOMAIN b /\ t \in JustPassed(g)
  <2>1. t \in JustPassed(g) <=>
          /\ t \in DOMAIN b /\ b[t].player = Opponent(p.turn)
          /\ b[t].type = PAWN /\ b[t].moves = 1
          /\ b[t].last_move = g.duration
          /\ m.r_i = (IF p.turn = WHITE THEN 3 ELSE 4)
    BY <1>1, <1>4 DEF JustPassed, HeldBy
  <2>2. t \in DOMAIN b => (b[t].player # p.turn <=> b[t].player = Opponent(p.turn))
    BY <1>1, MirroredBoard DEF Pieces, Players, Opponent, WHITE, BLACK
  <2>3. EnPessant(g, m) <=>
          /\ To(m) \notin DOMAIN b /\ t \in DOMAIN b
          /\ b[t].type = PAWN /\ b[t].player # p.turn /\ b[t].moves = 1
          /\ m.r_i = (IF p.turn = WHITE THEN 3 ELSE 4)
          /\ b[t].last_move = g.duration
    BY DEF EnPessant, Occupied
  <2> HIDE DEF t
  <2> QED
    BY <2>1, <2>2, <2>3
<1> DEFINE behind == {<<s[1] + dir, s[2]>> : s \in JustPassed(g)}
<1>6. behind = {p.skipped} \ {None} /\ p.skipped \notin DOMAIN b
  BY <1>1 DEF Mirrors
<1>7. \A s \in JustPassed(g) :
        s = <<s[1], s[2]>> /\ s[1] \in Int /\ s[2] \in Int
  BY <1>1 DEF JustPassed, HeldBy, Squares, Coord
<1>8. To(m) \in behind <=> t \in JustPassed(g)
  <2>1. ASSUME t \in JustPassed(g) PROVE To(m) \in behind
    BY <1>2, <1>3, <1>4, <2>1
  <2>2. ASSUME To(m) \in behind PROVE t \in JustPassed(g)
    <3>1. PICK s \in JustPassed(g) : To(m) = <<s[1] + dir, s[2]>>
      BY <2>2
    <3> HIDE DEF dir
    <3>2. s[1] = m.r_i /\ s[2] = m.c_f
      BY <1>2, <1>3, <1>7, <3>1
    <3> QED
      BY <1>4, <1>7, <3>2
  <2> QED
    BY <2>1, <2>2
<1>9. To(m) # None
  BY <1>2 DEF None
<1> HIDE DEF behind
<1> QED
  BY <1>5, <1>6, <1>8, <1>9

\* The rules of a move, but for the king that it may uncover.
Pseudo(p, m) ==
  /\ Rules!Source(m) \in DOMAIN p.men
  /\ p.men[Rules!Source(m)].player = p.turn
  /\ Rules!Target(m) \in Rules!Reachable(p, Rules!Source(m)) \cap Rules!Board
  /\ Rules!Target(m) \in DOMAIN p.men => p.men[Rules!Target(m)].player # p.turn
  /\ p.men[Rules!Source(m)].type = Rules!PAWN
       /\ m.r_f = Rules!Home(Rules!Opponent(p.turn)) =>
       m.promotion \in Rules!Promotions

\* A pawn's steps.
LEMMA PawnSteps ==
  ASSUME NEW g \in EngineGames, NEW p, Mirrors(g, p), NEW m \in MoveSet,
         From(m) \in DOMAIN g.board, g.board[From(m)].player = p.turn,
         g.board[From(m)].type = PAWN, From(m) # To(m)
  PROVE  PawnAdvances(g.board, m) \/ PawnTakes(g, m) <=>
           To(m) \in Rules!PawnMoves(p, From(m))
<1> DEFINE b == g.board
           s == From(m)
           t == To(m)
           dir == Direction(p.turn)
           one == Rules!Plus(s, <<dir, 0>>, 1)
           two == Rules!Plus(s, <<dir, 0>>, 2)
<1>1. /\ DOMAIN b \subseteq Squares /\ p.turn \in Players /\ DOMAIN p.men = DOMAIN b
      /\ b[s] \in Pieces /\ AtHome(b) /\ PastIsInOrder(g)
      /\ p.men[s].type = PAWN /\ p.men[s].player = p.turn
  BY MirroredBoard
<1>2. /\ m.r_i \in 0 .. 7 /\ m.c_i \in 0 .. 7 /\ m.r_f \in 0 .. 7 /\ m.c_f \in 0 .. 7
      /\ t = <<m.r_f, m.c_f>> /\ t \in Squares
      /\ s = <<m.r_i, m.c_i>> /\ s \in Squares /\ s[1] = m.r_i /\ s[2] = m.c_i
      /\ m = MoveOf(s, t, m.promotion)
  BY MoveSquares
<1>3. dir \in {-1, 1}
  BY DEF Direction
<1>4. one = <<m.r_i + dir, m.c_i>> /\ two = <<m.r_i + 2 * dir, m.c_i>>
  BY <1>2, <1>3 DEF Rules!Plus
<1>5. b[s].moves = 0 <=> m.r_i = Rules!PawnHome(p.turn)
  <2>1. b[s].moves = 0 => m.r_i = Rules!PawnHome(p.turn)
    <3>1. Home(b[s]) = {IF p.turn = WHITE THEN 6 ELSE 1} \X Coord
      BY Numbers DEF Home
    <3> QED
      BY <1>1, <1>2, <3>1, SameNames, HomeOf, Numbers DEF Rules!PawnHome
  <2>2. b[s].moves # 0 => IF p.turn = WHITE THEN m.r_i < 6 ELSE m.r_i > 1
    BY <1>1, <1>2 DEF PastIsInOrder
  <2> QED
    BY <1>2, <2>1, <2>2, SameNames DEF Rules!PawnHome
<1>6. PawnAdvances(b, m) <=>
        \/ t = one /\ one \notin DOMAIN b
        \/ /\ t = two /\ one \notin DOMAIN b /\ two \notin DOMAIN b
           /\ m.r_i = Rules!PawnHome(p.turn)
  <2>1. PawnAdvances(b, m) <=>
          /\ ColDiff(m) = 0
          /\ <<m.r_i + 1 * dir, m.c_i>> \notin DOMAIN b
          /\ \/ RowDiff(m) = dir
             \/ /\ RowDiff(m) = 2 * dir
                /\ <<m.r_i + 2 * dir, m.c_i>> \notin DOMAIN b
                /\ b[s].moves = 0
    BY DEF PawnAdvances, Occupied
  <2>2. /\ ColDiff(m) = 0 /\ RowDiff(m) = dir <=> t = one
        /\ ColDiff(m) = 0 /\ RowDiff(m) = 2 * dir <=> t = two
        /\ m.r_i + 1 * dir = m.r_i + dir
    BY <1>2, <1>3, <1>4 DEF RowDiff, ColDiff
  <2> HIDE DEF one, two, dir, s, t
  <2> QED
    BY <1>4, <1>5, <2>1, <2>2 DEF s
<1>7. Abs(ColDiff(m)) = 1 /\ RowDiff(m) = dir <=> t \in Rules!Attacks(p.men, s)
  BY <1>1, <1>2, StepsAreSteps
<1>8. PawnTakes(g, m) <=>
        t \in Rules!Attacks(p.men, s) /\ (t \in DOMAIN b \/ t = p.skipped)
  BY <1>7, PassingIsSkipped DEF PawnTakes, Occupied
<1>9. t \in Rules!PawnMoves(p, s) <=>
        \/ t = one /\ one \notin DOMAIN b
        \/ /\ t = two /\ one \notin DOMAIN b /\ two \notin DOMAIN b
           /\ m.r_i = Rules!PawnHome(p.turn)
        \/ t \in Rules!Attacks(p.men, s) /\ (t \in DOMAIN b \/ t = p.skipped)
  <2>1. Rules!Forward(p.turn) = dir
    BY SameNames
  <2> HIDE DEF dir
  <2> QED
    BY <1>1, <1>2, <2>1 DEF Rules!PawnMoves
<1> QED
  BY <1>6, <1>8, <1>9

-----------------------------------------------------------------------------
(* Castling. *)
\* Castling on one's own row, with everything that king_is_illegal() asks for:
\* corner is where the rook is, gap what lies between it and the king.
Corner(m) == <<m.r_i, IF m.c_f < m.c_i THEN 0 ELSE 7>>
GapColumns(m) == IF m.c_f < m.c_i THEN 1 .. 3 ELSE 5 .. 6
Side(m) == IF m.c_f < m.c_i THEN -1 ELSE 1
MayCastle(g, m, player) ==
  /\ m.r_i = HomeRow(player) /\ m.c_i = 4 /\ m.r_f = m.r_i /\ m.c_f \in {2, 6}
  /\ g.board[From(m)].moves = 0
  /\ Corner(m) \in DOMAIN g.board
  /\ g.board[Corner(m)].type = ROOK /\ g.board[Corner(m)].moves = 0
  /\ \A c \in GapColumns(m) : <<m.r_i, c>> \notin DOMAIN g.board
  /\ \A k \in 0 .. 2 : ~Attack(g, <<m.r_i, 4 + k * Side(m)>>, player).attacked

\* The rook of a castling that is allowed is in the corner.
LEMMA RookIsInCorner ==
  ASSUME NEW b, DOMAIN b \subseteq Squares, NEW m, m.r_i \in Coord, m.c_i = 4,
         m.c_f \in {2, 6}, Corner(m) \in DOMAIN b,
         \A c \in GapColumns(m) : <<m.r_i, c>> \notin DOMAIN b
  PROVE  RookFor(b, m) = Corner(m)
<1> DEFINE cc == Sign(ColDiff(m))
           end == ScanEnd(b, m, FALSE)
           corner == IF cc = 1 THEN 7 ELSE 0
<1>1. cc = Side(m) /\ cc \in {-1, 1} /\ (cc = 1 <=> m.c_f = 6)
  BY DEF Sign, ColDiff, Side
<1>2. Corner(m) = <<m.r_i, corner>> /\ corner \in Coord /\ (corner - 4) * cc > 0
  BY <1>1 DEF Corner, Coord
<1>3. m.c_i \in Coord /\ m.c_f \in Coord /\ Abs(ColDiff(m)) = 2
  BY DEF Coord, Abs, ColDiff
<1>4. GapColumns(m) = IF cc = 1 THEN 5 .. 6 ELSE 1 .. 3
  BY <1>1 DEF GapColumns
<1>5. /\ end \in -1 .. 9 /\ (end - 4) * cc > 0
      /\ end \in Coord => <<m.r_i, end>> \in DOMAIN b
      /\ \A c \in Coord : <<m.r_i, c>> \in DOMAIN b /\ (c - 4) * cc > 0 =>
           (c - end) * cc >= 0
  BY <1>3, ScanStops
<1> HIDE DEF cc, end, corner
<1>6. (corner - end) * cc >= 0
  BY <1>2, <1>5
<1>7. end \in Coord => end \notin GapColumns(m)
  BY <1>5
<1>8. end = corner
  <2>1. CASE cc = 1
    BY <1>4, <1>5, <1>6, <1>7, <2>1 DEF corner, Coord
  <2>2. CASE cc = -1
    BY <1>4, <1>5, <1>6, <1>7, <2>2 DEF corner, Coord
  <2> QED
    BY <1>1, <2>1, <2>2
<1> QED
  BY <1>2, <1>3, <1>8, PastTheRowIsNoRook DEF end

\* A rook sees who stands next to it in its row.
LEMMA RookSeesAlong ==
  ASSUME NEW men, NEW s \in Squares, NEW rook \in Squares,
         men[rook].type = ROOK, rook[1] = s[1], NEW cc \in {-1, 1},
         (rook[2] - s[2]) * cc > 0,
         \A t \in DOMAIN men :
           t[1] = s[1] /\ (t[2] - s[2]) * cc > 0 => (t[2] - rook[2]) * cc >= 0
  PROVE  s \in Rules!Attacks(men, rook)
<1> DEFINE d == <<0, -cc>>
           k == (rook[2] - s[2]) * cc
<1>1. /\ s = <<s[1], s[2]>> /\ s[1] \in 0 .. 7 /\ s[2] \in 0 .. 7
      /\ rook = <<rook[1], rook[2]>> /\ rook[1] \in 0 .. 7 /\ rook[2] \in 0 .. 7
  BY DEF Squares, Coord
<1>2. k \in 1 .. 7 /\ rook[2] - k * cc = s[2]
  BY <1>1
<1>3. \A i \in 1 .. k : Rules!Plus(rook, d, i) = <<rook[1], rook[2] - i * cc>>
  BY <1>1, <1>2 DEF Rules!Plus
<1>4. s = Rules!Plus(rook, d, k)
  BY <1>1, <1>2, <1>3
<1> HIDE DEF d, k
<1>5. ASSUME NEW i \in 1 .. k - 1
      PROVE  Rules!Plus(rook, d, i) \notin DOMAIN men
  <2> DEFINE t == Rules!Plus(rook, d, i)
  <2>1. t[1] = s[1] /\ t[2] = rook[2] - i * cc
    BY <1>1, <1>2, <1>3
  <2> HIDE DEF t
  <2>2. (t[2] - s[2]) * cc > 0 /\ ~((t[2] - rook[2]) * cc >= 0)
    BY <1>1, <1>2, <2>1
  <2> QED
    BY <2>1, <2>2 DEF t
<1>6. d \in Rules!Straight
  BY DEF d, Rules!Straight
<1>7. s \in Rules!Ray(men, rook, d)
  BY <1>2, <1>4, <1>5, SameNames DEF Rules!Ray
<1>8. \E e \in Rules!Straight : s \in Rules!Ray(men, rook, e)
  BY <1>6, <1>7
<1>9. /\ s \in Rules!Attacks(men, rook) <=>
           \E e \in Rules!Slides(ROOK) : s \in Rules!Ray(men, rook, e)
      /\ Rules!Slides(ROOK) = Rules!Straight
  BY SameNames, MenAreNumbers DEF Rules!Attacks, Rules!Slides
<1> QED
  BY <1>8, <1>9

\* king_is_illegal() allows exactly that.
LEMMA KingCastles ==
  ASSUME NEW g \in EngineGames, NEW p, Mirrors(g, p), NEW m \in MoveSet,
         From(m) \in DOMAIN g.board, g.board[From(m)].player = p.turn,
         g.board[From(m)].type = KING, ~KingSteps(m)
  PROVE  /\ KingReport(g, m).code >= 0 <=> MayCastle(g, m, p.turn)
         /\ MayCastle(g, m, p.turn) =>
              KingReport(g, m) =
                Report(OK, g.board, None,
                       MoveOf(Corner(m), <<m.r_i, 4 + Side(m)>>, EMPTY))
<1> DEFINE b == g.board
           king == b[From(m)]
           rook == RookFor(b, m)
           cc == Sign(ColDiff(m))
           path == [i \in 0 .. 2 |-> <<m.r_i, m.c_i + i * cc>>]
           attacked == {i \in 0 .. 2 : Attack(g, path[i], p.turn).attacked}
           refused == \/ king.moves # 0 \/ RowDiff(m) # 0 \/ Abs(ColDiff(m)) # 2
                      \/ rook = None
                      \/ b[rook].type # ROOK \/ b[rook].moves # 0
<1>1. /\ DOMAIN b \subseteq Squares /\ AtHome(b) /\ p.turn \in Players
      /\ \A s \in DOMAIN b : b[s] \in Pieces /\ s \in Squares
  BY MirroredBoard
<1>2. /\ m.r_i \in 0 .. 7 /\ m.c_i \in 0 .. 7 /\ m.r_f \in 0 .. 7 /\ m.c_f \in 0 .. 7
      /\ From(m) = <<m.r_i, m.c_i>>
  BY MoveSquares
<1>3. /\ refused \/ attacked # {} => KingReport(g, m).code = ILLEGAL_MOVE
      /\ ~refused /\ attacked = {} =>
           KingReport(g, m) = Report(OK, b, None, MoveOf(rook, path[1], EMPTY))
  BY DEF KingReport, Rejected, Report
<1> HIDE DEF refused, attacked
<1>4. ASSUME ~refused, attacked = {}
      PROVE  MayCastle(g, m, p.turn)
  <2>1. /\ king.moves = 0 /\ RowDiff(m) = 0 /\ Abs(ColDiff(m)) = 2
        /\ rook # None /\ b[rook].type = ROOK /\ b[rook].moves = 0
    BY <1>4 DEF refused
  <2>2. m.r_i = HomeRow(p.turn) /\ m.c_i = 4
    <3>1. CASE From(m) \in Home(king)
      <4>1. Home(king) = {HomeRow(p.turn)} \X {4}
        BY Numbers DEF Home
      <4> QED
        BY <1>2, <3>1, <4>1
    <3>2. CASE MayNotCastle(b, From(m))
      <4>1. /\ cc \in {-1, 1} /\ rook \in DOMAIN b
            /\ rook[1] = m.r_i /\ (rook[2] - m.c_i) * cc > 0
            /\ \A t \in DOMAIN b :
                 t[1] = m.r_i /\ (t[2] - m.c_i) * cc > 0 => (t[2] - rook[2]) * cc >= 0
        BY <1>1, <1>2, <2>1, RookForFinds DEF Coord
      <4> HIDE DEF cc, rook
      <4>2. b[rook].player = Opponent(p.turn)
        BY <1>1, <2>1, <3>2, <4>1
        DEF MayNotCastle, HeldBy, Pieces, Players, Opponent, WHITE, BLACK
      <4>3. /\ p.men = MenOf(b) /\ DOMAIN p.men = DOMAIN b
            /\ p.men[rook].type = ROOK /\ p.men[rook].player = Opponent(p.turn)
        BY <2>1, <4>1, <4>2, MirroredBoard
      <4>4. From(m) \in Rules!Attacks(p.men, rook)
        <5>1. From(m)[1] = m.r_i /\ From(m)[2] = m.c_i
          BY <1>2
        <5> QED
          BY <1>1, <4>1, <4>3, <5>1, RookSeesAlong
      <4>5. Rules!Attacked(p.men, From(m), Opponent(p.turn))
        BY <4>1, <4>3, <4>4 DEF Rules!Attacked
      <4>6. Attack(g, From(m), p.turn).attacked
        BY <1>1, <4>3, <4>5, AttackIsAttacked
      <4>7. path[0] = From(m)
        BY <1>2, <4>1
      <4>8. 0 \in attacked
        BY <4>6, <4>7 DEF attacked
      <4> QED
        BY <1>4, <4>8
    <3> QED
      BY <1>1, <2>1, <3>1, <3>2 DEF AtHome
  <2>3. /\ cc \in {-1, 1} /\ ColDiff(m) = 2 * cc /\ rook \in DOMAIN b
        /\ rook[1] = m.r_i /\ (rook[2] - 4) * cc > 0
        /\ \A t \in DOMAIN b :
             t[1] = m.r_i /\ (t[2] - 4) * cc > 0 => (t[2] - rook[2]) * cc >= 0
    BY <1>1, <1>2, <2>1, <2>2, RookForFinds DEF Coord
  <2>4. /\ m.r_f = m.r_i /\ m.c_f = 4 + 2 * cc
    BY <1>2, <2>1, <2>2, <2>3 DEF RowDiff, ColDiff
  <2>5. /\ cc = Side(m) /\ m.c_f \in {2, 6}
        /\ GapColumns(m) = IF cc = 1 THEN 5 .. 6 ELSE 1 .. 3
        /\ Corner(m) = <<m.r_i, IF cc = 1 THEN 7 ELSE 0>>
    BY <2>2, <2>3, <2>4 DEF Side, GapColumns, Corner
  <2>6. rook[2] \in {0, 7} /\ rook = <<rook[1], rook[2]>>
    <3>1. rook \in Home(b[rook])
      BY <1>1, <2>1, <2>3, HomeOf, Numbers
    <3>2. Home(b[rook]) = {HomeRow(b[rook].player)} \X {0, 7}
      BY <2>1, Numbers DEF Home
    <3> HIDE DEF rook
    <3> QED
      BY <3>1, <3>2
  <2> HIDE DEF cc, rook
  <2>7. rook = Corner(m)
    BY <2>3, <2>5, <2>6
  <2>8. ASSUME NEW c \in GapColumns(m) PROVE <<m.r_i, c>> \notin DOMAIN b
    <3> DEFINE t == <<m.r_i, c>>
    <3>1. t[1] = m.r_i /\ t[2] = c
      OBVIOUS
    <3> HIDE DEF t
    <3>2. CASE cc = 1
      <4>1. rook[2] = 7 /\ c \in 5 .. 6
        BY <2>5, <2>7, <2>8, <3>2
      <4> QED
        BY <2>3, <3>1, <3>2, <4>1 DEF t
    <3>3. CASE cc = -1
      <4>1. rook[2] = 0 /\ c \in 1 .. 3
        BY <2>5, <2>7, <2>8, <3>3
      <4> QED
        BY <2>3, <3>1, <3>3, <4>1 DEF t
    <3> QED
      BY <2>3, <3>2, <3>3
  <2>9. \A k \in 0 .. 2 : ~Attack(g, <<m.r_i, 4 + k * Side(m)>>, p.turn).attacked
    BY <1>4, <2>2, <2>5 DEF attacked
  <2> QED
    BY <2>1, <2>2, <2>3, <2>4, <2>5, <2>7, <2>8, <2>9 DEF MayCastle
<1>5. ASSUME MayCastle(g, m, p.turn)
      PROVE  ~refused /\ attacked = {} /\ rook = Corner(m) /\ cc = Side(m)
  <2>1. rook = Corner(m)
    BY <1>1, <1>2, <1>5, RookIsInCorner DEF MayCastle, Coord
  <2>2. Corner(m) # None
    BY DEF Corner, None
  <2>3. /\ RowDiff(m) = 0 /\ Abs(ColDiff(m)) = 2 /\ cc = Side(m) /\ m.c_i = 4
    <3>1. m.r_f = m.r_i /\ m.c_i = 4 /\ m.c_f \in {2, 6}
      BY <1>5 DEF MayCastle
    <3> QED
      BY <1>2, <3>1 DEF RowDiff, ColDiff, Abs, Sign, Side
  <2>4. attacked = {}
    BY <1>5, <2>3 DEF MayCastle, attacked
  <2> QED
    BY <1>5, <2>1, <2>2, <2>3, <2>4 DEF MayCastle, refused
<1>6. ASSUME MayCastle(g, m, p.turn)
      PROVE  KingReport(g, m) =
               Report(OK, b, None, MoveOf(Corner(m), <<m.r_i, 4 + Side(m)>>, EMPTY))
  <2>1. path[1] = <<m.r_i, 4 + Side(m)>>
    BY <1>5, <1>6 DEF MayCastle, Side
  <2> QED
    BY <1>3, <1>5, <1>6, <2>1
<1>7. KingReport(g, m).code >= 0 <=> MayCastle(g, m, p.turn)
  <2>1. CASE refused \/ attacked # {}
    BY <1>3, <1>5, <2>1, Numbers
  <2>2. CASE ~refused /\ attacked = {}
    BY <1>3, <1>4, <2>2, Numbers DEF Report
  <2> QED
    BY <2>1, <2>2
<1> QED
  BY <1>6, <1>7

\* So do the rules.
LEMMA RulesCastle ==
  ASSUME NEW g \in EngineGames, NEW p, Mirrors(g, p), NEW m \in MoveSet,
         From(m) \in DOMAIN g.board, g.board[From(m)].player = p.turn,
         g.board[From(m)].type = KING
  PROVE  To(m) \in Rules!CastlingMoves(p, From(m)) <=> MayCastle(g, m, p.turn)
<1> DEFINE b == g.board
           home == HomeRow(p.turn)
           May(r) == /\ r \in p.rights /\ r[1] = home /\ From(m) = <<home, 4>>
                     /\ Rules!Gap(p.turn, r) \cap DOMAIN p.men = {}
                     /\ \A k \in 0 .. 2 :
                          ~Rules!Attacked(p.men,
                             Rules!Plus(From(m), <<0, Rules!CastlingStep(r)>>, k),
                             Opponent(p.turn))
           Goal(r) == Rules!Plus(From(m), <<0, Rules!CastlingStep(r)>>, 2)
<1>1. /\ DOMAIN b \subseteq Squares /\ AtHome(b) /\ p.turn \in Players
      /\ DOMAIN p.men = DOMAIN b /\ p.men = MenOf(b)
      /\ \A s \in DOMAIN b : b[s] \in Pieces /\ s \in Squares
  BY MirroredBoard
<1>2. /\ m.r_i \in 0 .. 7 /\ m.c_i \in 0 .. 7 /\ m.r_f \in 0 .. 7 /\ m.c_f \in 0 .. 7
      /\ From(m) = <<m.r_i, m.c_i>> /\ To(m) = <<m.r_f, m.c_f>>
  BY MoveSquares
<1>3. To(m) \in Rules!CastlingMoves(p, From(m)) <=> \E r : May(r) /\ To(m) = Goal(r)
  <2>1. /\ Rules!Home(p.turn) = home
        /\ Rules!Opponent(p.turn) = Opponent(p.turn)
    BY SameNames
  <2>2. Rules!CastlingMoves(p, From(m)) = {Goal(r) : r \in {x \in p.rights : May(x)}}
    BY <2>1, Zenon DEF Rules!CastlingMoves
  <2> HIDE DEF Goal, May
  <2>3. \A r : May(r) => r \in p.rights
    BY DEF May
  <2> QED
    BY <2>2, <2>3
<1>4. home \in {0, 7}
  BY DEF HomeRow
<1>5. \A r : r \in p.rights /\ r[1] = home /\ From(m) = <<home, 4>> <=>
               /\ r \in {<<home, 0>>, <<home, 7>>}
               /\ From(m) = <<home, 4>> /\ b[From(m)].moves = 0
               /\ r \in DOMAIN b /\ b[r].type = ROOK /\ b[r].moves = 0
  <2>1. p.rights = RightsOf(b)
    BY DEF Mirrors
  <2> HIDE DEF home
  <2>2. ASSUME NEW r, r \in p.rights, r[1] = home, From(m) = <<home, 4>>
        PROVE  /\ r \in {<<home, 0>>, <<home, 7>>}
               /\ b[From(m)].moves = 0
               /\ r \in DOMAIN b /\ b[r].type = ROOK /\ b[r].moves = 0
    BY <2>1, <2>2 DEF RightsOf, Occupied
  <2>3. ASSUME NEW r, r \in {<<home, 0>>, <<home, 7>>},
               From(m) = <<home, 4>>, b[From(m)].moves = 0,
               r \in DOMAIN b, b[r].type = ROOK, b[r].moves = 0
        PROVE  r \in p.rights /\ r[1] = home
    <3>1. b[r].player = p.turn
      <4>1. r \in Home(b[r])
        BY <1>1, <2>3, HomeOf, Numbers
      <4>2. Home(b[r]) = {HomeRow(b[r].player)} \X {0, 7}
        BY <2>3, Numbers DEF Home
      <4>3. HomeRow(b[r].player) = HomeRow(p.turn)
        BY <2>3, <4>1, <4>2 DEF home
      <4> QED
        BY <1>1, <2>3, <4>3 DEF HomeRow, Pieces, Players, WHITE, BLACK
    <3> QED
      BY <1>4, <2>1, <2>3, <3>1 DEF RightsOf, Occupied
  <2> QED
    BY <2>2, <2>3
<1>6. ASSUME NEW r \in {<<home, 0>>, <<home, 7>>}, From(m) = <<home, 4>>
      PROVE  /\ To(m) = Goal(r) <=>
                  /\ m.r_f = home
                  /\ m.c_f = IF r[2] = 0 THEN 2 ELSE 6
             /\ \A k \in 0 .. 2 :
                  Rules!Plus(From(m), <<0, Rules!CastlingStep(r)>>, k) =
                    <<home, 4 + k * Rules!CastlingStep(r)>>
             /\ Rules!CastlingStep(r) = IF r[2] = 0 THEN -1 ELSE 1
             /\ Rules!Gap(p.turn, r) =
                  {<<home, c>> : c \in IF r[2] = 0 THEN 1 .. 3 ELSE 5 .. 6}
             /\ r[1] = home
  <2>1. Rules!Home(p.turn) = home
    BY SameNames
  <2>2. Rules!CastlingStep(r) = IF r[2] = 0 THEN -1 ELSE 1
    BY DEF Rules!CastlingStep
  <2>3. Rules!CastlingStep(r) \in {-1, 1}
    BY <2>2
  <2>4. Rules!Gap(p.turn, r) =
          {<<home, c>> : c \in IF r[2] = 0 THEN 1 .. 3 ELSE 5 .. 6}
    BY <2>1 DEF Rules!Gap
  <2>5. \A k \in 0 .. 2 :
          Rules!Plus(From(m), <<0, Rules!CastlingStep(r)>>, k) =
            <<home, 4 + k * Rules!CastlingStep(r)>>
    BY <1>4, <1>6, <2>3 DEF Rules!Plus
  <2> HIDE DEF home
  <2>6. To(m) = Goal(r) <=> /\ m.r_f = home
                            /\ m.c_f = IF r[2] = 0 THEN 2 ELSE 6
    BY <1>2, <2>2, <2>5
  <2>7. r[1] = home
    OBVIOUS
  <2> QED
    BY <2>2, <2>4, <2>5, <2>6, <2>7
<1>7. ASSUME From(m) = <<home, 4>>, m.r_f = home, m.c_f \in {2, 6},
             \A c \in GapColumns(m) : <<home, c>> \notin DOMAIN b,
             NEW k \in 0 .. 2
      PROVE  Attack(g, <<home, 4 + k * Side(m)>>, p.turn).attacked <=>
               Rules!Attacked(p.men, <<home, 4 + k * Side(m)>>, Opponent(p.turn))
  <2> DEFINE square == <<home, 4 + k * Side(m)>>
  <2> HIDE DEF home
  <2>1. m.c_i = 4
    BY <1>2, <1>7
  <2>2. square \in Squares
    BY <1>4 DEF Side, Squares, Coord
  <2>3. square \in DOMAIN b => b[square].player = p.turn
    <3>1. CASE k = 0
      BY <1>7, <3>1 DEF Side
    <3>2. CASE k # 0
      <4>1. 4 + k * Side(m) \in GapColumns(m)
        BY <1>7, <2>1, <3>2 DEF Side, GapColumns
      <4> QED
        BY <1>7, <4>1
    <3> QED
      BY <3>1, <3>2
  <2> HIDE DEF square
  <2> QED
    BY <1>1, <2>2, <2>3, AttackIsAttacked DEF square
<1> DEFINE corner == Corner(m)
<1>8. ASSUME From(m) = <<home, 4>>, m.r_f = home, m.c_f \in {2, 6}
      PROVE  /\ corner = <<home, IF m.c_f = 2 THEN 0 ELSE 7>>
             /\ corner \in {<<home, 0>>, <<home, 7>>} /\ corner[1] = home
             /\ corner[2] = (IF m.c_f = 2 THEN 0 ELSE 7)
             /\ Side(m) = Rules!CastlingStep(corner)
             /\ Rules!Gap(p.turn, corner) = {<<home, c>> : c \in GapColumns(m)}
  <2>1. m.c_i = 4 /\ m.r_i = home
    BY <1>2, <1>8
  <2> HIDE DEF home
  <2>2. corner = <<home, IF m.c_f = 2 THEN 0 ELSE 7>>
    BY <1>8, <2>1 DEF Corner
  <2> HIDE DEF corner
  <2>3. /\ corner \in {<<home, 0>>, <<home, 7>>} /\ corner[1] = home
        /\ corner[2] = (IF m.c_f = 2 THEN 0 ELSE 7)
    BY <2>2
  <2>4. /\ Rules!CastlingStep(corner) = IF corner[2] = 0 THEN -1 ELSE 1
        /\ Rules!Gap(p.turn, corner) =
             {<<home, c>> : c \in IF corner[2] = 0 THEN 1 .. 3 ELSE 5 .. 6}
    BY <1>6, <1>8, <2>3
  <2> QED
    BY <1>8, <2>1, <2>2, <2>3, <2>4 DEF Side, GapColumns
<1>9. ASSUME NEW r, May(r), To(m) = Goal(r)
      PROVE  MayCastle(g, m, p.turn)
  <2>1. /\ r \in {<<home, 0>>, <<home, 7>>}
        /\ From(m) = <<home, 4>> /\ b[From(m)].moves = 0
        /\ r \in DOMAIN b /\ b[r].type = ROOK /\ b[r].moves = 0
    BY <1>5, <1>9
  <2>2. /\ m.r_f = home /\ m.c_f = (IF r[2] = 0 THEN 2 ELSE 6)
        /\ \A k \in 0 .. 2 :
             Rules!Plus(From(m), <<0, Rules!CastlingStep(r)>>, k) =
               <<home, 4 + k * Rules!CastlingStep(r)>>
    BY <1>6, <1>9, <2>1
  <2>3. m.r_i = home /\ m.c_i = 4 /\ m.c_f \in {2, 6}
    BY <1>2, <2>1, <2>2
  <2>4. r = corner
    BY <1>8, <2>1, <2>2, <2>3
  <2>5. /\ Side(m) = Rules!CastlingStep(r)
        /\ Rules!Gap(p.turn, r) = {<<home, c>> : c \in GapColumns(m)}
    BY <1>8, <2>1, <2>2, <2>3, <2>4
  <2>6. \A c \in GapColumns(m) : <<home, c>> \notin DOMAIN b
    BY <1>1, <1>9, <2>5
  <2>7. ASSUME NEW k \in 0 .. 2
        PROVE  ~Attack(g, <<home, 4 + k * Side(m)>>, p.turn).attacked
    <3>1. ~Rules!Attacked(p.men, <<home, 4 + k * Side(m)>>, Opponent(p.turn))
      BY <1>9, <2>2, <2>5
    <3> QED
      BY <1>7, <2>1, <2>2, <2>3, <2>6, <3>1
  <2> HIDE DEF home
  <2> QED
    BY <2>1, <2>2, <2>3, <2>4, <2>6, <2>7 DEF MayCastle, home
<1>10. ASSUME MayCastle(g, m, p.turn)
       PROVE  May(corner) /\ To(m) = Goal(corner)
  <2>1. /\ From(m) = <<home, 4>> /\ m.r_i = home /\ m.r_f = home
        /\ m.c_f \in {2, 6} /\ b[From(m)].moves = 0
        /\ corner \in DOMAIN b /\ b[corner].type = ROOK /\ b[corner].moves = 0
        /\ \A c \in GapColumns(m) : <<home, c>> \notin DOMAIN b
        /\ \A k \in 0 .. 2 : ~Attack(g, <<home, 4 + k * Side(m)>>, p.turn).attacked
    BY <1>2, <1>10 DEF MayCastle
  <2>2. /\ corner \in {<<home, 0>>, <<home, 7>>} /\ corner[1] = home
        /\ corner[2] = (IF m.c_f = 2 THEN 0 ELSE 7)
        /\ Side(m) = Rules!CastlingStep(corner)
        /\ Rules!Gap(p.turn, corner) = {<<home, c>> : c \in GapColumns(m)}
    BY <1>8, <2>1
  <2> HIDE DEF corner, home
  <2>3. corner \in p.rights
    BY <1>5, <2>1, <2>2
  <2>4. /\ To(m) = Goal(corner) <=>
             /\ m.r_f = home
             /\ m.c_f = IF corner[2] = 0 THEN 2 ELSE 6
        /\ \A k \in 0 .. 2 :
             Rules!Plus(From(m), <<0, Rules!CastlingStep(corner)>>, k) =
               <<home, 4 + k * Rules!CastlingStep(corner)>>
    BY <1>6, <2>1, <2>2
  <2>5. Rules!Gap(p.turn, corner) \cap DOMAIN p.men = {}
    BY <1>1, <2>1, <2>2
  <2>6. ASSUME NEW k \in 0 .. 2
        PROVE  ~Rules!Attacked(p.men,
                  Rules!Plus(From(m), <<0, Rules!CastlingStep(corner)>>, k),
                  Opponent(p.turn))
    <3>1. ~Rules!Attacked(p.men, <<home, 4 + k * Side(m)>>, Opponent(p.turn))
      BY <1>7, <2>1 DEF home
    <3> QED
      BY <2>2, <2>4, <3>1
  <2>7. To(m) = Goal(corner)
    BY <2>1, <2>2, <2>4
  <2> QED
    BY <2>1, <2>2, <2>3, <2>5, <2>6, <2>7
<1> HIDE DEF May, Goal
<1> QED
  BY <1>3, <1>9, <1>10

-----------------------------------------------------------------------------
(* All moves. *)
\* is_illegal() lets the moves pass that the rules know, but for the king that
\* a move may uncover.
LEMMA ReportIsPseudo ==
  ASSUME NEW g \in EngineGames, NEW p, Mirrors(g, p), NEW m \in MoveSet
  PROVE  IsIllegal(g, m, p.turn).code >= 0 <=> Pseudo(p, m)
<1> DEFINE b == g.board
           s == From(m)
           t == To(m)
           r == IsIllegal(g, m, p.turn)
           own == s \in DOMAIN b /\ b[s].player = p.turn
           free == t \in DOMAIN b => b[t].player # p.turn
           promotes == b[s].type = PAWN /\ m.r_f = LastRow(p.turn) =>
                         m.promotion \in Promotions
<1>1. /\ DOMAIN b \subseteq Squares /\ p.turn \in Players
      /\ DOMAIN p.men = DOMAIN b
      /\ \A x \in DOMAIN b : /\ b[x] \in Pieces
                             /\ p.men[x].type = b[x].type
                             /\ p.men[x].player = b[x].player
  BY MirroredBoard
<1>2. /\ m.r_i \in 0 .. 7 /\ m.c_i \in 0 .. 7 /\ m.r_f \in 0 .. 7 /\ m.c_f \in 0 .. 7
      /\ s \in Squares /\ t \in Squares /\ m = MoveOf(s, t, m.promotion)
  BY MoveSquares
<1>3. MayTry(b, m, p.turn) <=> own /\ free
  BY <1>2 DEF MayTry, Occupied, Coord
<1>4. Rules!Home(Rules!Opponent(p.turn)) = LastRow(p.turn)
  BY <1>1, SameNames DEF HomeRow, LastRow, Opponent, Players, WHITE, BLACK
<1>5. Pseudo(p, m) <=> /\ own /\ free /\ promotes
                       /\ t \in Rules!Reachable(p, s)
  <2>1. /\ Rules!Source(m) = s /\ Rules!Target(m) = t /\ Rules!Board = Squares
        /\ Rules!PAWN = PAWN /\ Rules!Promotions = Promotions
    BY SameNames
  <2> HIDE DEF s, t
  <2> QED
    BY <1>1, <1>2, <1>4, <2>1 DEF Pseudo
<1> HIDE DEF own, free, promotes, s, t
<1>6. CASE ~(own /\ free)
  <2>1. r.code = ILLEGAL_MOVE
    BY <1>3, <1>6 DEF IsIllegal, StepReport, Rejected, Report
  <2> QED
    BY <1>5, <1>6, <2>1, Numbers
<1>7. CASE own /\ free
  <2>1. /\ MayTry(b, m, p.turn) /\ s \in DOMAIN b /\ b[s].player = p.turn
        /\ From(m) \in DOMAIN g.board /\ g.board[From(m)].player = p.turn
        /\ s # t /\ From(m) # To(m)
        /\ b[s].type \in PieceTypes /\ p.men[s].type = b[s].type
    BY <1>1, <1>3, <1>7 DEF own, free, s, t, Pieces
  <2>2. CASE b[s].type = PAWN
    <3>1. r = PawnReport(g, m)
      BY <2>1, <2>2, Numbers DEF IsIllegal, StepReport, s
    <3>2. PawnReport(g, m).code >= 0 <=>
            (PawnAdvances(b, m) \/ PawnTakes(g, m)) /\ promotes
      BY <2>1, <2>2, Numbers DEF PawnReport, Rejected, Report, promotes, s
    <3>3. PawnAdvances(b, m) \/ PawnTakes(g, m) <=> t \in Rules!PawnMoves(p, s)
      BY <2>1, <2>2, PawnSteps DEF s, t
    <3>4. Rules!Reachable(p, s) = Rules!PawnMoves(p, s)
      BY <2>1, <2>2, SameNames, MenAreNumbers DEF Rules!Reachable
    <3> QED
      BY <1>5, <1>7, <3>1, <3>2, <3>3, <3>4
  <2>3. CASE b[s].type = KING
    <3>1. r = KingReport(g, m)
      BY <2>1, <2>3 DEF IsIllegal, s
    <3>2. Rules!Reachable(p, s) = Rules!Attacks(p.men, s) \cup Rules!CastlingMoves(p, s)
      BY <2>1, <2>3, SameNames, MenAreNumbers DEF Rules!Reachable
    <3>3. KingSteps(m) <=> t \in Rules!Attacks(p.men, s)
      BY <1>2, <2>1, <2>3, StepsAreSteps
    <3>4. KingSteps(m) => KingReport(g, m).code >= 0
      <4>1. KingSteps(m) => KingReport(g, m) = Report(OK, b, None, None)
        BY Zenon DEF KingReport
      <4>2. Report(OK, b, None, None).code = OK /\ OK >= 0
        BY Numbers DEF Report
      <4> QED
        BY <4>1, <4>2
    <3>5. ~KingSteps(m) => (KingReport(g, m).code >= 0 <=> MayCastle(g, m, p.turn))
      BY <2>1, <2>3, KingCastles DEF s
    <3>6. t \in Rules!CastlingMoves(p, s) <=> MayCastle(g, m, p.turn)
      BY <2>1, <2>3, RulesCastle DEF s, t
    <3>7. promotes
      BY <2>3, Numbers DEF promotes
    <3> QED
      BY <1>5, <1>7, <3>1, <3>2, <3>3, <3>4, <3>5, <3>6, <3>7
  <2>4. CASE b[s].type \notin {PAWN, KING}
    <3>1. r.code >= 0 <=> Reaches(b, m)
      BY <2>1, <2>4, Numbers DEF IsIllegal, StepReport, Rejected, Report, s
    <3>2. Rules!Reachable(p, s) = Rules!Attacks(p.men, s)
      BY <2>1, <2>4, SameNames, MenAreNumbers DEF Rules!Reachable
    <3>3. Reaches(b, m) <=> t \in Rules!Attacks(p.men, s)
      <4>1. b[s].type = p.men[s].type /\ b[s].type \in PieceTypes \ {PAWN}
        BY <2>1, <2>4
      <4> QED
        BY <1>1, <1>2, <2>1, <4>1, ReachesIsAttacks
    <3>4. promotes
      BY <2>4 DEF promotes
    <3> QED
      BY <1>5, <1>7, <3>1, <3>2, <3>3, <3>4
  <2> QED
    BY <2>2, <2>3, <2>4
<1> QED
  BY <1>6, <1>7

-----------------------------------------------------------------------------
(* What a move does to the board. *)
\* The pawn that a pawn's move takes in passing.
Taken(b, m) ==
  IF ColDiff(m) # 0 /\ ~Occupied(b, To(m)) THEN Pessant(m) ELSE None

\* What is_illegal() reports of a move that it lets pass.
LEMMA PassedReport ==
  ASSUME NEW g \in EngineGames, NEW p, Mirrors(g, p), NEW m \in MoveSet,
         NEW r, r = IsIllegal(g, m, p.turn), r.code >= 0
  PROVE  LET b == g.board
         IN  /\ From(m) \in DOMAIN b /\ b[From(m)].player = p.turn
             /\ To(m) \in DOMAIN b => b[To(m)].player # p.turn
             /\ From(m) # To(m)
             /\ b[From(m)].type = PAWN =>
                  /\ PawnAdvances(b, m) \/ PawnTakes(g, m)
                  /\ m.r_f = LastRow(p.turn) => m.promotion \in Promotions
                  /\ r = Report(OK, IF m.r_f = LastRow(p.turn)
                                      THEN [b EXCEPT ![From(m)].type = m.promotion]
                                      ELSE b,
                                Taken(b, m), None)
             /\ b[From(m)].type # PAWN =>
                  \/ /\ r = Report(OK, b, None, None)
                     /\ b[From(m)].type = KING => KingSteps(m)
                  \/ /\ b[From(m)].type = KING /\ MayCastle(g, m, p.turn)
                     /\ r = Report(OK, b, None,
                              MoveOf(Corner(m), <<m.r_i, 4 + Side(m)>>, EMPTY))
<1> DEFINE b == g.board
           s == From(m)
<1>1. MayTry(b, m, p.turn)
  BY Numbers DEF IsIllegal, StepReport, Rejected, Report
<1>2. /\ s \in DOMAIN b /\ b[s].player = p.turn
      /\ To(m) \in DOMAIN b => b[To(m)].player # p.turn
      /\ s # To(m)
  BY <1>1 DEF MayTry, Occupied
<1>3. CASE b[s].type = PAWN
  <2>1. r = PawnReport(g, m)
    BY <1>1, <1>3, Numbers DEF IsIllegal, StepReport
  <2>2. /\ PawnAdvances(b, m) \/ PawnTakes(g, m)
        /\ m.r_f = LastRow(p.turn) => m.promotion \in Promotions
    BY <1>2, <2>1, Numbers DEF PawnReport, Rejected, Report
  <2>3. r = IF m.r_f # LastRow(p.turn) THEN Report(OK, b, Taken(b, m), None)
            ELSE Report(OK, [b EXCEPT ![From(m)].type = m.promotion],
                        Taken(b, m), None)
    BY <1>2, <2>1, <2>2, Zenon DEF PawnReport, Taken
  <2> QED
    BY <1>2, <1>3, <2>2, <2>3
<1>4. CASE b[s].type = KING
  <2>1. r = KingReport(g, m)
    BY <1>1, <1>4 DEF IsIllegal
  <2>2. CASE KingSteps(m)
    <3>1. r = Report(OK, b, None, None)
      BY <2>1, <2>2, Zenon DEF KingReport
    <3> QED
      BY <1>2, <1>4, <2>2, <3>1, Numbers
  <2>3. CASE ~KingSteps(m)
    BY <1>2, <1>4, <2>1, <2>3, KingCastles, Numbers
  <2> QED
    BY <2>2, <2>3
<1>5. CASE b[s].type \notin {PAWN, KING}
  <2>1. r = Report(OK, b, None, None)
    BY <1>1, <1>5, Numbers DEF IsIllegal, StepReport, Rejected, Report
  <2> QED
    BY <1>2, <1>5, <2>1
<1> QED
  BY <1>3, <1>4, <1>5

\* Board c is b after the move m at the time now, with captured gone.
OneMove(b, m, captured, now, c) ==
  /\ DOMAIN c = (DOMAIN b \ {From(m), captured}) \cup {To(m)}
  /\ \A s \in DOMAIN c : s # To(m) => c[s] = b[s]
  /\ c[To(m)].type = b[From(m)].type
  /\ c[To(m)].player = b[From(m)].player
  /\ c[To(m)].moves = b[From(m)].moves + 1
  /\ c[To(m)].last_move = now

\* The board that one move leaves.
LEMMA MovedBoard ==
  ASSUME NEW g, NEW m, NEW captured,
         From(m) \in DOMAIN g.board, g.board[From(m)] \in Pieces,
         NEW now
  PROVE  LET h == Moved(g, m, captured, {captured}, 1, now)
         IN  OneMove(g.board, m, captured, now, h.board) /\ h.duration = now
<1> DEFINE h == Moved(g, m, captured, {captured}, 1, now)
           b == g.board
           piece == [b[From(m)] EXCEPT !.moves = @ + 1, !.last_move = now]
           less == Without(b, {From(m), captured})
<1>1. h.board = With(less, To(m), piece) /\ h.duration = now
  <2>1. {From(m)} \cup {captured} = {From(m), captured}
    OBVIOUS
  <2> QED
    BY <2>1 DEF Moved
<1>2. DOMAIN less = DOMAIN b \ {From(m), captured} /\ \A s \in DOMAIN less : less[s] = b[s]
  BY DEF Without
<1>3. /\ piece.type = b[From(m)].type /\ piece.player = b[From(m)].player
      /\ piece.moves = b[From(m)].moves + 1 /\ piece.last_move = now
  BY DEF Pieces
<1> HIDE DEF less, piece, h
<1>4. /\ DOMAIN h.board = DOMAIN less \cup {To(m)}
      /\ h.board[To(m)] = piece
      /\ \A s \in DOMAIN h.board : s # To(m) => h.board[s] = less[s] /\ s \in DOMAIN less
  BY <1>1 DEF With
<1> QED
  <2>1. OneMove(b, m, captured, now, h.board)
    BY <1>1, <1>2, <1>3, <1>4 DEF OneMove
  <2> QED
    BY <1>1, <2>1 DEF h

\* Game h is g after the move m, seen man by man.  On a square of h stands the
\* man who was there, one who has moved just now: the mover of m or the rook
\* of a castling.  Missing from a square of g is the mover, a pawn that was
\* taken, or that rook.
TypeAfter(g, m) ==
  LET man == g.board[From(m)]
  IN  IF man.type = PAWN /\ m.r_f = LastRow(man.player) THEN m.promotion ELSE man.type
StillThere(g, m, h, s) ==
  s \in DOMAIN g.board /\ s # To(m) /\ h.board[s] = g.board[s]
JustMoved(g, m, h, s) ==
  /\ h.board[s].player = g.board[From(m)].player
  /\ h.board[s].last_move = g.duration + 1
  /\ \/ /\ s = To(m) /\ h.board[s].type = TypeAfter(g, m)
        /\ h.board[s].moves = g.board[From(m)].moves + 1
     \/ /\ s \notin DOMAIN g.board /\ s # To(m) /\ g.board[From(m)].type = KING
        /\ h.board[s].type = ROOK /\ h.board[s].moves # 0
Vacated(g, m, s) ==
  \/ s = From(m)
  \/ g.board[s].type = PAWN /\ g.board[s].player # g.board[From(m)].player
  \/ /\ g.board[From(m)].type = KING /\ From(m) = <<m.r_i, 4>> /\ m.r_i \in {0, 7}
     /\ g.board[s].type = ROOK /\ s \in {<<m.r_i, 0>>, <<m.r_i, 7>>}
PlayedOn(g, m, h) ==
  /\ From(m) \notin DOMAIN h.board /\ To(m) \in DOMAIN h.board
  /\ h.duration = g.duration + 1
  /\ \A s \in DOMAIN h.board : StillThere(g, m, h, s) \/ JustMoved(g, m, h, s)
  /\ \A s \in DOMAIN g.board \ DOMAIN h.board : Vacated(g, m, s)

\* A game in which only the mover of m has been touched: he may have been
\* promoted by is_illegal().
ReadyFor(g, m, before) ==
  /\ DOMAIN before.board = DOMAIN g.board /\ before.duration = g.duration
  /\ \A s \in DOMAIN g.board : s # From(m) => before.board[s] = g.board[s]
  /\ before.board[From(m)] \in Pieces
  /\ before.board[From(m)].type = TypeAfter(g, m)
  /\ before.board[From(m)].player = g.board[From(m)].player
  /\ before.board[From(m)].moves = g.board[From(m)].moves

\* The man that leaves the board besides those on the squares of the move.
TakesBeside(g, p, m, taken) ==
  LET passes == g.board[From(m)].type = PAWN /\ To(m) = p.skipped
  IN  /\ passes => <<m.r_i, m.c_f>> \in {taken, From(m)}
      /\ taken # None =>
           /\ passes /\ taken = <<m.r_i, m.c_f>>
           /\ taken \in DOMAIN g.board /\ taken # To(m) /\ taken # From(m)
           /\ g.board[taken].type = PAWN /\ g.board[taken].player # p.turn

\* A move of one man.
LEMMA OneManMoves ==
  ASSUME NEW g \in EngineGames, NEW p, Mirrors(g, p), NEW m \in MoveSet,
         From(m) \in DOMAIN g.board, g.board[From(m)].player = p.turn,
         From(m) # To(m), ~Rules!IsCastling(p, m),
         NEW before, ReadyFor(g, m, before),
         NEW taken, TakesBeside(g, p, m, taken)
  PROVE  LET h == Moved(before, m, taken, {taken}, 1, g.duration + 1)
         IN  PlayedOn(g, m, h) /\ MenOf(h.board) = Rules!MenAfter(p, m)
<1> DEFINE b == g.board
           f == From(m)
           t == To(m)
           man == b[f]
           type == TypeAfter(g, m)
           h == Moved(before, m, taken, {taken}, 1, g.duration + 1)
<1>1. /\ DOMAIN b \subseteq Squares /\ p.turn \in Players /\ DOMAIN p.men = DOMAIN b
      /\ b[f] \in Pieces /\ p.men = MenOf(b)
      /\ p.men[f].type = b[f].type /\ p.men[f].player = b[f].player
      /\ \A s \in DOMAIN b : p.men[s] = [type |-> b[s].type, player |-> b[s].player]
  BY MirroredBoard, MenOfBoard
<1>2. /\ DOMAIN h.board = (DOMAIN b \ {f, taken}) \cup {t}
      /\ \A s \in DOMAIN h.board : s # t => h.board[s] = b[s]
      /\ h.board[t].type = type
      /\ h.board[t].player = man.player
      /\ h.board[t].moves = man.moves + 1
      /\ h.board[t].last_move = g.duration + 1
      /\ h.duration = g.duration + 1
  <2> DEFINE now == g.duration + 1
  <2>1. h = Moved(before, m, taken, {taken}, 1, now)
    OBVIOUS
  <2> HIDE DEF now, h
  <2>2. OneMove(before.board, m, taken, now, h.board) /\ h.duration = now
    <3>1. From(m) \in DOMAIN before.board /\ before.board[From(m)] \in Pieces
      BY DEF ReadyFor
    <3> QED
      BY <2>1, <3>1, MovedBoard
  <2> QED
    BY <2>2 DEF OneMove, ReadyFor, now
<1> HIDE DEF h
<1>3. \A s \in DOMAIN h.board : s # t => s \in DOMAIN b /\ h.board[s] = b[s]
  BY <1>2
<1>4. PlayedOn(g, m, h)
  <2>1. f \notin DOMAIN h.board /\ t \in DOMAIN h.board
    BY <1>2
  <2>2. ASSUME NEW s \in DOMAIN b \ DOMAIN h.board
        PROVE  s = f \/ (b[s].type = PAWN /\ b[s].player # man.player)
    <3>1. s = f \/ s = taken
      BY <1>2, <2>2
    <3>2. taken \in DOMAIN b => b[taken].type = PAWN /\ b[taken].player # p.turn
      BY <1>1 DEF None, Squares, TakesBeside
    <3> QED
      BY <2>2, <3>1, <3>2
  <2> QED
    BY <1>2, <1>3, <2>1, <2>2 DEF PlayedOn, StillThere, JustMoved, Vacated
<1>5. MenOf(h.board) = Rules!MenAfter(p, m)
  <2> DEFINE promotes == man.type = PAWN /\ m.r_f = LastRow(p.turn)
             mover == IF promotes THEN [p.men[f] EXCEPT !.type = m.promotion]
                      ELSE p.men[f]
             leaves == {f} \cup (IF man.type = PAWN /\ t = p.skipped
                                  THEN {<<m.r_i, m.c_f>>} ELSE {}) \cup {}
             D == (DOMAIN b \ leaves) \cup ({t} \cup {})
  <2>1. Rules!Home(Rules!Opponent(p.turn)) = LastRow(p.turn)
    BY <1>1, SameNames DEF HomeRow, LastRow, Opponent, Players, WHITE, BLACK
  <2>2. Rules!MenAfter(p, m) =
          [s \in D |-> IF s = t THEN mover
                       ELSE IF s \in {t} \cup {} THEN [type |-> Rules!ROOK, player |-> p.turn]
                       ELSE p.men[s]]
    <3>1. Rules!Source(m) = f /\ Rules!Target(m) = t /\ Rules!PAWN = PAWN
      BY SameNames
    <3> HIDE DEF f, t
    <3> QED
      BY <1>1, <2>1, <3>1, Zenon DEF Rules!MenAfter
  <2>3. D = DOMAIN h.board
    <3> USE DEF None
    <3>1. None \notin DOMAIN b
      BY <1>1 DEF Squares, None
    <3> HIDE DEF f, t
    <3> QED
      BY <1>2, <3>1 DEF f, t, TakesBeside
  <2>4. mover = [type |-> h.board[t].type, player |-> h.board[t].player]
    <3>1. p.men[f] = [type |-> man.type, player |-> man.player]
      BY <1>1
    <3>2. h.board[t].type = type /\ h.board[t].player = man.player
      BY <1>2
    <3>3. type = IF promotes THEN m.promotion ELSE man.type
      BY Zenon DEF TypeAfter
    <3> HIDE DEF promotes, man
    <3>4. \A x : [[type |-> man.type, player |-> man.player] EXCEPT !.type = x] =
                  [type |-> x, player |-> man.player]
      OBVIOUS
    <3>5. mover = IF promotes THEN [type |-> m.promotion, player |-> man.player]
                  ELSE [type |-> man.type, player |-> man.player]
      BY <3>1, <3>4, Zenon
    <3> HIDE DEF mover
    <3> QED
      BY <3>2, <3>3, <3>5
  <2>5. \A s \in DOMAIN h.board :
          [type |-> h.board[s].type, player |-> h.board[s].player] =
            IF s = t THEN mover ELSE p.men[s]
    <3>1. ASSUME NEW s \in DOMAIN h.board, s # t
          PROVE  [type |-> h.board[s].type, player |-> h.board[s].player] = p.men[s]
      <4>1. s \in DOMAIN b /\ h.board[s] = b[s]
        BY <1>3, <3>1
      <4> QED
        BY <1>1, <4>1
    <3> QED
      BY <2>4, <3>1
  <2> HIDE DEF D, mover, leaves
  <2>6. MenOf(h.board) = [s \in DOMAIN h.board |->
           [type |-> h.board[s].type, player |-> h.board[s].player]]
    BY DEF MenOf
  <2>7. [s \in D |-> IF s = t THEN mover
                     ELSE IF s \in {t} \cup {} THEN [type |-> Rules!ROOK, player |-> p.turn]
                     ELSE p.men[s]] = [s \in D |-> IF s = t THEN mover ELSE p.men[s]]
    OBVIOUS
  <2> DEFINE shown == [s \in DOMAIN h.board |->
                         [type |-> h.board[s].type, player |-> h.board[s].player]]
             ruled == [s \in D |-> IF s = t THEN mover ELSE p.men[s]]
  <2>8. shown = ruled
    <3>1. ruled = [s \in DOMAIN h.board |-> IF s = t THEN mover ELSE p.men[s]]
      BY <2>3
    <3> HIDE DEF t
    <3> QED
      BY <2>5, <3>1
  <2> QED
    BY <2>2, <2>6, <2>7, <2>8, Zenon
<1> QED
  BY <1>4, <1>5 DEF h

\* A castling moves the king and the rook from the corner.
LEMMA TwoMenMove ==
  ASSUME NEW g \in EngineGames, NEW p, Mirrors(g, p), NEW m \in MoveSet,
         From(m) \in DOMAIN g.board, g.board[From(m)].player = p.turn,
         g.board[From(m)].type = KING, MayCastle(g, m, p.turn),
         NEW castle, castle = MoveOf(Corner(m), <<m.r_i, 4 + Side(m)>>, EMPTY),
         NEW first, first = Moved(g, m, None, {None}, 1, g.duration + 1)
  PROVE  LET h == Moved(first, castle, None, {None}, 1, first.duration)
         IN  PlayedOn(g, m, h) /\ MenOf(h.board) = Rules!MenAfter(p, m)
<1> DEFINE b == g.board
           h == Moved(first, castle, None, {None}, 1, first.duration)
           f == From(m)
           t == To(m)
           man == b[f]
           home == HomeRow(p.turn)
           corner == Corner(m)
           beside == To(castle)
           now == g.duration + 1
<1>1. /\ DOMAIN b \subseteq Squares /\ p.turn \in Players /\ DOMAIN p.men = DOMAIN b
      /\ \A s \in DOMAIN b : b[s] \in Pieces
      /\ p.men[f].type = b[f].type /\ p.men[f].player = b[f].player
      /\ \A s \in DOMAIN b : p.men[s] = [type |-> b[s].type, player |-> b[s].player]
      /\ AtHome(b)
  BY MirroredBoard, MenOfBoard
<1>2. /\ m.r_i = home /\ home \in {0, 7} /\ f = <<home, 4>>
      /\ m.c_i = 4 /\ m.c_f \in {2, 6} /\ m.r_f = home
      /\ t = <<home, m.c_f>>
      /\ corner \in DOMAIN b /\ b[corner].type = ROOK /\ b[corner].moves = 0
      /\ \A c \in GapColumns(m) : <<home, c>> \notin DOMAIN b
  BY MoveSquares DEF MayCastle, HomeRow
<1>3. /\ corner = <<home, IF m.c_f = 2 THEN 0 ELSE 7>>
      /\ beside = <<home, IF m.c_f = 2 THEN 3 ELSE 5>>
      /\ From(castle) = corner
  BY <1>2 DEF Corner, Side, MoveOf, From, To
<1>4. /\ beside \notin DOMAIN b /\ t \notin DOMAIN b
      /\ corner # t /\ corner # f /\ beside # t /\ beside # f /\ f # t /\ beside # corner
  <2>1. CASE m.c_f = 2
    <3>1. 2 \in GapColumns(m) /\ 3 \in GapColumns(m)
      BY <1>2, <2>1 DEF GapColumns
    <3> QED
      BY <1>2, <1>3, <2>1, <3>1
  <2>2. CASE m.c_f = 6
    <3>1. 5 \in GapColumns(m) /\ 6 \in GapColumns(m)
      BY <1>2, <2>2 DEF GapColumns
    <3> QED
      BY <1>2, <1>3, <2>2, <3>1
  <2> QED
    BY <1>2, <2>1, <2>2
<1>5. None \notin DOMAIN b /\ None # t /\ None # corner
  <2>1. None \notin DOMAIN b
    <3>1. None \notin Squares
      BY DEF Squares, None
    <3> QED
      BY <1>1, <3>1
  <2>2. None # t
    BY <1>2 DEF None
  <2> QED
    BY <1>2, <2>1, <2>2
<1>6. b[corner].player = p.turn
  <2>1. corner \in Home(b[corner]) /\ b[corner].player \in Players
    BY <1>1, <1>2, HomeOf, Numbers DEF Pieces
  <2>2. Home(b[corner]) = {HomeRow(b[corner].player)} \X {0, 7}
    BY <1>2, Numbers DEF Home
  <2>3. corner[1] = home
    BY <1>3
  <2>4. HomeRow(b[corner].player) = HomeRow(p.turn)
    BY <2>1, <2>2, <2>3
  <2> QED
    BY <1>1, <2>1, <2>4 DEF HomeRow, Players, WHITE, BLACK
<1> HIDE DEF corner, beside, home, f, t, now
<1>7. OneMove(b, m, None, now, first.board) /\ first.duration = now
  <2>1. f \in DOMAIN b /\ b[f] \in Pieces
    BY <1>1 DEF f
  <2> QED
    BY <2>1, MovedBoard DEF now, f
<1>8. /\ DOMAIN first.board = (DOMAIN b \ {f}) \cup {t}
      /\ \A s \in DOMAIN first.board : s # t => first.board[s] = b[s] /\ s \in DOMAIN b
      /\ first.board[t].type = man.type /\ first.board[t].player = man.player
      /\ first.board[t].moves = man.moves + 1 /\ first.board[t].last_move = now
  BY <1>5, <1>7 DEF OneMove, f, t
<1>9. OneMove(first.board, castle, None, now, h.board) /\ h.duration = now
  <2>1. From(castle) \in DOMAIN first.board /\ first.board[From(castle)] \in Pieces
    <3>1. corner \in DOMAIN first.board
      BY <1>2, <1>4, <1>8
    <3>2. first.board[corner] = b[corner] /\ b[corner] \in Pieces
      BY <1>1, <1>2, <1>4, <1>8, <3>1
    <3> QED
      BY <1>3, <3>1, <3>2
  <2>2. first.duration = now
    BY <1>7
  <2> QED
    BY <2>1, <2>2, MovedBoard
<1>10. /\ DOMAIN h.board = (DOMAIN b \ {f, corner}) \cup {t, beside}
       /\ \A s \in DOMAIN h.board :
            s # t /\ s # beside => h.board[s] = b[s] /\ s \in DOMAIN b
       /\ h.board[t].type = man.type /\ h.board[t].player = man.player
       /\ h.board[t].moves = man.moves + 1 /\ h.board[t].last_move = now
       /\ h.board[beside].type = ROOK /\ h.board[beside].player = p.turn
       /\ h.board[beside].moves = 0 + 1 /\ h.board[beside].last_move = now
  <2> HIDE DEF h
  <2>1. first.board[corner] = b[corner]
    BY <1>2, <1>4, <1>8
  <2>2. /\ DOMAIN h.board = (DOMAIN first.board \ {corner, None}) \cup {beside}
        /\ \A s \in DOMAIN h.board : s # beside => h.board[s] = first.board[s]
        /\ h.board[beside].type = ROOK /\ h.board[beside].player = p.turn
        /\ h.board[beside].moves = 0 + 1 /\ h.board[beside].last_move = now
    <3>1. OneMove(first.board, castle, None, now, h.board)
      BY <1>9
    <3>2. From(castle) = corner /\ To(castle) = beside
      BY <1>3 DEF beside
    <3>3. /\ first.board[corner].type = ROOK /\ first.board[corner].player = p.turn
          /\ first.board[corner].moves = 0
      BY <1>2, <1>6, <2>1
    <3> QED
      BY <3>1, <3>2, <3>3 DEF OneMove
  <2>3. DOMAIN h.board = (DOMAIN b \ {f, corner}) \cup {t, beside}
    BY <1>4, <1>5, <1>8, <2>2
  <2>4. t \in DOMAIN h.board /\ h.board[t] = first.board[t]
    BY <1>4, <2>2, <2>3
  <2>5. \A s \in DOMAIN h.board :
          s # t /\ s # beside => h.board[s] = b[s] /\ s \in DOMAIN b
    BY <1>8, <2>2
  <2> QED
    BY <1>8, <2>2, <2>3, <2>4, <2>5
<1> HIDE DEF h
<1>11. PlayedOn(g, m, h)
  <2>1. f \notin DOMAIN h.board /\ t \in DOMAIN h.board /\ h.duration = g.duration + 1
    BY <1>4, <1>9, <1>10 DEF now
  <2>2. ASSUME NEW s \in DOMAIN b \ DOMAIN h.board
        PROVE  Vacated(g, m, s)
    <3>1. corner \in {<<m.r_i, 0>>, <<m.r_i, 7>>}
      BY <1>2, <1>3
    <3>2. s = f \/ s = corner
      BY <1>10, <2>2
    <3> QED
      BY <1>2, <3>1, <3>2 DEF Vacated, f
  <2>3. TypeAfter(g, m) = man.type
    BY Numbers DEF TypeAfter, f
  <2>4. ASSUME NEW s \in DOMAIN h.board
        PROVE  StillThere(g, m, h, s) \/ JustMoved(g, m, h, s)
    <3>1. CASE s = t
      <4>1. JustMoved(g, m, h, s)
        BY <1>10, <2>3, <3>1 DEF JustMoved, now, f, t
      <4> QED
        BY <4>1
    <3>2. CASE s = beside
      <4>1. s \notin DOMAIN b /\ s # t
        BY <1>4, <3>2
      <4>2. JustMoved(g, m, h, s)
        BY <1>10, <3>2, <4>1 DEF JustMoved, now, f, t
      <4> QED
        BY <4>2
    <3>3. CASE s # t /\ s # beside
      BY <1>10, <2>4, <3>3 DEF StillThere, t
    <3> QED
      BY <3>1, <3>2, <3>3
  <2> QED
    BY <2>1, <2>2, <2>4 DEF PlayedOn, f, t
<1>12. MenOf(h.board) = Rules!MenAfter(p, m)
  <2> DEFINE leaves == {f} \cup {} \cup {corner}
             comes == {t} \cup {beside}
             ruled == [s \in (DOMAIN b \ leaves) \cup comes |->
                         IF s = t THEN p.men[f]
                         ELSE IF s \in comes THEN [type |-> ROOK, player |-> p.turn]
                         ELSE p.men[s]]
             shown == [s \in DOMAIN h.board |->
                         [type |-> h.board[s].type, player |-> h.board[s].player]]
  <2>1. Rules!MenAfter(p, m) = ruled
    <3>1. /\ Rules!Source(m) = f /\ Rules!Target(m) = t /\ Rules!PAWN = PAWN
          /\ Rules!ROOK = ROOK /\ Rules!KING = KING
      BY SameNames DEF f, t
    <3>2. Rules!IsCastling(p, m) /\ p.men[f].type # PAWN
      <4>1. p.men[f].type = KING /\ m.c_f - m.c_i \in {-2, 2}
        BY <1>1, <1>2 DEF f
      <4> QED
        BY <3>1, <4>1, Numbers DEF Rules!IsCastling
    <3>3. /\ corner = <<m.r_i, IF m.c_f < m.c_i THEN 0 ELSE 7>>
          /\ beside = <<m.r_i, (m.c_i + m.c_f) \div 2>>
      <4>1. (m.c_i + m.c_f) \div 2 = IF m.c_f = 2 THEN 3 ELSE 5
        BY <1>2
      <4>2. m.c_f < m.c_i <=> m.c_f = 2
        BY <1>2
      <4> QED
        BY <1>2, <1>3, <4>1, <4>2
    <3>4. /\ ~(p.men[f].type = PAWN /\ m.r_f = Rules!Home(Rules!Opponent(p.turn)))
          /\ ~(p.men[f].type = PAWN /\ t = p.skipped)
      BY <3>2
    <3> QED
      BY <1>1, <3>1, <3>2, <3>3, <3>4, Zenon DEF Rules!MenAfter
  <2>2. (DOMAIN b \ leaves) \cup comes = DOMAIN h.board
    BY <1>10
  <2>3. \A s \in DOMAIN h.board :
          [type |-> h.board[s].type, player |-> h.board[s].player] =
            IF s = t THEN p.men[f]
            ELSE IF s \in comes THEN [type |-> ROOK, player |-> p.turn]
            ELSE p.men[s]
    <3> SUFFICES ASSUME NEW s \in DOMAIN h.board
                 PROVE  [type |-> h.board[s].type, player |-> h.board[s].player] =
                          IF s = t THEN p.men[f]
                          ELSE IF s \in comes THEN [type |-> ROOK, player |-> p.turn]
                          ELSE p.men[s]
      OBVIOUS
    <3>1. CASE s = t
      <4>1. p.men[f] = [type |-> man.type, player |-> man.player]
        BY <1>1 DEF f
      <4> QED
        BY <1>10, <3>1, <4>1
    <3>2. CASE s = beside
      BY <1>4, <1>10, <3>2
    <3>3. CASE s # t /\ s # beside
      BY <1>1, <1>10, <3>3
    <3> QED
      BY <3>1, <3>2, <3>3
  <2>4. shown = ruled
    <3> HIDE DEF comes, leaves
    <3> QED
      BY <2>2, <2>3
  <2>5. MenOf(h.board) = shown
    BY DEF MenOf
  <2> QED
    BY <2>1, <2>4, <2>5
<1> QED
  BY <1>11, <1>12 DEF h

\* What make_move() does to the men is what the rules do to them.
LEMMA ExecutedIsPlayed ==
  ASSUME NEW g \in EngineGames, NEW p, Mirrors(g, p), NEW m \in MoveSet,
         NEW r, r = IsIllegal(g, m, p.turn), r.code >= 0,
         NEW h, h = Executed([g EXCEPT !.board = r.board], m, r)
  PROVE  PlayedOn(g, m, h) /\ MenOf(h.board) = Rules!MenAfter(p, m)
<1> DEFINE b == g.board
           f == From(m)
           t == To(m)
           before == [g EXCEPT !.board = r.board]
<1>1. /\ DOMAIN b \subseteq Squares /\ p.turn \in Players /\ DOMAIN p.men = DOMAIN b
      /\ \A s \in DOMAIN b : b[s] \in Pieces /\ p.men[s].type = b[s].type
  BY MirroredBoard
<1>2. before.board = r.board /\ before.duration = g.duration
  BY DEF EngineGames
<1>3. /\ f \in DOMAIN b /\ b[f].player = p.turn /\ f # t
      /\ t \in DOMAIN b => b[t].player # p.turn
      /\ b[f].type = PAWN =>
           /\ PawnAdvances(b, m) \/ PawnTakes(g, m)
           /\ m.r_f = LastRow(p.turn) => m.promotion \in Promotions
           /\ r = Report(OK, IF m.r_f = LastRow(p.turn)
                               THEN [b EXCEPT ![f].type = m.promotion] ELSE b,
                         Taken(b, m), None)
      /\ b[f].type # PAWN =>
           \/ /\ r = Report(OK, b, None, None)
              /\ b[f].type = KING => KingSteps(m)
           \/ /\ b[f].type = KING /\ MayCastle(g, m, p.turn)
              /\ r = Report(OK, b, None,
                       MoveOf(Corner(m), <<m.r_i, 4 + Side(m)>>, EMPTY))
  BY PassedReport
<1>4. r.castle = None => h = Moved(before, m, r.captured, {r.captured}, 1, g.duration + 1)
  BY <1>2 DEF Executed, MoveUnchecked, Ticked
<1>5. /\ m.r_i \in 0 .. 7 /\ m.c_i \in 0 .. 7 /\ m.r_f \in 0 .. 7 /\ m.c_f \in 0 .. 7
      /\ f = <<m.r_i, m.c_i>> /\ t = <<m.r_f, m.c_f>>
  BY MoveSquares
<1>6. CASE b[f].type = PAWN
  <2> DEFINE type == IF m.r_f = LastRow(p.turn) THEN m.promotion ELSE PAWN
             taken == Taken(b, m)
  <2>1. /\ r.castle = None /\ r.captured = taken
        /\ r.board = IF m.r_f = LastRow(p.turn)
                       THEN [b EXCEPT ![f].type = m.promotion] ELSE b
    BY <1>3, <1>6 DEF Report
  <2>2. /\ DOMAIN r.board = DOMAIN b
        /\ \A s \in DOMAIN b : s # f => r.board[s] = b[s]
        /\ r.board[f] \in Pieces /\ r.board[f].type = type
        /\ r.board[f].player = b[f].player /\ r.board[f].moves = b[f].moves
    <3>1. CASE m.r_f = LastRow(p.turn)
      <4>1. r.board = [b EXCEPT ![f].type = m.promotion] /\ m.promotion \in PieceTypes
        BY <1>3, <1>6, <2>1, <3>1, Numbers
      <4>2. b[f] \in Pieces
        BY <1>1, <1>3
      <4>3. r.board[f] = [b[f] EXCEPT !.type = m.promotion]
        BY <1>3, <4>1
      <4>4. /\ r.board[f] \in Pieces /\ r.board[f].type = m.promotion
            /\ r.board[f].player = b[f].player /\ r.board[f].moves = b[f].moves
        BY <4>1, <4>2, <4>3 DEF Pieces
      <4> QED
        BY <3>1, <4>1, <4>4
    <3>2. CASE m.r_f # LastRow(p.turn)
      BY <1>1, <1>3, <1>6, <2>1, <3>2
    <3> QED
      BY <3>1, <3>2
  <2>3. /\ taken # None => /\ t = p.skipped /\ taken = <<m.r_i, m.c_f>>
                           /\ taken \in DOMAIN b /\ taken # t /\ taken # f
                           /\ b[taken].type = PAWN /\ b[taken].player # p.turn
        /\ t = p.skipped => <<m.r_i, m.c_f>> \in {taken, f}
    <3>1. CASE ColDiff(m) = 0
      <4>1. taken = None
        BY <3>1 DEF Taken
      <4>2. <<m.r_i, m.c_f>> = f
        BY <1>5, <3>1 DEF ColDiff
      <4> QED
        BY <4>1, <4>2
    <3>2. CASE ColDiff(m) # 0
      <4>1. PawnTakes(g, m)
        BY <1>3, <1>6, <3>2 DEF PawnAdvances
      <4>2. /\ Abs(ColDiff(m)) = 1 /\ RowDiff(m) = Direction(p.turn)
            /\ t \in DOMAIN b \/ EnPessant(g, m)
        BY <1>3, <4>1 DEF PawnTakes, Occupied
      <4>3. EnPessant(g, m) <=> t = p.skipped
        BY <1>3, <4>2, PassingIsSkipped
      <4>4. p.skipped \notin DOMAIN b
        BY <1>1 DEF Mirrors
      <4>5. CASE t \in DOMAIN b
        <5>1. taken = None /\ t # p.skipped
          BY <4>4, <4>5 DEF Taken, Occupied
        <5> QED
          BY <5>1
      <4>6. CASE t \notin DOMAIN b
        <5>1. taken = <<m.r_i, m.c_f>> /\ taken = Pessant(m)
          BY <3>2, <4>6 DEF Taken, Occupied, Pessant
        <5>2. EnPessant(g, m) /\ t = p.skipped
          BY <4>2, <4>3, <4>6
        <5>3. /\ taken \in DOMAIN b /\ b[taken].type = PAWN
              /\ b[taken].player # p.turn
          BY <1>3, <5>1, <5>2 DEF EnPessant, Occupied
        <5>4. taken # t /\ taken # f
          BY <1>3, <4>6, <5>3
        <5> QED
          BY <5>1, <5>2, <5>3, <5>4
      <4> QED
        BY <4>5, <4>6
    <3> QED
      BY <3>1, <3>2
  <2>4. ~Rules!IsCastling(p, m)
    BY <1>1, <1>3, <1>6, SameNames, MenAreNumbers DEF Rules!IsCastling
  <2>5. h = Moved(before, m, taken, {taken}, 1, g.duration + 1)
    BY <1>4, <2>1
  <2>6. type = TypeAfter(g, m)
    BY <1>3, <1>6 DEF TypeAfter
  <2> HIDE DEF before, taken, type
  <2>7. ReadyFor(g, m, before)
    BY <1>2, <2>2, <2>6 DEF ReadyFor
  <2>8. TakesBeside(g, p, m, taken)
    BY <1>6, <2>3 DEF TakesBeside
  <2> QED
    BY <1>3, <2>4, <2>5, <2>7, <2>8, OneManMoves
<1>7. CASE b[f].type # PAWN /\ r = Report(OK, b, None, None)
             /\ (b[f].type = KING => KingSteps(m))
  <2>1. r.castle = None /\ r.captured = None /\ r.board = b
    BY <1>7 DEF Report
  <2>2. ~Rules!IsCastling(p, m)
    <3>1. SUFFICES ASSUME b[f].type = KING PROVE m.c_f - m.c_i \notin {-2, 2}
      BY <1>1, <1>3, SameNames DEF Rules!IsCastling
    <3> QED
      BY <1>5, <1>7, <3>1 DEF KingSteps, ColDiff, Abs
  <2>3. h = Moved(before, m, None, {None}, 1, g.duration + 1)
    BY <1>4, <2>1
  <2>4. ReadyFor(g, m, before)
    BY <1>1, <1>2, <1>3, <1>7, <2>1 DEF ReadyFor, TypeAfter
  <2>5. TakesBeside(g, p, m, None)
    BY <1>7 DEF TakesBeside
  <2> HIDE DEF before
  <2> QED
    BY <1>3, <2>2, <2>3, <2>4, <2>5, OneManMoves
<1>8. CASE /\ b[f].type = KING /\ MayCastle(g, m, p.turn)
           /\ r = Report(OK, b, None, MoveOf(Corner(m), <<m.r_i, 4 + Side(m)>>, EMPTY))
  <2> DEFINE castle == MoveOf(Corner(m), <<m.r_i, 4 + Side(m)>>, EMPTY)
             first == Moved(g, m, None, {None}, 1, g.duration + 1)
  <2>1. r.castle = castle /\ r.captured = None /\ r.board = b
    BY <1>8 DEF Report
  <2>2. before = g
    BY <2>1 DEF EngineGames
  <2>3. castle # None
    BY DEF None, MoveOf
  <2>4. h = Moved(first, castle, None, {None}, 1, first.duration)
    BY <2>1, <2>2, <2>3 DEF Executed, MoveUnchecked, Ticked
  <2> HIDE DEF castle, first
  <2>5. castle = MoveOf(Corner(m), <<m.r_i, 4 + Side(m)>>, EMPTY)
        /\ first = Moved(g, m, None, {None}, 1, g.duration + 1)
    BY DEF castle, first
  <2> QED
    BY <1>3, <1>8, <2>4, <2>5, TwoMenMove
<1> QED
  BY <1>3, <1>6, <1>7, <1>8

-----------------------------------------------------------------------------
(* Kings. *)
\* The kings of a board.
LEMMA KingsOfBoard ==
  ASSUME NEW b, NEW player, NEW s
  PROVE  s \in KingsOf(MenOf(b), player) <=>
           s \in DOMAIN b /\ b[s].type = KING /\ b[s].player = player
<1> DEFINE men == MenOf(b)
<1>1. DOMAIN men = DOMAIN b
  BY MenOfBoard
<1>2. s \in DOMAIN b => men[s] = [type |-> b[s].type, player |-> b[s].player]
  BY DEF MenOf
<1>3. \A x, y : [type |-> x, player |-> y] = [type |-> KING, player |-> player]
                 <=> x = KING /\ y = player
  OBVIOUS
<1> HIDE DEF men
<1>4. s \in KingsOf(men, player) <=>
        s \in DOMAIN men /\ men[s] = [type |-> KING, player |-> player]
  BY DEF KingsOf
<1> QED
  BY <1>1, <1>2, <1>3, <1>4 DEF men

\* A man that takes goes where he sees.
LEMMA TakingIsAttack ==
  ASSUME NEW g \in EngineGames, NEW p, Mirrors(g, p), NEW m \in MoveSet,
         Pseudo(p, m), To(m) \in DOMAIN g.board
  PROVE  To(m) \in Rules!Attacks(p.men, From(m))
<1> DEFINE b == g.board
           f == From(m)
           t == To(m)
           other == Opponent(p.turn)
<1>1. /\ DOMAIN b \subseteq Squares /\ p.turn \in Players /\ DOMAIN p.men = DOMAIN b
      /\ \A s \in DOMAIN b : /\ b[s] \in Pieces
                             /\ p.men[s].type = b[s].type
                             /\ p.men[s].player = b[s].player
      /\ p.men = MenOf(b) /\ AtHome(b)
  BY MirroredBoard
<1>2. /\ f \in DOMAIN b /\ b[f].player = p.turn /\ b[t].player # p.turn
      /\ t \in Rules!Reachable(p, f)
  <2>1. Rules!Source(m) = f /\ Rules!Target(m) = t
    BY SameNames
  <2> HIDE DEF f, t
  <2> QED
    BY <1>1, <2>1 DEF Pseudo, t
<1>3. b[t].player = other /\ other \in Players /\ Opponent(other) = p.turn
  BY <1>1, <1>2 DEF Pieces, Players, Opponent, WHITE, BLACK
<1>4. t \in Rules!Attacks(p.men, f)
  <2>1. CASE b[f].type = PAWN
    <3>1. t \in Rules!PawnMoves(p, f)
      BY <1>1, <1>2, <2>1, SameNames, MenAreNumbers DEF Rules!Reachable
    <3> HIDE DEF f, t
    <3> QED
      BY <1>1, <3>1 DEF Rules!PawnMoves, t
  <2>2. CASE b[f].type = KING
    <3>1. t \in Rules!Attacks(p.men, f) \cup Rules!CastlingMoves(p, f)
      BY <1>1, <1>2, <2>2, SameNames, MenAreNumbers DEF Rules!Reachable
    <3>2. t \in Rules!CastlingMoves(p, f) => MayCastle(g, m, p.turn)
      BY <1>2, <2>2, RulesCastle
    <3>3. ~MayCastle(g, m, p.turn)
      <4>1. SUFFICES ASSUME MayCastle(g, m, p.turn) PROVE FALSE
        OBVIOUS
      <4>2. m.c_f \in GapColumns(m) /\ t = <<m.r_i, m.c_f>>
        BY <4>1, MoveSquares DEF MayCastle, GapColumns
      <4> QED
        BY <4>1, <4>2 DEF MayCastle
    <3> QED
      BY <3>1, <3>2, <3>3
  <2>3. CASE b[f].type \notin {PAWN, KING}
    BY <1>1, <1>2, <2>3, SameNames, MenAreNumbers DEF Rules!Reachable
  <2> QED
    BY <2>1, <2>2, <2>3
<1> QED
  BY <1>4

\* The men after a move that is no castling and takes nobody in passing.
LEMMA MenAfterPlainly ==
  ASSUME NEW p, NEW m, p.turn \in Players, From(m) \in DOMAIN p.men,
         From(m) # To(m), p.men[From(m)].type # KING, To(m) # p.skipped
  PROVE  LET after == Rules!MenAfter(p, m)
             man   == p.men[From(m)]
         IN  /\ DOMAIN after = (DOMAIN p.men \ {From(m)}) \cup {To(m)}
             /\ \A s \in DOMAIN p.men \ {From(m), To(m)} : after[s] = p.men[s]
             /\ \/ after[To(m)] = man
                \/ /\ man.type = PAWN /\ m.r_f = LastRow(p.turn)
                   /\ after[To(m)] = [man EXCEPT !.type = m.promotion]
<1> DEFINE f == From(m)
           t == To(m)
           man == p.men[f]
           promotes == man.type = PAWN /\ m.r_f = LastRow(p.turn)
           mover == IF promotes THEN [man EXCEPT !.type = m.promotion] ELSE man
           leaves == {f} \cup (IF man.type = PAWN /\ t = p.skipped
                                 THEN {<<m.r_i, m.c_f>>} ELSE {}) \cup {}
           D == (DOMAIN p.men \ leaves) \cup ({t} \cup {})
           after == Rules!MenAfter(p, m)
<1>1. Rules!Home(Rules!Opponent(p.turn)) = LastRow(p.turn)
  BY SameNames DEF HomeRow, LastRow, Opponent, Players, WHITE, BLACK
<1>2. ~Rules!IsCastling(p, m)
  BY SameNames DEF Rules!IsCastling
<1>3. after = [s \in D |-> IF s = t THEN mover
                           ELSE IF s \in {t} \cup {} THEN [type |-> Rules!ROOK, player |-> p.turn]
                           ELSE p.men[s]]
  <2>1. Rules!Source(m) = f /\ Rules!Target(m) = t /\ Rules!PAWN = PAWN
    BY SameNames
  <2> HIDE DEF f, t
  <2> QED
    BY <1>1, <1>2, <2>1, Zenon DEF Rules!MenAfter
<1>4. D = (DOMAIN p.men \ {f}) \cup {t} /\ t # p.skipped
  OBVIOUS
<1> HIDE DEF after, D, mover, f, t
<1>5. /\ DOMAIN after = (DOMAIN p.men \ {f}) \cup {t}
      /\ \A s \in DOMAIN p.men \ {f, t} : after[s] = p.men[s]
      /\ after[t] = mover
  BY <1>3, <1>4
<1>6. mover = man \/ (promotes /\ mover = [man EXCEPT !.type = m.promotion])
  BY DEF mover
<1> QED
  BY <1>5, <1>6 DEF after, f, t

\* The king of a player on a mirrored board.
LEMMA KingIsThere ==
  ASSUME NEW men, NEW player, NEW k, KingsOf(men, player) = {k}
  PROVE  /\ k \in DOMAIN men /\ men[k].type = KING /\ men[k].player = player
         /\ \A s \in DOMAIN men :
              men[s] = [type |-> KING, player |-> player] => s = k
<1>1. \A s : s \in DOMAIN men /\ men[s] = [type |-> KING, player |-> player] <=> s = k
  BY DEF KingsOf
<1> QED
  BY <1>1

\* Nobody can take a king: a man that could is tied, and taking it would leave
\* his own king in check.
LEMMA TakingTheKingIsCheck ==
  ASSUME NEW g \in EngineGames, NEW p, Mirrors(g, p), NEW m \in MoveSet,
         Pseudo(p, m), To(m) \in DOMAIN g.board, g.board[To(m)].type = KING
  PROVE  Rules!InCheck(Rules!MenAfter(p, m), p.turn)
<1> DEFINE b == g.board
           f == From(m)
           k == To(m)
           men == p.men
           other == Opponent(p.turn)
           after == Rules!MenAfter(p, m)
<1>1. /\ DOMAIN b \subseteq Squares /\ p.turn \in Players /\ DOMAIN men = DOMAIN b
      /\ \A s \in DOMAIN b : /\ b[s] \in Pieces
                             /\ men[s] = [type |-> b[s].type, player |-> b[s].player]
                             /\ men[s].type = b[s].type
                             /\ men[s].player = b[s].player
      /\ k \notin {p.skipped}
  BY MirroredBoard, MenOfBoard DEF Mirrors
<1>2. /\ f \in DOMAIN b /\ b[f].player = p.turn /\ b[k].player # p.turn
      /\ k \in Rules!Attacks(men, f)
  <2>1. Rules!Source(m) = f /\ Rules!Target(m) = k
    BY SameNames
  <2>2. k \in Rules!Attacks(men, f)
    BY TakingIsAttack
  <2> HIDE DEF f, k
  <2> QED
    BY <1>1, <2>1, <2>2 DEF Pseudo, k
<1>3. b[k].player = other /\ other \in Players
  BY <1>1, <1>2 DEF Pieces, Players, Opponent, WHITE, BLACK
<1>4. PICK w \in Squares : KingsOf(men, p.turn) = {w}
  BY <1>1 DEF Mirrors, KingsAreKept
<1>5. w \in DOMAIN men /\ men[w].type = KING /\ men[w].player = p.turn
  BY <1>4, KingIsThere
<1>6. k \in KingsOf(men, other)
  BY <1>1, <1>3 DEF KingsOf
<1>7. Tied(men, f, w, k)
  BY <1>1, <1>2, <1>4, <1>6 DEF Mirrors, KingsAreKept
<1>8. PICK x \in DOMAIN men \ {k} : /\ men[x].player # men[f].player
                                    /\ w \in Rules!Attacks(Without(men, {f}), x)
  BY <1>7 DEF Tied
<1>9. f # w /\ f # k /\ w # k /\ x # f /\ x # k
  BY <1>1, <1>2, <1>3, <1>5, <1>7, <1>8 DEF Tied
<1>10. men[f].type # KING
  BY <1>1, <1>2, <1>4, <1>9 DEF KingsOf
<1>11. /\ DOMAIN after = (DOMAIN men \ {f}) \cup {k}
       /\ \A s \in DOMAIN men \ {f, k} : after[s] = men[s]
  <2>1. /\ p.turn \in Players /\ f \in DOMAIN p.men /\ f # k
        /\ p.men[f].type # KING /\ k # p.skipped
    BY <1>1, <1>2, <1>9, <1>10
  <2> QED
    BY <2>1, MenAfterPlainly
<1> HIDE DEF after, k, f
<1>12. w \in Rules!Attacks(after, x)
  <2> DEFINE left == Without(men, {f})
  <2>1. DOMAIN left = DOMAIN men \ {f} /\ left[x] = men[x]
    BY <1>8, <1>9 DEF Without
  <2>2. DOMAIN after \subseteq DOMAIN left /\ after[x] = left[x]
    BY <1>1, <1>8, <1>9, <1>11, <2>1 DEF k
  <2> HIDE DEF left
  <2>3. Rules!Attacks(left, x) \subseteq Rules!Attacks(after, x)
    BY <2>2, FewerMenSeeMore
  <2> QED
    BY <1>8, <2>3 DEF left
<1>13. /\ x \in DOMAIN after /\ after[x].player = other
       /\ w \in DOMAIN after /\ after[w] = [type |-> KING, player |-> p.turn]
  <2>1. /\ x \in DOMAIN after /\ after[x] = men[x]
        /\ w \in DOMAIN after /\ after[w] = men[w]
    BY <1>5, <1>8, <1>9, <1>11
  <2>2. men[w] = [type |-> KING, player |-> p.turn]
    BY <1>1, <1>5
  <2>3. men[x].player = other
    BY <1>1, <1>2, <1>8 DEF Pieces, Players, Opponent, WHITE, BLACK
  <2> QED
    BY <2>1, <2>2, <2>3
<1>14. Rules!Attacked(after, w, other)
  BY <1>12, <1>13 DEF Rules!Attacked
<1>15. Rules!Opponent(p.turn) = other /\ Rules!KING = KING
  BY SameNames
<1> QED
  BY <1>13, <1>14, <1>15 DEF Rules!InCheck, after

\* A king that nobody attacks can be taken by nobody.
LEMMA SafeIsKept ==
  ASSUME NEW men, NEW turn \in Players, KingsAreSafe(men, turn)
  PROVE  KingsAreKept(men, turn)
<1>1. ASSUME NEW k \in KingsOf(men, Opponent(turn)), NEW s \in DOMAIN men,
             men[s].player = turn, k \in Rules!Attacks(men, s)
      PROVE  FALSE
  <2>1. Rules!Opponent(Opponent(turn)) = turn /\ Rules!KING = KING
    BY SameNames DEF Players, Opponent, WHITE, BLACK
  <2>2. k \in DOMAIN men /\ men[k] = [type |-> KING, player |-> Opponent(turn)]
    BY DEF KingsOf
  <2>3. Rules!Attacked(men, k, turn)
    BY <1>1 DEF Rules!Attacked
  <2>4. Rules!InCheck(men, Opponent(turn))
    BY <2>1, <2>2, <2>3 DEF Rules!InCheck
  <2> QED
    BY <2>4 DEF KingsAreSafe
<1> QED
  BY <1>1 DEF KingsAreSafe, KingsAreKept

\* A player has his king after the move if it has not been taken.
LEMMA KingsRemain ==
  ASSUME NEW g \in EngineGames, NEW p, Mirrors(g, p), NEW m \in MoveSet,
         Pseudo(p, m), NEW h \in EngineGames, PlayedOn(g, m, h),
         NEW player \in Players,
         \/ player = p.turn
         \/ To(m) \in DOMAIN g.board => g.board[To(m)].type # KING
  PROVE  \E k \in Squares : KingsOf(MenOf(h.board), player) = {k}
<1> DEFINE b == g.board
           f == From(m)
           t == To(m)
           c == h.board
<1>1. /\ DOMAIN b \subseteq Squares /\ p.turn \in Players /\ DOMAIN p.men = DOMAIN b
      /\ \A s \in DOMAIN b : /\ b[s] \in Pieces
                             /\ p.men[s].type = b[s].type
                             /\ p.men[s].player = b[s].player
      /\ p.men = MenOf(b)
  BY MirroredBoard
<1>2. DOMAIN c \subseteq Squares /\ t \in Squares
  BY BoardIs, MoveSquares DEF EngineGames
<1>3. /\ f \in DOMAIN b /\ b[f].player = p.turn
      /\ t \in DOMAIN b => b[t].player # p.turn
  <2>1. Rules!Source(m) = f /\ Rules!Target(m) = t
    BY SameNames
  <2> HIDE DEF f, t
  <2> QED
    BY <1>1, <2>1 DEF Pseudo
<1>4. \A s : s \in KingsOf(p.men, player) <=>
               s \in DOMAIN b /\ b[s].type = KING /\ b[s].player = player
  BY <1>1, KingsOfBoard
<1>5. \A s : s \in KingsOf(MenOf(c), player) <=>
               s \in DOMAIN c /\ c[s].type = KING /\ c[s].player = player
  BY KingsOfBoard
<1>6. /\ f \notin DOMAIN c /\ t \in DOMAIN c
      /\ \A s \in DOMAIN c : StillThere(g, m, h, s) \/ JustMoved(g, m, h, s)
      /\ \A s \in DOMAIN b \ DOMAIN c : Vacated(g, m, s)
  BY DEF PlayedOn
<1>7. TypeAfter(g, m) = KING <=> b[f].type = KING
  <2>1. b[f].type = PAWN /\ m.r_f = LastRow(p.turn) => m.promotion \in Promotions
    <3>1. /\ Rules!Source(m) = f /\ Rules!PAWN = PAWN /\ Rules!Promotions = Promotions
          /\ Rules!Home(Rules!Opponent(p.turn)) = LastRow(p.turn)
      BY <1>1, SameNames DEF HomeRow, LastRow, Opponent, Players, WHITE, BLACK
    <3> HIDE DEF f
    <3> QED
      BY <1>1, <1>3, <3>1 DEF Pseudo
  <2> QED
    BY <1>3, <2>1, Numbers DEF TypeAfter
<1>8. ASSUME NEW k, KingsOf(p.men, player) = {k}
      PROVE  \E x \in Squares : KingsOf(MenOf(c), player) = {x}
  <2>1. \A s : s \in DOMAIN b /\ b[s].type = KING /\ b[s].player = player <=> s = k
    BY <1>4, <1>8
  <2>2. CASE k = f
    <3>1. player = p.turn /\ b[f].type = KING
      BY <1>3, <2>1, <2>2
    <3>2. c[t].type = KING /\ c[t].player = player
      <4>1. JustMoved(g, m, h, t)
        BY <1>6 DEF StillThere
      <4> QED
        BY <1>3, <1>6, <1>7, <3>1, <4>1 DEF JustMoved
    <3>3. ASSUME NEW s \in DOMAIN c, c[s].type = KING, c[s].player = player
          PROVE  s = t
      <4>1. CASE StillThere(g, m, h, s)
        BY <1>6, <2>1, <2>2, <3>3, <4>1 DEF StillThere
      <4>2. CASE JustMoved(g, m, h, s)
        BY <3>3, <4>2, Numbers DEF JustMoved
      <4> QED
        BY <1>6, <3>3, <4>1, <4>2
    <3> QED
      BY <1>2, <1>5, <1>6, <3>2, <3>3
  <2>3. CASE k # f
    <3>1. k \in DOMAIN b /\ b[k].type = KING /\ b[k].player = player
      BY <2>1
    <3>2. k # t
      BY <1>3, <3>1 DEF t
    <3>3. k \in DOMAIN c
      BY <1>6, <2>3, <3>1, Numbers DEF Vacated
    <3>4. c[k] = b[k]
      <4>1. ~JustMoved(g, m, h, k)
        BY <3>1, <3>2 DEF JustMoved
      <4> QED
        BY <1>6, <3>3, <4>1 DEF StillThere
    <3>5. ASSUME NEW s \in DOMAIN c, c[s].type = KING, c[s].player = player
          PROVE  s = k
      <4>1. CASE StillThere(g, m, h, s)
        BY <2>1, <3>5, <4>1 DEF StillThere
      <4>2. CASE JustMoved(g, m, h, s)
        <5>1. TypeAfter(g, m) = KING /\ player = p.turn
          BY <1>3, <3>5, <4>2, Numbers DEF JustMoved
        <5>2. f = k
          BY <1>3, <1>7, <2>1, <5>1
        <5> QED
          BY <2>3, <5>2
      <4> QED
        BY <1>6, <3>5, <4>1, <4>2
    <3> QED
      BY <1>2, <1>5, <3>1, <3>3, <3>4, <3>5
  <2> QED
    BY <2>2, <2>3
<1>9. \E k \in Squares : KingsOf(p.men, player) = {k}
  BY DEF Mirrors, KingsAreKept
<1> QED
  BY <1>8, <1>9

-----------------------------------------------------------------------------
(* Legal moves. *)
\* make_move() lets exactly the legal moves pass, and plays them by the rules.
LEMMA AcceptedIsLegal ==
  ASSUME NEW g \in EngineGames, NEW p, Mirrors(g, p), NEW m \in MoveSet
  PROVE  LET r == MakeMoveNoCheckmate(g, m)
         IN  /\ r.code >= 0 <=> Rules!Legal(p, m)
             /\ r.code >= 0 => /\ r.code = OK /\ Pseudo(p, m)
                               /\ r.game \in EngineGames
                               /\ PlayedOn(g, m, r.game)
                               /\ MenOf(r.game.board) = Rules!MenAfter(p, m)
<1> DEFINE r == MakeMoveNoCheckmate(g, m)
           report == IsIllegal(g, m, p.turn)
           before == [g EXCEPT !.board = report.board]
           h == Executed(before, m, report)
<1>1. /\ p.turn = GetPlayer(g) /\ p.turn \in Players
      /\ \A s \in DOMAIN g.board : g.board[s] \in Pieces
  BY MirroredBoard
<1>2. r = IF report.code < 0 THEN [code |-> report.code, game |-> before]
          ELSE UnlessInCheck(before, h)
  BY <1>1 DEF MakeMoveNoCheckmate, AfterReport
<1>3. /\ report.code \in ReportCodes
      /\ OnlyPromotes(g.board, report.board)
      /\ report.code >= 0 => From(m) \in DOMAIN g.board
      /\ report.castle # None =>
           /\ From(report.castle) \in DOMAIN g.board \ {From(m)}
           /\ To(report.castle) \in Squares
  BY <1>1, IsIllegalPromotes
<1>4. report.code >= 0 <=> Pseudo(p, m)
  BY ReportIsPseudo
<1>5. Rules!Legal(p, m) <=>
        Pseudo(p, m) /\ ~Rules!InCheck(Rules!MenAfter(p, m), p.turn)
  <2>1. Rules!Legal(p, m) <=>
          /\ Pseudo(p, m) /\ ~Rules!InCheck(Rules!MenAfter(p, m), p.turn)
          /\ Rules!Target(m) \in DOMAIN p.men => p.men[Rules!Target(m)].type # Rules!KING
    BY Zenon DEF Rules!Legal, Pseudo
  <2>2. /\ Rules!Target(m) = To(m) /\ Rules!KING = KING
        /\ To(m) \in DOMAIN p.men =>
             To(m) \in DOMAIN g.board /\ p.men[To(m)].type = g.board[To(m)].type
    BY SameNames, MirroredBoard
  <2> QED
    BY <2>1, <2>2, TakingTheKingIsCheck
<1>6. report.code \in Int
  BY <1>3, Numbers DEF ReportCodes
<1>7. GetPlayer(before) = p.turn
  BY <1>1 DEF GetPlayer, EngineGames
<1>8. ASSUME report.code >= 0
      PROVE  /\ h \in EngineGames /\ PlayedOn(g, m, h)
             /\ MenOf(h.board) = Rules!MenAfter(p, m)
             /\ CheckOn(h, p.turn).attacked <=>
                  Rules!InCheck(Rules!MenAfter(p, m), p.turn)
  <2>1. PlayedOn(g, m, h) /\ MenOf(h.board) = Rules!MenAfter(p, m)
    BY <1>8, ExecutedIsPlayed
  <2>2. before \in EngineGames /\ DOMAIN before.board = DOMAIN g.board
    <3>1. report.board \in Boards
      BY <1>3, PromotionIsBoard DEF EngineGames
    <3>2. DOMAIN report.board = DOMAIN g.board
      BY <1>3 DEF OnlyPromotes
    <3> HIDE DEF report
    <3> QED
      BY <3>1, <3>2 DEF EngineGames
  <2>3. report.captured = None \/ report.castle = None
    BY DEF IsIllegal, KingReport, StepReport, PawnReport, Rejected, Report
  <2> HIDE DEF report, before
  <2>4. h \in EngineGames
    BY <1>3, <1>8, <2>2, <2>3, ExecutedIsGame
  <2> HIDE DEF h
  <2>5. PICK k \in Squares : KingsOf(MenOf(h.board), p.turn) = {k}
    BY <1>1, <1>4, <1>8, <2>1, <2>4, KingsRemain
  <2>6. CheckOn(h, p.turn).attacked <=> Rules!InCheck(MenOf(h.board), p.turn)
    BY <1>1, <2>4, <2>5, CheckIsInCheck
  <2> QED
    BY <2>1, <2>4, <2>6
<1> HIDE DEF r, report, before, h
<1>9. CASE report.code >= 0
  <2>1. r = IF CheckOn(h, p.turn).attacked
              THEN [code |-> ILLEGAL_MOVE, game |-> before]
              ELSE [code |-> OK, game |-> h]
    BY <1>2, <1>6, <1>7, <1>9 DEF UnlessInCheck
  <2>2. CASE CheckOn(h, p.turn).attacked
    BY <1>5, <1>8, <1>9, <2>1, <2>2, Numbers DEF r
  <2>3. CASE ~CheckOn(h, p.turn).attacked
    <3>1. r.code = OK /\ r.game = h
      BY <2>1, <2>3
    <3>2. Rules!Legal(p, m) /\ Pseudo(p, m)
      BY <1>4, <1>5, <1>8, <1>9, <2>3
    <3> QED
      BY <1>8, <1>9, <3>1, <3>2, Numbers DEF r
  <2> QED
    BY <2>2, <2>3
<1>10. CASE report.code < 0
  <2>1. r.code = report.code
    BY <1>2, <1>10
  <2> QED
    BY <1>4, <1>5, <1>6, <1>10, <2>1 DEF r
<1> QED
  BY <1>6, <1>9, <1>10

-----------------------------------------------------------------------------
(* What the rules know of the past. *)
\* A pawn's move: one row on, or two from his own row.
LEMMA PawnGoes ==
  ASSUME NEW g \in EngineGames, NEW p, Mirrors(g, p), NEW m \in MoveSet,
         Pseudo(p, m), g.board[From(m)].type = PAWN
  PROVE  LET man == g.board[From(m)]
             dir == Direction(p.turn)
         IN  /\ From(m) \in DOMAIN g.board /\ g.board[From(m)].player = p.turn
             /\ man.moves = 0 <=> m.r_i = IF p.turn = WHITE THEN 6 ELSE 1
             /\ IF p.turn = WHITE THEN m.r_i < 7 ELSE m.r_i > 0
             /\ \/ m.r_f = m.r_i + dir
                \/ /\ m.r_f = m.r_i + 2 * dir /\ m.c_f = m.c_i /\ man.moves = 0
                   /\ <<m.r_i + dir, m.c_i>> \notin DOMAIN g.board
             /\ m.r_f = LastRow(p.turn) => m.promotion \in Promotions
<1> DEFINE b == g.board
           f == From(m)
           r == IsIllegal(g, m, p.turn)
           dir == Direction(p.turn)
<1>1. /\ m.r_i \in 0 .. 7 /\ m.c_i \in 0 .. 7 /\ m.r_f \in 0 .. 7 /\ m.c_f \in 0 .. 7
      /\ f[1] = m.r_i
  BY MoveSquares
<1>2. /\ f \in DOMAIN b /\ b[f].player = p.turn
      /\ PawnAdvances(b, m) \/ PawnTakes(g, m)
      /\ m.r_f = LastRow(p.turn) => m.promotion \in Promotions
  <2>1. r.code >= 0
    BY ReportIsPseudo
  <2> QED
    BY <2>1, PassedReport
<1>3. dir \in {-1, 1} /\ p.turn \in Players
  BY MirroredBoard DEF Direction
<1>4. \/ m.r_f = m.r_i + dir
      \/ /\ m.r_f = m.r_i + 2 * dir /\ m.c_f = m.c_i /\ b[f].moves = 0
         /\ <<m.r_i + dir, m.c_i>> \notin DOMAIN b
  <2>1. CASE PawnTakes(g, m)
    BY <1>1, <1>2, <1>3, <2>1 DEF PawnTakes, RowDiff
  <2>2. CASE PawnAdvances(b, m)
    <3>1. /\ ColDiff(m) = 0 /\ <<m.r_i + 1 * dir, m.c_i>> \notin DOMAIN b
          /\ RowDiff(m) = dir \/ (RowDiff(m) = 2 * dir /\ b[f].moves = 0)
      BY <1>2, <2>2 DEF PawnAdvances, Occupied
    <3>2. 1 * dir = dir
      BY <1>3
    <3> HIDE DEF dir
    <3> QED
      BY <1>1, <1>3, <3>1, <3>2 DEF RowDiff, ColDiff
  <2> QED
    BY <1>2, <2>1, <2>2
<1>5. /\ b[f].moves = 0 <=> m.r_i = IF p.turn = WHITE THEN 6 ELSE 1
      /\ IF p.turn = WHITE THEN m.r_i < 7 ELSE m.r_i > 0
  <2>1. b[f].moves = 0 => m.r_i = IF p.turn = WHITE THEN 6 ELSE 1
    <3>1. Home(b[f]) = {IF p.turn = WHITE THEN 6 ELSE 1} \X Coord
      BY <1>2, Numbers DEF Home
    <3> QED
      BY <1>1, <1>2, <3>1, MirroredBoard, HomeOf, Numbers
  <2>2. b[f].moves # 0 => IF p.turn = WHITE THEN m.r_i < 6 ELSE m.r_i > 1
    BY <1>1, <1>2 DEF PastIsInOrder, Mirrors
  <2> QED
    BY <1>1, <2>1, <2>2
<1> QED
  BY <1>2, <1>4, <1>5

\* `moves' goes on to stand for the rights to castle.
LEMMA RightsAfter ==
  ASSUME NEW g \in EngineGames, NEW p, Mirrors(g, p), NEW m \in MoveSet,
         NEW h, PlayedOn(g, m, h), From(m) \in DOMAIN g.board
  PROVE  RightsOf(h.board) =
           p.rights \ (Rules!RightsLost(From(m)) \cup Rules!RightsLost(To(m)))
<1> DEFINE b == g.board
           c == h.board
           f == From(m)
           t == To(m)
           King(s) == <<s[1], 4>>
<1>1. p.rights = RightsOf(b)
  BY DEF Mirrors
<1>2. /\ f \notin DOMAIN c /\ t \in DOMAIN c
      /\ \A s \in DOMAIN c : StillThere(g, m, h, s) \/ JustMoved(g, m, h, s)
      /\ \A s \in DOMAIN b \ DOMAIN c : Vacated(g, m, s)
  BY DEF PlayedOn
<1>3. \A s, x : x \in Rules!RightsLost(s) <=>
        \/ x = s
        \/ s \in {<<0, 4>>, <<7, 4>>} /\ x \in {<<s[1], 0>>, <<s[1], 7>>}
  BY DEF Rules!RightsLost
<1>4. \A x, s : s \in RightsOf(x) <=>
        /\ s \in {0, 7} \X {0, 7} /\ s \in DOMAIN x /\ x[s].type = ROOK
        /\ x[s].moves = 0 /\ King(s) \in DOMAIN x
        /\ x[King(s)].type = KING /\ x[King(s)].moves = 0
        /\ x[King(s)].player = x[s].player
  BY DEF RightsOf, Occupied
<1>5. \A s \in DOMAIN c : c[s].moves = 0 => s \in DOMAIN b /\ s # f /\ s # t /\ c[s] = b[s]
  <2>1. b[f].moves + 1 # 0
    BY MirroredBoard DEF Pieces
  <2> QED
    BY <1>2, <2>1 DEF StillThere, JustMoved
<1>6. ASSUME NEW s \in RightsOf(c)
      PROVE  s \in p.rights /\ s \notin Rules!RightsLost(f) /\ s \notin Rules!RightsLost(t)
  <2>1. /\ s \in {0, 7} \X {0, 7} /\ s \in DOMAIN c /\ c[s].type = ROOK
        /\ c[s].moves = 0 /\ King(s) \in DOMAIN c
        /\ c[King(s)].type = KING /\ c[King(s)].moves = 0
        /\ c[King(s)].player = c[s].player
    BY <1>4, <1>6
  <2>2. /\ s \in DOMAIN b /\ s # f /\ s # t /\ c[s] = b[s]
        /\ King(s) \in DOMAIN b /\ King(s) # f /\ King(s) # t
        /\ c[King(s)] = b[King(s)]
    BY <1>5, <2>1
  <2>3. s \in p.rights
    <3> HIDE DEF King
    <3> QED
      BY <1>1, <1>4, <2>1, <2>2
  <2>4. ASSUME NEW x, x # s, x # King(s)
        PROVE  s \notin Rules!RightsLost(x)
    <3>1. SUFFICES ASSUME x \in {<<0, 4>>, <<7, 4>>}, s \in {<<x[1], 0>>, <<x[1], 7>>}
                   PROVE  FALSE
      BY <1>3, <2>4
    <3>2. s[1] = x[1]
      BY <3>1
    <3>3. x = <<x[1], 4>>
      BY <3>1
    <3> QED
      BY <2>4, <3>2, <3>3
  <2> QED
    BY <2>2, <2>3, <2>4
<1>7. ASSUME NEW s \in p.rights, s \notin Rules!RightsLost(f), s \notin Rules!RightsLost(t)
      PROVE  s \in RightsOf(c)
  <2>1. /\ s \in {0, 7} \X {0, 7} /\ s \in DOMAIN b /\ b[s].type = ROOK
        /\ b[s].moves = 0 /\ King(s) \in DOMAIN b
        /\ b[King(s)].type = KING /\ b[King(s)].moves = 0
        /\ b[King(s)].player = b[s].player
    BY <1>1, <1>4, <1>7
  <2>2. s[1] \in {0, 7} /\ s \in {<<s[1], 0>>, <<s[1], 7>>}
    BY <2>1
  <2>3. King(s) \in {<<0, 4>>, <<7, 4>>} /\ King(s)[1] = s[1]
    BY <2>2
  <2> HIDE DEF King
  <2>4. s # f /\ s # t /\ King(s) # f /\ King(s) # t
    BY <1>3, <1>7, <2>2, <2>3
  <2>5. s \in DOMAIN c /\ King(s) \in DOMAIN c
    <3>1. ASSUME NEW x, x \in {s, King(s)}, x \notin DOMAIN c
          PROVE  FALSE
      <4>1. Vacated(g, m, x)
        BY <1>2, <2>1, <3>1
      <4>2. /\ f = <<m.r_i, 4>> /\ m.r_i \in {0, 7} /\ b[x].type = ROOK
            /\ x \in {<<m.r_i, 0>>, <<m.r_i, 7>>}
        BY <2>1, <2>4, <3>1, <4>1, MenAreNumbers DEF Vacated
      <4>3. x = s
        BY <2>1, <3>1, <4>2, MenAreNumbers
      <4>4. f \in {<<0, 4>>, <<7, 4>>} /\ f[1] = m.r_i
        BY <4>2
      <4> QED
        BY <1>3, <1>7, <4>2, <4>3, <4>4
    <3> QED
      BY <3>1
  <2>6. c[s] = b[s] /\ c[King(s)] = b[King(s)]
    BY <1>2, <2>1, <2>4, <2>5 DEF StillThere, JustMoved
  <2> QED
    BY <1>4, <2>1, <2>5, <2>6
<1> QED
  BY <1>6, <1>7

\* `last_move' goes on to stand for the square that a pawn has skipped.
LEMMA SkippedAfter ==
  ASSUME NEW g \in EngineGames, NEW p, Mirrors(g, p), NEW m \in MoveSet,
         Pseudo(p, m), NEW h \in EngineGames, PlayedOn(g, m, h)
  PROVE  LET next == Rules!Played(p, m)
         IN  /\ {<<s[1] + Direction(next.turn), s[2]>> : s \in JustPassed(h)} =
                  {next.skipped} \ {None}
             /\ next.skipped \notin DOMAIN h.board
<1> DEFINE b == g.board
           c == h.board
           f == From(m)
           t == To(m)
           other == Opponent(p.turn)
           dir == Direction(p.turn)
           double == b[f].type = PAWN /\ (m.r_f - m.r_i) \in {-2, 2}
           skipped == IF double THEN <<(m.r_i + m.r_f) \div 2, m.c_i>> ELSE <<>>
<1>1. /\ m.r_i \in 0 .. 7 /\ m.c_i \in 0 .. 7 /\ m.r_f \in 0 .. 7 /\ m.c_f \in 0 .. 7
      /\ f = <<m.r_i, m.c_i>> /\ t = <<m.r_f, m.c_f>> /\ f \in Squares /\ t \in Squares
      /\ t[1] = m.r_f /\ t[2] = m.c_f
  BY MoveSquares
<1>2. /\ DOMAIN b \subseteq Squares /\ p.turn \in Players /\ DOMAIN p.men = DOMAIN b
      /\ \A s \in DOMAIN b : b[s] \in Pieces /\ p.men[s].type = b[s].type
                             /\ p.men[s].player = b[s].player
                             /\ b[s].last_move <= g.duration
      /\ GetPlayer(g) = p.turn
  BY MirroredBoard DEF PastIsInOrder
<1>3. f \in DOMAIN b /\ b[f].player = p.turn
  <2>1. Rules!Source(m) = f
    BY SameNames
  <2> HIDE DEF f
  <2> QED
    BY <1>2, <2>1 DEF Pseudo
<1>4. Rules!Played(p, m).turn = other /\ Rules!Played(p, m).skipped = skipped
  <2>1. /\ Rules!Source(m) = f /\ p.men[f].type = b[f].type /\ Rules!PAWN = PAWN
        /\ Rules!Opponent(p.turn) = other
    BY <1>2, <1>3, SameNames
  <2> HIDE DEF f, other
  <2> QED
    BY <2>1 DEF Rules!Played, Rules!Position
<1>5. /\ f \notin DOMAIN c /\ t \in DOMAIN c /\ h.duration = g.duration + 1
      /\ g.duration \in Nat /\ DOMAIN c \subseteq Squares
      /\ \A s \in DOMAIN c : StillThere(g, m, h, s) \/ JustMoved(g, m, h, s)
  BY BoardIs DEF PlayedOn, EngineGames
<1>6. GetPlayer(h) = other /\ Opponent(other) = p.turn
  <2>1. h.duration % 2 = 0 <=> g.duration % 2 # 0
    BY <1>5
  <2> QED
    BY <1>2, <2>1 DEF GetPlayer, Opponent, Players, WHITE, BLACK
<1>7. /\ dir = (IF p.turn = WHITE THEN -1 ELSE 1)
      /\ Direction(other) = -dir /\ dir \in {-1, 1}
      /\ other = WHITE <=> p.turn # WHITE
  BY <1>2 DEF Direction, Opponent, Players, WHITE, BLACK
<1>8. \A s : s \in JustPassed(h) <=>
        /\ s = t /\ TypeAfter(g, m) = PAWN /\ b[f].moves + 1 = 1
        /\ t[1] = (IF p.turn # WHITE THEN 3 ELSE 4)
  <2>1. \A s : s \in JustPassed(h) <=>
          /\ s \in DOMAIN c /\ c[s].player = p.turn /\ c[s].type = PAWN
          /\ c[s].moves = 1 /\ c[s].last_move = g.duration + 1
          /\ s[1] = (IF p.turn # WHITE THEN 3 ELSE 4)
    BY <1>5, <1>6, <1>7 DEF JustPassed, HeldBy
  <2>2. \A s \in DOMAIN c : StillThere(g, m, h, s) => c[s].last_move # g.duration + 1
    <3>1. \A s \in DOMAIN b : b[s].last_move \in Nat
      BY <1>2 DEF Pieces
    <3> QED
      BY <1>2, <1>5, <3>1 DEF StillThere
  <2>3. ASSUME NEW s \in DOMAIN c, JustMoved(g, m, h, s)
        PROVE  /\ c[s].type = PAWN => s = t
               /\ s = t => /\ c[s].player = p.turn /\ c[s].last_move = g.duration + 1
                           /\ c[s].type = TypeAfter(g, m)
                           /\ c[s].moves = b[f].moves + 1
    BY <1>3, <2>3, MenAreNumbers DEF JustMoved
  <2>4. JustMoved(g, m, h, t)
    BY <1>5 DEF StillThere
  <2> HIDE DEF t, f
  <2> QED
    BY <1>5, <2>1, <2>2, <2>3, <2>4 DEF t
<1>9. /\ double <=> /\ TypeAfter(g, m) = PAWN /\ b[f].moves + 1 = 1
                    /\ m.r_f = (IF p.turn # WHITE THEN 3 ELSE 4)
      /\ double => /\ skipped = <<m.r_f - dir, m.c_f>>
                   /\ skipped \notin DOMAIN b /\ skipped # t
  <2>1. CASE b[f].type # PAWN
    BY <2>1 DEF TypeAfter
  <2>2. CASE b[f].type = PAWN
    <3>1. /\ b[f].moves = 0 <=> m.r_i = IF p.turn = WHITE THEN 6 ELSE 1
          /\ IF p.turn = WHITE THEN m.r_i < 7 ELSE m.r_i > 0
          /\ \/ m.r_f = m.r_i + dir
             \/ /\ m.r_f = m.r_i + 2 * dir /\ m.c_f = m.c_i /\ b[f].moves = 0
                /\ <<m.r_i + dir, m.c_i>> \notin DOMAIN b
          /\ m.r_f = LastRow(p.turn) => m.promotion \in Promotions
      BY <2>2, PawnGoes
    <3>2. b[f].moves \in Nat
      BY <1>2, <1>3 DEF Pieces
    <3>3. TypeAfter(g, m) = PAWN <=> m.r_f # LastRow(p.turn)
      BY <1>3, <2>2, <3>1, Numbers DEF TypeAfter
    <3>4. LastRow(p.turn) = IF p.turn = WHITE THEN 0 ELSE 7
      BY DEF LastRow
    <3>5. double <=> /\ TypeAfter(g, m) = PAWN /\ b[f].moves + 1 = 1
                     /\ m.r_f = (IF p.turn # WHITE THEN 3 ELSE 4)
      <4> HIDE DEF f, dir
      <4>1. CASE p.turn = WHITE
        BY <1>1, <1>7, <2>2, <3>1, <3>2, <3>3, <3>4, <4>1
      <4>2. CASE p.turn # WHITE
        BY <1>1, <1>7, <2>2, <3>1, <3>2, <3>3, <3>4, <4>2
      <4> QED
        BY <4>1, <4>2
    <3>6. ASSUME double
          PROVE  /\ skipped = <<m.r_f - dir, m.c_f>>
                 /\ skipped \notin DOMAIN b /\ skipped # t
      <4>1. /\ m.r_f = m.r_i + 2 * dir /\ m.c_f = m.c_i
            /\ <<m.r_i + dir, m.c_i>> \notin DOMAIN b
        BY <1>1, <1>7, <3>1, <3>6
      <4>2. (m.r_i + m.r_f) \div 2 = m.r_i + dir
        <5> HIDE DEF dir
        <5>1. CASE dir = 1
          BY <1>1, <4>1, <5>1
        <5>2. CASE dir = -1
          BY <1>1, <4>1, <5>2
        <5> QED
          BY <1>7, <5>1, <5>2
      <4>3. m.r_f - dir = m.r_i + dir /\ m.r_i + dir # m.r_f
        <5> HIDE DEF dir
        <5>1. m.r_f = m.r_i + 2 * dir /\ (dir = 1 \/ dir = -1) /\ m.r_i \in Int /\ m.r_f \in Int
          BY <1>1, <1>7, <4>1
        <5> QED
          BY <5>1
      <4>4. skipped = <<m.r_i + dir, m.c_i>>
        BY <3>6, <4>2
      <4> HIDE DEF skipped, dir
      <4> QED
        BY <1>1, <4>1, <4>3, <4>4
    <3> QED
      BY <3>5, <3>6
  <2> QED
    BY <2>1, <2>2
<1> DEFINE behind == {<<s[1] + Direction(other), s[2]>> : s \in JustPassed(h)}
<1> HIDE DEF double, other, dir
<1>10. behind = {skipped} \ {None}
  <2>1. CASE double
    <3>1. JustPassed(h) = {t}
      BY <1>1, <1>8, <1>9, <2>1
    <3>2. behind = {<<t[1] + Direction(other), t[2]>>}
      BY <3>1
    <3>3. t[1] + Direction(other) = m.r_f - dir
      BY <1>1, <1>7
    <3>4. skipped # None
      BY <1>9, <2>1 DEF None
    <3> HIDE DEF skipped, behind, t
    <3> QED
      BY <1>1, <1>9, <2>1, <3>2, <3>3, <3>4
  <2>2. CASE ~double
    <3>1. JustPassed(h) = {}
      BY <1>1, <1>8, <1>9, <2>2
    <3>2. behind = {}
      BY <3>1
    <3>3. skipped = None
      BY <2>2 DEF None
    <3> HIDE DEF skipped, behind
    <3> QED
      BY <3>2, <3>3
  <2> QED
    BY <2>1, <2>2
<1>11. skipped \notin DOMAIN c
  <2>1. CASE double
    <3>1. skipped \notin DOMAIN b /\ skipped # t /\ b[f].type # KING
      BY <1>9, <2>1, Numbers DEF double
    <3> HIDE DEF skipped
    <3> QED
      BY <1>5, <3>1 DEF StillThere, JustMoved
  <2>2. CASE ~double
    <3>1. skipped = <<>>
      BY <2>2
    <3>2. <<>> \notin Squares
      BY DEF Squares
    <3> QED
      BY <1>5, <3>1, <3>2
  <2> QED
    BY <2>1, <2>2
<1> HIDE DEF skipped
<1> QED
  BY <1>4, <1>10, <1>11

\* The past stays in order.
LEMMA PastAfter ==
  ASSUME NEW g \in EngineGames, NEW p, Mirrors(g, p), NEW m \in MoveSet,
         Pseudo(p, m), NEW h \in EngineGames, PlayedOn(g, m, h)
  PROVE  PastIsInOrder(h)
<1> DEFINE b == g.board
           c == h.board
           f == From(m)
           t == To(m)
<1>1. /\ m.r_i \in 0 .. 7 /\ m.r_f \in 0 .. 7 /\ t[1] = m.r_f /\ p.turn \in Players
      /\ \A s \in DOMAIN b : b[s] \in Pieces
      /\ PastIsInOrder(g)
  BY MoveSquares, MirroredBoard
<1>2. /\ h.duration = g.duration + 1 /\ g.duration \in Nat
      /\ \A s \in DOMAIN c : StillThere(g, m, h, s) \/ JustMoved(g, m, h, s)
  BY DEF PlayedOn, EngineGames
<1>3. ASSUME NEW s \in DOMAIN c
      PROVE  /\ c[s].last_move <= h.duration
             /\ c[s].type = PAWN /\ c[s].moves # 0 =>
                  IF c[s].player = WHITE THEN s[1] < 6 ELSE s[1] > 1
  <2>1. CASE StillThere(g, m, h, s)
    <3>1. s \in DOMAIN b /\ c[s] = b[s] /\ b[s].last_move \in Nat
      BY <1>1, <2>1 DEF StillThere, Pieces
    <3> QED
      BY <1>1, <1>2, <3>1 DEF PastIsInOrder
  <2>2. CASE JustMoved(g, m, h, s)
    <3>1. c[s].last_move <= h.duration
      BY <1>2, <2>2 DEF JustMoved
    <3>2. ASSUME c[s].type = PAWN
          PROVE  IF c[s].player = WHITE THEN s[1] < 6 ELSE s[1] > 1
      <4>1. /\ s = t /\ TypeAfter(g, m) = PAWN /\ c[s].player = b[f].player
        BY <2>2, <3>2, MenAreNumbers DEF JustMoved
      <4>2. b[f].type = PAWN
        <5>1. SUFFICES ASSUME b[f].type # PAWN PROVE FALSE
          OBVIOUS
        <5> QED
          BY <4>1, <5>1 DEF TypeAfter
      <4>3. /\ b[f].player = p.turn
            /\ b[f].moves = 0 <=> m.r_i = IF p.turn = WHITE THEN 6 ELSE 1
            /\ IF p.turn = WHITE THEN m.r_i < 7 ELSE m.r_i > 0
            /\ \/ m.r_f = m.r_i + Direction(p.turn)
               \/ m.r_f = m.r_i + 2 * Direction(p.turn) /\ b[f].moves = 0
            /\ f \in DOMAIN b
        BY <4>2, PawnGoes
      <4>4. b[f].moves # 0 => IF p.turn = WHITE THEN f[1] < 6 ELSE f[1] > 1
        BY <1>1, <4>2, <4>3 DEF PastIsInOrder
      <4>5. f[1] = m.r_i
        BY MoveSquares
      <4> HIDE DEF f, t
      <4>6. CASE p.turn = WHITE
        BY <1>1, <4>1, <4>3, <4>4, <4>5, <4>6 DEF Direction
      <4>7. CASE p.turn # WHITE
        BY <1>1, <4>1, <4>3, <4>4, <4>5, <4>7 DEF Direction
      <4> QED
        BY <4>6, <4>7
    <3> QED
      BY <3>1, <3>2
  <2> QED
    BY <1>2, <2>1, <2>2
<1> QED
  BY <1>3 DEF PastIsInOrder

\* After a legal move the engine's game is the rules' position again.
LEMMA MirrorsAfter ==
  ASSUME NEW g \in EngineGames, NEW p, Mirrors(g, p), NEW m \in MoveSet,
         Rules!Legal(p, m), Pseudo(p, m), NEW h \in EngineGames, PlayedOn(g, m, h),
         MenOf(h.board) = Rules!MenAfter(p, m)
  PROVE  Mirrors(h, Rules!Played(p, m))
<1> DEFINE next == Rules!Played(p, m)
           other == Opponent(p.turn)
<1>1. /\ Rules!Opponent(p.turn) = other /\ Opponent(other) = p.turn /\ other \in Players
      /\ Rules!Source(m) = From(m) /\ Rules!Target(m) = To(m)
      /\ GetPlayer(g) = p.turn /\ DOMAIN p.men = DOMAIN g.board
  BY MirroredBoard, SameNames DEF Opponent, Players, WHITE, BLACK
<1>2. /\ next.men = Rules!MenAfter(p, m) /\ next.turn = other
      /\ next.rights = p.rights \ (Rules!RightsLost(From(m)) \cup Rules!RightsLost(To(m)))
  BY <1>1 DEF Rules!Played, Rules!Position
<1>3. GetPlayer(h) = other
  <2>1. h.duration = g.duration + 1 /\ g.duration \in Nat
    BY DEF PlayedOn, EngineGames
  <2>2. h.duration % 2 = 0 <=> g.duration % 2 # 0
    BY <2>1
  <2> QED
    BY <1>1, <2>2 DEF GetPlayer, Opponent, WHITE, BLACK
<1>4. next.rights = RightsOf(h.board)
  <2>1. From(m) \in DOMAIN g.board
    BY <1>1 DEF Pseudo
  <2> QED
    BY <1>2, <2>1, RightsAfter
<1>5. /\ {<<s[1] + Direction(next.turn), s[2]>> : s \in JustPassed(h)} =
           {next.skipped} \ {None}
      /\ next.skipped \notin DOMAIN next.men
  <2>1. DOMAIN MenOf(h.board) = DOMAIN h.board
    BY MenOfBoard
  <2> QED
    BY <1>2, <2>1, SkippedAfter
<1>6. KingsAreKept(next.men, next.turn)
  <2>1. ~Rules!InCheck(Rules!MenAfter(p, m), p.turn)
    BY DEF Rules!Legal
  <2>2. To(m) \in DOMAIN g.board => g.board[To(m)].type # KING
    BY <1>1, SameNames, MirroredBoard DEF Rules!Legal
  <2>3. \A player \in Players : \E k \in Squares : KingsOf(MenOf(h.board), player) = {k}
    BY <2>2, KingsRemain
  <2>4. KingsAreSafe(next.men, next.turn)
    BY <1>1, <1>2, <2>1, <2>3 DEF KingsAreSafe
  <2> HIDE DEF next
  <2> QED
    BY <1>1, <1>2, <2>4, SafeIsKept
<1>7. PastIsInOrder(h)
  BY PastAfter
<1> HIDE DEF next
<1> QED
  BY <1>2, <1>3, <1>4, <1>5, <1>6, <1>7 DEF Mirrors, next

-----------------------------------------------------------------------------
(* What a question leaves. *)
\* Board c is board b, but that men may have become queens.
MakesQueens(b, c) ==
  \A s \in DOMAIN b : c[s] # b[s] => c[s] = [b[s] EXCEPT !.type = QUEEN]

\* Board c is board b, but for men of one player.
TouchesOnly(b, c, player) ==
  \A s \in DOMAIN b : c[s] # b[s] => b[s].player = player

\* Every question of piece_is_attacked() asks for a queen.
LEMMA AnswerMakesQueens ==
  ASSUME NEW g, NEW m, m.promotion = QUEEN, NEW player
  PROVE  LET c == StepReport(g, m, player).board
         IN  MakesQueens(g.board, c) /\ TouchesOnly(g.board, c, player)
<1> DEFINE b == g.board
           c == StepReport(g, m, player).board
           queened == [b EXCEPT ![From(m)].type = QUEEN]
<1>1. c = b \/ (c = queened /\ b[From(m)].player = player)
  BY DEF StepReport, PawnReport, Rejected, Report, MayTry
<1>2. MakesQueens(b, b) /\ TouchesOnly(b, b, player)
  BY DEF MakesQueens, TouchesOnly
<1>3. MakesQueens(b, queened)
  BY DEF MakesQueens
<1>4. b[From(m)].player = player => TouchesOnly(b, queened, player)
  BY DEF TouchesOnly
<1> HIDE DEF c, queened
<1> QED
  BY <1>1, <1>2, <1>3, <1>4 DEF c

\* So a question leaves queens at the most, of the player who attacks.
LEMMA AttackMakesQueens ==
  ASSUME NEW g \in EngineGames, NEW square, NEW player \in Players
  PROVE  LET c == Attack(g, square, player).board
         IN  MakesQueens(g.board, c) /\ TouchesOnly(g.board, c, Opponent(player))
<1> DEFINE b == g.board
           asked == Asked(g, square, player)
           other == Opponent(player)
           s == FirstOf({t \in HeldBy(b, other) :
                  StepReport(asked, MoveOf(t, square, QUEEN), other).code >= 0})
           m == MoveOf(s, square, QUEEN)
           after == StepReport(asked, m, other).board
           final == IF Occupied(b, square) THEN after ELSE Without(after, {square})
<1>1. Attack(g, square, player).board = b \/ Attack(g, square, player).board = final
  BY DEF Attack
<1>2. m.promotion = QUEEN
  BY DEF MoveOf
<1> HIDE DEF m, other
<1>3. MakesQueens(asked.board, after) /\ TouchesOnly(asked.board, after, other)
  BY <1>2, AnswerMakesQueens
<1>4. /\ \A t \in DOMAIN b : t \in DOMAIN asked.board /\ asked.board[t] = b[t]
      /\ Occupied(b, square) => asked.board = b
  BY DEF Asked, With, Occupied, EngineGames
<1>5. MakesQueens(b, final) /\ TouchesOnly(b, final, other)
  <2>1. CASE Occupied(b, square)
    BY <1>3, <1>4, <2>1
  <2>2. CASE ~Occupied(b, square)
    <3>1. DOMAIN b \subseteq DOMAIN after
      <4>1. DOMAIN after = DOMAIN asked.board
        BY DEF StepReport, PawnReport, Rejected, Report
      <4> QED
        BY <1>4, <4>1
    <3>2. \A t \in DOMAIN b : final[t] = after[t]
      BY <2>2, <3>1 DEF Without, Occupied
    <3> HIDE DEF final, after, asked
    <3> QED
      BY <1>3, <1>4, <3>2 DEF MakesQueens, TouchesOnly
  <2> QED
    BY <2>1, <2>2
<1>6. MakesQueens(b, b) /\ TouchesOnly(b, b, other)
  BY DEF MakesQueens, TouchesOnly
<1> HIDE DEF final
<1> QED
  BY <1>1, <1>5, <1>6 DEF other

-----------------------------------------------------------------------------
(* What a rejected move leaves. *)
\* Kings stay kept when men of the opponent become queens, and men of the
\* player whose turn it is become something that is tied.
LEMMA KingsKeptByChange ==
  ASSUME NEW men, NEW other, NEW turn \in Players,
         KingsAreKept(men, turn),
         DOMAIN men \subseteq Squares, DOMAIN other = DOMAIN men,
         \A s \in DOMAIN men : other[s].player = men[s].player,
         \A s \in DOMAIN men : men[s].player \in Players,
         \A player \in Players : KingsOf(other, player) = KingsOf(men, player),
         \A s \in DOMAIN men : men[s].player # turn /\ other[s] # men[s] =>
            men[s].type = PAWN /\ other[s].type = QUEEN,
         \A w \in KingsOf(men, turn), k \in KingsOf(men, Opponent(turn)),
            s \in DOMAIN men :
            men[s].player = turn /\ other[s] # men[s] => Tied(other, s, w, k)
  PROVE  KingsAreKept(other, turn)
<1>1. Opponent(turn) \in Players
  BY DEF Players, Opponent, WHITE, BLACK
<1>2. ASSUME NEW w \in KingsOf(other, turn), NEW k \in KingsOf(other, Opponent(turn)),
             NEW s \in DOMAIN other,
             other[s].player = turn, k \in Rules!Attacks(other, s)
      PROVE  Tied(other, s, w, k)
  <2>1. w \in KingsOf(men, turn) /\ k \in KingsOf(men, Opponent(turn))
    BY <1>1, <1>2
  <2>2. CASE other[s] # men[s]
    BY <1>2, <2>1, <2>2
  <2>3. CASE other[s] = men[s]
    <3>1. k \in Rules!Attacks(men, s)
      BY <1>2, <2>3, FewerMenSeeMore
    <3>2. Tied(men, s, w, k)
      BY <1>2, <2>1, <2>3, <3>1 DEF KingsAreKept
    <3>3. PICK x \in DOMAIN men \ {k} : /\ men[x].player # men[s].player
                                        /\ w \in Rules!Attacks(Without(men, {s}), x)
      BY <3>2 DEF Tied
    <3> DEFINE left == Without(men, {s})
               now  == Without(other, {s})
    <3>4. /\ x # s /\ DOMAIN left = DOMAIN men \ {s} /\ DOMAIN now = DOMAIN men \ {s}
          /\ left[x] = men[x] /\ now[x] = other[x]
      BY <3>3 DEF Without
    <3>5. w \in Rules!Attacks(left, x)
      BY <3>3
    <3> HIDE DEF left, now
    <3>6. w \in Rules!Attacks(now, x)
      <4>1. CASE other[x] = men[x]
        BY <3>4, <3>5, <4>1, FewerMenSeeMore
      <4>2. CASE other[x] # men[x]
        <5>1. /\ left[x].type = PAWN /\ now[x].type = QUEEN
              /\ left[x].player \in Players
          BY <1>2, <3>3, <3>4, <4>2
        <5>2. x \in Squares /\ w \in Squares
          BY <2>1, <3>3 DEF KingsOf
        <5> QED
          BY <3>5, <5>1, <5>2, QueensSeeMore
      <4> QED
        BY <4>1, <4>2
    <3> QED
      BY <1>2, <3>2, <3>3, <3>6 DEF Tied, now
  <2> QED
    BY <2>2, <2>3
<1>3. \A player \in Players : \E k \in Squares : KingsOf(other, player) = {k}
  BY DEF KingsAreKept
<1> QED
  BY <1>2, <1>3 DEF KingsAreKept

\* The square that a pawn has skipped is on no last row.
LEMMA SkippedIsNotLast ==
  ASSUME NEW g \in EngineGames, NEW p, Mirrors(g, p), NEW m \in MoveSet,
         m.r_f = LastRow(p.turn)
  PROVE  To(m) # p.skipped
<1> SUFFICES ASSUME To(m) = p.skipped PROVE FALSE
  OBVIOUS
<1>1. p.turn = GetPlayer(g) /\ p.turn \in Players
  BY MirroredBoard
<1>2. To(m) # None /\ To(m)[1] = LastRow(p.turn)
  BY MoveSquares DEF None
<1>3. p.skipped \in {<<s[1] + Direction(p.turn), s[2]>> : s \in JustPassed(g)}
  BY <1>2 DEF Mirrors
<1>4. PICK s \in JustPassed(g) : p.skipped = <<s[1] + Direction(p.turn), s[2]>>
  BY <1>3
<1>5. s[1] = (IF p.turn = WHITE THEN 3 ELSE 4)
  BY <1>1 DEF JustPassed
<1>6. LastRow(p.turn) = s[1] + Direction(p.turn)
  BY <1>2, <1>4
<1> QED
  BY <1>1, <1>5, <1>6 DEF LastRow, Direction, Players, WHITE, BLACK

\* A pawn whose promotion is rejected because of a check is tied, whatever it
\* has become.
LEMMA RejectedPromotionIsTied ==
  ASSUME NEW g \in EngineGames, NEW p, Mirrors(g, p), NEW m \in MoveSet,
         Pseudo(p, m), g.board[From(m)].type = PAWN, m.r_f = LastRow(p.turn),
         Rules!InCheck(Rules!MenAfter(p, m), p.turn),
         NEW men, DOMAIN men = DOMAIN p.men, men[From(m)].player = p.turn,
         \A s \in DOMAIN p.men \ {From(m)} : men[s] = p.men[s],
         NEW w \in KingsOf(p.men, p.turn),
         NEW k \in KingsOf(p.men, Opponent(p.turn))
  PROVE  Tied(men, From(m), w, k)
<1> DEFINE b == g.board
           f == From(m)
           t == To(m)
           other == Opponent(p.turn)
           after == Rules!MenAfter(p, m)
           left == Without(men, {f})
<1>1. /\ DOMAIN b \subseteq Squares /\ p.turn \in Players /\ DOMAIN p.men = DOMAIN b
      /\ \A s \in DOMAIN b : /\ b[s] \in Pieces
                             /\ p.men[s].type = b[s].type
                             /\ p.men[s].player = b[s].player
      /\ other \in Players /\ other # p.turn
  BY MirroredBoard DEF Players, Opponent, WHITE, BLACK
<1>2. /\ f \in DOMAIN b /\ b[f].player = p.turn
      /\ t \in DOMAIN b => b[t].player # p.turn
      /\ m.promotion \in Promotions
  <2>1. /\ Rules!Source(m) = f /\ Rules!Target(m) = t /\ Rules!PAWN = PAWN
        /\ Rules!Promotions = Promotions
        /\ Rules!Home(Rules!Opponent(p.turn)) = LastRow(p.turn)
    BY <1>1, SameNames DEF HomeRow, LastRow, Opponent, Players, WHITE, BLACK
  <2> HIDE DEF f, t
  <2> QED
    BY <1>1, <2>1 DEF Pseudo, f
<1>3. f # t
  <2>1. t \in DOMAIN b => b[t].player # b[f].player
    BY <1>2
  <2> QED
    BY <1>2, <2>1
<1>4. /\ w \in DOMAIN p.men /\ p.men[w] = [type |-> KING, player |-> p.turn]
      /\ k \in DOMAIN p.men /\ p.men[k] = [type |-> KING, player |-> other]
  BY DEF KingsOf
<1>5. KingsOf(p.men, p.turn) = {w}
  BY <1>1 DEF Mirrors, KingsAreKept
<1>6. p.men[f].type = PAWN /\ PAWN # KING
  BY <1>1, <1>2, Numbers
<1>7. f # w /\ f # k /\ w # k
  BY <1>1, <1>4, <1>6
<1>8. t # p.skipped
  BY SkippedIsNotLast
<1>9. /\ DOMAIN after = (DOMAIN p.men \ {f}) \cup {t}
      /\ \A s \in DOMAIN p.men \ {f, t} : after[s] = p.men[s]
      /\ \/ after[t] = p.men[f]
         \/ after[t] = [p.men[f] EXCEPT !.type = m.promotion]
  BY <1>1, <1>2, <1>3, <1>6, <1>8, MenAfterPlainly
<1>10. after[t].player = p.turn /\ after[t].type # KING
  <2>1. p.men[f] = [type |-> PAWN, player |-> p.turn]
    BY <1>1, <1>2, <1>6, MenOfBoard, MirroredBoard
  <2>2. \A x : [[type |-> PAWN, player |-> p.turn] EXCEPT !.type = x]
                 = [type |-> x, player |-> p.turn]
    OBVIOUS
  <2>3. \/ after[t] = [type |-> PAWN, player |-> p.turn]
        \/ after[t] = [type |-> m.promotion, player |-> p.turn]
    <3>1. after[t] = p.men[f] \/ after[t] = [p.men[f] EXCEPT !.type = m.promotion]
      BY <1>9
    <3> HIDE DEF after, t, f
    <3> QED
      BY <2>1, <2>2, <3>1
  <2>4. m.promotion # KING /\ PAWN # KING
    BY <1>2, Numbers
  <2> HIDE DEF after, t
  <2> QED
    BY <2>3, <2>4
<1> HIDE DEF after, t, f
<1>11. \E v \in DOMAIN after : /\ after[v] = [type |-> KING, player |-> p.turn]
                               /\ Rules!Attacked(after, v, other)
  BY SameNames DEF Rules!InCheck, after, other
<1>12. PICK v \in DOMAIN after : /\ after[v] = [type |-> KING, player |-> p.turn]
                                 /\ Rules!Attacked(after, v, other)
  BY <1>11
<1>13. v = w
  <2>1. v # t
    BY <1>10, <1>12
  <2>2. v \in DOMAIN p.men /\ p.men[v] = [type |-> KING, player |-> p.turn]
    BY <1>9, <1>12, <2>1
  <2> QED
    BY <1>5, <2>2 DEF KingsOf
<1>14. PICK x \in DOMAIN after : after[x].player = other /\ w \in Rules!Attacks(after, x)
  BY <1>12, <1>13 DEF Rules!Attacked
<1>15. /\ x # t /\ x \in DOMAIN p.men \ {f} /\ after[x] = p.men[x] /\ men[x] = p.men[x]
  <2>1. x # t
    BY <1>1, <1>10, <1>14
  <2> QED
    BY <1>9, <1>14, <2>1 DEF f
<1>16. DOMAIN left = DOMAIN p.men \ {f} /\ left[x] = men[x]
  BY <1>15 DEF Without, left
<1> HIDE DEF left
<1>17. w \in Rules!Attacks(left, x)
  <2>1. DOMAIN left \subseteq DOMAIN after
    BY <1>9, <1>16
  <2> QED
    BY <1>14, <1>15, <1>16, <2>1, FewerMenSeeMore
<1>18. x # k
  <2> SUFFICES ASSUME x = k PROVE FALSE
    OBVIOUS
  <2>1. w \in Squares /\ k \in Squares
    BY <1>1, <1>4
  <2>2. after[k].type = KING /\ p.men[w].type = KING /\ w \in Rules!Attacks(after, k)
    BY <1>4, <1>14, <1>15
  <2>3. k \in Rules!Attacks(p.men, w)
    BY <1>7, <2>1, <2>2, KingsSeeEachOther
  <2>4. Tied(p.men, w, w, k)
    BY <1>4, <2>3 DEF Mirrors, KingsAreKept, other
  <2> QED
    BY <2>4 DEF Tied
<1>19. men[x].player # men[f].player /\ x \in DOMAIN men \ {k}
  BY <1>1, <1>14, <1>15, <1>18 DEF f
<1> QED
  BY <1>7, <1>17, <1>19 DEF Tied, left, f

\* Promotions change no king.
LEMMA PromotionKeepsKings ==
  ASSUME NEW b \in Boards, NEW c, OnlyPromotes(b, c), NEW player
  PROVE  KingsOf(MenOf(c), player) = KingsOf(MenOf(b), player)
<1>1. DOMAIN b \subseteq Squares /\ b \in [DOMAIN b -> Pieces] /\ DOMAIN c = DOMAIN b
  BY BoardIs DEF OnlyPromotes
<1>2. ASSUME NEW s \in DOMAIN b
      PROVE  c[s].type = KING /\ c[s].player = player <=>
               b[s].type = KING /\ b[s].player = player
  <2>1. CASE c[s] = b[s]
    BY <2>1
  <2>2. CASE c[s] # b[s]
    <3>1. b[s].type = PAWN /\ c[s].type \in Promotions
      BY <2>2 DEF OnlyPromotes, MayPromote
    <3> QED
      BY <3>1, Numbers
  <2> QED
    BY <2>1, <2>2
<1>3. \A s : s \in KingsOf(MenOf(c), player) <=> s \in KingsOf(MenOf(b), player)
  BY <1>1, <1>2, KingsOfBoard
<1> QED
  BY <1>3 DEF KingsOf

\* What is_illegal() leaves of a board when it rejects a move: the board, or
\* the queens of a question about a king that would castle.
LEMMA RejectedReport ==
  ASSUME NEW g, NEW m, NEW player, IsIllegal(g, m, player).code < 0
  PROVE  LET c == IsIllegal(g, m, player).board
         IN  c = g.board \/ \E square : c = Attack(g, square, player).board
<1> DEFINE r == IsIllegal(g, m, player)
<1>1. CASE MayTry(g.board, m, player) /\ g.board[From(m)].type = KING
  <2>1. r = KingReport(g, m) /\ g.board[From(m)].player = player
    BY <1>1 DEF IsIllegal, MayTry
  <2>2. \/ KingReport(g, m).board = g.board
        \/ \E square : KingReport(g, m).board =
                         Attack(g, square, g.board[From(m)].player).board
    BY DEF KingReport, Rejected, Report
  <2> QED
    BY <2>1, <2>2
<1>2. CASE ~(MayTry(g.board, m, player) /\ g.board[From(m)].type = KING)
  <2>1. r = StepReport(g, m, player)
    BY <1>2 DEF IsIllegal
  <2>2. StepReport(g, m, player).code < 0 => StepReport(g, m, player).board = g.board
    BY Numbers DEF StepReport, PawnReport, Rejected, Report
  <2> QED
    BY <2>1, <2>2
<1> QED
  BY <1>1, <1>2

\* The kings are kept by every rejected move, be it rejected because of the
\* way, of the squares that a king would cross, or of a check.
LEMMA RejectedKeepsKings ==
  ASSUME NEW g \in EngineGames, NEW p, Mirrors(g, p), NEW m \in MoveSet,
         MakeMoveNoCheckmate(g, m).code < 0
  PROVE  KingsAreKept(MenOf(MakeMoveNoCheckmate(g, m).game.board), p.turn)
<1> DEFINE b == g.board
           f == From(m)
           made == MakeMoveNoCheckmate(g, m)
           report == IsIllegal(g, m, p.turn)
           c == report.board
           men == MenOf(c)
<1>1. /\ p.turn = GetPlayer(g) /\ p.turn \in Players
      /\ DOMAIN b \subseteq Squares /\ DOMAIN p.men = DOMAIN b /\ b \in Boards
      /\ \A s \in DOMAIN b : /\ b[s] \in Pieces
                             /\ p.men[s] = [type |-> b[s].type, player |-> b[s].player]
                             /\ p.men[s].type = b[s].type
                             /\ p.men[s].player = b[s].player
      /\ p.men = MenOf(b) /\ KingsAreKept(p.men, p.turn)
  BY MirroredBoard, MenOfBoard DEF Mirrors, EngineGames
<1>2. report.code \in ReportCodes /\ OnlyPromotes(b, c)
  BY <1>1, IsIllegalPromotes
<1>3. made.game.board = c
  <2>1. [g EXCEPT !.board = c].board = c
    BY DEF EngineGames
  <2>2. made = AfterReport(g, m, report)
    BY <1>1 DEF MakeMoveNoCheckmate
  <2>3. \/ made = [code |-> report.code, game |-> [g EXCEPT !.board = c]]
        \/ made = [code |-> ILLEGAL_MOVE, game |-> [g EXCEPT !.board = c]]
        \/ made.code = OK
    BY <2>2 DEF AfterReport, UnlessInCheck
  <2>4. made.code < 0
    OBVIOUS
  <2> DEFINE backup == [g EXCEPT !.board = c]
  <2> HIDE DEF made, c, backup, report
  <2>5. made.game = backup
    BY <2>3, <2>4, Numbers DEF backup
  <2> QED
    BY <2>1, <2>5 DEF backup
<1>4. /\ DOMAIN men = DOMAIN b
      /\ \A s \in DOMAIN b : /\ men[s] = [type |-> c[s].type, player |-> c[s].player]
                             /\ men[s].type = c[s].type
                             /\ men[s].player = c[s].player
                             /\ c[s].player = b[s].player
                             /\ c[s] # b[s] => b[s].type = PAWN
      /\ \A player \in Players : KingsOf(men, player) = KingsOf(p.men, player)
  <2>1. DOMAIN c = DOMAIN b
    BY <1>2 DEF OnlyPromotes
  <2>2. ASSUME NEW s \in DOMAIN b
        PROVE  c[s].player = b[s].player /\ (c[s] # b[s] => b[s].type = PAWN)
    <3>1. CASE c[s] # b[s]
      <4>1. b[s].type = PAWN /\ c[s] = [b[s] EXCEPT !.type = c[s].type]
        BY <1>2, <3>1 DEF OnlyPromotes, MayPromote
      <4>2. b[s] \in Pieces
        BY <1>1
      <4> HIDE DEF c, b
      <4> QED
        BY <4>1, <4>2 DEF Pieces
    <3> QED
      BY <3>1
  <2>3. \A player \in Players : KingsOf(men, player) = KingsOf(p.men, player)
    BY <1>1, <1>2, PromotionKeepsKings
  <2> HIDE DEF c
  <2> QED
    BY <2>1, <2>2, <2>3, MenOfBoard
<1> HIDE DEF made, report, c, men
<1> SUFFICES KingsAreKept(men, p.turn)
  BY <1>3 DEF made, men
<1>5. CASE report.code < 0
  <2>1. \/ c = b
        \/ MakesQueens(b, c) /\ TouchesOnly(b, c, Opponent(p.turn))
    <3>1. c = b \/ \E square : c = Attack(g, square, p.turn).board
      BY <1>5, RejectedReport DEF report, c
    <3> QED
      BY <1>1, <3>1, AttackMakesQueens
  <2>2. CASE c = b
    BY <1>1, <2>2 DEF men
  <2>3. CASE MakesQueens(b, c) /\ TouchesOnly(b, c, Opponent(p.turn))
    <3>1. ASSUME NEW s \in DOMAIN b, men[s] # p.men[s]
          PROVE  b[s].type = PAWN /\ men[s].type = QUEEN /\ b[s].player # p.turn
      <4>1. c[s] # b[s]
        BY <1>1, <1>4, <3>1
      <4>2. c[s] = [b[s] EXCEPT !.type = QUEEN] /\ b[s].player = Opponent(p.turn)
        BY <2>3, <4>1 DEF MakesQueens, TouchesOnly
      <4>3. c[s].type = QUEEN
        BY <1>1, <4>2 DEF Pieces
      <4> QED
        BY <1>1, <1>4, <4>1, <4>2, <4>3 DEF Players, Opponent, WHITE, BLACK
    <3> QED
      <4>1. \A s \in DOMAIN p.men :
              p.men[s].player \in Players /\ men[s].player = p.men[s].player
        BY <1>1, <1>4 DEF Pieces
      <4>2. \A s \in DOMAIN p.men : men[s] # p.men[s] =>
              p.men[s].type = PAWN /\ men[s].type = QUEEN /\ p.men[s].player # p.turn
        BY <1>1, <3>1
      <4> HIDE DEF b
      <4> QED
        BY <1>1, <1>4, <4>1, <4>2, KingsKeptByChange
  <2> QED
    BY <2>1, <2>2, <2>3
<1>6. CASE report.code >= 0
  <2>1. Pseudo(p, m) /\ f \in DOMAIN b /\ b[f].player = p.turn
    <3>1. Pseudo(p, m)
      BY <1>6, ReportIsPseudo DEF report
    <3> QED
      BY <1>1, <1>6, <3>1, PassedReport DEF report
  <2>2. Rules!InCheck(Rules!MenAfter(p, m), p.turn)
    <3>1. ~Rules!Legal(p, m)
      <4>1. made.code < 0 /\ (made.code >= 0 <=> Rules!Legal(p, m))
        BY AcceptedIsLegal DEF made
      <4>2. made.code \in ReportCodes
        BY NoCheckmateKeepsGame DEF made
      <4> QED
        BY <4>1, <4>2, Numbers DEF ReportCodes
    <3>2. Rules!Legal(p, m) <=>
            /\ Pseudo(p, m) /\ ~Rules!InCheck(Rules!MenAfter(p, m), p.turn)
            /\ Rules!Target(m) \in DOMAIN p.men => p.men[Rules!Target(m)].type # Rules!KING
      BY Zenon DEF Rules!Legal, Pseudo
    <3>3. Rules!Target(m) = To(m) /\ Rules!KING = KING
      BY SameNames
    <3> QED
      BY <1>1, <2>1, <3>1, <3>2, <3>3, TakingTheKingIsCheck
  <2>3. \/ c = b
        \/ /\ b[f].type = PAWN /\ m.r_f = LastRow(p.turn)
           /\ c = [b EXCEPT ![f].type = m.promotion]
    <3>1. /\ b[f].type = PAWN =>
               /\ m.r_f = LastRow(p.turn) => m.promotion \in Promotions
               /\ report = Report(OK, IF m.r_f = LastRow(p.turn)
                                        THEN [b EXCEPT ![f].type = m.promotion]
                                        ELSE b,
                                  Taken(b, m), None)
          /\ b[f].type # PAWN => \E castle : report = Report(OK, b, None, castle)
      BY <1>6, PassedReport DEF report
    <3>2. \A x, y, z : Report(OK, x, y, z).board = x
      BY DEF Report
    <3> QED
      BY <3>1, <3>2 DEF c
  <2>4. CASE c = b
    BY <1>1, <2>4 DEF men
  <2>5. CASE /\ b[f].type = PAWN /\ m.r_f = LastRow(p.turn)
             /\ c = [b EXCEPT ![f].type = m.promotion]
    <3>1. \A s \in DOMAIN b \ {f} : men[s] = p.men[s]
      BY <1>1, <1>4, <2>5
    <3>2. ASSUME NEW w \in KingsOf(p.men, p.turn),
                 NEW k \in KingsOf(p.men, Opponent(p.turn))
          PROVE  Tied(men, f, w, k)
      <4>1. men[f].player = p.turn /\ DOMAIN men = DOMAIN p.men
        BY <1>1, <1>4, <2>1
      <4> HIDE DEF f, b
      <4> QED
        BY <1>1, <2>1, <2>2, <2>5, <3>1, <3>2, <4>1, RejectedPromotionIsTied DEF f, b
    <3>3. \A s \in DOMAIN p.men : men[s] # p.men[s] => s = f
      BY <1>1, <3>1
    <3>4. \A s \in DOMAIN p.men : p.men[s].player \in Players /\ men[s].player = p.men[s].player
      BY <1>1, <1>4 DEF Pieces
    <3>5. p.men[f].player = p.turn
      BY <1>1, <2>1
    <3> HIDE DEF f, b
    <3> QED
      BY <1>1, <1>4, <3>2, <3>3, <3>4, <3>5, KingsKeptByChange
  <2> QED
    BY <2>3, <2>4, <2>5
<1>7. report.code \in Int
  BY <1>2, Numbers DEF ReportCodes
<1> QED
  BY <1>5, <1>6, <1>7

\* Promotions that keep the kings change nothing else that the rules remember.
LEMMA PromotionMirrors ==
  ASSUME NEW g \in EngineGames, NEW p, Mirrors(g, p), NEW h \in EngineGames,
         h.duration = g.duration, OnlyPromotes(g.board, h.board),
         KingsAreKept(MenOf(h.board), p.turn)
  PROVE  Mirrors(h, Rules!Position(MenOf(h.board), p.turn, p.rights, p.skipped))
<1> DEFINE b == g.board
           c == h.board
           next == Rules!Position(MenOf(c), p.turn, p.rights, p.skipped)
<1>1. /\ next.men = MenOf(c) /\ next.turn = p.turn
      /\ next.rights = p.rights /\ next.skipped = p.skipped
  BY DEF Rules!Position
<1>2. /\ DOMAIN c = DOMAIN b /\ DOMAIN b \subseteq Squares
      /\ \A s \in DOMAIN b : b[s] \in Pieces
      /\ p.turn \in Players /\ GetPlayer(h) = GetPlayer(g) /\ GetPlayer(g) = p.turn
      /\ DOMAIN MenOf(c) = DOMAIN c /\ DOMAIN p.men = DOMAIN b
  BY MirroredBoard, MenOfBoard DEF OnlyPromotes, GetPlayer
<1>3. ASSUME NEW s \in DOMAIN b, c[s] # b[s]
      PROVE  /\ s[1] \in {1, 6} /\ b[s].type = PAWN
             /\ c[s].type \in Promotions
             /\ c[s].player = b[s].player /\ c[s].last_move = b[s].last_move
             /\ c[s].moves = b[s].moves
  <2>1. /\ MayPromote(s, b[s]) /\ c[s].type \in Promotions
        /\ c[s] = [b[s] EXCEPT !.type = c[s].type] /\ b[s] \in Pieces
    BY <1>2, <1>3 DEF OnlyPromotes
  <2>2. s[1] \in 0 .. 7
    BY <1>2 DEF Squares, Coord
  <2>3. s[1] \in {1, 6}
    BY <2>1, <2>2 DEF MayPromote, Direction, LastRow
  <2> HIDE DEF b, c
  <2> QED
    BY <2>1, <2>3 DEF MayPromote, Pieces
<1> HIDE DEF b, c, next
<1>4. RightsOf(c) = RightsOf(b)
  <2>1. \A s \in {0, 7} \X {0, 7} : s \in DOMAIN b => c[s] = b[s]
    BY <1>3
  <2>2. \A r \in {0, 7} : <<r, 4>> \in DOMAIN b => c[<<r, 4>>] = b[<<r, 4>>]
    BY <1>3
  <2>3. \A s \in {0, 7} \X {0, 7} : s[1] \in {0, 7}
    OBVIOUS
  <2> QED
    BY <1>2, <2>1, <2>2, <2>3 DEF RightsOf, Occupied
<1>5. JustPassed(h) = JustPassed(g)
  <2>1. ASSUME NEW s \in DOMAIN b, s[1] \in {3, 4}
        PROVE  c[s] = b[s]
    BY <1>3, <2>1
  <2>2. \A s : s \in JustPassed(h) <=>
                 /\ s \in DOMAIN c /\ c[s].player = Opponent(p.turn)
                 /\ c[s].type = PAWN /\ c[s].moves = 1 /\ c[s].last_move = g.duration
                 /\ s[1] = (IF p.turn = WHITE THEN 3 ELSE 4)
    BY <1>2 DEF JustPassed, HeldBy, c
  <2>3. \A s : s \in JustPassed(g) <=>
                 /\ s \in DOMAIN b /\ b[s].player = Opponent(p.turn)
                 /\ b[s].type = PAWN /\ b[s].moves = 1 /\ b[s].last_move = g.duration
                 /\ s[1] = (IF p.turn = WHITE THEN 3 ELSE 4)
    BY <1>2 DEF JustPassed, HeldBy, b
  <2>4. \A s : s \in JustPassed(h) <=> s \in JustPassed(g)
    BY <1>2, <2>1, <2>2, <2>3
  <2>5. JustPassed(h) \subseteq DOMAIN c /\ JustPassed(g) \subseteq DOMAIN b
    BY <2>2, <2>3
  <2> QED
    BY <2>4, <2>5
<1>6. PastIsInOrder(h)
  <2>1. PastIsInOrder(g)
    BY DEF Mirrors
  <2>2. ASSUME NEW s \in DOMAIN c
        PROVE  /\ c[s].last_move <= h.duration
               /\ c[s].type = PAWN /\ c[s].moves # 0 =>
                    IF c[s].player = WHITE THEN s[1] < 6 ELSE s[1] > 1
    <3>1. /\ s \in DOMAIN b /\ b[s].last_move <= g.duration
          /\ b[s].type = PAWN /\ b[s].moves # 0 =>
               IF b[s].player = WHITE THEN s[1] < 6 ELSE s[1] > 1
      BY <1>2, <2>1, <2>2 DEF PastIsInOrder, b
    <3>2. CASE c[s] = b[s]
      BY <3>1, <3>2
    <3>3. CASE c[s] # b[s]
      BY <1>3, <3>1, <3>3, Numbers
    <3> QED
      BY <3>2, <3>3
  <2> QED
    BY <2>2 DEF PastIsInOrder, c
<1>7. /\ p.rights = RightsOf(b) /\ p.skipped \notin DOMAIN p.men
      /\ {<<s[1] + Direction(p.turn), s[2]>> : s \in JustPassed(g)} = {p.skipped} \ {None}
  BY DEF Mirrors, b
<1> QED
  BY <1>1, <1>2, <1>4, <1>5, <1>6, <1>7 DEF Mirrors, next, c

\* So after a rejected move the game mirrors what is on its board.
LEMMA RejectedMirrors ==
  ASSUME NEW g \in EngineGames, NEW p, Mirrors(g, p), NEW m \in MoveSet,
         MakeMove(g, m).code \in NonFatal
  PROVE  LET h == MakeMove(g, m).game
         IN  Mirrors(h, Rules!Position(MenOf(h.board), p.turn, p.rights, p.skipped))
<1> DEFINE made == MakeMoveNoCheckmate(g, m)
<1>1. /\ made.code \in ReportCodes /\ made.game \in EngineGames
      /\ made.code \in NonFatal =>
           made.game.duration = g.duration /\ OnlyPromotes(g.board, made.game.board)
  BY NoCheckmateKeepsGame
<1>2. MakeMove(g, m) = Judged(GetPlayer(g), made)
  BY DEF MakeMove
<1> HIDE DEF made
<1>3. made.code \in NonFatal
  <2>1. SUFFICES ASSUME made.code \notin NonFatal PROVE FALSE
    OBVIOUS
  <2>2. MakeMove(g, m).code \in {FORCED_DRAW, DRAW_OFFER, OK, WHITE_WIN, BLACK_WIN}
    <3>1. made.code = OK
      BY <1>1, <2>1, Numbers DEF ReportCodes
    <3> QED
      BY <1>2, <2>1, <3>1 DEF Judged, Outcome
  <2> QED
    BY <2>2 DEF NonFatal, FORCED_DRAW, DRAW_OFFER, OK, WHITE_WIN, BLACK_WIN,
                ILLEGAL_MOVE, MISSING_PROMOTION
<1>4. MakeMove(g, m) = made /\ made.code < 0
  BY <1>2, <1>3, Numbers DEF Judged
<1>5. KingsAreKept(MenOf(made.game.board), p.turn)
  BY <1>4, RejectedKeepsKings DEF made
<1> QED
  BY <1>1, <1>3, <1>4, <1>5, PromotionMirrors

-----------------------------------------------------------------------------
(* The end of a game. *)
\* And so does is_in_check().
LEMMA CheckMakesQueens ==
  ASSUME NEW g \in EngineGames, NEW player \in Players
  PROVE  MakesQueens(g.board, CheckOn(g, player).board)
<1>1. MakesQueens(g.board, g.board)
  BY DEF MakesQueens
<1> QED
  BY <1>1, AttackMakesQueens DEF CheckOn

\* can_make_move() finds a move exactly where the rules have one.
LEMMA RepliesAreMoves ==
  ASSUME NEW g \in EngineGames, NEW p, Mirrors(g, p)
  PROVE  CanMakeMove(g, p.turn) <=> Rules!HasReply(p)
<1> DEFINE Try(s, d) == MoveOf(s, d, QUEEN)
           Plays(s, d) == MakeMoveNoCheckmate(g, Try(s, d)).code >= 0
<1>1. /\ DOMAIN g.board \subseteq Squares /\ DOMAIN p.men = DOMAIN g.board
      /\ \A s \in DOMAIN g.board : p.men[s].player = g.board[s].player
  BY MirroredBoard
<1>2. ASSUME NEW s \in Squares, NEW d \in Squares
      PROVE  Plays(s, d) <=> Rules!Legal(p, Try(s, d))
  <2>1. Try(s, d) \in MoveSet
    BY Numbers DEF MoveOf, MoveSet, Squares
  <2> QED
    BY <2>1, AcceptedIsLegal
<1>3. ASSUME NEW s \in Squares, NEW d \in Squares, Rules!Legal(p, Try(s, d))
      PROVE  s \in HeldBy(g.board, p.turn)
  <2>1. Rules!Source(Try(s, d)) = s
    BY DEF Rules!Source, MoveOf, Squares
  <2>2. s \in DOMAIN p.men /\ p.men[s].player = p.turn
    BY <1>3, <2>1 DEF Rules!Legal
  <2> QED
    BY <1>1, <2>2 DEF HeldBy
<1>4. CanMakeMove(g, p.turn) <=> \E s \in HeldBy(g.board, p.turn), d \in Squares : Plays(s, d)
  BY DEF CanMakeMove
<1>5. Rules!HasReply(p) <=> \E s \in DOMAIN p.men, d \in Squares : Rules!Legal(p, Try(s, d))
  <2>1. Rules!Board = Squares /\ Rules!QUEEN = QUEEN
    BY SameNames
  <2> QED
    BY <2>1, Zenon DEF Rules!HasReply, MoveOf
<1>6. HeldBy(g.board, p.turn) \subseteq DOMAIN g.board
  BY DEF HeldBy
<1> HIDE DEF Plays, Try
<1> QED
  BY <1>1, <1>2, <1>3, <1>4, <1>5, <1>6

\* How a game stands by the rules.
VerdictOn(p) ==
  IF Rules!Mated(p) THEN IF p.turn = BLACK THEN WHITE_WIN ELSE BLACK_WIN
  ELSE IF Rules!Stalemated(p) THEN FORCED_DRAW
  ELSE OK

\* Game g is h, but for the queens that looking for a check may have made.
LeftBy(h, g) ==
  /\ g.duration = h.duration /\ g.last_big_move = h.last_big_move
  /\ OnlyPromotes(h.board, g.board) /\ MakesQueens(h.board, g.board)

\* One make_move() that is not rejected: it plays the move, and then judges the
\* position as the rules do, unless the draw clock has run out.
LEMMA MakeMovePlays ==
  ASSUME NEW g \in EngineGames, NEW p, Mirrors(g, p), NEW m \in MoveSet,
         MakeMove(g, m).code \notin NonFatal
  PROVE  LET r    == MakeMove(g, m)
             h    == MakeMoveNoCheckmate(g, m).game
             next == Rules!Played(p, m)
         IN  /\ h \in EngineGames /\ Mirrors(h, next)
             /\ LeftBy(h, r.game)
             /\ r.code \in Accepted => r.game = h
             /\ r.game # h => /\ Rules!Mated(next)
                              /\ TouchesOnly(h.board, r.game.board, p.turn)
             /\ h.duration - h.last_big_move < 100 => r.code = VerdictOn(next)
<1> DEFINE r == MakeMove(g, m)
           made == MakeMoveNoCheckmate(g, m)
           h == made.game
           next == Rules!Played(p, m)
           other == Opponent(p.turn)
           clock == h.duration - h.last_big_move
           check == CheckOn(h, other)
<1>1. /\ p.turn = GetPlayer(g) /\ p.turn \in Players /\ other \in Players
      /\ Opponent(other) = p.turn
  BY MirroredBoard DEF Players, Opponent, WHITE, BLACK
<1>2. r = Judged(p.turn, made)
  BY <1>1 DEF MakeMove
<1>3. made.code \in ReportCodes /\ h \in EngineGames
  BY NoCheckmateKeepsGame
<1>4. made.code \notin NonFatal /\ made.code >= 0
  <2>1. made.code \in NonFatal => r = made
    BY <1>2 DEF Judged
  <2> HIDE DEF made, r
  <2>2. made.code \notin NonFatal
    BY <2>1 DEF r
  <2> QED
    BY <1>3, <2>2, Numbers DEF ReportCodes
<1>5. /\ made.code = OK /\ Rules!Legal(p, m) /\ Pseudo(p, m) /\ PlayedOn(g, m, h)
      /\ MenOf(h.board) = Rules!MenAfter(p, m)
  BY <1>4, AcceptedIsLegal
<1> HIDE DEF made
<1>6. Mirrors(h, next)
  BY <1>3, <1>5, MirrorsAfter
<1> HIDE DEF h, next, other
<1>7. next.turn = other
  BY SameNames DEF next, other, Rules!Played, Rules!Position
<1>8. CanMakeMove(h, other) <=> Rules!HasReply(next)
  BY <1>3, <1>6, <1>7, RepliesAreMoves
<1>9. check.attacked <=> Rules!InCheck(next.men, other)
  <2>1. MenOf(h.board) = next.men
    BY <1>6 DEF Mirrors
  <2>2. PICK k \in Squares : KingsOf(next.men, other) = {k}
    BY <1>1, <1>6 DEF Mirrors, KingsAreKept
  <2> QED
    BY <1>1, <1>3, <2>1, <2>2, CheckIsInCheck
<1>10. LeftBy(h, h) /\ LeftBy(h, [h EXCEPT !.board = check.board])
  <2>1. OnlyPromotes(h.board, h.board) /\ MakesQueens(h.board, h.board)
    BY <1>3, NothingPromotes DEF EngineGames, MakesQueens
  <2>2. OnlyPromotes(h.board, check.board)
    <3>1. check = CheckOn(h, Opponent(p.turn))
      BY DEF other
    <3> HIDE DEF check
    <3> QED
      BY <1>3, <3>1, CheckPromotes
  <2>3. MakesQueens(h.board, check.board)
    BY <1>1, <1>3, CheckMakesQueens
  <2> HIDE DEF check
  <2>4. /\ [h EXCEPT !.board = check.board].board = check.board
        /\ [h EXCEPT !.board = check.board].duration = h.duration
        /\ [h EXCEPT !.board = check.board].last_big_move = h.last_big_move
    BY <1>3 DEF EngineGames
  <2> QED
    BY <2>1, <2>2, <2>3, <2>4 DEF LeftBy
<1> DEFINE verdict == IF ~check.attacked THEN FORCED_DRAW
                      ELSE IF p.turn = WHITE THEN WHITE_WIN ELSE BLACK_WIN
<1>11. /\ Rules!Mated(next) <=> check.attacked /\ ~CanMakeMove(h, other)
       /\ Rules!Stalemated(next) <=> ~check.attacked /\ ~CanMakeMove(h, other)
  BY <1>7, <1>8, <1>9 DEF Rules!Mated, Rules!Stalemated
<1>12. /\ TouchesOnly(h.board, check.board, p.turn)
       /\ ~check.attacked => [h EXCEPT !.board = check.board] = h
       /\ [h EXCEPT !.board = check.board].board = check.board
  <2>1. [h EXCEPT !.board = h.board] = h /\ [h EXCEPT !.board = check.board].board = check.board
    BY <1>3 DEF EngineGames
  <2>2. ~check.attacked => check.board = h.board
    BY DEF CheckOn, Attack
  <2>3. TouchesOnly(h.board, h.board, p.turn)
    BY DEF TouchesOnly
  <2>4. \A square : TouchesOnly(h.board, Attack(h, square, other).board, p.turn)
    BY <1>1, <1>3, AttackMakesQueens
  <2>5. TouchesOnly(h.board, check.board, p.turn)
    BY <2>3, <2>4 DEF CheckOn
  <2> HIDE DEF check
  <2> QED
    BY <2>1, <2>2, <2>5
<1>13. VerdictOn(next) = IF CanMakeMove(h, other) THEN OK ELSE verdict
  <2>1. next.turn = BLACK <=> p.turn = WHITE
    BY <1>1, <1>7 DEF other, Opponent, Players, WHITE, BLACK
  <2> HIDE DEF check
  <2> QED
    BY <1>11, <2>1 DEF VerdictOn
<1>14. made = [code |-> OK, game |-> h]
  BY <1>4, <1>5 DEF made, h, MakeMoveNoCheckmate, AfterReport, UnlessInCheck
<1>15. r = IF clock >= 150 THEN [code |-> FORCED_DRAW, game |-> h]
           ELSE IF clock >= 100 THEN [code |-> DRAW_OFFER, game |-> h]
           ELSE IF CanMakeMove(h, other) THEN [code |-> OK, game |-> h]
           ELSE [code |-> verdict, game |-> [h EXCEPT !.board = check.board]]
  <2>1. r = IF clock >= 150 THEN [made EXCEPT !.code = FORCED_DRAW]
            ELSE IF clock >= 100 THEN [made EXCEPT !.code = DRAW_OFFER]
            ELSE Outcome(p.turn, h, check)
    BY <1>2, <1>4, Zenon DEF Judged, h, other
  <2>2. /\ [made EXCEPT !.code = FORCED_DRAW] = [code |-> FORCED_DRAW, game |-> h]
        /\ [made EXCEPT !.code = DRAW_OFFER] = [code |-> DRAW_OFFER, game |-> h]
    BY <1>14
  <2>3. Outcome(p.turn, h, check) =
          IF CanMakeMove(h, other) THEN [code |-> OK, game |-> h]
          ELSE [code |-> verdict, game |-> [h EXCEPT !.board = check.board]]
    BY Zenon DEF Outcome, other
  <2> HIDE DEF check, verdict
  <2> QED
    BY <2>1, <2>2, <2>3
<1>16. verdict \in GameOver /\ verdict \notin Accepted
  BY DEF GameOver, Accepted, FORCED_DRAW, WHITE_WIN, BLACK_WIN, OK, DRAW_OFFER
<1>17. FORCED_DRAW \notin Accepted
  BY DEF FORCED_DRAW, Accepted, OK, DRAW_OFFER
<1>18. clock \in Int
  BY <1>3 DEF EngineGames
<1> HIDE DEF check, verdict, r, clock
<1>19. LeftBy(h, r.game) /\ (r.code \in Accepted => r.game = h)
  BY <1>10, <1>15, <1>16, <1>17
<1>20. clock < 100 => r.code = VerdictOn(next)
  BY <1>13, <1>15, <1>18
<1>21. ASSUME r.game # h
       PROVE  Rules!Mated(next) /\ TouchesOnly(h.board, r.game.board, p.turn)
  <2>1. r.game = [h EXCEPT !.board = check.board] /\ ~CanMakeMove(h, other)
    BY <1>15, <1>21
  <2>2. check.attacked
    BY <1>12, <1>21, <2>1
  <2> QED
    BY <1>11, <1>12, <2>1, <2>2
<1> QED
  BY <1>3, <1>6, <1>19, <1>20, <1>21 DEF r, h, made, next, clock

\* Promoting shows: where the men look the same, the boards are the same.
LEMMA SameMenSameBoard ==
  ASSUME NEW b \in Boards, NEW c, OnlyPromotes(b, c), MenOf(b) = MenOf(c)
  PROVE  c = b
<1>1. b = [s \in DOMAIN b |-> b[s]] /\ c = [s \in DOMAIN b |-> c[s]]
  BY BoardIs DEF OnlyPromotes
<1>2. ASSUME NEW s \in DOMAIN b
      PROVE  c[s] = b[s]
  <2>1. DOMAIN c = DOMAIN b
    BY DEF OnlyPromotes
  <2>2. b[s].type = c[s].type
    <3>1. MenOf(b)[s].type = b[s].type /\ MenOf(c)[s].type = c[s].type
      BY <2>1, MenOfBoard
    <3> QED
      BY <3>1
  <2> QED
    BY <2>2, Numbers DEF OnlyPromotes, MayPromote
<1> QED
  BY <1>1, <1>2

\* The same for games.
LEMMA SameMenSameGame ==
  ASSUME NEW g \in EngineGames, NEW h \in EngineGames,
         h.duration = g.duration, h.last_big_move = g.last_big_move,
         OnlyPromotes(g.board, h.board), MenOf(g.board) = MenOf(h.board)
  PROVE  h = g
<1>1. g.board \in Boards
  BY DEF EngineGames
<1>2. h.board = g.board
  BY <1>1, SameMenSameBoard
<1> QED
  BY <1>2 DEF EngineGames

-----------------------------------------------------------------------------
(* Chess, as the games themselves show it. *)
\* A game mirrors no other position than the one it shows.
LEMMA MirroredIsShown ==
  ASSUME NEW g, NEW men, NEW turn, NEW rights, NEW skipped,
         Mirrors(g, Rules!Position(men, turn, rights, skipped))
  PROVE  Rules!Position(men, turn, rights, skipped) = PositionOf(g)
<1> DEFINE p == Rules!Position(men, turn, rights, skipped)
           squares == {<<s[1] + Direction(GetPlayer(g)), s[2]>> : s \in JustPassed(g)}
           shown == IF squares = {} THEN None ELSE CHOOSE s \in squares : TRUE
<1>1. p.men = men /\ p.turn = turn /\ p.rights = rights /\ p.skipped = skipped
  BY DEF Rules!Position
<1> HIDE DEF p
<1>2. /\ men = MenOf(g.board) /\ turn = GetPlayer(g) /\ rights = RightsOf(g.board)
      /\ {<<s[1] + Direction(turn), s[2]>> : s \in JustPassed(g)} = {skipped} \ {None}
  <2>1. Mirrors(g, p)
    BY DEF p
  <2> QED
    BY <1>1, <2>1 DEF Mirrors
<1>3. squares = {skipped} \ {None}
  BY <1>2
<1> HIDE DEF squares
<1>4. shown = skipped
  <2>1. CASE skipped = None
    BY <1>3, <2>1
  <2>2. CASE skipped # None
    <3>1. squares = {skipped}
      BY <1>3, <2>2
    <3>2. (CHOOSE s \in {skipped} : TRUE) = skipped
      OBVIOUS
    <3> QED
      BY <3>1, <3>2
  <2> QED
    BY <2>1, <2>2
<1>5. PositionOf(g) = Rules!Position(MenOf(g.board), GetPlayer(g), RightsOf(g.board), shown)
  BY DEF PositionOf, shown, squares
<1> HIDE DEF shown
<1> QED
  BY <1>2, <1>4, <1>5

\* A game to begin with mirrors a position in which no pawn has just passed.
LEMMA StartMirrors ==
  ASSUME NEW g, MayStart(g)
  PROVE  /\ g \in EngineGames
         /\ Mirrors(g, Rules!Position(MenOf(g.board), GetPlayer(g), RightsOf(g.board), None))
         /\ Mirrors(g, PositionOf(g))
<1> DEFINE p == Rules!Position(MenOf(g.board), GetPlayer(g), RightsOf(g.board), None)
<1>1. /\ p.men = MenOf(g.board) /\ p.turn = GetPlayer(g)
      /\ p.rights = RightsOf(g.board) /\ p.skipped = None
  BY DEF Rules!Position
<1>2. /\ g \in EngineGames /\ PastIsInOrder(g) /\ JustPassed(g) = {}
      /\ KingsAreSafe(MenOf(g.board), GetPlayer(g)) /\ GetPlayer(g) \in Players
  BY IsGameIsEngineGame DEF MayStart, GetPlayer, Players
<1> HIDE DEF p
<1>3. p.skipped \notin DOMAIN p.men
  <2>1. DOMAIN p.men \subseteq Squares
    BY <1>1, <1>2, BoardIs, MenOfBoard DEF EngineGames
  <2>2. <<>> \notin Squares
    BY DEF Squares
  <2> QED
    BY <1>1, <2>1, <2>2 DEF None
<1>4. KingsAreKept(p.men, p.turn)
  BY <1>1, <1>2, SafeIsKept
<1>5. Mirrors(g, p)
  BY <1>1, <1>2, <1>3, <1>4 DEF Mirrors
<1>6. p = PositionOf(g)
  BY <1>5, MirroredIsShown DEF p
<1> QED
  BY <1>2, <1>5, <1>6 DEF p

\* What the question for check leaves of a game that has ended.
LEMMA LeftIsQueened ==
  ASSUME NEW h \in EngineGames, NEW g \in EngineGames, NEW p, Mirrors(h, p), LeftBy(h, g)
  PROVE  Queened(p.men, MenOf(g.board))
<1>1. /\ MenOf(h.board) = p.men /\ DOMAIN p.men = DOMAIN h.board
      /\ DOMAIN g.board = DOMAIN h.board /\ DOMAIN MenOf(g.board) = DOMAIN g.board
  BY MirroredBoard, MenOfBoard DEF Mirrors, LeftBy, OnlyPromotes
<1>2. ASSUME NEW s \in DOMAIN p.men, MenOf(g.board)[s] # p.men[s]
      PROVE  /\ MayPromote(s, p.men[s])
             /\ MenOf(g.board)[s] = [p.men[s] EXCEPT !.type = QUEEN]
  <2>1. /\ p.men[s] = [type |-> h.board[s].type, player |-> h.board[s].player]
        /\ MenOf(g.board)[s] = [type |-> g.board[s].type, player |-> g.board[s].player]
    <3>1. s \in DOMAIN h.board /\ s \in DOMAIN g.board
      BY <1>1, <1>2
    <3> QED
      BY <1>1, <3>1, MenOfBoard
  <2>2. g.board[s] # h.board[s]
    BY <1>2, <2>1
  <2>3. MayPromote(s, h.board[s]) /\ g.board[s] = [h.board[s] EXCEPT !.type = QUEEN]
    BY <1>1, <1>2, <2>2 DEF LeftBy, OnlyPromotes, MakesQueens
  <2>4. h.board[s] \in Pieces
    BY <1>1, <1>2, MirroredBoard
  <2>5. g.board[s].type = QUEEN /\ g.board[s].player = h.board[s].player
    BY <2>3, <2>4 DEF Pieces
  <2>6. MayPromote(s, p.men[s])
    BY <2>1, <2>3 DEF MayPromote
  <2>7. [[type |-> h.board[s].type, player |-> h.board[s].player] EXCEPT !.type = QUEEN]
          = [type |-> QUEEN, player |-> h.board[s].player]
    OBVIOUS
  <2> QED
    BY <2>1, <2>5, <2>6, <2>7
<1> QED
  BY <1>1, <1>2 DEF Queened

\* Even a game that has ended mirrors what is on its board: the queens that the
\* question has made are men of the player who gives mate.
LEMMA LeftMirrors ==
  ASSUME NEW h \in EngineGames, NEW g \in EngineGames, NEW p, Mirrors(h, p),
         LeftBy(h, g), TouchesOnly(h.board, g.board, Opponent(p.turn))
  PROVE  Mirrors(g, Rules!Position(MenOf(g.board), p.turn, p.rights, p.skipped))
<1> DEFINE men == MenOf(g.board)
<1>1. /\ p.turn \in Players /\ DOMAIN p.men = DOMAIN h.board
      /\ DOMAIN p.men \subseteq Squares /\ KingsAreKept(p.men, p.turn)
      /\ MenOf(h.board) = p.men /\ h.board \in Boards
      /\ \A s \in DOMAIN h.board : h.board[s] \in Pieces /\ p.men[s].player = h.board[s].player
  BY MirroredBoard DEF Mirrors, EngineGames
<1>2. Queened(p.men, men) /\ OnlyPromotes(h.board, g.board)
  BY LeftIsQueened DEF LeftBy
<1>3. /\ DOMAIN g.board = DOMAIN h.board /\ DOMAIN men = DOMAIN p.men
      /\ \A s \in DOMAIN g.board : men[s].type = g.board[s].type /\ men[s].player = g.board[s].player
      /\ \A s \in DOMAIN h.board : p.men[s].type = h.board[s].type
  <2>1. /\ DOMAIN men = DOMAIN g.board
        /\ \A s \in DOMAIN g.board : men[s].type = g.board[s].type /\ men[s].player = g.board[s].player
    BY MenOfBoard
  <2>2. \A s \in DOMAIN h.board : p.men[s].type = h.board[s].type
    <3>1. \A s \in DOMAIN h.board : MenOf(h.board)[s].type = h.board[s].type
      BY MenOfBoard
    <3> QED
      BY <1>1, <3>1
  <2>3. DOMAIN g.board = DOMAIN h.board
    BY <1>2 DEF OnlyPromotes
  <2> HIDE DEF men
  <2> QED
    BY <1>1, <2>1, <2>2, <2>3
<1>4. ASSUME NEW s \in DOMAIN p.men
      PROVE  /\ p.men[s].player \in Players /\ men[s].player = p.men[s].player
             /\ men[s] # p.men[s] => /\ p.men[s].type = PAWN /\ men[s].type = QUEEN
                                     /\ p.men[s].player # p.turn
  <2>1. p.men[s].player \in Players
    BY <1>1 DEF Pieces
  <2>2. CASE g.board[s] = h.board[s]
    <3>1. MenOf(h.board)[s] = [type |-> h.board[s].type, player |-> h.board[s].player]
      BY <1>1, MenOfBoard
    <3>2. men[s] = [type |-> g.board[s].type, player |-> g.board[s].player]
      BY <1>1, <1>3, MenOfBoard
    <3> HIDE DEF men
    <3>3. men[s] = p.men[s]
      BY <1>1, <2>2, <3>1, <3>2
    <3> QED
      BY <2>1, <3>3
  <2>3. CASE g.board[s] # h.board[s]
    <3>1. /\ g.board[s] = [h.board[s] EXCEPT !.type = QUEEN]
          /\ h.board[s].type = PAWN /\ h.board[s].player = Opponent(p.turn)
          /\ h.board[s] \in Pieces
      BY <1>1, <1>2, <2>3 DEF LeftBy, MakesQueens, TouchesOnly, OnlyPromotes, MayPromote
    <3>2. g.board[s].type = QUEEN /\ g.board[s].player = h.board[s].player
      BY <3>1 DEF Pieces
    <3>3. Opponent(p.turn) # p.turn
      BY <1>1 DEF Players, Opponent, WHITE, BLACK
    <3> QED
      BY <1>1, <1>3, <2>1, <3>1, <3>2, <3>3
  <2> QED
    BY <2>2, <2>3
<1>5. \A player \in Players : KingsOf(men, player) = KingsOf(p.men, player)
  BY <1>1, <1>2, PromotionKeepsKings
<1> HIDE DEF men
<1>6. KingsAreKept(men, p.turn)
  BY <1>1, <1>3, <1>4, <1>5, KingsKeptByChange
<1> QED
  BY <1>2, <1>6, PromotionMirrors DEF men, LeftBy

\* make_move(), on any game that mirrors what it shows, leaves one that does.
\* What it rejects is no legal move; what it does not reject is one, and it plays it.
THEOREM MakeMovePlaysChess ==
  ASSUME NEW g \in EngineGames, Mirrors(g, PositionOf(g)), NEW m \in MoveSet
  PROVE  LET h == MakeMove(g, m).game
         IN  /\ Mirrors(h, PositionOf(h))
             /\ MakeMove(g, m).code \in NonFatal => ~Rules!Legal(PositionOf(g), m)
             /\ MakeMove(g, m).code \notin NonFatal => PlaysLegally(g, m, h)
<1> DEFINE p == PositionOf(g)
           r == MakeMove(g, m)
           made == MakeMoveNoCheckmate(g, m)
           played == made.game
           next == Rules!Played(p, m)
           left == Rules!Position(MenOf(r.game.board), next.turn, next.rights, next.skipped)
<1>1. r.game \in EngineGames /\ Mirrors(g, p)
  BY MakeMoveKeepsGame
<1>2. CASE r.code \in NonFatal
  <2>1. Mirrors(r.game, Rules!Position(MenOf(r.game.board), p.turn, p.rights, p.skipped))
    BY <1>1, <1>2, RejectedMirrors
  <2>2. Mirrors(r.game, PositionOf(r.game))
    <3> HIDE DEF r, p
    <3> QED
      BY <2>1, MirroredIsShown
  <2>3. made.code \in NonFatal
    <3>1. r = Judged(GetPlayer(g), made)
      BY DEF MakeMove
    <3> HIDE DEF r, made
    <3> QED
      BY <1>2, <3>1 DEF Judged, Outcome, NonFatal, OK, ILLEGAL_MOVE, MISSING_PROMOTION,
                        WHITE_WIN, BLACK_WIN, FORCED_DRAW, DRAW_OFFER
  <2>4. ~Rules!Legal(p, m)
    <3>1. ~(made.code >= 0)
      BY <2>3, Numbers
    <3> QED
      BY <1>1, <3>1, AcceptedIsLegal
  <2> HIDE DEF r, p
  <2> QED
    BY <1>2, <2>2, <2>4 DEF r, p
<1>3. CASE r.code \notin NonFatal
  <2>1. /\ played \in EngineGames /\ Mirrors(played, next) /\ LeftBy(played, r.game)
        /\ r.game # played => /\ Rules!Mated(next)
                              /\ TouchesOnly(played.board, r.game.board, p.turn)
    BY <1>1, <1>3, MakeMovePlays
  <2>2. Rules!Legal(p, m) /\ played.duration = g.duration + 1
    <3>1. made.code >= 0
      <4>1. r = Judged(GetPlayer(g), made) /\ made.code \in ReportCodes
        BY NoCheckmateKeepsGame DEF MakeMove
      <4> HIDE DEF r, made
      <4>2. made.code \notin NonFatal
        BY <1>3, <4>1 DEF Judged
      <4> QED
        BY <4>1, <4>2, Numbers DEF ReportCodes
    <3> QED
      BY <1>1, <3>1, AcceptedIsLegal DEF PlayedOn
  <2>3. /\ next.turn = Opponent(p.turn) /\ Opponent(next.turn) = p.turn
        /\ next = Rules!Position(next.men, next.turn, next.rights, next.skipped)
    <3>1. p.turn \in Players
      BY <1>1, MirroredBoard
    <3>2. /\ \A a, b, c, d : LET q == Rules!Position(a, b, c, d)
                             IN  q = Rules!Position(q.men, q.turn, q.rights, q.skipped)
          /\ \A a, b, c, d : Rules!Position(a, b, c, d).turn = b
      BY DEF Rules!Position
    <3>3. \E a, c, d : next = Rules!Position(a, Rules!Opponent(p.turn), c, d)
      BY Zenon DEF next, Rules!Played
    <3> HIDE DEF next
    <3>4. /\ next = Rules!Position(next.men, next.turn, next.rights, next.skipped)
          /\ next.turn = Rules!Opponent(p.turn)
      BY <3>2, <3>3
    <3> QED
      BY <3>1, <3>4, SameNames DEF Players, Opponent, WHITE, BLACK
  <2> HIDE DEF r, next, played, p, made
  <2>4. CASE r.game = played
    <3>1. MenOf(r.game.board) = next.men
      BY <2>1, <2>4 DEF Mirrors
    <3>2. left = next
      BY <2>3, <3>1
    <3>3. Mirrors(r.game, left)
      BY <2>1, <2>4, <3>2
    <3>4. left = PositionOf(r.game)
      BY <3>3, MirroredIsShown
    <3> HIDE DEF left
    <3>5. PlaysLegally(g, m, r.game)
      BY <2>2, <2>4, <3>1, <3>4 DEF PlaysLegally, left, p, next
    <3> QED
      BY <1>3, <3>3, <3>4, <3>5 DEF r
  <2>5. CASE r.game # played
    <3>1. Mirrors(r.game, left)
      BY <1>1, <2>1, <2>3, <2>5, LeftMirrors
    <3>2. left = PositionOf(r.game)
      BY <3>1, MirroredIsShown
    <3>3. Queened(next.men, MenOf(r.game.board)) /\ r.game.duration = played.duration
      BY <1>1, <2>1, LeftIsQueened DEF LeftBy
    <3> HIDE DEF left
    <3>4. PlaysLegally(g, m, r.game)
      BY <2>1, <2>2, <2>5, <3>2, <3>3 DEF PlaysLegally, left, p, next
    <3> QED
      BY <1>3, <3>1, <3>2, <3>4 DEF r
  <2> QED
    BY <2>4, <2>5
<1> QED
  BY <1>2, <1>3

-----------------------------------------------------------------------------
(* The game that a client begins with. *)
\* The men of new_game().
LEMMA NewMen ==
  /\ DOMAIN MenOf(NewBoard) = {0, 1, 6, 7} \X Coord
  /\ \A s \in DOMAIN MenOf(NewBoard) :
       /\ s = <<s[1], s[2]>> /\ s[1] \in {0, 1, 6, 7} /\ s[2] \in 0 .. 7
       /\ MenOf(NewBoard)[s].type \in PieceTypes
       /\ MenOf(NewBoard)[s].type = PAWN <=> s[1] \in {1, 6}
       /\ MenOf(NewBoard)[s].type = KING <=> s[1] \in {0, 7} /\ s[2] = 4
       /\ MenOf(NewBoard)[s].player = IF s[1] < 2 THEN BLACK ELSE WHITE
       /\ MenOf(NewBoard)[s] = [type   |-> MenOf(NewBoard)[s].type,
                                player |-> MenOf(NewBoard)[s].player]
<1> DEFINE men == MenOf(NewBoard)
<1>1. DOMAIN NewBoard = {0, 1, 6, 7} \X Coord /\ DOMAIN men = DOMAIN NewBoard
  BY DEF NewBoard, MenOf
<1>2. ASSUME NEW s \in DOMAIN men
      PROVE  /\ s = <<s[1], s[2]>> /\ s[1] \in {0, 1, 6, 7} /\ s[2] \in 0 .. 7
             /\ men[s].type \in PieceTypes
             /\ men[s].type = PAWN <=> s[1] \in {1, 6}
             /\ men[s].type = KING <=> s[1] \in {0, 7} /\ s[2] = 4
             /\ men[s].player = IF s[1] < 2 THEN BLACK ELSE WHITE
             /\ men[s] = [type |-> men[s].type, player |-> men[s].player]
  <2>1. s = <<s[1], s[2]>> /\ s[1] \in {0, 1, 6, 7} /\ s[2] \in 0 .. 7
    BY <1>1, <1>2 DEF Coord
  <2>2. men[s] = [type |-> NewBoard[s].type, player |-> NewBoard[s].player]
    BY <1>1, <1>2 DEF MenOf
  <2>3. /\ NewBoard[s].type = IF s[1] \in {0, 7} THEN BackRank[s[2] + 1] ELSE PAWN
        /\ NewBoard[s].player = IF s[1] < 2 THEN BLACK ELSE WHITE
    BY <1>1, <1>2 DEF NewBoard
  <2>4. /\ BackRank[s[2] + 1] \in 0 .. 4
        /\ BackRank[s[2] + 1] = KING <=> s[2] = 4
    BY <2>1, MenAreNumbers DEF BackRank
  <2> HIDE DEF men
  <2>5. /\ men[s].type = NewBoard[s].type /\ men[s].player = NewBoard[s].player
        /\ men[s] = [type |-> men[s].type, player |-> men[s].player]
    BY <2>2
  <2> QED
    BY <2>1, <2>3, <2>4, <2>5, Numbers
<1> QED
  BY <1>1, <1>2, Zenon

\* No white man of new_game() attacks the black king.
LEMMA NewKingIsSafe == ~Rules!InCheck(MenOf(NewBoard), BLACK)
<1> DEFINE men == MenOf(NewBoard)
<1> SUFFICES ASSUME NEW k \in DOMAIN men, men[k] = [type |-> KING, player |-> BLACK],
                    NEW s \in DOMAIN men, men[s].player = WHITE,
                    k \in Rules!Attacks(men, s)
             PROVE  FALSE
  BY SameNames DEF Rules!InCheck, Rules!Attacked, Opponent
<1>1. /\ k = <<0, 4>>
      /\ s = <<s[1], s[2]>> /\ s[1] \in {6, 7} /\ s[2] \in 0 .. 7
      /\ s[1] = 6 <=> men[s].type = PAWN
      /\ \A c \in 0 .. 7 : <<6, c>> \in DOMAIN men
  <2>1. men[k].type = KING /\ men[k].player = BLACK
    OBVIOUS
  <2>2. /\ k = <<k[1], k[2]>> /\ k[1] \in {0, 1, 6, 7} /\ s[1] \in {0, 1, 6, 7}
        /\ k[1] < 2 /\ k[1] \in {0, 7} /\ k[2] = 4 /\ ~(s[1] < 2)
    BY <2>1, NewMen DEF WHITE, BLACK
  <2>3. \A c \in 0 .. 7 : <<6, c>> \in DOMAIN men
    BY NewMen DEF Coord
  <2>4. /\ s = <<s[1], s[2]>> /\ s[2] \in 0 .. 7
        /\ men[s].type = PAWN <=> s[1] \in {1, 6}
    BY NewMen
  <2> HIDE DEF men
  <2>5. k = <<0, 4>> /\ s[1] \in {6, 7}
    BY <2>2
  <2> QED
    BY <2>3, <2>4, <2>5
<1> HIDE DEF men
<1>2. CASE men[s].type = PAWN
  BY <1>1, <1>2, SameNames, Numbers DEF Rules!Attacks, Rules!Plus, Rules!Forward
<1>3. CASE men[s].type = KNIGHT
  BY <1>1, <1>3, SameNames, MenAreNumbers DEF Rules!Attacks, Rules!Plus
<1>4. CASE men[s].type = KING
  <2>1. Rules!Attacks(men, s) =
          {Rules!Plus(s, d, 1) : d \in Rules!Straight \cup Rules!Diagonal}
    BY <1>4, SameNames, MenAreNumbers DEF Rules!Attacks
  <2> QED
    BY <1>1, <2>1, Directions DEF Rules!Plus
<1>5. CASE men[s].type \notin {PAWN, KNIGHT, KING}
  <2>1. Rules!Attacks(men, s) =
          UNION {Rules!Ray(men, s, d) : d \in Rules!Slides(men[s].type)}
    BY <1>5, SameNames, MenAreNumbers DEF Rules!Attacks
  <2>2. PICK d \in Rules!Slides(men[s].type) : k \in Rules!Ray(men, s, d)
    BY <2>1
  <2>3. d[1] \in {-1, 0, 1} /\ d[2] \in {-1, 0, 1}
    BY Directions, SameNames, MenAreNumbers DEF Rules!Slides
  <2>4. PICK n \in 1 .. 7 : /\ k = Rules!Plus(s, d, n)
                            /\ \A i \in 1 .. n - 1 : Rules!Plus(s, d, i) \notin DOMAIN men
    BY <2>2 DEF Rules!Ray
  <2>5. s[1] + n * d[1] = 0 /\ s[2] + n * d[2] = 4
    BY <1>1, <2>4 DEF Rules!Plus
  <2>6. d[1] = -1 /\ n = 7 /\ s[1] = 7
    BY <1>1, <1>5, <2>3, <2>5
  <2>7. d[2] = 0 /\ s[2] = 4
    BY <1>1, <2>3, <2>5, <2>6
  <2>8. Rules!Plus(s, d, 1) = <<6, 4>>
    BY <2>6, <2>7 DEF Rules!Plus
  <2> QED
    BY <1>1, <2>4, <2>6, <2>8
<1> QED
  BY <1>2, <1>3, <1>4, <1>5

\* new_game() makes a game to begin with: the theorems are about chess as a
\* client plays it.
THEOREM NewGameMayStart == MayStart(NewGame)
<1> DEFINE men == MenOf(NewBoard)
<1>1. NewGame.board = NewBoard /\ NewGame.duration = 0
  BY DEF NewGame
<1>2. IsGame(NewGame) /\ AtHome(NewBoard)
  BY <1>1, NewGameIsGame, IsGameIsEngineGame, BoardIs DEF EngineGames
<1>3. \A s \in DOMAIN NewBoard : NewBoard[s].moves = 0 /\ NewBoard[s].last_move = 0
  BY DEF NewBoard
<1>4. PastIsInOrder(NewGame) /\ JustPassed(NewGame) = {}
  BY <1>1, <1>3 DEF PastIsInOrder, JustPassed, HeldBy
<1>5. \A player \in Players :
        KingsOf(men, player) = {<<HomeRow(player), 4>>}
  <2>1. ASSUME NEW player \in Players, NEW s \in DOMAIN men
        PROVE  men[s] = [type |-> KING, player |-> player] <=>
                 men[s].type = KING /\ men[s].player = player
    BY <2>1, NewMen
  <2>2. \A player \in Players : <<HomeRow(player), 4>> \in DOMAIN men
    BY NewMen DEF HomeRow, Coord
  <2>3. ASSUME NEW player \in Players, NEW s \in DOMAIN men
        PROVE  men[s].type = KING /\ men[s].player = player <=>
                 s = <<HomeRow(player), 4>>
    <3>1. /\ s = <<s[1], s[2]>> /\ s[1] \in {0, 1, 6, 7}
          /\ men[s].player = IF s[1] < 2 THEN BLACK ELSE WHITE
          /\ men[s].type = KING <=> s[1] \in {0, 7} /\ s[2] = 4
      BY <2>3, NewMen
    <3> QED
      BY <3>1 DEF HomeRow, Players, WHITE, BLACK
  <2> HIDE DEF men
  <2> QED
    BY <2>1, <2>2, <2>3 DEF KingsOf
<1>6. GetPlayer(NewGame) = WHITE /\ Opponent(WHITE) = BLACK
  BY <1>1 DEF GetPlayer, Opponent
<1>7. KingsAreSafe(men, WHITE)
  <2>1. \A player \in Players : <<HomeRow(player), 4>> \in Squares
    BY DEF HomeRow, Squares, Coord
  <2> QED
    BY <1>5, <1>6, <2>1, NewKingIsSafe DEF KingsAreSafe
<1> QED
  BY <1>1, <1>2, <1>4, <1>6, <1>7 DEF MayStart
=============================================================================
