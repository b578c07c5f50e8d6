---------------------------- MODULE CourseProofs ----------------------------
(***************************************************************************)
(* The geometry of intersection is right for all coordinates: proofs about *)
(* the module Course.                                                      *)
(***************************************************************************)
EXTENDS Course, TLAPS

-----------------------------------------------------------------------------
(* Integers.                                                               *)

\* The sign of a product, when it is known which factor is the greater.
LEMMA ProductSign ==
  ASSUME NEW x \in Int, NEW y \in Int, x >= y
  PROVE  x * y <= 0 <=> x >= 0 /\ y <= 0
OBVIOUS

\* A factor that occurs twice does not change the sign.
LEMMA SquareSign ==
  ASSUME NEW x \in Int, NEW y \in Int, NEW z \in Int, z # 0
  PROVE  (x * z) * (y * z) <= 0 <=> x * y <= 0
<1>1. z * z > 0
  OBVIOUS
<1>2. (x * z) * (y * z) = (x * y) * (z * z)
  OBVIOUS
<1> DEFINE P == x * y
           Q == z * z
<1>3. P \in Int /\ Q \in Int /\ Q > 0
  BY <1>1
<1> HIDE DEF P, Q
<1>4. P * Q <= 0 <=> P <= 0
  BY <1>3
<1> QED
  BY <1>2, <1>4 DEF P, Q

\* Max and Min of two integers.
LEMMA MaxMin ==
  ASSUME NEW a \in Int, NEW b \in Int
  PROVE  /\ Max({a, b}) = IF a >= b THEN a ELSE b
         /\ Min({a, b}) = IF a >= b THEN b ELSE a
<1>1. Max({a, b}) \in {a, b} /\ \A y \in {a, b} : Max({a, b}) >= y
  <2>1. \E x \in {a, b} : \A y \in {a, b} : x >= y
    OBVIOUS
  <2> QED
    BY <2>1 DEF Max
<1>2. Min({a, b}) \in {a, b} /\ \A y \in {a, b} : Min({a, b}) <= y
  <2>1. \E x \in {a, b} : \A y \in {a, b} : x <= y
    OBVIOUS
  <2> QED
    BY <2>1 DEF Min
<1> QED
  BY <1>1, <1>2

\* A fraction lies between two integers exactly if its distances to them have
\* different signs.
LEMMA BetweenIsProduct ==
  ASSUME NEW n \in Int, NEW d \in Int, d # 0, NEW a \in Int, NEW b \in Int
  PROVE  Between(n, d, a, b) <=> (n - a * d) * (n - b * d) <= 0
<1> DEFINE x == n - a * d
           y == n - b * d
<1>1. x \in Int /\ y \in Int /\ x - y = (b - a) * d
  OBVIOUS
<1>2. x * y <= 0 <=> IF x >= y THEN x >= 0 /\ y <= 0 ELSE y >= 0 /\ x <= 0
  <2> HIDE DEF x, y
  <2> QED
    BY <1>1, ProductSign
<1>3. Between(n, d, a, b) <=>
        IF d > 0
        THEN IF a >= b THEN x <= 0 /\ y >= 0 ELSE y <= 0 /\ x >= 0
        ELSE IF a >= b THEN x >= 0 /\ y <= 0 ELSE y >= 0 /\ x <= 0
  <2>1. Between(n, d, a, b) <=>
          /\ AtMost(n, d, IF a >= b THEN a ELSE b)
          /\ AtLeast(n, d, IF a >= b THEN b ELSE a)
    BY MaxMin DEF Between
  <2>2. CASE a >= b
    BY <2>1, <2>2 DEF AtMost, AtLeast
  <2>3. CASE ~(a >= b)
    BY <2>1, <2>3 DEF AtMost, AtLeast
  <2> QED
    BY <2>2, <2>3
<1>4. CASE d > 0
  <2>1. a >= b => x <= y
    BY <1>4
  <2>2. a < b => x >= y
    BY <1>4
  <2> HIDE DEF x, y
  <2>3. x * y <= 0 <=> IF a >= b THEN y >= 0 /\ x <= 0 ELSE x >= 0 /\ y <= 0
    BY <1>1, <1>2, <2>1, <2>2
  <2> QED
    BY <1>3, <1>4, <2>3 DEF x, y
<1>5. CASE d < 0
  <2>1. a >= b => x >= y
    BY <1>5
  <2>2. a < b => x <= y
    BY <1>5
  <2> HIDE DEF x, y
  <2>3. x * y <= 0 <=> IF a >= b THEN x >= 0 /\ y <= 0 ELSE y >= 0 /\ x <= 0
    BY <1>1, <1>2, <2>1, <2>2
  <2> QED
    BY <1>3, <1>5, <2>3 DEF x, y
<1> QED
  BY <1>4, <1>5

-----------------------------------------------------------------------------
(* The point where the leg and the gate meet.                              *)

Place == [x : Int, y : Int]
Gate  == [x1 : Int, y1 : Int, x2 : Int, y2 : Int]

FirstEnd(g)  == [x |-> g.x1, y |-> g.y1]
SecondEnd(g) == [x |-> g.x2, y |-> g.y2]

\* The distances of the point to the ends of the leg, and to those of the gate, are the
\* areas that the other two points span with them.
LEMMA Distances ==
  ASSUME NEW p \in Place, NEW q \in Place, NEW g \in Gate
  PROVE  LET a1 == Area(FirstEnd(g), SecondEnd(g), p)
             a2 == Area(FirstEnd(g), SecondEnd(g), q)
             l1 == Area(p, q, FirstEnd(g))
             l2 == Area(p, q, SecondEnd(g))
         IN  /\ a1 \in Int /\ a2 \in Int /\ l1 \in Int /\ l2 \in Int
             /\ Denom(p, q, g) \in Int /\ PX(p, q, g) \in Int /\ PY(p, q, g) \in Int
             /\ PX(p, q, g) - p.x * Denom(p, q, g) = a1 * (q.x - p.x)
             /\ PX(p, q, g) - q.x * Denom(p, q, g) = a2 * (q.x - p.x)
             /\ PY(p, q, g) - g.y1 * Denom(p, q, g) = l1 * (g.y1 - g.y2)
             /\ PY(p, q, g) - g.y2 * Denom(p, q, g) = l2 * (g.y1 - g.y2)
<1>1. /\ p.x \in Int /\ p.y \in Int /\ q.x \in Int /\ q.y \in Int
      /\ g.x1 \in Int /\ g.y1 \in Int /\ g.x2 \in Int /\ g.y2 \in Int
  BY DEF Place, Gate
<1>2. SUFFICES ASSUME NEW a \in Int, NEW b \in Int, NEW c \in Int, NEW d \in Int,
                      NEW e \in Int, NEW f \in Int, NEW i \in Int, NEW j \in Int
               PROVE  LET den == (a - c) * (f - j) - (b - d) * (e - i)
                          px  == (a * d - b * c) * (e - i) - (a - c) * (e * j - f * i)
                          py  == (a * d - b * c) * (f - j) - (b - d) * (e * j - f * i)
                      IN  /\ px - a * den = ((i - e) * (b - f) - (j - f) * (a - e)) * (c - a)
                          /\ px - c * den = ((i - e) * (d - f) - (j - f) * (c - e)) * (c - a)
                          /\ py - f * den = ((c - a) * (f - b) - (d - b) * (e - a)) * (f - j)
                          /\ py - j * den = ((c - a) * (j - b) - (d - b) * (i - a)) * (f - j)
  BY <1>1 DEF FirstEnd, SecondEnd, Area, Denom, PX, PY
<1> QED
  OBVIOUS

\* intersection against the reference test, for any leg and any gate.
LEMMA CrossesIsMeeting ==
  ASSUME NEW p \in Place, NEW q \in Place, NEW g \in Gate,
         p.x # q.x, g.y1 # g.y2, p.x # 0, q.x # 0, Denom(p, q, g) # 0
  PROVE  Crosses(p, q, g) <=>
           /\ Area(p, q, FirstEnd(g)) * Area(p, q, SecondEnd(g)) <= 0
           /\ Area(FirstEnd(g), SecondEnd(g), p) * Area(FirstEnd(g), SecondEnd(g), q) <= 0
<1> DEFINE den == Denom(p, q, g)
           a1 == Area(FirstEnd(g), SecondEnd(g), p)
           a2 == Area(FirstEnd(g), SecondEnd(g), q)
           l1 == Area(p, q, FirstEnd(g))
           l2 == Area(p, q, SecondEnd(g))
           px == PX(p, q, g)
           py == PY(p, q, g)
           dx == q.x - p.x
           dy == g.y1 - g.y2
<1>1. /\ p.x \in Int /\ q.x \in Int /\ g.y1 \in Int /\ g.y2 \in Int
      /\ dx \in Int \ {0} /\ dy \in Int \ {0}
  BY DEF Place, Gate
<1>2. /\ a1 \in Int /\ a2 \in Int /\ l1 \in Int /\ l2 \in Int
      /\ den \in Int /\ den # 0 /\ px \in Int /\ py \in Int
      /\ px - p.x * den = a1 * dx /\ px - q.x * den = a2 * dx
      /\ py - g.y1 * den = l1 * dy /\ py - g.y2 * den = l2 * dy
  BY Distances
<1>3. Crosses(p, q, g) <=> Between(px, den, p.x, q.x) /\ Between(py, den, g.y1, g.y2)
  BY DEF Crosses
<1> HIDE DEF den, a1, a2, l1, l2, px, py, dx, dy
<1>4. Between(px, den, p.x, q.x) <=> (a1 * dx) * (a2 * dx) <= 0
  BY <1>1, <1>2, BetweenIsProduct
<1>5. Between(py, den, g.y1, g.y2) <=> (l1 * dy) * (l2 * dy) <= 0
  BY <1>1, <1>2, BetweenIsProduct
<1>6. (a1 * dx) * (a2 * dx) <= 0 <=> a1 * a2 <= 0
  BY <1>1, <1>2, SquareSign
<1>7. (l1 * dy) * (l2 * dy) <= 0 <=> l1 * l2 <= 0
  BY <1>1, <1>2, SquareSign
<1>8. Crosses(p, q, g) <=> l1 * l2 <= 0 /\ a1 * a2 <= 0
  BY <1>3, <1>4, <1>5, <1>6, <1>7
<1> QED
  BY <1>8 DEF l1, l2, a1, a2

-----------------------------------------------------------------------------
(* The gate that the constructor lays.                                     *)

\* Floor is the greatest integer that is not above the fraction.
LEMMA FloorBounds ==
  ASSUME NEW n \in Int, NEW d \in Int, d # 0
  PROVE  /\ Floor(n, d) \in Int
         /\ d > 0 => Floor(n, d) * d <= n /\ n < Floor(n, d) * d + d
         /\ d < 0 => Floor(n, d) * d >= n /\ n > Floor(n, d) * d + d
<1>1. CASE d > 0
  <2>1. Floor(n, d) = n \div d
    BY <1>1 DEF Floor
  <2>2. /\ n \div d \in Int
        /\ (n \div d) * d <= n /\ n < (n \div d) * d + d
    BY <1>1
  <2> QED
    BY <1>1, <2>1, <2>2
<1>2. CASE d < 0
  <2>1. Floor(n, d) = (-n) \div (-d)
    BY <1>2 DEF Floor
  <2>2. /\ (-n) \div (-d) \in Int
        /\ ((-n) \div (-d)) * (-d) <= -n
        /\ -n < ((-n) \div (-d)) * (-d) + (-d)
    BY <1>2
  <2> DEFINE f == (-n) \div (-d)
  <2> HIDE DEF f
  <2>3. f \in Int /\ f * (-d) <= -n /\ -n < f * (-d) + (-d)
    BY <2>2 DEF f
  <2>4. f * (-d) = -(f * d)
    BY <2>3
  <2>5. f * d >= n /\ n > f * d + d
    <3> DEFINE fd == f * d
    <3>1. fd \in Int /\ -fd <= -n /\ -n < -fd + (-d)
      BY <2>3, <2>4
    <3> HIDE DEF fd
    <3>2. fd >= n /\ n > fd + d
      BY <3>1
    <3> QED
      BY <3>2 DEF fd
  <2> QED
    BY <1>2, <2>1, <2>3, <2>5 DEF f
<1> QED
  BY <1>1, <1>2

\* Two fractions n/d and -n/d rounded down: their sum loses at most one, and their
\* difference is 2n/d to within one.
LEMMA RoundedPair ==
  ASSUME NEW n \in Int, NEW d \in Int, d # 0, NEW k \in Int
  PROVE  LET u == Floor(n + k * d, d)
             v == Floor(k * d - n, d)
         IN  /\ u \in Int /\ v \in Int
             /\ u + v \in 2 * k - 1 .. 2 * k
             /\ Abs((u - v) * d - 2 * n) < Abs(d)
<1> DEFINE u == Floor(n + k * d, d)
           v == Floor(k * d - n, d)
<1>1. /\ u \in Int /\ v \in Int
      /\ d > 0 => u * d <= n + k * d /\ n + k * d < u * d + d
      /\ d < 0 => u * d >= n + k * d /\ n + k * d > u * d + d
      /\ d > 0 => v * d <= k * d - n /\ k * d - n < v * d + d
      /\ d < 0 => v * d >= k * d - n /\ k * d - n > v * d + d
  BY FloorBounds
<1> HIDE DEF u, v
<1>2. /\ (u + v - 2 * k) * d = u * d + v * d - 2 * (k * d)
      /\ (u - v) * d = u * d - v * d
  BY <1>1
<1> DEFINE s == u + v - 2 * k
<1>3. s \in Int
  BY <1>1
<1>4. s <= 0 /\ s >= -1
  <2>1. d > 0 => s * d <= 0 /\ 0 < s * d + 2 * d
    BY <1>1, <1>2
  <2>2. d < 0 => s * d >= 0 /\ 0 > s * d + 2 * d
    BY <1>1, <1>2
  <2> HIDE DEF s
  <2>3. s * d + 2 * d = (s + 2) * d
    BY <1>3
  <2> QED
    BY <1>3, <2>1, <2>2, <2>3
<1>5. Abs((u - v) * d - 2 * n) < Abs(d)
  <2> DEFINE ud == u * d
             vd == v * d
             kd == k * d
  <2>1. ud \in Int /\ vd \in Int /\ kd \in Int
    BY <1>1
  <2> HIDE DEF ud, vd, kd
  <2>2. (u - v) * d = ud - vd
    BY <1>2 DEF ud, vd
  <2>3. CASE d > 0
    <3>1. ud <= n + kd /\ n + kd < ud + d /\ vd <= kd - n /\ kd - n < vd + d
      BY <1>1, <2>3 DEF ud, vd, kd
    <3> QED
      BY <2>1, <2>2, <2>3, <3>1 DEF Abs
  <2>4. CASE d < 0
    <3>1. ud >= n + kd /\ n + kd > ud + d /\ vd >= kd - n /\ kd - n > vd + d
      BY <1>1, <2>4 DEF ud, vd, kd
    <3> QED
      BY <2>1, <2>2, <2>4, <3>1 DEF Abs
  <2> QED
    BY <2>3, <2>4
<1> QED
  BY <1>1, <1>3, <1>4, <1>5 DEF u, v

\* The middle of the gate is the end of the leg, and the discriminant is a square times
\* the square of the half width.
LEMMA Coefficients ==
  ASSUME NEW p \in Place, NEW q \in Place, NEW w \in Int
  PROVE  LET M == p.x - q.x
             D == q.y - p.y
             A == CoeffA(p, q)
         IN  /\ A = D * D + M * M
             /\ Intercept(p, q) = D * q.y - M * q.x
             /\ CoeffB(p, q) = -(2 * A * q.x)
             /\ Discriminant(p, q, w) = 4 * A * D * D * w * w
<1>1. p.x \in Int /\ p.y \in Int /\ q.x \in Int /\ q.y \in Int
  BY DEF Place
<1> DEFINE M == p.x - q.x
           D == q.y - p.y
           A == CoeffA(p, q)
<1>2. M \in Int /\ D \in Int
  BY <1>1
<1>3. Slope(p, q) = [M |-> M, D |-> D]
  BY DEF Slope
<1>4. A = D * D + M * M
  BY <1>3 DEF CoeffA
<1>5. Intercept(p, q) = D * q.y - M * q.x
  BY <1>3 DEF Intercept
<1>6. CoeffB(p, q) = 2 * (D * q.y - M * q.x) * M - 2 * q.x * D * D - 2 * M * D * q.y
  BY <1>3, <1>5 DEF CoeffB
<1>7. CoeffC(p, q, w) = D * D * (q.x * q.x + q.y * q.y - w * w)
                          + (D * q.y - M * q.x) * (D * q.y - M * q.x)
                          - 2 * (D * q.y - M * q.x) * D * q.y
  BY <1>3, <1>5 DEF CoeffC
<1> HIDE DEF M, D, A
<1>8. CoeffB(p, q) = -(2 * A * q.x)
  BY <1>1, <1>2, <1>4, <1>6
<1>9. CoeffC(p, q, w) = A * q.x * q.x - D * D * w * w
  BY <1>1, <1>2, <1>4, <1>7
<1>10. A \in Int
  BY <1>2, <1>4
<1>11. Discriminant(p, q, w)
         = (-(2 * A * q.x)) * (-(2 * A * q.x)) - 4 * A * (A * q.x * q.x - D * D * w * w)
  BY <1>8, <1>9 DEF Discriminant, A
<1>12. Discriminant(p, q, w) = 4 * A * D * D * w * w
  BY <1>1, <1>2, <1>10, <1>11
<1> QED
  BY <1>4, <1>5, <1>8, <1>12 DEF M, D, A

\* From squares to numbers.
LEMMA SquareOrder ==
  ASSUME NEW x \in Int, NEW y \in Nat, x * x <= y * y
  PROVE  x <= y
<1>1. SUFFICES ASSUME x > y PROVE FALSE
  OBVIOUS
<1>2. x * x > y * y
  BY <1>1
<1> QED
  BY <1>2

\* A vector that lies within one unit, in each coordinate, of one as long as twice the
\* half width d has that length to within two.  The exact vector is root * <<D, M>> over
\* A * D; e and f are the differences, times A and times A * D.
LEMMA LengthOfGate ==
  ASSUME NEW D \in Int, NEW M \in Int, NEW A \in Int, NEW root \in Nat, NEW d \in Nat,
         NEW w \in Int, NEW h \in Int, d > 0, D # 0, A = D * D + M * M,
         root * root = 4 * A * D * D * d * d,
         Abs(w * A - root) < A, Abs(h * D * A - M * root) < Abs(D) * A
  PROVE  /\ w * w + h * h >= (2 * d - 2) * (2 * d - 2)
         /\ w * w + h * h <= (2 * d + 2) * (2 * d + 2)
<1> DEFINE e == w * A - root
           f == h * D * A - M * root
           N == w * w + h * h
           AD == A * Abs(D)
           S == Abs(D) + Abs(M)
           cross == D * D * e + M * f
<1>1. /\ e \in Int /\ f \in Int /\ N \in Nat
      /\ Abs(D) \in Nat /\ Abs(D) > 0 /\ Abs(M) \in Nat
      /\ Abs(D) * Abs(D) = D * D /\ Abs(M) * Abs(M) = M * M
  BY DEF Abs
<1>2. A > 0 /\ D * D > 0
  OBVIOUS
<1>3. AD \in Nat /\ AD > 0 /\ AD * AD = A * A * D * D
  <2> DEFINE x == Abs(D)
  <2>1. x \in Nat /\ x > 0 /\ x * x = D * D
    BY <1>1
  <2> HIDE DEF x
  <2>2. A * x \in Nat /\ A * x > 0
    BY <1>2, <2>1
  <2>3. (A * x) * (A * x) = (A * A) * (x * x)
    BY <2>1
  <2>4. (A * A) * (D * D) = A * A * D * D
    OBVIOUS
  <2> QED
    BY <2>1, <2>2, <2>3, <2>4 DEF x
<1>4. S \in Nat /\ S * S <= 2 * A
  <2> DEFINE x == Abs(D)
             y == Abs(M)
  <2>1. x \in Nat /\ y \in Nat /\ A = x * x + y * y
    BY <1>1
  <2> HIDE DEF x, y
  <2>2. (x + y) * (x + y) <= 2 * (x * x + y * y)
    <3>1. (x - y) * (x - y) >= 0
      BY <2>1
    <3>2. 2 * (x * x + y * y) - (x + y) * (x + y) = (x - y) * (x - y)
      BY <2>1
    <3> QED
      BY <2>1, <3>1, <3>2
  <2> QED
    BY <2>1, <2>2 DEF x, y
<1>5. root * S <= 3 * AD * d
  <2>1. (root * S) * (root * S) = (root * root) * (S * S)
    BY <1>4
  <2>2. (3 * AD * d) * (3 * AD * d) = 9 * (A * A * D * D) * (d * d)
    BY <1>3
  <2>3. (root * root) * (S * S) <= (root * root) * (2 * A)
    BY <1>4
  <2>4. (root * root) * (2 * A) = 8 * (A * A * D * D) * (d * d)
    OBVIOUS
  <2>5. 8 * (A * A * D * D) * (d * d) <= 9 * (A * A * D * D) * (d * d)
    <3>1. (A * A * D * D) * (d * d) >= 0
      BY <1>3
    <3> QED
      BY <3>1
  <2>6. (root * S) * (root * S) <= (3 * AD * d) * (3 * AD * d)
    BY <1>3, <1>4, <2>1, <2>2, <2>3, <2>4, <2>5
  <2>7. root * S \in Int /\ 3 * AD * d \in Nat
    BY <1>3, <1>4
  <2> QED
    BY <2>6, <2>7, SquareOrder
<1>6. cross \in Int /\ cross <= AD * S /\ -cross <= AD * S
  <2> DEFINE x == Abs(D)
             y == Abs(M)
  <2>1. x \in Nat /\ y \in Nat /\ D * D = x * x /\ M \in {y, -y}
    BY <1>1 DEF Abs
  <2>2. -A < e /\ e < A /\ -(x * A) < f /\ f < x * A
    BY <1>1, <1>2 DEF Abs
  <2>3. AD * S = (x * x) * A + y * (x * A)
    BY <1>1
  <2> HIDE DEF x, y, e, f
  <2>4. (x * x) * e <= (x * x) * A /\ -((x * x) * e) <= (x * x) * A
    BY <1>1, <2>1, <2>2
  <2>5. M * f <= y * (x * A) /\ -(M * f) <= y * (x * A)
    BY <1>1, <2>1, <2>2
  <2> QED
    BY <1>1, <2>1, <2>3, <2>4, <2>5
<1>7. 2 * root * cross <= 6 * AD * AD * d /\ -(2 * root * cross) <= 6 * AD * AD * d
  <2> HIDE DEF cross, AD, S
  <2>1. root * cross <= root * (AD * S) /\ -(root * cross) <= root * (AD * S)
    BY <1>3, <1>4, <1>6
  <2>2. root * (AD * S) = AD * (root * S)
    BY <1>3, <1>4
  <2>3. AD * (root * S) <= AD * (3 * AD * d)
    BY <1>3, <1>4, <1>5
  <2>4. AD * (3 * AD * d) = 3 * AD * AD * d
    BY <1>3
  <2> QED
    BY <1>3, <1>4, <1>6, <2>1, <2>2, <2>3, <2>4
<1>8. /\ D * D * e * e + f * f >= 0
      /\ D * D * e * e + f * f <= 2 * (AD * AD)
  <2>1. e * e <= A * A
    BY <1>1, <1>2 DEF Abs
  <2>2. f * f <= AD * AD
    <3>1. -AD < f /\ f < AD
      BY <1>1, <1>3 DEF Abs
    <3> HIDE DEF f, AD
    <3> QED
      BY <1>1, <1>3, <3>1
  <2>3. D * D * e * e >= 0 /\ f * f >= 0
    BY <1>1, <1>2
  <2>4. D * D * e * e <= D * D * (A * A)
    <3> HIDE DEF e
    <3> QED
      BY <1>1, <1>2, <2>1
  <2>5. D * D * (A * A) = AD * AD
    BY <1>3
  <2> DEFINE dde == D * D * e * e
             ff == f * f
             aa == AD * AD
  <2>6. dde \in Int /\ ff \in Int /\ aa \in Int
    BY <1>1, <1>3
  <2>7. dde <= aa /\ ff <= aa /\ dde >= 0 /\ ff >= 0
    BY <2>2, <2>3, <2>4, <2>5
  <2> HIDE DEF dde, ff, aa
  <2>8. dde + ff >= 0 /\ dde + ff <= 2 * aa
    BY <2>6, <2>7
  <2> QED
    BY <2>8 DEF dde, ff, aa
<1>9. (AD * AD) * N = 4 * (AD * AD) * (d * d) + 2 * root * cross + (D * D * e * e + f * f)
  <2>1. w * A = root + e /\ h * D * A = M * root + f
    BY <1>1
  <2>2. (AD * AD) * N = D * D * (w * A) * (w * A) + (h * D * A) * (h * D * A)
    BY <1>3
  <2>3. D * D * (root + e) * (root + e) + (M * root + f) * (M * root + f)
          = A * (root * root) + 2 * root * cross + (D * D * e * e + f * f)
    <3> HIDE DEF e, f
    <3> QED
      BY <1>1 DEF cross
  <2>4. A * (root * root) = 4 * (AD * AD) * (d * d)
    <3>1. A * (4 * A * D * D * d * d) = 4 * (A * A * D * D) * (d * d)
      OBVIOUS
    <3> QED
      BY <1>3, <3>1, Zenon
  <2>5. (AD * AD) * N
          = D * D * (root + e) * (root + e) + (M * root + f) * (M * root + f)
    BY <2>1, <2>2
  <2> HIDE DEF AD, N, cross, e, f
  <2> QED
    BY <2>3, <2>4, <2>5
<1> DEFINE Q == AD * AD
           C == 2 * root * cross
           R == D * D * e * e + f * f
<1>10. /\ Q \in Int /\ Q > 0 /\ C \in Int /\ R \in Int
       /\ C <= 6 * (Q * d) /\ -C <= 6 * (Q * d) /\ R >= 0 /\ R <= 2 * Q
       /\ Q * N = 4 * (Q * (d * d)) + C + R
  <2>1. 6 * AD * AD * d = 6 * (Q * d) /\ 4 * (AD * AD) * (d * d) = 4 * (Q * (d * d))
    BY <1>3
  <2> QED
    BY <1>1, <1>3, <1>6, <1>7, <1>8, <1>9, <2>1
<1> HIDE DEF Q, C, R, N, AD, S, cross, e, f
<1>11. N <= 4 * (d * d) + 6 * d + 2
  <2>1. Q * N <= Q * (4 * (d * d) + 6 * d + 2)
    BY <1>1, <1>10
  <2> QED
    BY <1>1, <1>10, <2>1
<1>12. N >= 4 * (d * d) - 6 * d
  <2>1. Q * N >= Q * (4 * (d * d) - 6 * d)
    BY <1>1, <1>10
  <2> QED
    BY <1>1, <1>10, <2>1
<1>13. N <= (2 * d + 2) * (2 * d + 2)
  BY <1>1, <1>11
<1>14. N >= (2 * d - 2) * (2 * d - 2)
  <2>1. CASE d = 1
    BY <1>1, <2>1
  <2>2. CASE d >= 2
    BY <1>1, <1>12, <2>2
  <2> QED
    BY <2>1, <2>2
<1> QED
  BY <1>13, <1>14 DEF N

\* The end points in terms of the leg's vector and of the coefficients: each is the end
\* of the leg moved by half the exact gate, rounded down.
LEMMA EndPoints ==
  ASSUME NEW p \in Place, NEW q \in Place, NEW root \in Nat, p.y # q.y
  PROVE  LET M == p.x - q.x
             D == q.y - p.y
             A == D * D + M * M
             K == D * (2 * A)
             g == GateFrom(p, q, root)
         IN  /\ A \in Nat /\ A > 0 /\ K \in Int /\ K # 0
             /\ g = [x1 |-> Floor(root + q.x * (2 * A), 2 * A),
                     y1 |-> Floor(M * root + q.y * K, K),
                     x2 |-> Floor(q.x * (2 * A) - root, 2 * A),
                     y2 |-> Floor(q.y * K - M * root, K)]
             /\ g \in Gate
<1> DEFINE M == p.x - q.x
           D == q.y - p.y
           A == D * D + M * M
           K == D * (2 * A)
           I == Intercept(p, q)
           B == CoeffB(p, q)
           X(n) == Floor(n, 2 * CoeffA(p, q))
           Y(n) == Floor(M * n + I * (2 * CoeffA(p, q)), D * (2 * CoeffA(p, q)))
<1>1. p.x \in Int /\ p.y \in Int /\ q.x \in Int /\ q.y \in Int
  BY DEF Place
<1>2. M \in Int /\ D \in Int /\ D # 0
  BY DEF Place
<1>3. Slope(p, q) = [M |-> M, D |-> D]
  BY DEF Slope
<1>4. CoeffA(p, q) = A /\ I = D * q.y - M * q.x /\ B = -(2 * A * q.x)
  BY Coefficients
<1>5. GateFrom(p, q, root)
        = [x1 |-> X(root - B), y1 |-> Y(root - B), x2 |-> X(-root - B), y2 |-> Y(-root - B)]
  BY <1>3 DEF GateFrom
<1> HIDE DEF M, D, I, B
<1>6. A \in Nat /\ A > 0
  BY <1>2
<1> HIDE DEF A
<1>7. K \in Int /\ K # 0
  BY <1>2, <1>6
<1>8. /\ root - B = root + q.x * (2 * A)
      /\ -root - B = q.x * (2 * A) - root
  BY <1>1, <1>4, <1>6
<1>9. /\ M * (root + q.x * (2 * A)) + (D * q.y - M * q.x) * (2 * A) = M * root + q.y * K
      /\ M * (q.x * (2 * A) - root) + (D * q.y - M * q.x) * (2 * A) = q.y * K - M * root
  <2>1. \A a \in Int, b \in Int :
          /\ M * (root + a * (2 * A)) + (D * b - M * a) * (2 * A) = M * root + b * K
          /\ M * (a * (2 * A) - root) + (D * b - M * a) * (2 * A) = b * K - M * root
    BY <1>2, <1>6
  <2> QED
    BY <1>1, <2>1
<1>10. /\ X(root - B) = Floor(root + q.x * (2 * A), 2 * A)
       /\ X(-root - B) = Floor(q.x * (2 * A) - root, 2 * A)
       /\ Y(root - B) = Floor(M * root + q.y * K, K)
       /\ Y(-root - B) = Floor(q.y * K - M * root, K)
  BY <1>4, <1>8, <1>9
<1>11. GateFrom(p, q, root)
         = [x1 |-> Floor(root + q.x * (2 * A), 2 * A), y1 |-> Floor(M * root + q.y * K, K),
            x2 |-> Floor(q.x * (2 * A) - root, 2 * A), y2 |-> Floor(q.y * K - M * root, K)]
  BY <1>5, <1>10
<1> DEFINE k == M * root
           l == q.y * K
           n == 2 * A
           m == q.x * n
<1>12. /\ k \in Int /\ l \in Int /\ n \in Int /\ n # 0 /\ m \in Int
  BY <1>1, <1>2, <1>6, <1>7
<1> HIDE DEF k, l, m, n, K
<1>13. /\ Floor(root + m, n) \in Int /\ Floor(m - root, n) \in Int
       /\ Floor(k + l, K) \in Int /\ Floor(l - k, K) \in Int
  BY <1>7, <1>12, FloorBounds
<1>14. GateFrom(p, q, root) \in Gate
  BY <1>11, <1>13 DEF Gate, k, l, m, n
<1> QED
  BY <1>6, <1>7, <1>11, <1>14 DEF M, D, A, K

\* The constructor's gate lies across its leg, whatever the leg and the half width.
LEMMA GateLies ==
  ASSUME NEW p \in Place, NEW q \in Place, NEW root \in Nat, NEW d \in Nat, d > 0,
         p.y # q.y, root * root = Discriminant(p, q, d)
  PROVE  LET g == GateFrom(p, q, root)
             w == g.x1 - g.x2
             h == g.y1 - g.y2
             dx == q.x - p.x
             dy == q.y - p.y
         IN  /\ g.x1 + g.x2 \in 2 * q.x - 2 .. 2 * q.x
             /\ g.y1 + g.y2 \in 2 * q.y - 2 .. 2 * q.y
             /\ Abs(w * dx + h * dy) <= Abs(dx) + Abs(dy)
             /\ w * w + h * h >= (2 * d - 2) * (2 * d - 2)
             /\ w * w + h * h <= (2 * d + 2) * (2 * d + 2)
<1> DEFINE M == p.x - q.x
           D == q.y - p.y
           A == D * D + M * M
           K == D * (2 * A)
           g == GateFrom(p, q, root)
           w == g.x1 - g.x2
           h == g.y1 - g.y2
<1>1. /\ p.x \in Int /\ p.y \in Int /\ q.x \in Int /\ q.y \in Int
      /\ M \in Int /\ D \in Int /\ D # 0
  BY DEF Place
<1>2. /\ A \in Nat /\ A > 0 /\ K \in Int /\ K # 0
      /\ g = [x1 |-> Floor(root + q.x * (2 * A), 2 * A), y1 |-> Floor(M * root + q.y * K, K),
              x2 |-> Floor(q.x * (2 * A) - root, 2 * A), y2 |-> Floor(q.y * K - M * root, K)]
      /\ g \in Gate
  BY EndPoints
<1>3. root * root = 4 * A * D * D * d * d
  <2>1. CoeffA(p, q) = A
    BY Coefficients
  <2> QED
    BY <2>1, Coefficients
<1> HIDE DEF M, D, g, A
<1>4. /\ g.x1 + g.x2 \in 2 * q.x - 1 .. 2 * q.x
      /\ Abs(w * (2 * A) - 2 * root) < Abs(2 * A)
  <2> DEFINE n == 2 * A
  <2>1. n \in Int /\ n # 0 /\ root \in Int
    BY <1>2
  <2>2. g.x1 = Floor(root + q.x * n, n) /\ g.x2 = Floor(q.x * n - root, n)
    BY <1>2
  <2> HIDE DEF n
  <2> QED
    BY <1>1, <2>1, <2>2, RoundedPair DEF n
<1>5. /\ g.y1 + g.y2 \in 2 * q.y - 1 .. 2 * q.y
      /\ Abs(h * K - 2 * (M * root)) < Abs(K)
  <2> DEFINE n == M * root
  <2>1. n \in Int
    BY <1>1
  <2>2. g.y1 = Floor(n + q.y * K, K) /\ g.y2 = Floor(q.y * K - n, K)
    BY <1>2
  <2> HIDE DEF n, K
  <2> QED
    BY <1>1, <1>2, <2>1, <2>2, RoundedPair DEF n
<1>6. w \in Int /\ h \in Int
  BY <1>2 DEF Gate
<1> HIDE DEF w, h
<1>7. Abs(w * A - root) < A
  <2> DEFINE n == w * A
  <2>1. n \in Int /\ w * (2 * A) = 2 * n
    BY <1>2, <1>6
  <2> HIDE DEF n
  <2>2. Abs(2 * n - 2 * root) < Abs(2 * A)
    BY <1>4, <2>1
  <2>3. Abs(n - root) < A
    BY <1>2, <2>1, <2>2 DEF Abs
  <2> QED
    BY <2>3 DEF n
<1>8. Abs(h * D * A - M * root) < Abs(D) * A
  <2> DEFINE n == h * D * A
             k == M * root
             c == D * A
  <2>1. n \in Int /\ k \in Int /\ c \in Int /\ h * K = 2 * n /\ K = 2 * c
    BY <1>1, <1>2, <1>6
  <2>2. Abs(c) = Abs(D) * A
    <3>1. CASE D > 0
      <4>1. D * A > 0
        BY <1>1, <1>2, <3>1
      <4> QED
        BY <1>1, <1>2, <3>1, <4>1 DEF Abs
    <3>2. CASE D < 0
      <4>1. D * A < 0
        BY <1>1, <1>2, <3>2
      <4>2. (-D) * A = -(D * A)
        BY <1>1, <1>2
      <4> QED
        BY <1>1, <1>2, <3>2, <4>1, <4>2 DEF Abs
    <3> QED
      BY <1>1, <3>1, <3>2
  <2> HIDE DEF n, k, c, K
  <2>3. Abs(2 * n - 2 * k) < Abs(2 * c)
    BY <1>5, <2>1 DEF k
  <2>4. Abs(n - k) < Abs(c)
    BY <2>1, <2>3 DEF Abs
  <2> QED
    BY <2>2, <2>4 DEF n, k
<1>9. /\ w * w + h * h >= (2 * d - 2) * (2 * d - 2)
      /\ w * w + h * h <= (2 * d + 2) * (2 * d + 2)
  <2>1. A = D * D + M * M
    BY DEF A
  <2>2. M \in Int /\ D \in Int /\ D # 0 /\ A \in Int /\ w \in Int /\ h \in Int
    BY <1>1, <1>2, <1>6
  <2> QED
    BY <1>3, <1>7, <1>8, <2>1, <2>2, LengthOfGate, Zenon
<1>10. Abs(w * (-M) + h * D) <= Abs(M) + Abs(D)
  <2> DEFINE e == w * A - root
             f == h * D * A - M * root
             t == w * (-M) + h * D
             x == Abs(D)
             y == Abs(M)
  <2>1. e \in Int /\ f \in Int /\ t \in Int
    BY <1>1, <1>2, <1>6
  <2>2. /\ x \in Nat /\ y \in Nat /\ M \in {y, -y}
        /\ -A < e /\ e < A /\ -(x * A) < f /\ f < x * A
    <3> HIDE DEF x, y, e, f
    <3>1. x \in Nat /\ y \in Nat /\ M \in {y, -y}
      BY <1>1 DEF Abs, x, y
    <3>2. e < A /\ -A < e
      BY <1>2, <1>7, <2>1 DEF Abs, e
    <3> DEFINE xA == x * A
    <3>3. xA \in Int /\ Abs(f) < xA
      BY <1>2, <1>8, <3>1 DEF f, x
    <3> HIDE DEF xA
    <3>4. f < xA /\ -xA < f
      BY <2>1, <3>3 DEF Abs
    <3> QED
      BY <3>1, <3>2, <3>4 DEF xA
  <2>3. t * A = f - M * e
    BY <1>1, <1>2, <1>6
  <2> HIDE DEF e, f, t, x, y
  <2>4. M * e <= y * A /\ -(M * e) <= y * A
    BY <1>1, <1>2, <2>1, <2>2
  <2>5. (x + y) * A = x * A + y * A /\ (-(x + y)) * A = -(x * A) - y * A
    BY <1>2, <2>2
  <2>6. t * A <= (x + y) * A /\ t * A >= (-(x + y)) * A
    BY <1>1, <1>2, <2>1, <2>2, <2>3, <2>4, <2>5
  <2>7. t <= x + y /\ t >= -(x + y)
    BY <1>2, <2>1, <2>2, <2>6
  <2>8. Abs(t) <= y + x
    BY <2>1, <2>2, <2>7 DEF Abs
  <2> QED
    BY <2>8 DEF t, x, y
<1>11. q.x - p.x = -M /\ Abs(-M) = Abs(M)
  BY <1>1 DEF M, Abs
<1>12. /\ g.x1 + g.x2 \in 2 * q.x - 2 .. 2 * q.x
       /\ g.y1 + g.y2 \in 2 * q.y - 2 .. 2 * q.y
  <2>1. g.x1 + g.x2 \in Int /\ g.y1 + g.y2 \in Int
    BY <1>2 DEF Gate
  <2> QED
    BY <1>1, <1>4, <1>5, <2>1
<1> QED
  BY <1>9, <1>10, <1>11, <1>12 DEF w, h, g, D

-----------------------------------------------------------------------------
(* The rider.                                                              *)

\* The gate, once there is one, is the one the constructor made of the leg it was laid
\* across, and that leg had a slope.
GateIsLaid ==
  \/ laid = << >>
  \/ /\ laid \in Points \X Points
     /\ laid[1].y # laid[2].y
     /\ \E root \in 0 .. 2 * HalfWidth * CoeffA(laid[1], laid[2]) :
          /\ root * root = Discriminant(laid[1], laid[2], HalfWidth)
          /\ gate = GateFrom(laid[1], laid[2], root)

CourseInv == leg \in Points \X Points /\ GateIsLaid

LEMMA PointsArePlaces == Points \subseteq Place
BY CourseAssumption DEF Points, Place

LEMMA InitCourseInv == Init => CourseInv
BY DEF Init, CourseInv, GateIsLaid

LEMMA NextCourseInv == CourseInv /\ [Next]_vars => CourseInv'
<1> SUFFICES ASSUME CourseInv, [Next]_vars PROVE CourseInv'
  OBVIOUS
<1>1. leg \in Points \X Points /\ GateIsLaid
  BY DEF CourseInv
<1>2. CASE LayGate
  <2> DEFINE Made(root) == Construct(leg[1], leg[2], root)
  <2>1. leg' = leg
    BY <1>2 DEF LayGate
  <2>2. PICK root \in 0 .. 2 * HalfWidth * CoeffA(leg[1], leg[2]) :
          /\ root * root = Discriminant(leg[1], leg[2], HalfWidth)
          /\ IF Made(root) = NaNs THEN UNCHANGED <<laid, gate>>
             ELSE gate' = Made(root) /\ laid' = leg
    BY <1>2 DEF LayGate
  <2>3. CASE Made(root) = NaNs
    BY <1>1, <2>1, <2>2, <2>3 DEF CourseInv, GateIsLaid
  <2>4. CASE Made(root) # NaNs
    <3>1. Slope(leg[1], leg[2]).D # 0 /\ Made(root) = GateFrom(leg[1], leg[2], root)
      BY <2>4 DEF Construct
    <3>2. leg[1].y # leg[2].y
      <4>1. leg[1].y \in Int /\ leg[2].y \in Int
        BY <1>1, PointsArePlaces DEF Place
      <4> QED
        BY <3>1, <4>1 DEF Slope
    <3>3. GateIsLaid'
      BY <1>1, <2>2, <2>4, <3>1, <3>2 DEF GateIsLaid
    <3> QED
      BY <1>1, <2>1, <3>3 DEF CourseInv
  <2> QED
    BY <2>3, <2>4
<1>3. ASSUME NEW p \in Points, Drive(p) PROVE CourseInv'
  <2>1. leg' = <<leg[2], p>> /\ laid' = laid /\ gate' = gate
    BY <1>3 DEF Drive
  <2>2. leg' \in Points \X Points
    BY <1>1, <2>1
  <2>3. GateIsLaid'
    BY <1>1, <2>1 DEF GateIsLaid
  <2> QED
    BY <2>2, <2>3 DEF CourseInv
<1>4. CASE UNCHANGED vars
  BY <1>1, <1>4 DEF vars, CourseInv, GateIsLaid
<1> QED
  BY <1>2, <1>3, <1>4 DEF Next

\* The inductive invariant holds in every reachable state.
THEOREM CourseInvariant == Spec => []CourseInv
<1> QED
  BY InitCourseInv, NextCourseInv, PTL DEF Spec

\* A gate that was laid has end points, and lies across its leg.
LEMMA LaidGate ==
  ASSUME CourseInv, laid # << >>
  PROVE  gate \in Gate /\ GateAcrossLeg
<1> DEFINE p == laid[1]
           q == laid[2]
<1>1. /\ laid \in Points \X Points /\ p.y # q.y
      /\ \E r \in 0 .. 2 * HalfWidth * CoeffA(p, q) :
           /\ r * r = Discriminant(p, q, HalfWidth)
           /\ gate = GateFrom(p, q, r)
  BY DEF CourseInv, GateIsLaid
<1>2. p \in Place /\ q \in Place
  BY <1>1, PointsArePlaces
<1>3. PICK r \in 0 .. 2 * HalfWidth * CoeffA(p, q) :
        r * r = Discriminant(p, q, HalfWidth) /\ gate = GateFrom(p, q, r)
  BY <1>1
<1>4. r \in Nat
  <2>1. CoeffA(p, q) \in Int
    <3>1. p.x \in Int /\ p.y \in Int /\ q.x \in Int /\ q.y \in Int
      BY <1>2 DEF Place
    <3>2. Slope(p, q) = [M |-> p.x - q.x, D |-> q.y - p.y]
      BY DEF Slope
    <3> QED
      BY <3>1, <3>2 DEF CoeffA
  <2>2. 2 * HalfWidth * CoeffA(p, q) \in Int
    BY <2>1, CourseAssumption
  <2> QED
    BY <2>2
<1>5. gate \in Gate
  BY <1>1, <1>2, <1>3, <1>4, EndPoints
<1>6. HalfWidth \in Nat /\ HalfWidth > 0
  BY CourseAssumption
<1> HIDE DEF p, q
<1>7. LET w == gate.x1 - gate.x2
          h == gate.y1 - gate.y2
          dx == q.x - p.x
          dy == q.y - p.y
      IN  /\ gate.x1 + gate.x2 \in 2 * q.x - 2 .. 2 * q.x
          /\ gate.y1 + gate.y2 \in 2 * q.y - 2 .. 2 * q.y
          /\ Abs(w * dx + h * dy) <= Abs(dx) + Abs(dy)
          /\ w * w + h * h >= (2 * HalfWidth - 2) * (2 * HalfWidth - 2)
          /\ w * w + h * h <= (2 * HalfWidth + 2) * (2 * HalfWidth + 2)
  BY <1>1, <1>2, <1>3, <1>4, <1>6, GateLies
<1>8. gate # NaNs
  <2>1. gate \in [x1 : Int, y1 : Int, x2 : Int, y2 : Int]
    BY <1>5 DEF Gate
  <2>2. DOMAIN gate # DOMAIN NaNs
    BY <2>1 DEF NaNs
  <2> QED
    BY <2>2
<1>9. GateAcrossLeg
  BY <1>7, <1>8 DEF GateAcrossLeg, p, q
<1> QED
  BY <1>5, <1>9

\* The button in service mode never leaves a gate that is not a number, and lays the gate
\* across the track, centred on the rider and as wide as asked for, wherever the rider is: for
\* the legs whose discriminant has a whole root, which are the ones that LayGate makes.
THEOREM GatesLieAcross == Spec => []GateAcrossLeg
<1>1. CourseInv => GateAcrossLeg
  <2>1. laid = << >> => GateAcrossLeg
    BY DEF GateAcrossLeg
  <2> QED
    BY <2>1, LaidGate
<1> QED
  BY <1>1, CourseInvariant, PTL

\* Off the degenerate directions, intersection reports a crossing exactly if the leg and
\* the gate have a point in common.
THEOREM CrossingsAreReal == Spec => []CrossingIsReal
<1>1. CourseInv => CrossingIsReal
  <2> SUFFICES ASSUME CourseInv, laid # << >>, ~Degenerate, leg[1].x # 0, leg[2].x # 0,
                      Denom(leg[1], leg[2], gate) # 0
               PROVE  Crosses(leg[1], leg[2], gate) <=> SegmentsMeet
    BY DEF CrossingIsReal
  <2>1. gate \in Gate
    BY LaidGate
  <2>2. leg[1] \in Place /\ leg[2] \in Place
    BY PointsArePlaces DEF CourseInv
  <2>3. leg[1].x # leg[2].x /\ gate.y1 # gate.y2
    BY DEF Degenerate
  <2>4. Crosses(leg[1], leg[2], gate) <=>
          /\ Area(leg[1], leg[2], FirstEnd(gate)) * Area(leg[1], leg[2], SecondEnd(gate)) <= 0
          /\ Area(FirstEnd(gate), SecondEnd(gate), leg[1])
               * Area(FirstEnd(gate), SecondEnd(gate), leg[2]) <= 0
    BY <2>1, <2>2, <2>3, CrossesIsMeeting
  <2>5. FirstEnd(gate) = End1 /\ SecondEnd(gate) = End2
    BY DEF FirstEnd, SecondEnd, End1, End2
  <2> QED
    BY <2>4, <2>5 DEF SegmentsMeet
<1> QED
  BY <1>1, CourseInvariant, PTL

\* The interpolated moment of a crossing is not before the first point of the leg nor
\* after the second, for any leg that extends east or west.
LEMMA DatedWithinLeg ==
  ASSUME NEW p \in Place, NEW q \in Place, NEW g \in Gate, NEW dt \in Nat,
         p.x # q.x, Crosses(p, q, g)
  PROVE  Adjustment(p, q, g, dt) \in -dt .. 0
<1> DEFINE den == Denom(p, q, g)
           px == PX(p, q, g)
           u == px - p.x * den
           v == px - q.x * den
           n == Abs(den)
           x == Abs(q.x - p.x)
           y == Abs(q.x * den - px)
<1>1. p.x \in Int /\ q.x \in Int /\ den \in Int /\ px \in Int
  BY Distances DEF Place
<1>2. den # 0 /\ Between(px, den, p.x, q.x)
  BY DEF Crosses
<1>3. Adjustment(p, q, g, dt) = Floor(-dt * y, n * x)
  BY DEF Adjustment
<1> HIDE DEF den, px
<1>4. u * v <= 0
  BY <1>1, <1>2, BetweenIsProduct
<1>5. u \in Int /\ v \in Int /\ u - v = (q.x - p.x) * den
  <2>1. \A a \in Int, b \in Int : (px - a * den) - (px - b * den) = (b - a) * den
    BY <1>1
  <2> QED
    BY <1>1, <2>1
<1>6. n \in Nat /\ n > 0 /\ x \in Nat /\ x > 0 /\ y \in Nat
  BY <1>1, <1>2 DEF Abs
<1>7. y = Abs(v)
  BY <1>1 DEF Abs
<1>8. n * x = Abs(u - v)
  <2> DEFINE k == q.x - p.x
  <2>1. k \in Int
    BY <1>1
  <2> HIDE DEF k, u, v
  <2>2. Abs(den) * Abs(k) = Abs(k * den)
    <3>1. den >= 0 /\ k >= 0 => k * den >= 0
      BY <1>1, <2>1
    <3>2. den >= 0 /\ k <= 0 => k * den <= 0
      BY <1>1, <2>1
    <3>3. den <= 0 /\ k >= 0 => k * den <= 0
      BY <1>1, <2>1
    <3>4. den <= 0 /\ k <= 0 => k * den >= 0
      BY <1>1, <2>1
    <3>5. /\ (-den) * k = -(k * den) /\ den * (-k) = -(k * den)
          /\ (-den) * (-k) = k * den /\ den * k = k * den
      BY <1>1, <2>1
    <3> QED
      BY <1>1, <2>1, <3>1, <3>2, <3>3, <3>4, <3>5 DEF Abs
  <2> QED
    BY <1>5, <2>2 DEF k
<1>9. Abs(v) <= Abs(u - v)
  <2> HIDE DEF u, v
  <2>1. (u >= 0 /\ v <= 0) \/ (u <= 0 /\ v >= 0)
    BY <1>4, <1>5
  <2> QED
    BY <1>5, <2>1 DEF Abs
<1> DEFINE m == n * x
           k == -dt * y
           f == Floor(k, m)
<1>10. m \in Nat /\ m > 0 /\ y <= m
  BY <1>6, <1>7, <1>8, <1>9
<1> HIDE DEF u, v, n, x, y, m
<1>11. k \in Int /\ k <= 0 /\ k >= (-dt) * m
  BY <1>6, <1>10
<1> HIDE DEF k, f
<1>12. f \in Int /\ f * m <= k /\ k < f * m + m
  <2>1. m \in Int /\ m # 0 /\ m > 0
    BY <1>10
  <2>2. /\ Floor(k, m) \in Int
        /\ m > 0 => Floor(k, m) * m <= k /\ k < Floor(k, m) * m + m
    BY <1>11, <2>1, FloorBounds
  <2> QED
    BY <2>1, <2>2 DEF f
<1>13. f <= 0
  BY <1>10, <1>11, <1>12
<1>14. f >= -dt
  <2>1. (-dt) * m < (f + 1) * m
    BY <1>10, <1>11, <1>12
  <2>2. -dt < f + 1
    BY <1>10, <1>12, <2>1
  <2> QED
    BY <1>12, <2>2
<1> QED
  BY <1>3, <1>12, <1>13, <1>14 DEF f, k, m

\* The time that intersection computes for a crossing lies within the leg that crosses.
THEOREM CrossingsAreDated == Spec => []CrossingWithinLeg
<1>1. CourseInv => CrossingWithinLeg
  <2> SUFFICES ASSUME CourseInv, laid # << >>, leg[1].x # leg[2].x,
                      Crosses(leg[1], leg[2], gate)
               PROVE  Adjustment(leg[1], leg[2], gate, LegTime) \in -LegTime .. 0
    BY DEF CrossingWithinLeg
  <2>1. gate \in Gate
    BY LaidGate
  <2>2. leg[1] \in Place /\ leg[2] \in Place
    BY PointsArePlaces DEF CourseInv
  <2>3. LegTime \in Nat
    BY CourseAssumption
  <2> QED
    BY <2>1, <2>2, <2>3, DatedWithinLeg
<1> QED
  BY <1>1, CourseInvariant, PTL
=============================================================================
