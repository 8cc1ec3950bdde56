------------------------- MODULE RawHashtableProofs -------------------------
(***************************************************************************)
(* For every size, every hash and every sequence of operations, a table    *)
(* finds what it was given, probing ends, and storage and entries balance. *)
(***************************************************************************)
EXTENDS RawHashtable, FiniteSetTheorems, WellFoundedInduction, NaturalsInduction, TLAPS

----------------------------------------------------------------------------
(* Division                                                                 *)

\* Quotient and remainder.
LEMMA Division ==
  ASSUME NEW n \in Int, NEW d \in Nat, d > 0
  PROVE  /\ n \div d \in Int /\ n % d \in Int
         /\ n % d >= 0 /\ n % d < d
         /\ n = d * (n \div d) + (n % d)
         /\ n >= 0 => n \div d >= 0
  OBVIOUS

\* There is a nonzero multiple of d below d in no direction.
LEMMA SmallMultiple ==
  ASSUME NEW d \in Nat, NEW x \in Int, d * x < d, d * x > -d
  PROVE  x = 0
<1>1. d > 0
  OBVIOUS
<1>2. ASSUME x >= 1 PROVE FALSE
  BY <1>2, <1>1
<1>3. ASSUME x <= -1 PROVE FALSE
  BY <1>3, <1>1
<1> QED
  BY <1>2, <1>3

\* They are the only ones.
LEMMA DivisionUnique ==
  ASSUME NEW n \in Int, NEW d \in Nat, d > 0, NEW q \in Int, NEW r \in Int,
         r >= 0, r < d, n = d * q + r
  PROVE  n \div d = q /\ n % d = r
<1> DEFINE a == n \div d
           b == n % d
<1>1. a \in Int /\ b \in Int /\ b >= 0 /\ b < d /\ n = d * a + b
  BY Division
<1> HIDE DEF a, b
<1>2. d * (a - q) = r - b
  BY <1>1
<1>3. a - q = 0
  BY <1>1, <1>2, SmallMultiple
<1>4. a = q
  BY <1>1, <1>3
<1>5. b = r
  BY <1>1, <1>4
<1> QED
  BY <1>4, <1>5 DEF a, b

\* Nothing is left over exactly when d divides n.
LEMMA Divisible ==
  ASSUME NEW n \in Int, NEW d \in Nat, d > 0
  PROVE  n % d = 0 <=> \E q \in Int : n = d * q
<1>1. ASSUME n % d = 0 PROVE n \div d \in Int /\ n = d * (n \div d)
  BY <1>1, Division
<1>2. ASSUME NEW q \in Int, n = d * q PROVE n % d = 0
  <2>1. n = d * q + 0
    BY <1>2
  <2> QED
    BY <2>1, DivisionUnique
<1> QED
  BY <1>1, <1>2

\* An even number, and the double of a number.
LEMMA Even ==
  ASSUME NEW n \in Int
  PROVE  /\ n % 2 = 0 <=> \E q \in Int : n = 2 * q
         /\ n % 2 = 0 \/ n % 2 = 1
         /\ n % 2 = 1 <=> \E q \in Int : n = 2 * q + 1
  OBVIOUS

----------------------------------------------------------------------------
(* Powers of two                                                            *)

\* The least number with a property.
LEMMA Least ==
  ASSUME NEW S \in SUBSET Nat, S # {}
  PROVE  \E m \in S : \A n \in S : m <= n
<1>1. PICK m \in S : \A n \in SetLessThan(m, OpToRel(<, Nat), Nat) : n \notin S
  BY WFMin, NatLessThanWellFounded DEF SetLessThan
<1>2. ASSUME NEW n \in S, n < m PROVE FALSE
  BY <1>1, <1>2 DEF SetLessThan, OpToRel
<1>3. ASSUME NEW n \in S PROVE m <= n
  <2>1. n \in Nat /\ m \in Nat /\ ~(n < m)
    BY <1>2
  <2> QED
    BY <2>1
<1> QED
  BY <1>3

\* Min is it.
LEMMA MinLeast ==
  ASSUME NEW S \in SUBSET Nat, S # {}
  PROVE  Min(S) \in S /\ \A n \in S : Min(S) <= n
  BY Least DEF Min

\* One is a power of two, and the others are twice a smaller one.
LEMMA Half ==
  ASSUME NEW n \in Nat, IsPowerOf2(n), n # 1
  PROVE  \E m \in Nat : m < n /\ n = 2 * m /\ IsPowerOf2(m)
<1>1. n > 1 /\ n \in 2..n
  BY DEF IsPowerOf2
<1>2. n % n = 0
  <2>1. n = n * 1
    OBVIOUS
  <2> QED
    BY <1>1, <2>1, Divisible
<1>3. n % 2 = 0
  BY <1>1, <1>2 DEF IsPowerOf2
<1>4. PICK m \in Int : n = 2 * m
  BY <1>3, Even
<1>5. m \in Nat /\ m > 0 /\ m < n
  BY <1>1, <1>4
<1>6. ASSUME NEW d \in 2..m, m % d = 0 PROVE d % 2 = 0
  <2>1. PICK q \in Int : m = d * q
    BY <1>5, <1>6, Divisible
  <2>2. n = d * (2 * q)
    BY <1>4, <2>1
  <2>3. n % d = 0
    BY <2>2, Divisible
  <2> QED
    BY <2>3, <1>4, <1>5 DEF IsPowerOf2
<1> QED
  BY <1>4, <1>5, <1>6 DEF IsPowerOf2

\* Twice a power of two is one.
LEMMA Double ==
  ASSUME NEW m \in Nat, IsPowerOf2(m)
  PROVE  IsPowerOf2(2 * m)
<1>1. m > 0
  BY DEF IsPowerOf2
<1>2. ASSUME NEW d \in 2..(2 * m), (2 * m) % d = 0, d % 2 # 0 PROVE FALSE
  <2>1. PICK q \in Int : 2 * m = d * q
    BY <1>2, Divisible
  <2>2. PICK e \in Int : d = 2 * e + 1
    BY <1>2, Even
  <2>3. 2 * m = 2 * (e * q) + q
    BY <2>1, <2>2
  <2>4. PICK p \in Int : q = 2 * p
    <3>1. m - e * q \in Int /\ q = 2 * (m - e * q)
      BY <2>3
    <3> QED
      BY <3>1
  <2>5. m = d * p
    BY <2>1, <2>4
  <2>6. m % d = 0
    BY <2>5, Divisible
  <2>7. p >= 1
    <3>1. ASSUME p <= 0 PROVE FALSE
      BY <3>1, <2>5, <1>1
    <3> QED
      BY <3>1
  <2>8. d <= m
    BY <2>5, <2>7
  <2> QED
    BY <2>6, <2>8, <1>2 DEF IsPowerOf2
<1> QED
  BY <1>1, <1>2 DEF IsPowerOf2

\* A smaller power of two divides a larger one.
LEMMA PowerDivides ==
  ASSUME NEW d \in Nat, IsPowerOf2(d), NEW n \in Nat, IsPowerOf2(n), d <= n
  PROVE  \E q \in Nat : n = d * q /\ q > 0
<1> DEFINE Bad == {x \in Nat : /\ IsPowerOf2(x)
                               /\ \E y \in Nat : /\ IsPowerOf2(y) /\ y <= x
                                                 /\ ~\E q \in Nat : x = y * q /\ q > 0}
<1>1. SUFFICES ASSUME Bad # {} PROVE FALSE
  BY <1>1
<1>2. PICK x \in Bad : \A z \in Bad : x <= z
  BY <1>1, Least
<1>3. PICK y \in Nat : IsPowerOf2(y) /\ y <= x /\ ~\E q \in Nat : x = y * q /\ q > 0
  BY <1>2
<1>4. x \in Nat /\ IsPowerOf2(x) /\ x > 0
  BY <1>2 DEF IsPowerOf2
<1>5. y # 1
  <2>1. ASSUME y = 1 PROVE x = y * x
    BY <2>1, <1>4
  <2> QED
    BY <2>1, <1>3, <1>4
<1>6. PICK v \in Nat : v < y /\ y = 2 * v /\ IsPowerOf2(v)
  BY <1>3, <1>5, Half
<1>7. x # 1
  BY <1>3, <1>6, <1>4
<1>8. PICK u \in Nat : u < x /\ x = 2 * u /\ IsPowerOf2(u)
  BY <1>4, <1>7, Half
<1>9. v <= u /\ u \notin Bad
  BY <1>2, <1>3, <1>6, <1>8, <1>4
<1>10. PICK q \in Nat : u = v * q /\ q > 0
  BY <1>6, <1>8, <1>9
<1>11. x = y * q
  BY <1>6, <1>8, <1>10
<1> QED
  BY <1>3, <1>10, <1>11

\* A power of two that divides a product with an odd factor divides the other.
LEMMA OddFactor ==
  ASSUME NEW m \in Nat, IsPowerOf2(m), NEW a \in Int, a % 2 = 1, NEW b \in Int,
         (a * b) % m = 0
  PROVE  b % m = 0
<1> DEFINE Bad == {x \in Nat : /\ IsPowerOf2(x)
                               /\ \E c \in Int : (a * c) % x = 0 /\ c % x # 0}
<1>1. SUFFICES ASSUME Bad # {} PROVE FALSE
  BY <1>1
<1>2. PICK x \in Bad : \A z \in Bad : x <= z
  BY <1>1, Least
<1>3. PICK c \in Int : (a * c) % x = 0 /\ c % x # 0
  BY <1>2
<1>4. x \in Nat /\ IsPowerOf2(x) /\ x > 0
  BY <1>2 DEF IsPowerOf2
<1>5. x # 1
  BY <1>3
<1>6. PICK u \in Nat : u < x /\ x = 2 * u /\ IsPowerOf2(u)
  BY <1>4, <1>5, Half
<1>7. a * c \in Int
  OBVIOUS
<1>8. PICK q \in Int : a * c = x * q
  BY <1>3, <1>4, <1>7, Divisible
<1>9. PICK e \in Int : a = 2 * e + 1
  BY Even
<1>10. a * c = 2 * (e * c) + c
  BY <1>9
<1>11. c = 2 * (u * q - e * c) /\ u * q - e * c \in Int
  BY <1>6, <1>8, <1>10
<1>12. PICK f \in Int : c = 2 * f
  BY <1>11
<1>13. a * f = u * q
  BY <1>6, <1>8, <1>12
<1>14. (a * f) % u = 0
  BY <1>6, <1>13, <1>4, Divisible
<1>15. f % u = 0
  <2>1. u \notin Bad
    <3> HIDE DEF Bad
    <3>1. ASSUME u \in Bad PROVE x <= u
      BY <1>2, <3>1
    <3> QED
      BY <3>1, <1>4, <1>6
  <2> QED
    BY <2>1, <1>6, <1>14
<1>16. PICK p \in Int : f = u * p
  <2>1. u > 0
    BY <1>6 DEF IsPowerOf2
  <2> QED
    BY <2>1, <1>15, Divisible
<1>17. c = x * p
  BY <1>16, <1>12, <1>6
<1> QED
  BY <1>17, <1>3, <1>4, Divisible

\* NextPowerOf2 finds one.
LEMMA NextPower ==
  ASSUME NEW n \in Nat
  PROVE  /\ NextPowerOf2(n) \in Nat /\ NextPowerOf2(n) > n
         /\ IsPowerOf2(NextPowerOf2(n))
<1> DEFINE Above(x) == {s \in (x + 1)..(2 * x + 1) : IsPowerOf2(s)}
           Bad == {x \in Nat : Above(x) = {}}
<1>1. Bad = {}
  <2>1. SUFFICES ASSUME Bad # {} PROVE FALSE
    OBVIOUS
  <2>2. PICK x \in Bad : \A z \in Bad : x <= z
    BY <2>1, Least
  <2>3. 0 \notin Bad
    <3>1. IsPowerOf2(1)
      BY DEF IsPowerOf2
    <3> QED
      BY <3>1
  <2>4. x # 0 /\ x \in Nat
    BY <2>2, <2>3
  <2>5. x - 1 \in Nat /\ x - 1 \notin Bad
    BY <2>2, <2>4
  <2>6. PICK s \in x..(2 * x - 1) : IsPowerOf2(s)
    BY <2>5
  <2>7. CASE s > x
    BY <2>2, <2>6, <2>7, <2>4
  <2>8. CASE s = x
    <3>1. IsPowerOf2(2 * x)
      BY <2>6, <2>8, <2>4, Double
    <3> QED
      BY <3>1, <2>2, <2>4
  <2> QED
    BY <2>6, <2>7, <2>8, <2>4
<1>2. Above(n) \in SUBSET Nat /\ Above(n) # {}
  <2>1. n \notin Bad
    BY <1>1
  <2> QED
    BY <2>1
<1>3. NextPowerOf2(n) \in Above(n)
  BY <1>2, MinLeast DEF NextPowerOf2
<1> QED
  BY <1>3
----------------------------------------------------------------------------
(* Groups                                                                   *)

\* A size that a table can have.
Sized(size) == size \in Nat /\ IsPowerOf2(size) /\ GroupSize <= size

GroupCount(size) == size \div GroupSize
IsGroup(g, size) == \E c \in 0..(GroupCount(size) - 1) : g = GroupSize * c

\* A group has slots.
LEMMA GroupSizeType == GroupSize \in Nat /\ GroupSize > 0 /\ IsPowerOf2(GroupSize)
  BY SizesAssumption DEF IsPowerOf2

\* A table is a number of groups that is a power of two.
LEMMA Groups ==
  ASSUME NEW size, Sized(size)
  PROVE  /\ GroupCount(size) \in Nat /\ GroupCount(size) > 0
         /\ size \in Nat /\ size > 0
         /\ size = GroupSize * GroupCount(size)
         /\ IsPowerOf2(GroupCount(size))
<1>1. size \in Nat /\ IsPowerOf2(size) /\ size > 0
  BY DEF Sized, IsPowerOf2
<1>2. PICK q \in Nat : size = GroupSize * q /\ q > 0
  BY <1>1, GroupSizeType, PowerDivides DEF Sized
<1>3. GroupCount(size) = q
  <2>1. size = GroupSize * q + 0
    BY <1>2, GroupSizeType
  <2> QED
    BY <1>1, <1>2, <2>1, GroupSizeType, DivisionUnique DEF GroupCount
<1>4. ASSUME NEW d \in 2..q, q % d = 0 PROVE d % 2 = 0
  <2>1. PICK p \in Int : q = d * p
    BY <1>4, Divisible
  <2>2. size = d * (GroupSize * p) /\ GroupSize * p \in Int
    BY <1>2, <2>1, GroupSizeType
  <2>3. size % d = 0
    <3>1. \E x \in Int : size = d * x
      BY <2>2
    <3>2. d \in Nat /\ d > 0 /\ size \in Int
      BY <1>1, <1>2
    <3> QED
      BY <3>1, <3>2, Divisible
  <2>4. q <= size
    BY <1>2, GroupSizeType
  <2> QED
    BY <2>3, <2>4, <1>1 DEF IsPowerOf2
<1>5. IsPowerOf2(q)
  BY <1>2, <1>4 DEF IsPowerOf2
<1> QED
  BY <1>1, <1>2, <1>3, <1>5

\* The group of an index and what is added in groups to it.
LEMMA MaskedSum ==
  ASSUME NEW size, Sized(size), NEW i \in Nat, NEW c \in Nat
  PROVE  Masked(i + GroupSize * c, size)
           = GroupSize * (((i \div GroupSize) + c) % GroupCount(size))
<1> DEFINE q == i \div GroupSize
           r == i % GroupSize
<1>1. q \in Int /\ r \in Int /\ r >= 0 /\ r < GroupSize /\ i = GroupSize * q + r
  BY GroupSizeType, Division
<1> HIDE DEF q, r
<1>2. i + GroupSize * c = GroupSize * (q + c) + r
  BY <1>1, GroupSizeType
<1>3. (i + GroupSize * c) \div GroupSize = q + c
  <2>1. i + GroupSize * c \in Int /\ q + c \in Int
    BY <1>1, GroupSizeType
  <2> QED
    BY <2>1, <1>1, <1>2, GroupSizeType, DivisionUnique
<1> QED
  BY <1>3 DEF Masked, GroupCount, q

\* A masked index is a group of the table.
LEMMA MaskedGroup ==
  ASSUME NEW size, Sized(size), NEW i \in Nat
  PROVE  IsGroup(Masked(i, size), size)
<1>1. (i \div GroupSize) \in Int
  BY GroupSizeType, Division
<1>2. (i \div GroupSize) % GroupCount(size) \in 0..(GroupCount(size) - 1)
  BY <1>1, Groups, Division
<1> QED
  BY <1>2 DEF Masked, IsGroup, GroupCount

\* The slots of a group are slots of the table, and it is their group.
LEMMA InGroup ==
  ASSUME NEW size, Sized(size), NEW g, IsGroup(g, size), NEW i \in Group(g)
  PROVE  i \in 0..(size - 1) /\ Masked(i, size) = g
<1>1. PICK c \in 0..(GroupCount(size) - 1) : g = GroupSize * c
  BY DEF IsGroup
<1>2. GroupCount(size) \in Nat /\ GroupCount(size) > 0 /\ size = GroupSize * GroupCount(size)
  BY Groups
<1>3. g \in Nat /\ i \in Int /\ i >= g /\ i < g + GroupSize
  BY <1>1, <1>2, GroupSizeType DEF Group
<1>4. i = GroupSize * c + (i - g) /\ i - g \in Int /\ i - g >= 0 /\ i - g < GroupSize
  BY <1>1, <1>3, GroupSizeType
<1>5. i \div GroupSize = c
  BY <1>4, <1>3, <1>1, <1>2, GroupSizeType, DivisionUnique
<1>6. c % GroupCount(size) = c
  <2>1. c = GroupCount(size) * 0 + c
    BY <1>1, <1>2
  <2> QED
    BY <2>1, <1>1, <1>2, DivisionUnique
<1>7. i < size
  <2>1. c + 1 <= GroupCount(size)
    BY <1>1, <1>2
  <2>2. GroupSize * (c + 1) <= size
    BY <2>1, <1>1, <1>2, GroupSizeType
  <2> QED
    BY <2>2, <1>1, <1>2, <1>3, GroupSizeType
<1>8. Masked(i, size) = GroupSize * c
  BY <1>5, <1>6 DEF Masked, GroupCount
<1>9. i \in Nat /\ size \in Nat
  BY <1>2, <1>3, GroupSizeType
<1> QED
  BY <1>1, <1>7, <1>8, <1>9

\* Every slot is in the group of its index.
LEMMA OwnGroup ==
  ASSUME NEW size, Sized(size), NEW i \in 0..(size - 1)
  PROVE  i \in Group(Masked(i, size)) /\ IsGroup(Masked(i, size), size)
<1> DEFINE q == i \div GroupSize
           r == i % GroupSize
<1>1. /\ q \in Int /\ r \in Int /\ r >= 0 /\ r < GroupSize /\ i = GroupSize * q + r
      /\ q >= 0
  BY Groups, GroupSizeType, Division
<1>2. GroupCount(size) \in Nat /\ GroupCount(size) > 0 /\ size = GroupSize * GroupCount(size)
  BY Groups
<1>3. q % GroupCount(size) = q
  <2> HIDE DEF q, r
  <2>1. q < GroupCount(size)
    <3>1. ASSUME q >= GroupCount(size) PROVE FALSE
      <4>1. GroupSize * q >= size
        BY <3>1, <1>1, <1>2, GroupSizeType
      <4> QED
        BY <4>1, <1>1, <1>2, GroupSizeType
    <3> QED
      BY <3>1, <1>1, <1>2
  <2>2. q = GroupCount(size) * 0 + q
    BY <1>1, <1>2
  <2> QED
    BY <2>1, <2>2, <1>1, <1>2, DivisionUnique
<1>4. Masked(i, size) = GroupSize * q
  BY <1>3 DEF Masked, GroupCount
<1>5. i \in Group(GroupSize * q)
  <2> HIDE DEF q, r
  <2> QED
    BY <1>1, GroupSizeType DEF Group
<1>6. i \in Nat
  BY <1>2, GroupSizeType
<1> QED
  BY <1>4, <1>5, <1>6, MaskedGroup
----------------------------------------------------------------------------
(* Probing                                                                  *)

Triangle(n) == (n * (n + 1)) \div 2

\* One of two successive numbers is even.
LEMMA Triangles ==
  ASSUME NEW n \in Nat
  PROVE  Triangle(n) \in Nat /\ 2 * Triangle(n) = n * (n + 1)
<1>1. \E q \in Int : n * (n + 1) = 2 * q
  <2>1. CASE n % 2 = 0
    <3>1. PICK a \in Int : n = 2 * a
      BY <2>1, Even
    <3>2. n * (n + 1) = 2 * (a * (n + 1)) /\ a * (n + 1) \in Int
      BY <3>1
    <3> QED
      BY <3>2
  <2>2. CASE n % 2 = 1
    <3>1. PICK a \in Int : n = 2 * a + 1
      BY <2>2, Even
    <3>2. n * (n + 1) = 2 * (n * (a + 1)) /\ n * (a + 1) \in Int
      BY <3>1
    <3> QED
      BY <3>2
  <2> QED
    BY <2>1, <2>2, Even
<1>2. n * (n + 1) \in Nat
  OBVIOUS
<1>3. PICK q \in Int : n * (n + 1) = 2 * q
  BY <1>1
<1>4. Triangle(n) = q
  BY <1>3 DEF Triangle
<1> QED
  BY <1>2, <1>3, <1>4

\* Equal remainders.
LEMMA SameRemainder ==
  ASSUME NEW x \in Int, NEW y \in Int, NEW d \in Nat, d > 0, x % d = y % d
  PROVE  \E q \in Int : x - y = d * q
<1> DEFINE a == x \div d
           b == y \div d
           r == x % d
<1>1. a \in Int /\ b \in Int /\ r \in Int /\ x = d * a + r /\ y = d * b + r
  BY Division
<1> HIDE DEF a, b, r
<1>2. x - y = d * (a - b) /\ a - b \in Int
  BY <1>1
<1> QED
  BY <1>2

\* One to one among as many is onto.
LEMMA Onto ==
  ASSUME NEW n \in Nat, NEW f \in [0..(n - 1) -> 0..(n - 1)],
         \A a, b \in 0..(n - 1) : f[a] = f[b] => a = b
  PROVE  \A c \in 0..(n - 1) : \E a \in 0..(n - 1) : f[a] = c
<1>1. IsFiniteSet(0..(n - 1))
  BY FS_Interval
<1>2. f \in Injection(0..(n - 1), 0..(n - 1))
  BY DEF Injection, IsInjective
<1>3. f \in Surjection(0..(n - 1), 0..(n - 1))
  BY <1>1, <1>2, FS_Injection
<1> QED
  BY <1>3 DEF Surjection

\* The triangle numbers below a power of two are different to it.
LEMMA TrianglesDiffer ==
  ASSUME NEW m \in Nat, IsPowerOf2(m), NEW h \in Nat,
         NEW a \in 0..(m - 1), NEW b \in 0..(m - 1), a < b,
         (h + Triangle(a)) % m = (h + Triangle(b)) % m
  PROVE  FALSE
<1> DEFINE u == Triangle(a)
           v == Triangle(b)
<1>1. a \in Nat /\ b \in Nat /\ m > 0
  BY DEF IsPowerOf2
<1>2. u \in Nat /\ v \in Nat /\ 2 * u = a * (a + 1) /\ 2 * v = b * (b + 1)
  BY <1>1, Triangles
<1>3. PICK q \in Int : (h + v) - (h + u) = m * q
  <2>1. h + v \in Int /\ h + u \in Int /\ (h + v) % m = (h + u) % m
    BY <1>2
  <2> QED
    BY <2>1, <1>1, SameRemainder
<1> HIDE DEF u, v
<1>4. 2 * v - 2 * u = (2 * m) * q
  BY <1>1, <1>2, <1>3
<1>5. 2 * v - 2 * u = (b - a) * (a + b + 1)
  BY <1>1, <1>2
<1>6. (b - a) * (a + b + 1) = (2 * m) * q
  BY <1>4, <1>5
<1>7. 2 * m \in Nat /\ 2 * m > 0 /\ IsPowerOf2(2 * m)
  BY <1>1, Double
<1>8. b - a \in Int /\ a + b + 1 \in Int /\ (b - a) * (a + b + 1) \in Int
  BY <1>1
<1>9. ((b - a) * (a + b + 1)) % (2 * m) = 0
  BY <1>6, <1>7, <1>8, Divisible
<1>10. CASE (b - a) % 2 = 1
  <2>1. (a + b + 1) % (2 * m) = 0
    BY <1>7, <1>8, <1>9, <1>10, OddFactor
  <2>2. PICK p \in Int : a + b + 1 = (2 * m) * p
    BY <2>1, <1>7, <1>8, Divisible
  <2>3. p = 0
    BY <2>2, <1>1, <1>7, SmallMultiple
  <2> QED
    BY <2>2, <2>3, <1>1
<1>11. CASE (b - a) % 2 = 0
  <2>1. (a + b + 1) % 2 = 1
    BY <1>11, <1>1
  <2>2. ((a + b + 1) * (b - a)) % (2 * m) = 0
    BY <1>9, <1>8
  <2>3. (b - a) % (2 * m) = 0
    BY <1>7, <1>8, <2>1, <2>2, OddFactor
  <2>4. PICK p \in Int : b - a = (2 * m) * p
    BY <2>3, <1>7, <1>8, Divisible
  <2>5. p = 0
    BY <2>4, <1>1, <1>7, SmallMultiple
  <2> QED
    BY <2>4, <2>5, <1>1
<1> QED
  BY <1>8, <1>10, <1>11, Even

\* What Next computes from one index is what its DCHECK says of the next.
THEOREM ProbeIsQuadratic ==
  ASSUME NEW size, Sized(size), NEW start \in Nat, NEW n \in Nat
  PROVE  /\ Probe(start, size, 0) = Masked(start, size)
         /\ NextProbe(Probe(start, size, n), n + 1, size) = Probe(start, size, n + 1)
<1> DEFINE m == GroupCount(size)
           h == start \div GroupSize
           x == (h + Triangle(n)) % m
<1>1. m \in Nat /\ m > 0 /\ h \in Int /\ h >= 0
  BY Groups, GroupSizeType, Division
<1>2. /\ Triangle(n) \in Nat /\ 2 * Triangle(n) = n * (n + 1)
      /\ Triangle(n + 1) \in Nat /\ 2 * Triangle(n + 1) = (n + 1) * ((n + 1) + 1)
  BY Triangles
<1>3. Triangle(n + 1) = Triangle(n) + (n + 1)
  BY <1>2
<1>4. Probe(start, size, n) = GroupSize * x
  BY <1>2, MaskedSum DEF Probe, Triangle
<1>5. Probe(start, size, n + 1) = GroupSize * ((h + Triangle(n + 1)) % m)
  BY <1>2, MaskedSum DEF Probe, Triangle
<1>6. Probe(start, size, 0) = Masked(start, size)
  <2>1. (0 * (0 + 1)) \div 2 = 0 /\ start + GroupSize * 0 = start
    BY GroupSizeType
  <2> QED
    BY <2>1 DEF Probe
<1> HIDE DEF m, h
<1>7. x \in Nat /\ x < m /\ \E q \in Int : h + Triangle(n) = m * q + x
  <2>1. h + Triangle(n) \in Int
    BY <1>1, <1>2
  <2>2. /\ x \in Int /\ x >= 0 /\ x < m /\ (h + Triangle(n)) \div m \in Int
        /\ h + Triangle(n) = m * ((h + Triangle(n)) \div m) + x
    BY <2>1, <1>1, Division
  <2> QED
    BY <2>2
<1>8. PICK q \in Int : h + Triangle(n) = m * q + x
  BY <1>7
<1> HIDE DEF x
<1>9. NextProbe(GroupSize * x, n + 1, size) = GroupSize * ((x + (n + 1)) % m)
  <2>1. GroupSize * x \in Nat /\ (n + 1) \in Nat
        /\ GroupSize * x + (n + 1) * GroupSize = GroupSize * x + GroupSize * (n + 1)
    BY <1>7, GroupSizeType
  <2>2. GroupSize * x = GroupSize * x + 0
    BY <2>1
  <2>3. (GroupSize * x) \div GroupSize = x
    BY <2>1, <2>2, <1>7, GroupSizeType, DivisionUnique
  <2> QED
    BY <2>1, <2>3, MaskedSum DEF NextProbe, m
<1>10. (x + (n + 1)) % m = (h + Triangle(n + 1)) % m
  <2> DEFINE r == (x + (n + 1)) % m
             p == (x + (n + 1)) \div m
  <2>1. r \in Int /\ p \in Int /\ r >= 0 /\ r < m /\ x + (n + 1) = m * p + r
    BY <1>1, <1>7, Division
  <2> HIDE DEF r, p
  <2>2. m * (q + p) = m * q + m * p /\ m * q \in Int /\ m * p \in Int /\ q + p \in Int
    BY <2>1, <1>1, <1>8
  <2>3. h + Triangle(n + 1) = m * (q + p) + r
    <3>1. Triangle(n) \in Int /\ Triangle(n + 1) = Triangle(n) + (n + 1)
      BY <1>2, <1>3
    <3>2. PICK z \in Int : z = m * q
      BY <2>2
    <3>3. h + Triangle(n) = z + x
      BY <3>2, <1>8
    <3>4. h + Triangle(n + 1) = z + (x + (n + 1))
      BY <3>1, <3>3, <1>1, <1>7
    <3> QED
      BY <3>2, <3>4, <2>1, <2>2
  <2>4. h + Triangle(n + 1) \in Int
    BY <1>1, <1>2
  <2>5. (h + Triangle(n + 1)) % m = r
    BY <2>1, <2>2, <2>3, <2>4, <1>1, DivisionUnique
  <2> QED
    BY <2>5 DEF r
<1> QED
  BY <1>4, <1>5, <1>6, <1>9, <1>10

\* A search comes to every slot of the table.
LEMMA ProbesCover ==
  ASSUME NEW size, Sized(size), NEW start \in Nat
  PROVE  /\ \A n \in Nat : IsGroup(Probe(start, size, n), size)
         /\ \A i \in 0..(size - 1) : \E n \in 0..(GroupCount(size) - 1) :
              i \in Group(Probe(start, size, n))
<1> DEFINE m == GroupCount(size)
           h == start \div GroupSize
           f == [n \in 0..(m - 1) |-> (h + Triangle(n)) % m]
<1>1. m \in Nat /\ m > 0 /\ IsPowerOf2(m) /\ h \in Nat
  BY Groups, GroupSizeType, Division
<1>2. ASSUME NEW n \in Nat
      PROVE  /\ Probe(start, size, n) = GroupSize * ((h + Triangle(n)) % m)
             /\ (h + Triangle(n)) % m \in 0..(m - 1)
  <2>1. Triangle(n) \in Nat
    BY Triangles
  <2>2. (h + Triangle(n)) % m \in 0..(m - 1)
    BY <1>1, <2>1, Division
  <2> QED
    BY <2>1, <2>2, MaskedSum DEF Probe, Triangle
<1> HIDE DEF m, h
<1>3. f \in [0..(m - 1) -> 0..(m - 1)]
  BY <1>1, <1>2
<1>4. ASSUME NEW a \in 0..(m - 1), NEW b \in 0..(m - 1), f[a] = f[b] PROVE a = b
  <2>1. (h + Triangle(a)) % m = (h + Triangle(b)) % m
    BY <1>4
  <2>2. ~(a < b) /\ ~(b < a)
    BY <1>1, <2>1, TrianglesDiffer
  <2> QED
    BY <2>2, <1>1
<1>5. \A c \in 0..(m - 1) : \E a \in 0..(m - 1) : f[a] = c
  <2> HIDE DEF f
  <2> QED
    BY <1>1, <1>3, <1>4, Onto
<1>6. ASSUME NEW i \in 0..(size - 1)
      PROVE  \E n \in 0..(m - 1) : i \in Group(Probe(start, size, n))
  <2>1. i \in Group(Masked(i, size)) /\ IsGroup(Masked(i, size), size)
    BY <1>6, OwnGroup
  <2>2. PICK c \in 0..(m - 1) : Masked(i, size) = GroupSize * c
    BY <2>1 DEF IsGroup, m
  <2>3. PICK n \in 0..(m - 1) : (h + Triangle(n)) % m = c
    BY <1>5
  <2>4. n \in Nat
    BY <1>1
  <2> QED
    BY <2>1, <2>2, <2>3, <2>4, <1>2
<1>7. ASSUME NEW n \in Nat PROVE IsGroup(Probe(start, size, n), size)
  BY <1>2, <1>7 DEF IsGroup, m
<1> QED
  BY <1>6, <1>7 DEF m
----------------------------------------------------------------------------
(* The inductive invariant                                                  *)

PresentIn(s, T) == {i \in DOMAIN T.slots : T.slots[i] \in DOMAIN s.hash}
KeysAt(T, indices) == {T.slots[i] : i \in indices}
KeysIn(s, T) == KeysAt(T, PresentIn(s, T))
NonEmpty(T) == {i \in DOMAIN T.slots : T.slots[i] # Empty}

\* The size is one the table can have, and its storage that of its size.
LeastSize(s) == IF s.small > 0 THEN s.small ELSE MinAllocatedSize
IsTable(s, T) ==
  /\ T = [alloc |-> T.alloc, budget |-> T.budget, storage |-> T.storage, slots |-> T.slots]
  /\ T.alloc \in Nat /\ IsPowerOf2(T.alloc) /\ LeastSize(s) <= T.alloc
  /\ T.budget \in Int
  /\ T.slots \in [0..(T.alloc - 1) -> {Empty, Deleted} \cup DOMAIN s.hash]
  /\ T.storage = IF T.alloc = s.small THEN "small" ELSE "heap"

\* A search for the key in slot i comes to it before it comes to an empty slot.
ReachedBy(s, T, i, n) ==
  /\ i \in Group(Probe(s.hash[T.slots[i]], T.alloc, n))
  /\ \A m \in 0..(n - 1) : Match(T, Probe(s.hash[T.slots[i]], T.alloc, m), Empty) = {}
Reached(s, T) == \A i \in PresentIn(s, T) : \E n \in Probes(T) : ReachedBy(s, T, i, n)

Distinct(s, T) == \A i, j \in PresentIn(s, T) : T.slots[i] = T.slots[j] => i = j

Sound(s, T) == IsTable(s, T) /\ Reached(s, T) /\ Distinct(s, T)

Budgeted(T) ==
  /\ T.budget = GrowthThresholdForAllocSize(T.alloc) - Cardinality(NonEmpty(T))
  /\ T.budget >= 0

\* A table between operations, with the keys c and room for r more.
Settled(s, T, c, r) ==
  \/ T \in {NoTable, MovedFrom} /\ c = {}
  \/ Sound(s, T) /\ Budgeted(T) /\ KeysIn(s, T) = c /\ r <= T.budget

\* A table that grows, from the storage O: of its entries those in the slots
\* rest, and then the keys ks, are yet to come.
Moving(s, T, O, rest, ks, c, r) ==
  /\ Sound(s, T) /\ Sound(s, O) /\ Budgeted(O)
  /\ O.alloc < T.alloc
  /\ T.budget = GrowthThresholdForAllocSize(T.alloc)
  /\ \A i \in DOMAIN T.slots : T.slots[i] # Deleted
  /\ rest \subseteq PresentIn(s, O)
  /\ KeysIn(s, T) \cup KeysAt(O, rest) = KeysIn(s, O)
  /\ KeysIn(s, T) \cap KeysAt(O, rest) = {}
  /\ Cardinality(PresentIn(s, T)) + Cardinality(rest) = Cardinality(PresentIn(s, O))
  /\ ks \subseteq DOMAIN s.hash /\ ks \cap KeysIn(s, O) = {}
  /\ ks = {} \/ \E k \in ks : ks = {k}
  /\ c = KeysIn(s, O) \cup ks
  /\ r + Cardinality(PresentIn(s, O)) + Cardinality(ks)
       <= GrowthThresholdForAllocSize(T.alloc)

\* Storages on the heap, and constructed entries.
OnHeap(T) == IF T.storage = "heap" THEN 1 ELSE 0
HeapTables(s, tab) == {t \in s.tables : tab[t].storage = "heap"}
Entries(s, tab) == UNION {{t} \X PresentIn(s, tab[t]) : t \in s.tables}

Balanced(s, tab, O, rest, h, l) ==
  /\ h = Cardinality(HeapTables(s, tab)) + OnHeap(O)
  /\ l = Cardinality(Entries(s, tab)) + Cardinality(rest)

IsMap(f, S) == DOMAIN f = S /\ f = [x \in S |-> f[x]]

\* The inductive invariant. At most one table grows; all others are settled.
IInv ==
  /\ setup \in Setups
  /\ IsMap(table, Tables)
  /\ contents \in [Tables -> SUBSET Keys]
  /\ reserved \in [Tables -> 0..MaxReserve]
  /\ growing = {} \/ \E t \in Tables : growing = {t}
  /\ growing = {} => old = NoTable /\ left = {} /\ inserting = {}
  /\ \A t \in Tables \ growing : Settled(setup, table[t], contents[t], reserved[t])
  /\ \A t \in growing :
       Moving(setup, table[t], old, left, inserting, contents[t], reserved[t])
  /\ Balanced(setup, table, old, left, heap, live)
----------------------------------------------------------------------------
(* Tables                                                                   *)

\* The keys and the markers of a setup.
LEMMA SetupFacts ==
  ASSUME NEW s \in Setups
  PROVE  /\ IsFiniteSet(s.tables)
         /\ Sized(LeastSize(s)) /\ LoadDenominator <= LeastSize(s)
         /\ LeastSize(s) > 0 /\ s.small \in Nat
         /\ s.hash \in [DOMAIN s.hash -> Nat]
         /\ Empty \notin DOMAIN s.hash /\ Deleted \notin DOMAIN s.hash /\ Empty # Deleted
<1>1. /\ IsFiniteSet(s.tables) /\ s.small \in Nat
      /\ s.hash \in [DOMAIN s.hash -> Nat]
      /\ s.small > 0 => IsPowerOf2(s.small) /\ GroupSize <= s.small
                        /\ LoadDenominator <= s.small
      /\ {Empty, Deleted} \cap DOMAIN s.hash = {}
  BY SetupsAssumption
<1>2. Sized(LeastSize(s)) /\ LoadDenominator <= LeastSize(s) /\ LeastSize(s) > 0
  BY <1>1, SizesAssumption DEF LeastSize, Sized, IsPowerOf2
<1> QED
  BY <1>1, <1>2, SizesAssumption

\* n slots, from 0.
LEMMA Slots ==
  ASSUME NEW n \in Nat
  PROVE  IsFiniteSet(0..(n - 1)) /\ Cardinality(0..(n - 1)) = n
<1>1. 0 \in Int /\ n - 1 \in Int
  OBVIOUS
<1>2. /\ IsFiniteSet(0..(n - 1))
      /\ Cardinality(0..(n - 1)) = IF 0 > n - 1 THEN 0 ELSE (n - 1) - 0 + 1
  BY <1>1, FS_Interval
<1> QED
  BY <1>2

\* What the proofs use of the shape of a table.
LEMMA TableFacts ==
  ASSUME NEW s \in Setups, NEW T, IsTable(s, T)
  PROVE  /\ Sized(T.alloc) /\ T.alloc \in Nat /\ T.alloc > 0
         /\ LoadDenominator <= T.alloc
         /\ T.alloc >= s.small
         /\ DOMAIN T.slots = 0..(T.alloc - 1)
         /\ IsFiniteSet(DOMAIN T.slots) /\ Cardinality(DOMAIN T.slots) = T.alloc
         /\ IsFiniteSet(PresentIn(s, T)) /\ IsFiniteSet(NonEmpty(T))
         /\ Cardinality(PresentIn(s, T)) \in Nat /\ Cardinality(NonEmpty(T)) \in Nat
         /\ Cardinality(PresentIn(s, T)) <= Cardinality(NonEmpty(T))
         /\ PresentIn(s, T) \subseteq NonEmpty(T)
<1>1. T.alloc \in Nat /\ IsPowerOf2(T.alloc) /\ LeastSize(s) <= T.alloc
  BY DEF IsTable
<1>2. Sized(LeastSize(s)) /\ LoadDenominator <= LeastSize(s) /\ s.small \in Nat
  BY SetupFacts
<1>3. Sized(T.alloc) /\ T.alloc > 0 /\ LoadDenominator <= T.alloc
  BY <1>1, <1>2, SizesAssumption, GroupSizeType DEF Sized
<1>4. T.alloc >= s.small
  BY <1>1, <1>2, <1>3 DEF LeastSize
<1>5. DOMAIN T.slots = 0..(T.alloc - 1)
  BY DEF IsTable
<1>6. IsFiniteSet(0..(T.alloc - 1)) /\ Cardinality(0..(T.alloc - 1)) = T.alloc
  BY <1>1, Slots
<1>7. PresentIn(s, T) \subseteq NonEmpty(T) /\ NonEmpty(T) \subseteq DOMAIN T.slots
  BY SetupFacts DEF PresentIn, NonEmpty
<1>8. IsFiniteSet(NonEmpty(T))
  BY <1>5, <1>6, <1>7, FS_Subset
<1>9. IsFiniteSet(PresentIn(s, T)) /\ Cardinality(PresentIn(s, T)) <= Cardinality(NonEmpty(T))
  BY <1>7, <1>8, FS_Subset
<1>10. Cardinality(PresentIn(s, T)) \in Nat /\ Cardinality(NonEmpty(T)) \in Nat
  BY <1>8, <1>9, FS_CardinalityType
<1> QED
  BY <1>1, <1>3, <1>4, <1>5, <1>6, <1>7, <1>8, <1>9, <1>10

\* A load factor of 1 - 1 / LoadDenominator.
LEMMA Threshold ==
  ASSUME NEW size \in Nat, IsPowerOf2(size), LoadDenominator <= size
  PROVE  \E q \in Nat : /\ q > 0 /\ size = LoadDenominator * q
                        /\ GrowthThresholdForAllocSize(size) = LoadDenominator * q - q
<1>1. PICK q \in Nat : size = LoadDenominator * q /\ q > 0
  BY SizesAssumption, PowerDivides
<1>2. LoadDenominator \in Nat /\ LoadDenominator > 0
  BY SizesAssumption
<1>3. size = LoadDenominator * q + 0
  BY <1>1, <1>2
<1>4. size \div LoadDenominator = q
  BY <1>2, <1>3, DivisionUnique
<1> QED
  BY <1>1, <1>4 DEF GrowthThresholdForAllocSize

\* It leaves a slot empty.
LEMMA ThresholdBounds ==
  ASSUME NEW size \in Nat, IsPowerOf2(size), LoadDenominator <= size
  PROVE  /\ GrowthThresholdForAllocSize(size) \in Nat
         /\ GrowthThresholdForAllocSize(size) > 0
         /\ GrowthThresholdForAllocSize(size) < size
<1>1. PICK q \in Nat : /\ q > 0 /\ size = LoadDenominator * q
                       /\ GrowthThresholdForAllocSize(size) = LoadDenominator * q - q
  BY Threshold
<1>2. LoadDenominator \in Nat /\ LoadDenominator >= 2
  BY SizesAssumption
<1>3. LoadDenominator * q \in Nat /\ LoadDenominator * q >= 2 * q
  BY <1>2, <1>1
<1> QED
  BY <1>1, <1>3

\* A larger table has a larger one.
LEMMA ThresholdGrows ==
  ASSUME NEW size \in Nat, IsPowerOf2(size), LoadDenominator <= size,
         NEW more \in Nat, IsPowerOf2(more), size < more
  PROVE  GrowthThresholdForAllocSize(size) < GrowthThresholdForAllocSize(more)
<1>1. PICK p \in Nat : /\ p > 0 /\ size = LoadDenominator * p
                       /\ GrowthThresholdForAllocSize(size) = LoadDenominator * p - p
  BY Threshold
<1>2. LoadDenominator \in Nat /\ LoadDenominator >= 2 /\ LoadDenominator <= more
  BY SizesAssumption
<1>3. PICK q \in Nat : /\ q > 0 /\ more = LoadDenominator * q
                       /\ GrowthThresholdForAllocSize(more) = LoadDenominator * q - q
  BY <1>2, Threshold
<1>4. p < q
  <2>1. ASSUME p >= q PROVE LoadDenominator * p >= LoadDenominator * q
    BY <2>1, <1>2
  <2> QED
    BY <2>1, <1>1, <1>3
<1>5. (LoadDenominator - 1) * p < (LoadDenominator - 1) * q
  BY <1>2, <1>4
<1>6. /\ (LoadDenominator - 1) * p = LoadDenominator * p - p
      /\ (LoadDenominator - 1) * q = LoadDenominator * q - q
  BY <1>2
<1> QED
  BY <1>1, <1>3, <1>5, <1>6

\* A table that is not full to the last slot has an empty one.
LEMMA SomeEmpty ==
  ASSUME NEW s \in Setups, NEW T, IsTable(s, T),
         Cardinality(NonEmpty(T)) <= GrowthThresholdForAllocSize(T.alloc)
  PROVE  \E i \in DOMAIN T.slots : T.slots[i] = Empty
<1>1. GrowthThresholdForAllocSize(T.alloc) \in Nat
      /\ GrowthThresholdForAllocSize(T.alloc) < T.alloc
  BY TableFacts, ThresholdBounds DEF Sized
<1>2. Cardinality(NonEmpty(T)) \in Nat /\ Cardinality(DOMAIN T.slots) = T.alloc
      /\ T.alloc \in Nat
  BY TableFacts
<1>3. NonEmpty(T) # DOMAIN T.slots
  <2>1. ASSUME NonEmpty(T) = DOMAIN T.slots PROVE FALSE
    <3>1. Cardinality(NonEmpty(T)) = T.alloc
      BY <2>1, <1>2
    <3> QED
      BY <3>1, <1>1, <1>2
  <2> QED
    BY <2>1
<1> QED
  BY <1>3 DEF NonEmpty
----------------------------------------------------------------------------
(* Searching                                                                *)

\* The slots that the n-th probe for k looks at are slots of the table.
LEMMA ProbedSlots ==
  ASSUME setup \in Setups, NEW T, IsTable(setup, T), NEW k \in Keys, NEW n \in Nat
  PROVE  /\ setup.hash[k] \in Nat
         /\ IsGroup(Probe(setup.hash[k], T.alloc, n), T.alloc)
         /\ Group(Probe(setup.hash[k], T.alloc, n)) \subseteq 0..(T.alloc - 1)
         /\ \A v : Probed(T, k, n, v) \subseteq 0..(T.alloc - 1)
         /\ \A v : Probed(T, k, n, v) \in SUBSET Nat
<1>1. setup.hash[k] \in Nat
  BY SetupFacts DEF Keys
<1>2. Sized(T.alloc) /\ T.alloc \in Nat
  BY TableFacts
<1>3. IsGroup(Probe(setup.hash[k], T.alloc, n), T.alloc)
  BY <1>1, <1>2, ProbesCover
<1>4. Group(Probe(setup.hash[k], T.alloc, n)) \subseteq 0..(T.alloc - 1)
  BY <1>2, <1>3, InGroup
<1>5. 0..(T.alloc - 1) \subseteq Nat
  BY <1>2
<1> QED
  BY <1>1, <1>3, <1>4, <1>5 DEF Probed, Match

\* Some probe comes to an empty slot, if there is one, so that the search ends.
LEMMA SearchEnds ==
  ASSUME setup \in Setups, NEW T, IsTable(setup, T), NEW k \in Keys,
         \E i \in DOMAIN T.slots : T.slots[i] = Empty
  PROVE  /\ {m \in Probes(T) : Probed(T, k, m, Empty) # {}} # {}
         /\ Stops(T, k) # {}
         /\ Probes(T) \subseteq Nat
<1>1. setup.hash[k] \in Nat
  BY SetupFacts DEF Keys
<1>2. Sized(T.alloc) /\ DOMAIN T.slots = 0..(T.alloc - 1)
  BY TableFacts
<1>3. PICK i \in 0..(T.alloc - 1) : T.slots[i] = Empty
  BY <1>2
<1>4. PICK n \in 0..(GroupCount(T.alloc) - 1) : i \in Group(Probe(setup.hash[k], T.alloc, n))
  BY <1>1, <1>2, <1>3, ProbesCover
<1>5. n \in Probes(T) /\ i \in Probed(T, k, n, Empty)
  BY <1>3, <1>4 DEF Probes, GroupCount, Probed, Match
<1>6. GroupCount(T.alloc) \in Nat
  BY <1>2, Groups
<1> QED
  BY <1>5, <1>6 DEF Stops, Probes, GroupCount

\* Where it ends, and what it has gone past.
LEMMA SearchResult ==
  ASSUME setup \in Setups, NEW T, IsTable(setup, T), NEW k \in Keys,
         \E i \in DOMAIN T.slots : T.slots[i] = Empty
  PROVE  /\ LastProbe(T, k) \in Probes(T) /\ LastProbe(T, k) \in Nat
         /\ Probed(T, k, LastProbe(T, k), k) # {} \/ Probed(T, k, LastProbe(T, k), Empty) # {}
         /\ \A m \in 0..(LastProbe(T, k) - 1) :
              Probed(T, k, m, k) = {} /\ Probed(T, k, m, Empty) = {}
<1> DEFINE n == LastProbe(T, k)
<1>1. Stops(T, k) # {} /\ Stops(T, k) \in SUBSET Nat
  BY SearchEnds DEF Stops
<1>2. n \in Stops(T, k) /\ \A m \in Stops(T, k) : n <= m
  BY <1>1, MinLeast DEF LastProbe
<1> HIDE DEF n
<1>3. n \in Probes(T) /\ n \in Nat /\ (Probed(T, k, n, k) # {} \/ Probed(T, k, n, Empty) # {})
  BY <1>1, <1>2 DEF Stops
<1>4. ASSUME NEW m \in 0..(n - 1) PROVE m \in Probes(T) /\ m \notin Stops(T, k)
  <2>1. m \in Nat /\ m < n
    BY <1>3
  <2>2. m \notin Stops(T, k)
    BY <2>1, <1>2, <1>3
  <2>3. T.alloc \div GroupSize \in Nat
    <3>1. Sized(T.alloc)
      BY TableFacts
    <3> QED
      BY <3>1, Groups DEF GroupCount
  <2>4. m \in Probes(T)
    BY <2>1, <2>3, <1>3 DEF Probes
  <2> QED
    BY <2>2, <2>4
<1>5. \A m \in 0..(n - 1) : Probed(T, k, m, k) = {} /\ Probed(T, k, m, Empty) = {}
  BY <1>4 DEF Stops
<1> QED
  BY <1>3, <1>5 DEF n

\* The key in slot i is in one slot only, and a search does not stop before.
LEMMA LookupFinds ==
  ASSUME setup \in Setups, NEW T, Sound(setup, T), NEW k \in Keys,
         \E i \in DOMAIN T.slots : T.slots[i] = Empty,
         NEW i \in PresentIn(setup, T), T.slots[i] = k
  PROVE  LookupEntry(T, k) = i /\ LookupEntry(T, k) # NotFound
<1> DEFINE n == LastProbe(T, k)
<1>1. IsTable(setup, T)
  BY DEF Sound
<1>2. /\ n \in Nat /\ n \in Probes(T)
      /\ Probed(T, k, n, k) # {} \/ Probed(T, k, n, Empty) # {}
      /\ \A m \in 0..(n - 1) : Probed(T, k, m, k) = {} /\ Probed(T, k, m, Empty) = {}
  BY <1>1, SearchResult
<1> HIDE DEF n
<1>3. PICK r \in Probes(T) : ReachedBy(setup, T, i, r)
  BY DEF Sound, Reached
<1>4. i \in Probed(T, k, r, k) /\ \A m \in 0..(r - 1) : Probed(T, k, m, Empty) = {}
  BY <1>3 DEF ReachedBy, Probed, Match
<1>5. r \in Nat
  BY <1>1, SearchEnds
<1>6. n <= r
  BY <1>2, <1>4, <1>5
<1>7. Probed(T, k, n, k) # {}
  BY <1>2, <1>4, <1>5, <1>6
<1>8. Probed(T, k, n, k) \subseteq {i}
  <2>1. ASSUME NEW j \in Probed(T, k, n, k) PROVE j = i
    <3>1. T.slots[j] = k /\ j \in DOMAIN T.slots
      BY <1>1, <1>2, TableFacts, ProbedSlots DEF Probed, Match
    <3>2. j \in PresentIn(setup, T)
      BY <3>1 DEF PresentIn, Keys
    <3> QED
      BY <3>1, <3>2 DEF Sound, Distinct
  <2> QED
    BY <2>1
<1>9. Probed(T, k, n, k) = {i}
  BY <1>7, <1>8
<1>10. i \in Nat
  BY <1>1, <1>9, <1>2, ProbedSlots
<1>11. Min({i}) = i
  BY <1>10 DEF Min
<1> QED
  BY <1>9, <1>10, <1>11 DEF LookupEntry, NotFound, n

\* What is not there is not found.
LEMMA LookupMisses ==
  ASSUME setup \in Setups, NEW T, IsTable(setup, T), NEW k \in Keys,
         \E i \in DOMAIN T.slots : T.slots[i] = Empty,
         k \notin KeysIn(setup, T)
  PROVE  LookupEntry(T, k) = NotFound
<1>1. LastProbe(T, k) \in Nat
  BY SearchResult
<1>2. ASSUME NEW i \in Probed(T, k, LastProbe(T, k), k) PROVE FALSE
  <2>1. i \in DOMAIN T.slots /\ T.slots[i] = k
    BY <1>1, TableFacts, ProbedSlots DEF Probed, Match
  <2> QED
    BY <2>1 DEF KeysIn, KeysAt, PresentIn, Keys
<1> QED
  BY <1>2 DEF LookupEntry

\* So a lookup tells whether the key is there, and where.
LEMMA Lookup ==
  ASSUME setup \in Setups, NEW T, Sound(setup, T), NEW k \in Keys,
         \E i \in DOMAIN T.slots : T.slots[i] = Empty
  PROVE  /\ LookupEntry(T, k) # NotFound <=> k \in KeysIn(setup, T)
         /\ k \in KeysIn(setup, T) =>
              LookupEntry(T, k) \in PresentIn(setup, T) /\ T.slots[LookupEntry(T, k)] = k
<1>1. IsTable(setup, T)
  BY DEF Sound
<1>2. CASE k \notin KeysIn(setup, T)
  BY <1>1, <1>2, LookupMisses
<1>3. CASE k \in KeysIn(setup, T)
  <2>1. PICK i \in PresentIn(setup, T) : T.slots[i] = k
    BY <1>3 DEF KeysIn, KeysAt
  <2>2. LookupEntry(T, k) = i /\ LookupEntry(T, k) # NotFound
    BY <2>1, LookupFinds
  <2> QED
    BY <2>1, <2>2, <1>3
<1> QED
  BY <1>2, <1>3
----------------------------------------------------------------------------
(* Writing a slot                                                           *)

With(T, i, v, b) ==
  [alloc |-> T.alloc, budget |-> b, storage |-> T.storage, slots |-> [T.slots EXCEPT ![i] = v]]
Rebudgeted(T, b) ==
  [alloc |-> T.alloc, budget |-> b, storage |-> T.storage, slots |-> T.slots]

\* The ways in which the operations write a slot or the budget.
LEMMA Writes ==
  ASSUME NEW s, NEW T, IsTable(s, T), NEW i, NEW v, NEW n \in Int
  PROVE  /\ [T EXCEPT !.slots[i] = v] = With(T, i, v, T.budget)
         /\ [[T EXCEPT !.slots[i] = v] EXCEPT !.budget = @ - 1] = With(T, i, v, T.budget - 1)
         /\ [T EXCEPT !.slots[i] = v, !.budget = @ + 1] = With(T, i, v, T.budget + 1)
         /\ [T EXCEPT !.budget = @ - n] = Rebudgeted(T, T.budget - n)
         /\ T = Rebudgeted(T, T.budget)
<1>1. T = [alloc |-> T.alloc, budget |-> T.budget, storage |-> T.storage, slots |-> T.slots]
  BY DEF IsTable
<1> DEFINE a == T.alloc
           b == T.budget
           c == T.storage
           f == T.slots
<1>2. T = [alloc |-> a, budget |-> b, storage |-> c, slots |-> f]
  BY <1>1
<1> HIDE DEF a, b, c, f
<1>3. [T EXCEPT !.slots[i] = v]
        = [alloc |-> a, budget |-> b, storage |-> c, slots |-> [f EXCEPT ![i] = v]]
  BY <1>2
<1>4. [[T EXCEPT !.slots[i] = v] EXCEPT !.budget = @ - 1]
        = [alloc |-> a, budget |-> b - 1, storage |-> c, slots |-> [f EXCEPT ![i] = v]]
  <2> DEFINE V == [T EXCEPT !.slots[i] = v]
             g == [f EXCEPT ![i] = v]
  <2>1. V = [alloc |-> a, budget |-> b, storage |-> c, slots |-> g]
    BY <1>3
  <2> HIDE DEF V, g
  <2>2. [V EXCEPT !.budget = @ - 1]
          = [alloc |-> a, budget |-> b - 1, storage |-> c, slots |-> g]
    BY <2>1
  <2> QED
    BY <2>2 DEF V, g
<1>5. [T EXCEPT !.slots[i] = v, !.budget = @ + 1]
        = [alloc |-> a, budget |-> b + 1, storage |-> c, slots |-> [f EXCEPT ![i] = v]]
  <2> DEFINE g == [f EXCEPT ![i] = v]
             V == [T EXCEPT !.slots = g]
  <2>1. V = [alloc |-> a, budget |-> b, storage |-> c, slots |-> g]
    <3> HIDE DEF g
    <3> QED
      BY <1>2
  <2>2. T.slots = f /\ T.budget = b
    BY <1>2
  <2>3. [T EXCEPT !.slots[i] = v, !.budget = @ + 1] = [V EXCEPT !.budget = b + 1]
    BY <2>2
  <2> HIDE DEF V, g
  <2>4. [V EXCEPT !.budget = b + 1]
          = [alloc |-> a, budget |-> b + 1, storage |-> c, slots |-> g]
    BY <2>1
  <2> QED
    BY <2>3, <2>4 DEF g
<1>6. [T EXCEPT !.budget = @ - n]
        = [alloc |-> a, budget |-> b - n, storage |-> c, slots |-> f]
  BY <1>2
<1> QED
  BY <1>1, <1>3, <1>4, <1>5, <1>6 DEF With, Rebudgeted, a, b, c, f

\* A slot is written.
LEMMA Write ==
  ASSUME NEW s, NEW T, IsTable(s, T), NEW i, NEW v, NEW U, U = [T EXCEPT !.slots[i] = v]
  PROVE  U = With(T, i, v, T.budget)
<1>1. 0 \in Int
  OBVIOUS
<1> QED
  BY <1>1, Writes, Zenon

\* A slot is written and charged for.
LEMMA WriteCharged ==
  ASSUME NEW s, NEW T, IsTable(s, T), NEW i, NEW v, NEW U,
         U = [[T EXCEPT !.slots[i] = v] EXCEPT !.budget = @ - 1]
  PROVE  U = With(T, i, v, T.budget - 1)
<1>1. 0 \in Int
  OBVIOUS
<1> QED
  BY <1>1, Writes, Zenon

\* A slot is written and given back.
LEMMA WriteFreed ==
  ASSUME NEW s, NEW T, IsTable(s, T), NEW i, NEW v, NEW U,
         U = [T EXCEPT !.slots[i] = v, !.budget = @ + 1]
  PROVE  U = With(T, i, v, T.budget + 1)
<1>1. 0 \in Int
  OBVIOUS
<1> QED
  BY <1>1, Writes, Zenon

\* The slots of what was written.
LEMMA Written ==
  ASSUME NEW s, NEW T, IsTable(s, T), NEW i \in DOMAIN T.slots,
         NEW v \in {Empty, Deleted} \cup DOMAIN s.hash, NEW b \in Int
  PROVE  /\ IsTable(s, With(T, i, v, b))
         /\ With(T, i, v, b).alloc = T.alloc
         /\ With(T, i, v, b).budget = b
         /\ With(T, i, v, b).storage = T.storage
         /\ DOMAIN With(T, i, v, b).slots = DOMAIN T.slots
         /\ With(T, i, v, b).slots[i] = v
         /\ \A j \in DOMAIN T.slots : j # i => With(T, i, v, b).slots[j] = T.slots[j]
<1> DEFINE U == With(T, i, v, b)
<1>1. /\ U.alloc = T.alloc /\ U.budget = b /\ U.storage = T.storage
      /\ U.slots = [T.slots EXCEPT ![i] = v]
      /\ U = [alloc |-> U.alloc, budget |-> U.budget, storage |-> U.storage, slots |-> U.slots]
  BY DEF With
<1>2. T.slots \in [0..(T.alloc - 1) -> {Empty, Deleted} \cup DOMAIN s.hash]
  BY DEF IsTable
<1> HIDE DEF U
<1>3. U.slots \in [0..(U.alloc - 1) -> {Empty, Deleted} \cup DOMAIN s.hash]
  BY <1>1, <1>2
<1>4. IsTable(s, U)
  BY <1>1, <1>3 DEF IsTable
<1>5. /\ DOMAIN U.slots = DOMAIN T.slots /\ U.slots[i] = v
      /\ \A j \in DOMAIN T.slots : j # i => U.slots[j] = T.slots[j]
  BY <1>1, <1>2
<1> QED
  BY <1>1, <1>4, <1>5 DEF U

\* Nothing but the budget depends on the budget.
LEMMA Rebudget ==
  ASSUME NEW s, NEW T, IsTable(s, T), NEW b \in Int
  PROVE  /\ Rebudgeted(T, b).alloc = T.alloc
         /\ Rebudgeted(T, b).budget = b
         /\ Rebudgeted(T, b).storage = T.storage
         /\ Rebudgeted(T, b).slots = T.slots
         /\ IsTable(s, Rebudgeted(T, b))
         /\ PresentIn(s, Rebudgeted(T, b)) = PresentIn(s, T)
         /\ KeysIn(s, Rebudgeted(T, b)) = KeysIn(s, T)
         /\ NonEmpty(Rebudgeted(T, b)) = NonEmpty(T)
         /\ Sound(s, T) => Sound(s, Rebudgeted(T, b))
<1> DEFINE U == Rebudgeted(T, b)
<1>1. /\ U.alloc = T.alloc /\ U.budget = b /\ U.storage = T.storage /\ U.slots = T.slots
      /\ U = [alloc |-> U.alloc, budget |-> U.budget, storage |-> U.storage, slots |-> U.slots]
  BY DEF Rebudgeted
<1> HIDE DEF U
<1>2. IsTable(s, U)
  BY <1>1 DEF IsTable
<1>3. PresentIn(s, U) = PresentIn(s, T) /\ NonEmpty(U) = NonEmpty(T)
  BY <1>1 DEF PresentIn, NonEmpty
<1>4. KeysIn(s, U) = KeysIn(s, T)
  BY <1>1, <1>3 DEF KeysIn, KeysAt
<1>5. ASSUME Sound(s, T) PROVE Sound(s, U)
  <2>1. Reached(s, U)
    BY <1>1, <1>3, <1>5 DEF Sound, Reached, ReachedBy, Match, Probes
  <2>2. Distinct(s, U)
    BY <1>1, <1>3, <1>5 DEF Sound, Distinct
  <2> QED
    BY <2>1, <2>2, <1>2 DEF Sound
<1> QED
  BY <1>1, <1>2, <1>3, <1>4, <1>5 DEF U

\* A key that is not there, put into a slot that a search comes to before it
\* comes to an empty one.
LEMMA PutKey ==
  ASSUME NEW s \in Setups, NEW T, Sound(s, T), NEW k \in DOMAIN s.hash, k \notin KeysIn(s, T),
         NEW i \in DOMAIN T.slots, T.slots[i] \in {Empty, Deleted},
         NEW n \in Probes(T), i \in Group(Probe(s.hash[k], T.alloc, n)),
         \A m \in 0..(n - 1) : Match(T, Probe(s.hash[k], T.alloc, m), Empty) = {},
         NEW b \in Int
  PROVE  /\ Sound(s, With(T, i, k, b))
         /\ PresentIn(s, With(T, i, k, b)) = PresentIn(s, T) \cup {i}
         /\ i \notin PresentIn(s, T)
         /\ KeysIn(s, With(T, i, k, b)) = KeysIn(s, T) \cup {k}
         /\ NonEmpty(With(T, i, k, b)) = NonEmpty(T) \cup {i}
<1> DEFINE U == With(T, i, k, b)
<1>1. IsTable(s, T) /\ k # Empty /\ k # Deleted
      /\ Empty \notin DOMAIN s.hash /\ Deleted \notin DOMAIN s.hash
  BY SetupFacts DEF Sound
<1>2. /\ IsTable(s, U) /\ U.alloc = T.alloc /\ DOMAIN U.slots = DOMAIN T.slots
      /\ U.slots[i] = k
      /\ \A j \in DOMAIN T.slots : j # i => U.slots[j] = T.slots[j]
  BY <1>1, Written
<1> HIDE DEF U
<1>3. i \notin PresentIn(s, T)
  BY <1>1 DEF PresentIn
<1>4. PresentIn(s, U) = PresentIn(s, T) \cup {i}
  BY <1>2 DEF PresentIn
<1>5. NonEmpty(U) = NonEmpty(T) \cup {i}
  BY <1>1, <1>2 DEF NonEmpty
<1>6. KeysIn(s, U) = KeysIn(s, T) \cup {k}
  <2>1. ASSUME NEW x \in KeysIn(s, U) PROVE x \in KeysIn(s, T) \cup {k}
    BY <1>2, <1>4 DEF KeysIn, KeysAt, PresentIn
  <2>2. ASSUME NEW x \in KeysIn(s, T) \cup {k} PROVE x \in KeysIn(s, U)
    <3>1. CASE x = k
      BY <3>1, <1>2, <1>4 DEF KeysIn, KeysAt
    <3>2. CASE x # k
      <4>1. PICK j \in PresentIn(s, T) : x = T.slots[j]
        BY <2>2, <3>2 DEF KeysIn, KeysAt
      <4>2. j # i /\ j \in DOMAIN T.slots
        BY <1>3 DEF PresentIn
      <4>3. U.slots[j] = x /\ j \in PresentIn(s, U)
        BY <4>1, <4>2, <1>2, <1>4
      <4> QED
        BY <4>3 DEF KeysIn, KeysAt
    <3> QED
      BY <3>1, <3>2
  <2> QED
    BY <2>1, <2>2
<1>7. Distinct(s, U)
  <2>1. \A j \in PresentIn(s, T) : j \in DOMAIN T.slots /\ U.slots[j] = T.slots[j] /\ U.slots[j] # k
    BY <1>2, <1>3 DEF PresentIn, KeysIn, KeysAt
  <2> QED
    BY <2>1, <1>2, <1>4 DEF Sound, Distinct
<1>8. ASSUME NEW g PROVE Match(T, g, Empty) = {} /\ Group(g) \subseteq DOMAIN T.slots
                         => Match(U, g, Empty) = {}
  BY <1>1, <1>2 DEF Match
<1>9. ASSUME NEW x \in DOMAIN s.hash, NEW m \in Nat
      PROVE  Group(Probe(s.hash[x], T.alloc, m)) \subseteq DOMAIN T.slots
  <2>1. Sized(T.alloc) /\ DOMAIN T.slots = 0..(T.alloc - 1) /\ s.hash[x] \in Nat
    BY <1>1, TableFacts, SetupFacts
  <2>2. IsGroup(Probe(s.hash[x], T.alloc, m), T.alloc)
    BY <2>1, ProbesCover
  <2> QED
    BY <2>1, <2>2, InGroup
<1>10. Probes(T) \subseteq Nat /\ Probes(U) = Probes(T)
  <2>1. GroupCount(T.alloc) \in Nat
    BY <1>1, TableFacts, Groups
  <2> QED
    BY <2>1, <1>2 DEF Probes, GroupCount
<1>11. ASSUME NEW j \in PresentIn(s, U) PROVE \E r \in Probes(U) : ReachedBy(s, U, j, r)
  <2>1. CASE j = i
    <3>1. \A m \in 0..(n - 1) : Match(U, Probe(s.hash[k], T.alloc, m), Empty) = {}
      <4>1. ASSUME NEW m \in 0..(n - 1) PROVE m \in Nat
        BY <1>10
      <4> QED
        BY <4>1, <1>8, <1>9
    <3> QED
      BY <2>1, <3>1, <1>2, <1>10 DEF ReachedBy
  <2>2. CASE j # i
    <3>1. j \in PresentIn(s, T) /\ U.slots[j] = T.slots[j] /\ T.slots[j] \in DOMAIN s.hash
      BY <2>2, <1>2, <1>4 DEF PresentIn
    <3>2. PICK r \in Probes(T) : ReachedBy(s, T, j, r)
      BY <3>1 DEF Sound, Reached
    <3>3. \A m \in 0..(r - 1) : Match(U, Probe(s.hash[T.slots[j]], T.alloc, m), Empty) = {}
      <4>1. ASSUME NEW m \in 0..(r - 1) PROVE m \in Nat
        BY <1>10
      <4>2. \A m \in 0..(r - 1) : Match(T, Probe(s.hash[T.slots[j]], T.alloc, m), Empty) = {}
        BY <3>2 DEF ReachedBy
      <4> QED
        BY <4>1, <4>2, <3>1, <1>8, <1>9
    <3>4. ReachedBy(s, U, j, r)
      BY <3>1, <3>2, <3>3, <1>2 DEF ReachedBy
    <3> QED
      BY <3>4, <1>10
  <2> QED
    BY <2>1, <2>2
<1>12. Sound(s, U)
  BY <1>2, <1>7, <1>11 DEF Sound, Reached
<1> QED
  BY <1>3, <1>4, <1>5, <1>6, <1>12 DEF U

\* A key taken out: a marker is left unless its group has an empty slot.
LEMMA TakeKey ==
  ASSUME NEW s \in Setups, NEW T, Sound(s, T), NEW i \in PresentIn(s, T),
         NEW v \in {Empty, Deleted},
         v = Empty => Match(T, Masked(i, T.alloc), Empty) # {},
         NEW b \in Int
  PROVE  /\ Sound(s, With(T, i, v, b))
         /\ PresentIn(s, With(T, i, v, b)) = PresentIn(s, T) \ {i}
         /\ KeysIn(s, With(T, i, v, b)) = KeysIn(s, T) \ {T.slots[i]}
         /\ NonEmpty(With(T, i, v, b)) = IF v = Empty THEN NonEmpty(T) \ {i} ELSE NonEmpty(T)
<1> DEFINE U == With(T, i, v, b)
<1>1. IsTable(s, T) /\ i \in DOMAIN T.slots /\ T.slots[i] \in DOMAIN s.hash
      /\ Empty \notin DOMAIN s.hash /\ Deleted \notin DOMAIN s.hash /\ Empty # Deleted
  BY SetupFacts DEF Sound, PresentIn
<1>2. /\ IsTable(s, U) /\ U.alloc = T.alloc /\ DOMAIN U.slots = DOMAIN T.slots
      /\ U.slots[i] = v
      /\ \A j \in DOMAIN T.slots : j # i => U.slots[j] = T.slots[j]
  BY <1>1, Written
<1> HIDE DEF U
<1>3. PresentIn(s, U) = PresentIn(s, T) \ {i}
  BY <1>1, <1>2 DEF PresentIn
<1>4. NonEmpty(U) = IF v = Empty THEN NonEmpty(T) \ {i} ELSE NonEmpty(T)
  <2>1. CASE v = Empty
    BY <2>1, <1>2 DEF NonEmpty
  <2>2. CASE v # Empty
    <3>1. T.slots[i] # Empty
      BY <1>1
    <3> QED
      BY <3>1, <2>2, <1>1, <1>2 DEF NonEmpty
  <2> QED
    BY <2>1, <2>2
<1>5. \A j \in PresentIn(s, U) : j \in PresentIn(s, T) /\ j # i /\ U.slots[j] = T.slots[j]
  BY <1>2, <1>3 DEF PresentIn
<1>6. Distinct(s, U)
  BY <1>5 DEF Sound, Distinct
<1>7. KeysIn(s, U) = KeysIn(s, T) \ {T.slots[i]}
  <2>1. ASSUME NEW x \in KeysIn(s, U) PROVE x \in KeysIn(s, T) \ {T.slots[i]}
    <3>1. PICK j \in PresentIn(s, U) : x = U.slots[j]
      BY <2>1 DEF KeysIn, KeysAt
    <3> QED
      BY <3>1, <1>5 DEF KeysIn, KeysAt, Sound, Distinct
  <2>2. ASSUME NEW x \in KeysIn(s, T) \ {T.slots[i]} PROVE x \in KeysIn(s, U)
    <3>1. PICK j \in PresentIn(s, T) : x = T.slots[j]
      BY <2>2 DEF KeysIn, KeysAt
    <3>2. j \in PresentIn(s, U)
      BY <3>1, <2>2, <1>3
    <3> QED
      BY <3>1, <3>2, <1>5 DEF KeysIn, KeysAt
  <2> QED
    BY <2>1, <2>2
<1>8. Sized(T.alloc) /\ DOMAIN T.slots = 0..(T.alloc - 1)
  BY <1>1, TableFacts
<1>9. Probes(T) \subseteq Nat /\ Probes(U) = Probes(T)
  <2>1. GroupCount(T.alloc) \in Nat
    BY <1>8, Groups
  <2> QED
    BY <2>1, <1>2 DEF Probes, GroupCount
<1>10. ASSUME NEW g, IsGroup(g, T.alloc), Match(T, g, Empty) = {}
       PROVE  Match(U, g, Empty) = {}
  <2>1. ASSUME NEW j \in Match(U, g, Empty) PROVE FALSE
    <3>1. j \in Group(g) /\ U.slots[j] = Empty
      BY <2>1 DEF Match
    <3>2. j \in DOMAIN T.slots /\ Masked(j, T.alloc) = g
      BY <3>1, <1>8, <1>10, InGroup
    <3>3. T.slots[j] # Empty
      BY <3>1, <1>10 DEF Match
    <3>4. j = i /\ v = Empty
      BY <3>1, <3>2, <3>3, <1>2
    <3> QED
      BY <3>2, <3>4, <1>10
  <2> QED
    BY <2>1
<1>11. ASSUME NEW j \in PresentIn(s, U) PROVE \E r \in Probes(U) : ReachedBy(s, U, j, r)
  <2>1. j \in PresentIn(s, T) /\ U.slots[j] = T.slots[j] /\ s.hash[T.slots[j]] \in Nat
    BY <1>5, SetupFacts DEF PresentIn
  <2>2. PICK r \in Probes(T) : ReachedBy(s, T, j, r)
    BY <2>1 DEF Sound, Reached
  <2>3. ASSUME NEW m \in 0..(r - 1)
        PROVE  Match(U, Probe(s.hash[T.slots[j]], T.alloc, m), Empty) = {}
    <3>1. m \in Nat
      BY <1>9
    <3>2. IsGroup(Probe(s.hash[T.slots[j]], T.alloc, m), T.alloc)
      BY <3>1, <2>1, <1>8, ProbesCover
    <3>3. Match(T, Probe(s.hash[T.slots[j]], T.alloc, m), Empty) = {}
      BY <2>2 DEF ReachedBy
    <3> QED
      BY <3>2, <3>3, <1>10
  <2>4. ReachedBy(s, U, j, r)
    BY <2>1, <2>2, <2>3, <1>2 DEF ReachedBy
  <2> QED
    BY <2>4, <1>9
<1>12. Sound(s, U)
  BY <1>2, <1>6, <1>11 DEF Sound, Reached
<1> QED
  BY <1>3, <1>4, <1>7, <1>12 DEF U

----------------------------------------------------------------------------
(* Inserting and erasing                                                    *)

\* A table with a budget that is right has an empty slot.
LEMMA BudgetedEmpty ==
  ASSUME NEW s \in Setups, NEW T, IsTable(s, T), Budgeted(T)
  PROVE  \E i \in DOMAIN T.slots : T.slots[i] = Empty
<1>1. T.alloc \in Nat /\ Cardinality(NonEmpty(T)) \in Nat
      /\ GrowthThresholdForAllocSize(T.alloc) \in Nat
  BY TableFacts, ThresholdBounds DEF Sized
<1>2. Cardinality(NonEmpty(T)) <= GrowthThresholdForAllocSize(T.alloc)
  BY <1>1 DEF Budgeted
<1> QED
  BY <1>2, SomeEmpty

\* A slot that was filled is charged for if it was empty.
LEMMA PutBudget ==
  ASSUME NEW s \in Setups, NEW T, Sound(s, T), Budgeted(T), NEW U, IsTable(s, U),
         U.alloc = T.alloc, NEW i \in DOMAIN T.slots, NonEmpty(U) = NonEmpty(T) \cup {i},
         \/ T.slots[i] = Deleted /\ U.budget = T.budget
         \/ T.slots[i] = Empty /\ U.budget = T.budget - 1 /\ T.budget # 0
  PROVE  Budgeted(U)
<1>1. IsFiniteSet(NonEmpty(T)) /\ Cardinality(NonEmpty(T)) \in Nat
  BY TableFacts DEF Sound
<1>2. Cardinality(NonEmpty(U)) = IF i \in NonEmpty(T) THEN Cardinality(NonEmpty(T))
                                 ELSE Cardinality(NonEmpty(T)) + 1
  BY <1>1, FS_AddElement
<1>3. T.budget \in Int /\ GrowthThresholdForAllocSize(T.alloc) \in Nat
  BY TableFacts, ThresholdBounds DEF Sized, Sound, IsTable
<1>4. CASE T.slots[i] = Deleted /\ U.budget = T.budget
  <2>1. i \in NonEmpty(T)
    BY <1>4, SetupFacts DEF NonEmpty
  <2> QED
    BY <2>1, <1>2, <1>4 DEF Budgeted
<1>5. CASE T.slots[i] = Empty /\ U.budget = T.budget - 1 /\ T.budget # 0
  <2>1. i \notin NonEmpty(T)
    BY <1>5 DEF NonEmpty
  <2> QED
    BY <2>1, <1>1, <1>2, <1>3, <1>5 DEF Budgeted
<1> QED
  BY <1>4, <1>5

\* InsertImpl adds the key, in one more slot if it is new.
LEMMA InsertKeeps ==
  ASSUME setup \in Setups, NEW T, Sound(setup, T), Budgeted(T), NEW k \in Keys,
         ~MustGrow(T, k)
  PROVE  /\ Sound(setup, InsertImpl(T, k)) /\ Budgeted(InsertImpl(T, k))
         /\ KeysIn(setup, InsertImpl(T, k)) = KeysIn(setup, T) \cup {k}
         /\ InsertImpl(T, k).storage = T.storage
         /\ k \in KeysIn(setup, T) => InsertImpl(T, k) = T
         /\ k \notin KeysIn(setup, T) =>
              /\ InsertImpl(T, k).budget >= T.budget - 1
              /\ Cardinality(PresentIn(setup, InsertImpl(T, k)))
                   = Cardinality(PresentIn(setup, T)) + 1
<1> DEFINE U == InsertImpl(T, k)
           n == LastProbe(T, k)
<1>1. IsTable(setup, T) /\ \E i \in DOMAIN T.slots : T.slots[i] = Empty
  BY BudgetedEmpty DEF Sound
<1>2. LookupEntry(T, k) # NotFound <=> k \in KeysIn(setup, T)
  BY <1>1, Lookup
<1>3. CASE k \in KeysIn(setup, T)
  <2>1. U = T
    BY <1>2, <1>3 DEF InsertImpl
  <2> QED
    BY <2>1, <1>3
<1>4. CASE k \notin KeysIn(setup, T)
  <2>1. /\ n \in Probes(T) /\ n \in Nat
        /\ Probed(T, k, n, k) # {} \/ Probed(T, k, n, Empty) # {}
        /\ \A m \in 0..(n - 1) : Probed(T, k, m, k) = {} /\ Probed(T, k, m, Empty) = {}
    BY <1>1, SearchResult
  <2>2. Probed(T, k, n, k) = {}
    <3>1. ASSUME NEW i \in Probed(T, k, n, k) PROVE FALSE
      <4>1. i \in DOMAIN T.slots /\ T.slots[i] = k
        BY <1>1, <2>1, TableFacts, ProbedSlots DEF Probed, Match
      <4> QED
        BY <4>1, <1>4 DEF KeysIn, KeysAt, PresentIn, Keys
    <3> QED
      BY <3>1
  <2>3. Probed(T, k, n, Empty) # {}
    BY <2>1, <2>2
  <2>4. T.budget \in Int /\ DOMAIN T.slots = 0..(T.alloc - 1)
    BY <1>1, TableFacts DEF IsTable
  <2>5. ASSUME NEW i, NEW d \in Probes(T), d \in 0..n, NEW v \in {Empty, Deleted},
               i \in Probed(T, k, d, v), NEW b \in Int,
               U = With(T, i, k, b),
               \/ v = Deleted /\ b = T.budget
               \/ v = Empty /\ b = T.budget - 1 /\ T.budget # 0
        PROVE  /\ Sound(setup, U) /\ Budgeted(U)
               /\ KeysIn(setup, U) = KeysIn(setup, T) \cup {k}
               /\ U.storage = T.storage
               /\ U.budget >= T.budget - 1
               /\ Cardinality(PresentIn(setup, U)) = Cardinality(PresentIn(setup, T)) + 1
    <3>1. d \in Nat
      BY <2>5, <2>1
    <3>2. i \in DOMAIN T.slots /\ T.slots[i] = v
          /\ i \in Group(Probe(setup.hash[k], T.alloc, d))
      BY <2>4, <2>5, <3>1, <1>1, ProbedSlots DEF Probed, Match
    <3>3. \A m \in 0..(d - 1) : Match(T, Probe(setup.hash[k], T.alloc, m), Empty) = {}
      <4>1. \A m \in 0..(d - 1) : m \in 0..(n - 1)
        BY <2>1, <2>5, <3>1
      <4> QED
        BY <4>1, <2>1 DEF Probed
    <3>4. /\ Sound(setup, U)
          /\ PresentIn(setup, U) = PresentIn(setup, T) \cup {i}
          /\ i \notin PresentIn(setup, T)
          /\ KeysIn(setup, U) = KeysIn(setup, T) \cup {k}
          /\ NonEmpty(U) = NonEmpty(T) \cup {i}
      <4> HIDE DEF U, n
      <4> QED
        BY <2>5, <3>2, <3>3, <1>4, PutKey DEF Keys
    <3>5. U.alloc = T.alloc /\ U.budget = b /\ U.storage = T.storage
      BY <2>5 DEF With
    <3>6. Budgeted(U)
      <4> HIDE DEF U, n
      <4>1. IsTable(setup, U)
        BY <3>4 DEF Sound
      <4> QED
        BY <4>1, <2>5, <3>2, <3>4, <3>5, PutBudget
    <3>7. Cardinality(PresentIn(setup, U)) = Cardinality(PresentIn(setup, T)) + 1
      BY <3>4, <1>1, TableFacts, FS_AddElement
    <3>8. b >= T.budget - 1
      BY <2>4, <2>5
    <3> QED
      BY <3>4, <3>5, <3>6, <3>7, <3>8
  <2>6. CASE Markers(T, k) # {}
    <3> DEFINE d == Min(Markers(T, k))
               i == Min(Probed(T, k, d, Deleted))
    <3>1. Markers(T, k) \in SUBSET Nat
      BY <2>1 DEF Markers
    <3>2. d \in Markers(T, k)
      BY <3>1, <2>6, MinLeast
    <3> HIDE DEF d
    <3>3. d \in 0..n /\ d \in Nat /\ Probed(T, k, d, Deleted) # {}
      BY <3>1, <3>2 DEF Markers
    <3>4. i \in Probed(T, k, d, Deleted)
      BY <3>3, <1>1, ProbedSlots, MinLeast
    <3> HIDE DEF i
    <3>5. d \in Probes(T)
      BY <3>3, <2>1, <1>1, TableFacts, Groups DEF Probes, GroupCount
    <3>6. U = With(T, i, k, T.budget)
      <4>1. U = [T EXCEPT !.slots[i] = k]
        BY <1>2, <1>4, <2>6 DEF InsertImpl, d, i
      <4> HIDE DEF U
      <4> QED
        BY <4>1, <1>1, Write
    <3>7. Deleted \in {Empty, Deleted}
      OBVIOUS
    <3> HIDE DEF U, n
    <3>8. /\ Sound(setup, U) /\ Budgeted(U)
          /\ KeysIn(setup, U) = KeysIn(setup, T) \cup {k}
          /\ U.storage = T.storage
          /\ U.budget >= T.budget - 1
          /\ Cardinality(PresentIn(setup, U)) = Cardinality(PresentIn(setup, T)) + 1
      BY <3>3, <3>4, <3>5, <3>6, <3>7, <2>4, <2>5
    <3> QED
      BY <3>8, <1>4 DEF U
  <2>7. CASE Markers(T, k) = {}
    <3> DEFINE i == Min(Probed(T, k, n, Empty))
    <3>1. i \in Probed(T, k, n, Empty)
      BY <2>1, <2>3, <1>1, ProbedSlots, MinLeast
    <3> HIDE DEF i
    <3>2. T.budget # 0
      BY <2>7, <1>2, <1>4 DEF MustGrow
    <3>3. U = With(T, i, k, T.budget - 1)
      <4>1. U = [[T EXCEPT !.slots[i] = k] EXCEPT !.budget = @ - 1]
        BY <1>2, <1>4, <2>7 DEF InsertImpl, i
      <4> HIDE DEF U
      <4> QED
        BY <4>1, <1>1, WriteCharged
    <3>4. n \in 0..n /\ T.budget - 1 \in Int /\ Empty \in {Empty, Deleted}
      BY <2>1, <2>4
    <3> HIDE DEF U, n
    <3>5. /\ Sound(setup, U) /\ Budgeted(U)
          /\ KeysIn(setup, U) = KeysIn(setup, T) \cup {k}
          /\ U.storage = T.storage
          /\ U.budget >= T.budget - 1
          /\ Cardinality(PresentIn(setup, U)) = Cardinality(PresentIn(setup, T)) + 1
      BY <3>1, <3>2, <3>3, <3>4, <2>1, <2>5
    <3> QED
      BY <3>5, <1>4 DEF U
  <2> QED
    BY <2>6, <2>7
<1> QED
  BY <1>3, <1>4

\* EraseImpl takes the key, from one slot if it is there.
LEMMA EraseKeeps ==
  ASSUME setup \in Setups, NEW T, Sound(setup, T), Budgeted(T), NEW k \in Keys
  PROVE  /\ Sound(setup, EraseImpl(T, k)) /\ Budgeted(EraseImpl(T, k))
         /\ KeysIn(setup, EraseImpl(T, k)) = KeysIn(setup, T) \ {k}
         /\ EraseImpl(T, k).storage = T.storage
         /\ EraseImpl(T, k).budget >= T.budget
         /\ Cardinality(PresentIn(setup, EraseImpl(T, k)))
              = Cardinality(PresentIn(setup, T))
                - IF LookupEntry(T, k) = NotFound THEN 0 ELSE 1
<1> DEFINE U == EraseImpl(T, k)
           i == LookupEntry(T, k)
<1>1. IsTable(setup, T) /\ \E j \in DOMAIN T.slots : T.slots[j] = Empty
  BY BudgetedEmpty DEF Sound
<1>2. /\ i # NotFound <=> k \in KeysIn(setup, T)
      /\ k \in KeysIn(setup, T) => i \in PresentIn(setup, T) /\ T.slots[i] = k
  BY <1>1, Lookup
<1>3. /\ T.budget \in Int /\ IsFiniteSet(PresentIn(setup, T)) /\ IsFiniteSet(NonEmpty(T))
      /\ Cardinality(PresentIn(setup, T)) \in Nat /\ Cardinality(NonEmpty(T)) \in Nat
      /\ PresentIn(setup, T) \subseteq NonEmpty(T)
      /\ GrowthThresholdForAllocSize(T.alloc) \in Nat
  BY <1>1, TableFacts, ThresholdBounds DEF IsTable, Sized
<1>4. CASE k \notin KeysIn(setup, T)
  <2>1. i = NotFound /\ U = T
    BY <1>2, <1>4 DEF EraseImpl
  <2> QED
    BY <2>1, <1>3, <1>4
<1>5. CASE k \in KeysIn(setup, T)
  <2>1. i # NotFound /\ i \in PresentIn(setup, T) /\ T.slots[i] = k
    BY <1>2, <1>5
  <2>2. Cardinality(PresentIn(setup, T) \ {i}) = Cardinality(PresentIn(setup, T)) - 1
    BY <2>1, <1>3, FS_RemoveElement
  <2>3. CASE Match(T, Masked(i, T.alloc), Empty) # {}
    <3>1. U = With(T, i, Empty, T.budget + 1)
      <4>1. U = [T EXCEPT !.slots[i] = Empty, !.budget = @ + 1]
        BY <2>1, <2>3 DEF EraseImpl
      <4> HIDE DEF i, U
      <4> QED
        BY <4>1, <1>1, WriteFreed
    <3> HIDE DEF U, i
    <3>2. T.budget + 1 \in Int /\ Empty \in {Empty, Deleted}
      BY <1>3
    <3>3. /\ Sound(setup, U) /\ PresentIn(setup, U) = PresentIn(setup, T) \ {i}
          /\ KeysIn(setup, U) = KeysIn(setup, T) \ {k}
          /\ NonEmpty(U) = NonEmpty(T) \ {i}
      <4>1. PICK v \in {Empty, Deleted} : v = Empty
        OBVIOUS
      <4>2. PICK b \in Int : b = T.budget + 1
        BY <3>2
      <4>3. U = With(T, i, v, b)
        BY <3>1, <4>1, <4>2
      <4>4. v = Empty => Match(T, Masked(i, T.alloc), Empty) # {}
        BY <2>3
      <4>5. /\ Sound(setup, U) /\ PresentIn(setup, U) = PresentIn(setup, T) \ {i}
            /\ KeysIn(setup, U) = KeysIn(setup, T) \ {T.slots[i]}
            /\ NonEmpty(U) = IF v = Empty THEN NonEmpty(T) \ {i} ELSE NonEmpty(T)
        BY <4>3, <4>4, <2>1, TakeKey
      <4> QED
        BY <4>1, <4>5, <2>1
    <3>4. U.alloc = T.alloc /\ U.budget = T.budget + 1 /\ U.storage = T.storage
      BY <3>1 DEF With
    <3>5. Cardinality(NonEmpty(U)) = Cardinality(NonEmpty(T)) - 1
      BY <3>3, <2>1, <1>3, FS_RemoveElement
    <3>6. Budgeted(U)
      BY <3>4, <3>5, <1>3 DEF Budgeted
    <3> QED
      BY <3>3, <3>4, <3>6, <2>1, <2>2, <1>3 DEF U, i
  <2>4. CASE Match(T, Masked(i, T.alloc), Empty) = {}
    <3>1. U = With(T, i, Deleted, T.budget)
      <4>1. U = [T EXCEPT !.slots[i] = Deleted]
        BY <2>1, <2>4 DEF EraseImpl
      <4> HIDE DEF i, U
      <4> QED
        BY <4>1, <1>1, Write
    <3> HIDE DEF U, i
    <3>2. Deleted \in {Empty, Deleted} /\ Deleted # Empty
      BY SetupFacts
    <3>3. /\ Sound(setup, U) /\ PresentIn(setup, U) = PresentIn(setup, T) \ {i}
          /\ KeysIn(setup, U) = KeysIn(setup, T) \ {k}
          /\ NonEmpty(U) = NonEmpty(T)
      BY <3>1, <3>2, <2>1, <1>3, TakeKey
    <3>4. U.alloc = T.alloc /\ U.budget = T.budget /\ U.storage = T.storage
      BY <3>1 DEF With
    <3>5. Budgeted(U)
      BY <3>3, <3>4 DEF Budgeted
    <3> QED
      BY <3>3, <3>4, <3>5, <2>1, <2>2, <1>3 DEF U, i
  <2> QED
    BY <2>3, <2>4
<1> QED
  BY <1>4, <1>5

\* InsertIntoEmpty puts a key that is not there into an empty slot.
LEMMA InsertIntoEmptyKeeps ==
  ASSUME setup \in Setups, NEW T, Sound(setup, T), NEW k \in Keys,
         \E i \in DOMAIN T.slots : T.slots[i] = Empty,
         k \notin KeysIn(setup, T)
  PROVE  \E i \in DOMAIN T.slots :
           /\ T.slots[i] = Empty
           /\ InsertIntoEmpty(T, k) = With(T, i, k, T.budget)
           /\ Sound(setup, InsertIntoEmpty(T, k))
           /\ PresentIn(setup, InsertIntoEmpty(T, k)) = PresentIn(setup, T) \cup {i}
           /\ i \notin PresentIn(setup, T)
           /\ KeysIn(setup, InsertIntoEmpty(T, k)) = KeysIn(setup, T) \cup {k}
           /\ NonEmpty(InsertIntoEmpty(T, k)) = NonEmpty(T) \cup {i}
<1> DEFINE ns == {m \in Probes(T) : Probed(T, k, m, Empty) # {}}
           n == Min(ns)
           i == Min(Probed(T, k, n, Empty))
<1>1. IsTable(setup, T)
  BY DEF Sound
<1>2. ns # {} /\ Probes(T) \subseteq Nat
  BY <1>1, SearchEnds
<1>3. n \in ns /\ \A m \in ns : n <= m
  <2>1. ns \in SUBSET Nat
    BY <1>2
  <2> HIDE DEF ns
  <2> QED
    BY <2>1, <1>2, MinLeast
<1>4. n \in Probes(T) /\ n \in Nat /\ Probed(T, k, n, Empty) # {}
  <2> HIDE DEF n
  <2> QED
    BY <1>2, <1>3
<1>5. i \in Probed(T, k, n, Empty)
  <2> HIDE DEF n
  <2> QED
    BY <1>1, <1>4, ProbedSlots, MinLeast
<1>6. InsertIntoEmpty(T, k) = With(T, i, k, T.budget)
  <2>1. InsertIntoEmpty(T, k) = [T EXCEPT !.slots[i] = k]
    BY DEF InsertIntoEmpty
  <2> HIDE DEF i
  <2> QED
    BY <2>1, <1>1, Write
<1> HIDE DEF n, i
<1>7. ASSUME NEW m \in 0..(n - 1) PROVE Match(T, Probe(setup.hash[k], T.alloc, m), Empty) = {}
  <2>1. m \in Nat /\ m < n
    BY <1>4
  <2>2. m \in Probes(T)
    BY <2>1, <1>4, <1>1, TableFacts, Groups DEF Probes, GroupCount
  <2>3. m \notin ns
    <3> HIDE DEF ns
    <3> QED
      BY <2>1, <1>3, <1>4
  <2> QED
    BY <2>2, <2>3 DEF Probed
<1>8. i \in DOMAIN T.slots /\ T.slots[i] = Empty /\ i \in Group(Probe(setup.hash[k], T.alloc, n))
  BY <1>1, <1>4, <1>5, ProbedSlots, TableFacts DEF Probed, Match
<1>9. T.budget \in Int /\ Empty \in {Empty, Deleted}
  BY <1>1 DEF IsTable
<1>10. /\ Sound(setup, With(T, i, k, T.budget))
       /\ PresentIn(setup, With(T, i, k, T.budget)) = PresentIn(setup, T) \cup {i}
       /\ i \notin PresentIn(setup, T)
       /\ KeysIn(setup, With(T, i, k, T.budget)) = KeysIn(setup, T) \cup {k}
       /\ NonEmpty(With(T, i, k, T.budget)) = NonEmpty(T) \cup {i}
  BY <1>4, <1>7, <1>8, <1>9, PutKey DEF Keys
<1> QED
  BY <1>6, <1>8, <1>10
----------------------------------------------------------------------------
(* Growing                                                                  *)

Storage(s, size) == IF size = s.small THEN "small" ELSE "heap"

\* A table without entries.
LEMMA Blank ==
  ASSUME NEW s \in Setups, NEW size \in Nat, IsPowerOf2(size), LeastSize(s) <= size,
         NEW b \in Int, NEW U,
         U = [alloc |-> size, budget |-> b, storage |-> Storage(s, size),
              slots |-> EmptySlots(size)]
  PROVE  /\ Sound(s, U) /\ U.alloc = size /\ U.budget = b /\ U.storage = Storage(s, size)
         /\ PresentIn(s, U) = {} /\ KeysIn(s, U) = {} /\ NonEmpty(U) = {}
         /\ \A i \in DOMAIN U.slots : U.slots[i] # Deleted
<1>1. /\ U.alloc = size /\ U.budget = b /\ U.storage = Storage(s, size)
      /\ U.slots = EmptySlots(size)
      /\ U = [alloc |-> U.alloc, budget |-> U.budget, storage |-> U.storage, slots |-> U.slots]
  OBVIOUS
<1>2. DOMAIN U.slots = 0..(size - 1) /\ \A i \in 0..(size - 1) : U.slots[i] = Empty
  BY <1>1 DEF EmptySlots
<1>3. U.slots \in [0..(size - 1) -> {Empty, Deleted} \cup DOMAIN s.hash]
  BY <1>1 DEF EmptySlots
<1>4. IsTable(s, U)
  BY <1>1, <1>3 DEF IsTable, Storage
<1>5. PresentIn(s, U) = {} /\ NonEmpty(U) = {}
  BY <1>2, SetupFacts DEF PresentIn, NonEmpty
<1>6. KeysIn(s, U) = {} /\ Reached(s, U) /\ Distinct(s, U)
  BY <1>5 DEF KeysIn, KeysAt, Reached, Distinct
<1> QED
  BY <1>1, <1>2, <1>4, <1>5, <1>6, SetupFacts DEF Sound

\* Twice the size.
LEMMA Doubled ==
  ASSUME NEW size, Sized(size)
  PROVE  /\ Sized(2 * size) /\ size < 2 * size
         /\ GroupCount(2 * size) = 2 * GroupCount(size)
<1>1. /\ size \in Nat /\ size > 0 /\ GroupCount(size) \in Nat
      /\ size = GroupSize * GroupCount(size)
  BY Groups
<1>2. Sized(2 * size) /\ size < 2 * size
  <2>1. IsPowerOf2(2 * size)
    BY <1>1, Double DEF Sized
  <2>2. GroupSize <= size /\ GroupSize <= 2 * size /\ 2 * size \in Nat /\ size < 2 * size
    BY <1>1, GroupSizeType DEF Sized
  <2> QED
    BY <2>1, <2>2 DEF Sized
<1>3. 2 * size = GroupSize * (2 * GroupCount(size)) + 0
  BY <1>1, GroupSizeType
<1>4. (2 * size) \div GroupSize = 2 * GroupCount(size)
  BY <1>1, <1>3, GroupSizeType, DivisionUnique
<1> QED
  BY <1>2, <1>4 DEF GroupCount

\* With one bit more of its hash an entry in its first group is still in it,
\* or as far up in the higher half.
LEMMA Halves ==
  ASSUME NEW size, Sized(size), NEW h \in Nat, NEW j \in 0..(size - 1),
         Masked(h, size) = Masked(j, size)
  PROVE  /\ \/ Masked(h, 2 * size) = Masked(j, 2 * size)
            \/ Masked(h, 2 * size) = Masked(j + size, 2 * size)
         /\ Masked(j, 2 * size) # Masked(j + size, 2 * size)
<1> DEFINE m == GroupCount(size)
           c == h \div GroupSize
           d == j \div GroupSize
<1>1. /\ size \in Nat /\ size > 0 /\ m \in Nat /\ m > 0 /\ size = GroupSize * m
      /\ GroupCount(2 * size) = 2 * m /\ Sized(2 * size)
  BY Groups, Doubled
<1>2. c \in Nat /\ d \in Nat
  BY <1>1, GroupSizeType, Division
<1>3. d < m
  <2>1. j \in Int /\ j >= 0 /\ j < size
    BY <1>1
  <2>2. j >= GroupSize * d
    <3>1. j \in Int /\ j = GroupSize * d + (j % GroupSize) /\ j % GroupSize >= 0
          /\ j % GroupSize \in Int
      BY <2>1, GroupSizeType, Division
    <3> HIDE DEF d
    <3> QED
      BY <3>1, <1>2, GroupSizeType
  <2> HIDE DEF d, m
  <2>3. ASSUME d >= m PROVE GroupSize * d >= GroupSize * m
    BY <2>3, <1>1, <1>2, GroupSizeType
  <2> QED
    BY <2>1, <2>2, <2>3, <1>1, <1>2, GroupSizeType
<1>4. Masked(h, size) = GroupSize * (c % m) /\ Masked(j, size) = GroupSize * (d % m)
      /\ Masked(h, 2 * size) = GroupSize * (c % (2 * m))
      /\ Masked(j, 2 * size) = GroupSize * (d % (2 * m))
  BY <1>1 DEF Masked, GroupCount
<1>5. Masked(j + size, 2 * size) = GroupSize * ((d + m) % (2 * m))
  <2>1. j \in Nat /\ j + size = j + GroupSize * m
    BY <1>1
  <2> QED
    BY <2>1, <1>1, MaskedSum
<1> HIDE DEF m, c, d
<1>6. d % m = d /\ d % (2 * m) = d /\ (d + m) % (2 * m) = d + m
  <2>1. d = m * 0 + d /\ d = (2 * m) * 0 + d /\ d + m = (2 * m) * 0 + (d + m)
    BY <1>1, <1>2
  <2>2. 2 * m \in Nat /\ 2 * m > 0 /\ d + m < 2 * m /\ d < 2 * m /\ d + m \in Int
    BY <1>1, <1>2, <1>3
  <2> QED
    BY <2>1, <2>2, <1>1, <1>2, <1>3, DivisionUnique
<1>7. c % m = d
  <2>1. GroupSize * (c % m) = GroupSize * d /\ c % m \in Int
    BY <1>1, <1>2, <1>4, <1>6, Division
  <2> QED
    BY <2>1, <1>2, GroupSizeType
<1>8. c % (2 * m) = d \/ c % (2 * m) = d + m
  <2> DEFINE q == c \div m
  <2>1. q \in Int /\ c = m * q + d
    BY <1>1, <1>2, <1>7, Division
  <2> HIDE DEF q
  <2>2. CASE q % 2 = 0
    <3>1. PICK p \in Int : q = 2 * p
      BY <2>1, <2>2, Even
    <3>2. c = (2 * m) * p + d
      BY <2>1, <3>1, <1>1, <1>2
    <3>3. PICK w \in Nat : w = 2 * m /\ w > 0 /\ d < w
      BY <1>1, <1>2, <1>3
    <3>4. c = w * p + d /\ c \in Int /\ d \in Int /\ d >= 0
      BY <3>2, <3>3, <1>2
    <3>5. c % w = d
      BY <3>3, <3>4, DivisionUnique
    <3> QED
      BY <3>3, <3>5
  <2>3. CASE q % 2 = 1
    <3>1. PICK p \in Int : q = 2 * p + 1
      BY <2>1, <2>3, Even
    <3>2. c = (2 * m) * p + (d + m)
      BY <2>1, <3>1, <1>1, <1>2
    <3>3. PICK w \in Nat : w = 2 * m /\ w > 0 /\ d + m < w
      BY <1>1, <1>2, <1>3
    <3>4. c = w * p + (d + m) /\ c \in Int /\ d + m \in Int /\ d + m >= 0
      BY <3>2, <3>3, <1>1, <1>2
    <3>5. c % w = d + m
      BY <3>3, <3>4, DivisionUnique
    <3> QED
      BY <3>3, <3>5
  <2> QED
    BY <2>1, <2>2, <2>3, Even
<1>9. GroupSize * d # GroupSize * (d + m)
  BY <1>1, <1>2, GroupSizeType
<1> QED
  BY <1>4, <1>5, <1>6, <1>8, <1>9

\* A slot of the larger table is a slot of the smaller one, or above it.
LEMMA Folded ==
  ASSUME NEW size \in Nat, size > 0, NEW i \in 0..(2 * size - 1)
  PROVE  /\ i % size \in 0..(size - 1)
         /\ i = i % size \/ i = (i % size) + size
<1>1. i \in Nat /\ i < 2 * size
  OBVIOUS
<1>2. CASE i < size
  <2>1. i = size * 0 + i
    BY <1>1
  <2>2. i % size = i
    BY <2>1, <1>1, <1>2, DivisionUnique
  <2> QED
    BY <2>2, <1>1, <1>2
<1>3. CASE i >= size
  <2>1. i = size * 1 + (i - size) /\ i - size \in Int /\ i - size >= 0 /\ i - size < size
    BY <1>1, <1>3
  <2>2. i % size = i - size
    BY <2>1, <1>1, DivisionUnique
  <2> QED
    BY <2>2, <1>1, <1>3
<1> QED
  BY <1>1, <1>2, <1>3

\* The entries that stay at their index when the size doubles.
LEMMA KeptSound ==
  ASSUME setup \in Setups, NEW T, Sound(setup, T), NEW b \in Int, NEW U,
         U = [alloc |-> 2 * T.alloc, budget |-> b, storage |-> "heap", slots |-> Kept(T)],
         NEW home, home = {i \in PresentIn(setup, T) : AtHome(T, i)}
  PROVE  /\ Sound(setup, U)
         /\ U.alloc = 2 * T.alloc /\ U.budget = b /\ U.storage = "heap"
         /\ \A i \in DOMAIN U.slots : U.slots[i] # Deleted
         /\ Cardinality(PresentIn(setup, U)) = Cardinality(home)
         /\ KeysIn(setup, U) = KeysAt(T, home)
<1> DEFINE A == T.alloc
           H(j) == setup.hash[T.slots[j]]
<1>1. /\ IsTable(setup, T) /\ Sized(A) /\ A \in Nat /\ A > 0 /\ A >= setup.small
      /\ DOMAIN T.slots = 0..(A - 1) /\ IsFiniteSet(PresentIn(setup, T))
      /\ setup.small \in Nat
  BY TableFacts, SetupFacts DEF Sound
<1>2. Sized(2 * A) /\ A < 2 * A /\ GroupCount(2 * A) = 2 * GroupCount(A)
  BY <1>1, Doubled
<1>3. /\ U.alloc = 2 * A /\ U.budget = b /\ U.storage = "heap" /\ U.slots = Kept(T)
      /\ U = [alloc |-> U.alloc, budget |-> U.budget, storage |-> U.storage, slots |-> U.slots]
  OBVIOUS
<1>4. PresentSlots(T) = PresentIn(setup, T)
  BY DEF PresentSlots, PresentIn, Keys
<1>5. \A i : Keeps(T, i) <=> i % A \in home /\ Masked(H(i % A), 2 * A) = Masked(i, 2 * A)
  BY <1>4 DEF Keeps
<1>6. /\ DOMAIN U.slots = 0..(2 * A - 1)
      /\ \A i \in 0..(2 * A - 1) : U.slots[i] = IF Keeps(T, i) THEN T.slots[i % A] ELSE Empty
  BY <1>3 DEF Kept
<1>7. \A j \in home : /\ j \in 0..(A - 1) /\ T.slots[j] \in DOMAIN setup.hash /\ H(j) \in Nat
                      /\ Masked(H(j), A) = Masked(j, A) /\ j \in PresentIn(setup, T)
  BY <1>1, SetupFacts DEF AtHome, PresentIn
<1> HIDE DEF A, H
<1>8. U.slots \in [0..(2 * A - 1) -> {Empty, Deleted} \cup DOMAIN setup.hash]
  <2>1. U.slots = [i \in 0..(2 * A - 1) |-> U.slots[i]]
    BY <1>3 DEF Kept, A
  <2>2. \A i \in 0..(2 * A - 1) : U.slots[i] \in {Empty, Deleted} \cup DOMAIN setup.hash
    BY <1>5, <1>6, <1>7
  <2> QED
    BY <2>1, <2>2
<1>9. IsTable(setup, U)
  <2>1. U.alloc # setup.small
    BY <1>1, <1>2, <1>3
  <2>2. U.alloc \in Nat /\ IsPowerOf2(U.alloc)
    BY <1>2, <1>3 DEF Sized
  <2>3. LeastSize(setup) <= U.alloc
    <3>1. LeastSize(setup) \in Nat /\ LeastSize(setup) <= A
      BY <1>1, SetupFacts DEF IsTable, Sized, A
    <3> QED
      BY <3>1, <1>1, <1>2, <1>3
  <2>4. U.slots \in [0..(U.alloc - 1) -> {Empty, Deleted} \cup DOMAIN setup.hash]
    BY <1>3, <1>8
  <2> QED
    BY <2>1, <2>2, <2>3, <2>4, <1>3 DEF IsTable
<1>10. \A i \in 0..(2 * A - 1) :
         /\ U.slots[i] # Deleted
         /\ U.slots[i] \in DOMAIN setup.hash <=> Keeps(T, i)
  BY <1>5, <1>6, <1>7, SetupFacts
<1>11. \A i : i \in PresentIn(setup, U) <=> i \in 0..(2 * A - 1) /\ Keeps(T, i)
  BY <1>6, <1>10 DEF PresentIn
<1>12. \A i \in PresentIn(setup, U) :
         /\ i \in 0..(2 * A - 1) /\ i % A \in home /\ U.slots[i] = T.slots[i % A]
         /\ Masked(H(i % A), 2 * A) = Masked(i, 2 * A)
  BY <1>5, <1>6, <1>11
<1>13. ASSUME NEW i \in PresentIn(setup, U), NEW j \in PresentIn(setup, U), i % A = j % A
       PROVE  i = j
  <2>1. PICK e : e = i % A
    OBVIOUS
  <2>2. (i = e \/ i = e + A) /\ (j = e \/ j = e + A)
    <3>1. i = i % A \/ i = (i % A) + A
      BY <1>1, <1>12, Folded
    <3>2. j = j % A \/ j = (j % A) + A
      BY <1>1, <1>12, Folded
    <3> QED
      BY <3>1, <3>2, <2>1, <1>13
  <2>3. Masked(i, 2 * A) = Masked(j, 2 * A) /\ e \in home
    BY <2>1, <1>12, <1>13
  <2>4. Masked(e, 2 * A) # Masked(e + A, 2 * A)
    BY <2>3, <1>1, <1>7, Halves
  <2> QED
    BY <2>2, <2>3, <2>4
<1>14. ASSUME NEW j \in home PROVE \E i \in PresentIn(setup, U) : i % A = j
  <2>1. j \in 0..(A - 1) /\ H(j) \in Nat /\ Masked(H(j), A) = Masked(j, A)
    BY <1>7
  <2>2. Masked(H(j), 2 * A) = Masked(j, 2 * A) \/ Masked(H(j), 2 * A) = Masked(j + A, 2 * A)
    BY <2>1, <1>1, Halves
  <2>3. j \in Nat /\ j % A = j /\ (j + A) % A = j
    <3>1. j \in Int /\ j >= 0 /\ j < A /\ j = A * 0 + j /\ j + A = A * 1 + j /\ j + A \in Int
      BY <2>1, <1>1
    <3>2. j % A = j
      BY <3>1, <1>1, DivisionUnique
    <3>3. PICK z \in Int : z = j + A
      BY <3>1
    <3>4. z % A = j
      <4>1. z = A * 1 + j /\ 1 \in Int
        BY <3>1, <3>3
      <4> QED
        BY <4>1, <3>1, <1>1, DivisionUnique
    <3> QED
      BY <3>1, <3>2, <3>3, <3>4
  <2>4. j \in 0..(2 * A - 1) /\ j + A \in 0..(2 * A - 1)
    BY <2>1, <1>1
  <2>5. CASE Masked(H(j), 2 * A) = Masked(j, 2 * A)
    BY <2>5, <2>3, <2>4, <1>5, <1>11, <1>14
  <2>6. CASE Masked(H(j), 2 * A) = Masked(j + A, 2 * A)
    BY <2>6, <2>3, <2>4, <1>5, <1>11, <1>14
  <2> QED
    BY <2>2, <2>5, <2>6
<1>15. Distinct(setup, U)
  <2>1. ASSUME NEW i \in PresentIn(setup, U), NEW j \in PresentIn(setup, U),
               U.slots[i] = U.slots[j]
        PROVE  i = j
    <3>1. i % A \in PresentIn(setup, T) /\ j % A \in PresentIn(setup, T)
          /\ T.slots[i % A] = T.slots[j % A]
      BY <2>1, <1>7, <1>12
    <3>2. i % A = j % A
      BY <3>1 DEF Sound, Distinct
    <3> QED
      BY <3>2, <1>13
  <2> QED
    BY <2>1 DEF Distinct
<1>16. Reached(setup, U)
  <2>1. ASSUME NEW i \in PresentIn(setup, U) PROVE 0 \in Probes(U) /\ ReachedBy(setup, U, i, 0)
    <3>1. 0 \in Probes(U)
      BY <1>2, <1>3, Groups DEF Probes, GroupCount
    <3>2. setup.hash[U.slots[i]] = H(i % A) /\ H(i % A) \in Nat
      BY <1>7, <1>12 DEF H
    <3>3. Probe(H(i % A), 2 * A, 0) = Masked(H(i % A), 2 * A)
      BY <3>2, <1>2, ProbeIsQuadratic
    <3>4. i \in Group(Masked(i, 2 * A))
      BY <1>2, <1>12, OwnGroup
    <3>5. i \in Group(Probe(setup.hash[U.slots[i]], U.alloc, 0))
      BY <3>2, <3>3, <3>4, <1>3, <1>12
    <3> QED
      BY <3>1, <3>5 DEF ReachedBy
  <2> QED
    BY <2>1 DEF Reached
<1>17. KeysIn(setup, U) = KeysAt(T, home)
  <2>1. ASSUME NEW x \in KeysIn(setup, U) PROVE x \in KeysAt(T, home)
    BY <1>12 DEF KeysIn, KeysAt
  <2>2. ASSUME NEW x \in KeysAt(T, home) PROVE x \in KeysIn(setup, U)
    <3>1. PICK j \in home : x = T.slots[j]
      BY <2>2 DEF KeysAt
    <3>2. PICK i \in PresentIn(setup, U) : i % A = j
      BY <1>14
    <3>3. U.slots[i] = x
      BY <3>1, <3>2, <1>12
    <3> QED
      BY <3>3 DEF KeysIn, KeysAt
  <2> QED
    BY <2>1, <2>2
<1>18. Cardinality(PresentIn(setup, U)) = Cardinality(home)
  <2> DEFINE P == PresentIn(setup, U)
             f == [i \in P |-> i % A]
  <2>1. f \in Injection(P, home)
    BY <1>12, <1>13 DEF Injection, IsInjective
  <2>2. f \in Surjection(P, home)
    BY <1>12, <1>14 DEF Surjection
  <2>3. ExistsBijection(P, home)
    BY <2>1, <2>2 DEF ExistsBijection, Bijection
  <2>4. IsFiniteSet(P)
    BY <1>9, TableFacts
  <2> QED
    BY <2>3, <2>4, FS_Bijection
<1> QED
  BY <1>3, <1>6, <1>9, <1>10, <1>15, <1>16, <1>17, <1>18 DEF Sound, A

\* The keys in different slots are different.
LEMMA KeysApart ==
  ASSUME NEW s, NEW T, Distinct(s, T), NEW X \in SUBSET PresentIn(s, T),
         NEW Y \in SUBSET PresentIn(s, T), X \cap Y = {}
  PROVE  /\ KeysAt(T, X) \cap KeysAt(T, Y) = {}
         /\ KeysAt(T, X \cup Y) = KeysAt(T, X) \cup KeysAt(T, Y)
<1>1. KeysAt(T, X) \cap KeysAt(T, Y) = {}
  BY DEF KeysAt, Distinct
<1>2. KeysAt(T, X \cup Y) = KeysAt(T, X) \cup KeysAt(T, Y)
  BY DEF KeysAt
<1> QED
  BY <1>1, <1>2

\* A table takes some of its entries with it and leaves the rest.
LEMMA TakesEntries ==
  ASSUME NEW s \in Setups, NEW T, Sound(s, T), Budgeted(T), NEW U, Sound(s, U),
         T.alloc < U.alloc, U.budget = GrowthThresholdForAllocSize(U.alloc),
         \A i \in DOMAIN U.slots : U.slots[i] # Deleted,
         NEW home, NEW rest, home \cup rest = PresentIn(s, T), home \cap rest = {},
         Cardinality(PresentIn(s, U)) = Cardinality(home), KeysIn(s, U) = KeysAt(T, home),
         NEW ks \in SUBSET DOMAIN s.hash, ks \cap KeysIn(s, T) = {},
         ks = {} \/ \E k \in ks : ks = {k}, NEW r \in Nat,
         r + Cardinality(PresentIn(s, T)) + Cardinality(ks)
           <= GrowthThresholdForAllocSize(U.alloc)
  PROVE  Moving(s, U, T, rest, ks, KeysIn(s, T) \cup ks, r)
<1>1. IsFiniteSet(PresentIn(s, T)) /\ Distinct(s, T)
  BY TableFacts DEF Sound
<1>2. home \in SUBSET PresentIn(s, T) /\ rest \in SUBSET PresentIn(s, T)
  OBVIOUS
<1>3. Cardinality(home) + Cardinality(rest) = Cardinality(PresentIn(s, T))
  <2>1. IsFiniteSet(home) /\ IsFiniteSet(rest)
    BY <1>1, <1>2, FS_Subset
  <2>2. Cardinality(home) \in Nat /\ Cardinality(rest) \in Nat
    BY <2>1, FS_CardinalityType
  <2>3. Cardinality(home \cup rest)
          = Cardinality(home) + Cardinality(rest) - Cardinality(home \cap rest)
    BY <2>1, FS_Union
  <2>4. Cardinality(home \cap rest) = 0
    BY FS_EmptySet
  <2>5. Cardinality(home \cup rest) = Cardinality(PresentIn(s, T))
    BY Zenon
  <2> QED
    BY <2>2, <2>3, <2>4, <2>5
<1>4. /\ KeysAt(T, home) \cap KeysAt(T, rest) = {}
      /\ KeysAt(T, home \cup rest) = KeysAt(T, home) \cup KeysAt(T, rest)
  <2>1. \A i \in home, j \in rest : i \in PresentIn(s, T) /\ j \in PresentIn(s, T) /\ i # j
    BY <1>2
  <2>2. \A i \in home, j \in rest : T.slots[i] # T.slots[j]
    BY <2>1, <1>1 DEF Distinct
  <2> QED
    BY <2>2 DEF KeysAt
<1>5. KeysIn(s, T) = KeysAt(T, home) \cup KeysAt(T, rest)
  BY <1>4 DEF KeysIn
<1> QED
  BY <1>2, <1>3, <1>4, <1>5 DEF Moving

\* Growing starts that way.
LEMMA StartsMoving ==
  ASSUME setup \in Setups, NEW T, Sound(setup, T), Budgeted(T),
         NEW size \in Nat, IsPowerOf2(size), T.alloc < size, NEW U,
         U = [alloc |-> size, budget |-> GrowthThresholdForAllocSize(size), storage |-> "heap",
              slots |-> IF size = 2 * T.alloc THEN Kept(T) ELSE EmptySlots(size)],
         NEW rest, rest = {i \in PresentSlots(T) : size = 2 * T.alloc => ~AtHome(T, i)},
         NEW ks \in SUBSET Keys, ks \cap KeysIn(setup, T) = {}, ks = {} \/ \E k \in ks : ks = {k},
         NEW r \in Nat,
         r + Cardinality(PresentIn(setup, T)) + Cardinality(ks)
           <= GrowthThresholdForAllocSize(size)
  PROVE  /\ Moving(setup, U, T, rest, ks, KeysIn(setup, T) \cup ks, r)
         /\ U.storage = "heap"
<1> DEFINE b == GrowthThresholdForAllocSize(size)
<1>1. /\ IsTable(setup, T) /\ T.alloc \in Nat /\ LoadDenominator <= T.alloc
      /\ T.alloc >= setup.small /\ setup.small \in Nat
      /\ LeastSize(setup) \in Nat /\ LeastSize(setup) <= T.alloc
  BY TableFacts, SetupFacts DEF Sound, IsTable, Sized
<1>2. b \in Nat /\ b \in Int /\ LeastSize(setup) <= size /\ size # setup.small
  BY <1>1, ThresholdBounds, SizesAssumption
<1>3. PresentSlots(T) = PresentIn(setup, T)
  BY DEF PresentSlots, PresentIn, Keys
<1>4. \E home :
        /\ Sound(setup, U) /\ U.alloc = size /\ U.budget = b
        /\ \A i \in DOMAIN U.slots : U.slots[i] # Deleted
        /\ home \cup rest = PresentIn(setup, T) /\ home \cap rest = {}
        /\ Cardinality(PresentIn(setup, U)) = Cardinality(home)
        /\ KeysIn(setup, U) = KeysAt(T, home)
  <2>1. CASE size = 2 * T.alloc
    <3> DEFINE home == {i \in PresentIn(setup, T) : AtHome(T, i)}
    <3>1. U = [alloc |-> 2 * T.alloc, budget |-> b, storage |-> "heap", slots |-> Kept(T)]
      BY <2>1
    <3>2. /\ Sound(setup, U) /\ U.alloc = 2 * T.alloc /\ U.budget = b
          /\ \A i \in DOMAIN U.slots : U.slots[i] # Deleted
          /\ Cardinality(PresentIn(setup, U)) = Cardinality(home)
          /\ KeysIn(setup, U) = KeysAt(T, home)
      BY <3>1, <1>2, KeptSound
    <3>3. home \cup rest = PresentIn(setup, T) /\ home \cap rest = {}
      BY <1>3, <2>1
    <3> HIDE DEF home, b
    <3> QED
      BY <3>2, <3>3, <2>1
  <2>2. CASE size # 2 * T.alloc
    <3>1. U = [alloc |-> size, budget |-> b, storage |-> Storage(setup, size),
               slots |-> EmptySlots(size)]
      BY <1>2, <2>2 DEF Storage
    <3>2. /\ Sound(setup, U) /\ U.alloc = size /\ U.budget = b
          /\ \A i \in DOMAIN U.slots : U.slots[i] # Deleted
          /\ PresentIn(setup, U) = {} /\ KeysIn(setup, U) = {}
      BY <3>1, <1>2, Blank
    <3>3. {} \cup rest = PresentIn(setup, T) /\ {} \cap rest = {}
      BY <1>3, <2>2
    <3>4. KeysAt(T, {}) = {}
      BY DEF KeysAt
    <3> HIDE DEF b
    <3>5. /\ Cardinality(PresentIn(setup, U)) = Cardinality({})
          /\ KeysIn(setup, U) = KeysAt(T, {})
      BY <3>2, <3>4
    <3> WITNESS {}
    <3> QED
      BY <3>2, <3>3, <3>5
  <2> QED
    BY <2>1, <2>2
<1>5. \A home : /\ home \cup rest = PresentIn(setup, T) /\ home \cap rest = {}
                /\ Cardinality(PresentIn(setup, U)) = Cardinality(home)
                /\ KeysIn(setup, U) = KeysAt(T, home)
                => Moving(setup, U, T, rest, ks, KeysIn(setup, T) \cup ks, r)
  BY <1>4, TakesEntries DEF Keys
<1> QED
  BY <1>4, <1>5

\* While it does there is room.
LEMMA MovingRoom ==
  ASSUME NEW s \in Setups, NEW T, NEW O, NEW rest, NEW ks, NEW c, NEW r,
         Moving(s, T, O, rest, ks, c, r)
  PROVE  /\ NonEmpty(T) = PresentIn(s, T)
         /\ Cardinality(PresentIn(s, T)) <= Cardinality(PresentIn(s, O))
         /\ Cardinality(PresentIn(s, O)) < GrowthThresholdForAllocSize(T.alloc)
         /\ \E i \in DOMAIN T.slots : T.slots[i] = Empty
         /\ IsFiniteSet(rest) /\ Cardinality(rest) \in Nat
<1>1. IsTable(s, T) /\ IsTable(s, O)
  BY DEF Moving, Sound
<1>2. /\ Cardinality(PresentIn(s, T)) \in Nat /\ Cardinality(NonEmpty(T)) \in Nat
      /\ T.alloc \in Nat /\ IsPowerOf2(T.alloc) /\ LoadDenominator <= T.alloc
  BY <1>1, TableFacts DEF Sized
<1>3. /\ Cardinality(PresentIn(s, O)) \in Nat /\ Cardinality(NonEmpty(O)) \in Nat
      /\ Cardinality(PresentIn(s, O)) <= Cardinality(NonEmpty(O))
      /\ O.alloc \in Nat /\ IsPowerOf2(O.alloc) /\ LoadDenominator <= O.alloc
      /\ IsFiniteSet(PresentIn(s, O))
  BY <1>1, TableFacts DEF Sized
<1>4. IsFiniteSet(rest) /\ Cardinality(rest) \in Nat
  BY <1>3, FS_Subset, FS_CardinalityType DEF Moving
<1>5. Cardinality(PresentIn(s, T)) <= Cardinality(PresentIn(s, O))
  BY <1>2, <1>3, <1>4 DEF Moving
<1>6. GrowthThresholdForAllocSize(O.alloc) < GrowthThresholdForAllocSize(T.alloc)
      /\ GrowthThresholdForAllocSize(O.alloc) \in Nat
      /\ GrowthThresholdForAllocSize(T.alloc) \in Nat
  BY <1>2, <1>3, ThresholdGrows, ThresholdBounds DEF Moving
<1>7. Cardinality(NonEmpty(O)) <= GrowthThresholdForAllocSize(O.alloc)
  BY <1>3, <1>6 DEF Moving, Budgeted
<1>8. Cardinality(PresentIn(s, O)) < GrowthThresholdForAllocSize(T.alloc)
  BY <1>3, <1>6, <1>7
<1>9. NonEmpty(T) = PresentIn(s, T)
  <2>1. \A i \in DOMAIN T.slots : T.slots[i] \in {Empty, Deleted} \cup DOMAIN s.hash
    BY <1>1 DEF IsTable
  <2> QED
    BY <2>1, SetupFacts DEF NonEmpty, PresentIn, Moving
<1>10. Cardinality(NonEmpty(T)) <= GrowthThresholdForAllocSize(T.alloc)
  BY <1>2, <1>3, <1>5, <1>6, <1>8, <1>9
<1> QED
  BY <1>1, <1>4, <1>5, <1>8, <1>9, <1>10, SomeEmpty

\* One of them is inserted again.
LEMMA MovesOne ==
  ASSUME setup \in Setups, NEW T, NEW O, NEW rest, NEW ks, NEW c, NEW r,
         Moving(setup, T, O, rest, ks, c, r), NEW i \in rest
  PROVE  /\ Moving(setup, InsertIntoEmpty(T, O.slots[i]), O, rest \ {i}, ks, c, r)
         /\ InsertIntoEmpty(T, O.slots[i]).storage = T.storage
         /\ Cardinality(PresentIn(setup, InsertIntoEmpty(T, O.slots[i])))
              = Cardinality(PresentIn(setup, T)) + 1
         /\ Cardinality(rest \ {i}) = Cardinality(rest) - 1
<1> DEFINE k == O.slots[i]
           U == InsertIntoEmpty(T, k)
<1>1. /\ Sound(setup, T) /\ Sound(setup, O) /\ IsTable(setup, T)
      /\ rest \subseteq PresentIn(setup, O)
      /\ KeysIn(setup, T) \cup KeysAt(O, rest) = KeysIn(setup, O)
      /\ KeysIn(setup, T) \cap KeysAt(O, rest) = {}
  BY DEF Moving, Sound
<1>2. k \in Keys /\ k \in KeysAt(O, rest)
  BY <1>1 DEF PresentIn, Keys, KeysAt
<1>3. k \notin KeysIn(setup, T)
  BY <1>1, <1>2
<1>4. /\ \E j \in DOMAIN T.slots : T.slots[j] = Empty
      /\ IsFiniteSet(rest) /\ Cardinality(rest) \in Nat
  BY MovingRoom
<1>5. PICK j \in DOMAIN T.slots :
        /\ T.slots[j] = Empty
        /\ U = With(T, j, k, T.budget)
        /\ Sound(setup, U)
        /\ PresentIn(setup, U) = PresentIn(setup, T) \cup {j}
        /\ j \notin PresentIn(setup, T)
        /\ KeysIn(setup, U) = KeysIn(setup, T) \cup {k}
  <2> HIDE DEF k
  <2> QED
    BY <1>1, <1>2, <1>3, <1>4, InsertIntoEmptyKeeps
<1> HIDE DEF U
<1>6. T.budget \in Int /\ k \in {Empty, Deleted} \cup DOMAIN setup.hash
  BY <1>1, <1>2 DEF IsTable, Keys
<1>7. /\ U.alloc = T.alloc /\ U.budget = T.budget /\ U.storage = T.storage
      /\ DOMAIN U.slots = DOMAIN T.slots /\ U.slots[j] = k
      /\ \A m \in DOMAIN T.slots : m # j => U.slots[m] = T.slots[m]
  <2> HIDE DEF k
  <2> QED
    BY <1>1, <1>5, <1>6, Written
<1>8. \A m \in DOMAIN U.slots : U.slots[m] # Deleted
  <2>1. k # Deleted
    BY <1>2, SetupFacts DEF Keys
  <2> QED
    BY <2>1, <1>7 DEF Moving
<1>9. Cardinality(PresentIn(setup, U)) = Cardinality(PresentIn(setup, T)) + 1
  BY <1>1, <1>5, TableFacts, FS_AddElement
<1>10. Cardinality(rest \ {i}) = Cardinality(rest) - 1
  BY <1>4, FS_RemoveElement
<1>11. Cardinality(PresentIn(setup, U)) + Cardinality(rest \ {i})
         = Cardinality(PresentIn(setup, O))
  <2>1. Cardinality(PresentIn(setup, T)) \in Nat
    BY <1>1, TableFacts
  <2> QED
    BY <2>1, <1>4, <1>9, <1>10 DEF Moving
<1>12. /\ KeysAt(O, rest \ {i}) \cap {k} = {}
       /\ KeysAt(O, rest) = KeysAt(O, rest \ {i}) \cup {k}
  <2>1. {i} \in SUBSET PresentIn(setup, O) /\ rest \ {i} \in SUBSET PresentIn(setup, O)
        /\ (rest \ {i}) \cap {i} = {} /\ rest = (rest \ {i}) \cup {i}
    BY <1>1
  <2>2. KeysAt(O, {i}) = {k}
    BY DEF KeysAt
  <2>3. /\ KeysAt(O, rest \ {i}) \cap KeysAt(O, {i}) = {}
        /\ KeysAt(O, (rest \ {i}) \cup {i}) = KeysAt(O, rest \ {i}) \cup KeysAt(O, {i})
    BY <2>1, <1>1, KeysApart DEF Sound
  <2> QED
    BY <2>1, <2>2, <2>3
<1> HIDE DEF k
<1>13. KeysIn(setup, U) \cup KeysAt(O, rest \ {i}) = KeysIn(setup, O)
  BY <1>1, <1>5, <1>12
<1>14. KeysIn(setup, U) \cap KeysAt(O, rest \ {i}) = {}
  BY <1>1, <1>5, <1>12
<1>15. rest \ {i} \subseteq PresentIn(setup, O)
  BY <1>1
<1>16. Moving(setup, U, O, rest \ {i}, ks, c, r)
  BY <1>1, <1>5, <1>7, <1>8, <1>11, <1>13, <1>14, <1>15 DEF Moving
<1> QED
  BY <1>7, <1>9, <1>10, <1>16 DEF U, k

\* All have moved: the budget is what the entries leave.
LEMMA MoveEnds ==
  ASSUME NEW s \in Setups, NEW T, NEW O, NEW ks, NEW c, NEW r \in Nat,
         Moving(s, T, O, {}, ks, c, r), NEW n, n = Cardinality(PresentIn(s, O)),
         NEW b \in Int, NEW U, U = Rebudgeted(T, b)
  PROVE  /\ Sound(s, U) /\ U.alloc = T.alloc /\ U.storage = T.storage /\ U.budget = b
         /\ U.slots = T.slots
         /\ PresentIn(s, U) = PresentIn(s, T) /\ NonEmpty(U) = PresentIn(s, T)
         /\ KeysIn(s, U) = KeysIn(s, O)
         /\ Cardinality(PresentIn(s, T)) = n /\ n \in Nat
         /\ T.budget = GrowthThresholdForAllocSize(T.alloc) /\ T.budget \in Int
         /\ T.budget - n > 0
         /\ r + n + Cardinality(ks) <= T.budget
         /\ IsTable(s, T)
<1>1. IsTable(s, T) /\ IsTable(s, O) /\ Sound(s, T)
  BY DEF Moving, Sound
<1>2. T.budget \in Int /\ n \in Nat /\ Cardinality(PresentIn(s, T)) \in Nat
  BY <1>1, TableFacts DEF IsTable
<1>3. NonEmpty(T) = PresentIn(s, T) /\ n < GrowthThresholdForAllocSize(T.alloc)
  BY MovingRoom
<1>4. Cardinality(PresentIn(s, T)) = n
  <2>1. Cardinality({}) = 0
    BY FS_EmptySet
  <2> QED
    BY <2>1, <1>2 DEF Moving
<1>5. KeysIn(s, T) = KeysIn(s, O)
  BY DEF Moving, KeysAt
<1>6. /\ U.alloc = T.alloc /\ U.storage = T.storage /\ U.budget = b /\ U.slots = T.slots
      /\ PresentIn(s, U) = PresentIn(s, T) /\ NonEmpty(U) = NonEmpty(T)
      /\ KeysIn(s, U) = KeysIn(s, T) /\ Sound(s, U)
  BY <1>1, Rebudget
<1>7. T.budget = GrowthThresholdForAllocSize(T.alloc) /\ r + n + Cardinality(ks) <= T.budget
  BY DEF Moving
<1>8. T.budget - n > 0
  BY <1>2, <1>3, <1>7
<1> QED
  BY <1>1, <1>2, <1>3, <1>4, <1>5, <1>6, <1>7, <1>8

\* The table is settled.
LEMMA MoveSettles ==
  ASSUME NEW s \in Setups, NEW T, NEW O, NEW c, NEW r \in Nat,
         Moving(s, T, O, {}, {}, c, r), NEW n, n = Cardinality(PresentIn(s, O)),
         NEW U, U = Rebudgeted(T, T.budget - n)
  PROVE  /\ Settled(s, U, c, r) /\ U.storage = T.storage
         /\ PresentIn(s, U) = PresentIn(s, T)
<1>1. T.budget \in Int /\ n \in Nat
  BY TableFacts DEF Moving, Sound, IsTable
<1>2. PICK b \in Int : b = T.budget - n
  BY <1>1
<1>3. /\ Sound(s, U) /\ U.alloc = T.alloc /\ U.storage = T.storage /\ U.budget = b
      /\ PresentIn(s, U) = PresentIn(s, T) /\ NonEmpty(U) = PresentIn(s, T)
      /\ KeysIn(s, U) = KeysIn(s, O)
      /\ Cardinality(PresentIn(s, T)) = n
      /\ T.budget = GrowthThresholdForAllocSize(T.alloc)
      /\ T.budget - n > 0
      /\ r + n + Cardinality({}) <= T.budget
  BY <1>2, MoveEnds
<1>4. Budgeted(U) /\ r <= U.budget
  <2>1. Cardinality({}) = 0
    BY FS_EmptySet
  <2>2. Cardinality(NonEmpty(U)) = n
    BY <1>3
  <2>3. U.budget = GrowthThresholdForAllocSize(U.alloc) - Cardinality(NonEmpty(U))
    BY <2>2, <1>2, <1>3
  <2> QED
    BY <2>1, <2>3, <1>1, <1>2, <1>3 DEF Budgeted
<1>5. KeysIn(s, U) = c
  BY <1>3 DEF Moving
<1> QED
  BY <1>3, <1>4, <1>5 DEF Settled

\* The budget that the entries of O, and one more, leave.
ChargedForOneMore(s, T, O, U) ==
  U = Rebudgeted(T, (T.budget - Cardinality(PresentIn(s, O))) - 1)

\* And the key that was to be inserted finds its budget.
LEMMA MoveInserts ==
  ASSUME setup \in Setups, NEW T, NEW O, NEW k, NEW c, NEW r \in Nat,
         Moving(setup, T, O, {}, {k}, c, r), NEW U, ChargedForOneMore(setup, T, O, U)
  PROVE  /\ Settled(setup, InsertIntoEmpty(U, k), c, r)
         /\ InsertIntoEmpty(U, k).storage = T.storage
         /\ Cardinality(PresentIn(setup, InsertIntoEmpty(U, k)))
              = Cardinality(PresentIn(setup, T)) + 1
<1> DEFINE V == InsertIntoEmpty(U, k)
<1>1. PICK n \in Nat : T.budget \in Int /\ n = Cardinality(PresentIn(setup, O))
  BY TableFacts DEF Moving, Sound, IsTable
<1>2. PICK b \in Int : b = (T.budget - n) - 1 /\ U = Rebudgeted(T, b)
  BY <1>1 DEF ChargedForOneMore
<1>3. /\ Sound(setup, U) /\ U.alloc = T.alloc /\ U.storage = T.storage /\ U.budget = b
      /\ U.slots = T.slots
      /\ PresentIn(setup, U) = PresentIn(setup, T) /\ NonEmpty(U) = PresentIn(setup, T)
      /\ KeysIn(setup, U) = KeysIn(setup, O)
      /\ Cardinality(PresentIn(setup, T)) = n
      /\ T.budget = GrowthThresholdForAllocSize(T.alloc)
      /\ T.budget - n > 0
      /\ r + n + Cardinality({k}) <= T.budget
  BY <1>1, <1>2, MoveEnds
<1>4. k \in Keys /\ k \notin KeysIn(setup, U)
  BY <1>3 DEF Moving, Keys
<1>5. \E i \in DOMAIN U.slots : U.slots[i] = Empty
  BY <1>3, MovingRoom
<1>6. PICK i \in DOMAIN U.slots :
        /\ U.slots[i] = Empty /\ V = With(U, i, k, U.budget) /\ Sound(setup, V)
        /\ PresentIn(setup, V) = PresentIn(setup, U) \cup {i}
        /\ i \notin PresentIn(setup, U)
        /\ KeysIn(setup, V) = KeysIn(setup, U) \cup {k}
        /\ NonEmpty(V) = NonEmpty(U) \cup {i}
  BY <1>3, <1>4, <1>5, InsertIntoEmptyKeeps
<1> HIDE DEF V
<1>7. V.alloc = U.alloc /\ V.budget = U.budget /\ V.storage = U.storage
  BY <1>6 DEF With
<1>8. /\ Cardinality(PresentIn(setup, V)) = n + 1
      /\ Cardinality(NonEmpty(V)) = n + 1
  <2>1. IsFiniteSet(PresentIn(setup, U)) /\ Cardinality(PresentIn(setup, U)) = n
    BY <1>3, TableFacts DEF Sound
  <2>2. Cardinality(PresentIn(setup, U) \cup {i}) = n + 1
    BY <2>1, <1>6, FS_AddElement
  <2>3. NonEmpty(V) = PresentIn(setup, U) \cup {i}
    BY <1>3, <1>6
  <2> QED
    BY <2>2, <2>3, <1>6
<1>9. Budgeted(V) /\ r <= V.budget
  <2>1. Cardinality({k}) = 1
    BY FS_Singleton
  <2>2. V.budget = (GrowthThresholdForAllocSize(V.alloc) - n) - 1
    BY <1>2, <1>3, <1>7
  <2>3. r + n + 1 <= T.budget
    BY <2>1, <1>3
  <2>4. GrowthThresholdForAllocSize(V.alloc) = T.budget
    BY <1>2, <1>3, <1>7
  <2> QED
    BY <2>2, <2>3, <2>4, <1>1, <1>8 DEF Budgeted
<1>10. KeysIn(setup, V) = c
  BY <1>3, <1>6 DEF Moving
<1> QED
  BY <1>3, <1>6, <1>7, <1>8, <1>9, <1>10 DEF Settled, V

\* The size that GrowForInsertCount chooses is larger and has room for as many.
LEMMA TargetRoom ==
  ASSUME setup \in Setups, NEW T, IsTable(setup, T), Budgeted(T),
         NEW count \in Nat, count >= T.budget, NEW size, size = TargetForInsertCount(T, count)
  PROVE  /\ size \in Nat /\ IsPowerOf2(size) /\ size > T.alloc
         /\ GrowthThresholdForAllocSize(size)
              > (GrowthThresholdForAllocSize(T.alloc) - T.budget) + count
         /\ count + Cardinality(PresentIn(setup, T)) <= GrowthThresholdForAllocSize(size)
<1> DEFINE D == LoadDenominator - 1
           used == GrowthThresholdForAllocSize(T.alloc) - T.budget
           needed == used + count
           a == needed \div D
           b == needed % D
<1>1. D \in Nat /\ D > 0 /\ LoadDenominator = D + 1 /\ LoadDenominator \in Nat
  BY SizesAssumption
<1>2. /\ T.alloc \in Nat /\ IsPowerOf2(T.alloc) /\ LoadDenominator <= T.alloc
      /\ Cardinality(NonEmpty(T)) \in Nat /\ Cardinality(PresentIn(setup, T)) \in Nat
      /\ Cardinality(PresentIn(setup, T)) <= Cardinality(NonEmpty(T))
      /\ T.budget \in Int
  BY TableFacts DEF IsTable
<1>3. PICK p \in Nat : /\ p > 0 /\ T.alloc = LoadDenominator * p
                       /\ GrowthThresholdForAllocSize(T.alloc) = LoadDenominator * p - p
  BY <1>2, Threshold
<1>4. /\ GrowthThresholdForAllocSize(T.alloc) \in Nat
      /\ used = Cardinality(NonEmpty(T)) /\ used \in Nat /\ needed \in Nat
      /\ needed >= GrowthThresholdForAllocSize(T.alloc)
      /\ count + Cardinality(PresentIn(setup, T)) <= needed
  <2>1. GrowthThresholdForAllocSize(T.alloc) \in Nat
    BY <1>2, ThresholdBounds
  <2> QED
    BY <2>1, <1>2 DEF Budgeted
<1>5. size = NextPowerOf2(needed + needed \div D)
  BY DEF TargetForInsertCount
<1> HIDE DEF used, needed, D
<1>6. /\ a \in Nat /\ b \in Int /\ b >= 0 /\ b < D /\ needed = D * a + b
  BY <1>1, <1>4, Division
<1> HIDE DEF a, b
<1>7. size \in Nat /\ IsPowerOf2(size) /\ size > needed + a
  <2>1. needed + a \in Nat /\ size = NextPowerOf2(needed + a)
    BY <1>4, <1>5, <1>6 DEF a
  <2> QED
    BY <2>1, NextPower
<1>8. LoadDenominator * p = D * p + p /\ D * p \in Nat /\ D * a \in Nat
  BY <1>1, <1>3, <1>6
<1>9. a >= p
  <2>1. ASSUME a + 1 <= p PROVE D * a + D <= D * p
    <3>1. D * (a + 1) <= D * p
      BY <2>1, <1>1, <1>3, <1>6
    <3> QED
      BY <3>1, <1>1, <1>6
  <2>2. ASSUME a + 1 <= p PROVE FALSE
    BY <2>1, <2>2, <1>1, <1>3, <1>4, <1>6, <1>8
  <2> QED
    BY <2>2, <1>3, <1>6
<1>10. size > T.alloc
  BY <1>2, <1>3, <1>4, <1>6, <1>7, <1>8, <1>9
<1>11. PICK q \in Nat : /\ q > 0 /\ size = LoadDenominator * q
                        /\ GrowthThresholdForAllocSize(size) = LoadDenominator * q - q
  BY <1>1, <1>2, <1>7, <1>10, Threshold
<1>12. LoadDenominator * q = D * q + q /\ D * q \in Nat
  BY <1>1, <1>11
<1>13. q >= a + 1
  <2>1. ASSUME q <= a PROVE D * q <= D * a
    BY <2>1, <1>1, <1>6, <1>11
  <2>2. ASSUME q <= a PROVE FALSE
    BY <2>1, <2>2, <1>6, <1>7, <1>8, <1>11, <1>12
  <2> QED
    BY <2>2, <1>6, <1>11
<1>14. D * q >= D * a + D
  <2>1. D * q >= D * (a + 1)
    BY <1>1, <1>6, <1>11, <1>13
  <2> QED
    BY <2>1, <1>1, <1>6
<1>15. GrowthThresholdForAllocSize(size) > needed
  BY <1>1, <1>4, <1>6, <1>8, <1>11, <1>12, <1>14
<1>16. GrowthThresholdForAllocSize(size) \in Nat
  BY <1>11, <1>12
<1>17. count + Cardinality(PresentIn(setup, T)) <= GrowthThresholdForAllocSize(size)
  BY <1>2, <1>4, <1>15, <1>16
<1> QED
  BY <1>7, <1>10, <1>15, <1>17 DEF needed, used
----------------------------------------------------------------------------
(* Destroying                                                               *)

\* A walk with an odd stride visits every group once.
LEMMA WalkVisits ==
  ASSUME NEW m \in Nat, IsPowerOf2(m), NEW a \in Nat, NEW d \in Nat, d % 2 = 1
  PROVE  /\ \A c \in 0..(m - 1) : \E n \in 0..(m - 1) : (a + n * d) % m = c
         /\ \A x, y \in 0..(m - 1) : (a + x * d) % m = (a + y * d) % m => x = y
<1> DEFINE f == [n \in 0..(m - 1) |-> (a + n * d) % m]
<1>1. m > 0
  BY DEF IsPowerOf2
<1>2. ASSUME NEW n \in 0..(m - 1)
      PROVE  a + n * d \in Int /\ n * d \in Nat /\ (a + n * d) % m \in 0..(m - 1)
  <2>1. n * d \in Nat /\ a + n * d \in Int
    OBVIOUS
  <2> QED
    BY <2>1, <1>1, Division
<1>3. ASSUME NEW x \in 0..(m - 1), NEW y \in 0..(m - 1), (a + x * d) % m = (a + y * d) % m
      PROVE  x = y
  <2>1. PICK q \in Int : (a + x * d) - (a + y * d) = m * q
    BY <1>1, <1>2, <1>3, SameRemainder
  <2>2. PICK z \in Int : z = x - y
    OBVIOUS
  <2>3. d * z = m * q /\ d * z \in Int
    BY <2>1, <2>2
  <2>4. (d * z) % m = 0
    BY <2>3, <1>1, Divisible
  <2>5. z % m = 0
    <3>1. d \in Int /\ z \in Int
      BY <2>2
    <3> QED
      BY <3>1, <2>4, OddFactor, Zenon
  <2>6. PICK p \in Int : z = m * p
    BY <2>2, <2>5, <1>1, Divisible
  <2>7. m * p < m /\ m * p > -m
    BY <2>2, <2>6
  <2>8. p = 0
    BY <2>7, SmallMultiple
  <2> QED
    BY <2>2, <2>6, <2>8
<1>4. f \in [0..(m - 1) -> 0..(m - 1)]
  BY <1>2
<1>5. \A x, y \in 0..(m - 1) : f[x] = f[y] => x = y
  BY <1>3
<1>6. \A e \in 0..(m - 1) : \E n \in 0..(m - 1) : f[n] = e
  <2> HIDE DEF f
  <2> QED
    BY <1>4, <1>5, Onto
<1> QED
  BY <1>3, <1>6

\* Pairs, one for every member of P, are as many.
LEMMA Tagged ==
  ASSUME NEW P, IsFiniteSet(P), NEW S,
         \A e \in S : \E n : \E i \in P : e = <<n, i>>,
         \A i \in P : \E n : <<n, i>> \in S,
         \A i \in P : \A n, m : <<n, i>> \in S /\ <<m, i>> \in S => n = m
  PROVE  Cardinality(S) = Cardinality(P)
<1> DEFINE f == [i \in P |-> <<CHOOSE n : <<n, i>> \in S, i>>]
<1>1. \A i \in P : f[i] \in S
  OBVIOUS
<1>2. \A e \in S : \E i \in P : f[i] = e
  <2>1. ASSUME NEW e \in S PROVE \E i \in P : f[i] = e
    <3>0. PICK i \in P : \E n : e = <<n, i>>
      OBVIOUS
    <3>1. PICK n : e = <<n, i>>
      BY <3>0
    <3>2. f[i] \in S /\ f[i] = <<CHOOSE x : <<x, i>> \in S, i>>
      BY <1>1
    <3>3. (CHOOSE x : <<x, i>> \in S) = n
      BY <3>1, <3>2
    <3> QED
      BY <3>1, <3>2, <3>3
  <2> QED
    BY <2>1
<1>3. \A i, j \in P : f[i] = f[j] => i = j
  OBVIOUS
<1>4. f \in [P -> S]
  BY <1>1
<1> HIDE DEF f
<1>5. f \in Bijection(P, S)
  BY <1>2, <1>3, <1>4 DEF Bijection, Injection, IsInjective, Surjection
<1>6. ExistsBijection(P, S)
  BY <1>5 DEF ExistsBijection
<1> QED
  BY <1>6, FS_Bijection

\* Every entry is destroyed once, whatever the order.
LEMMA DestroysAll ==
  ASSUME setup \in Setups, NEW T, T.alloc = 0 \/ IsTable(setup, T), NEW n \in DestroyEntries(T),
         T.alloc = 0 => PresentIn(setup, T) = {}
  PROVE  n = Cardinality(PresentIn(setup, T))
<1>1. CASE T.alloc = 0
  BY <1>1, FS_EmptySet DEF DestroyEntries
<1>2. CASE T.alloc # 0
  <2> DEFINE m == GroupCount(T.alloc)
             P == PresentIn(setup, T)
  <2>1. /\ IsTable(setup, T) /\ Sized(T.alloc) /\ DOMAIN T.slots = 0..(T.alloc - 1)
        /\ IsFiniteSet(P)
    BY <1>2, TableFacts
  <2>2. PICK walk \in Walks(T) :
          n = Cardinality(UNION {{j} \X EntriesImpl(T, walk, j) : j \in Probes(T)})
    BY <1>2 DEF DestroyEntries
  <2> DEFINE a == walk[1]
             d == walk[2]
             at(j) == (a + j * d) % m
  <2>3. m \in Nat /\ IsPowerOf2(m) /\ m > 0 /\ Probes(T) = 0..(m - 1)
    BY <2>1, Groups DEF Probes, GroupCount
  <2>4. a \in Nat /\ d \in Nat /\ d % 2 = 1
    BY <2>2, <2>3 DEF Walks, GroupCount
  <2> HIDE DEF m, a, d
  <2>5. ASSUME NEW j \in 0..(m - 1)
        PROVE  /\ Masked((walk[1] + j * walk[2]) * GroupSize, T.alloc) = GroupSize * at(j)
               /\ at(j) \in 0..(m - 1) /\ IsGroup(GroupSize * at(j), T.alloc)
    <3>1. PICK c \in Nat : c = a + j * d
      BY <2>3, <2>4
    <3>2. Masked(0 + GroupSize * c, T.alloc)
            = GroupSize * (((0 \div GroupSize) + c) % GroupCount(T.alloc))
      BY <2>1, MaskedSum
    <3>3. 0 \div GroupSize = 0 /\ 0 + GroupSize * c = c * GroupSize
      BY GroupSizeType
    <3>4. Masked(c * GroupSize, T.alloc) = GroupSize * (c % m)
      BY <3>2, <3>3, <2>3 DEF m
    <3>5. c % m \in 0..(m - 1)
      BY <2>3, Division
    <3> QED
      BY <3>1, <3>4, <3>5 DEF a, d, IsGroup, m
  <2> HIDE DEF at
  <2>6. ASSUME NEW j \in 0..(m - 1)
        PROVE  EntriesImpl(T, walk, j) = {i \in P : Masked(i, T.alloc) = GroupSize * at(j)}
    <3>1. PICK g : g = GroupSize * at(j) /\ IsGroup(g, T.alloc)
      BY <2>5
    <3>2. EntriesImpl(T, walk, j) = {i \in Group(g) : T.slots[i] \in DOMAIN setup.hash}
      BY <2>5, <3>1 DEF EntriesImpl, Keys
    <3>3. ASSUME NEW i \in Group(g), T.slots[i] \in DOMAIN setup.hash
          PROVE  i \in P /\ Masked(i, T.alloc) = g
      BY <3>1, <3>3, <2>1, InGroup DEF PresentIn
    <3>4. ASSUME NEW i \in P, Masked(i, T.alloc) = g
          PROVE  i \in Group(g) /\ T.slots[i] \in DOMAIN setup.hash
      BY <3>4, <2>1, OwnGroup DEF PresentIn
    <3> QED
      BY <3>1, <3>2, <3>3, <3>4
  <2>7. /\ \A c \in 0..(m - 1) : \E j \in 0..(m - 1) : at(j) = c
        /\ \A j, l \in 0..(m - 1) : at(j) = at(l) => j = l
    BY <2>3, <2>4, WalkVisits DEF at
  <2>8. ASSUME NEW i \in P PROVE \E j \in 0..(m - 1) : i \in EntriesImpl(T, walk, j)
    <3>1. IsGroup(Masked(i, T.alloc), T.alloc)
      BY <2>1, OwnGroup DEF PresentIn
    <3>2. PICK c \in 0..(m - 1) : Masked(i, T.alloc) = GroupSize * c
      BY <3>1 DEF IsGroup, m
    <3>3. PICK j \in 0..(m - 1) : at(j) = c
      BY <2>7
    <3> QED
      BY <3>2, <3>3, <2>6
  <2>9. ASSUME NEW j \in 0..(m - 1), NEW l \in 0..(m - 1), NEW i \in P,
               i \in EntriesImpl(T, walk, j), i \in EntriesImpl(T, walk, l)
        PROVE  j = l
    <3>1. GroupSize * at(j) = GroupSize * at(l)
      BY <2>6, <2>9
    <3>2. at(j) \in Nat /\ at(l) \in Nat
      BY <2>3, <2>5
    <3>3. at(j) = at(l)
      <4>1. PICK x \in Nat, y \in Nat : x = at(j) /\ y = at(l)
        BY <3>2
      <4>2. GroupSize * (x - y) = 0
        BY <3>1, <4>1, GroupSizeType
      <4>3. x - y = 0
        BY <4>2, GroupSizeType, SmallMultiple
      <4> QED
        BY <4>1, <4>3
    <3> QED
      BY <3>3, <2>7
  <2> DEFINE S == UNION {{j} \X EntriesImpl(T, walk, j) : j \in Probes(T)}
  <2>10. \A e : e \in S <=> \E j \in 0..(m - 1) : \E i \in EntriesImpl(T, walk, j) : e = <<j, i>>
    BY <2>3
  <2>11. \A j \in 0..(m - 1) : EntriesImpl(T, walk, j) \subseteq P
    BY <2>6
  <2> HIDE DEF S, P
  <2>12. \A e \in S : \E j : \E i \in P : e = <<j, i>>
    BY <2>10, <2>11
  <2>13. \A i \in P : \E j : <<j, i>> \in S
    BY <2>8, <2>10
  <2>14. \A i \in P : \A j, l : <<j, i>> \in S /\ <<l, i>> \in S => j = l
    BY <2>9, <2>10
  <2>15. Cardinality(S) = Cardinality(P)
    BY <2>1, <2>12, <2>13, <2>14, Tagged
  <2> QED
    BY <2>2, <2>15 DEF S, P
<1> QED
  BY <1>1, <1>2
----------------------------------------------------------------------------
(* Counting                                                                 *)

\* One table's share in the storages on the heap.
LEMMA HeapShare ==
  ASSUME NEW s \in Setups, NEW tab, NEW t \in s.tables
  PROVE  /\ IsFiniteSet(HeapTables(s, tab) \ {t})
         /\ Cardinality(HeapTables(s, tab) \ {t}) \in Nat
         /\ Cardinality(HeapTables(s, tab))
              = Cardinality(HeapTables(s, tab) \ {t}) + OnHeap(tab[t])
<1> DEFINE A == HeapTables(s, tab)
           B == A \ {t}
<1>1. IsFiniteSet(s.tables) /\ B \subseteq s.tables
  BY SetupFacts DEF HeapTables
<1>2. IsFiniteSet(B) /\ Cardinality(B) \in Nat
  BY <1>1, FS_Subset, FS_CardinalityType
<1>3. CASE tab[t].storage = "heap"
  <2>1. A = B \cup {t} /\ t \notin B
    BY <1>3 DEF HeapTables
  <2> HIDE DEF A, B
  <2>2. Cardinality(B \cup {t}) = Cardinality(B) + 1
    BY <2>1, <1>2, FS_AddElement
  <2>3. OnHeap(tab[t]) = 1
    BY <1>3 DEF OnHeap
  <2> QED
    BY <2>1, <2>2, <2>3, <1>2 DEF A, B
<1>4. CASE tab[t].storage # "heap"
  <2>1. A = B
    BY <1>4 DEF HeapTables
  <2>2. OnHeap(tab[t]) = 0
    BY <1>4 DEF OnHeap
  <2> QED
    BY <2>1, <2>2, <1>2
<1> QED
  BY <1>3, <1>4

\* Only t changes; all tables have finitely many entries.
OnlyAt(s, tab, new, t) == \A u \in s.tables \ {t} : new[u] = tab[u]
AllFinite(s, tab) == \A u \in s.tables : IsFiniteSet(PresentIn(s, tab[u]))

\* When one table changes, the storages on the heap change by its.
LEMMA HeapChange ==
  ASSUME NEW s \in Setups, NEW tab, NEW new, NEW t \in s.tables,
         OnlyAt(s, tab, new, t)
  PROVE  /\ Cardinality(HeapTables(s, tab)) \in Nat /\ Cardinality(HeapTables(s, new)) \in Nat
         /\ Cardinality(HeapTables(s, new))
              = Cardinality(HeapTables(s, tab)) - OnHeap(tab[t]) + OnHeap(new[t])
<1>1. HeapTables(s, new) \ {t} = HeapTables(s, tab) \ {t}
  BY DEF HeapTables, OnlyAt
<1>2. OnHeap(tab[t]) \in {0, 1} /\ OnHeap(new[t]) \in {0, 1}
  BY DEF OnHeap
<1>3. /\ Cardinality(HeapTables(s, tab) \ {t}) \in Nat
      /\ Cardinality(HeapTables(s, tab))
           = Cardinality(HeapTables(s, tab) \ {t}) + OnHeap(tab[t])
  BY HeapShare
<1>4. Cardinality(HeapTables(s, new))
           = Cardinality(HeapTables(s, new) \ {t}) + OnHeap(new[t])
  BY HeapShare
<1>5. Cardinality(HeapTables(s, new) \ {t}) = Cardinality(HeapTables(s, tab) \ {t})
  BY <1>1
<1> QED
  BY <1>2, <1>3, <1>4, <1>5

\* The entries of finitely many tables are finitely many.
LEMMA EntriesFinite ==
  ASSUME NEW s \in Setups, NEW tab, AllFinite(s, tab)
  PROVE  IsFiniteSet(Entries(s, tab)) /\ Cardinality(Entries(s, tab)) \in Nat
<1> DEFINE E == {{t} \X PresentIn(s, tab[t]) : t \in s.tables}
           f == [t \in s.tables |-> {t} \X PresentIn(s, tab[t])]
<1>1. f \in Surjection(s.tables, E)
  <2>1. f \in [s.tables -> E]
    OBVIOUS
  <2>2. \A e \in E : \E t \in s.tables : f[t] = e
    OBVIOUS
  <2> QED
    BY <2>1, <2>2 DEF Surjection
<1>2. IsFiniteSet(s.tables)
  BY SetupFacts
<1>3. ASSUME NEW e \in E PROVE IsFiniteSet(e)
  <2>1. PICK t \in s.tables : e = {t} \X PresentIn(s, tab[t])
    OBVIOUS
  <2>2. IsFiniteSet({t}) /\ IsFiniteSet(PresentIn(s, tab[t]))
    BY FS_Singleton DEF AllFinite
  <2> QED
    BY <2>1, <2>2, FS_Product
<1>4. Entries(s, tab) = UNION E
  BY DEF Entries
<1> HIDE DEF E, f
<1>5. IsFiniteSet(E)
  BY <1>1, <1>2, FS_Surjection
<1>6. IsFiniteSet(UNION E)
  BY <1>3, <1>5, FS_UNION
<1> QED
  BY <1>4, <1>6, FS_CardinalityType

\* One table's share in the entries.
LEMMA EntriesShare ==
  ASSUME NEW s \in Setups, NEW tab, NEW t \in s.tables, AllFinite(s, tab)
  PROVE  /\ Cardinality(Entries(s, tab) \ ({t} \X PresentIn(s, tab[t]))) \in Nat
         /\ Cardinality(PresentIn(s, tab[t])) \in Nat
         /\ Cardinality(Entries(s, tab))
              = Cardinality(Entries(s, tab) \ ({t} \X PresentIn(s, tab[t])))
                + Cardinality(PresentIn(s, tab[t]))
<1> DEFINE A == Entries(s, tab)
           P == PresentIn(s, tab[t])
           C == {t} \X P
<1>1. IsFiniteSet(A) /\ Cardinality(A) \in Nat
  BY EntriesFinite
<1>2. C \subseteq A
  BY DEF Entries
<1>3. IsFiniteSet(P) /\ Cardinality(P) \in Nat
  BY FS_CardinalityType DEF AllFinite
<1>4. Cardinality(C) = Cardinality(P)
  <2>1. \A e \in C : \E n : \E i \in P : e = <<n, i>>
    OBVIOUS
  <2>2. \A i \in P : \E n : <<n, i>> \in C
    OBVIOUS
  <2>3. \A i \in P : \A n, m : <<n, i>> \in C /\ <<m, i>> \in C => n = m
    OBVIOUS
  <2> HIDE DEF C, P
  <2> QED
    BY <2>1, <2>2, <2>3, <1>3, Tagged
<1> HIDE DEF A, C, P
<1>5. A \cap C = C
  BY <1>2
<1>6. IsFiniteSet(A \ C) /\ Cardinality(A \ C) = Cardinality(A) - Cardinality(A \cap C)
  BY <1>1, FS_Difference
<1>7. Cardinality(A \ C) \in Nat
  BY <1>6, FS_CardinalityType
<1>8. Cardinality(A \cap C) = Cardinality(P)
  BY <1>4, <1>5
<1>9. Cardinality(A) = Cardinality(A \ C) + Cardinality(P)
  BY <1>1, <1>3, <1>6, <1>7, <1>8
<1> QED
  BY <1>3, <1>7, <1>9 DEF A, C, P

\* When one table changes, the entries change by its.
LEMMA EntriesChange ==
  ASSUME NEW s \in Setups, NEW tab, NEW new, NEW t \in s.tables,
         OnlyAt(s, tab, new, t), AllFinite(s, tab), AllFinite(s, new)
  PROVE  /\ Cardinality(Entries(s, tab)) \in Nat /\ Cardinality(Entries(s, new)) \in Nat
         /\ Cardinality(PresentIn(s, tab[t])) \in Nat /\ Cardinality(PresentIn(s, new[t])) \in Nat
         /\ Cardinality(Entries(s, new))
              = Cardinality(Entries(s, tab)) - Cardinality(PresentIn(s, tab[t]))
                + Cardinality(PresentIn(s, new[t]))
<1> DEFINE B(f) == Entries(s, f) \ ({t} \X PresentIn(s, f[t]))
<1>2. \A f, e : e \in B(f)
                  <=> \E u \in s.tables \ {t} : \E i \in PresentIn(s, f[u]) : e = <<u, i>>
  BY DEF Entries
<1>3. \A u \in s.tables \ {t} : PresentIn(s, new[u]) = PresentIn(s, tab[u])
  BY DEF OnlyAt
<1>4. /\ Cardinality(B(tab)) \in Nat
      /\ Cardinality(PresentIn(s, tab[t])) \in Nat
      /\ Cardinality(Entries(s, tab))
           = Cardinality(B(tab)) + Cardinality(PresentIn(s, tab[t]))
  BY EntriesShare
<1>5. /\ Cardinality(PresentIn(s, new[t])) \in Nat
      /\ Cardinality(Entries(s, new))
           = Cardinality(B(new)) + Cardinality(PresentIn(s, new[t]))
  BY EntriesShare
<1> HIDE DEF B
<1>6. B(new) = B(tab)
  <2>1. \A e : e \in B(new) <=> e \in B(tab)
    BY <1>2, <1>3
  <2>2. B(new) \subseteq B(tab) /\ B(tab) \subseteq B(new)
    BY <2>1, Zenon
  <2> QED
    BY <2>2, Zenon
<1>7. Cardinality(B(new)) = Cardinality(B(tab))
  BY <1>6, Zenon
<1> QED
  BY <1>4, <1>5, <1>7
----------------------------------------------------------------------------
(* Every step keeps the invariant                                           *)

\* No object and one that was moved from have no entries and no storage.
LEMMA NoEntries ==
  ASSUME NEW s, NEW T \in {NoTable, MovedFrom}
  PROVE  /\ PresentIn(s, T) = {} /\ T.alloc = 0 /\ T.budget = 0 /\ OnHeap(T) = 0
         /\ T = [alloc |-> T.alloc, budget |-> T.budget, storage |-> T.storage, slots |-> T.slots]
         /\ T.slots = EmptySlots(0) /\ DOMAIN T.slots = {}
         /\ Cardinality(PresentIn(s, T)) = 0 /\ IsFiniteSet(PresentIn(s, T))
<1>1. /\ T.alloc = 0 /\ T.budget = 0 /\ OnHeap(T) = 0 /\ T.slots = EmptySlots(0)
      /\ T = [alloc |-> T.alloc, budget |-> T.budget, storage |-> T.storage, slots |-> T.slots]
  BY DEF NoTable, MovedFrom, OnHeap
<1>2. DOMAIN EmptySlots(0) = {}
  BY DEF EmptySlots
<1>3. PresentIn(s, T) = {}
  BY <1>1, <1>2 DEF PresentIn
<1> QED
  BY <1>1, <1>2, <1>3, FS_EmptySet

\* What a table between operations has.
LEMMA SettledFacts ==
  ASSUME setup \in Setups, NEW T, NEW c, NEW r, Settled(setup, T, c, r)
  PROVE  /\ T.alloc \in Nat /\ IsFiniteSet(PresentIn(setup, T))
         /\ Cardinality(PresentIn(setup, T)) \in Nat
         /\ T.alloc = 0 => T \in {NoTable, MovedFrom} /\ c = {}
         /\ T.alloc # 0 => /\ Sound(setup, T) /\ IsTable(setup, T) /\ Budgeted(T)
                           /\ KeysIn(setup, T) = c /\ r <= T.budget
         /\ Deallocated(T) = OnHeap(T) /\ Allocated(T) = OnHeap(T)
         /\ \A n \in DestroyEntries(T) : n = Cardinality(PresentIn(setup, T))
<1>1. CASE T \in {NoTable, MovedFrom} /\ c = {}
  <2>1. /\ PresentIn(setup, T) = {} /\ T.alloc = 0 /\ OnHeap(T) = 0
        /\ Cardinality(PresentIn(setup, T)) = 0 /\ IsFiniteSet(PresentIn(setup, T))
    BY <1>1, NoEntries
  <2>2. \A n \in DestroyEntries(T) : n = Cardinality(PresentIn(setup, T))
    BY <2>1 DEF DestroyEntries
  <2> QED
    BY <1>1, <2>1, <2>2 DEF Deallocated, Allocated
<1>2. CASE Sound(setup, T) /\ Budgeted(T) /\ KeysIn(setup, T) = c /\ r <= T.budget
  <2>1. IsTable(setup, T)
    BY <1>2 DEF Sound
  <2>2. /\ T.alloc \in Nat /\ T.alloc > 0 /\ IsFiniteSet(PresentIn(setup, T))
        /\ Cardinality(PresentIn(setup, T)) \in Nat
    BY <2>1, TableFacts
  <2>3. Deallocated(T) = OnHeap(T) /\ Allocated(T) = OnHeap(T)
    BY <2>1, <2>2 DEF Deallocated, Allocated, OnHeap, IsSmall, IsTable
  <2>4. \A n \in DestroyEntries(T) : n = Cardinality(PresentIn(setup, T))
    BY <2>1, <2>2, DestroysAll
  <2> QED
    BY <1>2, <2>1, <2>2, <2>3, <2>4
<1> QED
  BY <1>1, <1>2 DEF Settled

\* Every table has finitely many entries.
LEMMA TablesFinite ==
  ASSUME IInv
  PROVE  /\ \A t \in Tables : IsFiniteSet(PresentIn(setup, table[t]))
         /\ IsFiniteSet(left) /\ Cardinality(left) \in Nat
         /\ OnHeap(old) \in Nat
<1>1. setup \in Setups
  BY DEF IInv
<1>2. ASSUME NEW t \in Tables PROVE IsFiniteSet(PresentIn(setup, table[t]))
  <2>1. CASE t \in growing
    BY <1>1, <2>1, TableFacts DEF IInv, Moving, Sound
  <2>2. CASE t \notin growing
    BY <1>1, <2>2, SettledFacts DEF IInv
  <2> QED
    BY <2>1, <2>2
<1>3. IsFiniteSet(left) /\ Cardinality(left) \in Nat
  <2>1. CASE growing = {}
    BY <2>1, FS_EmptySet DEF IInv
  <2>2. CASE growing # {}
    <3>1. PICK t \in growing :
            Moving(setup, table[t], old, left, inserting, contents[t], reserved[t])
      BY <2>2 DEF IInv
    <3> QED
      BY <1>1, <3>1, MovingRoom
  <2> QED
    BY <2>1, <2>2
<1> QED
  BY <1>2, <1>3 DEF OnHeap

\* The storages on the heap, and the entries, after the change.
HeapAfter(h, T, O, U, P) == h - OnHeap(T) - OnHeap(O) + OnHeap(U) + OnHeap(P)
LiveAfter(s, l, T, rest, U, more) ==
  l - Cardinality(PresentIn(s, T)) - Cardinality(rest)
    + Cardinality(PresentIn(s, U)) + Cardinality(more)

\* They balance when they change by what one table's do.
LEMMA BalanceChange ==
  ASSUME NEW s \in Setups, NEW tab, NEW new, NEW t \in s.tables,
         OnlyAt(s, tab, new, t), AllFinite(s, tab), AllFinite(s, new),
         NEW O, NEW P, NEW rest, NEW more, NEW h, NEW l,
         Cardinality(rest) \in Nat, Cardinality(more) \in Nat,
         Balanced(s, tab, O, rest, h, l)
  PROVE  Balanced(s, new, P, more, HeapAfter(h, tab[t], O, new[t], P),
                                   LiveAfter(s, l, tab[t], rest, new[t], more))
<1>1. /\ Cardinality(HeapTables(s, tab)) \in Nat /\ Cardinality(HeapTables(s, new)) \in Nat
      /\ Cardinality(HeapTables(s, new))
           = Cardinality(HeapTables(s, tab)) - OnHeap(tab[t]) + OnHeap(new[t])
  BY HeapChange
<1>2. /\ Cardinality(Entries(s, tab)) \in Nat /\ Cardinality(Entries(s, new)) \in Nat
      /\ Cardinality(PresentIn(s, tab[t])) \in Nat /\ Cardinality(PresentIn(s, new[t])) \in Nat
      /\ Cardinality(Entries(s, new))
           = Cardinality(Entries(s, tab)) - Cardinality(PresentIn(s, tab[t]))
             + Cardinality(PresentIn(s, new[t]))
  BY EntriesChange, Zenon
<1>3. /\ OnHeap(tab[t]) \in {0, 1} /\ OnHeap(new[t]) \in {0, 1}
      /\ OnHeap(O) \in {0, 1} /\ OnHeap(P) \in {0, 1}
  BY DEF OnHeap
<1>4. /\ h = Cardinality(HeapTables(s, tab)) + OnHeap(O)
      /\ l = Cardinality(Entries(s, tab)) + Cardinality(rest)
  BY DEF Balanced
<1>5. HeapAfter(h, tab[t], O, new[t], P) = Cardinality(HeapTables(s, new)) + OnHeap(P)
  BY <1>1, <1>3, <1>4 DEF HeapAfter
<1>6. LiveAfter(s, l, tab[t], rest, new[t], more)
        = Cardinality(Entries(s, new)) + Cardinality(more)
  BY <1>2, <1>4 DEF LiveAfter
<1> QED
  BY <1>5, <1>6 DEF Balanced

\* A step that changes one table, and storages and entries by what it changes.
LEMMA OneTable ==
  ASSUME IInv, NEW t \in Tables, growing \subseteq {t}, UNCHANGED setup,
         IsMap(table', Tables),
         contents' \in [Tables -> SUBSET Keys], reserved' \in [Tables -> 0..MaxReserve],
         \A u \in Tables \ {t} : /\ table'[u] = table[u] /\ contents'[u] = contents[u]
                                 /\ reserved'[u] = reserved[u],
         \/ /\ growing' = {} /\ old' = NoTable /\ left' = {} /\ inserting' = {}
            /\ Settled(setup, table'[t], contents'[t], reserved'[t])
         \/ /\ growing' = {t}
            /\ Moving(setup, table'[t], old', left', inserting', contents'[t], reserved'[t]),
         heap' = HeapAfter(heap, table[t], old, table'[t], old'),
         live' = LiveAfter(setup, live, table[t], left, table'[t], left')
  PROVE  IInv'
<1>1. setup \in Setups /\ setup' = setup
  BY DEF IInv
<1>2. IsFiniteSet(PresentIn(setup, table'[t])) /\ Cardinality(left') \in Nat
  <2>1. CASE growing' = {}
    <3>1. left' = {} /\ Settled(setup, table'[t], contents'[t], reserved'[t])
      BY <2>1
    <3> QED
      BY <3>1, <1>1, SettledFacts, FS_EmptySet
  <2>2. CASE growing' = {t}
    <3>1. Moving(setup, table'[t], old', left', inserting', contents'[t], reserved'[t])
      BY <2>2
    <3>2. IsFiniteSet(PresentIn(setup, table'[t]))
      BY <3>1, <1>1, TableFacts DEF Moving, Sound
    <3> QED
      BY <3>1, <3>2, <1>1, MovingRoom
  <2> QED
    BY <2>1, <2>2
<1>3. /\ \A u \in Tables : IsFiniteSet(PresentIn(setup, table[u]))
      /\ Cardinality(left) \in Nat
  BY TablesFinite
<1>4. PICK new, O, rest, h, l :
        new = table' /\ O = old' /\ rest = left' /\ h = heap' /\ l = live'
  OBVIOUS
<1>5. /\ t \in setup.tables /\ OnlyAt(setup, table, new, t)
      /\ AllFinite(setup, table) /\ AllFinite(setup, new) /\ Cardinality(rest) \in Nat
  BY <1>2, <1>3, <1>4 DEF Tables, OnlyAt, AllFinite
<1>6. /\ h = HeapAfter(heap, table[t], old, new[t], O)
      /\ l = LiveAfter(setup, live, table[t], left, new[t], rest)
  BY <1>4
<1>7. Balanced(setup, table, old, left, heap, live)
  BY DEF IInv
<1>8. Balanced(setup, new, O, rest, HeapAfter(heap, table[t], old, new[t], O),
                                    LiveAfter(setup, live, table[t], left, new[t], rest))
  BY <1>1, <1>3, <1>5, <1>7, BalanceChange
<1>9. Balanced(setup, table', old', left', heap', live')
  BY <1>4, <1>6, <1>8
<1>10. \A u \in Tables \ growing' : Settled(setup, table'[u], contents'[u], reserved'[u])
  BY DEF IInv
<1>11. \A u \in growing' :
         Moving(setup, table'[u], old', left', inserting', contents'[u], reserved'[u])
  OBVIOUS
<1>12. /\ growing' = {} \/ \E u \in Tables : growing' = {u}
       /\ growing' = {} => old' = NoTable /\ left' = {} /\ inserting' = {}
  OBVIOUS
<1> QED
  BY <1>1, <1>9, <1>10, <1>11, <1>12 DEF IInv, Tables, Keys

\* Both are counts.
LEMMA Counters ==
  ASSUME IInv
  PROVE  heap \in Nat /\ live \in Nat
<1>1. setup \in Setups /\ AllFinite(setup, table) /\ Cardinality(left) \in Nat
  BY TablesFinite DEF IInv, AllFinite, Tables
<1>2. Cardinality(Entries(setup, table)) \in Nat
  BY <1>1, EntriesFinite
<1>3. IsFiniteSet(setup.tables) /\ HeapTables(setup, table) \subseteq setup.tables
  BY <1>1, SetupFacts DEF HeapTables
<1>4. Cardinality(HeapTables(setup, table)) \in Nat
  BY <1>3, FS_Subset, FS_CardinalityType
<1>5. OnHeap(old) \in {0, 1}
  BY DEF OnHeap
<1> QED
  BY <1>1, <1>2, <1>4, <1>5 DEF IInv, Balanced

\* An operation that is one step.
LEMMA OneStep ==
  ASSUME IInv, Idle, UNCHANGED <<setup, growthVars>>, NEW t \in Tables, NEW U,
         NEW c \in SUBSET Keys, NEW r \in 0..MaxReserve, Settled(setup, U, c, r),
         table' = [table EXCEPT ![t] = U], contents' = [contents EXCEPT ![t] = c],
         reserved' = [reserved EXCEPT ![t] = r],
         heap' = heap - OnHeap(table[t]) + OnHeap(U),
         live' = live - Cardinality(PresentIn(setup, table[t]))
                      + Cardinality(PresentIn(setup, U))
  PROVE  IInv'
<1>1. /\ setup \in Setups /\ IsMap(table, Tables)
      /\ contents \in [Tables -> SUBSET Keys] /\ reserved \in [Tables -> 0..MaxReserve]
      /\ growing = {} /\ old = NoTable /\ left = {} /\ inserting = {}
      /\ Settled(setup, table[t], contents[t], reserved[t])
  BY DEF IInv, Idle
<1>2. /\ setup' = setup /\ growing' = {} /\ old' = NoTable /\ left' = {} /\ inserting' = {}
  BY <1>1 DEF growthVars
<1>3. /\ table'[t] = U /\ contents'[t] = c /\ reserved'[t] = r /\ IsMap(table', Tables)
      /\ contents' \in [Tables -> SUBSET Keys] /\ reserved' \in [Tables -> 0..MaxReserve]
      /\ \A u \in Tables \ {t} : /\ table'[u] = table[u] /\ contents'[u] = contents[u]
                                 /\ reserved'[u] = reserved[u]
  BY <1>1 DEF IsMap
<1>4. /\ heap \in Nat /\ live \in Nat
      /\ Cardinality(PresentIn(setup, table[t])) \in Nat
      /\ Cardinality(PresentIn(setup, U)) \in Nat
  BY <1>1, Counters, SettledFacts
<1>5. OnHeap(NoTable) = 0 /\ Cardinality({}) = 0
  BY NoEntries, FS_EmptySet
<1>6. OnHeap(table[t]) \in {0, 1} /\ OnHeap(U) \in {0, 1}
  BY DEF OnHeap
<1>7. heap' = HeapAfter(heap, table[t], NoTable, U, NoTable)
  BY <1>4, <1>5, <1>6 DEF HeapAfter
<1>8. live' = LiveAfter(setup, live, table[t], {}, U, {})
  BY <1>4, <1>5 DEF LiveAfter
<1> QED
  BY <1>1, <1>2, <1>3, <1>7, <1>8, OneTable

\* An operation that starts to grow a table.
LEMMA GrowthStarts ==
  ASSUME IInv, Idle, UNCHANGED setup, NEW t \in Tables, Usable(t), NEW size \in Nat,
         IsPowerOf2(size), table[t].alloc < size, NEW ks \in SUBSET Keys,
         ks \cap contents[t] = {}, ks = {} \/ \E k \in ks : ks = {k},
         StartGrowth(t, size, ks), NEW r \in 0..MaxReserve,
         r + Cardinality(PresentIn(setup, table[t])) + Cardinality(ks)
           <= GrowthThresholdForAllocSize(size),
         contents' = [contents EXCEPT ![t] = @ \cup ks],
         reserved' = [reserved EXCEPT ![t] = r]
  PROVE  IInv'
<1> DEFINE T == table[t]
<1>1. /\ setup \in Setups /\ IsMap(table, Tables)
      /\ contents \in [Tables -> SUBSET Keys] /\ reserved \in [Tables -> 0..MaxReserve]
      /\ growing = {} /\ old = NoTable /\ left = {} /\ inserting = {}
      /\ Settled(setup, T, contents[t], reserved[t])
  BY DEF IInv, Idle
<1>2. /\ T.alloc # 0 /\ Sound(setup, T) /\ Budgeted(T) /\ KeysIn(setup, T) = contents[t]
      /\ IsTable(setup, T) /\ Cardinality(PresentIn(setup, T)) \in Nat
  BY <1>1, SettledFacts DEF Usable
<1>3. r \in Nat
  BY SizesAssumption
<1>4. PICK U : U = [alloc |-> size, budget |-> GrowthThresholdForAllocSize(size),
                    storage |-> "heap",
                    slots |-> IF size = 2 * T.alloc THEN Kept(T) ELSE EmptySlots(size)]
  OBVIOUS
<1>5. PICK rest : rest = {i \in PresentSlots(T) : size = 2 * T.alloc => ~AtHome(T, i)}
  OBVIOUS
<1>6. /\ Moving(setup, U, T, rest, ks, KeysIn(setup, T) \cup ks, r) /\ U.storage = "heap"
  <2> HIDE DEF T
  <2> QED
    BY <1>1, <1>2, <1>3, <1>4, <1>5, StartsMoving DEF T
<1>7. /\ table' = [table EXCEPT ![t] = U] /\ growing' = {t} /\ old' = T /\ inserting' = ks
      /\ left' = rest /\ heap' = heap + 1 /\ live' = live
  BY <1>4, <1>5 DEF StartGrowth
<1>8. /\ table'[t] = U /\ contents'[t] = contents[t] \cup ks /\ reserved'[t] = r
      /\ IsMap(table', Tables)
      /\ contents' \in [Tables -> SUBSET Keys] /\ reserved' \in [Tables -> 0..MaxReserve]
      /\ \A u \in Tables \ {t} : /\ table'[u] = table[u] /\ contents'[u] = contents[u]
                                 /\ reserved'[u] = reserved[u]
  BY <1>1, <1>7 DEF IsMap
<1>9. OnHeap(NoTable) = 0 /\ Cardinality({}) = 0
  BY NoEntries, FS_EmptySet
<1>10. OnHeap(T) \in {0, 1} /\ OnHeap(U) = 1 /\ heap \in Nat /\ live \in Nat
  BY <1>6, Counters DEF OnHeap
<1>11. heap' = HeapAfter(heap, T, NoTable, U, T)
  BY <1>7, <1>9, <1>10 DEF HeapAfter
<1>12. Cardinality(PresentIn(setup, U)) + Cardinality(rest) = Cardinality(PresentIn(setup, T))
  BY <1>6 DEF Moving
<1>13. Cardinality(PresentIn(setup, U)) \in Nat /\ Cardinality(rest) \in Nat
  BY <1>1, <1>6, TableFacts, MovingRoom DEF Moving, Sound
<1>14. live' = LiveAfter(setup, live, T, {}, U, rest)
  BY <1>2, <1>7, <1>9, <1>10, <1>12, <1>13 DEF LiveAfter
<1>15. Moving(setup, U, T, rest, ks, contents'[t], reserved'[t])
  BY <1>2, <1>6, <1>8
<1>16. /\ Moving(setup, table'[t], old', left', inserting', contents'[t], reserved'[t])
       /\ heap' = HeapAfter(heap, table[t], old, table'[t], old')
       /\ live' = LiveAfter(setup, live, table[t], left, table'[t], left')
       /\ growing \subseteq {t}
  BY <1>1, <1>7, <1>8, <1>11, <1>14, <1>15
<1> HIDE DEF T
<1> QED
  BY <1>1, <1>7, <1>8, <1>16, OneTable

\* What a usable table has.
LEMMA UsableFacts ==
  ASSUME IInv, Idle, NEW t \in Tables, Usable(t)
  PROVE  /\ setup \in Setups /\ Sound(setup, table[t]) /\ IsTable(setup, table[t])
         /\ Budgeted(table[t]) /\ KeysIn(setup, table[t]) = contents[t]
         /\ reserved[t] <= table[t].budget /\ table[t].budget \in Nat
         /\ Settled(setup, table[t], contents[t], reserved[t])
         /\ contents[t] \in SUBSET Keys /\ reserved[t] \in 0..MaxReserve /\ reserved[t] \in Nat
         /\ contents \in [Tables -> SUBSET Keys] /\ reserved \in [Tables -> 0..MaxReserve]
         /\ \A k \in Keys : LookupEntry(table[t], k) # NotFound <=> k \in contents[t]
<1> DEFINE T == table[t]
<1>1. /\ setup \in Setups /\ contents \in [Tables -> SUBSET Keys]
      /\ reserved \in [Tables -> 0..MaxReserve]
      /\ Settled(setup, T, contents[t], reserved[t])
  BY DEF IInv, Idle
<1>2. T.alloc # 0
  BY <1>1, SettledFacts DEF Usable
<1> HIDE DEF T
<1>3. /\ Sound(setup, T) /\ IsTable(setup, T) /\ Budgeted(T)
      /\ KeysIn(setup, T) = contents[t] /\ reserved[t] <= T.budget
  BY <1>1, <1>2, SettledFacts
<1>4. T.budget \in Nat
  BY <1>3 DEF Budgeted, IsTable
<1>5. \E i \in DOMAIN T.slots : T.slots[i] = Empty
  BY <1>1, <1>3, BudgetedEmpty
<1>6. \A k \in Keys : LookupEntry(T, k) # NotFound <=> k \in contents[t]
  BY <1>1, <1>3, <1>5, Lookup
<1>7. reserved[t] \in Nat
  BY <1>1, SizesAssumption
<1> QED
  BY <1>1, <1>3, <1>4, <1>6, <1>7 DEF T

\* Insert.
LEMMA InsertInv ==
  ASSUME IInv, Idle, NEW t \in Tables, NEW k \in Keys, Insert(t, k)
  PROVE  IInv'
<1> DEFINE T == table[t]
<1>1. /\ setup \in Setups /\ Sound(setup, T) /\ IsTable(setup, T)
      /\ Budgeted(T) /\ KeysIn(setup, T) = contents[t]
      /\ reserved[t] <= T.budget /\ T.budget \in Nat
      /\ contents[t] \in SUBSET Keys /\ reserved[t] \in 0..MaxReserve /\ reserved[t] \in Nat
      /\ contents \in [Tables -> SUBSET Keys] /\ reserved \in [Tables -> 0..MaxReserve]
      /\ LookupEntry(T, k) # NotFound <=> k \in contents[t]
  BY UsableFacts DEF Insert
<1>2. Usable(t) /\ UNCHANGED setup /\ contents' = [contents EXCEPT ![t] = @ \cup {k}]
  BY DEF Insert
<1>3. CASE MustGrow(T, k)
  <2>1. k \notin contents[t] /\ T.budget = 0
    BY <1>1, <1>3 DEF MustGrow
  <2>2. reserved[t] = 0 /\ reserved' = [reserved EXCEPT ![t] = 0]
    <3>1. reserved[t] = 0
      BY <1>1, <2>1
    <3>2. reserved' = reserved
      BY <3>1 DEF Insert
    <3>3. reserved = [reserved EXCEPT ![t] = 0]
      BY <3>1, <1>1
    <3> QED
      BY <3>1, <3>2, <3>3
  <2>3. StartGrowth(t, 2 * T.alloc, {k})
    BY <1>3 DEF Insert
  <2>4. /\ T.alloc \in Nat /\ IsPowerOf2(T.alloc) /\ T.alloc > 0 /\ LoadDenominator <= T.alloc
        /\ Cardinality(PresentIn(setup, T)) \in Nat /\ Cardinality(NonEmpty(T)) \in Nat
        /\ Cardinality(PresentIn(setup, T)) <= Cardinality(NonEmpty(T))
    BY <1>1, TableFacts DEF IsTable
  <2>5. PICK size \in Nat : size = 2 * T.alloc
    BY <2>4
  <2>6. IsPowerOf2(size) /\ T.alloc < size
    BY <2>4, <2>5, Double
  <2>7. /\ GrowthThresholdForAllocSize(T.alloc) < GrowthThresholdForAllocSize(size)
        /\ GrowthThresholdForAllocSize(T.alloc) \in Nat
        /\ GrowthThresholdForAllocSize(size) \in Nat
    BY <2>4, <2>6, ThresholdGrows, ThresholdBounds, SizesAssumption
  <2>8. Cardinality({k}) = 1
    BY FS_Singleton
  <2>9. 0 + Cardinality(PresentIn(setup, T)) + Cardinality({k})
          <= GrowthThresholdForAllocSize(size)
    BY <2>1, <2>4, <2>7, <2>8, <1>1 DEF Budgeted
  <2>10. 0 \in 0..MaxReserve
    BY SizesAssumption
  <2>11. {k} \in SUBSET Keys /\ {k} \cap contents[t] = {} /\ \E x \in {k} : {k} = {x}
    BY <2>1
  <2>12. StartGrowth(t, size, {k})
    BY <2>3, <2>5
  <2> QED
    BY <1>2, <2>2, <2>6, <2>9, <2>10, <2>11, <2>12, GrowthStarts
<1>4. CASE ~MustGrow(T, k)
  <2>1. PICK U : U = InsertImpl(T, k)
    OBVIOUS
  <2>2. /\ Sound(setup, U) /\ Budgeted(U)
        /\ KeysIn(setup, U) = contents[t] \cup {k}
        /\ U.storage = T.storage
        /\ k \in contents[t] => U = T
        /\ k \notin contents[t] =>
             /\ U.budget >= T.budget - 1
             /\ Cardinality(PresentIn(setup, U)) = Cardinality(PresentIn(setup, T)) + 1
    BY <1>1, <1>4, <2>1, InsertKeeps
  <2>3. /\ table' = [table EXCEPT ![t] = U] /\ UNCHANGED <<setup, growthVars>>
        /\ live' = live + IF LookupEntry(T, k) = NotFound THEN 1 ELSE 0
        /\ heap' = heap
    BY <1>4, <2>1 DEF Insert
  <2>4. PICK r \in 0..MaxReserve :
          r = IF k \in contents[t] \/ reserved[t] = 0 THEN reserved[t] ELSE reserved[t] - 1
    <3>1. reserved[t] \in 0..MaxReserve /\ MaxReserve \in Nat
      BY <1>1, SizesAssumption
    <3>2. reserved[t] = 0 \/ reserved[t] - 1 \in 0..MaxReserve
      BY <3>1
    <3> QED
      BY <3>1, <3>2
  <2>5. reserved' = [reserved EXCEPT ![t] = r]
    BY <1>1, <2>4 DEF Insert
  <2>6. PICK c \in SUBSET Keys : c = contents[t] \cup {k}
    BY <1>1
  <2>7. contents' = [contents EXCEPT ![t] = c]
    BY <1>2, <2>6
  <2>8. /\ Cardinality(PresentIn(setup, T)) \in Nat /\ heap \in Nat /\ live \in Nat
        /\ U.budget \in Nat /\ OnHeap(T) \in {0, 1} /\ OnHeap(U) = OnHeap(T)
    <3>1. Cardinality(PresentIn(setup, T)) \in Nat
      BY <1>1, TableFacts
    <3>2. U.budget \in Nat
      BY <2>2 DEF Sound, IsTable, Budgeted
    <3>3. OnHeap(T) \in {0, 1} /\ OnHeap(U) = OnHeap(T)
      BY <2>2 DEF OnHeap
    <3> QED
      BY <3>1, <3>2, <3>3, Counters
  <2>9. r <= U.budget
    BY <1>1, <2>2, <2>4, <2>8
  <2>10. Settled(setup, U, c, r)
    BY <2>2, <2>6, <2>9 DEF Settled
  <2>11. heap' = heap - OnHeap(T) + OnHeap(U)
    BY <2>3, <2>8
  <2>12. live' = live - Cardinality(PresentIn(setup, T)) + Cardinality(PresentIn(setup, U))
    BY <1>1, <2>2, <2>3, <2>8
  <2> QED
    BY <2>3, <2>5, <2>7, <2>10, <2>11, <2>12, OneStep
<1> QED
  BY <1>3, <1>4

\* Erase.
LEMMA EraseInv ==
  ASSUME IInv, Idle, NEW t \in Tables, NEW k \in Keys, Erase(t, k)
  PROVE  IInv'
<1> DEFINE T == table[t]
<1>1. /\ setup \in Setups /\ Sound(setup, T) /\ IsTable(setup, T)
      /\ Budgeted(T) /\ KeysIn(setup, T) = contents[t]
      /\ reserved[t] <= T.budget /\ T.budget \in Nat
      /\ contents[t] \in SUBSET Keys /\ reserved[t] \in 0..MaxReserve /\ reserved[t] \in Nat
      /\ reserved \in [Tables -> 0..MaxReserve]
  BY UsableFacts DEF Erase
<1>2. PICK U : U = EraseImpl(T, k)
  OBVIOUS
<1>3. PICK d \in {0, 1} : d = IF LookupEntry(T, k) = NotFound THEN 0 ELSE 1
  OBVIOUS
<1>4. /\ Sound(setup, U) /\ Budgeted(U) /\ KeysIn(setup, U) = contents[t] \ {k}
      /\ U.storage = T.storage /\ U.budget >= T.budget
      /\ Cardinality(PresentIn(setup, U)) = Cardinality(PresentIn(setup, T)) - d
  BY <1>1, <1>2, <1>3, EraseKeeps
<1>5. PICK c \in SUBSET Keys : c = contents[t] \ {k}
  BY <1>1
<1>6. /\ table' = [table EXCEPT ![t] = U] /\ UNCHANGED <<setup, growthVars>>
      /\ live' = live - d /\ heap' = heap /\ contents' = [contents EXCEPT ![t] = c]
  BY <1>2, <1>3, <1>5 DEF Erase
<1>7. reserved' = [reserved EXCEPT ![t] = reserved[t]]
  BY <1>1 DEF Erase
<1>8. Cardinality(PresentIn(setup, T)) \in Nat
  BY <1>1, TableFacts
<1>9. U.budget \in Nat
  BY <1>4 DEF Sound, IsTable, Budgeted
<1>10. OnHeap(T) \in {0, 1} /\ OnHeap(U) = OnHeap(T) /\ heap \in Nat /\ live \in Nat
  BY <1>4, Counters DEF OnHeap
<1>11. reserved[t] <= U.budget
  BY <1>1, <1>4, <1>9
<1>12. Settled(setup, U, c, reserved[t])
  BY <1>4, <1>5, <1>11 DEF Settled
<1>13. heap' = heap - OnHeap(T) + OnHeap(U)
  BY <1>6, <1>10
<1>14. live' = live - Cardinality(PresentIn(setup, T)) + Cardinality(PresentIn(setup, U))
  BY <1>4, <1>6, <1>8, <1>10
<1> QED
  BY <1>1, <1>6, <1>7, <1>12, <1>13, <1>14, OneStep

\* Nothing changes.
LEMMA Stutter ==
  ASSUME IInv, UNCHANGED vars
  PROVE  IInv'
  BY DEF IInv, vars, growthVars, Tables, Keys

\* GrowToAllocSize.
LEMMA GrowToAllocSizeInv ==
  ASSUME IInv, Idle, NEW t \in Tables, NEW size \in Nat, GrowToAllocSize(t, size)
  PROVE  IInv'
<1> DEFINE T == table[t]
<1>1. /\ setup \in Setups /\ IsTable(setup, T) /\ Budgeted(T)
      /\ reserved[t] <= T.budget /\ T.budget \in Nat
      /\ reserved[t] \in 0..MaxReserve /\ reserved[t] \in Nat
      /\ contents \in [Tables -> SUBSET Keys] /\ reserved \in [Tables -> 0..MaxReserve]
  BY UsableFacts DEF GrowToAllocSize
<1>2. CASE size > T.alloc /\ StartGrowth(t, size, {})
  <2>1. /\ T.alloc \in Nat /\ IsPowerOf2(T.alloc) /\ LoadDenominator <= T.alloc
        /\ Cardinality(PresentIn(setup, T)) \in Nat /\ Cardinality(NonEmpty(T)) \in Nat
        /\ Cardinality(PresentIn(setup, T)) <= Cardinality(NonEmpty(T))
    BY <1>1, TableFacts DEF IsTable
  <2>2. IsPowerOf2(size) /\ UNCHANGED setup /\ Usable(t) /\ T.alloc < size
    BY <1>2, <2>1 DEF GrowToAllocSize
  <2>3. /\ GrowthThresholdForAllocSize(T.alloc) < GrowthThresholdForAllocSize(size)
        /\ GrowthThresholdForAllocSize(T.alloc) \in Nat
        /\ GrowthThresholdForAllocSize(size) \in Nat
    BY <2>1, <2>2, ThresholdGrows, ThresholdBounds, SizesAssumption
  <2>4. Cardinality({}) = 0
    BY FS_EmptySet
  <2>5. reserved[t] + Cardinality(PresentIn(setup, T)) + Cardinality({})
          <= GrowthThresholdForAllocSize(size)
    BY <2>1, <2>3, <2>4, <1>1 DEF Budgeted
  <2>6. contents' = [contents EXCEPT ![t] = @ \cup {}]
    BY <1>1 DEF GrowToAllocSize
  <2>7. reserved' = [reserved EXCEPT ![t] = reserved[t]]
    BY <1>1 DEF GrowToAllocSize
  <2> QED
    BY <1>1, <1>2, <2>2, <2>5, <2>6, <2>7, GrowthStarts
<1>3. CASE UNCHANGED <<table, growthVars, heap, live>>
  <2>1. UNCHANGED vars
    BY <1>3 DEF GrowToAllocSize, vars
  <2> QED
    BY <2>1, Stutter
<1> QED
  BY <1>2, <1>3 DEF GrowToAllocSize, GrowToAllocSizeImpl

\* GrowForInsertCount.
LEMMA GrowForInsertCountInv ==
  ASSUME IInv, Idle, NEW t \in Tables, NEW count \in 1..MaxReserve, GrowForInsertCount(t, count)
  PROVE  IInv'
<1> DEFINE T == table[t]
<1>1. /\ setup \in Setups /\ Sound(setup, T) /\ IsTable(setup, T) /\ Budgeted(T)
      /\ T.budget \in Nat /\ KeysIn(setup, T) = contents[t]
      /\ contents \in [Tables -> SUBSET Keys] /\ reserved \in [Tables -> 0..MaxReserve]
      /\ contents[t] \in SUBSET Keys
  BY UsableFacts DEF GrowForInsertCount
<1>2. count \in Nat /\ count \in 0..MaxReserve
  BY SizesAssumption
<1>3. Usable(t) /\ UNCHANGED setup /\ reserved' = [reserved EXCEPT ![t] = count]
  BY DEF GrowForInsertCount
<1>4. CASE count < T.budget /\ UNCHANGED <<table, growthVars, heap, live>>
  <2>1. contents' = [contents EXCEPT ![t] = contents[t]]
    BY <1>1 DEF GrowForInsertCount
  <2>2. table' = [table EXCEPT ![t] = T]
    BY <1>4 DEF IInv, IsMap
  <2>3. Settled(setup, T, contents[t], count)
    BY <1>1, <1>2, <1>4 DEF Settled
  <2>4. /\ OnHeap(T) \in {0, 1} /\ heap \in Nat /\ live \in Nat
        /\ Cardinality(PresentIn(setup, T)) \in Nat
    BY <1>1, TableFacts, Counters DEF OnHeap
  <2>5. heap' = heap - OnHeap(T) + OnHeap(T)
    BY <1>4, <2>4
  <2>6. live' = live - Cardinality(PresentIn(setup, T)) + Cardinality(PresentIn(setup, T))
    BY <1>4, <2>4
  <2>7. UNCHANGED <<setup, growthVars>>
    BY <1>3, <1>4
  <2> QED
    BY <1>1, <1>2, <1>3, <2>1, <2>2, <2>3, <2>5, <2>6, <2>7, OneStep
<1>5. CASE /\ count >= T.budget
           /\ GrowToAllocSizeImpl(t, TargetForInsertCount(T, count))
  <2>1. PICK size : size = TargetForInsertCount(T, count)
    OBVIOUS
  <2>2. /\ size \in Nat /\ IsPowerOf2(size) /\ size > T.alloc
        /\ count + Cardinality(PresentIn(setup, T)) <= GrowthThresholdForAllocSize(size)
    BY <1>1, <1>2, <1>5, <2>1, TargetRoom
  <2>3. T.alloc \in Nat /\ Cardinality(PresentIn(setup, T)) \in Nat /\ T.alloc < size
    BY <1>1, <2>2, TableFacts
  <2>4. StartGrowth(t, size, {})
    BY <1>5, <2>1, <2>2, <2>3 DEF GrowToAllocSizeImpl
  <2>5. count + Cardinality(PresentIn(setup, T)) + Cardinality({})
          <= GrowthThresholdForAllocSize(size)
    <3>1. Cardinality({}) = 0
      BY FS_EmptySet
    <3> QED
      BY <3>1, <2>2, <2>3, <1>2
  <2>6. contents' = [contents EXCEPT ![t] = @ \cup {}]
    BY <1>1 DEF GrowForInsertCount
  <2> QED
    BY <1>1, <1>2, <1>3, <2>2, <2>3, <2>4, <2>5, <2>6, GrowthStarts
<1> QED
  BY <1>4, <1>5 DEF GrowForInsertCount, GrowForInsertCountImpl

\* What any table has between operations.
LEMMA IdleFacts ==
  ASSUME IInv, Idle, NEW t \in Tables
  PROVE  /\ setup \in Setups /\ Settled(setup, table[t], contents[t], reserved[t])
         /\ contents[t] \in SUBSET Keys /\ reserved[t] \in 0..MaxReserve /\ reserved[t] \in Nat
         /\ contents \in [Tables -> SUBSET Keys] /\ reserved \in [Tables -> 0..MaxReserve]
         /\ heap \in Nat /\ live \in Nat /\ Cardinality(PresentIn(setup, table[t])) \in Nat
         /\ OnHeap(table[t]) \in {0, 1}
<1>1. /\ setup \in Setups /\ contents \in [Tables -> SUBSET Keys]
      /\ reserved \in [Tables -> 0..MaxReserve]
      /\ Settled(setup, table[t], contents[t], reserved[t])
  BY DEF IInv, Idle
<1>2. Cardinality(PresentIn(setup, table[t])) \in Nat
  BY <1>1, SettledFacts
<1>3. reserved[t] \in Nat
  BY <1>1, SizesAssumption
<1> QED
  BY <1>1, <1>2, <1>3, Counters DEF OnHeap

\* Clear.
LEMMA ClearInv ==
  ASSUME IInv, Idle, NEW t \in Tables, Clear(t)
  PROVE  IInv'
<1> DEFINE T == table[t]
<1>1. /\ setup \in Setups /\ Settled(setup, T, contents[t], reserved[t])
      /\ reserved[t] \in 0..MaxReserve /\ reserved[t] \in Nat
      /\ reserved \in [Tables -> 0..MaxReserve]
      /\ heap \in Nat /\ live \in Nat /\ Cardinality(PresentIn(setup, T)) \in Nat
      /\ OnHeap(T) \in {0, 1}
  BY IdleFacts
<1>2. PICK U : U = [T EXCEPT !.slots = EmptySlots(T.alloc),
                             !.budget = GrowthThresholdForAllocSize(T.alloc)]
  OBVIOUS
<1>3. table' = [table EXCEPT ![t] = U]
  BY <1>2 DEF Clear
<1>4. /\ Settled(setup, U, {}, reserved[t]) /\ U.storage = T.storage
      /\ PresentIn(setup, U) = {}
  <2>1. CASE T.alloc = 0
    <3>1. T \in {NoTable, MovedFrom}
      BY <1>1, <2>1, SettledFacts
    <3>2. /\ T = [alloc |-> T.alloc, budget |-> T.budget, storage |-> T.storage,
                  slots |-> T.slots]
          /\ T.slots = EmptySlots(0) /\ T.budget = 0 /\ PresentIn(setup, T) = {}
      BY <3>1, NoEntries
    <3>3. GrowthThresholdForAllocSize(0) = 0
      BY SizesAssumption DEF GrowthThresholdForAllocSize
    <3> HIDE DEF T
    <3>4. U = T
      BY <3>2, <3>3, <1>2, <2>1
    <3> QED
      BY <3>1, <3>2, <3>4 DEF Settled
  <2>2. CASE T.alloc # 0
    <3>1. /\ IsTable(setup, T) /\ Budgeted(T) /\ reserved[t] <= T.budget
      BY <1>1, <2>2, SettledFacts
    <3>2. /\ T.alloc \in Nat /\ IsPowerOf2(T.alloc) /\ LeastSize(setup) <= T.alloc
          /\ LoadDenominator <= T.alloc /\ Cardinality(NonEmpty(T)) \in Nat
          /\ T.budget \in Int
      BY <1>1, <3>1, TableFacts DEF IsTable
    <3>3. PICK b \in Nat : b = GrowthThresholdForAllocSize(T.alloc)
      BY <3>2, ThresholdBounds
    <3>4. U = [alloc |-> T.alloc, budget |-> b, storage |-> Storage(setup, T.alloc),
               slots |-> EmptySlots(T.alloc)]
      <4>1. /\ T = [alloc |-> T.alloc, budget |-> T.budget, storage |-> T.storage,
                    slots |-> T.slots]
            /\ T.storage = Storage(setup, T.alloc)
        BY <3>1 DEF IsTable, Storage
      <4> HIDE DEF T
      <4> QED
        BY <4>1, <3>3, <1>2
    <3>5. /\ Sound(setup, U) /\ U.alloc = T.alloc /\ U.budget = b
          /\ U.storage = Storage(setup, T.alloc)
          /\ PresentIn(setup, U) = {} /\ KeysIn(setup, U) = {} /\ NonEmpty(U) = {}
      BY <1>1, <3>2, <3>3, <3>4, Blank
    <3>6. Budgeted(U)
      BY <3>3, <3>5, FS_EmptySet DEF Budgeted
    <3>7. reserved[t] <= U.budget
      BY <1>1, <3>1, <3>2, <3>3, <3>5 DEF Budgeted
    <3>8. U.storage = T.storage
      BY <3>1, <3>5 DEF IsTable, Storage
    <3> QED
      BY <3>5, <3>6, <3>7, <3>8 DEF Settled
  <2> QED
    BY <2>1, <2>2
<1>5. Cardinality(PresentIn(setup, U)) = 0 /\ OnHeap(U) = OnHeap(T)
  BY <1>4, FS_EmptySet DEF OnHeap
<1>6. PICK n \in DestroyEntries(T) : live' = live - n
  BY DEF Clear
<1>7. n = Cardinality(PresentIn(setup, T))
  BY <1>1, SettledFacts
<1>8. live' = live - Cardinality(PresentIn(setup, T)) + Cardinality(PresentIn(setup, U))
  BY <1>1, <1>5, <1>6, <1>7
<1>9. heap' = heap - OnHeap(T) + OnHeap(U)
  BY <1>1, <1>5 DEF Clear
<1>10. /\ contents' = [contents EXCEPT ![t] = {}]
       /\ reserved' = [reserved EXCEPT ![t] = reserved[t]]
       /\ UNCHANGED <<setup, growthVars>> /\ {} \in SUBSET Keys
  BY <1>1 DEF Clear
<1> QED
  BY <1>1, <1>3, <1>4, <1>8, <1>9, <1>10, OneStep

\* Replace changes one table.
LEMMA ReplaceInv ==
  ASSUME IInv, Idle, NEW t \in Tables, NEW U, NEW c \in SUBSET Keys, Replace(t, U, c),
         Settled(setup, U, c, 0),
         heap' = heap - OnHeap(table[t]) + OnHeap(U),
         live' = live - Cardinality(PresentIn(setup, table[t]))
                      + Cardinality(PresentIn(setup, U))
  PROVE  IInv'
<1>1. 0 \in 0..MaxReserve
  BY SizesAssumption
<1>2. /\ table' = [table EXCEPT ![t] = U] /\ contents' = [contents EXCEPT ![t] = c]
      /\ reserved' = [reserved EXCEPT ![t] = 0] /\ UNCHANGED <<setup, growthVars>>
  BY DEF Replace
<1> QED
  BY <1>1, <1>2, OneStep

\* A new table.
LEMMA NewTableFacts ==
  ASSUME setup \in Setups
  PROVE  /\ Settled(setup, NewTable, {}, 0) /\ Allocated(NewTable) = OnHeap(NewTable)
         /\ Cardinality(PresentIn(setup, NewTable)) = 0
<1> DEFINE U == NewTable
           size == LeastSize(setup)
<1>1. /\ size \in Nat /\ IsPowerOf2(size) /\ LoadDenominator <= size /\ size > 0
      /\ setup.small \in Nat
  BY SetupFacts DEF Sized
<1>2. PICK b \in Nat : b = GrowthThresholdForAllocSize(size)
  BY <1>1, ThresholdBounds
<1>3. Storage(setup, size) = IF setup.small > 0 THEN "small" ELSE "heap"
  BY <1>1 DEF Storage, LeastSize
<1>4. U = [alloc |-> size, budget |-> b, storage |-> Storage(setup, size),
           slots |-> EmptySlots(size)]
  <2>1. U = [alloc |-> size, slots |-> EmptySlots(size),
             storage |-> IF setup.small > 0 THEN "small" ELSE "heap",
             budget |-> GrowthThresholdForAllocSize(size)]
    BY DEF NewTable, LeastSize
  <2> HIDE DEF size, U
  <2> QED
    BY <2>1, <1>2, <1>3
<1>5. size <= size
  BY <1>1
<1> HIDE DEF U, size
<1>6. /\ Sound(setup, U) /\ U.alloc = size /\ U.budget = b
      /\ PresentIn(setup, U) = {} /\ KeysIn(setup, U) = {} /\ NonEmpty(U) = {}
  BY <1>1, <1>2, <1>4, <1>5, Blank DEF size
<1>7. Budgeted(U) /\ 0 <= U.budget /\ Cardinality(PresentIn(setup, U)) = 0
  BY <1>2, <1>6, FS_EmptySet DEF Budgeted
<1>8. Settled(setup, U, {}, 0)
  BY <1>6, <1>7 DEF Settled
<1>9. Allocated(U) = OnHeap(U)
  BY <1>8, SettledFacts
<1> QED
  BY <1>7, <1>8, <1>9 DEF U

\* A table that is not constructed has nothing.
LEMMA NotConstructed ==
  ASSUME IInv, Idle, NEW t \in Tables, ~Constructed(t)
  PROVE  OnHeap(table[t]) = 0 /\ Cardinality(PresentIn(setup, table[t])) = 0
<1>1. Settled(setup, table[t], contents[t], reserved[t])
  BY IdleFacts
<1>2. table[t] \in {NoTable, MovedFrom}
  BY <1>1 DEF Constructed, Settled, Sound, IsTable
<1> QED
  BY <1>2, NoEntries

\* Construct.
LEMMA ConstructInv ==
  ASSUME IInv, Idle, NEW t \in Tables, Construct(t)
  PROVE  IInv'
<1>1. setup \in Setups /\ heap \in Nat /\ live \in Nat
  BY IdleFacts
<1>2. /\ Settled(setup, NewTable, {}, 0) /\ Allocated(NewTable) = OnHeap(NewTable)
      /\ Cardinality(PresentIn(setup, NewTable)) = 0
  BY <1>1, NewTableFacts
<1>3. OnHeap(table[t]) = 0 /\ Cardinality(PresentIn(setup, table[t])) = 0
  BY NotConstructed DEF Construct
<1>4. OnHeap(NewTable) \in {0, 1}
  BY DEF OnHeap
<1>5. /\ heap' = heap - OnHeap(table[t]) + OnHeap(NewTable)
      /\ live' = live - Cardinality(PresentIn(setup, table[t]))
                      + Cardinality(PresentIn(setup, NewTable))
  BY <1>1, <1>2, <1>3, <1>4 DEF Construct
<1>6. Replace(t, NewTable, {}) /\ {} \in SUBSET Keys
  BY DEF Construct
<1> QED
  BY <1>2, <1>5, <1>6, ReplaceInv

\* Reset and the destructor.
LEMMA DestructInv ==
  ASSUME IInv, Idle, NEW t \in Tables, NEW U \in {NewTable, NoTable}, Destruct(t, U)
  PROVE  IInv'
<1> DEFINE T == table[t]
<1>1. /\ setup \in Setups /\ heap \in Nat /\ live \in Nat
      /\ Settled(setup, T, contents[t], reserved[t])
      /\ Cardinality(PresentIn(setup, T)) \in Nat /\ OnHeap(T) \in {0, 1}
  BY IdleFacts
<1>2. /\ Settled(setup, U, {}, 0) /\ Allocated(U) = OnHeap(U)
      /\ Cardinality(PresentIn(setup, U)) = 0
  <2>1. CASE U = NewTable
    BY <2>1, <1>1, NewTableFacts
  <2>2. CASE U = NoTable
    <3>1. Settled(setup, U, {}, 0) /\ U \in {NoTable, MovedFrom}
      BY <2>2 DEF Settled
    <3>2. Allocated(U) = OnHeap(U)
      BY <1>1, <3>1, SettledFacts
    <3> QED
      BY <3>1, <3>2, NoEntries
  <2> QED
    BY <2>1, <2>2
<1>3. OnHeap(U) \in {0, 1}
  BY DEF OnHeap
<1>4. PICK n \in DestroyEntries(T) : live' = live - n
  BY DEF Destruct
<1>5. n = Cardinality(PresentIn(setup, T)) /\ Deallocated(T) = OnHeap(T)
  BY <1>1, SettledFacts
<1>6. live' = live - Cardinality(PresentIn(setup, T)) + Cardinality(PresentIn(setup, U))
  BY <1>1, <1>2, <1>4, <1>5
<1>7. heap' = heap - OnHeap(T) + OnHeap(U)
  BY <1>2, <1>5 DEF Destruct
<1>8. Replace(t, U, {}) /\ {} \in SUBSET Keys
  BY DEF Destruct
<1> QED
  BY <1>2, <1>6, <1>7, <1>8, ReplaceInv

\* A copy is as good as what it is a copy of.
LEMMA CopyFacts ==
  ASSUME IInv, Idle, NEW u \in Tables
  PROVE  /\ Settled(setup, CopyOf(u), contents[u], 0)
         /\ Allocated(CopyOf(u)) = OnHeap(CopyOf(u)) /\ CopyOf(u).alloc = table[u].alloc
         /\ PresentIn(setup, CopyOf(u)) = PresentIn(setup, table[u])
<1> DEFINE T == table[u]
<1>1. /\ setup \in Setups /\ Settled(setup, T, contents[u], reserved[u])
  BY IdleFacts
<1>2. PICK U : U = CopyOf(u)
  OBVIOUS
<1>3. /\ Settled(setup, U, contents[u], 0) /\ U.alloc = T.alloc
      /\ PresentIn(setup, U) = PresentIn(setup, T)
  <2>1. CASE T.alloc = 0
    <3>1. T \in {NoTable, MovedFrom} /\ contents[u] = {}
      BY <1>1, <2>1, SettledFacts
    <3>2. U = [T EXCEPT !.storage = "null"]
      BY <1>2, <2>1 DEF CopyOf
    <3> HIDE DEF T
    <3>3. U = MovedFrom
      BY <3>1, <3>2 DEF NoTable, MovedFrom
    <3>4. U.alloc = 0 /\ PresentIn(setup, U) = {}
      BY <3>3, NoEntries
    <3>5. PresentIn(setup, T) = {}
      BY <3>1, NoEntries
    <3> QED
      BY <2>1, <3>1, <3>3, <3>4, <3>5 DEF Settled
  <2>2. CASE T.alloc # 0
    <3>1. /\ Sound(setup, T) /\ IsTable(setup, T) /\ Budgeted(T)
          /\ KeysIn(setup, T) = contents[u]
      BY <1>1, <2>2, SettledFacts
    <3>2. U = [T EXCEPT !.storage = IF T.alloc = setup.small THEN "small" ELSE "heap"]
      BY <1>2, <2>2 DEF CopyOf, IsSmall
    <3>3. /\ T = [alloc |-> T.alloc, budget |-> T.budget, storage |-> T.storage,
                  slots |-> T.slots]
          /\ T.storage = IF T.alloc = setup.small THEN "small" ELSE "heap"
      BY <3>1 DEF IsTable
    <3> HIDE DEF T
    <3>4. U = T
      BY <3>2, <3>3
    <3>5. 0 <= T.budget
      BY <3>1 DEF Budgeted, IsTable
    <3> QED
      BY <3>1, <3>4, <3>5 DEF Settled
  <2> QED
    BY <2>1, <2>2
<1>4. Allocated(U) = OnHeap(U)
  BY <1>1, <1>3, SettledFacts
<1> QED
  BY <1>2, <1>3, <1>4

\* CopyConstruct.
LEMMA CopyConstructInv ==
  ASSUME IInv, Idle, NEW t \in Tables, NEW u \in Tables, CopyConstruct(t, u)
  PROVE  IInv'
<1>1. /\ setup \in Setups /\ heap \in Nat /\ live \in Nat /\ contents[u] \in SUBSET Keys
      /\ Cardinality(PresentIn(setup, table[u])) \in Nat
  BY IdleFacts
<1>2. PICK U : U = CopyOf(u)
  OBVIOUS
<1>3. /\ Settled(setup, U, contents[u], 0) /\ Allocated(U) = OnHeap(U)
      /\ PresentIn(setup, U) = PresentIn(setup, table[u])
  BY <1>2, CopyFacts
<1>4. OnHeap(table[t]) = 0 /\ Cardinality(PresentIn(setup, table[t])) = 0
  BY NotConstructed DEF CopyConstruct
<1>5. OnHeap(U) \in {0, 1}
  BY DEF OnHeap
<1>6. PresentSlots(table[u]) = PresentIn(setup, table[u])
  BY DEF PresentSlots, PresentIn, Keys
<1>7. /\ Replace(t, U, contents[u]) /\ heap' = heap + OnHeap(U)
      /\ live' = live + Cardinality(PresentIn(setup, table[u]))
  BY <1>2, <1>3, <1>6 DEF CopyConstruct
<1>8. heap' = heap - OnHeap(table[t]) + OnHeap(U)
  BY <1>1, <1>4, <1>5, <1>7
<1>9. live' = live - Cardinality(PresentIn(setup, table[t]))
                   + Cardinality(PresentIn(setup, U))
  BY <1>1, <1>3, <1>4, <1>7
<1> QED
  BY <1>1, <1>3, <1>7, <1>8, <1>9, ReplaceInv

\* CopyAssign.
LEMMA CopyAssignInv ==
  ASSUME IInv, Idle, NEW t \in Tables, NEW u \in Tables, CopyAssign(t, u)
  PROVE  IInv'
<1> DEFINE T == table[t]
<1>1. /\ setup \in Setups /\ heap \in Nat /\ live \in Nat
      /\ Settled(setup, T, contents[t], reserved[t])
      /\ Cardinality(PresentIn(setup, T)) \in Nat /\ OnHeap(T) \in {0, 1}
  BY IdleFacts
<1>2. contents[u] \in SUBSET Keys /\ Cardinality(PresentIn(setup, table[u])) \in Nat
  BY IdleFacts
<1>3. PICK U : U = CopyOf(u)
  OBVIOUS
<1>4. /\ Settled(setup, U, contents[u], 0) /\ Allocated(U) = OnHeap(U)
      /\ PresentIn(setup, U) = PresentIn(setup, table[u]) /\ U.alloc = table[u].alloc
  BY <1>3, CopyFacts
<1>5. OnHeap(U) \in {0, 1}
  BY DEF OnHeap
<1>6. PresentSlots(table[u]) = PresentIn(setup, table[u])
  BY DEF PresentSlots, PresentIn, Keys
<1>7. Replace(t, U, contents[u])
  BY <1>3 DEF CopyAssign
<1>8. PICK n \in DestroyEntries(T) : live' = live - n + Cardinality(PresentIn(setup, table[u]))
  BY <1>6 DEF CopyAssign
<1>9. n = Cardinality(PresentIn(setup, T)) /\ Deallocated(T) = OnHeap(T)
  BY <1>1, SettledFacts
<1>10. live' = live - Cardinality(PresentIn(setup, T)) + Cardinality(PresentIn(setup, U))
  BY <1>4, <1>8, <1>9
<1>11. heap' = heap - OnHeap(T) + OnHeap(U)
  <2>1. CASE T.alloc # table[u].alloc
    BY <2>1, <1>3, <1>4, <1>9 DEF CopyAssign
  <2>2. CASE T.alloc = table[u].alloc
    <3>1. heap' = heap /\ T.alloc = U.alloc
      BY <2>2, <1>4 DEF CopyAssign
    <3>2. Deallocated(T) = Deallocated(U)
      BY <3>1 DEF Deallocated, IsSmall
    <3>3. Deallocated(U) = OnHeap(U)
      BY <1>1, <1>4, SettledFacts
    <3> QED
      BY <3>1, <3>2, <3>3, <1>1, <1>5, <1>9
  <2> QED
    BY <2>1, <2>2
<1> QED
  BY <1>2, <1>4, <1>7, <1>10, <1>11, ReplaceInv

\* The balance after a table has moved to another.
LEMMA MoveBalance ==
  ASSUME NEW s \in Setups, NEW tab, IsMap(tab, s.tables), NEW t \in s.tables,
         NEW u \in s.tables, t # u, AllFinite(s, tab), NEW h, NEW l, h \in Nat, l \in Nat,
         Balanced(s, tab, NoTable, {}, h, l), NEW new, IsMap(new, s.tables),
         new[t] = tab[u], new[u] = MovedFrom,
         \A x \in s.tables \ {t, u} : new[x] = tab[x]
  PROVE  Balanced(s, new, NoTable, {}, h - OnHeap(tab[t]),
                                       l - Cardinality(PresentIn(s, tab[t])))
<1>1. PICK mid : mid = [tab EXCEPT ![t] = tab[u]]
  OBVIOUS
<1>2. /\ mid[t] = tab[u] /\ mid[u] = tab[u]
      /\ OnlyAt(s, tab, mid, t) /\ OnlyAt(s, mid, new, u)
  BY <1>1 DEF IsMap, OnlyAt
<1>3. /\ PresentIn(s, MovedFrom) = {} /\ IsFiniteSet(PresentIn(s, MovedFrom))
      /\ OnHeap(MovedFrom) = 0 /\ OnHeap(NoTable) = 0
      /\ Cardinality(PresentIn(s, MovedFrom)) = 0 /\ Cardinality({}) = 0
  BY NoEntries, FS_EmptySet
<1>4. AllFinite(s, mid)
  BY <1>2 DEF AllFinite, OnlyAt
<1>5. AllFinite(s, new)
  BY <1>2, <1>3, <1>4 DEF AllFinite, OnlyAt
<1>6. Cardinality({}) \in Nat
  BY <1>3
<1>7. PICK hh, ll : /\ hh = HeapAfter(h, tab[t], NoTable, mid[t], NoTable)
                    /\ ll = LiveAfter(s, l, tab[t], {}, mid[t], {})
  OBVIOUS
<1>8. Balanced(s, mid, NoTable, {}, hh, ll)
  BY <1>2, <1>4, <1>6, <1>7, BalanceChange
<1>9. Balanced(s, new, NoTable, {}, HeapAfter(hh, mid[u], NoTable, new[u], NoTable),
                                    LiveAfter(s, ll, mid[u], {}, new[u], {}))
  BY <1>2, <1>4, <1>5, <1>6, <1>8, BalanceChange
<1>10. /\ Cardinality(PresentIn(s, tab[t])) \in Nat /\ Cardinality(PresentIn(s, tab[u])) \in Nat
  BY FS_CardinalityType DEF AllFinite
<1>11. OnHeap(tab[t]) \in {0, 1} /\ OnHeap(tab[u]) \in {0, 1}
  BY DEF OnHeap
<1>12. HeapAfter(hh, mid[u], NoTable, new[u], NoTable) = h - OnHeap(tab[t])
  BY <1>2, <1>3, <1>7, <1>11 DEF HeapAfter
<1>13. LiveAfter(s, ll, mid[u], {}, new[u], {}) = l - Cardinality(PresentIn(s, tab[t]))
  BY <1>2, <1>3, <1>7, <1>10 DEF LiveAfter
<1> QED
  BY <1>9, <1>12, <1>13

\* A move, of t's own or of another table.
LEMMA MovedInv ==
  ASSUME IInv, Idle, NEW t \in Tables, NEW u \in Tables, Moved(t, u),
         heap' = heap - OnHeap(table[t]),
         live' = live - Cardinality(PresentIn(setup, table[t]))
  PROVE  IInv'
<1>1. /\ setup \in Setups /\ heap \in Nat /\ live \in Nat
      /\ Settled(setup, table[u], contents[u], reserved[u])
      /\ contents[u] \in SUBSET Keys
      /\ contents \in [Tables -> SUBSET Keys] /\ reserved \in [Tables -> 0..MaxReserve]
  BY IdleFacts
<1>2. Cardinality(PresentIn(setup, table[t])) \in Nat /\ OnHeap(table[t]) \in {0, 1}
  BY IdleFacts
<1>3. 0 \in 0..MaxReserve /\ {} \in SUBSET Keys
  BY SizesAssumption
<1>4. /\ OnHeap(MovedFrom) = 0 /\ Cardinality(PresentIn(setup, MovedFrom)) = 0
      /\ Settled(setup, MovedFrom, {}, 0)
  BY NoEntries DEF Settled
<1>5. UNCHANGED <<setup, growthVars>>
  BY DEF Moved
<1>6. CASE t = u
  <2>1. /\ table' = [table EXCEPT ![t] = MovedFrom] /\ contents' = [contents EXCEPT ![t] = {}]
        /\ reserved' = [reserved EXCEPT ![t] = 0]
    BY <1>1, <1>6 DEF Moved, IInv, IsMap
  <2>2. /\ heap' = heap - OnHeap(table[t]) + OnHeap(MovedFrom)
        /\ live' = live - Cardinality(PresentIn(setup, table[t]))
                        + Cardinality(PresentIn(setup, MovedFrom))
    BY <1>1, <1>2, <1>4
  <2> QED
    BY <1>3, <1>4, <1>5, <2>1, <2>2, OneStep
<1>7. CASE t # u
  <2>1. PICK new : new = table'
    OBVIOUS
  <2>2. /\ IsMap(table, setup.tables) /\ IsMap(new, setup.tables)
        /\ t \in setup.tables /\ u \in setup.tables
        /\ new[t] = table[u] /\ new[u] = MovedFrom
        /\ \A x \in setup.tables \ {t, u} : new[x] = table[x]
    BY <1>7, <2>1 DEF Moved, IInv, IsMap, Tables
  <2>3. /\ contents'[t] = contents[u] /\ contents'[u] = {}
        /\ reserved'[t] = 0 /\ reserved'[u] = 0
        /\ contents' \in [Tables -> SUBSET Keys] /\ reserved' \in [Tables -> 0..MaxReserve]
        /\ \A x \in Tables \ {t, u} : contents'[x] = contents[x] /\ reserved'[x] = reserved[x]
    BY <1>1, <1>3, <1>7 DEF Moved
  <2>4. /\ growing = {} /\ old = NoTable /\ left = {} /\ inserting = {}
        /\ Balanced(setup, table, NoTable, {}, heap, live) /\ AllFinite(setup, table)
    BY TablesFinite DEF IInv, Idle, AllFinite, Tables
  <2>5. Balanced(setup, new, NoTable, {}, heap - OnHeap(table[t]),
                                     live - Cardinality(PresentIn(setup, table[t])))
    BY <1>1, <1>7, <2>2, <2>4, MoveBalance
  <2>6. Settled(setup, table[u], contents[u], 0)
    <3>1. CASE table[u] \in {NoTable, MovedFrom} /\ contents[u] = {}
      BY <3>1 DEF Settled
    <3>2. CASE Sound(setup, table[u]) /\ Budgeted(table[u]) /\ KeysIn(setup, table[u]) = contents[u]
      BY <3>2 DEF Settled, Budgeted, Sound, IsTable
    <3> QED
      BY <1>1, <3>1, <3>2 DEF Settled
  <2>7. \A x \in Tables : Settled(setup, new[x], contents'[x], reserved'[x])
    <3>1. Settled(setup, new[t], contents'[t], reserved'[t])
      BY <2>2, <2>3, <2>6
    <3>2. Settled(setup, new[u], contents'[u], reserved'[u])
      BY <2>2, <2>3, <1>4
    <3>3. ASSUME NEW x \in Tables \ {t, u}
          PROVE  Settled(setup, new[x], contents'[x], reserved'[x])
      BY <2>2, <2>3, <2>4 DEF IInv, Tables
    <3> QED
      BY <3>1, <3>2, <3>3
  <2>8. /\ setup' = setup /\ growing' = {} /\ old' = NoTable /\ left' = {} /\ inserting' = {}
    BY <1>5, <2>4 DEF growthVars
  <2>9. Balanced(setup, table', old', left', heap', live')
    BY <2>1, <2>5, <2>8
  <2>10. \A x \in Tables : Settled(setup, table'[x], contents'[x], reserved'[x])
    BY <2>1, <2>7
  <2>11. IsMap(table', Tables)
    BY <2>1, <2>2 DEF Tables
  <2> QED
    BY <1>1, <2>3, <2>8, <2>9, <2>10, <2>11 DEF IInv, Tables, Keys
<1> QED
  BY <1>6, <1>7

\* MoveConstruct.
LEMMA MoveConstructInv ==
  ASSUME IInv, Idle, NEW t \in Tables, NEW u \in Tables, MoveConstruct(t, u)
  PROVE  IInv'
<1>1. heap \in Nat /\ live \in Nat
  BY IdleFacts
<1>2. OnHeap(table[t]) = 0 /\ Cardinality(PresentIn(setup, table[t])) = 0
  BY NotConstructed DEF MoveConstruct
<1>3. /\ heap' = heap - OnHeap(table[t])
      /\ live' = live - Cardinality(PresentIn(setup, table[t]))
  BY <1>1, <1>2 DEF MoveConstruct
<1>4. Moved(t, u)
  BY DEF MoveConstruct
<1> QED
  BY <1>3, <1>4, MovedInv

\* MoveAssign.
LEMMA MoveAssignInv ==
  ASSUME IInv, Idle, NEW t \in Tables, NEW u \in Tables, MoveAssign(t, u)
  PROVE  IInv'
<1>1. setup \in Setups /\ Settled(setup, table[t], contents[t], reserved[t])
  BY IdleFacts
<1>2. PICK n \in DestroyEntries(table[t]) : live' = live - n
  BY DEF MoveAssign
<1>3. n = Cardinality(PresentIn(setup, table[t])) /\ Deallocated(table[t]) = OnHeap(table[t])
  BY <1>1, SettledFacts
<1>4. /\ heap' = heap - OnHeap(table[t])
      /\ live' = live - Cardinality(PresentIn(setup, table[t]))
  BY <1>2, <1>3 DEF MoveAssign
<1>5. Moved(t, u)
  BY DEF MoveAssign
<1> QED
  BY <1>4, <1>5, MovedInv

\* What a table that grows has.
LEMMA GrowingFacts ==
  ASSUME IInv, NEW t \in growing
  PROVE  /\ setup \in Setups /\ t \in Tables /\ growing = {t}
         /\ Moving(setup, table[t], old, left, inserting, contents[t], reserved[t])
         /\ IsTable(setup, table[t]) /\ IsTable(setup, old) /\ IsMap(table, Tables)
         /\ contents \in [Tables -> SUBSET Keys] /\ reserved \in [Tables -> 0..MaxReserve]
         /\ reserved[t] \in Nat /\ Deallocated(old) = OnHeap(old)
         /\ heap \in Nat /\ live \in Nat /\ Cardinality(left) \in Nat
         /\ Cardinality(PresentIn(setup, table[t])) \in Nat
         /\ OnHeap(table[t]) \in {0, 1} /\ OnHeap(old) \in {0, 1}
<1>1. /\ setup \in Setups /\ t \in Tables /\ growing = {t} /\ IsMap(table, Tables)
      /\ Moving(setup, table[t], old, left, inserting, contents[t], reserved[t])
      /\ contents \in [Tables -> SUBSET Keys] /\ reserved \in [Tables -> 0..MaxReserve]
  BY DEF IInv
<1>2. IsTable(setup, table[t]) /\ IsTable(setup, old)
  BY <1>1 DEF Moving, Sound
<1>3. Cardinality(PresentIn(setup, table[t])) \in Nat /\ old.alloc \in Nat /\ old.alloc > 0
  BY <1>1, <1>2, TableFacts
<1>4. Deallocated(old) = OnHeap(old)
  BY <1>2, <1>3 DEF Deallocated, OnHeap, IsSmall, IsTable
<1>5. reserved[t] \in Nat
  BY <1>1, SizesAssumption
<1>6. Cardinality(left) \in Nat
  BY TablesFinite
<1> QED
  BY <1>1, <1>2, <1>3, <1>4, <1>5, <1>6, Counters DEF OnHeap

\* A step of growing that changes only the table and the slots that are left.
LEMMA ReinsertInv ==
  ASSUME IInv, NEW t \in growing, Reinsert(t)
  PROVE  IInv'
<1> DEFINE T == table[t]
<1>1. /\ setup \in Setups /\ t \in Tables /\ growing = {t}
      /\ Moving(setup, T, old, left, inserting, contents[t], reserved[t])
      /\ IsTable(setup, old) /\ IsMap(table, Tables)
      /\ contents \in [Tables -> SUBSET Keys] /\ reserved \in [Tables -> 0..MaxReserve]
      /\ heap \in Nat /\ live \in Nat /\ Cardinality(left) \in Nat
      /\ Cardinality(PresentIn(setup, T)) \in Nat
      /\ OnHeap(T) \in {0, 1} /\ OnHeap(old) \in {0, 1}
  BY GrowingFacts
<1>2. left \subseteq PresentIn(setup, old) /\ left # {}
  BY <1>1 DEF Moving, Reinsert
<1>3. left \in SUBSET Nat
  BY <1>2, <1>1 DEF PresentIn, IsTable
<1>4. PICK i \in left : i = Min(left)
  BY <1>2, <1>3, MinLeast
<1>5. PICK U : U = InsertIntoEmpty(T, old.slots[i])
  OBVIOUS
<1>6. PICK rest : rest = left \ {i}
  OBVIOUS
<1>7. /\ Moving(setup, U, old, rest, inserting, contents[t], reserved[t])
      /\ U.storage = T.storage
      /\ Cardinality(PresentIn(setup, U)) = Cardinality(PresentIn(setup, T)) + 1
      /\ Cardinality(rest) = Cardinality(left) - 1
  BY <1>1, <1>5, <1>6, MovesOne
<1>8. /\ table' = [table EXCEPT ![t] = U] /\ left' = rest
      /\ setup' = setup /\ growing' = {t} /\ old' = old /\ inserting' = inserting
      /\ heap' = heap /\ live' = live /\ contents' = contents /\ reserved' = reserved
  BY <1>1, <1>4, <1>5, <1>6 DEF Reinsert
<1>9. /\ table'[t] = U /\ IsMap(table', Tables)
      /\ \A u \in Tables \ {t} : table'[u] = table[u]
  BY <1>1, <1>8 DEF IsMap
<1>10. OnHeap(U) = OnHeap(T)
  BY <1>7 DEF OnHeap
<1>11. heap' = HeapAfter(heap, T, old, U, old)
  BY <1>1, <1>8, <1>10 DEF HeapAfter
<1>12. live' = LiveAfter(setup, live, T, left, U, rest)
  BY <1>1, <1>7, <1>8 DEF LiveAfter
<1> QED
  BY <1>1, <1>7, <1>8, <1>9, <1>11, <1>12, OneTable

\* The last step of growing.
LEMMA EndGrowthInv ==
  ASSUME IInv, NEW t \in growing, NEW U, EndGrowth(t, U),
         Settled(setup, U, contents[t], reserved[t]), U.storage = table[t].storage,
         live' = live - Cardinality(PresentIn(setup, table[t]))
                   + Cardinality(PresentIn(setup, U))
  PROVE  IInv'
<1> DEFINE T == table[t]
<1>1. /\ setup \in Setups /\ t \in Tables /\ growing = {t} /\ IsMap(table, Tables)
      /\ contents \in [Tables -> SUBSET Keys] /\ reserved \in [Tables -> 0..MaxReserve]
      /\ heap \in Nat /\ live \in Nat /\ Cardinality(PresentIn(setup, T)) \in Nat
      /\ OnHeap(T) \in {0, 1} /\ OnHeap(old) \in {0, 1} /\ Deallocated(old) = OnHeap(old)
  BY GrowingFacts
<1>2. /\ table' = [table EXCEPT ![t] = U] /\ left = {} /\ left' = {}
      /\ setup' = setup /\ growing' = {} /\ old' = NoTable /\ inserting' = {}
      /\ heap' = heap - OnHeap(old) /\ contents' = contents /\ reserved' = reserved
  BY <1>1 DEF EndGrowth
<1>3. /\ table'[t] = U /\ IsMap(table', Tables)
      /\ \A u \in Tables \ {t} : table'[u] = table[u]
  BY <1>1, <1>2 DEF IsMap
<1>4. OnHeap(U) = OnHeap(T)
  BY DEF OnHeap
<1>5. OnHeap(NoTable) = 0 /\ Cardinality({}) = 0
  BY NoEntries, FS_EmptySet
<1>6. Cardinality(PresentIn(setup, U)) \in Nat
  BY <1>1, SettledFacts
<1>7. heap' = HeapAfter(heap, T, old, U, NoTable)
  BY <1>1, <1>2, <1>4, <1>5 DEF HeapAfter
<1>8. live' = LiveAfter(setup, live, T, left, U, left')
  BY <1>1, <1>2, <1>5, <1>6 DEF LiveAfter
<1> QED
  BY <1>1, <1>2, <1>3, <1>7, <1>8, OneTable

\* FinishGrowth.
LEMMA FinishGrowthInv ==
  ASSUME IInv, NEW t \in growing, FinishGrowth(t)
  PROVE  IInv'
<1> DEFINE T == table[t]
<1>1. /\ setup \in Setups /\ IsTable(setup, T) /\ reserved[t] \in Nat
      /\ Moving(setup, T, old, left, inserting, contents[t], reserved[t])
      /\ live \in Nat /\ Cardinality(PresentIn(setup, T)) \in Nat
  BY GrowingFacts
<1>2. left = {} /\ inserting = {} /\ EndGrowth(t, Charged(T)) /\ live' = live
  BY DEF FinishGrowth, EndGrowth
<1>3. PICK n : n = Cardinality(PresentIn(setup, old))
  OBVIOUS
<1>4. PICK U : U = Rebudgeted(T, T.budget - n)
  OBVIOUS
<1>5. U = Charged(T)
  <2>1. PresentSlots(old) = PresentIn(setup, old)
    BY DEF PresentSlots, PresentIn, Keys
  <2>2. Charged(T) = [T EXCEPT !.budget = @ - n]
    BY <1>3, <2>1 DEF Charged
  <2>3. T = [alloc |-> T.alloc, budget |-> T.budget, storage |-> T.storage, slots |-> T.slots]
    BY <1>1 DEF IsTable
  <2> HIDE DEF T
  <2> QED
    BY <1>4, <2>2, <2>3 DEF Rebudgeted
<1>6. Moving(setup, T, old, {}, {}, contents[t], reserved[t])
  BY <1>1, <1>2
<1>7. /\ Settled(setup, U, contents[t], reserved[t]) /\ U.storage = T.storage
      /\ PresentIn(setup, U) = PresentIn(setup, T)
  BY <1>1, <1>3, <1>4, <1>6, MoveSettles
<1>8. live' = live - Cardinality(PresentIn(setup, T)) + Cardinality(PresentIn(setup, U))
  BY <1>1, <1>2, <1>7
<1> QED
  BY <1>2, <1>5, <1>7, <1>8, EndGrowthInv

\* FinishInsert.
LEMMA FinishInsertInv ==
  ASSUME IInv, NEW t \in growing, NEW k, FinishInsert(t, k)
  PROVE  IInv'
<1> DEFINE T == table[t]
<1>1. /\ setup \in Setups /\ IsTable(setup, T) /\ reserved[t] \in Nat
      /\ Moving(setup, T, old, left, inserting, contents[t], reserved[t])
      /\ live \in Nat /\ Cardinality(PresentIn(setup, T)) \in Nat
  BY GrowingFacts
<1>2. /\ left = {} /\ inserting = {k} /\ live' = live + 1
      /\ EndGrowth(t, InsertIntoEmpty([Charged(T) EXCEPT !.budget = @ - 1], k))
  BY DEF FinishInsert, EndGrowth
<1>3. PICK n : n = Cardinality(PresentIn(setup, old))
  OBVIOUS
<1>4. PICK U : U = Rebudgeted(T, (T.budget - n) - 1)
  OBVIOUS
<1>5. U = [Charged(T) EXCEPT !.budget = @ - 1]
  <2>1. PresentSlots(old) = PresentIn(setup, old)
    BY DEF PresentSlots, PresentIn, Keys
  <2>2. Charged(T) = [T EXCEPT !.budget = @ - n]
    BY <1>3, <2>1 DEF Charged
  <2>3. T = [alloc |-> T.alloc, budget |-> T.budget, storage |-> T.storage, slots |-> T.slots]
    BY <1>1 DEF IsTable
  <2> HIDE DEF T
  <2>4. Charged(T) = Rebudgeted(T, T.budget - n)
    BY <2>2, <2>3 DEF Rebudgeted
  <2>5. [Rebudgeted(T, T.budget - n) EXCEPT !.budget = @ - 1]
          = Rebudgeted(T, (T.budget - n) - 1)
    BY DEF Rebudgeted
  <2> QED
    BY <1>4, <2>4, <2>5
<1>6. Moving(setup, T, old, {}, {k}, contents[t], reserved[t])
  BY <1>1, <1>2
<1>7. PICK V : V = InsertIntoEmpty(U, k)
  OBVIOUS
<1>8. /\ Settled(setup, V, contents[t], reserved[t]) /\ V.storage = T.storage
      /\ Cardinality(PresentIn(setup, V)) = Cardinality(PresentIn(setup, T)) + 1
  <2>1. /\ Settled(setup, InsertIntoEmpty(U, k), contents[t], reserved[t])
        /\ InsertIntoEmpty(U, k).storage = T.storage
        /\ Cardinality(PresentIn(setup, InsertIntoEmpty(U, k)))
             = Cardinality(PresentIn(setup, T)) + 1
    <3> HIDE DEF T
    <3>1. ChargedForOneMore(setup, T, old, U)
      BY <1>3, <1>4 DEF ChargedForOneMore
    <3> QED
      BY <1>1, <1>6, <3>1, MoveInserts
  <2> QED
    BY <2>1, <1>7
<1>9. live' = live - Cardinality(PresentIn(setup, T)) + Cardinality(PresentIn(setup, V))
  BY <1>1, <1>2, <1>8
<1>10. EndGrowth(t, V)
  BY <1>2, <1>5, <1>7
<1> QED
  BY <1>8, <1>9, <1>10, EndGrowthInv
----------------------------------------------------------------------------
(* Theorems                                                                 *)

\* There are no objects at first.
LEMMA InitInv ==
  ASSUME Init
  PROVE  IInv
<1>1. /\ setup \in Setups /\ table = [t \in Tables |-> NoTable]
      /\ growing = {} /\ old = NoTable /\ left = {} /\ inserting = {}
      /\ heap = 0 /\ live = 0
      /\ contents = [t \in Tables |-> {}] /\ reserved = [t \in Tables |-> 0]
  BY DEF Init
<1>2. /\ OnHeap(NoTable) = 0 /\ PresentIn(setup, NoTable) = {} /\ Cardinality({}) = 0
      /\ NoTable.storage # "heap" /\ 0 \in 0..MaxReserve
  BY NoEntries, FS_EmptySet, SizesAssumption DEF NoTable
<1>3. HeapTables(setup, table) = {}
  BY <1>1, <1>2 DEF HeapTables, Tables
<1>4. Entries(setup, table) = {}
  BY <1>1, <1>2 DEF Entries, Tables
<1>5. Balanced(setup, table, old, left, heap, live)
  BY <1>1, <1>2, <1>3, <1>4 DEF Balanced
<1>6. \A t \in Tables : Settled(setup, table[t], contents[t], reserved[t])
  BY <1>1 DEF Settled
<1>7. IsMap(table, Tables)
  BY <1>1 DEF IsMap
<1>8. contents \in [Tables -> SUBSET Keys] /\ reserved \in [Tables -> 0..MaxReserve]
  BY <1>1, <1>2
<1> QED
  BY <1>1, <1>5, <1>6, <1>7, <1>8 DEF IInv

\* Every step keeps the invariant.
LEMMA NextInv ==
  ASSUME IInv, [Next]_vars
  PROVE  IInv'
<1>1. ASSUME Idle, NEW t \in Tables, Operation(t) PROVE IInv'
  <2>1. ASSUME NEW k \in Keys, Insert(t, k) PROVE IInv'
    BY <1>1, <2>1, InsertInv
  <2>2. ASSUME NEW k \in Keys, Erase(t, k) PROVE IInv'
    BY <1>1, <2>2, EraseInv
  <2>3. ASSUME NEW size \in GroupSize..MaxAllocSize, GrowToAllocSize(t, size) PROVE IInv'
    <3>1. size \in Nat
      BY SizesAssumption
    <3> QED
      BY <1>1, <2>3, <3>1, GrowToAllocSizeInv
  <2>4. ASSUME NEW n \in 1..MaxReserve, GrowForInsertCount(t, n) PROVE IInv'
    BY <1>1, <2>4, GrowForInsertCountInv
  <2>5. ASSUME Clear(t) PROVE IInv'
    BY <1>1, <2>5, ClearInv
  <2>6. ASSUME Construct(t) PROVE IInv'
    BY <1>1, <2>6, ConstructInv
  <2>7. ASSUME Reset(t) PROVE IInv'
    BY <1>1, <2>7, DestructInv DEF Reset
  <2>8. ASSUME Destruct(t, NoTable) PROVE IInv'
    BY <1>1, <2>8, DestructInv
  <2>9. ASSUME NEW u \in Tables, CopyConstruct(t, u) PROVE IInv'
    BY <1>1, <2>9, CopyConstructInv
  <2>10. ASSUME NEW u \in Tables, CopyAssign(t, u) PROVE IInv'
    BY <1>1, <2>10, CopyAssignInv
  <2>11. ASSUME NEW u \in Tables, MoveConstruct(t, u) PROVE IInv'
    BY <1>1, <2>11, MoveConstructInv
  <2>12. ASSUME NEW u \in Tables, MoveAssign(t, u) PROVE IInv'
    BY <1>1, <2>12, MoveAssignInv
  <2> QED
    BY <1>1, <2>1, <2>2, <2>3, <2>4, <2>5, <2>6, <2>7, <2>8, <2>9, <2>10, <2>11, <2>12
    DEF Operation
<1>2. ASSUME NEW t \in growing, Reinsert(t) PROVE IInv'
  BY <1>2, ReinsertInv
<1>3. ASSUME NEW t \in growing, FinishGrowth(t) PROVE IInv'
  BY <1>3, FinishGrowthInv
<1>4. ASSUME NEW t \in growing, NEW k \in inserting, FinishInsert(t, k) PROVE IInv'
  BY <1>4, FinishInsertInv
<1>5. CASE UNCHANGED vars
  BY <1>5, Stutter
<1> QED
  BY <1>1, <1>2, <1>3, <1>4, <1>5 DEF Next

\* Between operations and while a table grows, every table keeps the invariant:
\* a search comes to each of its entries before it comes to an empty slot, its
\* budget is what the filled slots leave, and the entries that are yet to be
\* inserted again have room.
THEOREM InvariantHolds == Spec => []IInv
<1>1. Init => IInv
  BY InitInv
<1>2. IInv /\ [Next]_vars => IInv'
  BY NextInv
<1> QED
  BY <1>1, <1>2, PTL DEF Spec

\* The shape that the invariant implies.
LEMMA Shape ==
  ASSUME IInv, NEW t \in Tables
  PROVE  /\ table[t].alloc = 0 \/ IsPowerOf2(table[t].alloc)
         /\ table[t].slots \in [0..(table[t].alloc - 1) -> {Empty, Deleted} \cup Keys]
         /\ Usable(t) => table[t].storage = IF IsSmall(table[t]) THEN "small" ELSE "heap"
<1> DEFINE T == table[t]
<1>1. setup \in Setups
  BY DEF IInv
<1>2. T \in {NoTable, MovedFrom} \/ IsTable(setup, T)
  <2>1. CASE t \in growing
    BY <2>1 DEF IInv, Moving, Sound
  <2>2. CASE t \notin growing
    BY <2>2 DEF IInv, Settled, Sound
  <2> QED
    BY <2>1, <2>2
<1>3. CASE T \in {NoTable, MovedFrom}
  <2>1. T.alloc = 0 /\ T.slots = EmptySlots(0)
    BY <1>3, NoEntries
  <2>2. EmptySlots(0) \in [0..(0 - 1) -> {Empty, Deleted} \cup Keys]
    BY DEF EmptySlots
  <2>3. ~Usable(t)
    BY <2>1 DEF Usable
  <2> QED
    BY <2>1, <2>2, <2>3
<1>4. CASE IsTable(setup, T)
  BY <1>4 DEF IsTable, IsSmall, Keys
<1> QED
  BY <1>2, <1>3, <1>4

\* For every size, load and hash: a table has the shape the header promises, and
\* every storage and every entry that was constructed is given back once, whatever
\* is copied, moved, cleared, grown or destroyed, and in whatever order the
\* groups are walked.
THEOREM TypesHold == Spec => []TypeOK
<1>1. ASSUME IInv PROVE TypeOK
  <2>1. /\ setup \in Setups /\ contents \in [Tables -> SUBSET Keys]
        /\ reserved \in [Tables -> 0..MaxReserve] /\ growing \subseteq Tables
    BY <1>1 DEF IInv
  <2>2. \A t \in Tables : contents[t] \subseteq Keys /\ reserved[t] \in 0..MaxReserve
    BY <2>1
  <2>3. left \subseteq PresentSlots(old)
    BY <1>1 DEF IInv, Moving, PresentSlots, PresentIn, Keys
  <2>4. /\ heap = Cardinality(HeapTables(setup, table)) + OnHeap(old)
        /\ live = Cardinality(Entries(setup, table)) + Cardinality(left)
    BY <1>1 DEF IInv, Balanced
  <2>5. heap = Cardinality({t \in Tables : table[t].storage = "heap"})
               + IF old.storage = "heap" THEN 1 ELSE 0
    BY <2>4 DEF HeapTables, OnHeap, Tables
  <2>6. live = Cardinality(UNION {{t} \X PresentSlots(table[t]) : t \in Tables})
               + Cardinality(left)
    BY <2>4 DEF Entries, PresentIn, PresentSlots, Tables, Keys
  <2> QED
    BY <1>1, <2>1, <2>2, <2>3, <2>5, <2>6, Shape DEF TypeOK
<1> QED
  BY <1>1, InvariantHolds, PTL

\* Whatever the hashes and the history of collisions, deletions and growth, a
\* lookup (LookupEntry, from Contains, Lookup, Insert and Erase) finds exactly the
\* keys that were inserted and not erased since, and no key is there twice.
THEOREM LookupsFindWhatIsThere == Spec => []FindsWhatIsThere
<1>1. ASSUME IInv, Idle, NEW t \in Tables, Usable(t)
      PROVE  /\ \A k \in Keys : (LookupEntry(table[t], k) # NotFound) <=> (k \in contents[t])
             /\ Cardinality(PresentSlots(table[t])) = Cardinality(contents[t])
  <2> DEFINE T == table[t]
             P == PresentSlots(T)
             f == [i \in P |-> T.slots[i]]
  <2>1. /\ setup \in Setups /\ Sound(setup, T) /\ IsTable(setup, T)
        /\ KeysIn(setup, T) = contents[t]
        /\ \A k \in Keys : LookupEntry(T, k) # NotFound <=> k \in contents[t]
    BY <1>1, UsableFacts
  <2>2. P = PresentIn(setup, T)
    BY DEF PresentSlots, PresentIn, Keys
  <2>3. IsFiniteSet(P)
    BY <2>1, <2>2, TableFacts
  <2>4. contents[t] = {T.slots[i] : i \in P}
    BY <2>1, <2>2 DEF KeysIn, KeysAt
  <2>5. \A i, j \in P : T.slots[i] = T.slots[j] => i = j
    BY <2>1, <2>2 DEF Sound, Distinct
  <2> HIDE DEF P, T
  <2>6. f \in [P -> contents[t]] /\ \A x \in contents[t] : \E i \in P : f[i] = x
    BY <2>4
  <2>7. f \in Bijection(P, contents[t])
    BY <2>5, <2>6 DEF Bijection, Injection, IsInjective, Surjection
  <2>8. ExistsBijection(P, contents[t])
    BY <2>7 DEF ExistsBijection
  <2>9. Cardinality(contents[t]) = Cardinality(P)
    BY <2>3, <2>8, FS_Bijection
  <2> QED
    BY <2>1, <2>9 DEF P, T
<1>2. IInv => FindsWhatIsThere
  BY <1>1 DEF FindsWhatIsThere
<1> QED
  BY <1>2, InvariantHolds, PTL

\* growth_budget is what the header says it is, never negative, and deletion
\* markers never use up the empty slots: every probe of every key ends.
THEOREM BudgetsAreExact == Spec => []BudgetIsExact
<1>1. ASSUME IInv, Idle, NEW t \in Tables, Usable(t)
      PROVE  /\ table[t].budget = GrowthThresholdForAllocSize(table[t].alloc)
                   - Cardinality({i \in DOMAIN table[t].slots : table[t].slots[i] # Empty})
             /\ table[t].budget >= 0
             /\ \A k \in Keys : Stops(table[t], k) # {}
  <2>1. setup \in Setups /\ IsTable(setup, table[t]) /\ Budgeted(table[t])
    BY <1>1, UsableFacts
  <2>2. \E i \in DOMAIN table[t].slots : table[t].slots[i] = Empty
    BY <2>1, BudgetedEmpty
  <2>3. \A k \in Keys : Stops(table[t], k) # {}
    BY <2>1, <2>2, SearchEnds
  <2> QED
    BY <2>1, <2>3 DEF Budgeted, NonEmpty
<1>2. IInv => BudgetIsExact
  BY <1>1 DEF BudgetIsExact
<1> QED
  BY <1>2, InvariantHolds, PTL

\* The insertions that GrowForInsertCount made room for find a budget, so none of
\* them grows the table, whatever is erased or cleared in between.
THEOREM ReservationsHold == Spec => []GrowthIsReserved
<1>1. ASSUME IInv, Idle, NEW t \in Tables, Usable(t) PROVE reserved[t] <= table[t].budget
  BY <1>1, UsableFacts
<1>2. IInv => GrowthIsReserved
  BY <1>1 DEF GrowthIsReserved
<1> QED
  BY <1>2, InvariantHolds, PTL

\* While a table grows, InsertIntoEmpty finds an empty slot for every entry that
\* is inserted again, and what the budget is charged with leaves more than 0 (the
\* check in GrowToNextAllocSize).
RehashHasRoom ==
  \A t \in growing :
    /\ Cardinality(PresentSlots(old)) < GrowthThresholdForAllocSize(table[t].alloc)
    /\ \E i \in DOMAIN table[t].slots : table[t].slots[i] = Empty

\* Neither GrowToNextAllocSize nor GrowToAllocSizeImpl ever lacks an empty slot for
\* an entry that it inserts again, or ends with a budget of 0.
THEOREM RehashesHaveRoom == Spec => []RehashHasRoom
<1>1. ASSUME IInv, NEW t \in growing
      PROVE  /\ Cardinality(PresentSlots(old)) < GrowthThresholdForAllocSize(table[t].alloc)
             /\ \E i \in DOMAIN table[t].slots : table[t].slots[i] = Empty
  <2>1. /\ setup \in Setups
        /\ Moving(setup, table[t], old, left, inserting, contents[t], reserved[t])
    BY <1>1, GrowingFacts
  <2>2. PresentSlots(old) = PresentIn(setup, old)
    BY DEF PresentSlots, PresentIn, Keys
  <2> QED
    BY <2>1, <2>2, MovingRoom
<1>2. IInv => RehashHasRoom
  BY <1>1 DEF RehashHasRoom
<1> QED
  BY <1>2, InvariantHolds, PTL

\* The check in GrowForInsertCountImpl: whatever count a table without a budget for
\* it is asked to make room for, the size that is chosen has more than enough.
TargetsSuffice ==
  Idle => \A t \in Tables : Usable(t) =>
    \A count \in Nat : count >= table[t].budget =>
      LET T == table[t]
          used == GrowthThresholdForAllocSize(T.alloc) - T.budget
      IN GrowthThresholdForAllocSize(TargetForInsertCount(T, count)) > used + count

\* GrowForInsertCountImpl never fails its CARBON_CHECK, whatever was inserted and
\* erased before and however many insertions it is asked for.
THEOREM InsertCountsFit == Spec => []TargetsSuffice
<1>1. ASSUME IInv, Idle, NEW t \in Tables, Usable(t), NEW count \in Nat,
             count >= table[t].budget
      PROVE  GrowthThresholdForAllocSize(TargetForInsertCount(table[t], count))
               > (GrowthThresholdForAllocSize(table[t].alloc) - table[t].budget) + count
  <2>1. setup \in Setups /\ IsTable(setup, table[t]) /\ Budgeted(table[t])
    BY <1>1, UsableFacts
  <2>2. PICK size : size = TargetForInsertCount(table[t], count)
    OBVIOUS
  <2>3. GrowthThresholdForAllocSize(size)
          > (GrowthThresholdForAllocSize(table[t].alloc) - table[t].budget) + count
    BY <1>1, <2>1, <2>2, TargetRoom
  <2> QED
    BY <2>2, <2>3
<1>2. IInv => TargetsSuffice
  BY <1>1 DEF TargetsSuffice
<1> QED
  BY <1>2, InvariantHolds, PTL
=============================================================================
