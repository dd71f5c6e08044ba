------------------------------- MODULE WordsProofs -----------------------------
(***************************************************************************)
(* Lemmas about Words, for every width: powers of two, quotients and       *)
(* remainders, single bits, rotations.  The provers know nothing of 2^n    *)
(* nor of induction; both come from the theorems on finite sets (a set of  *)
(* n elements has 2^n subsets; < is well-founded on the naturals), with    *)
(* the induction hypothesis stated as membership in a set.                 *)
(***************************************************************************)
EXTENDS Words, FiniteSetTheorems, TLAPS

--------------------------------------------------------------------------------
(* Induction and recursion.                                                *)

LEMMA LeastNumber ==
    ASSUME NEW S \in SUBSET Nat, S # {}
    PROVE  \E m \in S : \A k \in S : m <= k
<1> DEFINE R == {ss \in Nat \X Nat : ss[1] < ss[2]}
<1>1. IsWellFoundedOn(R, Nat)
  BY NatLessThanWellFounded DEF OpToRel
<1>2. \A x, y \in Nat : y < x => <<y, x>> \in R
  OBVIOUS
<1> HIDE DEF R
<1>3. PICK m \in S : \A y \in S : ~ (<<y, m>> \in R)
  BY <1>1, WFMin
<1>4. \A k \in S : ~ (k < m)
  BY <1>2, <1>3
<1>5. \A k \in S : m <= k
  BY <1>4
<1> QED
  BY <1>5

LEMMA Induction ==
    ASSUME NEW S, 0 \in S, \A n \in Nat : n \in S => n + 1 \in S
    PROVE  \A n \in Nat : n \in S
<1> SUFFICES ASSUME Nat \ S # {} PROVE FALSE
  OBVIOUS
<1>1. PICK m \in Nat \ S : \A k \in Nat \ S : m <= k
  BY LeastNumber
<1>2. m # 0
  OBVIOUS
<1>3. m - 1 \in Nat /\ m - 1 \in S
  BY <1>1, <1>2
<1> QED
  BY <1>3

\* f starts at v0, and its n-th step is G[n].
IsRecursive(f, N, v0, G) == f = [n \in 0..N |-> IF n = 0 THEN v0 ELSE G[n][f[n - 1]]]

\* A recursive function over 0..N exists.
LEMMA Recursion ==
    ASSUME NEW V, NEW v0 \in V, NEW N \in Nat, NEW G,
           \A n \in 1..N, v \in V : G[n][v] \in V
    PROVE  \E f \in [0..N -> V] : IsRecursive(f, N, v0, G)
<1> DEFINE Good(f, k) == f = [n \in 0..k |-> IF n = 0 THEN v0 ELSE G[n][f[n - 1]]]
           S == {k \in Nat : k <= N => \E f \in [0..k -> V] : Good(f, k)}
<1>1. 0 \in S
  <2> DEFINE f == [n \in 0..0 |-> v0]
  <2>1. f \in [0..0 -> V] /\ Good(f, 0)
    OBVIOUS
  <2> QED
    BY <2>1
<1>2. ASSUME NEW k \in Nat, k \in S PROVE k + 1 \in S
  <2> SUFFICES ASSUME k + 1 <= N PROVE \E f \in [0..(k + 1) -> V] : Good(f, k + 1)
    OBVIOUS
  <2>1. PICK g \in [0..k -> V] : Good(g, k)
    BY <1>2
  <2> DEFINE f == [n \in 0..(k + 1) |-> IF n = k + 1 THEN G[k + 1][g[k]] ELSE g[n]]
  <2>2. f \in [0..(k + 1) -> V]
    BY <2>1
  <2>3. ASSUME NEW n \in 0..(k + 1)
        PROVE  f[n] = IF n = 0 THEN v0 ELSE G[n][f[n - 1]]
    <3>1. CASE n = k + 1
      <4>1. n # 0 /\ n - 1 = k /\ f[k] = g[k]
        BY <3>1
      <4> QED
        BY <3>1, <4>1
    <3>2. CASE n # k + 1
      <4>1. f[n] = g[n] /\ (n # 0 => f[n - 1] = g[n - 1])
        BY <3>2
      <4>2. g[n] = IF n = 0 THEN v0 ELSE G[n][g[n - 1]]
        BY <2>1, <3>2
      <4> QED
        BY <4>1, <4>2
    <3> QED
      BY <3>1, <3>2
  <2>4. Good(f, k + 1)
    BY <2>3
  <2> QED
    BY <2>2, <2>4
<1> HIDE DEF S
<1>3. N \in S
  BY <1>1, <1>2, Induction
<1> QED
  BY <1>3 DEF S, IsRecursive

--------------------------------------------------------------------------------
(* Powers of two.                                                          *)

LEMMA PowerOfZero == 2^0 = 1
<1>1. IsFiniteSet({}) /\ Cardinality({}) = 0
  BY FS_EmptySet
<1>2. Cardinality(SUBSET {}) = 2^Cardinality({})
  BY <1>1, FS_SUBSET
<1>3. SUBSET {} = {{}}
  OBVIOUS
<1>4. Cardinality({{}}) = 1
  BY FS_Singleton
<1> QED
  BY <1>1, <1>2, <1>3, <1>4

\* The subsets of 1..(n + 1) are those of 1..n, each with and without n + 1.
LEMMA PowerOfNext ==
    ASSUME NEW n \in Nat
    PROVE  2^n \in Nat /\ 2^(n + 1) = 2 * 2^n
<1> DEFINE S == 1..n
           T == 1..(n + 1)
           Q == {X \in SUBSET T : n + 1 \in X}
<1>1. IsFiniteSet(S) /\ IsFiniteSet(T) /\ Cardinality(S) = n /\ Cardinality(T) = n + 1
  BY FS_Interval
<1>2. /\ IsFiniteSet(SUBSET S) /\ Cardinality(SUBSET S) = 2^n
      /\ IsFiniteSet(SUBSET T) /\ Cardinality(SUBSET T) = 2^(n + 1)
  BY <1>1, FS_SUBSET
<1>3. SUBSET T = (SUBSET S) \cup Q /\ (SUBSET S) \cap Q = {}
  OBVIOUS
<1>4. ExistsBijection(SUBSET S, Q)
  <2> DEFINE f == [X \in SUBSET S |-> X \cup {n + 1}]
  <2>1. f \in [SUBSET S -> Q]
    OBVIOUS
  <2>2. \A X, Y \in SUBSET S : f[X] = f[Y] => X = Y
    OBVIOUS
  <2>3. \A Y \in Q : \E X \in SUBSET S : f[X] = Y
    <3> TAKE Y \in Q
    <3>1. Y \ {n + 1} \in SUBSET S
      OBVIOUS
    <3>2. f[Y \ {n + 1}] = Y
      BY <3>1
    <3> QED
      BY <3>1, <3>2
  <2> QED
    BY <2>1, <2>2, <2>3 DEF ExistsBijection, Bijection, Injection, Surjection, IsInjective
<1>5. IsFiniteSet(Q) /\ Cardinality(Q) = 2^n
  BY <1>2, <1>4, FS_Bijection
<1>6. Cardinality((SUBSET S) \cap Q) = 0
  BY <1>3, FS_EmptySet
<1>7. 2^n \in Nat
  BY <1>2, FS_CardinalityType
<1> HIDE DEF S, T, Q
<1>8. 2^(n + 1) = 2^n + 2^n - 0
  BY <1>2, <1>3, <1>5, <1>6, FS_Union
<1> QED
  BY <1>7, <1>8

LEMMA PowerIsPositive == \A n \in Nat : 2^n \in Nat \ {0}
<1> DEFINE S == {n \in Nat : 2^n # 0}
<1>1. 0 \in S
  BY PowerOfZero
<1>2. ASSUME NEW n \in Nat, n \in S PROVE n + 1 \in S
  BY <1>2, PowerOfNext
<1> HIDE DEF S
<1>3. \A n \in Nat : n \in S
  BY <1>1, <1>2, Induction
<1> QED
  BY <1>3, PowerOfNext DEF S

LEMMA PowerOfSum ==
    ASSUME NEW m \in Nat, NEW n \in Nat, NEW sum, sum = m + n
    PROVE  2^sum = 2^m * 2^n
<1> DEFINE S == {k \in Nat : 2^(m + k) = 2^m * 2^k}
<1>1. 0 \in S
  BY PowerOfZero, PowerIsPositive
<1>2. ASSUME NEW k \in Nat, k \in S PROVE k + 1 \in S
  <2>1. 2^(m + k + 1) = 2 * 2^(m + k) /\ 2^(k + 1) = 2 * 2^k
    BY PowerOfNext
  <2>2. 2^(m + k) = 2^m * 2^k
    BY <1>2
  <2>3. 2^m \in Nat /\ 2^k \in Nat
    BY PowerIsPositive
  <2>4. \A a, b \in Nat : 2 * (a * b) = a * (2 * b)
    OBVIOUS
  <2>5. 2^(m + (k + 1)) = 2^m * 2^(k + 1)
    BY <2>1, <2>2, <2>3, <2>4
  <2> QED
    BY <2>5
<1> HIDE DEF S
<1>3. n \in S
  BY <1>1, <1>2, Induction
<1> QED
  BY <1>3 DEF S

LEMMA PowerIsMonotonic ==
    ASSUME NEW m \in Nat, NEW n \in Nat, m <= n
    PROVE  2^m <= 2^n
<1>1. n - m \in Nat /\ m + (n - m) = n
  OBVIOUS
<1>2. 2^n = 2^m * 2^(n - m)
  BY <1>1, PowerOfSum
<1>3. \A a, b \in Nat \ {0} : a <= a * b
  OBVIOUS
<1> QED
  BY <1>1, <1>2, <1>3, PowerIsPositive

--------------------------------------------------------------------------------
(* Quotients and remainders.                                               *)

LEMMA Division ==
    ASSUME NEW x \in Int, NEW M \in Nat \ {0}
    PROVE  x \div M \in Int /\ x % M \in 0..(M - 1) /\ x = M * (x \div M) + (x % M)
OBVIOUS

LEMMA DivisionIsUnique ==
    ASSUME NEW M \in Nat \ {0}, NEW p \in Int, NEW q \in Int,
           NEW r \in 0..(M - 1), NEW s \in 0..(M - 1), M * p + r = M * q + s
    PROVE  p = q /\ r = s
<1>1. ASSUME NEW a \in Int, NEW b \in Int, a < b
      PROVE  M * a + M <= M * b
  <2>1. b - a - 1 \in Nat /\ M * (b - a - 1) >= 0
    BY <1>1
  <2>2. M * (b - a - 1) = M * b - M * a - M
    OBVIOUS
  <2> QED
    BY <2>1, <2>2
<1>2. ~ (p < q)
  <2> SUFFICES ASSUME p < q PROVE FALSE
    OBVIOUS
  <2>1. M * p + M <= M * q
    BY <1>1
  <2> QED
    BY <2>1
<1>3. ~ (q < p)
  <2> SUFFICES ASSUME q < p PROVE FALSE
    OBVIOUS
  <2>1. M * q + M <= M * p
    BY <1>1
  <2> QED
    BY <2>1
<1>4. p = q
  BY <1>2, <1>3
<1> QED
  BY <1>4

LEMMA DivisionOf ==
    ASSUME NEW M \in Nat \ {0}, NEW q \in Int, NEW r \in 0..(M - 1),
           NEW x, x = M * q + r
    PROVE  x \div M = q /\ x % M = r
<1>1. x \in Int
  OBVIOUS
<1>2. x \div M \in Int /\ x % M \in 0..(M - 1) /\ x = M * (x \div M) + (x % M)
  BY <1>1, Division
<1> QED
  BY <1>2, DivisionIsUnique

LEMMA DivisionOfSmall ==
    ASSUME NEW M \in Nat \ {0}, NEW x \in 0..(M - 1)
    PROVE  x \div M = 0 /\ x % M = x
<1>1. M * 0 + x = x
  OBVIOUS
<1> QED
  BY <1>1, DivisionOf

LEMMA AddMultiple ==
    ASSUME NEW M \in Nat \ {0}, NEW x \in Int, NEW k \in Int,
           NEW y, y = x + M * k
    PROVE  y \div M = (x \div M) + k /\ y % M = x % M
<1> DEFINE q == x \div M
           r == x % M
           p == q + k
<1>1. q \in Int /\ r \in 0..(M - 1) /\ x = M * q + r /\ p \in Int
  BY Division
<1> HIDE DEF q, r
<1>2. y = M * p + r
  <2>1. M * (q + k) = M * q + M * k
    BY <1>1
  <2> QED
    BY <1>1, <2>1
<1> HIDE DEF p
<1>3. y \div M = p /\ y % M = r
  BY <1>1, <1>2, DivisionOf
<1> QED
  BY <1>3 DEF p, q, r

\* A product as one symbol, to keep it from the provers' arithmetic.
IsProduct(P, M, N) == P = M * N

\* Dividing by M and then by N is dividing by their product.
LEMMA DivisionByProduct ==
    ASSUME NEW M \in Nat \ {0}, NEW N \in Nat \ {0}, NEW x \in Int,
           NEW P, IsProduct(P, M, N)
    PROVE  /\ P \in Nat \ {0}
           /\ (x \div M) \div N = x \div P
           /\ x % P = M * ((x \div M) % N) + (x % M)
<1> DEFINE q == x \div M
           r == x % M
           p == q \div N
           s == q % N
<1>1. q \in Int /\ r \in 0..(M - 1) /\ x = M * q + r
  BY Division
<1>2. p \in Int /\ s \in 0..(N - 1) /\ q = N * p + s
  BY <1>1, Division
<1> HIDE DEF q, r, p, s
<1>3. P = M * N /\ P \in Nat \ {0}
  BY DEF IsProduct
<1>4. x = P * p + (M * s + r)
  <2>1. M * q = M * (N * p) + M * s
    BY <1>2
  <2>2. M * (N * p) = (M * N) * p
    BY <1>2
  <2> QED
    BY <1>1, <1>2, <1>3, <2>1, <2>2
<1>5. M * s + r \in 0..(P - 1)
  <2>1. N - 1 - s \in Nat
    BY <1>2
  <2>2. M * (N - 1 - s) \in Nat /\ M * s \in Nat
    BY <1>2, <2>1
  <2>3. M * (N - 1 - s) = M * N - M - M * s
    BY <1>2
  <2> DEFINE rest == M * (N - 1 - s)
             low == M * s
             all == M * N
  <2>4. rest \in Nat /\ low \in Nat /\ rest = all - M - low /\ P = all
    BY <1>3, <2>2, <2>3
  <2> HIDE DEF rest, low, all
  <2>5. low + r \in 0..(P - 1)
    BY <1>1, <1>3, <2>4
  <2> QED
    BY <2>5 DEF low
<1>6. x \div P = p /\ x % P = M * s + r
  <2> DEFINE t == M * s + r
  <2>1. x = P * p + t /\ t \in 0..(P - 1)
    BY <1>4, <1>5
  <2> HIDE DEF t
  <2>2. P \in Nat \ {0} /\ p \in Int
    BY <1>2, <1>3
  <2>3. x \div P = p /\ x % P = t
    BY <2>1, <2>2, DivisionOf
  <2> QED
    BY <2>3 DEF t
<1> QED
  BY <1>3, <1>6 DEF p, q, r, s

LEMMA DivisionIsMonotonic ==
    ASSUME NEW M \in Nat \ {0}, NEW x \in Int, NEW n \in Int
    PROVE  (x < M * n) => (x \div M < n)
<1> DEFINE q == x \div M
<1>1. q \in Int /\ x >= M * q
  BY Division
<1> HIDE DEF q
<1> SUFFICES ASSUME q >= n PROVE x >= M * n
  BY <1>1 DEF q
<1>2. q - n \in Nat
  BY <1>1
<1>3. M * (q - n) >= 0
  BY <1>2
<1>4. M * (q - n) = M * q - M * n
  BY <1>1
<1> QED
  BY <1>1, <1>3, <1>4

--------------------------------------------------------------------------------
(* The sizes of a word.                                                    *)

LEMMA WordSizes ==
    /\ ByteBits \in Nat \ {0} /\ W \in Nat /\ Top \in Nat
    /\ W >= 4 /\ Top >= 3 /\ W = Top + 1
    /\ 2^W \in Nat \ {0} /\ 2^Top \in Nat \ {0} /\ 2^W = 2 * 2^Top
    /\ 2^ByteBits \in Nat \ {0} /\ 2^ByteBits <= 2^W
<1>1. /\ ByteBits \in Nat \ {0} /\ W \in Nat /\ Top \in Nat
      /\ W >= 4 /\ Top >= 3 /\ W = Top + 1 /\ ByteBits <= W
  BY WordsAssumption DEF W, Top
<1>2. 2^(Top + 1) = 2 * 2^Top
  BY <1>1, PowerOfNext
<1>3. 2^ByteBits <= 2^W
  BY <1>1, PowerIsMonotonic
<1> QED
  BY <1>1, <1>2, <1>3, PowerIsPositive

LEMMA WrapIsWord ==
    ASSUME NEW n \in Int
    PROVE  Wrap(n) \in Word
BY WordSizes, Division DEF Wrap, Word

LEMMA WrapOfWord ==
    ASSUME NEW n \in Word
    PROVE  Wrap(n) = n
BY WordSizes, DivisionOfSmall DEF Wrap, Word

LEMMA WordsAreIntegers == Word \subseteq Nat
BY WordSizes DEF Word

LEMMA RemainderOfMultiple ==
    \A M \in Nat \ {0} : \A n, k \in Int : (n + M * k) % M = n % M
<1> TAKE M \in Nat \ {0}
<1> TAKE n \in Int, k \in Int
<1> DEFINE m == n + M * k
<1>1. m = n + M * k
  OBVIOUS
<1> HIDE DEF m
<1>2. m % M = n % M
  BY <1>1, AddMultiple
<1> QED
  BY <1>2 DEF m

LEMMA WrapOfMultiple ==
    ASSUME NEW n \in Int, NEW k \in Int, NEW m, m = n + 2^W * k
    PROVE  Wrap(m) = Wrap(n)
<1>1. 2^W \in Nat \ {0}
  BY WordSizes
<1>2. (n + 2^W * k) % 2^W = n % 2^W
  BY <1>1, RemainderOfMultiple, Zenon
<1> QED
  BY <1>2, Zenon DEF Wrap

\* Wrapping an intermediate result changes nothing.
LEMMA WrapOfWrap ==
    ASSUME NEW m \in Int, NEW n \in Int
    PROVE  Wrap(Wrap(m) + n) = Wrap(m + n)
<1> DEFINE M == 2^W
           q == m \div M
           r == m % M
           s == r + n
           t == m + n
<1>1. M \in Nat \ {0}
  BY WordSizes
<1> HIDE DEF M
<1>2. q \in Int /\ r \in Int /\ m = M * q + r
  BY <1>1, Division
<1> HIDE DEF q, r
<1>3. t = s + M * q /\ s \in Int /\ t \in Int
  BY <1>1, <1>2
<1> HIDE DEF s, t
<1>4. Wrap(t) = Wrap(s)
  BY <1>2, <1>3, WrapOfMultiple DEF M
<1> QED
  BY <1>4 DEF Wrap, r, s, t, M

\* A sum of two words, or a difference, leaves the range of words once at most.
LEMMA WrapOfSum ==
    ASSUME NEW n \in Int
    PROVE  /\ n \in Word => Wrap(n) = n
           /\ n - 2^W \in Word => Wrap(n) = n - 2^W
           /\ n + 2^W \in Word => Wrap(n) = n + 2^W
<1>1. n = (n - 2^W) + 2^W * 1 /\ n = (n + 2^W) + 2^W * (-1)
  BY WordSizes
<1>2. n - 2^W \in Int /\ n + 2^W \in Int
  BY WordSizes
<1>3. Wrap(n) = Wrap(n - 2^W) /\ Wrap(n) = Wrap(n + 2^W)
  BY <1>1, <1>2, WrapOfMultiple
<1> QED
  BY <1>3, WrapOfWord

--------------------------------------------------------------------------------
(* Single bits.                                                            *)

LEMMA RemainderByTwo ==
    ASSUME NEW q \in Int
    PROVE  q % 2 \in {0, 1}
OBVIOUS

LEMMA BitType ==
    ASSUME NEW x \in Int, NEW i \in Nat
    PROVE  get_bit(x, i) \in {0, 1}
<1>1. x \div 2^i \in Int
  BY PowerIsPositive, Division
<1> QED
  BY <1>1, RemainderByTwo DEF get_bit

\* Bit i, and what is below.
LEMMA RemainderSplits ==
    ASSUME NEW x \in Int, NEW i \in Nat
    PROVE  /\ x % 2^i \in 0..(2^i - 1)
           /\ x % 2^(i + 1) = 2^i * get_bit(x, i) + (x % 2^i)
<1> DEFINE M == 2^i
           D == 2^(i + 1)
           N == 2
           b == get_bit(x, i)
<1>1. M \in Nat \ {0} /\ N \in Nat \ {0} /\ IsProduct(D, M, N)
  BY PowerIsPositive, PowerOfNext DEF IsProduct
<1>2. b = (x \div M) % N
  BY DEF get_bit
<1> HIDE DEF M, D, N, b
<1>3. x % M \in 0..(M - 1)
  BY <1>1, Division
<1>4. x % D = M * ((x \div M) % N) + (x % M)
  BY <1>1, DivisionByProduct
<1> QED
  BY <1>2, <1>3, <1>4 DEF M, D, b

\* What is above bit i, bit i, and what is below.
LEMMA BitSplits ==
    ASSUME NEW x \in Int, NEW i \in Nat
    PROVE  \E r \in 0..(2^i - 1) :
               /\ x \div 2^(i + 1) \in Int
               /\ x = 2^(i + 1) * (x \div 2^(i + 1)) + 2^i * get_bit(x, i) + r
<1> DEFINE M == 2^i
           D == 2^(i + 1)
           r == x % M
           b == get_bit(x, i)
           q == x \div D
<1>1. M \in Nat \ {0} /\ D \in Nat \ {0} /\ b \in {0, 1}
  BY PowerIsPositive, BitType
<1>2. r \in 0..(M - 1) /\ x % D = M * b + r
  BY RemainderSplits
<1> HIDE DEF M, D, b, r
<1>3. q \in Int /\ x = D * q + (x % D)
  BY <1>1, Division
<1> HIDE DEF q
<1>4. x = D * q + M * b + r
  BY <1>1, <1>2, <1>3
<1> QED
  BY <1>2, <1>3, <1>4 DEF M, D, b, q

\* Adding M to x = 2Mq + r, where r < M: what is above, at and below M.
LEMMA AddHalf ==
    ASSUME NEW M \in Nat \ {0}, NEW D \in Nat \ {0}, D = 2 * M,
           NEW q \in Int, NEW r \in 0..(M - 1), NEW x, x = D * q + r, NEW y, y = x + M
    PROVE  /\ x \in Int /\ y \in Int
           /\ x \div D = q /\ y \div D = q
           /\ x \div M = 2 * q /\ y \div M = 2 * q + 1
<1> DEFINE s == r + M
           p == 2 * q
           p1 == p + 1
<1>1. /\ r \in 0..(D - 1) /\ s \in 0..(D - 1) /\ x \in Int /\ y \in Int
      /\ p \in Int /\ p1 \in Int
  OBVIOUS
<1>2. y = D * q + s
  OBVIOUS
<1>3. M * p1 = M * p + M /\ D * q = M * p
  BY <1>1
<1>4. x = M * p + r /\ y = M * p1 + r
  BY <1>1, <1>3
<1> HIDE DEF s, p, p1
<1>5. x \div D = q /\ y \div D = q
  BY <1>1, <1>2, DivisionOf
<1>6. x \div M = p /\ y \div M = p1
  BY <1>1, <1>4, DivisionOf
<1> QED
  BY <1>1, <1>5, <1>6 DEF p, p1

\* Adding 2^i to a number without bit i sets this bit and no other.
LEMMA AddBit ==
    ASSUME NEW x \in Int, NEW i \in Nat, get_bit(x, i) = 0,
           NEW y, y = x + 2^i
    PROVE  /\ y \in Int
           /\ get_bit(y, i) = 1
           /\ \A j \in Nat \ {i} : get_bit(y, j) = get_bit(x, j)
<1> DEFINE M == 2^i
           D == 2^(i + 1)
           q == x \div D
<1>1. M \in Nat \ {0} /\ D \in Nat \ {0} /\ D = 2 * M /\ y = x + M
  BY PowerIsPositive, PowerOfNext
<1>2. PICK r \in 0..(M - 1) : q \in Int /\ x = D * q + r
  <2>1. PICK r \in 0..(M - 1) : q \in Int /\ x = D * q + M * 0 + r
    BY BitSplits
  <2> HIDE DEF M, D, q
  <2> QED
    BY <1>1, <2>1
<1> HIDE DEF M, D, q
<1>3. /\ x \in Int /\ y \in Int /\ x \div D = q /\ y \div D = q
      /\ x \div M = 2 * q /\ y \div M = 2 * q + 1
  BY <1>1, <1>2, AddHalf
<1>4. get_bit(y, i) = 1
  BY <1>2, <1>3 DEF get_bit, M
<1>5. ASSUME NEW j \in Nat, i < j
      PROVE  get_bit(y, j) = get_bit(x, j)
  <2> DEFINE k == j - (i + 1)
             N == 2^k
             P == 2^j
  <2>1. k \in Nat /\ i + 1 \in Nat /\ j = (i + 1) + k
    BY <1>5
  <2> HIDE DEF k
  <2>2. P = D * N
    BY <2>1, PowerOfSum DEF D
  <2>3. N \in Nat \ {0}
    BY <2>1, PowerIsPositive
  <2> HIDE DEF N, P
  <2>4. D \in Nat \ {0} /\ y \in Int
    BY <1>1, <1>3
  <2>5. \A u \in Int : (u \div D) \div N = u \div P
    <3>1. IsProduct(P, D, N)
      BY <2>2 DEF IsProduct
    <3> QED
      BY <2>3, <2>4, <3>1, DivisionByProduct
  <2>6. (x \div D) \div N = x \div P /\ (y \div D) \div N = y \div P
    BY <2>4, <2>5
  <2> QED
    BY <1>3, <2>5, <2>6 DEF get_bit, P
<1>6. ASSUME NEW j \in Nat, j < i
      PROVE  get_bit(y, j) = get_bit(x, j)
  <2> DEFINE k == i - (j + 1)
             N == 2^k
             L == 2^j
             E == 2^(j + 1)
             n == 2 * N
  <2>1. k \in Nat /\ j + 1 \in Nat /\ i = (j + 1) + k
    BY <1>6
  <2> HIDE DEF k
  <2>2. M = E * N
    BY <2>1, PowerOfSum DEF M
  <2>3. N \in Nat \ {0} /\ L \in Nat \ {0} /\ E = 2 * L
    BY <2>1, PowerIsPositive, PowerOfNext
  <2> HIDE DEF N, L, E
  <2>4. (2 * L) * N = L * (2 * N)
    BY <2>3
  <2>5. y = x + L * n /\ n \in Int
    BY <1>1, <2>2, <2>3, <2>4
  <2> HIDE DEF n
  <2>6. y \div L = (x \div L) + n /\ x \div L \in Int
    <3>1. L \in Nat \ {0}
      BY <2>3
    <3>2. y \div L = (x \div L) + n
      BY <2>5, <3>1, AddMultiple
    <3>3. x \div L \in Int
      BY <3>1, Division
    <3> QED
      BY <3>2, <3>3
  <2>7. (y \div L) % 2 = (x \div L) % 2
    BY <2>3, <2>6 DEF n
  <2> QED
    BY <2>7 DEF get_bit, L
<1> QED
  BY <1>3, <1>4, <1>5, <1>6

\* A word without bit i has room for it.
LEMMA AddBitToWord ==
    ASSUME NEW x \in Word, NEW i \in 0..Top, get_bit(x, i) = 0
    PROVE  x + 2^i \in Word
<1> DEFINE M == 2^(i + 1)
           L == 2^i
           q == x \div M
           k == Top - i
           N == 2^k
<1>1. /\ M \in Nat \ {0} /\ M = 2 * L /\ L \in Nat \ {0} /\ x \in Nat /\ i \in Nat
      /\ k \in Nat /\ W = (i + 1) + k /\ N \in Nat \ {0} /\ 2^W = M * N
  <2>1. i \in Nat /\ k \in Nat /\ W = (i + 1) + k
    BY WordSizes
  <2>2. 2^W = M * N
    BY <2>1, PowerOfSum
  <2> QED
    BY <2>1, <2>2, PowerOfNext, PowerIsPositive, WordsAreIntegers
<1>2. PICK r \in 0..(L - 1) : q \in Int /\ x = M * q + L * 0 + r
  BY <1>1, BitSplits
<1>3. q < N
  <2>1. x < M * N
    BY <1>1 DEF Word
  <2> QED
    BY <1>1, <2>1, DivisionIsMonotonic
<1> HIDE DEF M, L, q, k, N
<1>4. M * N >= M * q + M
  <2>1. N - q - 1 \in Nat
    BY <1>1, <1>2, <1>3
  <2>2. M * (N - q - 1) >= 0
    BY <1>1, <2>1
  <2>3. M * (N - q - 1) = M * N - M * q - M
    BY <1>1, <1>2
  <2> QED
    BY <1>1, <1>2, <2>2, <2>3
<1> QED
  BY <1>1, <1>2, <1>4 DEF Word, L

\* set_bit and clr_bit change bit i, and no other; of a word they make a word.
LEMMA SetBit ==
    ASSUME NEW x \in Int, NEW i \in Nat
    PROVE  /\ set_bit(x, i) \in Int /\ clr_bit(x, i) \in Int
           /\ get_bit(set_bit(x, i), i) = 1
           /\ get_bit(clr_bit(x, i), i) = 0
           /\ \A j \in Nat \ {i} : /\ get_bit(set_bit(x, i), j) = get_bit(x, j)
                                   /\ get_bit(clr_bit(x, i), j) = get_bit(x, j)
<1>1. get_bit(x, i) \in {0, 1} /\ 2^i \in Nat \ {0}
  BY BitType, PowerIsPositive
<1>2. CASE get_bit(x, i) = 0
  BY <1>2, AddBit DEF set_bit, clr_bit
<1>3. CASE get_bit(x, i) = 1
  <2> DEFINE y == x - 2^i
  <2>1. y \in Int /\ x = y + 2^i
    BY <1>1
  <2>2. get_bit(y, i) = 0
    <3>1. PICK r \in 0..(2^i - 1) : /\ x \div 2^(i + 1) \in Int
                                    /\ x = 2^(i + 1) * (x \div 2^(i + 1)) + 2^i * 1 + r
      BY <1>3, BitSplits
    <3> DEFINE q == x \div 2^(i + 1)
    <3>2. 2^(i + 1) = 2 * 2^i
      BY PowerOfNext
    <3> DEFINE M == 2^i
               D == 2^(i + 1)
    <3>3. M \in Nat \ {0} /\ D \in Nat \ {0} /\ D = 2 * M /\ q \in Int
      BY <1>1, <3>1, <3>2
    <3> HIDE DEF q, D, M
    <3>4. y = D * q + r
      BY <1>1, <2>1, <3>1, <3>3 DEF q, D, M
    <3> HIDE DEF y
    <3>5. y \div M = 2 * q
      BY <3>1, <3>3, <3>4, AddHalf DEF M
    <3>6. (2 * q) % 2 = 0
      BY <3>3
    <3> QED
      BY <3>5, <3>6 DEF get_bit, M
  <2> HIDE DEF y
  <2>3. \A j \in Nat \ {i} : get_bit(x, j) = get_bit(y, j)
    BY <2>1, <2>2, AddBit
  <2>4. set_bit(x, i) = x /\ clr_bit(x, i) = y
    BY <1>3 DEF set_bit, clr_bit, y
  <2> QED
    BY <1>3, <2>1, <2>2, <2>3, <2>4
<1> QED
  BY <1>1, <1>2, <1>3

LEMMA SetBitOfWord ==
    ASSUME NEW x \in Word, NEW i \in 0..Top
    PROVE  set_bit(x, i) \in Word /\ clr_bit(x, i) \in Word
<1>1. x \in Nat /\ i \in Nat /\ get_bit(x, i) \in {0, 1} /\ 2^i \in Nat \ {0}
  BY WordsAreIntegers, BitType, PowerIsPositive, WordSizes
<1>2. set_bit(x, i) \in Word
  BY <1>1, AddBitToWord DEF set_bit
<1>3. ASSUME get_bit(x, i) = 1 PROVE x >= 2^i
  <2> DEFINE L == 2^i
             M == 2^(i + 1)
             q == x \div M
  <2>1. PICK r \in 0..(L - 1) : q \in Int /\ x = M * q + L * 1 + r
    BY <1>1, <1>3, BitSplits
  <2>2. M = 2 * L
    BY <1>1, PowerOfNext
  <2>3. q >= 0
    BY <1>1, <2>2
  <2>4. L \in Nat /\ M \in Nat
    BY <1>1, <2>2
  <2> HIDE DEF q, M, L
  <2>5. M * q >= 0
    BY <2>1, <2>3, <2>4
  <2>6. x >= L
    BY <1>1, <2>1, <2>4, <2>5
  <2> QED
    BY <2>6 DEF L
<1>4. clr_bit(x, i) \in Word
  <2> DEFINE L == 2^i
             B == 2^W
  <2>1. L \in Nat /\ B \in Nat /\ x \in 0..(B - 1)
    BY <1>1, WordSizes DEF Word
  <2> HIDE DEF L, B
  <2>2. x >= L => x - L \in 0..(B - 1)
    BY <2>1
  <2> QED
    BY <1>1, <1>3, <2>2 DEF clr_bit, Word, L, B
<1> QED
  BY <1>2, <1>4

\* The top bit of a word is its sign.
LEMMA TopBit ==
    ASSUME NEW x \in Word
    PROVE  get_bit(x, Top) = IF x >= 2^Top THEN 1 ELSE 0
<1> DEFINE H == 2^Top
<1>1. H \in Nat \ {0} /\ x \in Nat /\ x < 2 * H
  BY WordSizes DEF Word
<1>2. CASE x >= H
  <2> DEFINE r == x - H
  <2> HIDE DEF H
  <2>1. x = H * 1 + r /\ r \in 0..(H - 1)
    BY <1>1, <1>2
  <2> HIDE DEF r
  <2>2. x \div H = 1
    BY <1>1, <2>1, DivisionOf
  <2> QED
    BY <1>2, <2>2 DEF get_bit, H
<1>3. CASE ~ (x >= H)
  <2>1. x \div H = 0
    BY <1>1, <1>3, DivisionOfSmall
  <2> QED
    BY <1>3, <2>1 DEF get_bit
<1> QED
  BY <1>2, <1>3

--------------------------------------------------------------------------------
(* The operations on words yield words.                                    *)

LEMMA FromBitsIsWord ==
    ASSUME NEW b \in [0..Top -> {0, 1}]
    PROVE  FromBits(b) \in Word
<1> DEFINE Term(n) == b[n - 1] * 2^(n - 1)
           Step(f) == f = [n \in 0..W |-> IF n = 0 THEN 0 ELSE f[n - 1] + Term(n)]
           below[n \in 0..W] == IF n = 0 THEN 0 ELSE below[n - 1] + b[n - 1] * 2^(n - 1)
           G == [n \in 1..W |-> [v \in Int |-> v + Term(n)]]
<1>1. FromBits(b) = below[W]
  BY DEF FromBits
<1>2. below = CHOOSE f : Step(f)
  OBVIOUS
<1>3. \A n \in 1..W : Term(n) \in Nat /\ Term(n) <= 2^(n - 1) /\ n - 1 \in Nat
  <2> TAKE n \in 1..W
  <2> DEFINE L == 2^(n - 1)
  <2>1. n - 1 \in 0..Top /\ n - 1 \in Nat /\ L \in Nat
    BY WordSizes, PowerIsPositive
  <2>2. b[n - 1] \in {0, 1}
    BY <2>1
  <2> HIDE DEF L
  <2>3. b[n - 1] * L \in Nat /\ b[n - 1] * L <= L
    BY <2>1, <2>2
  <2> QED
    BY <2>1, <2>3 DEF L
<1> HIDE DEF below, Term
<1>4. PICK f \in [0..W -> Int] : IsRecursive(f, W, 0, G)
  <2>1. \A n \in 1..W, v \in Int : G[n][v] \in Int
    BY <1>3
  <2> HIDE DEF G
  <2>2. W \in Nat /\ 0 \in Int
    BY WordSizes
  <2> QED
    BY <2>1, <2>2, Recursion
<1>5. Step(f)
  <2>1. ASSUME NEW n \in 0..W
        PROVE  f[n] = IF n = 0 THEN 0 ELSE f[n - 1] + Term(n)
    <3>1. CASE n = 0
      BY <1>4, <3>1 DEF IsRecursive
    <3>2. CASE n # 0
      <4>1. n \in 1..W /\ n - 1 \in 0..W /\ f[n - 1] \in Int
        BY <3>2, WordSizes
      <4>2. f[n] = G[n][f[n - 1]]
        BY <1>4, <3>2 DEF IsRecursive
      <4> QED
        BY <3>2, <4>1, <4>2
    <3> QED
      BY <3>1, <3>2
  <2> QED
    BY <2>1
<1>6. Step(below)
  <2> HIDE DEF Step
  <2> QED
    BY <1>2, <1>5
<1>7. below[W] \in 0..(2^W - 1)
  <2> DEFINE S == {n \in Nat : n <= W => below[n] \in Nat /\ below[n] < 2^n}
  <2>1. 0 \in S
    BY <1>6, WordSizes, PowerOfZero
  <2>2. ASSUME NEW n \in Nat, n \in S PROVE n + 1 \in S
    <3> SUFFICES ASSUME n + 1 <= W PROVE below[n + 1] \in Nat /\ below[n + 1] < 2^(n + 1)
      OBVIOUS
    <3>1. n + 1 \in 1..W /\ n + 1 \in 0..W /\ n + 1 # 0 /\ (n + 1) - 1 = n
      BY WordSizes
    <3>2. below[n + 1] = below[n] + Term(n + 1)
      BY <1>6, <3>1
    <3>3. Term(n + 1) \in Nat /\ Term(n + 1) <= 2^n
      BY <1>3, <3>1
    <3>4. below[n] \in Nat /\ below[n] < 2^n
      BY <2>2, <3>1, WordSizes
    <3>5. 2^n \in Nat /\ 2^(n + 1) = 2 * 2^n
      BY PowerOfNext
    <3> QED
      BY <3>2, <3>3, <3>4, <3>5
  <2> HIDE DEF S
  <2>3. W \in S
    BY <2>1, <2>2, Induction, WordSizes
  <2> QED
    BY <2>3, WordSizes DEF S
<1> QED
  BY <1>1, <1>7 DEF Word

LEMMA BitwiseOfWords ==
    ASSUME NEW x \in Word, NEW y \in Word
    PROVE  /\ And(x, y) \in Word /\ Xor(x, y) \in Word
           /\ Not(x) \in Word /\ Or(x, y) \in Word
<1>1. \A u, v \in Word : And(u, v) \in Word
  <2> TAKE u, v \in Word
  <2> DEFINE b == [i \in 0..Top |-> get_bit(u, i) * get_bit(v, i)]
  <2>1. b \in [0..Top -> {0, 1}]
    <3>1. ASSUME NEW i \in 0..Top PROVE get_bit(u, i) * get_bit(v, i) \in {0, 1}
      <4>1. get_bit(u, i) \in {0, 1} /\ get_bit(v, i) \in {0, 1}
        BY WordsAreIntegers, BitType
      <4> QED
        BY <4>1
    <3> QED
      BY <3>1
  <2> HIDE DEF b
  <2>2. FromBits(b) \in Word
    BY <2>1, FromBitsIsWord
  <2> QED
    BY <2>2 DEF And, b
<1>2. Xor(x, y) \in Word
  <2> DEFINE b == [i \in 0..Top |-> (get_bit(x, i) + get_bit(y, i)) % 2]
  <2>1. b \in [0..Top -> {0, 1}]
    <3>1. ASSUME NEW i \in 0..Top PROVE (get_bit(x, i) + get_bit(y, i)) % 2 \in {0, 1}
      <4>1. get_bit(x, i) \in {0, 1} /\ get_bit(y, i) \in {0, 1}
        BY WordsAreIntegers, BitType
      <4> QED
        BY <4>1
    <3> QED
      BY <3>1
  <2> HIDE DEF b
  <2>2. FromBits(b) \in Word
    BY <2>1, FromBitsIsWord
  <2> QED
    BY <2>2 DEF Xor, b
<1>3. \A u \in Word : Not(u) \in Word
  BY WordSizes DEF Not, Word
<1> QED
  BY <1>1, <1>2, <1>3 DEF Or

\* Nothing is lost in a right shift, and a left shift drops what leaves the word.
LEMMA ShiftsOfWords ==
    ASSUME NEW x \in Word
    PROVE  /\ \A n \in Nat : Lsr(x, n) \in Word
           /\ \A n \in 0..W : Lsl(x, n) \in Word
           /\ \A n \in 0..Top : ror(x, n) \in Word
<1> DEFINE B == 2^W
<1>1. B \in Nat \ {0} /\ W \in Nat /\ x \in Nat /\ x < B /\ Word = 0..(B - 1)
  BY WordSizes DEF Word
<1> HIDE DEF B
<1>2. ASSUME NEW n \in Nat PROVE Lsr(x, n) \in 0..(B - 1)
  <2> DEFINE N == 2^n
             q == x \div N
  <2>1. N \in Nat \ {0}
    BY PowerIsPositive
  <2> HIDE DEF N
  <2>2. q \in Int /\ (x % N) \in 0..(N - 1) /\ x = N * q + (x % N)
    BY <1>1, <2>1, Division
  <2> HIDE DEF q
  <2>3. q >= 0
    BY <1>1, <2>1, <2>2
  <2>4. N * q >= q
    BY <2>1, <2>2, <2>3
  <2>5. q <= x
    BY <1>1, <2>1, <2>2, <2>4
  <2> QED
    BY <1>1, <2>2, <2>3, <2>5 DEF Lsr, q, N
<1>3. ASSUME NEW n \in 0..W
      PROVE  LET N == 2^n
                 K == 2^(W - n)
             IN  N \in Nat \ {0} /\ K \in Nat \ {0} /\ B = K * N
  <2>1. n \in Nat /\ W - n \in Nat /\ W = (W - n) + n
    BY <1>1
  <2> QED
    BY <2>1, PowerIsPositive, PowerOfSum DEF B
<1>4. ASSUME NEW K \in Nat \ {0}, NEW N \in Nat \ {0}, NEW r \in 0..(K - 1), B = K * N
      PROVE  r * N \in Nat /\ r * N <= B - N
  <2>1. K - 1 - r \in Nat
    OBVIOUS
  <2>2. N * (K - 1 - r) \in Nat /\ r * N \in Nat
    BY <2>1
  <2>3. N * (K - 1 - r) = K * N - N - r * N
    OBVIOUS
  <2> QED
    BY <1>4, <2>2, <2>3
<1>5. ASSUME NEW n \in 0..W PROVE Lsl(x, n) \in Nat /\ Lsl(x, n) <= B - 2^n
  <2> DEFINE N == 2^n
             K == 2^(W - n)
             r == x % K
  <2>1. N \in Nat \ {0} /\ K \in Nat \ {0} /\ B = K * N
    BY <1>3
  <2> HIDE DEF N, K
  <2>2. r \in 0..(K - 1)
    BY <1>1, <2>1, Division
  <2> HIDE DEF r
  <2>3. r * N \in Nat /\ r * N <= B - N
    BY <1>4, <2>1, <2>2
  <2> QED
    BY <2>3 DEF Lsl, r, N, K
<1>6. ASSUME NEW n \in 0..W PROVE Lsl(x, n) \in 0..(B - 1)
  <2>1. 2^n \in Nat \ {0}
    BY <1>3
  <2> QED
    BY <1>1, <1>5, <2>1
<1>7. ASSUME NEW n \in 1..Top PROVE Lsr(x, n) + Lsl(x, W - n) \in 0..(B - 1)
  <2> DEFINE N == 2^n
             K == 2^(W - n)
             q == x \div N
  <2>1. n \in 0..W /\ W - n \in 0..W /\ W - (W - n) = n
    BY WordSizes
  <2>2. N \in Nat \ {0} /\ K \in Nat \ {0} /\ B = K * N
    BY <1>3, <2>1
  <2>3. Lsl(x, W - n) \in Nat /\ Lsl(x, W - n) <= B - K
    BY <1>5, <2>1
  <2> HIDE DEF N, K
  <2>4. x < N * K
    <3>1. N * K = K * N
      BY <2>2
    <3> QED
      BY <1>1, <2>2, <3>1
  <2>5. q < K
    BY <1>1, <2>2, <2>4, DivisionIsMonotonic
  <2>6. q \in Nat
    BY <1>2, <1>1, <2>1 DEF Lsr, N
  <2> HIDE DEF q
  <2> QED
    BY <1>1, <2>2, <2>3, <2>5, <2>6 DEF Lsr, q, N
<1>8. ASSUME NEW n \in 0..Top PROVE ror(x, n) \in 0..(B - 1)
  BY <1>1, <1>7 DEF ror
<1> QED
  BY <1>1, <1>2, <1>6, <1>8

LEMMA SignExtendIsWord ==
    ASSUME NEW x \in Word, NEW n \in Nat
    PROVE  SignExtend(x, n) \in Word
<1>1. x - 2^n \in Int
  BY PowerIsPositive, WordsAreIntegers
<1> QED
  BY <1>1, WrapIsWord DEF SignExtend
================================================================================
