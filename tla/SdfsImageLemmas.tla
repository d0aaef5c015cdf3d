-------------------------- MODULE SdfsImageLemmas --------------------------
(***************************************************************************)
(* What the operators of SdfsImage do to an image for which the invariant  *)
(* holds: the maps they read, the storage calls they make, and the three   *)
(* commits, the delete and the rename, one after the other; then the bytes *)
(* that those calls leave in the overlay and in the host files.            *)
(***************************************************************************)
EXTENDS SdfsImageInv, FiniteSetTheorems, SequenceTheorems, TLAPS

-----------------------------------------------------------------------------
(* Numbers. *)

(* The induction of this module: a set of numbers has a least one. *)
LEMMA Least ==
    ASSUME NEW T, T \subseteq Nat, T # {}
    PROVE  \E m \in T : \A y \in T : m <= y
<1> DEFINE R == {ss \in Nat \X Nat : ss[1] < ss[2]}
<1>1. OpToRel(<, Nat) = R
  BY DEF OpToRel
<1>2. IsWellFoundedOn(R, Nat)
  BY <1>1, NatLessThanWellFounded
<1>3. PICK m \in T : \A y \in T : ~ (<<y, m>> \in R)
  <2> HIDE DEF R
  <2> QED BY <1>2, WFMin, Zenon
<1>4. \A y \in T : ~ (y < m)
  <2> TAKE y \in T
  <2>1. <<y, m>> \notin R /\ y \in Nat /\ m \in Nat
    BY <1>3
  <2> QED BY <2>1
<1> QED BY <1>3, <1>4

(* Induction over numbers up to n, as a fact about a set. *)
LEMMA Upto ==
    ASSUME NEW n \in Nat, NEW T, 0 \in T, \A m \in 1 .. n : m - 1 \in T => m \in T
    PROVE  0 .. n \subseteq T
<1> DEFINE R == 0 .. n \ T
<1>1. ASSUME R # {} PROVE FALSE
  <2>1. R \subseteq Nat
    OBVIOUS
  <2>2. PICK m \in R : \A y \in R : m <= y
    <3> HIDE DEF R
    <3> QED BY <1>1, <2>1, Least
  <2>3. m \in 0 .. n /\ m \notin T
    BY <2>2
  <2>4. m \in 1 .. n /\ m - 1 \in 0 .. n /\ ~(m <= m - 1)
    BY <2>3
  <2>5. m - 1 \notin R
    <3> HIDE DEF R
    <3> QED BY <2>2, <2>4
  <2> QED BY <2>3, <2>4, <2>5
<1> QED BY <1>1

(* Min of a set of numbers is its least one. *)
LEMMA MinIs ==
    ASSUME NEW T, T \subseteq Nat, T # {}
    PROVE  Min(T) \in T /\ \A y \in T : Min(T) <= y
<1>1. PICK m \in T : \A y \in T : m <= y
  BY Least
<1> QED BY <1>1, Zenon DEF Min

(* Min of one number. *)
LEMMA MinOfOne ==
    ASSUME NEW x \in Nat
    PROVE  Min({x}) = x
BY MinIs

(* Min of two numbers. *)
LEMMA MinOfTwo ==
    ASSUME NEW a \in Int, NEW b \in Int
    PROVE  Min({a, b}) = IF a <= b THEN a ELSE b
<1> DEFINE m == IF a <= b THEN a ELSE b
<1>1. m \in {a, b} /\ \A y \in {a, b} : m <= y
  OBVIOUS
<1>2. \A x \in {a, b} : (\A y \in {a, b} : x <= y) => x = m
  OBVIOUS
<1> HIDE DEF m
<1>3. Min({a, b}) = m
  BY <1>1, <1>2 DEF Min
<1> QED BY <1>3 DEF m

(* The rank of a number among the numbers of a finite set. *)
Rank(S, x) == Cardinality({y \in S : y <= x})

(* The ranks of a finite set are 1 .. its size, each given once. *)
LEMMA Ranks ==
    ASSUME NEW S, S \subseteq Int, IsFiniteSet(S)
    PROVE  /\ Cardinality(S) \in Nat
           /\ \A x \in S : Rank(S, x) \in 1 .. Cardinality(S)
           /\ \A x, y \in S : Rank(S, x) = Rank(S, y) => x = y
           /\ \A k \in 1 .. Cardinality(S) : \E x \in S : Rank(S, x) = k
<1> DEFINE below(x) == {y \in S : y <= x}
           c == Cardinality(S)
           f == [x \in S |-> Rank(S, x)]
<1>1. c \in Nat
  BY FS_CardinalityType
<1>2. \A x \in S : IsFiniteSet(below(x)) /\ Cardinality(below(x)) \in Nat /\ Cardinality(below(x)) <= c
  <2> TAKE x \in S
  <2>1. below(x) \in SUBSET S
    OBVIOUS
  <2> HIDE DEF below
  <2>2. IsFiniteSet(below(x)) /\ Cardinality(below(x)) <= c
    BY <2>1, FS_Subset
  <2> QED BY <2>2, FS_CardinalityType
<1>3. \A x \in S : Cardinality(below(x)) # 0
  <2> TAKE x \in S
  <2>1. x \in below(x)
    OBVIOUS
  <2> HIDE DEF below
  <2> QED BY <1>2, <2>1, FS_EmptySet
<1>4. \A x \in S : Rank(S, x) \in 1 .. c
  BY <1>1, <1>2, <1>3 DEF Rank
<1>5. ASSUME NEW x \in S, NEW y \in S, x < y
      PROVE  Rank(S, x) # Rank(S, y)
  <2>1. x \in Int /\ y \in Int
    OBVIOUS
  <2>2. below(x) \in SUBSET below(y) /\ y \in below(y) /\ y \notin below(x)
    <3>1. \A z \in S : z \in Int /\ (z <= x => z <= y)
      BY <1>5, <2>1
    <3>2. y <= y /\ ~(y <= x)
      BY <1>5, <2>1
    <3> QED BY <3>1, <3>2
  <2> HIDE DEF below
  <2>3. Cardinality(below(y)) # Cardinality(below(x))
    BY <1>2, <2>2, FS_Subset
  <2> QED BY <2>3 DEF Rank, below
<1>6. \A x, y \in S : Rank(S, x) = Rank(S, y) => x = y
  <2> TAKE x, y \in S
  <2>1. x \in Int /\ y \in Int
    OBVIOUS
  <2>2. x = y \/ x < y \/ y < x
    BY <2>1
  <2> QED BY <1>5, <2>2
<1>7. \A k \in 1 .. c : \E x \in S : Rank(S, x) = k
  <2>1. f \in Injection(S, 1 .. c)
    BY <1>4, <1>6 DEF Injection, IsInjective
  <2>2. IsFiniteSet(1 .. c) /\ Cardinality(1 .. c) = c
    BY <1>1, FS_Interval
  <2>3. f \in Surjection(S, 1 .. c)
    <3> HIDE DEF f, c
    <3>1. Cardinality(S) = Cardinality(1 .. c)
      BY <2>2 DEF c
    <3> QED BY <2>1, <2>2, <3>1, FS_Injection
  <2> QED BY <2>3 DEF Surjection
<1> QED BY <1>1, <1>4, <1>6, <1>7

(* Ascending enumerates a set, each member once. *)
LEMMA AscendingIs ==
    ASSUME NEW S, S \subseteq Int, IsFiniteSet(S)
    PROVE  /\ Ascending(S) \in Seq(S) /\ Len(Ascending(S)) = Cardinality(S)
           /\ Elems(Ascending(S)) = S
           /\ \A a, b \in 1 .. Len(Ascending(S)) : Ascending(S)[a] = Ascending(S)[b] => a = b
<1> DEFINE c == Cardinality(S)
           o == Ascending(S)
<1>1. /\ Cardinality(S) \in Nat
      /\ \A x \in S : Rank(S, x) \in 1 .. Cardinality(S)
      /\ \A x, y \in S : Rank(S, x) = Rank(S, y) => x = y
      /\ \A k \in 1 .. Cardinality(S) : \E x \in S : Rank(S, x) = k
  BY Ranks, Zenon
<1>2. o = [k \in 1 .. c |-> CHOOSE x \in S : Rank(S, x) = k]
  BY DEF Ascending, Rank
<1>3. \A k \in 1 .. c : o[k] \in S /\ Rank(S, o[k]) = k
  <2> TAKE k \in 1 .. c
  <2>1. \E x \in S : Rank(S, x) = k
    BY <1>1
  <2>2. o[k] = CHOOSE x \in S : Rank(S, x) = k
    BY <1>2
  <2> HIDE DEF o, c
  <2> QED BY <2>1, <2>2, Zenon
<1> HIDE DEF o
<1>4. o \in Seq(S) /\ Len(o) = c /\ DOMAIN o = 1 .. c
  <2>1. o \in [1 .. c -> S]
    BY <1>2, <1>3
  <2> QED BY <1>1, <2>1
<1>5. Elems(o) = S
  <2>1. \A x \in S : Rank(S, x) \in 1 .. c /\ o[Rank(S, x)] = x
    <3> TAKE x \in S
    <3>1. Rank(S, x) \in 1 .. c
      BY <1>1
    <3> HIDE DEF c
    <3> QED BY <1>1, <1>3, <3>1
  <2> HIDE DEF c
  <2> QED BY <1>3, <1>4, <2>1 DEF Elems
<1>6. \A a, b \in 1 .. c : o[a] = o[b] => a = b
  <2> HIDE DEF c
  <2> QED BY <1>3
<1> QED BY <1>4, <1>5, <1>6 DEF o

(* Multiples of a number, and rounding up to one. *)
LEMMA Multiples ==
    ASSUME NEW E \in Nat \ {0}, NEW a \in Nat, NEW b \in Nat, a <= b
    PROVE  /\ a * E \in Nat /\ a * E <= b * E
           /\ a > 0 => (a - 1) * E \in Nat /\ a * E = (a - 1) * E + E
<1>2. a * E \in Nat
  OBVIOUS
<1>3. PICK c \in Nat : b = a + c
  <2>1. b - a \in Nat /\ b = a + (b - a)
    OBVIOUS
  <2> QED BY <2>1
<1>4. (a + c) * E = a * E + c * E /\ c * E \in Nat
  OBVIOUS
<1>5. a > 0 => (a - 1) * E \in Nat /\ a * E = (a - 1) * E + E
  <2>1. a > 0 => a - 1 \in Nat
    OBVIOUS
  <2>2. \A e \in Nat : e * E \in Nat /\ (e + 1) * E = e * E + E
    OBVIOUS
  <2>3. a > 0 => (a - 1) + 1 = a
    OBVIOUS
  <2> QED BY <2>1, <2>2, <2>3
<1> QED BY <1>2, <1>3, <1>4, <1>5

(* Division rounded up: the least number of parts that holds n. *)
LEMMA Ceiling ==
    ASSUME NEW n \in Nat, NEW E \in Nat \ {0}
    PROVE  LET q == (n + E - 1) \div E
           IN  /\ q \in Nat /\ n <= q * E /\ q <= n
               /\ n > 0 => q > 0 /\ (q - 1) * E < n
               /\ n = 0 => q = 0
<1> DEFINE q == (n + E - 1) \div E
<1>2. q \in Nat
  <2>1. n + E - 1 \in Nat
    OBVIOUS
  <2> QED BY <2>1
<1>3. E * q <= n + E - 1 /\ n + E - 1 < E * q + E
  <2>1. \A m \in Nat : E * (m \div E) <= m /\ m < E * (m \div E) + E
    OBVIOUS
  <2>2. n + E - 1 \in Nat
    OBVIOUS
  <2> QED BY <2>1, <2>2
<1> HIDE DEF q
<1>5. q * E = E * q /\ 0 * E = 0
  BY <1>2
<1>6. q > 0 => q * E = (q - 1) * E + E /\ (q - 1) * E \in Nat
  BY <1>2, Multiples
<1>7. CASE q = 0
  BY <1>2, <1>3, <1>5, <1>7 DEF q
<1>8. CASE q > 0
  <2>1. n <= q * E /\ (q - 1) * E < n
    <3> DEFINE p == q * E
               r == (q - 1) * E
    <3>1. p \in Nat /\ r \in Nat /\ p = r + E
      BY <1>2, <1>6, <1>8, Multiples
    <3>2. p <= n + E - 1 /\ n + E - 1 < p + E
      BY <1>3, <1>5
    <3> HIDE DEF p, r
    <3>3. n <= p /\ r < n
      BY <3>1, <3>2
    <3> QED BY <3>3 DEF p, r
  <2>2. n > 0
    BY <1>2, <1>8, <2>1, <1>6
  <2>3. q - 1 <= (q - 1) * E
    <3>1. q - 1 \in Nat
      BY <1>2, <1>8
    <3>2. \A e \in Nat : e <= e * E
      OBVIOUS
    <3> QED BY <3>1, <3>2
  <2>4. q <= n
    <3> DEFINE r == (q - 1) * E
    <3>1. r \in Nat /\ q - 1 <= r /\ r < n
      BY <1>6, <1>8, <2>1, <2>3
    <3> HIDE DEF r
    <3> QED BY <1>2, <3>1
  <2> QED BY <1>2, <1>8, <2>1, <2>2, <2>4 DEF q
<1> QED BY <1>2, <1>7, <1>8 DEF q

(* Division rounded up is monotone. *)
LEMMA CeilingGrows ==
    ASSUME NEW n \in Nat, NEW m \in Nat, n <= m, NEW E \in Nat \ {0}
    PROVE  (n + E - 1) \div E <= (m + E - 1) \div E
<1> DEFINE s == (n + E - 1) \div E
           t == (m + E - 1) \div E
<1>1. /\ s \in Nat /\ t \in Nat /\ m <= t * E
      /\ n > 0 => s > 0 /\ (s - 1) * E < n
      /\ n = 0 => s = 0
  BY Ceiling
<1> HIDE DEF s, t
<1>2. ASSUME t < s PROVE FALSE
  <2>1. n > 0 /\ t <= s - 1 /\ s - 1 \in Nat
    BY <1>1, <1>2
  <2>2. t * E <= (s - 1) * E /\ t * E \in Nat /\ (s - 1) * E \in Nat
    BY <1>1, <2>1, Multiples
  <2> QED BY <1>1, <2>1, <2>2
<1>3. s <= t
  BY <1>1, <1>2
<1> QED BY <1>3 DEF s, t

-----------------------------------------------------------------------------
(* The inductive invariant. *)

-----------------------------------------------------------------------------
(* The maps of a file. *)

(* What SdfsAssumption says of the sizes. *)
LEMMA Sizes ==
    /\ SectorSize \in Nat \ {0} /\ MapEntries \in Nat \ {0} /\ LastSector \in Nat /\ Slots \in Nat \ {0}
BY SdfsAssumption

(* Prefixes of a sequence. *)
LEMMA Prefixes ==
    ASSUME NEW S, NEW s \in Seq(S), NEW a \in Nat, NEW b \in Nat, a <= b, b <= Len(s)
    PROVE  /\ SubSeq(s, 1, a) \in Seq(S) /\ Len(SubSeq(s, 1, a)) = a
           /\ \A i \in 1 .. a : SubSeq(s, 1, a)[i] = s[i]
           /\ SubSeq(s, 1, a) \o SubSeq(s, a + 1, b) = SubSeq(s, 1, b)
           /\ SubSeq(s, 1, Len(s)) = s
           /\ a < Len(s) => Append(SubSeq(s, 1, a), s[a + 1]) = SubSeq(s, 1, a + 1)
           /\ SubSeq(s, 1, a) \o <<>> = SubSeq(s, 1, a)
<1>1. SubSeq(s, 1, a) \in Seq(S) /\ Len(SubSeq(s, 1, a)) = a /\ \A i \in 1 .. a : SubSeq(s, 1, a)[i] = s[i]
  OBVIOUS
<1>2. SubSeq(s, 1, b) \in Seq(S) /\ Len(SubSeq(s, 1, b)) = b /\ \A i \in 1 .. b : SubSeq(s, 1, b)[i] = s[i]
  OBVIOUS
<1>3. /\ SubSeq(s, a + 1, b) \in Seq(S) /\ Len(SubSeq(s, a + 1, b)) = b - a
      /\ \A i \in 1 .. b - a : SubSeq(s, a + 1, b)[i] = s[a + i]
  OBVIOUS
<1>4. SubSeq(s, 1, a) \o SubSeq(s, a + 1, b) = SubSeq(s, 1, b)
  <2> DEFINE p == SubSeq(s, 1, a)
             q == SubSeq(s, a + 1, b)
             r == SubSeq(s, 1, b)
  <2> HIDE DEF p, q, r
  <2>1. p \o q \in Seq(S) /\ Len(p \o q) = b
    BY <1>1, <1>3 DEF p, q
  <2>2. \A i \in 1 .. b : (p \o q)[i] = s[i]
    BY <1>1, <1>3 DEF p, q
  <2>3. r \in Seq(S) /\ Len(r) = b /\ \A i \in 1 .. b : r[i] = s[i]
    BY <1>2 DEF r
  <2>4. p \o q = r
    BY <2>1, <2>2, <2>3, SeqEqual
  <2> QED BY <2>4 DEF p, q, r
<1>5. SubSeq(s, 1, Len(s)) = s
  OBVIOUS
<1>6. a < Len(s) => Append(SubSeq(s, 1, a), s[a + 1]) = SubSeq(s, 1, a + 1)
  <2> SUFFICES ASSUME a < Len(s) PROVE Append(SubSeq(s, 1, a), s[a + 1]) = SubSeq(s, 1, a + 1)
    OBVIOUS
  <2> DEFINE p == SubSeq(s, 1, a)
             r == SubSeq(s, 1, a + 1)
  <2>0. s[a + 1] \in S
    OBVIOUS
  <2>3. r \in Seq(S) /\ Len(r) = a + 1 /\ \A i \in 1 .. a + 1 : r[i] = s[i]
    OBVIOUS
  <2> HIDE DEF p, r
  <2>1. Append(p, s[a + 1]) \in Seq(S) /\ Len(Append(p, s[a + 1])) = a + 1
    BY <1>1, <2>0 DEF p
  <2>2. \A i \in 1 .. a + 1 : Append(p, s[a + 1])[i] = s[i]
    BY <1>1, <2>0 DEF p
  <2>4. Append(p, s[a + 1]) = r
    BY <2>1, <2>2, <2>3, SeqEqual
  <2> QED BY <2>4 DEF p, r
<1>7. SubSeq(s, 1, a) \o <<>> = SubSeq(s, 1, a)
  BY <1>1
<1> QED BY <1>1, <1>4, <1>5, <1>6, <1>7

(* A sector that is kept is read from the overlay first. *)
LEMMA ReadsValue ==
    ASSUME NEW d, NEW x, x \in DOMAIN d.metadata \cup DOMAIN d.pendingSectorWrites
    PROVE  ReadSector(d, x) = Value(d, x)
BY DEF ReadSector, Value

(* How far a chain is read after k of its sectors. *)
Upon(M, D, k) ==
    [maps |-> SubSeq(M, 1, k), listed |-> SubSeq(D, 1, Min({k * MapEntries, Len(D)})),
     current |-> IF k < Len(M) THEN M[k + 1] ELSE 0, status |-> "read"]

(* One step along a chain that is there. *)
LEMMA FollowsTo ==
    ASSUME NEW d, NEW M \in Seq(Sectors), NEW D \in Seq(Sectors), Distinct(M), NEW known,
           NEW k \in 1 .. Len(M),
           M[k] \in DOMAIN d.metadata \cup DOMAIN d.pendingSectorWrites,
           Value(d, M[k]) = MapImage(M, D, k)
    PROVE  Follow(d, known, Upon(M, D, k - 1)) = Upon(M, D, k)
<1> DEFINE from == (k - 1) * MapEntries
           upto == k * MapEntries
           lo == Min({from, Len(D)})
           hi == Min({upto, Len(D)})
           chunk == SubSeq(D, from + 1, hi)
           c == [maps |-> SubSeq(M, 1, k - 1), listed |-> SubSeq(D, 1, lo), current |-> M[k], status |-> "read"]
<1>1. k \in Nat /\ k > 0 /\ k <= Len(M) /\ k - 1 \in Nat /\ Len(M) \in Nat /\ Len(D) \in Nat
  OBVIOUS
<1>2. from \in Nat /\ upto \in Nat /\ from <= upto
  BY <1>1, Sizes, Multiples
<1>3. lo = (IF from <= Len(D) THEN from ELSE Len(D)) /\ hi = (IF upto <= Len(D) THEN upto ELSE Len(D))
  <2> HIDE DEF from, upto
  <2>1. from \in Int /\ upto \in Int /\ Len(D) \in Int
    BY <1>1, <1>2
  <2>2. lo = IF from <= Len(D) THEN from ELSE Len(D)
    BY <2>1, MinOfTwo
  <2>3. hi = IF upto <= Len(D) THEN upto ELSE Len(D)
    BY <2>1, MinOfTwo
  <2> QED BY <2>2, <2>3
<1>4. M[k] \in Sectors /\ M[k] # 0
  BY <1>1, Sizes DEF Sectors
<1>5. M[k] \notin Elems(SubSeq(M, 1, k - 1))
  <2>1. /\ SubSeq(M, 1, k - 1) \in Seq(Sectors) /\ Len(SubSeq(M, 1, k - 1)) = k - 1
        /\ \A i \in 1 .. k - 1 : SubSeq(M, 1, k - 1)[i] = M[i]
    OBVIOUS
  <2>2. \A i \in 1 .. k - 1 : i \in 1 .. Len(M) /\ i # k
    BY <1>1
  <2>3. DOMAIN SubSeq(M, 1, k - 1) = 1 .. k - 1
    BY <2>1
  <2> QED BY <2>1, <2>2, <2>3 DEF Distinct, Elems
<1>6. ReadSector(d, M[k]) = MapImage(M, D, k)
  BY ReadsValue
<1>7. SubSeq(M, 1, k - 1) # <<>> => /\ k > 1 /\ Len(SubSeq(M, 1, k - 1)) = k - 1
                                    /\ SubSeq(M, 1, k - 1)[k - 1] = M[k - 1]
  OBVIOUS
<1>8. Append(SubSeq(M, 1, k - 1), M[k]) = SubSeq(M, 1, k)
  <2>1. k - 1 \in Nat /\ k - 1 <= k - 1 /\ k - 1 < Len(M) /\ (k - 1) + 1 = k /\ k - 1 <= Len(M)
    BY <1>1
  <2>2. k - 1 < Len(M) => Append(SubSeq(M, 1, k - 1), M[(k - 1) + 1]) = SubSeq(M, 1, (k - 1) + 1)
    BY <2>1, Prefixes
  <2> QED BY <2>1, <2>2
<1>9. SubSeq(D, 1, lo) \o chunk = SubSeq(D, 1, hi)
  <2> HIDE DEF from, upto
  <2>1. CASE from <= Len(D)
    <3>1. lo = from /\ lo \in Nat /\ hi \in Nat /\ lo <= hi /\ hi <= Len(D)
      BY <1>1, <1>2, <1>3, <2>1
    <3> HIDE DEF lo, hi
    <3>2. SubSeq(D, 1, lo) \o SubSeq(D, lo + 1, hi) = SubSeq(D, 1, hi)
      BY <3>1, Prefixes
    <3> QED BY <3>1, <3>2
  <2>2. CASE ~(from <= Len(D))
    <3>1. lo = Len(D) /\ hi = Len(D) /\ from + 1 > hi
      BY <1>1, <1>2, <1>3, <2>2
    <3> HIDE DEF lo, hi
    <3>2. chunk = <<>>
      BY <1>1, <1>2, <3>1
    <3>3. SubSeq(D, 1, Len(D)) \o <<>> = SubSeq(D, 1, Len(D))
      <4>1. Len(D) \in Nat /\ Len(D) <= Len(D)
        BY <1>1
      <4> QED BY <4>1, Prefixes
    <3> QED BY <3>1, <3>2, <3>3
  <2> QED BY <2>1, <2>2
<1>10. /\ MapImage(M, D, k).next = IF k < Len(M) THEN M[k + 1] ELSE 0
       /\ MapImage(M, D, k).prev = IF k > 1 THEN M[k - 1] ELSE 0
       /\ MapImage(M, D, k).data = chunk
  BY DEF MapImage
<1> HIDE DEF from, upto, lo, hi, chunk
<1>11. c = [maps |-> SubSeq(M, 1, k - 1), listed |-> SubSeq(D, 1, lo), current |-> M[k], status |-> "read"]
  OBVIOUS
<1> HIDE DEF c
<1>12. Follow(d, known, c) = [c EXCEPT !.maps = Append(@, M[k]), !.listed = @ \o MapImage(M, D, k).data,
                                       !.current = MapImage(M, D, k).next]
  <2>1. c.maps = SubSeq(M, 1, k - 1) /\ c.current = M[k] /\ c.status = "read"
    BY <1>11
  <2>2. ~(c.current = 0 \/ c.status # "read") /\ c.current \notin Elems(c.maps)
    BY <1>4, <1>5, <2>1
  <2>3. c.current \in DOMAIN d.metadata \cup DOMAIN d.pendingSectorWrites
    BY <2>1
  <2>4. ~(c.maps # <<>> /\ MapImage(M, D, k).prev # c.maps[Len(c.maps)])
    BY <1>1, <1>7, <1>10, <2>1
  <2>5. ReadSector(d, c.current) = MapImage(M, D, k)
    BY <1>6, <2>1
  <2> QED BY <2>1, <2>2, <2>3, <2>4, <2>5, Zenon DEF Follow
<1>13. Follow(d, known, c) = [maps |-> SubSeq(M, 1, k), listed |-> SubSeq(D, 1, hi),
                 current |-> IF k < Len(M) THEN M[k + 1] ELSE 0, status |-> "read"]
  <2>1. c.listed = SubSeq(D, 1, lo) /\ c.maps = SubSeq(M, 1, k - 1)
    BY <1>11
  <2>2. Append(c.maps, M[k]) = SubSeq(M, 1, k) /\ c.listed \o MapImage(M, D, k).data = SubSeq(D, 1, hi)
    BY <1>8, <1>9, <1>10, <2>1
  <2>3. Follow(d, known, c) = [c EXCEPT !.maps = SubSeq(M, 1, k), !.listed = SubSeq(D, 1, hi),
                                       !.current = IF k < Len(M) THEN M[k + 1] ELSE 0]
    BY <1>10, <1>12, <2>2, Zenon
  <2> QED BY <1>11, <2>3
<1>14. c = Upon(M, D, k - 1)
  <2>1. k - 1 < Len(M) /\ (k - 1) + 1 = k
    BY <1>1
  <2> QED BY <2>1 DEF c, lo, from, Upon
<1> QED BY <1>13, <1>14 DEF hi, upto, Upon

(* g has what a reading of the chain at first has seen after each step. *)
Steps(d, first, known, g) ==
    /\ g = [k \in 0 .. LastSector |-> g[k]]
    /\ g[0] = [maps |-> <<>>, listed |-> <<>>, current |-> first, status |-> "read"]
    /\ \A k \in 1 .. LastSector : g[k] = Follow(d, known, g[k - 1])

(* Reading a chain, by its steps one after the other. *)
LEMMA ChainBy ==
    ASSUME NEW d, NEW first, NEW known, NEW g, Steps(d, first, known, g)
    PROVE  ReadMapChain(d, first, known) = g[LastSector]
<1> USE DEF Steps
<1> DEFINE start == [maps |-> <<>>, listed |-> <<>>, current |-> first, status |-> "read"]
           P(t) == t = [k \in 0 .. LastSector |-> IF k = 0 THEN start ELSE Follow(d, known, t[k - 1])]
           t == CHOOSE t : P(t)
<1>0. LastSector \in Nat
  BY Sizes
<1> HIDE DEF start
<1>5. ASSUME NEW k \in 0 .. LastSector
      PROVE  g[k] = IF k = 0 THEN start ELSE Follow(d, known, g[k - 1])
  <2>1. CASE k = 0
    BY <2>1 DEF start
  <2>2. CASE k # 0
    <3>1. k \in 1 .. LastSector
      BY <1>0, <2>2
    <3> QED BY <2>2, <3>1
  <2> QED BY <2>1, <2>2
<1>6. P(g)
  <2>2. [k \in 0 .. LastSector |-> g[k]] = [k \in 0 .. LastSector |-> IF k = 0 THEN start ELSE Follow(d, known, g[k - 1])]
    BY <1>5, Zenon
  <2> QED BY <2>2, Zenon
<1>7. P(t)
  <2> HIDE DEF P
  <2> QED BY <1>6, Zenon
<1>8. \A k \in 0 .. LastSector : t[k] = IF k = 0 THEN start ELSE Follow(d, known, t[k - 1])
  <2> HIDE DEF t
  <2> QED BY <1>7
<1>9. ReadMapChain(d, first, known) = t[LastSector]
  BY DEF ReadMapChain, start
<1> HIDE DEF t, P
<1> DEFINE T == {k \in 0 .. LastSector : t[k] = g[k]}
<1>10. 0 \in T
  <2>1. 0 \in 0 .. LastSector
    BY <1>0
  <2>2. t[0] = start /\ g[0] = start
    BY <1>5, <1>8, <2>1
  <2> QED BY <2>1, <2>2
<1>11. ASSUME NEW m \in 1 .. LastSector, m - 1 \in T PROVE m \in T
  <2>1. m \in 0 .. LastSector /\ m # 0 /\ t[m - 1] = g[m - 1]
    BY <1>0, <1>11
  <2> QED BY <1>5, <1>8, <2>1
<1>12. t[LastSector] = g[LastSector]
  <2>1. 0 .. LastSector \subseteq T
    <3> HIDE DEF T
    <3> QED BY <1>0, <1>10, <1>11, Upto
  <2> QED BY <1>0, <2>1
<1> QED BY <1>9, <1>12

(* Reading a chain that is there returns its sectors and what they list. *)
LEMMA ChainIs ==
    ASSUME NEW d, NEW M \in Seq(Sectors), NEW D \in Seq(Sectors), Distinct(M), NEW known,
           Len(M) \in 1 .. LastSector, Len(D) <= Len(M) * MapEntries,
           \A i \in 1 .. Len(M) : /\ M[i] \in DOMAIN d.metadata \cup DOMAIN d.pendingSectorWrites
                                  /\ Value(d, M[i]) = MapImage(M, D, i)
    PROVE  ReadMapChain(d, M[1], known) = [maps |-> M, listed |-> D, current |-> 0, status |-> "read"]
<1> DEFINE start == [maps |-> <<>>, listed |-> <<>>, current |-> M[1], status |-> "read"]
           g == [k \in 0 .. LastSector |-> Upon(M, D, IF k < Len(M) THEN k ELSE Len(M))]
<1>0. /\ LastSector \in Nat /\ Len(M) \in Nat /\ Len(M) > 0 /\ Len(M) <= LastSector /\ Len(D) \in Nat
      /\ MapEntries \in Nat \ {0}
  BY Sizes
<1>1. Upon(M, D, 0) = start
  <2>1. 0 * MapEntries = 0 /\ 0 \in Int /\ Len(D) \in Int
    BY <1>0
  <2>2. Min({0, Len(D)}) = 0
    BY <1>0, <2>1, MinOfTwo
  <2>3. SubSeq(M, 1, 0) = <<>> /\ SubSeq(D, 1, 0) = <<>> /\ 0 < Len(M) /\ 0 + 1 = 1
    BY <1>0
  <2> QED BY <2>1, <2>2, <2>3 DEF Upon
<1>2. ASSUME NEW k \in 1 .. Len(M) PROVE Follow(d, known, Upon(M, D, k - 1)) = Upon(M, D, k)
  <2>1. k - 1 < Len(M) /\ (k - 1) + 1 = k
    BY <1>0
  <2>3. M[k] \in DOMAIN d.metadata \cup DOMAIN d.pendingSectorWrites /\ Value(d, M[k]) = MapImage(M, D, k)
    OBVIOUS
  <2> QED BY ONLY <2>3, FollowsTo, Distinct(M), M \in Seq(Sectors), D \in Seq(Sectors), k \in 1 .. Len(M)
<1>3. Upon(M, D, Len(M)) = [maps |-> M, listed |-> D, current |-> 0, status |-> "read"]
  <2> DEFINE all == Len(M) * MapEntries
  <2>1. all \in Int /\ Len(D) \in Int /\ Len(D) <= all
    BY <1>0
  <2> HIDE DEF all
  <2>2. Min({all, Len(D)}) = Len(D)
    <3>1. Min({all, Len(D)}) = IF all <= Len(D) THEN all ELSE Len(D)
      BY <2>1, MinOfTwo
    <3> QED BY <2>1, <3>1
  <2>3. SubSeq(M, 1, Len(M)) = M /\ SubSeq(D, 1, Len(D)) = D /\ ~(Len(M) < Len(M))
    BY <1>0
  <2>4. Upon(M, D, Len(M)) = [maps |-> M, listed |-> SubSeq(D, 1, Min({all, Len(D)})), current |-> 0, status |-> "read"]
    BY <2>3 DEF all, Upon
  <2> QED BY <2>2, <2>3, <2>4
<1>4. Follow(d, known, Upon(M, D, Len(M))) = Upon(M, D, Len(M))
  <2>1. Upon(M, D, Len(M)).current = 0
    BY <1>3
  <2> QED BY <2>1, Zenon DEF Follow
<1> HIDE DEF start
<1>5. ASSUME NEW k \in 0 .. LastSector
      PROVE  g[k] = IF k = 0 THEN start ELSE Follow(d, known, g[k - 1])
  <2>1. CASE k = 0
    <3>1. g[0] = Upon(M, D, 0)
      BY <1>0
    <3> QED BY <1>1, <2>1, <3>1
  <2>2. CASE k # 0 /\ k <= Len(M)
    <3>1. k \in 1 .. Len(M) /\ k - 1 \in 0 .. LastSector /\ k - 1 < Len(M)
      BY <1>0, <2>2
    <3>2. g[k - 1] = Upon(M, D, k - 1) /\ g[k] = Upon(M, D, k)
      <4>1. (IF k < Len(M) THEN k ELSE Len(M)) = k
        BY <1>0, <2>2
      <4> QED BY <3>1, <4>1
    <3> HIDE DEF g
    <3> QED BY <1>2, <2>2, <3>1, <3>2
  <2>3. CASE k # 0 /\ ~(k <= Len(M))
    <3>1. k - 1 \in 0 .. LastSector /\ ~(k - 1 < Len(M)) /\ ~(k < Len(M))
      BY <1>0, <2>3
    <3>2. g[k - 1] = Upon(M, D, Len(M)) /\ g[k] = Upon(M, D, Len(M))
      BY <3>1
    <3> HIDE DEF g
    <3> QED BY <1>4, <2>3, <3>2
  <2> QED BY <2>1, <2>2, <2>3
<1>9. ReadMapChain(d, M[1], known) = g[LastSector]
  <2>1. g = [k \in 0 .. LastSector |-> g[k]]
    OBVIOUS
  <2> HIDE DEF g
  <2>2. 0 \in 0 .. LastSector /\ \A k \in 1 .. LastSector : k \in 0 .. LastSector /\ k # 0
    BY <1>0
  <2>3. g[0] = start /\ \A k \in 1 .. LastSector : g[k] = Follow(d, known, g[k - 1])
    BY <1>5, <2>2
  <2>4. g[0] = [maps |-> <<>>, listed |-> <<>>, current |-> M[1], status |-> "read"]
    BY <2>3 DEF start
  <2>5. Steps(d, M[1], known, g)
    BY <2>1, <2>3, <2>4 DEF Steps
  <2> QED BY ONLY <2>5, ChainBy
<1>10. g[LastSector] = Upon(M, D, Len(M))
  <2>1. LastSector \in 0 .. LastSector /\ (IF LastSector < Len(M) THEN LastSector ELSE Len(M)) = Len(M)
    BY <1>0
  <2> QED BY <2>1
<1> HIDE DEF g
<1> QED BY <1>3, <1>9, <1>10

(* Reading a chain that is there up to a sector that is not known.         *)
LEMMA ChainStops ==
    ASSUME NEW d, NEW M \in Seq(Sectors), NEW D \in Seq(Sectors), Distinct(M), NEW known \in Nat,
           Len(M) \in 1 .. LastSector, NEW n \in 2 .. Len(M), known < n,
           M[n] \notin DOMAIN d.metadata \cup DOMAIN d.pendingSectorWrites,
           \A i \in 1 .. n - 1 : /\ M[i] \in DOMAIN d.metadata \cup DOMAIN d.pendingSectorWrites
                                /\ Value(d, M[i]) = MapImage(M, D, i)
    PROVE  ReadMapChain(d, M[1], known).status = "incomplete"
<1> DEFINE stop == [Upon(M, D, n - 1) EXCEPT !.status = "incomplete"]
           g == [k \in 0 .. LastSector |-> IF k < n THEN Upon(M, D, k) ELSE stop]
<1>0. /\ LastSector \in Nat /\ Len(M) \in Nat /\ n \in Nat /\ n > 1 /\ n <= Len(M) /\ Len(M) <= LastSector
      /\ Len(D) \in Nat /\ MapEntries \in Nat \ {0}
  BY Sizes
<1>1. Upon(M, D, 0) = [maps |-> <<>>, listed |-> <<>>, current |-> M[1], status |-> "read"]
  <2>1. 0 * MapEntries = 0 /\ 0 \in Int /\ Len(D) \in Int
    BY <1>0
  <2>2. Min({0, Len(D)}) = 0
    BY <1>0, <2>1, MinOfTwo
  <2>3. SubSeq(M, 1, 0) = <<>> /\ SubSeq(D, 1, 0) = <<>> /\ 0 < Len(M) /\ 0 + 1 = 1
    BY <1>0
  <2> QED BY <2>1, <2>2, <2>3 DEF Upon
<1>2. ASSUME NEW k \in 1 .. Len(M), k < n PROVE Follow(d, known, Upon(M, D, k - 1)) = Upon(M, D, k)
  <2>1. k \in 1 .. n - 1
    BY <1>0, <1>2
  <2>2. M[k] \in DOMAIN d.metadata \cup DOMAIN d.pendingSectorWrites /\ Value(d, M[k]) = MapImage(M, D, k)
    BY <2>1
  <2> QED BY ONLY <2>2, FollowsTo, Distinct(M), M \in Seq(Sectors), D \in Seq(Sectors), k \in 1 .. Len(M)
<1>3. Follow(d, known, Upon(M, D, n - 1)) = stop
  <2> DEFINE c == Upon(M, D, n - 1)
  <2>1. c.current = M[n] /\ c.status = "read" /\ c.maps = SubSeq(M, 1, n - 1)
    BY <1>0 DEF Upon
  <2> HIDE DEF c
  <2>2. /\ Len(SubSeq(M, 1, n - 1)) = n - 1 /\ DOMAIN SubSeq(M, 1, n - 1) = 1 .. n - 1
        /\ \A i \in 1 .. n - 1 : SubSeq(M, 1, n - 1)[i] = M[i]
    BY <1>0
  <2>3. M[n] \notin Elems(SubSeq(M, 1, n - 1))
    <3>1. \A i \in 1 .. n - 1 : i \in 1 .. Len(M) /\ i # n
      BY <1>0
    <3> QED BY <2>2, <3>1 DEF Distinct, Elems
  <2>4. M[n] # 0 /\ Len(c.maps) >= known
    <3>1. M[n] \in Sectors
      BY <1>0
    <3>2. M[n] # 0
      BY <3>1, Sizes DEF Sectors
    <3>3. Len(c.maps) = n - 1
      BY <2>1, <2>2
    <3>4. n - 1 >= known
      BY <1>0
    <3> QED BY <3>2, <3>3, <3>4
  <2>5. /\ ~(c.current = 0 \/ c.status # "read") /\ c.current \notin Elems(c.maps)
        /\ Len(c.maps) >= known /\ c.current \notin DOMAIN d.metadata \cup DOMAIN d.pendingSectorWrites
    BY <2>1, <2>3, <2>4
  <2>6. Follow(d, known, c) = [c EXCEPT !.status = "incomplete"]
    BY <2>5, Zenon DEF Follow
  <2> QED BY <2>6 DEF c
<1>4. stop.status = "incomplete" /\ Follow(d, known, stop) = stop
  <2>1. stop.status = "incomplete"
    BY DEF Upon
  <2> HIDE DEF stop
  <2> QED BY <2>1, Zenon DEF Follow
<1> HIDE DEF stop
<1>5. ASSUME NEW k \in 1 .. LastSector PROVE g[k] = Follow(d, known, g[k - 1])
  <2>1. CASE k < n
    <3>1. k \in 1 .. Len(M) /\ k - 1 < n /\ k \in 0 .. LastSector /\ k - 1 \in 0 .. LastSector
      BY <1>0, <2>1
    <3>2. g[k] = Upon(M, D, k) /\ g[k - 1] = Upon(M, D, k - 1)
      BY <2>1, <3>1
    <3> HIDE DEF g
    <3> QED BY <1>2, <2>1, <3>1, <3>2
  <2>2. CASE k = n
    <3>1. ~(k < n) /\ k - 1 < n /\ k - 1 = n - 1 /\ k \in 0 .. LastSector /\ k - 1 \in 0 .. LastSector
      BY <1>0, <2>2
    <3>2. g[k] = stop /\ g[k - 1] = Upon(M, D, n - 1)
      BY <3>1
    <3> HIDE DEF g
    <3> QED BY <1>3, <3>2
  <2>3. CASE k > n
    <3>1. ~(k < n) /\ ~(k - 1 < n) /\ k \in 0 .. LastSector /\ k - 1 \in 0 .. LastSector
      BY <1>0, <2>3
    <3>2. g[k] = stop /\ g[k - 1] = stop
      BY <3>1
    <3> HIDE DEF g
    <3> QED BY <1>4, <3>2
  <2>4. k < n \/ k = n \/ k > n
    BY <1>0
  <2> QED BY <2>1, <2>2, <2>3, <2>4
<1>6. g[0] = Upon(M, D, 0) /\ g[LastSector] = stop
  <2>1. 0 \in 0 .. LastSector /\ LastSector \in 0 .. LastSector /\ 0 < n /\ ~(LastSector < n)
    BY <1>0
  <2> QED BY <2>1
<1>7. ReadMapChain(d, M[1], known) = g[LastSector]
  <2>1. g = [k \in 0 .. LastSector |-> g[k]]
    OBVIOUS
  <2> HIDE DEF g
  <2>2. g[0] = [maps |-> <<>>, listed |-> <<>>, current |-> M[1], status |-> "read"]
    BY <1>1, <1>6
  <2>3. \A k \in 1 .. LastSector : g[k] = Follow(d, known, g[k - 1])
    BY <1>5
  <2>4. Steps(d, M[1], known, g)
    BY <2>1, <2>2, <2>3 DEF Steps
  <2> QED BY ONLY <2>4, ChainBy
<1> HIDE DEF g
<1> QED BY <1>4, <1>6, <1>7

-----------------------------------------------------------------------------
(* The passes over the directory and over what is pending. *)

(* An entry that is written as it was changes nothing. *)
LEMMA SameEntry ==
    ASSUME NEW d, NEW e
    PROVE  /\ CommitRename(d, e, e) = d /\ BeginReplacement(d, e, e) = d
           /\ StageHypothesis(d, e, e) = d /\ CommitDelete(d, e, e) = d
<1>1. CommitRename(d, e, e) = d
  BY Zenon DEF CommitRename
<1>2. BeginReplacement(d, e, e) = d
  <2>1. e.status # "active" \/ e.status # "open"
    OBVIOUS
  <2> QED BY <2>1, Zenon DEF BeginReplacement
<1>3. StageHypothesis(d, e, e) = d
  BY Zenon DEF StageHypothesis
<1>4. CommitDelete(d, e, e) = d
  <2>1. e.status # "active" \/ e.status # "deleted"
    OBVIOUS
  <2> QED BY <2>1, Zenon DEF CommitDelete
<1> QED BY <1>1, <1>2, <1>3, <1>4

Passes == {"rename", "open", "stage", "delete"}

(* The four passes of directoryWrite over the changed entries. *)
LEMMA ChangeIs ==
    ASSUME NEW d, NEW b, NEW a
    PROVE  /\ Change("rename", d, b, a) = CommitRename(d, b, a)
           /\ Change("open", d, b, a) = BeginReplacement(d, b, a)
           /\ Change("stage", d, b, a) = StageHypothesis(d, b, a)
           /\ Change("delete", d, b, a) = CommitDelete(d, b, a)
BY DEF Change

(* Two directories that differ in the entry s only. *)
OnePlace(kind, d, b, a, s) ==
    /\ kind \in Passes /\ d.error = FALSE /\ s \in 1 .. Slots
    /\ \A i \in 1 .. Slots : i # s => b[i] = a[i]

(* Where one entry of the directory differs, a pass is the change it makes. *)
LEMMA OnePass ==
    ASSUME NEW kind, NEW d, NEW s, NEW b, NEW a, OnePlace(kind, d, b, a, s)
    PROVE  Pass(kind, d, b, a) = Change(kind, d, b[s], a[s])
<1> /\ kind \in Passes /\ d.error = FALSE /\ s \in 1 .. Slots
    /\ \A i \in 1 .. Slots : i # s => b[i] = a[i]
  BY DEF OnePlace
<1> DEFINE c == Change(kind, d, b[s], a[s])
           Onward(u, i) == IF u.error THEN u ELSE Change(kind, u, b[i], a[i])
           P(t) == t = [i \in 0 .. Slots |-> IF i = 0 THEN d ELSE Onward(t[i - 1], i)]
           g == [i \in 0 .. Slots |-> IF i < s THEN d ELSE c]
           t == CHOOSE t : P(t)
<1>0. Slots \in Nat \ {0} /\ s \in Nat /\ s > 0 /\ s <= Slots
  BY Sizes
<1>1. \A i \in 1 .. Slots : i # s => \A u : Onward(u, i) = u
  <2>1. \A u, e : Change(kind, u, e, e) = u
    BY SameEntry, ChangeIs DEF Passes
  <2> QED BY <2>1
<1>2. Onward(d, s) = c
  OBVIOUS
<1> HIDE DEF c, Onward
<1>3. ASSUME NEW i \in 0 .. Slots
      PROVE  g[i] = IF i = 0 THEN d ELSE Onward(g[i - 1], i)
  <2>1. CASE i = 0
    BY <1>0, <2>1
  <2>2. CASE i # 0 /\ i # s
    <3>1. i - 1 \in 0 .. Slots /\ (i - 1 < s <=> i < s)
      BY <1>0, <2>2
    <3>2. g[i - 1] = g[i]
      BY <3>1
    <3>3. i \in 1 .. Slots
      BY <2>2
    <3> HIDE DEF g
    <3> QED BY <1>1, <2>2, <3>2, <3>3
  <2>3. CASE i = s
    <3>1. i - 1 \in 0 .. Slots /\ i - 1 < s /\ i # 0
      BY <1>0, <2>3
    <3>2. g[i - 1] = d /\ g[i] = c
      BY <1>0, <2>3, <3>1
    <3> HIDE DEF g
    <3> QED BY <1>2, <2>3, <3>1, <3>2
  <2> QED BY <2>1, <2>2, <2>3
<1>4. P(g)
  <2>2. [i \in 0 .. Slots |-> g[i]] = [i \in 0 .. Slots |-> IF i = 0 THEN d ELSE Onward(g[i - 1], i)]
    <3> HIDE DEF g
    <3> QED BY <1>3, Zenon
  <2>3. g = [i \in 0 .. Slots |-> g[i]]
    OBVIOUS
  <2> HIDE DEF g
  <2> QED BY <2>2, <2>3
<1>5. P(t)
  <2> HIDE DEF P, g
  <2> QED BY <1>4, Zenon
<1>6. \A i \in 0 .. Slots : t[i] = IF i = 0 THEN d ELSE Onward(t[i - 1], i)
  <2> HIDE DEF t
  <2> QED BY <1>5
<1>7. Pass(kind, d, b, a) = t[Slots]
  BY DEF Pass, Onward
<1> HIDE DEF t, P
<1> DEFINE T == {i \in 0 .. Slots : t[i] = g[i]}
<1>8. 0 \in T
  <2>1. 0 \in 0 .. Slots
    BY <1>0
  <2>2. t[0] = d /\ g[0] = d
    <3> HIDE DEF g
    <3> QED BY <1>3, <1>6, <2>1
  <2> QED BY <2>1, <2>2
<1>9. ASSUME NEW m \in 1 .. Slots, m - 1 \in T PROVE m \in T
  <2>1. m \in 0 .. Slots /\ m # 0 /\ t[m - 1] = g[m - 1]
    BY <1>0, <1>9
  <2> HIDE DEF g
  <2> QED BY <1>3, <1>6, <2>1
<1>10. t[Slots] = g[Slots]
  <2>1. 0 .. Slots \subseteq T
    <3> HIDE DEF T
    <3> QED BY <1>0, <1>8, <1>9, Upto
  <2> HIDE DEF g
  <2> QED BY <1>0, <2>1
<1>11. g[Slots] = c
  BY <1>0
<1> HIDE DEF g
<1> QED BY <1>7, <1>10, <1>11 DEF c

(* The three commits, by the name CommitEach gives them. *)
LEMMA CommitIs ==
    ASSUME NEW d, NEW m
    PROVE  /\ Commit("create", d, m) = CommitCreate(d, m)
           /\ Commit("append", d, m) = CommitAppend(d, m)
           /\ Commit("replace", d, m) = CommitReplacement(d, m)
BY DEF Commit

(* One number, in ascending order. *)
LEMMA AscendingOfOne ==
    ASSUME NEW m \in Int
    PROVE  Cardinality({m}) = 1 /\ Ascending({m})[1] = m
<1>1. IsFiniteSet({m}) /\ Cardinality({m}) = 1
  BY FS_Singleton
<1>2. Ascending({m}) \in Seq({m}) /\ Len(Ascending({m})) = 1
  BY <1>1, AscendingIs
<1> QED BY <1>1, <1>2

(* CommitEach over no map sector changes nothing. *)
LEMMA CommitNone ==
    ASSUME NEW kind, NEW d
    PROVE  CommitEach(kind, d, {}) = d
<1> DEFINE P(t) == t = [k \in 0 .. Cardinality({}) |-> IF k = 0 THEN d
                        ELSE IF t[k - 1].error THEN t[k - 1]
                        ELSE Commit(kind, t[k - 1], Ascending({})[k])]
           g == [k \in 0 .. 0 |-> d]
           t == CHOOSE t : P(t)
<1>1. Cardinality({}) = 0
  BY FS_EmptySet
<1>2. P(g)
  <2>1. \A k \in 0 .. 0 : k = 0
    OBVIOUS
  <2> QED BY <1>1, <2>1
<1>3. P(t)
  <2> HIDE DEF P, g
  <2> QED BY <1>2, Zenon
<1>4. CommitEach(kind, d, {}) = t[0]
  BY <1>1 DEF CommitEach
<1>5. t[0] = d
  <2> HIDE DEF t
  <2> QED BY <1>1, <1>3
<1> QED BY <1>4, <1>5

(* CommitEach over one map sector is the commit of that one. *)
LEMMA CommitOne ==
    ASSUME NEW kind, NEW d, NEW m \in Int
    PROVE  CommitEach(kind, d, {m}) = IF d.error THEN d ELSE Commit(kind, d, m)
<1> DEFINE Next(u, k) == IF u.error THEN u ELSE Commit(kind, u, Ascending({m})[k])
           P(t) == t = [k \in 0 .. Cardinality({m}) |-> IF k = 0 THEN d ELSE Next(t[k - 1], k)]
           g == [k \in 0 .. 1 |-> IF k = 0 THEN d ELSE Next(d, 1)]
           t == CHOOSE t : P(t)
<1>1. Cardinality({m}) = 1 /\ Next(d, 1) = IF d.error THEN d ELSE Commit(kind, d, m)
  BY AscendingOfOne
<1> HIDE DEF Next
<1>2. P(g)
  <2>1. \A k \in 0 .. 1 : g[k] = IF k = 0 THEN d ELSE Next(g[k - 1], k)
    <3> TAKE k \in 0 .. 1
    <3>1. k = 0 \/ k = 1
      OBVIOUS
    <3>2. g[0] = d /\ g[1] = Next(d, 1)
      OBVIOUS
    <3> HIDE DEF g
    <3> QED BY <3>1, <3>2
  <2>2. [k \in 0 .. 1 |-> g[k]] = [k \in 0 .. 1 |-> IF k = 0 THEN d ELSE Next(g[k - 1], k)]
    <3> HIDE DEF g
    <3> QED BY <2>1, Zenon
  <2>3. g = [k \in 0 .. 1 |-> g[k]]
    OBVIOUS
  <2> HIDE DEF g
  <2> QED BY <1>1, <2>2, <2>3
<1>3. P(t)
  <2> HIDE DEF P, g
  <2> QED BY <1>2, Zenon
<1>4. CommitEach(kind, d, {m}) = t[1]
  BY <1>1 DEF CommitEach, Next
<1> HIDE DEF t
<1>5. t[0] = d
  BY <1>1, <1>3
<1>6. t[1] = Next(t[0], 1)
  <2>1. \A k \in 0 .. 1 : t[k] = IF k = 0 THEN d ELSE Next(t[k - 1], k)
    BY <1>1, <1>3
  <2> QED BY <2>1
<1> QED BY <1>1, <1>4, <1>5, <1>6

-----------------------------------------------------------------------------
(* Files and the sectors they read as. *)

(* The elements of a sequence. *)
LEMMA ElemsAre ==
    ASSUME NEW S, NEW s \in Seq(S)
    PROVE  /\ Elems(s) \subseteq S /\ Elems(s) = {s[i] : i \in 1 .. Len(s)}
           /\ Len(s) \in Nat /\ DOMAIN s = 1 .. Len(s)
           /\ \A i \in 1 .. Len(s) : s[i] \in S /\ s[i] \in Elems(s)
           /\ \A x \in Elems(s) : \E i \in 1 .. Len(s) : s[i] = x
BY DEF Elems

(* The place of an element of a sequence without repeats. *)
LEMMA PlaceIs ==
    ASSUME NEW S, NEW s \in Seq(S), Distinct(s), NEW i \in 1 .. Len(s)
    PROVE  Place(s, s[i]) = i
<1>1. DOMAIN s = 1 .. Len(s)
  OBVIOUS
<1>2. \A j \in DOMAIN s : s[j] = s[i] => j = i
  BY <1>1 DEF Distinct
<1> QED BY <1>1, <1>2 DEF Place

(* Different sectors are at most as many as the disk has. *)
LEMMA FewSectors ==
    ASSUME NEW s \in Seq(Sectors), Distinct(s)
    PROVE  Len(s) <= LastSector
<1>0. LastSector \in Nat /\ Len(s) \in Nat
  BY Sizes
<1> DEFINE n == Len(s)
           f == [i \in 1 .. n |-> s[i]]
<1>1. f \in Injection(1 .. n, Sectors)
  BY DEF Injection, IsInjective, Distinct
<1>2. IsFiniteSet(Sectors) /\ Cardinality(Sectors) <= LastSector
  <2>1. /\ IsFiniteSet(2 .. LastSector)
        /\ Cardinality(2 .. LastSector) = IF 2 > LastSector THEN 0 ELSE LastSector - 2 + 1
    BY <1>0, FS_Interval
  <2> QED BY <1>0, <2>1 DEF Sectors
<1>3. Cardinality(1 .. n) = n
  <2>1. Cardinality(1 .. n) = IF 1 > n THEN 0 ELSE n - 1 + 1
    BY <1>0, FS_Interval
  <2> QED BY <1>0, <2>1
<1>4. Cardinality(1 .. n) <= Cardinality(Sectors)
  <2> HIDE DEF f, n
  <2> QED BY <1>1, <1>2, FS_Injection
<1>5. Cardinality(Sectors) \in Nat
  BY <1>2, FS_CardinalityType
<1> QED BY <1>0, <1>2, <1>3, <1>4, <1>5

(* What follows from Sound, for citing. *)
LEMMA SoundFacts ==
    ASSUME NEW f, Sound(f)
    PROVE  /\ f \in Files /\ f.maps \in Seq(Sectors) /\ f.data \in Seq(Sectors) /\ f.bytes \in Seq(Int)
           /\ f.slot \in 1 .. Slots /\ f.host \in Paths
           /\ Len(f.bytes) \in Nat \ {0} /\ Len(f.data) \in Nat \ {0} /\ Len(f.maps) \in Nat \ {0}
           /\ Len(f.maps) \in 1 .. LastSector /\ Len(f.maps) <= Len(f.data)
           /\ Len(f.data) = SectorsFor(Len(f.bytes)) /\ Len(f.maps) = MapsFor(Len(f.data))
           /\ Distinct(f.maps) /\ Distinct(f.data) /\ Elems(f.maps) \cap Elems(f.data) = {}
           /\ f.maps[1] \in Sectors /\ f.maps[1] \in Elems(f.maps) /\ f.maps[1] \notin Elems(f.data)
           /\ f.maps # <<>> /\ f.data # <<>>
           /\ SectorsOf(f) \subseteq Sectors /\ Elems(f.maps) \subseteq Sectors /\ Elems(f.data) \subseteq Sectors
           /\ Dir \notin Sectors /\ Sectors \subseteq Int
<1>1. /\ f \in Files /\ f.maps \in Seq(Sectors) /\ f.data \in Seq(Sectors) /\ f.bytes \in Seq(Int)
      /\ f.slot \in 1 .. Slots /\ f.host \in Paths
  BY DEF Sound, Files
<1>2. /\ Len(f.data) = SectorsFor(Len(f.bytes)) /\ Len(f.maps) = MapsFor(Len(f.data)) /\ Len(f.bytes) > 0
      /\ Distinct(f.maps) /\ Distinct(f.data) /\ Elems(f.maps) \cap Elems(f.data) = {}
  BY DEF Sound
<1>3. Len(f.bytes) \in Nat \ {0}
  BY <1>1, <1>2
<1>4. Len(f.data) \in Nat \ {0}
  <2>1. Len(f.data) \in Nat
    BY <1>1
  <2>2. Len(f.bytes) > 0 => SectorsFor(Len(f.bytes)) > 0
    BY <1>3, Sizes, Ceiling DEF SectorsFor
  <2> QED BY <1>2, <2>1, <2>2
<1>5. Len(f.maps) \in Nat \ {0} /\ Len(f.maps) <= Len(f.data)
  <2>1. Len(f.maps) \in Nat
    BY <1>1
  <2>2. \A n \in Nat \ {0} : MapsFor(n) > 0 /\ MapsFor(n) <= n
    BY Sizes, Ceiling DEF MapsFor
  <2>3. MapsFor(Len(f.data)) > 0 /\ MapsFor(Len(f.data)) <= Len(f.data)
    BY <1>4, <2>2
  <2> QED BY <1>2, <2>1, <2>3
<1>6. Len(f.maps) \in 1 .. LastSector
  <2>1. Len(f.maps) <= LastSector
    BY <1>1, <1>2, FewSectors
  <2> QED BY <1>5, <2>1, Sizes
<1>7. Elems(f.maps) \subseteq Sectors /\ Elems(f.data) \subseteq Sectors
  BY <1>1, ElemsAre
<1>8. f.maps[1] \in Sectors /\ f.maps[1] \in Elems(f.maps)
  <2>1. 1 \in 1 .. Len(f.maps)
    BY <1>5
  <2> QED BY <1>1, <2>1, ElemsAre
<1>9. f.maps # <<>> /\ f.data # <<>>
  BY <1>4, <1>5
<1>10. Dir \notin Sectors /\ Sectors \subseteq Int
  BY Sizes DEF Dir, Sectors
<1> QED BY <1>1, <1>2, <1>3, <1>4, <1>5, <1>6, <1>7, <1>8, <1>9, <1>10 DEF SectorsOf

(* The map sectors of a file list its data, and each but the last is full. *)
LEMMA MapsHold ==
    ASSUME NEW f, Sound(f)
    PROVE  /\ Len(f.data) <= Len(f.maps) * MapEntries
           /\ \A i \in 1 .. Len(f.maps) - 1 : i * MapEntries <= Len(f.data)
<1> DEFINE n == Len(f.data)
           m == Len(f.maps)
<1>1. n \in Nat \ {0} /\ m \in Nat \ {0} /\ m = (n + MapEntries - 1) \div MapEntries
  BY SoundFacts DEF MapsFor
<1>2. n <= m * MapEntries /\ (m - 1) * MapEntries < n
  <2>1. LET q == (n + MapEntries - 1) \div MapEntries
        IN  n <= q * MapEntries /\ (n > 0 => q > 0 /\ (q - 1) * MapEntries < n)
    BY <1>1, Sizes, Ceiling
  <2> HIDE DEF n, m
  <2> QED BY <1>1, <2>1
<1> HIDE DEF n, m
<1>3. ASSUME NEW i \in 1 .. m - 1 PROVE i * MapEntries <= n
  <2>1. i \in Nat /\ m - 1 \in Nat /\ i <= m - 1
    BY <1>1
  <2>2. i * MapEntries <= (m - 1) * MapEntries /\ i * MapEntries \in Nat /\ (m - 1) * MapEntries \in Nat
    BY <2>1, Sizes, Multiples
  <2> QED BY <1>1, <1>2, <2>2
<1> QED BY <1>2, <1>3 DEF n, m

(* A file whose map sectors read as they should is read as it is. *)
LEMMA FileChain ==
    ASSUME NEW d, NEW f, Sound(f), Reads(d, f), NEW known
    PROVE  ReadMapChain(d, f.maps[1], known) = [maps |-> f.maps, listed |-> f.data, current |-> 0, status |-> "read"]
<1>1. f.maps \in Seq(Sectors) /\ f.data \in Seq(Sectors) /\ Distinct(f.maps) /\ Len(f.maps) \in 1 .. LastSector
  BY SoundFacts
<1>2. Len(f.data) <= Len(f.maps) * MapEntries
  BY MapsHold
<1>3. \A i \in 1 .. Len(f.maps) : /\ f.maps[i] \in DOMAIN d.metadata \cup DOMAIN d.pendingSectorWrites
                                  /\ Value(d, f.maps[i]) = MapImage(f.maps, f.data, i)
  BY DEF Reads
<1> QED BY ONLY <1>1, <1>2, <1>3, ChainIs

(* A file whose chain has a gap is read up to the gap. *)
LEMMA GapChain ==
    ASSUME NEW d, NEW s, Len(s.maps) \in Nat \ {0}, NEW f, Sound(f), Gap(d, s, f), NEW known \in 0 .. Len(s.maps)
    PROVE  ReadMapChain(d, f.maps[1], known).status = "incomplete"
<1>1. f.maps \in Seq(Sectors) /\ f.data \in Seq(Sectors) /\ Distinct(f.maps) /\ Len(f.maps) \in 1 .. LastSector
  BY SoundFacts
<1>2. PICK n \in Len(s.maps) + 1 .. Len(f.maps) : Missing(d, f, n)
  BY DEF Gap
<1>3. n \in 2 .. Len(f.maps) /\ known < n /\ known \in Nat
  BY <1>1
<1>4. /\ f.maps[n] \notin DOMAIN d.metadata \cup DOMAIN d.pendingSectorWrites
      /\ \A i \in 1 .. n - 1 : /\ f.maps[i] \in DOMAIN d.metadata \cup DOMAIN d.pendingSectorWrites
                               /\ Value(d, f.maps[i]) = MapImage(f.maps, f.data, i)
  BY <1>2 DEF Missing
<1> DEFINE M == f.maps
           D == f.data
<1>5. /\ M \in Seq(Sectors) /\ D \in Seq(Sectors) /\ Distinct(M) /\ Len(M) \in 1 .. LastSector
      /\ n \in 2 .. Len(M) /\ known < n /\ known \in Nat
      /\ M[n] \notin DOMAIN d.metadata \cup DOMAIN d.pendingSectorWrites
  BY <1>1, <1>3, <1>4
<1>6. \A i \in 1 .. n - 1 : /\ M[i] \in DOMAIN d.metadata \cup DOMAIN d.pendingSectorWrites
                            /\ Value(d, M[i]) = MapImage(M, D, i)
  BY <1>4
<1> HIDE DEF M, D
<1>7. ReadMapChain(d, M[1], known).status = "incomplete"
  BY ONLY <1>5, <1>6, ChainStops
<1> QED BY <1>7 DEF M

(* Where there is a gap, sectors are left to write. *)
LEMMA GapWaits ==
    ASSUME NEW d, NEW s, NEW f, NEW todo, Linked(d, s, f, todo), Gap(d, s, f)
    PROVE  todo # {}
BY DEF Linked, Gap, Missing

(* A chain that is there up to some of its sectors, of which the image has *)
(* nothing, is there or has a gap.                                         *)
LEMMA FirstMissing ==
    ASSUME NEW d, NEW s, Len(s.maps) \in Nat, NEW f, Len(f.maps) \in Nat,
           \A i \in 1 .. Len(f.maps) :
              \/ /\ f.maps[i] \in DOMAIN d.metadata \cup DOMAIN d.pendingSectorWrites
                 /\ Value(d, f.maps[i]) = MapImage(f.maps, f.data, i)
              \/ i > Len(s.maps) /\ f.maps[i] \notin DOMAIN d.metadata \cup DOMAIN d.pendingSectorWrites
    PROVE  Reads(d, f) \/ Gap(d, s, f)
<1> DEFINE T == {i \in 1 .. Len(f.maps) : f.maps[i] \notin DOMAIN d.metadata \cup DOMAIN d.pendingSectorWrites}
<1>1. CASE T = {}
  BY <1>1 DEF Reads
<1>2. CASE T # {}
  <2>1. T \subseteq Nat
    OBVIOUS
  <2>2. PICK n \in T : \A y \in T : n <= y
    <3> HIDE DEF T
    <3> QED BY <1>2, <2>1, Least
  <2>3. n \in Len(s.maps) + 1 .. Len(f.maps)
    BY <2>2
  <2>4. ASSUME NEW k \in 1 .. n - 1
        PROVE  /\ f.maps[k] \in DOMAIN d.metadata \cup DOMAIN d.pendingSectorWrites
               /\ Value(d, f.maps[k]) = MapImage(f.maps, f.data, k)
    <3>1. k \in 1 .. Len(f.maps) /\ ~(n <= k)
      BY <2>3
    <3>2. k \notin T
      <4> HIDE DEF T
      <4> QED BY <2>2, <3>1
    <3> QED BY <3>1, <3>2
  <2>5. Missing(d, f, n)
    BY <2>2, <2>4 DEF Missing
  <2> QED BY <2>3, <2>5 DEF Gap
<1> QED BY <1>1, <1>2

(* An empty first map sector is read as an empty file. *)
LEMMA StartChain ==
    ASSUME NEW d, NEW m \in Sectors, Reads(d, [maps |-> <<m>>, data |-> <<>>]), NEW known
    PROVE  ReadMapChain(d, m, known) = [maps |-> <<m>>, listed |-> <<>>, current |-> 0, status |-> "read"]
<1> DEFINE M == <<m>>
<1>0. LastSector \in Nat /\ MapEntries \in Nat \ {0} /\ 1 <= LastSector
  BY Sizes DEF Sectors
<1>1. M \in Seq(Sectors) /\ <<>> \in Seq(Sectors) /\ Distinct(M) /\ Len(M) \in 1 .. LastSector /\ M[1] = m
  BY <1>0 DEF Distinct
<1>2. Len(<<>>) <= Len(M) * MapEntries
  BY <1>0
<1>3. \A i \in 1 .. Len(M) : /\ M[i] \in DOMAIN d.metadata \cup DOMAIN d.pendingSectorWrites
                             /\ Value(d, M[i]) = MapImage(M, <<>>, i)
  BY DEF Reads
<1> HIDE DEF M
<1>4. ReadMapChain(d, M[1], known) = [maps |-> M, listed |-> <<>>, current |-> 0, status |-> "read"]
  BY ONLY <1>1, <1>2, <1>3, ChainIs
<1> QED BY <1>1, <1>4 DEF M

(* The empty map sector is the image of a chain of one that lists nothing. *)
LEMMA EmptyMapIs ==
    ASSUME NEW m
    PROVE  MapImage(<<m>>, <<>>, 1) = EmptyMap
<1>1. MapEntries \in Nat \ {0}
  BY Sizes
<1>2. Min({1 * MapEntries, Len(<<>>)}) = 0
  <2>1. 1 * MapEntries = MapEntries /\ Len(<<>>) = 0
    BY <1>1
  <2>2. Min({MapEntries, 0}) = 0
    BY <1>1, MinOfTwo
  <2> QED BY <2>1, <2>2
<1>3. SubSeq(<<>>, (1 - 1) * MapEntries + 1, 0) = <<>>
  <2>1. (1 - 1) * MapEntries + 1 = 1
    BY <1>1
  <2>2. SubSeq(<<>>, 1, 0) = <<>>
    OBVIOUS
  <2> QED BY <2>1, <2>2
<1>4. Len(<<m>>) = 1 /\ ~(1 < 1) /\ ~(1 > 1)
  OBVIOUS
<1>5. MapImage(<<m>>, <<>>, 1).next = 0 /\ MapImage(<<m>>, <<>>, 1).prev = 0
  BY <1>4 DEF MapImage
<1>6. MapImage(<<m>>, <<>>, 1).data = <<>>
  BY <1>2, <1>3 DEF MapImage
<1>7. MapImage(<<m>>, <<>>, 1) = [next |-> MapImage(<<m>>, <<>>, 1).next, prev |-> MapImage(<<m>>, <<>>, 1).prev,
                                  data |-> MapImage(<<m>>, <<>>, 1).data]
  BY DEF MapImage
<1> QED BY <1>5, <1>6, <1>7 DEF EmptyMap

(* Where a file begins like another, so do its map sectors, but for the    *)
(* last.                                                                   *)
LEMMA PrefixImages ==
    ASSUME NEW s, Sound(s), NEW f, Sound(f), Begins(s, f), NEW i \in 1 .. Len(s.maps) - 1
    PROVE  MapImage(s.maps, s.data, i) = MapImage(f.maps, f.data, i)
<1> DEFINE from == (i - 1) * MapEntries
           upto == i * MapEntries
<1>1. /\ s.data \in Seq(Sectors) /\ f.data \in Seq(Sectors) /\ s.maps \in Seq(Sectors) /\ f.maps \in Seq(Sectors)
      /\ Len(s.maps) \in Nat \ {0} /\ Len(f.maps) \in Nat \ {0} /\ Len(s.data) \in Nat /\ Len(f.data) \in Nat
  BY SoundFacts
<1>2. Len(s.maps) <= Len(f.maps) /\ Len(s.data) <= Len(f.data)
  BY DEF Begins
<1>3. i \in Nat /\ i > 0 /\ i < Len(s.maps) /\ i < Len(f.maps) /\ i + 1 \in 1 .. Len(s.maps)
  BY <1>1, <1>2
<1>4. from \in Nat /\ upto \in Nat /\ from <= upto /\ upto <= Len(s.data)
  <2>1. i - 1 \in Nat /\ i \in Nat /\ i - 1 <= i
    BY <1>3
  <2>2. from \in Nat /\ upto \in Nat /\ from <= upto
    BY <2>1, Sizes, Multiples
  <2> QED BY <2>2, MapsHold
<1> HIDE DEF from, upto
<1>5. Min({upto, Len(s.data)}) = upto /\ Min({upto, Len(f.data)}) = upto
  <2>1. upto \in Int /\ Len(s.data) \in Int /\ Len(f.data) \in Int /\ upto <= Len(f.data)
    BY <1>1, <1>2, <1>4
  <2>2. Min({upto, Len(s.data)}) = upto
    BY <1>4, <2>1, MinOfTwo
  <2>3. Min({upto, Len(f.data)}) = upto
    BY <2>1, MinOfTwo
  <2> QED BY <2>2, <2>3
<1>6. SubSeq(s.data, from + 1, upto) = SubSeq(f.data, from + 1, upto)
  <2> DEFINE p == SubSeq(s.data, from + 1, upto)
             q == SubSeq(f.data, from + 1, upto)
  <2>0. upto <= Len(f.data)
    BY <1>1, <1>2, <1>4
  <2>1. p \in Seq(Sectors) /\ Len(p) = upto - from /\ \A k \in 1 .. upto - from : p[k] = s.data[from + k]
    BY <1>1, <1>4
  <2>2. q \in Seq(Sectors) /\ Len(q) = upto - from /\ \A k \in 1 .. upto - from : q[k] = f.data[from + k]
    BY <1>1, <1>4, <2>0
  <2>3. \A k \in 1 .. upto - from : s.data[from + k] = f.data[from + k]
    <3> TAKE k \in 1 .. upto - from
    <3>1. from + k \in 1 .. Len(s.data)
      BY <1>1, <1>4
    <3> QED BY <3>1 DEF Begins
  <2> HIDE DEF p, q
  <2>4. p = q
    BY <2>1, <2>2, <2>3, SeqEqual
  <2> QED BY <2>4 DEF p, q
<1>7. s.maps[i + 1] = f.maps[i + 1] /\ (i > 1 => s.maps[i - 1] = f.maps[i - 1])
  <2>1. i > 1 => i - 1 \in 1 .. Len(s.maps)
    BY <1>1, <1>3
  <2> QED BY <1>3, <2>1 DEF Begins
<1> QED BY <1>3, <1>5, <1>6, <1>7 DEF MapImage, from, upto

-----------------------------------------------------------------------------
(* The storage. *)

(* The state of the storage over a set of host files. *)
Storage(io, H) ==
    /\ io = [host |-> io.host, fault |-> io.fault, ok |-> io.ok]
    /\ io.fault \in Nat /\ io.ok \in BOOLEAN /\ DOMAIN io.host = H

(* Put, by its domain and values. *)
LEMMA PutIs ==
    ASSUME NEW g, NEW x, NEW v
    PROVE  /\ DOMAIN Put(g, x, v) = DOMAIN g \cup {x} /\ Put(g, x, v)[x] = v
           /\ \A y \in DOMAIN g \ {x} : Put(g, x, v)[y] = g[y]
BY DEF Put

(* Without, by its domain and values. *)
LEMMA WithoutIs ==
    ASSUME NEW g, NEW S
    PROVE  /\ DOMAIN Without(g, S) = DOMAIN g \ S
           /\ \A y \in DOMAIN g \ S : Without(g, S)[y] = g[y]
BY DEF Without

(* Merge, by its domain and values. *)
LEMMA MergeIs ==
    ASSUME NEW g, NEW h
    PROVE  /\ DOMAIN Merge(g, h) = DOMAIN g \cup DOMAIN h
           /\ \A y \in DOMAIN g : Merge(g, h)[y] = g[y]
           /\ \A y \in DOMAIN h \ DOMAIN g : Merge(g, h)[y] = h[y]
BY DEF Merge

(* Opening a file that is there fails only by the fault. *)
LEMMA OpenIs ==
    ASSUME NEW H, NEW io, Storage(io, H), NEW h
    PROVE  /\ Storage(Open(io, h), H) /\ Open(io, h).host = io.host
           /\ h \in H => /\ io.fault = 0 => Open(io, h).ok /\ Open(io, h).fault = 0
                         /\ ~Open(io, h).ok => io.fault = 1 /\ Open(io, h).fault = 0
<1> DEFINE works == h \in DOMAIN io.host
           ok == works /\ ~("open" \in FaultKinds /\ io.fault = 1)
           n == IF "open" \in FaultKinds /\ io.fault > 0 THEN io.fault - 1 ELSE io.fault
           c == Call(io, "open", works)
<1>0. DOMAIN io.host = H /\ io.fault \in Nat
  BY DEF Storage
<1>1. c = [host |-> io.host, fault |-> n, ok |-> ok]
  <2>1. c = [io EXCEPT !.ok = ok, !.fault = n]
    BY DEF Call
  <2> HIDE DEF c, ok, n
  <2> QED BY <2>1 DEF Storage
<1>2. /\ n \in Nat /\ ok \in BOOLEAN /\ (io.fault = 0 => n = 0 /\ (works => ok))
      /\ works /\ ~ok => io.fault = 1 /\ n = 0
      /\ works /\ "open" \notin FaultKinds => ok
      /\ ok => works
  BY <1>0
<1>3. Open(io, h) = c /\ (works <=> h \in H)
  BY <1>0 DEF Open
<1> HIDE DEF c, ok, n, works
<1>4. c.host = io.host /\ c.fault = n /\ c.ok = ok
  BY <1>1
<1>5. Storage(c, H)
  BY <1>0, <1>1, <1>2, <1>4 DEF Storage
<1> QED BY <1>2, <1>3, <1>4, <1>5

(* So does reading it. *)
LEMMA ReadIs ==
    ASSUME NEW H, NEW io, Storage(io, H)
    PROVE  /\ Storage(Call(io, "pread", TRUE), H) /\ Call(io, "pread", TRUE).host = io.host
           /\ io.fault = 0 => Call(io, "pread", TRUE).ok /\ Call(io, "pread", TRUE).fault = 0
           /\ ~Call(io, "pread", TRUE).ok => io.fault = 1 /\ Call(io, "pread", TRUE).fault = 0
<1> DEFINE works == TRUE
           ok == works /\ ~("pread" \in FaultKinds /\ io.fault = 1)
           n == IF "pread" \in FaultKinds /\ io.fault > 0 THEN io.fault - 1 ELSE io.fault
           c == Call(io, "pread", works)
<1>0. DOMAIN io.host = H /\ io.fault \in Nat
  BY DEF Storage
<1>1. c = [host |-> io.host, fault |-> n, ok |-> ok]
  <2>1. c = [io EXCEPT !.ok = ok, !.fault = n]
    BY DEF Call
  <2> HIDE DEF c, ok, n
  <2> QED BY <2>1 DEF Storage
<1>2. /\ n \in Nat /\ ok \in BOOLEAN /\ (io.fault = 0 => n = 0 /\ (works => ok))
      /\ works /\ ~ok => io.fault = 1 /\ n = 0
      /\ works /\ "pread" \notin FaultKinds => ok
      /\ ok => works
  BY <1>0
<1> HIDE DEF ok, n, c
<1>4. c.host = io.host /\ c.fault = n /\ c.ok = ok
  BY <1>1
<1>5. Storage(c, H)
  BY <1>0, <1>1, <1>2, <1>4 DEF Storage
<1> QED BY <1>2, <1>4, <1>5 DEF c

(* Creating a file adds an empty one, and fails only by the fault where    *)
(* none was.                                                               *)
LEMMA OpenNewIs ==
    ASSUME NEW H, NEW io, Storage(io, H), NEW h
    PROVE  /\ OpenNew(io, h).ok => /\ h \notin H /\ Storage(OpenNew(io, h), H \cup {h})
                                   /\ OpenNew(io, h).host = Put(io.host, h, <<>>)
           /\ ~OpenNew(io, h).ok => Storage(OpenNew(io, h), H) /\ OpenNew(io, h).host = io.host
           /\ h \notin H => /\ io.fault = 0 => OpenNew(io, h).ok /\ OpenNew(io, h).fault = 0
                            /\ ~OpenNew(io, h).ok => io.fault = 1 /\ OpenNew(io, h).fault = 0
<1> DEFINE works == h \notin DOMAIN io.host
           ok == works /\ ~("open" \in FaultKinds /\ io.fault = 1)
           n == IF "open" \in FaultKinds /\ io.fault > 0 THEN io.fault - 1 ELSE io.fault
           c == Call(io, "open", works)
<1>0. DOMAIN io.host = H /\ io.fault \in Nat
  BY DEF Storage
<1>1. c = [host |-> io.host, fault |-> n, ok |-> ok]
  <2>1. c = [io EXCEPT !.ok = ok, !.fault = n]
    BY DEF Call
  <2> HIDE DEF c, ok, n
  <2> QED BY <2>1 DEF Storage
<1>2. /\ n \in Nat /\ ok \in BOOLEAN /\ (io.fault = 0 => n = 0 /\ (works => ok))
      /\ works /\ ~ok => io.fault = 1 /\ n = 0
      /\ works /\ "open" \notin FaultKinds => ok
      /\ ok => works
  BY <1>0
<1> DEFINE r == OpenNew(io, h)
           v == Put(io.host, h, <<>>)
<1>3. (works <=> h \notin H) /\ r = IF c.ok THEN [c EXCEPT !.host = Put(@, h, <<>>)] ELSE c
  BY <1>0 DEF OpenNew
<1>5. DOMAIN v = H \cup {h}
  BY <1>0, PutIs
<1> HIDE DEF ok, n, works
<1>4. c.host = io.host /\ c.fault = n /\ c.ok = ok
  BY <1>1
<1> HIDE DEF c, r
<1>6. CASE c.ok
  <2>1. r = [host |-> v, fault |-> n, ok |-> ok]
    BY <1>1, <1>3, <1>4, <1>6
  <2> HIDE DEF v
  <2>2. r.host = v /\ r.fault = n /\ r.ok = ok
    BY <2>1
  <2>3. Storage(r, H \cup {h})
    BY <1>2, <1>5, <2>1, <2>2 DEF Storage
  <2> QED BY <1>2, <1>3, <1>4, <1>6, <2>2, <2>3 DEF r, v
<1>7. CASE ~c.ok
  <2>1. r = c
    BY <1>3, <1>7
  <2>2. Storage(c, H)
    BY <1>0, <1>1, <1>2, <1>4 DEF Storage
  <2> QED BY <1>2, <1>3, <1>4, <1>7, <2>1, <2>2 DEF r
<1> QED BY <1>6, <1>7

(* A write touches one file, and misses the last byte when it fails. *)
LEMMA PwriteIs ==
    ASSUME NEW H, NEW io, Storage(io, H), NEW h \in H, NEW bytes, NEW at
    PROVE  /\ Storage(Pwrite(io, h, bytes, at), H)
           /\ \A g \in H \ {h} : Pwrite(io, h, bytes, at).host[g] = io.host[g]
           /\ Pwrite(io, h, bytes, at).host[h] =
                Over(io.host[h], IF Pwrite(io, h, bytes, at).ok THEN bytes ELSE SubSeq(bytes, 1, Len(bytes) - 1), at)
           /\ io.fault = 0 => Pwrite(io, h, bytes, at).ok /\ Pwrite(io, h, bytes, at).fault = 0
           /\ ~Pwrite(io, h, bytes, at).ok => io.fault = 1 /\ Pwrite(io, h, bytes, at).fault = 0
<1> DEFINE works == TRUE
           ok == works /\ ~("pwrite" \in FaultKinds /\ io.fault = 1)
           n == IF "pwrite" \in FaultKinds /\ io.fault > 0 THEN io.fault - 1 ELSE io.fault
           c == Call(io, "pwrite", works)
<1>0. DOMAIN io.host = H /\ io.fault \in Nat
  BY DEF Storage
<1>1. c = [host |-> io.host, fault |-> n, ok |-> ok]
  <2>1. c = [io EXCEPT !.ok = ok, !.fault = n]
    BY DEF Call
  <2> HIDE DEF c, ok, n
  <2> QED BY <2>1 DEF Storage
<1>2. /\ n \in Nat /\ ok \in BOOLEAN /\ (io.fault = 0 => n = 0 /\ (works => ok))
      /\ works /\ ~ok => io.fault = 1 /\ n = 0
      /\ works /\ "pwrite" \notin FaultKinds => ok
      /\ ok => works
  BY <1>0
<1> DEFINE r == Pwrite(io, h, bytes, at)
           v == Over(c.host[h], IF c.ok THEN bytes ELSE SubSeq(bytes, 1, Len(bytes) - 1), at)
<1>3. r = [c EXCEPT !.host[h] = v]
  BY DEF Pwrite
<1> HIDE DEF ok, n, c, r, v
<1>4. c.host = io.host /\ c.fault = n /\ c.ok = ok
  BY <1>1
<1>6. r = [host |-> [io.host EXCEPT ![h] = v], fault |-> n, ok |-> ok]
  BY <1>1, <1>3, <1>4
<1>7. r.host = [io.host EXCEPT ![h] = v] /\ r.fault = n /\ r.ok = ok
  BY <1>6
<1>8. DOMAIN r.host = H /\ (\A g \in H \ {h} : r.host[g] = io.host[g]) /\ r.host[h] = v
  BY <1>0, <1>7
<1>9. Storage(r, H)
  BY <1>2, <1>6, <1>7, <1>8 DEF Storage
<1>10. v = Over(io.host[h], IF r.ok THEN bytes ELSE SubSeq(bytes, 1, Len(bytes) - 1), at)
  BY <1>4, <1>7 DEF v
<1> QED BY <1>2, <1>7, <1>8, <1>9, <1>10 DEF r

(* A truncate touches one file, and nothing when it fails. *)
LEMMA TruncateIs ==
    ASSUME NEW H, NEW io, Storage(io, H), NEW h \in H, NEW size
    PROVE  /\ Storage(Truncate(io, h, size), H)
           /\ \A g \in H \ {h} : Truncate(io, h, size).host[g] = io.host[g]
           /\ Truncate(io, h, size).host[h] = IF Truncate(io, h, size).ok THEN SubSeq(io.host[h], 1, size) ELSE io.host[h]
           /\ io.fault = 0 => Truncate(io, h, size).ok /\ Truncate(io, h, size).fault = 0
           /\ ~Truncate(io, h, size).ok => io.fault = 1 /\ Truncate(io, h, size).fault = 0
<1> DEFINE works == h \in DOMAIN io.host
           ok == works /\ ~("truncate" \in FaultKinds /\ io.fault = 1)
           n == IF "truncate" \in FaultKinds /\ io.fault > 0 THEN io.fault - 1 ELSE io.fault
           c == Call(io, "truncate", works)
<1>0. DOMAIN io.host = H /\ io.fault \in Nat
  BY DEF Storage
<1>1. c = [host |-> io.host, fault |-> n, ok |-> ok]
  <2>1. c = [io EXCEPT !.ok = ok, !.fault = n]
    BY DEF Call
  <2> HIDE DEF c, ok, n
  <2> QED BY <2>1 DEF Storage
<1>2. /\ n \in Nat /\ ok \in BOOLEAN /\ (io.fault = 0 => n = 0 /\ (works => ok))
      /\ works /\ ~ok => io.fault = 1 /\ n = 0
      /\ works /\ "truncate" \notin FaultKinds => ok
      /\ ok => works
  BY <1>0
<1> DEFINE r == Truncate(io, h, size)
           v == SubSeq(c.host[h], 1, size)
<1>10. works <=> TRUE
  BY <1>0
<1> HIDE DEF ok, n, works
<1>4. c.host = io.host /\ c.fault = n /\ c.ok = ok
  BY <1>1
<1>3. r = IF c.ok THEN [c EXCEPT !.host[h] = v] ELSE c
  BY <1>4 DEF Truncate, works
<1> HIDE DEF c, r, v
<1>5. CASE c.ok
  <2>1. r = [host |-> [io.host EXCEPT ![h] = v], fault |-> n, ok |-> ok]
    BY <1>1, <1>3, <1>4, <1>5
  <2>2. r.host = [io.host EXCEPT ![h] = v] /\ r.fault = n /\ r.ok = ok
    BY <2>1
  <2>3. DOMAIN r.host = H /\ (\A g \in H \ {h} : r.host[g] = io.host[g]) /\ r.host[h] = v
    BY <1>0, <2>2
  <2>4. Storage(r, H)
    BY <1>2, <2>1, <2>2, <2>3 DEF Storage
  <2>5. v = SubSeq(io.host[h], 1, size)
    BY <1>4 DEF v
  <2> QED BY <1>2, <1>4, <1>5, <1>10, <2>2, <2>3, <2>4, <2>5 DEF r
<1>6. CASE ~c.ok
  <2>1. r = c
    BY <1>3, <1>6
  <2>2. Storage(c, H)
    BY <1>0, <1>1, <1>2, <1>4 DEF Storage
  <2> QED BY <1>2, <1>4, <1>6, <1>10, <2>1, <2>2 DEF r
<1> QED BY <1>5, <1>6

(* Removing a file that is there: not among the calls that fail. *)
LEMMA UnlinkIs ==
    ASSUME SdfsGuest, NEW H, NEW io, Storage(io, H), NEW h \in H
    PROVE  /\ Unlink(io, h).ok /\ Storage(Unlink(io, h), H \ {h})
           /\ Unlink(io, h).host = Without(io.host, {h})
           /\ io.fault = 0 => Unlink(io, h).fault = 0
<1> DEFINE works == h \in DOMAIN io.host
           ok == works /\ ~("remove" \in FaultKinds /\ io.fault = 1)
           n == IF "remove" \in FaultKinds /\ io.fault > 0 THEN io.fault - 1 ELSE io.fault
           c == Call(io, "remove", works)
<1>0. DOMAIN io.host = H /\ io.fault \in Nat
  BY DEF Storage
<1>1. c = [host |-> io.host, fault |-> n, ok |-> ok]
  <2>1. c = [io EXCEPT !.ok = ok, !.fault = n]
    BY DEF Call
  <2> HIDE DEF c, ok, n
  <2> QED BY <2>1 DEF Storage
<1>2. /\ n \in Nat /\ ok \in BOOLEAN /\ (io.fault = 0 => n = 0 /\ (works => ok))
      /\ works /\ ~ok => io.fault = 1 /\ n = 0
      /\ works /\ "remove" \notin FaultKinds => ok
      /\ ok => works
  BY <1>0
<1> DEFINE r == Unlink(io, h)
           v == Without(io.host, {h})
<1>10. works <=> TRUE
  BY <1>0
<1>11. "remove" \notin FaultKinds
  BY DEF SdfsGuest
<1>5. DOMAIN v = H \ {h}
  BY <1>0, WithoutIs
<1> HIDE DEF ok, n
<1>4. c.host = io.host /\ c.fault = n /\ c.ok = ok
  BY <1>1
<1>3. r = IF c.ok THEN [c EXCEPT !.host = Without(@, {h})] ELSE c
  BY DEF Unlink
<1> HIDE DEF c, r, v, works
<1>12. c.ok
  BY <1>2, <1>4, <1>10, <1>11
<1>13. [c EXCEPT !.host = Without(@, {h})] = [c EXCEPT !.host = v]
  BY <1>1, <1>4 DEF v
<1>6. r = [host |-> v, fault |-> n, ok |-> ok]
  BY <1>1, <1>3, <1>12, <1>13
<1>7. r.host = v /\ r.fault = n /\ r.ok = ok
  BY <1>6
<1>8. Storage(r, H \ {h})
  BY <1>2, <1>5, <1>6, <1>7 DEF Storage
<1> QED BY <1>2, <1>4, <1>7, <1>8, <1>12 DEF r, v

(* Renaming a file that is there to a free name: not among the calls that  *)
(* fail.                                                                   *)
LEMMA RenameToIs ==
    ASSUME SdfsGuest, NEW H, NEW io, Storage(io, H), NEW h \in H, NEW g, g \notin H
    PROVE  /\ RenameTo(io, h, g).ok /\ Storage(RenameTo(io, h, g), (H \ {h}) \cup {g})
           /\ RenameTo(io, h, g).host = Put(Without(io.host, {h}), g, io.host[h])
           /\ io.fault = 0 => RenameTo(io, h, g).fault = 0
<1> DEFINE works == h \in DOMAIN io.host /\ g \notin DOMAIN io.host
           ok == works /\ ~("rename" \in FaultKinds /\ io.fault = 1)
           n == IF "rename" \in FaultKinds /\ io.fault > 0 THEN io.fault - 1 ELSE io.fault
           c == Call(io, "rename", works)
<1>0. DOMAIN io.host = H /\ io.fault \in Nat
  BY DEF Storage
<1>1. c = [host |-> io.host, fault |-> n, ok |-> ok]
  <2>1. c = [io EXCEPT !.ok = ok, !.fault = n]
    BY DEF Call
  <2> HIDE DEF c, ok, n
  <2> QED BY <2>1 DEF Storage
<1>2. /\ n \in Nat /\ ok \in BOOLEAN /\ (io.fault = 0 => n = 0 /\ (works => ok))
      /\ works /\ ~ok => io.fault = 1 /\ n = 0
      /\ works /\ "rename" \notin FaultKinds => ok
      /\ ok => works
  BY <1>0
<1> DEFINE r == RenameTo(io, h, g)
           v == Put(Without(io.host, {h}), g, io.host[h])
<1>10. works <=> TRUE
  BY <1>0
<1>11. "rename" \notin FaultKinds
  BY DEF SdfsGuest
<1>5. DOMAIN v = (H \ {h}) \cup {g}
  <2> DEFINE w == Without(io.host, {h})
             y == io.host[h]
  <2>1. DOMAIN w = H \ {h}
    BY <1>0, WithoutIs
  <2> HIDE DEF w, y
  <2>2. DOMAIN Put(w, g, y) = DOMAIN w \cup {g}
    BY PutIs
  <2> QED BY <2>1, <2>2 DEF w, y
<1> HIDE DEF ok, n
<1>4. c.host = io.host /\ c.fault = n /\ c.ok = ok
  BY <1>1
<1>3. r = IF c.ok THEN [c EXCEPT !.host = Put(Without(@, {h}), g, io.host[h])] ELSE c
  BY DEF RenameTo
<1> HIDE DEF c, r, v, works
<1>12. c.ok
  BY <1>2, <1>4, <1>10, <1>11
<1>13. [c EXCEPT !.host = Put(Without(@, {h}), g, io.host[h])] = [c EXCEPT !.host = v]
  BY <1>1, <1>4 DEF v
<1>6. r = [host |-> v, fault |-> n, ok |-> ok]
  BY <1>1, <1>3, <1>12, <1>13
<1>7. r.host = v /\ r.fault = n /\ r.ok = ok
  BY <1>6
<1>8. Storage(r, (H \ {h}) \cup {g})
  BY <1>2, <1>5, <1>6, <1>7 DEF Storage
<1> QED BY <1>2, <1>4, <1>7, <1>8, <1>12 DEF r, v

(* One more sector of PwriteSectors. *)
Store(u, overlay, h, sectors, length, from, k) ==
    IF ~u.ok THEN u
    ELSE Pwrite(u, h, SubSeq(overlay[sectors[k]], 1, Min({length - (from + k - 1) * SectorSize, SectorSize})),
                (from + k - 1) * SectorSize)

Stores(io, overlay, h, sectors, length, from, t) ==
    \A k \in 0 .. Len(sectors) :
        t[k] = IF k = 0 THEN [io EXCEPT !.ok = TRUE] ELSE Store(t[k - 1], overlay, h, sectors, length, from, k)

(* pwriteSectors is such a sequence of writes. *)
LEMMA StoresIs ==
    ASSUME NEW io, NEW overlay, NEW h, NEW sectors, Len(sectors) \in Nat, NEW length, NEW from
    PROVE  \E t : /\ Stores(io, overlay, h, sectors, length, from, t)
                  /\ PwriteSectors(io, overlay, h, sectors, length, from) = t[Len(sectors)]
<1> DEFINE N == Len(sectors)
           a == [io EXCEPT !.ok = TRUE]
           Next(u, k) == Store(u, overlay, h, sectors, length, from, k)
           P(t) == t = [k \in 0 .. N |-> IF k = 0 THEN a ELSE Next(t[k - 1], k)]
           t == CHOOSE t : P(t)
           Runs(n, s) == DOMAIN s = 0 .. n /\ s[0] = a /\ \A k \in 1 .. n : s[k] = Next(s[k - 1], k)
           T == {n \in 0 .. N : \E s : Runs(n, s)}
<1>1. PwriteSectors(io, overlay, h, sectors, length, from) = t[N]
  BY DEF PwriteSectors, Store
<1> HIDE DEF Next, a
<1>2. 0 \in T
  <2> DEFINE s == [k \in 0 .. 0 |-> a]
  <2>1. Runs(0, s)
    OBVIOUS
  <2> HIDE DEF s
  <2> QED BY <2>1
<1>3. ASSUME NEW m \in 1 .. N, m - 1 \in T PROVE m \in T
  <2>1. PICK s : Runs(m - 1, s)
    BY <1>3
  <2> DEFINE r == [k \in 0 .. m |-> IF k = m THEN Next(s[m - 1], m) ELSE s[k]]
  <2>2. m \in Nat /\ m > 0
    OBVIOUS
  <2>3. r[0] = a
    BY <2>1, <2>2
  <2>4. ASSUME NEW k \in 1 .. m PROVE r[k] = Next(r[k - 1], k)
    <3>1. k - 1 \in 0 .. m /\ k - 1 # m /\ k \in 0 .. m
      BY <2>2
    <3>2. r[k - 1] = s[k - 1]
      BY <3>1
    <3>3. CASE k = m
      <4>1. r[k] = Next(s[m - 1], m)
        BY <3>1, <3>3
      <4> HIDE DEF r
      <4> QED BY <3>2, <3>3, <4>1
    <3>4. CASE k # m
      <4>1. r[k] = s[k] /\ k \in 1 .. m - 1
        BY <2>2, <3>1, <3>4
      <4> HIDE DEF r
      <4> QED BY <2>1, <3>2, <4>1
    <3> QED BY <3>3, <3>4
  <2>5. DOMAIN r = 0 .. m /\ m \in 0 .. N
    BY <2>2
  <2> HIDE DEF r
  <2> QED BY <2>3, <2>4, <2>5
<1>4. N \in T
  <2>1. 0 .. N \subseteq T
    <3> HIDE DEF T
    <3> QED BY <1>2, <1>3, Upto
  <2> QED BY <2>1
<1>5. PICK g : Runs(N, g)
  BY <1>4
<1>6. DOMAIN g = 0 .. N /\ \A k \in 0 .. N : g[k] = IF k = 0 THEN a ELSE Next(g[k - 1], k)
  BY <1>5
<1> DEFINE G == [k \in 0 .. N |-> g[k]]
<1>7. P(G)
  <2>1. \A k \in 0 .. N : G[k] = IF k = 0 THEN a ELSE Next(G[k - 1], k)
    <3> TAKE k \in 0 .. N
    <3>1. k # 0 => k - 1 \in 0 .. N
      OBVIOUS
    <3> QED BY <1>6, <3>1
  <2>2. [k \in 0 .. N |-> G[k]] = [k \in 0 .. N |-> IF k = 0 THEN a ELSE Next(G[k - 1], k)]
    <3> HIDE DEF G, N
    <3> QED BY <2>1, Zenon
  <2>3. G = [k \in 0 .. N |-> G[k]]
    OBVIOUS
  <2> HIDE DEF G
  <2> QED BY <2>2, <2>3
<1>8. P(t)
  <2> HIDE DEF P, G
  <2> QED BY <1>7, Zenon
<1>9. \A k \in 0 .. N : t[k] = IF k = 0 THEN a ELSE Next(t[k - 1], k)
  <2> HIDE DEF t
  <2> QED BY <1>8
<1>10. Stores(io, overlay, h, sectors, length, from, t)
  <2> HIDE DEF t
  <2> QED BY <1>9 DEF Stores, a, Next
<1> QED BY <1>1, <1>10

(* What writing some sectors of a file leaves alone. *)
LEMMA PwriteSectorsIs ==
    ASSUME NEW H, NEW io, Storage(io, H), NEW h \in H, NEW overlay, NEW sectors, Len(sectors) \in Nat,
           NEW length, NEW from
    PROVE  LET r == PwriteSectors(io, overlay, h, sectors, length, from)
           IN  /\ Storage(r, H) /\ \A g \in H \ {h} : r.host[g] = io.host[g]
               /\ io.fault = 0 => r.ok /\ r.fault = 0
               /\ ~r.ok => r.fault = 0
<1> DEFINE N == Len(sectors)
           Fine(u) == /\ Storage(u, H) /\ \A g \in H \ {h} : u.host[g] = io.host[g]
                      /\ io.fault = 0 => u.ok /\ u.fault = 0
                      /\ ~u.ok => u.fault = 0
           a == [io EXCEPT !.ok = TRUE]
<1>1. PICK t : /\ Stores(io, overlay, h, sectors, length, from, t)
               /\ PwriteSectors(io, overlay, h, sectors, length, from) = t[N]
  BY StoresIs
<1>2. Fine(a)
  <2>1. a = [host |-> io.host, fault |-> io.fault, ok |-> TRUE]
    <3>1. \A w : [io EXCEPT !.ok = w] = [host |-> io.host, fault |-> io.fault, ok |-> w]
      BY DEF Storage
    <3> QED BY <3>1
  <2> HIDE DEF a
  <2>2. a.host = io.host /\ a.fault = io.fault /\ a.ok = TRUE
    BY <2>1
  <2>3. Storage(a, H)
    BY <2>1, <2>2 DEF Storage
  <2> QED BY <2>2, <2>3
<1>3. ASSUME NEW u, Fine(u), NEW k PROVE Fine(Store(u, overlay, h, sectors, length, from, k))
  <2> DEFINE b == SubSeq(overlay[sectors[k]], 1, Min({length - (from + k - 1) * SectorSize, SectorSize}))
             at == (from + k - 1) * SectorSize
             w == Pwrite(u, h, b, at)
  <2>1. Store(u, overlay, h, sectors, length, from, k) = IF ~u.ok THEN u ELSE w
    BY DEF Store
  <2> HIDE DEF b, at
  <2>2. /\ Storage(w, H) /\ \A g \in H \ {h} : w.host[g] = u.host[g]
        /\ u.fault = 0 => w.ok /\ w.fault = 0
        /\ ~w.ok => w.fault = 0
    BY <1>3, PwriteIs
  <2> HIDE DEF w
  <2>3. Fine(w)
    BY <1>3, <2>2
  <2> HIDE DEF Fine
  <2> QED BY <1>3, <2>1, <2>3
<1> DEFINE T == {k \in 0 .. N : Fine(t[k])}
<1> HIDE DEF Fine
<1>4. 0 \in T
  BY <1>1, <1>2 DEF Stores
<1>5. ASSUME NEW m \in 1 .. N, m - 1 \in T PROVE m \in T
  <2>1. m \in 0 .. N /\ m # 0
    OBVIOUS
  <2>2. t[m] = Store(t[m - 1], overlay, h, sectors, length, from, m)
    BY <1>1, <2>1 DEF Stores
  <2> QED BY <1>3, <1>5, <2>1, <2>2
<1>6. N \in T
  <2>1. 0 .. N \subseteq T
    <3> HIDE DEF T
    <3> QED BY <1>4, <1>5, Upto
  <2> QED BY <2>1
<1>7. Fine(t[N])
  BY <1>6
<1> QED BY <1>1, <1>7 DEF Fine

-----------------------------------------------------------------------------
(* Records, entries and what an image keeps. *)

(* The record of a file, field by field. *)
LEMMA RecordIs ==
    ASSUME NEW n, NEW f, Sound(f)
    PROVE  /\ Record(n, f).hostName = f.host /\ Record(n, f).name = n /\ Record(n, f).length = Len(f.bytes)
           /\ Record(n, f).dataSectors = f.data /\ Record(n, f).mapSectors = f.maps
           /\ Record(n, f).length > 0 /\ Record(n, f).mapSectors # <<>>
BY SoundFacts DEF Record

(* A file of the image is deleted or the record of a file of the guest. *)
LEMMA FileIs ==
    ASSUME NEW d, NEW cat, Catalogue(cat), Layout(d, cat), NEW i \in DOMAIN d.files
    PROVE  \/ /\ d.files[i].length = 0 /\ d.files[i].dataSectors = <<>> /\ d.files[i].mapSectors = <<>>
              /\ ~(d.files[i].length > 0)
           \/ /\ d.files[i].name \in DOMAIN cat /\ d.files[i] = Record(d.files[i].name, cat[d.files[i].name])
              /\ d.files[i].length > 0 /\ d.files[i].mapSectors # <<>>
              /\ d.files[i].dataSectors = cat[d.files[i].name].data
              /\ d.files[i].mapSectors = cat[d.files[i].name].maps
<1>1. CASE d.files[i].length = 0 /\ d.files[i].dataSectors = <<>> /\ d.files[i].mapSectors = <<>>
  BY <1>1
<1>2. CASE d.files[i].name \in DOMAIN cat /\ d.files[i] = Record(d.files[i].name, cat[d.files[i].name])
  <2> DEFINE n == d.files[i].name
  <2>1. n \in DOMAIN cat /\ d.files[i] = Record(n, cat[n])
    BY <1>2
  <2> HIDE DEF n
  <2>2. Sound(cat[n])
    BY <2>1 DEF Catalogue
  <2>3. /\ Record(n, cat[n]).length > 0 /\ Record(n, cat[n]).mapSectors # <<>>
        /\ Record(n, cat[n]).dataSectors = cat[n].data /\ Record(n, cat[n]).mapSectors = cat[n].maps
    BY <2>2, RecordIs
  <2> QED BY <1>2, <2>1, <2>3 DEF n
<1> QED BY <1>1, <1>2 DEF Layout

(* The image has one file of a name, and finds it by its first map sector. *)
IsFile(d, cat, n, i) ==
    /\ d.files[i] = Record(n, cat[n]) /\ i \in Nat /\ Live(d, i)
    /\ FilesAt(d, cat[n].maps[1], n) = {i} /\ Min({i}) = i
    /\ \A k \in DOMAIN d.files : d.files[k].name = n /\ d.files[k].length > 0 => k = i
    /\ \A k \in DOMAIN d.files : d.files[k] = Record(n, cat[n]) => k = i
LEMMA TheFile ==
    ASSUME NEW d, Image(d), NEW cat, Catalogue(cat), Layout(d, cat), NEW n \in DOMAIN cat
    PROVE  \E i \in DOMAIN d.files : IsFile(d, cat, n, i)
<1>1. PICK i \in DOMAIN d.files : d.files[i] = Record(n, cat[n])
  BY DEF Layout
<1>2. Sound(cat[n])
  BY DEF Catalogue
<1>3. i \in Nat
  BY DEF Image
<1>4. d.files[i].name = n /\ d.files[i].length > 0 /\ d.files[i].mapSectors # <<>> /\ d.files[i].mapSectors = cat[n].maps
  BY <1>1, <1>2, RecordIs
<1>5. \A k \in DOMAIN d.files : d.files[k].name = n /\ d.files[k].length > 0 => k = i
  BY <1>4 DEF Layout, Live
<1>6. \A k \in DOMAIN d.files : d.files[k].name = n /\ d.files[k].mapSectors # <<>> => k = i
  BY <1>5, FileIs
<1>7. FilesAt(d, cat[n].maps[1], n) = {i}
  BY <1>4, <1>6 DEF FilesAt
<1>8. Min({i}) = i
  BY <1>3, MinOfOne
<1>9. \A k \in DOMAIN d.files : d.files[k] = Record(n, cat[n]) => k = i
  BY <1>2, <1>5, RecordIs
<1>10. Live(d, i)
  BY <1>4 DEF Live
<1>11. IsFile(d, cat, n, i)
  BY ONLY <1>1, <1>3, <1>5, <1>7, <1>8, <1>9, <1>10 DEF IsFile
<1> QED BY ONLY <1>11, i \in DOMAIN d.files

(* The image has no file of a name the guest has none of. *)
LEMMA NoFile ==
    ASSUME NEW d, NEW cat, Catalogue(cat), Layout(d, cat), NEW n, n \notin DOMAIN cat
    PROVE  /\ ~IsInventoriedName(d, n) /\ \A map : FilesAt(d, map, n) = {}
           /\ \A k \in DOMAIN d.files : ~(d.files[k].length > 0 /\ d.files[k].name = n)
<1>1. \A k \in DOMAIN d.files : d.files[k].name = n => ~(d.files[k].length > 0) /\ d.files[k].mapSectors = <<>>
  BY FileIs
<1> QED BY <1>1 DEF IsInventoriedName, FilesAt

(* Who owns a data sector. *)
LEMMA RefIs ==
    ASSUME NEW d, Image(d), NEW cat, Catalogue(cat), Layout(d, cat), NEW x \in DOMAIN d.dataRefs
    PROVE  \E n \in DOMAIN cat, i \in DOMAIN d.files : \E k \in 1 .. Len(cat[n].data) :
              /\ d.files[i] = Record(n, cat[n]) /\ x = cat[n].data[k]
              /\ d.dataRefs[x] = [file |-> i, at |-> k]
<1>1. PICK n \in DOMAIN cat : x \in Elems(cat[n].data)
  BY DEF Layout
<1>2. Sound(cat[n])
  BY DEF Catalogue
<1>3. PICK i \in DOMAIN d.files : d.files[i] = Record(n, cat[n])
  BY DEF Layout
<1>4. d.files[i].dataSectors = cat[n].data /\ cat[n].data \in Seq(Sectors)
  BY <1>2, <1>3, RecordIs, SoundFacts
<1>5. PICK k \in 1 .. Len(cat[n].data) : cat[n].data[k] = x
  BY <1>1, <1>4, ElemsAre
<1>6. d.dataRefs[x] = [file |-> i, at |-> k]
  BY <1>4, <1>5 DEF Layout
<1> QED BY <1>3, <1>5, <1>6

(* OneOwner, of any image. *)
Owned(d) ==
    /\ d.allocated \subseteq 2 .. LastSector
    /\ \A i, j \in DOMAIN d.files :
        i # j => (Elems(d.files[i].dataSectors) \cup Elems(d.files[i].mapSectors))
                    \cap (Elems(d.files[j].dataSectors) \cup Elems(d.files[j].mapSectors)) = {}
    /\ DOMAIN d.dataRefs = UNION {Elems(d.files[i].dataSectors) : i \in DOMAIN d.files}
    /\ DOMAIN d.metadata = UNION {Elems(d.files[i].mapSectors) : i \in DOMAIN d.files}
    /\ d.allocated = DOMAIN d.dataRefs \cup DOMAIN d.metadata
    /\ \A x \in DOMAIN d.dataRefs :
        /\ d.dataRefs[x].file \in DOMAIN d.files
        /\ d.files[d.dataRefs[x].file].dataSectors[d.dataRefs[x].at] = x

(* The records of an image that is laid out own what they list. *)
LEMMA OwnedIs ==
    ASSUME NEW d, Image(d), NEW cat, Catalogue(cat), Layout(d, cat)
    PROVE  Owned(d)
<1>0. Elems(<<>>) = {}
  BY DEF Elems
<1>1. d.allocated \subseteq 2 .. LastSector
  <2>1. \A n \in DOMAIN cat : Elems(cat[n].data) \subseteq Sectors /\ Elems(cat[n].maps) \subseteq Sectors
    BY SoundFacts DEF Catalogue
  <2>2. DOMAIN d.dataRefs \subseteq Sectors /\ DOMAIN d.metadata \subseteq Sectors
    BY <2>1 DEF Layout
  <2> QED BY <2>2 DEF Layout, Sectors
<1>2. ASSUME NEW i \in DOMAIN d.files, NEW j \in DOMAIN d.files, i # j
      PROVE  (Elems(d.files[i].dataSectors) \cup Elems(d.files[i].mapSectors))
                    \cap (Elems(d.files[j].dataSectors) \cup Elems(d.files[j].mapSectors)) = {}
  <2> DEFINE n == d.files[i].name
             m == d.files[j].name
  <2>1. CASE d.files[i].dataSectors = <<>> /\ d.files[i].mapSectors = <<>>
    BY <1>0, <2>1
  <2>2. CASE d.files[j].dataSectors = <<>> /\ d.files[j].mapSectors = <<>>
    BY <1>0, <2>2
  <2>3. CASE /\ n \in DOMAIN cat /\ d.files[i].length > 0
             /\ d.files[i].dataSectors = cat[n].data /\ d.files[i].mapSectors = cat[n].maps
             /\ m \in DOMAIN cat /\ d.files[j].length > 0
             /\ d.files[j].dataSectors = cat[m].data /\ d.files[j].mapSectors = cat[m].maps
    <3>1. n # m
      BY <1>2, <2>3 DEF Layout, Live
    <3>2. SectorsOf(cat[n]) \cap SectorsOf(cat[m]) = {}
      BY <2>3, <3>1 DEF Catalogue, Apart
    <3> QED BY <2>3, <3>2 DEF SectorsOf
  <2> QED BY <2>1, <2>2, <2>3, FileIs
<1>3. \A n \in DOMAIN cat : \E i \in DOMAIN d.files :
            d.files[i].dataSectors = cat[n].data /\ d.files[i].mapSectors = cat[n].maps
  <2> TAKE n \in DOMAIN cat
  <2>1. PICK i \in DOMAIN d.files : d.files[i] = Record(n, cat[n])
    BY DEF Layout
  <2> QED BY <2>1, RecordIs DEF Catalogue
<1>4. DOMAIN d.dataRefs = UNION {Elems(d.files[i].dataSectors) : i \in DOMAIN d.files}
  <2>1. \A x \in DOMAIN d.dataRefs : \E i \in DOMAIN d.files : x \in Elems(d.files[i].dataSectors)
    BY <1>3 DEF Layout
  <2>2. ASSUME NEW i \in DOMAIN d.files PROVE Elems(d.files[i].dataSectors) \subseteq DOMAIN d.dataRefs
    <3>1. \A n \in DOMAIN cat : Elems(cat[n].data) \subseteq DOMAIN d.dataRefs
      BY DEF Layout
    <3>2. d.files[i].dataSectors = <<>> \/ (\E n \in DOMAIN cat : d.files[i].dataSectors = cat[n].data)
      BY FileIs
    <3> QED BY <1>0, <3>1, <3>2
  <2> QED BY <2>1, <2>2
<1>5. DOMAIN d.metadata = UNION {Elems(d.files[i].mapSectors) : i \in DOMAIN d.files}
  <2>1. \A x \in DOMAIN d.metadata : \E i \in DOMAIN d.files : x \in Elems(d.files[i].mapSectors)
    BY <1>3 DEF Layout
  <2>2. ASSUME NEW i \in DOMAIN d.files PROVE Elems(d.files[i].mapSectors) \subseteq DOMAIN d.metadata
    <3>1. \A n \in DOMAIN cat : Elems(cat[n].maps) \subseteq DOMAIN d.metadata
      BY DEF Layout
    <3>2. d.files[i].mapSectors = <<>> \/ (\E n \in DOMAIN cat : d.files[i].mapSectors = cat[n].maps)
      BY FileIs
    <3> QED BY <1>0, <3>1, <3>2
  <2> QED BY <2>1, <2>2
<1>6. ASSUME NEW x \in DOMAIN d.dataRefs
      PROVE  d.dataRefs[x].file \in DOMAIN d.files /\ d.files[d.dataRefs[x].file].dataSectors[d.dataRefs[x].at] = x
  <2>1. PICK n \in DOMAIN cat, i \in DOMAIN d.files : \E k \in 1 .. Len(cat[n].data) :
              /\ d.files[i] = Record(n, cat[n]) /\ x = cat[n].data[k]
              /\ d.dataRefs[x] = [file |-> i, at |-> k]
    BY RefIs
  <2>2. d.files[i].dataSectors = cat[n].data
    BY <2>1, RecordIs DEF Catalogue
  <2> QED BY <2>1, <2>2
<1>7. d.allocated = DOMAIN d.dataRefs \cup DOMAIN d.metadata
  BY DEF Layout
<1> QED BY <1>1, <1>2, <1>4, <1>5, <1>6, <1>7 DEF Owned

(* No other entry of the directory is an active one of this name. *)
Alone(d, s, n) == \A i \in 1 .. Slots \ {s} : d.directory[i].status # "active" \/ d.directory[i].name # n

(* finalizedEntry finds the entry of a map sector and a name where it is. *)
LEMMA FinalizedIs ==
    ASSUME NEW d, NEW s \in 1 .. Slots, NEW n, Alone(d, s, n), NEW m
    PROVE  /\ d.directory[s].status # "active" => FinalizedEntry(d, m, n) = {}
           /\ d.directory[s].status = "active" /\ d.directory[s].map = m /\ d.directory[s].name = n
                => FinalizedEntry(d, m, n) = {d.directory[s].length}
<1> DEFINE found == {i \in 1 .. Slots : /\ d.directory[i].status = "active"
                                        /\ d.directory[i].map = m /\ d.directory[i].name = n}
<1>1. FinalizedEntry(d, m, n) = IF found = {} THEN {} ELSE {d.directory[Min(found)].length}
  BY DEF FinalizedEntry
<1>2. found \subseteq {s}
  BY DEF Alone
<1>3. ASSUME d.directory[s].status # "active" PROVE FinalizedEntry(d, m, n) = {}
  <2>1. s \notin found
    BY <1>3
  <2> HIDE DEF found
  <2> QED BY <1>1, <1>2, <2>1
<1>4. ASSUME d.directory[s].status = "active", d.directory[s].map = m, d.directory[s].name = n
      PROVE  FinalizedEntry(d, m, n) = {d.directory[s].length}
  <2>1. s \in found
    BY <1>4
  <2> HIDE DEF found
  <2>2. found = {s}
    BY <1>2, <2>1
  <2>3. Min({s}) = s
    BY MinOfOne
  <2> QED BY <1>1, <2>2, <2>3
<1> QED BY <1>3, <1>4

(* What a storage call leaves of the image: all but io and error. *)
Same(d, e) ==
    /\ Image(e)
    /\ e.files = d.files /\ e.allocated = d.allocated /\ e.metadata = d.metadata /\ e.dataRefs = d.dataRefs
    /\ e.directory = d.directory /\ e.pendingSectorWrites = d.pendingSectorWrites
    /\ e.pendingCreates = d.pendingCreates /\ e.pendingAppends = d.pendingAppends
    /\ e.pendingReplacements = d.pendingReplacements
    /\ DOMAIN e.io.host = DOMAIN d.io.host

(* Layout is about Same only. *)
LEMMA SameLayout ==
    ASSUME NEW d, NEW e, Same(d, e), NEW cat, Layout(d, cat)
    PROVE  Layout(e, cat)
BY DEF Same, Layout, Live

(* Reads is about Same only. *)
LEMMA SameReads ==
    ASSUME NEW d, NEW e, Same(d, e), NEW f, Reads(d, f)
    PROVE  Reads(e, f)
BY DEF Same, Reads, Value

(* AtRest is about Same only. *)
LEMMA SameRest ==
    ASSUME NEW d, NEW e, Same(d, e), NEW cat, NEW n, AtRest(d, cat, n)
    PROVE  AtRest(e, cat, n)
BY SameReads DEF Same, AtRest

(* Linked is about Same only. *)
LEMMA SameLinked ==
    ASSUME NEW d, NEW e, Same(d, e), NEW s, NEW f, NEW todo, Linked(d, s, f, todo)
    PROVE  Linked(e, s, f, todo)
<1>1. Gap(d, s, f) => Gap(e, s, f)
  BY DEF Same, Gap, Missing, Value
<1> QED BY <1>1, SameReads DEF Same, Linked

(* What is pending is about Same only. *)
LEMMA SamePending ==
    ASSUME NEW d, NEW e, Same(d, e)
    PROVE  /\ NoPending(d) => NoPending(e)
           /\ \A c, a, r : Only(d, c, a, r) => Only(e, c, a, r)
           /\ \A i : Vacant(d, i) => Vacant(e, i)
BY DEF Same, NoPending, Only, Vacant

(* Underway is about Same only. *)
LEMMA SameUnderway ==
    ASSUME NEW d, NEW e, Same(d, e), NEW cat, NEW o, Underway(d, cat, o)
    PROVE  Underway(e, cat, o)
<1>1. Layout(e, cat)
  BY SameLayout DEF Underway
<1>2. o.kind \in Outputs /\ o.phase = "rest" => Linked(e, Start(cat, o), o.file, o.todo)
  BY SameLinked DEF Underway
<1>3. Creating(d, o) => Creating(e, o)
  BY DEF Creating, Same, NoPending, Only, Vacant
<1>4. Appending(d, cat[o.name], o) => Appending(e, cat[o.name], o)
  BY DEF Appending, Same, NoPending, Only
<1>5. Replacing(d, cat[o.name], o) => Replacing(e, cat[o.name], o)
  <2>1. Reads(d, cat[o.name]) => Reads(e, cat[o.name])
    BY SameReads
  <2> QED BY <2>1 DEF Replacing, Same, NoPending, Only
<1>6. NoPending(d) /\ AtRest(d, cat, o.name) => NoPending(e) /\ AtRest(e, cat, o.name)
  BY SamePending, SameRest
<1> QED BY <1>1, <1>2, <1>3, <1>4, <1>5, <1>6 DEF Underway

(* Committed is about Same only. *)
LEMMA SameCommitted ==
    ASSUME NEW d, NEW e, Same(d, e), NEW cat, NEW o, Committed(d, cat, o)
    PROVE  Committed(e, cat, o)
BY SameLayout, SameRest, SamePending DEF Committed

(* A change of io, error or both. *)
LEMMA FailedIs ==
    ASSUME NEW d, Image(d), NEW io, Storage(io, DOMAIN d.io.host)
    PROVE  /\ Same(d, Failed(d, io)) /\ Failed(d, io).io = io /\ Failed(d, io).error = TRUE
<1> DEFINE e == Failed(d, io)
<1>1. e = [d EXCEPT !.io = io, !.error = TRUE]
  BY DEF Failed
<1>2. e = [files |-> d.files, allocated |-> d.allocated, metadata |-> d.metadata, dataRefs |-> d.dataRefs,
            directory |-> d.directory, pendingSectorWrites |-> d.pendingSectorWrites,
            pendingCreates |-> d.pendingCreates, pendingAppends |-> d.pendingAppends,
            pendingReplacements |-> d.pendingReplacements, io |-> io, error |-> TRUE]
  <2>1. \A t : [d EXCEPT !.io = io, !.error = t] =
           [files |-> d.files, allocated |-> d.allocated, metadata |-> d.metadata, dataRefs |-> d.dataRefs,
            directory |-> d.directory, pendingSectorWrites |-> d.pendingSectorWrites,
            pendingCreates |-> d.pendingCreates, pendingAppends |-> d.pendingAppends,
            pendingReplacements |-> d.pendingReplacements, io |-> io, error |-> t]
    <3> TAKE t
    <3> DEFINE g == [d EXCEPT !.io = io]
    <3>1. g = [files |-> d.files, allocated |-> d.allocated, metadata |-> d.metadata, dataRefs |-> d.dataRefs,
            directory |-> d.directory, pendingSectorWrites |-> d.pendingSectorWrites,
            pendingCreates |-> d.pendingCreates, pendingAppends |-> d.pendingAppends,
            pendingReplacements |-> d.pendingReplacements, io |-> io, error |-> d.error]
      BY DEF Image
    <3>2. [d EXCEPT !.io = io, !.error = t] = [g EXCEPT !.error = t]
      OBVIOUS
    <3> HIDE DEF g
    <3> QED BY <3>1, <3>2
  <2> QED BY <1>1, <2>1
<1> HIDE DEF e
<1>3. /\ e.files = d.files /\ e.allocated = d.allocated /\ e.metadata = d.metadata /\ e.dataRefs = d.dataRefs
      /\ e.directory = d.directory /\ e.pendingSectorWrites = d.pendingSectorWrites
      /\ e.pendingCreates = d.pendingCreates /\ e.pendingAppends = d.pendingAppends
      /\ e.pendingReplacements = d.pendingReplacements /\ e.io = io /\ e.error = TRUE
  BY <1>2
<1>4. Image(e)
  BY <1>2, <1>3 DEF Image, Storage
<1> QED BY <1>3, <1>4 DEF Same, Storage, e

(* A storage call that leaves the files' names leaves the image the same. *)
LEMMA WithIo ==
    ASSUME NEW d, Image(d), NEW io, Storage(io, DOMAIN d.io.host)
    PROVE  /\ Same(d, [d EXCEPT !.io = io]) /\ [d EXCEPT !.io = io].io = io
           /\ [d EXCEPT !.io = io].error = d.error
<1> DEFINE e == [d EXCEPT !.io = io]
<1>2. e = [files |-> d.files, allocated |-> d.allocated, metadata |-> d.metadata, dataRefs |-> d.dataRefs,
            directory |-> d.directory, pendingSectorWrites |-> d.pendingSectorWrites,
            pendingCreates |-> d.pendingCreates, pendingAppends |-> d.pendingAppends,
            pendingReplacements |-> d.pendingReplacements, io |-> io, error |-> d.error]
  BY DEF Image
<1> HIDE DEF e
<1>3. /\ e.files = d.files /\ e.allocated = d.allocated /\ e.metadata = d.metadata /\ e.dataRefs = d.dataRefs
      /\ e.directory = d.directory /\ e.pendingSectorWrites = d.pendingSectorWrites
      /\ e.pendingCreates = d.pendingCreates /\ e.pendingAppends = d.pendingAppends
      /\ e.pendingReplacements = d.pendingReplacements /\ e.io = io /\ e.error = d.error
  BY <1>2
<1>4. Image(e)
  BY <1>2, <1>3 DEF Image, Storage
<1> QED BY <1>3, <1>4 DEF Same, Storage, e

(* The storage of an image. *)
LEMMA ImageStorage ==
    ASSUME NEW d, Image(d)
    PROVE  Storage(d.io, DOMAIN d.io.host)
BY DEF Image, Storage

-----------------------------------------------------------------------------
(* Images, put together from their parts. *)

(* An image, field by field. *)
Made(files, allocated, metadata, dataRefs, directory, overlay, creates, appends, replacements, io, error) ==
    [files |-> files, allocated |-> allocated, metadata |-> metadata, dataRefs |-> dataRefs,
     directory |-> directory, pendingSectorWrites |-> overlay, pendingCreates |-> creates,
     pendingAppends |-> appends, pendingReplacements |-> replacements, io |-> io, error |-> error]

(* An image is the record of its eleven parts. *)
LEMMA ImageShape ==
    ASSUME NEW d, Image(d)
    PROVE  d = Made(d.files, d.allocated, d.metadata, d.dataRefs, d.directory, d.pendingSectorWrites,
                    d.pendingCreates, d.pendingAppends, d.pendingReplacements, d.io, d.error)
BY DEF Image, Made

(* The parts of such a record, and when it is an image. *)
LEMMA MadeIs ==
    ASSUME NEW files, NEW allocated, NEW metadata, NEW dataRefs, NEW directory, NEW overlay, NEW creates,
           NEW appends, NEW replacements, NEW io, NEW error, NEW d,
           d = Made(files, allocated, metadata, dataRefs, directory, overlay, creates, appends, replacements,
                    io, error)
    PROVE  /\ d.files = files /\ d.allocated = allocated /\ d.metadata = metadata /\ d.dataRefs = dataRefs
           /\ d.directory = directory /\ d.pendingSectorWrites = overlay /\ d.pendingCreates = creates
           /\ d.pendingAppends = appends /\ d.pendingReplacements = replacements /\ d.io = io
           /\ d.error = error
           /\ files \in Seq(FileRecs) /\ DOMAIN directory = 1 .. Slots /\ DOMAIN overlay \subseteq Sectors
              /\ Storage(io, DOMAIN io.host) /\ error \in BOOLEAN => Image(d)
<1>1. /\ d.files = files /\ d.allocated = allocated /\ d.metadata = metadata /\ d.dataRefs = dataRefs
      /\ d.directory = directory /\ d.pendingSectorWrites = overlay /\ d.pendingCreates = creates
      /\ d.pendingAppends = appends /\ d.pendingReplacements = replacements /\ d.io = io
      /\ d.error = error
  BY DEF Made
<1>2. d = Made(d.files, d.allocated, d.metadata, d.dataRefs, d.directory, d.pendingSectorWrites,
                    d.pendingCreates, d.pendingAppends, d.pendingReplacements, d.io, d.error)
  BY <1>1
<1> QED BY <1>1, <1>2 DEF Image, Storage, Made

(* An image with its overlay changed. *)
LEMMA EditOverlay ==
    ASSUME NEW d, Image(d), NEW W
    PROVE  [d EXCEPT !.pendingSectorWrites = W] =
             Made(d.files, d.allocated, d.metadata, d.dataRefs, d.directory,
                  W, d.pendingCreates, d.pendingAppends, d.pendingReplacements,
                  d.io, d.error)
BY ImageShape DEF Made

(* An image with its directory changed. *)
LEMMA EditDirectory ==
    ASSUME NEW d, Image(d), NEW D
    PROVE  [d EXCEPT !.directory = D] =
             Made(d.files, d.allocated, d.metadata, d.dataRefs, D,
                  d.pendingSectorWrites, d.pendingCreates, d.pendingAppends, d.pendingReplacements,
                  d.io, d.error)
BY ImageShape DEF Made

(* An image with its pending creates changed. *)
LEMMA EditCreates ==
    ASSUME NEW d, Image(d), NEW C
    PROVE  [d EXCEPT !.pendingCreates = C] =
             Made(d.files, d.allocated, d.metadata, d.dataRefs, d.directory,
                  d.pendingSectorWrites, C, d.pendingAppends, d.pendingReplacements,
                  d.io, d.error)
BY ImageShape DEF Made

(* An image with its pending appends changed. *)
LEMMA EditAppends ==
    ASSUME NEW d, Image(d), NEW C
    PROVE  [d EXCEPT !.pendingAppends = C] =
             Made(d.files, d.allocated, d.metadata, d.dataRefs, d.directory,
                  d.pendingSectorWrites, d.pendingCreates, C, d.pendingReplacements,
                  d.io, d.error)
BY ImageShape DEF Made

(* An image with its pending replacements changed. *)
LEMMA EditReplacements ==
    ASSUME NEW d, Image(d), NEW C
    PROVE  [d EXCEPT !.pendingReplacements = C] =
             Made(d.files, d.allocated, d.metadata, d.dataRefs, d.directory,
                  d.pendingSectorWrites, d.pendingCreates, d.pendingAppends, C,
                  d.io, d.error)
BY ImageShape DEF Made

(* An image with its map sectors and overlay changed, as Settle does. *)
LEMMA EditSettle ==
    ASSUME NEW d, Image(d), NEW M, NEW W
    PROVE  [d EXCEPT !.metadata = M, !.pendingSectorWrites = W] =
             Made(d.files, d.allocated, M, d.dataRefs, d.directory,
                  W, d.pendingCreates, d.pendingAppends, d.pendingReplacements,
                  d.io, d.error)
<1> DEFINE g1 == [d EXCEPT !.metadata = M]
<1>1. g1 = Made(d.files, d.allocated, M, d.dataRefs, d.directory,
              d.pendingSectorWrites, d.pendingCreates, d.pendingAppends, d.pendingReplacements,
              d.io, d.error)
  BY ImageShape DEF Made
<1>2. [d EXCEPT !.metadata = M, !.pendingSectorWrites = W] = [g1 EXCEPT !.pendingSectorWrites = W]
  OBVIOUS
<1> HIDE DEF g1
<1> QED BY <1>1, <1>2 DEF Made

(* An image with its storage and files changed. *)
LEMMA EditFile ==
    ASSUME NEW d, Image(d), NEW io, NEW F
    PROVE  [d EXCEPT !.io = io, !.files = F] =
             Made(F, d.allocated, d.metadata, d.dataRefs, d.directory,
                  d.pendingSectorWrites, d.pendingCreates, d.pendingAppends, d.pendingReplacements,
                  io, d.error)
<1> DEFINE g1 == [d EXCEPT !.io = io]
<1>1. g1 = Made(d.files, d.allocated, d.metadata, d.dataRefs, d.directory,
              d.pendingSectorWrites, d.pendingCreates, d.pendingAppends, d.pendingReplacements,
              io, d.error)
  BY ImageShape DEF Made
<1>2. [d EXCEPT !.io = io, !.files = F] = [g1 EXCEPT !.files = F]
  OBVIOUS
<1> HIDE DEF g1
<1> QED BY <1>1, <1>2 DEF Made

(* The sectors that map chains are read from. *)
Held(d) == DOMAIN d.metadata \cup DOMAIN d.pendingSectorWrites

(* Settle moves the overlay of the map sectors in use into them. *)
LEMMA SettleIs ==
    ASSUME NEW d, Image(d)
    PROVE  LET e == Settle(d)
           IN  /\ Image(e) /\ e.files = d.files /\ e.allocated = d.allocated /\ e.dataRefs = d.dataRefs
               /\ e.directory = d.directory /\ e.pendingCreates = d.pendingCreates
               /\ e.pendingAppends = d.pendingAppends /\ e.pendingReplacements = d.pendingReplacements
               /\ e.io = d.io /\ e.error = d.error
               /\ DOMAIN e.metadata = DOMAIN d.metadata
               /\ DOMAIN e.pendingSectorWrites = DOMAIN d.pendingSectorWrites \ DOMAIN d.metadata
               /\ \A m \in DOMAIN d.metadata : e.metadata[m] = Value(d, m)
               /\ \A x \in DOMAIN d.pendingSectorWrites \ DOMAIN d.metadata :
                        e.pendingSectorWrites[x] = d.pendingSectorWrites[x]
<1> DEFINE own == DOMAIN d.metadata \cap DOMAIN d.pendingSectorWrites
           M == [m \in DOMAIN d.metadata |-> IF m \in own THEN d.pendingSectorWrites[m] ELSE d.metadata[m]]
           W == Without(d.pendingSectorWrites, own)
           e == Settle(d)
<1>1. e = [d EXCEPT !.metadata = M, !.pendingSectorWrites = W]
  BY DEF Settle
<1>2. DOMAIN M = DOMAIN d.metadata /\ \A m \in DOMAIN d.metadata : M[m] = Value(d, m)
  BY DEF Value
<1>3. /\ DOMAIN W = DOMAIN d.pendingSectorWrites \ DOMAIN d.metadata
      /\ \A x \in DOMAIN d.pendingSectorWrites \ DOMAIN d.metadata : W[x] = d.pendingSectorWrites[x]
  <2>1. /\ DOMAIN W = DOMAIN d.pendingSectorWrites \ own
        /\ \A x \in DOMAIN d.pendingSectorWrites \ own : W[x] = d.pendingSectorWrites[x]
    <3> HIDE DEF own
    <3> QED BY WithoutIs
  <2> HIDE DEF W
  <2> QED BY <2>1
<1> HIDE DEF M, W, e
<1>4. e = Made(d.files, d.allocated, M, d.dataRefs, d.directory, W, d.pendingCreates, d.pendingAppends,
               d.pendingReplacements, d.io, d.error)
  BY <1>1, EditSettle
<1>5. /\ e.files = d.files /\ e.allocated = d.allocated /\ e.dataRefs = d.dataRefs
      /\ e.directory = d.directory /\ e.pendingCreates = d.pendingCreates
      /\ e.pendingAppends = d.pendingAppends /\ e.pendingReplacements = d.pendingReplacements
      /\ e.io = d.io /\ e.error = d.error /\ e.metadata = M /\ e.pendingSectorWrites = W
  BY <1>4, MadeIs
<1>6. Image(e)
  <2>1. /\ d.files \in Seq(FileRecs) /\ DOMAIN d.directory = 1 .. Slots /\ DOMAIN W \subseteq Sectors
        /\ Storage(d.io, DOMAIN d.io.host) /\ d.error \in BOOLEAN
    BY <1>3, ImageStorage DEF Image
  <2> QED BY <1>4, <2>1, MadeIs
<1> QED BY <1>2, <1>3, <1>5, <1>6 DEF e

(* Forget drops sectors from the overlay. *)
LEMMA ForgetIs ==
    ASSUME NEW d, Image(d), NEW S
    PROVE  LET e == Forget(d, S)
           IN  /\ Image(e) /\ e.files = d.files /\ e.allocated = d.allocated /\ e.dataRefs = d.dataRefs
               /\ e.directory = d.directory /\ e.pendingCreates = d.pendingCreates
               /\ e.pendingAppends = d.pendingAppends /\ e.pendingReplacements = d.pendingReplacements
               /\ e.io = d.io /\ e.error = d.error /\ e.metadata = d.metadata
               /\ DOMAIN e.pendingSectorWrites = DOMAIN d.pendingSectorWrites \ S
               /\ \A x \in DOMAIN d.pendingSectorWrites \ S : e.pendingSectorWrites[x] = d.pendingSectorWrites[x]
<1> DEFINE W == Without(d.pendingSectorWrites, S)
           e == Forget(d, S)
<1>1. e = [d EXCEPT !.pendingSectorWrites = W]
  BY DEF Forget
<1>2. /\ DOMAIN W = DOMAIN d.pendingSectorWrites \ S
      /\ \A x \in DOMAIN d.pendingSectorWrites \ S : W[x] = d.pendingSectorWrites[x]
  BY WithoutIs
<1> HIDE DEF W, e
<1>4. e = Made(d.files, d.allocated, d.metadata, d.dataRefs, d.directory, W, d.pendingCreates, d.pendingAppends,
               d.pendingReplacements, d.io, d.error)
  BY <1>1, EditOverlay
<1>5. /\ e.files = d.files /\ e.allocated = d.allocated /\ e.dataRefs = d.dataRefs
      /\ e.directory = d.directory /\ e.pendingCreates = d.pendingCreates
      /\ e.pendingAppends = d.pendingAppends /\ e.pendingReplacements = d.pendingReplacements
      /\ e.io = d.io /\ e.error = d.error /\ e.metadata = d.metadata /\ e.pendingSectorWrites = W
  BY <1>4, MadeIs
<1>6. Image(e)
  <2>1. /\ d.files \in Seq(FileRecs) /\ DOMAIN d.directory = 1 .. Slots /\ DOMAIN W \subseteq Sectors
        /\ Storage(d.io, DOMAIN d.io.host) /\ d.error \in BOOLEAN
    BY <1>2, ImageStorage DEF Image
  <2> QED BY <1>4, <2>1, MadeIs
<1> QED BY <1>2, <1>5, <1>6 DEF e

(* Claim gives a file its record, its sectors and its maps as they read. *)
LEMMA ClaimIs ==
    ASSUME NEW d, Image(d), NEW i \in DOMAIN d.files, NEW f, Sound(f), NEW n,
           d.files[i].hostName = f.host, d.files[i].name = n,
           \A m \in Elems(f.maps) : m \in Held(d)
    PROVE  LET e == Claim(d, i, Len(f.bytes), f.maps, f.data)
           IN  /\ Image(e) /\ e.allocated = d.allocated \cup Elems(f.data) \cup Elems(f.maps)
               /\ DOMAIN e.files = DOMAIN d.files /\ e.files[i] = Record(n, f)
               /\ \A j \in DOMAIN d.files : j # i => e.files[j] = d.files[j]
               /\ e.directory = d.directory /\ e.pendingCreates = d.pendingCreates
               /\ e.pendingAppends = d.pendingAppends /\ e.pendingReplacements = d.pendingReplacements
               /\ e.io = d.io /\ e.error = d.error /\ e.pendingSectorWrites = d.pendingSectorWrites
               /\ DOMAIN e.metadata = DOMAIN d.metadata \cup Elems(f.maps)
               /\ \A m \in Elems(f.maps) : e.metadata[m] = Value(d, m)
               /\ \A m \in DOMAIN d.metadata \ Elems(f.maps) : e.metadata[m] = d.metadata[m]
               /\ DOMAIN e.dataRefs = DOMAIN d.dataRefs \cup Elems(f.data)
               /\ \A k \in 1 .. Len(f.data) : e.dataRefs[f.data[k]] = [file |-> i, at |-> k]
               /\ \A x \in DOMAIN d.dataRefs \ Elems(f.data) : e.dataRefs[x] = d.dataRefs[x]
<1> DEFINE A == d.allocated \cup Elems(f.data) \cup Elems(f.maps)
           refs == [x \in Elems(f.data) |-> [file |-> i, at |-> Place(f.data, x)]]
           images == [m \in Elems(f.maps) |-> ReadSector(d, m)]
           R == Merge(refs, d.dataRefs)
           M == Merge(images, d.metadata)
           g == d.files[i]
           r == [g EXCEPT !.length = Len(f.bytes), !.dataSectors = f.data, !.mapSectors = f.maps]
           F == [d.files EXCEPT ![i] = r]
           e == Claim(d, i, Len(f.bytes), f.maps, f.data)
<1>1. e = [d EXCEPT !.allocated = A, !.dataRefs = R, !.metadata = M, !.files = F]
  BY DEF Claim
<1>2. /\ DOMAIN R = DOMAIN d.dataRefs \cup Elems(f.data)
      /\ \A x \in DOMAIN d.dataRefs \ Elems(f.data) : R[x] = d.dataRefs[x]
      /\ \A x \in Elems(f.data) : R[x] = refs[x]
  <2>1. DOMAIN refs = Elems(f.data)
    OBVIOUS
  <2> HIDE DEF refs
  <2>2. /\ DOMAIN R = DOMAIN refs \cup DOMAIN d.dataRefs
        /\ \A y \in DOMAIN refs : R[y] = refs[y]
        /\ \A y \in DOMAIN d.dataRefs \ DOMAIN refs : R[y] = d.dataRefs[y]
    BY MergeIs
  <2> HIDE DEF R
  <2> QED BY <2>1, <2>2
<1>3. \A k \in 1 .. Len(f.data) : R[f.data[k]] = [file |-> i, at |-> k]
  <2> TAKE k \in 1 .. Len(f.data)
  <2>1. f.data[k] \in Elems(f.data) /\ Place(f.data, f.data[k]) = k
    BY SoundFacts, ElemsAre, PlaceIs
  <2>2. refs[f.data[k]] = [file |-> i, at |-> k]
    BY <2>1
  <2> HIDE DEF refs, R
  <2> QED BY <1>2, <2>1, <2>2
<1>4. /\ DOMAIN M = DOMAIN d.metadata \cup Elems(f.maps)
      /\ \A m \in DOMAIN d.metadata \ Elems(f.maps) : M[m] = d.metadata[m]
      /\ \A m \in Elems(f.maps) : M[m] = images[m]
  <2>1. DOMAIN images = Elems(f.maps)
    OBVIOUS
  <2> HIDE DEF images
  <2>2. /\ DOMAIN M = DOMAIN images \cup DOMAIN d.metadata
        /\ \A y \in DOMAIN images : M[y] = images[y]
        /\ \A y \in DOMAIN d.metadata \ DOMAIN images : M[y] = d.metadata[y]
    BY MergeIs
  <2> HIDE DEF M
  <2> QED BY <2>1, <2>2
<1>5. \A m \in Elems(f.maps) : images[m] = Value(d, m)
  BY ReadsValue DEF Held
<1>6. g \in FileRecs /\ d.files \in Seq(FileRecs)
  BY DEF Image
<1>7. r = Record(n, f)
  <2>1. g = [hostName |-> f.host, name |-> n, length |-> g.length, dataSectors |-> g.dataSectors,
             mapSectors |-> g.mapSectors]
    BY <1>6 DEF FileRecs
  <2> HIDE DEF g
  <2> DEFINE l == Len(f.bytes)
             s == f.data
             m == f.maps
             h == f.host
             g1 == [g EXCEPT !.length = l]
             g2 == [g EXCEPT !.length = l, !.dataSectors = s]
  <2> HIDE DEF l, s, m, h
  <2>2. g1 = [hostName |-> h, name |-> n, length |-> l, dataSectors |-> g.dataSectors, mapSectors |-> g.mapSectors]
    BY <2>1 DEF h
  <2>3. g2 = [g1 EXCEPT !.dataSectors = s]
    OBVIOUS
  <2>4. [g EXCEPT !.length = l, !.dataSectors = s, !.mapSectors = m] = [g2 EXCEPT !.mapSectors = m]
    OBVIOUS
  <2> HIDE DEF g1, g2
  <2>5. g2 = [hostName |-> h, name |-> n, length |-> l, dataSectors |-> s, mapSectors |-> g.mapSectors]
    BY <2>2, <2>3
  <2>6. [g2 EXCEPT !.mapSectors = m] = [hostName |-> h, name |-> n, length |-> l, dataSectors |-> s, mapSectors |-> m]
    BY <2>5
  <2> QED BY <2>4, <2>6 DEF Record, l, s, m, h
<1>8. Record(n, f) \in FileRecs
  <2>1. /\ f.host \in Paths /\ Len(f.bytes) \in Nat /\ f.data \in Seq(Sectors) /\ f.maps \in Seq(Sectors)
    BY SoundFacts
  <2>2. n \in AllNames
    BY <1>6 DEF FileRecs
  <2> QED BY <2>1, <2>2 DEF Record, FileRecs
<1> HIDE DEF r, g, A, R, M, e
<1>9. /\ F \in Seq(FileRecs) /\ DOMAIN F = DOMAIN d.files /\ F[i] = Record(n, f)
      /\ \A j \in DOMAIN d.files : j # i => F[j] = d.files[j]
  BY <1>6, <1>7, <1>8
<1> HIDE DEF F
<1>10. e = Made(F, A, M, R, d.directory, d.pendingSectorWrites, d.pendingCreates, d.pendingAppends,
                d.pendingReplacements, d.io, d.error)
  <2> DEFINE g1 == [d EXCEPT !.allocated = A]
  <2> DEFINE g2 == [d EXCEPT !.allocated = A, !.dataRefs = R]
  <2> DEFINE g3 == [d EXCEPT !.allocated = A, !.dataRefs = R, !.metadata = M]
  <2>1. g2 = [g1 EXCEPT !.dataRefs = R]
    OBVIOUS
  <2>2. g3 = [g2 EXCEPT !.metadata = M]
    OBVIOUS
  <2>3. e = [g3 EXCEPT !.files = F]
    BY <1>1
  <2>4. g1 = Made(d.files, A, d.metadata, d.dataRefs, d.directory,
                 d.pendingSectorWrites, d.pendingCreates, d.pendingAppends, d.pendingReplacements,
                 d.io, d.error)
    BY ImageShape DEF Made
  <2> HIDE DEF g1, g2, g3
  <2>5. g2 = Made(d.files, A, d.metadata, R, d.directory,
                 d.pendingSectorWrites, d.pendingCreates, d.pendingAppends, d.pendingReplacements,
                 d.io, d.error)
    BY <2>1, <2>4 DEF Made
  <2>6. g3 = Made(d.files, A, M, R, d.directory,
                 d.pendingSectorWrites, d.pendingCreates, d.pendingAppends, d.pendingReplacements,
                 d.io, d.error)
    BY <2>2, <2>5 DEF Made
  <2> QED BY <2>3, <2>6 DEF Made
<1>11. /\ e.files = F /\ e.allocated = A /\ e.dataRefs = R
      /\ e.directory = d.directory /\ e.pendingCreates = d.pendingCreates
      /\ e.pendingAppends = d.pendingAppends /\ e.pendingReplacements = d.pendingReplacements
      /\ e.io = d.io /\ e.error = d.error /\ e.metadata = M /\ e.pendingSectorWrites = d.pendingSectorWrites
  BY <1>10, MadeIs
<1>12. Image(e)
  <2>1. /\ DOMAIN d.directory = 1 .. Slots /\ DOMAIN d.pendingSectorWrites \subseteq Sectors
        /\ Storage(d.io, DOMAIN d.io.host) /\ d.error \in BOOLEAN
    BY ImageStorage DEF Image
  <2> QED BY <1>9, <1>10, <2>1, MadeIs
<1>13. \A m \in Elems(f.maps) : M[m] = Value(d, m)
  BY <1>4, <1>5
<1>14. A = d.allocated \cup Elems(f.data) \cup Elems(f.maps)
  BY DEF A
<1> HIDE DEF refs, images
<1> QED BY <1>2, <1>3, <1>4, <1>9, <1>11, <1>12, <1>13, <1>14 DEF e

-----------------------------------------------------------------------------
(* A file that lands in the layout. *)

(* The sectors a file of this name has. *)
DataOf(cat, n) == IF n \in DOMAIN cat THEN Elems(cat[n].data) ELSE {}

MapsOf(cat, n) == IF n \in DOMAIN cat THEN Elems(cat[n].maps) ELSE {}

(* The step from d to e makes the sectors of f those of the file i, n. *)
Lands(d, e, cat, n, f, i) ==
    /\ i \in DOMAIN e.files /\ e.files[i] = Record(n, f)
    /\ \/ i \in DOMAIN d.files /\ n \in DOMAIN cat /\ d.files[i] = Record(n, cat[n])
       \/ i \notin DOMAIN d.files /\ n \notin DOMAIN cat
    /\ DOMAIN e.files = DOMAIN d.files \cup {i}
    /\ \A j \in DOMAIN d.files : j # i => e.files[j] = d.files[j]
    /\ DOMAIN e.dataRefs = (DOMAIN d.dataRefs \ DataOf(cat, n)) \cup Elems(f.data)
    /\ \A k \in 1 .. Len(f.data) : e.dataRefs[f.data[k]] = [file |-> i, at |-> k]
    /\ \A x \in DOMAIN d.dataRefs \ (DataOf(cat, n) \cup Elems(f.data)) : e.dataRefs[x] = d.dataRefs[x]
    /\ DOMAIN e.metadata = (DOMAIN d.metadata \ MapsOf(cat, n)) \cup Elems(f.maps)
    /\ e.allocated = DOMAIN e.dataRefs \cup DOMAIN e.metadata
    /\ DOMAIN e.io.host = DOMAIN d.io.host \cup {f.host}

(* A file that can take the place of the one of its name. *)
Fits(cat, n, f) ==
    /\ n \in AllNames /\ Sound(f) /\ (f.host = n \/ f.host \notin AllNames)
    /\ \A m \in DOMAIN cat \ {n} : Apart(f, cat[m])

(* A file that fits keeps the catalogue. *)
LEMMA PutCatalogue ==
    ASSUME NEW cat, Catalogue(cat), NEW n, NEW f, Fits(cat, n, f)
    PROVE  Catalogue(Put(cat, n, f))
<1> DEFINE new == Put(cat, n, f)
<1>1. DOMAIN new = DOMAIN cat \cup {n} /\ new[n] = f /\ \A m \in DOMAIN cat \ {n} : new[m] = cat[m]
  BY DEF Put
<1>2. new = [m \in DOMAIN new |-> new[m]]
  BY DEF Put
<1> HIDE DEF new
<1>3. DOMAIN new \subseteq AllNames
  BY <1>1 DEF Catalogue, Fits
<1>4. \A m \in DOMAIN new : Sound(new[m]) /\ (new[m].host = m \/ new[m].host \notin AllNames)
  BY <1>1 DEF Catalogue, Fits
<1>5. ASSUME NEW m \in DOMAIN new, NEW l \in DOMAIN new, m # l
      PROVE  Apart(new[m], new[l])
  <2>1. \A g, h : Apart(g, h) => Apart(h, g)
    BY DEF Apart
  <2>2. CASE m = n
    BY <1>1, <1>5, <2>2 DEF Fits
  <2>3. CASE l = n
    BY <1>1, <1>5, <2>1, <2>3 DEF Fits
  <2>4. CASE m # n /\ l # n
    BY <1>1, <1>5, <2>4 DEF Catalogue
  <2> QED BY <2>2, <2>3, <2>4
<1> QED BY <1>2, <1>3, <1>4, <1>5 DEF Catalogue, new

(* An image where a file has landed is laid out with it. *)
LEMMA Landed ==
    ASSUME NEW d, NEW e, Image(d), Image(e), NEW cat, Catalogue(cat), Layout(d, cat), NEW n, NEW f,
           Fits(cat, n, f), n \in DOMAIN cat => cat[n].host = f.host,
           NEW i, Lands(d, e, cat, n, f, i)
    PROVE  Layout(e, Put(cat, n, f))
<1> DEFINE new == Put(cat, n, f)
           others == DOMAIN cat \ {n}
<1>1. DOMAIN new = DOMAIN cat \cup {n} /\ new[n] = f /\ \A m \in others : new[m] = cat[m]
  BY DEF Put
<1> HIDE DEF new
<1>2. DOMAIN new = others \cup {n}
  BY <1>1
<1>3. \A m \in DOMAIN cat : Sound(cat[m]) /\ Sound(f)
  BY DEF Catalogue, Fits
<1>4. ASSUME NEW j \in DOMAIN d.files, j # i
      PROVE  \/ d.files[j].length = 0 /\ d.files[j].dataSectors = <<>> /\ d.files[j].mapSectors = <<>>
             \/ /\ d.files[j].name \in others /\ d.files[j] = Record(d.files[j].name, cat[d.files[j].name])
                /\ d.files[j].dataSectors = cat[d.files[j].name].data
  <2>1. CASE d.files[j].name = n /\ n \in DOMAIN cat /\ d.files[j].length > 0
    <3>1. i \in DOMAIN d.files /\ d.files[i] = Record(n, cat[n])
      BY <2>1 DEF Lands
    <3>2. d.files[i].name = n /\ d.files[i].length > 0
      BY <1>3, <2>1, <3>1, RecordIs
    <3> QED BY <1>4, <2>1, <3>1, <3>2 DEF Layout, Live
  <2> QED BY <2>1, FileIs
<1>5. ASSUME NEW m \in others
      PROVE  \E j \in DOMAIN d.files : j # i /\ d.files[j] = Record(m, cat[m]) /\ e.files[j] = Record(m, cat[m])
  <2>1. PICK j \in DOMAIN d.files : d.files[j] = Record(m, cat[m])
    BY DEF Layout
  <2>2. j # i
    <3>1. Record(m, cat[m]).name = m
      BY <1>3, RecordIs
    <3>2. n \in DOMAIN cat => Record(n, cat[n]).name = n
      BY <1>3, RecordIs
    <3> QED BY <2>1, <3>1, <3>2 DEF Lands
  <2> QED BY <2>1, <2>2 DEF Lands
<1>6. e.files[i] = Record(n, f) /\ e.files[i].name = n /\ e.files[i].length > 0 /\ e.files[i].dataSectors = f.data
      /\ i \in DOMAIN e.files
  BY RecordIs DEF Lands, Fits
<1>7. \A j \in DOMAIN e.files : j # i => j \in DOMAIN d.files /\ e.files[j] = d.files[j]
  BY DEF Lands
<1>8. \A j \in DOMAIN e.files :
        \/ e.files[j].length = 0 /\ e.files[j].dataSectors = <<>> /\ e.files[j].mapSectors = <<>>
        \/ e.files[j].name \in DOMAIN new /\ e.files[j] = Record(e.files[j].name, new[e.files[j].name])
  <2> TAKE j \in DOMAIN e.files
  <2>1. CASE j = i
    BY <1>1, <1>2, <1>6, <2>1
  <2>2. CASE j # i
    BY <1>1, <1>2, <1>4, <1>7, <2>2
  <2> QED BY <2>1, <2>2
<1>9. \A m \in DOMAIN new : \E j \in DOMAIN e.files : e.files[j] = Record(m, new[m])
  <2> TAKE m \in DOMAIN new
  <2>1. CASE m = n
    BY <1>1, <1>6, <2>1
  <2>2. CASE m # n
    <3>1. m \in others
      BY <1>2, <2>2
    <3>2. PICK j \in DOMAIN d.files : j # i /\ e.files[j] = Record(m, cat[m])
      BY <1>5, <3>1
    <3> QED BY <1>1, <3>1, <3>2 DEF Lands
  <2> QED BY <2>1, <2>2
<1>10. ASSUME NEW j \in DOMAIN e.files, NEW k \in DOMAIN e.files, Live(e, j), Live(e, k),
              e.files[j].name = e.files[k].name
       PROVE  j = k
  <2>1. ASSUME NEW h \in DOMAIN d.files, h # i, e.files[h].length > 0 PROVE e.files[h].name # n
    <3>1. e.files[h] = d.files[h]
      BY <2>1 DEF Lands
    <3>2. d.files[h].length # 0
      <4>1. d.files \in Seq(FileRecs)
        BY DEF Image
      <4>2. d.files[h] \in FileRecs
        BY <4>1
      <4>3. d.files[h].length \in Nat
        BY <4>2 DEF FileRecs
      <4> QED BY <2>1, <3>1, <4>3
    <3> QED BY <1>4, <2>1, <3>1, <3>2
  <2>2. CASE j = i
    BY <1>6, <1>7, <1>10, <2>1, <2>2 DEF Live
  <2>3. CASE k = i
    BY <1>6, <1>7, <1>10, <2>1, <2>3 DEF Live
  <2>4. CASE j # i /\ k # i
    BY <1>7, <1>10, <2>4 DEF Layout, Live
  <2> QED BY <2>2, <2>3, <2>4
<1>11. DOMAIN e.dataRefs = UNION {Elems(new[m].data) : m \in DOMAIN new}
  <2>1. \A m \in others : n \in DOMAIN cat => Elems(cat[m].data) \cap Elems(cat[n].data) = {}
    BY DEF Catalogue, Apart, SectorsOf
  <2>2. DOMAIN e.dataRefs = (DOMAIN d.dataRefs \ DataOf(cat, n)) \cup Elems(f.data)
    BY DEF Lands
  <2>3. ASSUME NEW x \in DOMAIN e.dataRefs PROVE \E m \in DOMAIN new : x \in Elems(new[m].data)
    <3>1. CASE x \in Elems(f.data)
      BY <1>1, <1>2, <3>1
    <3>2. CASE x \in DOMAIN d.dataRefs \ DataOf(cat, n)
      <4>1. PICK m \in DOMAIN cat : x \in Elems(cat[m].data)
        BY <3>2 DEF Layout
      <4>2. m # n
        BY <3>2, <4>1 DEF DataOf
      <4> QED BY <1>1, <1>2, <4>1, <4>2
    <3> QED BY <2>2, <3>1, <3>2
  <2>4. ASSUME NEW m \in DOMAIN new PROVE Elems(new[m].data) \subseteq DOMAIN e.dataRefs
    <3>1. CASE m = n
      BY <1>1, <2>2, <3>1
    <3>2. CASE m # n
      <4>1. m \in others /\ new[m] = cat[m]
        BY <1>1, <1>2, <3>2
      <4>2. Elems(cat[m].data) \subseteq DOMAIN d.dataRefs
        BY <4>1 DEF Layout
      <4>3. Elems(cat[m].data) \cap DataOf(cat, n) = {}
        BY <2>1, <4>1 DEF DataOf
      <4> QED BY <2>2, <4>1, <4>2, <4>3
    <3> QED BY <3>1, <3>2
  <2> QED BY <2>3, <2>4
<1>12. DOMAIN e.metadata = UNION {Elems(new[m].maps) : m \in DOMAIN new}
  <2>1. \A m \in others : n \in DOMAIN cat => Elems(cat[m].maps) \cap Elems(cat[n].maps) = {}
    BY DEF Catalogue, Apart, SectorsOf
  <2>2. DOMAIN e.metadata = (DOMAIN d.metadata \ MapsOf(cat, n)) \cup Elems(f.maps)
    BY DEF Lands
  <2>3. ASSUME NEW x \in DOMAIN e.metadata PROVE \E m \in DOMAIN new : x \in Elems(new[m].maps)
    <3>1. CASE x \in Elems(f.maps)
      BY <1>1, <1>2, <3>1
    <3>2. CASE x \in DOMAIN d.metadata \ MapsOf(cat, n)
      <4>1. PICK m \in DOMAIN cat : x \in Elems(cat[m].maps)
        BY <3>2 DEF Layout
      <4>2. m # n
        BY <3>2, <4>1 DEF MapsOf
      <4> QED BY <1>1, <1>2, <4>1, <4>2
    <3> QED BY <2>2, <3>1, <3>2
  <2>4. ASSUME NEW m \in DOMAIN new PROVE Elems(new[m].maps) \subseteq DOMAIN e.metadata
    <3>1. CASE m = n
      BY <1>1, <2>2, <3>1
    <3>2. CASE m # n
      <4>1. m \in others /\ new[m] = cat[m]
        BY <1>1, <1>2, <3>2
      <4>2. Elems(cat[m].maps) \subseteq DOMAIN d.metadata
        BY <4>1 DEF Layout
      <4>3. Elems(cat[m].maps) \cap MapsOf(cat, n) = {}
        BY <2>1, <4>1 DEF MapsOf
      <4> QED BY <2>2, <4>1, <4>2, <4>3
    <3> QED BY <3>1, <3>2
  <2> QED BY <2>3, <2>4
<1>13. ASSUME NEW j \in DOMAIN e.files, NEW k \in 1 .. Len(e.files[j].dataSectors)
       PROVE  e.dataRefs[e.files[j].dataSectors[k]] = [file |-> j, at |-> k]
  <2>1. CASE j = i
    BY <1>6, <2>1 DEF Lands
  <2>2. CASE j # i
    <3> DEFINE m == d.files[j].name
               x == d.files[j].dataSectors[k]
    <3>1. j \in DOMAIN d.files /\ e.files[j] = d.files[j] /\ k \in 1 .. Len(d.files[j].dataSectors)
      BY <1>7, <2>2
    <3>2. m \in others /\ d.files[j].dataSectors = cat[m].data
      <4>1. d.files[j].dataSectors # <<>>
        BY <3>1
      <4> QED BY <1>4, <2>2, <3>1, <4>1
    <3>3. d.dataRefs[x] = [file |-> j, at |-> k]
      BY <3>1 DEF Layout
    <3>4. x \in Elems(cat[m].data)
      <4>1. cat[m].data \in Seq(Sectors)
        BY <1>3, <3>2, SoundFacts
      <4> HIDE DEF m
      <4> QED BY <3>1, <3>2, <4>1, ElemsAre
    <3>5. x \in DOMAIN d.dataRefs \ (DataOf(cat, n) \cup Elems(f.data))
      <4>1. x \in DOMAIN d.dataRefs
        <5>1. DOMAIN d.dataRefs = UNION {Elems(cat[v].data) : v \in DOMAIN cat}
          BY ONLY Layout(d, cat) DEF Layout
        <5> HIDE DEF x, m
        <5> QED BY ONLY <3>2, <3>4, <5>1
      <4>2. x \notin Elems(f.data)
        BY <3>2, <3>4 DEF Fits, Apart, SectorsOf
      <4>3. x \notin DataOf(cat, n)
        BY <3>2, <3>4 DEF Catalogue, Apart, SectorsOf, DataOf
      <4> QED BY <4>1, <4>2, <4>3
    <3>6. e.dataRefs[x] = d.dataRefs[x]
      BY <3>5 DEF Lands
    <3> QED BY <3>1, <3>3, <3>6
  <2> QED BY <2>1, <2>2
<1>14. DOMAIN e.io.host = {new[m].host : m \in DOMAIN new}
  <2>1. DOMAIN d.io.host = {cat[m].host : m \in DOMAIN cat}
    BY DEF Layout
  <2>2. DOMAIN e.io.host = {cat[m].host : m \in DOMAIN cat} \cup {f.host}
    BY <2>1 DEF Lands
  <2>3. ASSUME NEW h \in DOMAIN e.io.host PROVE \E m \in DOMAIN new : h = new[m].host
    <3>1. CASE h = f.host
      BY <1>1, <1>2, <3>1
    <3>2. CASE h # f.host
      <4>1. PICK m \in DOMAIN cat : h = cat[m].host
        BY <2>2, <3>2
      <4>2. m # n
        BY <3>2, <4>1
      <4> QED BY <1>1, <1>2, <4>1, <4>2
    <3> QED BY <3>1, <3>2
  <2>4. ASSUME NEW m \in DOMAIN new PROVE new[m].host \in DOMAIN e.io.host
    BY <1>1, <1>2, <2>2
  <2> QED BY <2>3, <2>4
<1>15. e.allocated = DOMAIN e.dataRefs \cup DOMAIN e.metadata
  BY DEF Lands
<1> QED BY <1>8, <1>9, <1>10, <1>11, <1>12, <1>13, <1>14, <1>15 DEF Layout, new

(* e is d but for its files, its sectors and what is pending of kind. *)
Rest(d, e, kind) ==
    /\ e.directory = d.directory /\ e.error = d.error
    /\ kind # "create" => e.pendingCreates = d.pendingCreates
    /\ kind # "append" => e.pendingAppends = d.pendingAppends
    /\ kind # "replace" => e.pendingReplacements = d.pendingReplacements

(* What a create or an append leaves of the image. *)
Claimed(g, i, f, S) == Forget(Settle(Claim(g, i, Len(f.bytes), f.maps, f.data)), S)

(* A commit's last three steps together. *)
LEMMA ClaimedIs ==
    ASSUME NEW d, Image(d), NEW i \in DOMAIN d.files, NEW f, Sound(f), NEW n,
           d.files[i].hostName = f.host, d.files[i].name = n,
           \A m \in Elems(f.maps) : m \in Held(d), NEW S
    PROVE  LET e == Claimed(d, i, f, S)
           IN  /\ Image(e) /\ e.allocated = d.allocated \cup Elems(f.data) \cup Elems(f.maps)
               /\ DOMAIN e.files = DOMAIN d.files /\ e.files[i] = Record(n, f)
               /\ \A j \in DOMAIN d.files : j # i => e.files[j] = d.files[j]
               /\ e.directory = d.directory /\ e.pendingCreates = d.pendingCreates
               /\ e.pendingAppends = d.pendingAppends /\ e.pendingReplacements = d.pendingReplacements
               /\ e.io = d.io /\ e.error = d.error
               /\ DOMAIN e.metadata = DOMAIN d.metadata \cup Elems(f.maps)
               /\ \A m \in DOMAIN d.metadata \cup Elems(f.maps) :
                        e.metadata[m] = Value(d, m) /\ m \notin DOMAIN e.pendingSectorWrites
               /\ DOMAIN e.dataRefs = DOMAIN d.dataRefs \cup Elems(f.data)
               /\ \A k \in 1 .. Len(f.data) : e.dataRefs[f.data[k]] = [file |-> i, at |-> k]
               /\ \A x \in DOMAIN d.dataRefs \ Elems(f.data) : e.dataRefs[x] = d.dataRefs[x]
               /\ DOMAIN e.pendingSectorWrites = DOMAIN d.pendingSectorWrites \ (DOMAIN d.metadata \cup Elems(f.maps) \cup S)
               /\ \A x \in DOMAIN e.pendingSectorWrites : e.pendingSectorWrites[x] = d.pendingSectorWrites[x]
<1> DEFINE c == Claim(d, i, Len(f.bytes), f.maps, f.data)
           t == Settle(c)
           e == Forget(t, S)
<1>1. /\ Image(c) /\ c.allocated = d.allocated \cup Elems(f.data) \cup Elems(f.maps)
      /\ DOMAIN c.files = DOMAIN d.files /\ c.files[i] = Record(n, f)
      /\ \A j \in DOMAIN d.files : j # i => c.files[j] = d.files[j]
      /\ c.directory = d.directory /\ c.pendingCreates = d.pendingCreates
      /\ c.pendingAppends = d.pendingAppends /\ c.pendingReplacements = d.pendingReplacements
      /\ c.io = d.io /\ c.error = d.error /\ c.pendingSectorWrites = d.pendingSectorWrites
      /\ DOMAIN c.metadata = DOMAIN d.metadata \cup Elems(f.maps)
      /\ \A m \in Elems(f.maps) : c.metadata[m] = Value(d, m)
      /\ \A m \in DOMAIN d.metadata \ Elems(f.maps) : c.metadata[m] = d.metadata[m]
      /\ DOMAIN c.dataRefs = DOMAIN d.dataRefs \cup Elems(f.data)
      /\ \A k \in 1 .. Len(f.data) : c.dataRefs[f.data[k]] = [file |-> i, at |-> k]
      /\ \A x \in DOMAIN d.dataRefs \ Elems(f.data) : c.dataRefs[x] = d.dataRefs[x]
  BY ClaimIs
<1> HIDE DEF c
<1>2. /\ Image(t) /\ t.files = c.files /\ t.allocated = c.allocated /\ t.dataRefs = c.dataRefs
      /\ t.directory = c.directory /\ t.pendingCreates = c.pendingCreates
      /\ t.pendingAppends = c.pendingAppends /\ t.pendingReplacements = c.pendingReplacements
      /\ t.io = c.io /\ t.error = c.error
      /\ DOMAIN t.metadata = DOMAIN c.metadata
      /\ DOMAIN t.pendingSectorWrites = DOMAIN c.pendingSectorWrites \ DOMAIN c.metadata
      /\ \A m \in DOMAIN c.metadata : t.metadata[m] = Value(c, m)
      /\ \A x \in DOMAIN c.pendingSectorWrites \ DOMAIN c.metadata :
                        t.pendingSectorWrites[x] = c.pendingSectorWrites[x]
  BY <1>1, SettleIs
<1> HIDE DEF t
<1>3. /\ Image(e) /\ e.files = t.files /\ e.allocated = t.allocated /\ e.dataRefs = t.dataRefs
      /\ e.directory = t.directory /\ e.pendingCreates = t.pendingCreates
      /\ e.pendingAppends = t.pendingAppends /\ e.pendingReplacements = t.pendingReplacements
      /\ e.io = t.io /\ e.error = t.error /\ e.metadata = t.metadata
      /\ DOMAIN e.pendingSectorWrites = DOMAIN t.pendingSectorWrites \ S
      /\ \A x \in DOMAIN t.pendingSectorWrites \ S : e.pendingSectorWrites[x] = t.pendingSectorWrites[x]
  BY <1>2, ForgetIs
<1> HIDE DEF e
<1>4. \A m \in DOMAIN d.metadata \cup Elems(f.maps) : Value(c, m) = Value(d, m)
  BY <1>1 DEF Value
<1>5. \A m \in DOMAIN d.metadata \cup Elems(f.maps) :
                        e.metadata[m] = Value(d, m) /\ m \notin DOMAIN e.pendingSectorWrites
  BY <1>1, <1>2, <1>3, <1>4
<1>6. /\ DOMAIN e.pendingSectorWrites = DOMAIN d.pendingSectorWrites \ (DOMAIN d.metadata \cup Elems(f.maps) \cup S)
      /\ \A x \in DOMAIN e.pendingSectorWrites : e.pendingSectorWrites[x] = d.pendingSectorWrites[x]
  BY <1>1, <1>2, <1>3
<1>7. Claimed(d, i, f, S) = e
  BY DEF Claimed, e, t, c
<1>8. /\ Image(e) /\ e.allocated = d.allocated \cup Elems(f.data) \cup Elems(f.maps)
      /\ DOMAIN e.files = DOMAIN d.files /\ e.files[i] = Record(n, f)
      /\ \A j \in DOMAIN d.files : j # i => e.files[j] = d.files[j]
      /\ e.directory = d.directory /\ e.pendingCreates = d.pendingCreates
      /\ e.pendingAppends = d.pendingAppends /\ e.pendingReplacements = d.pendingReplacements
      /\ e.io = d.io /\ e.error = d.error
      /\ DOMAIN e.metadata = DOMAIN d.metadata \cup Elems(f.maps)
      /\ DOMAIN e.dataRefs = DOMAIN d.dataRefs \cup Elems(f.data)
      /\ \A k \in 1 .. Len(f.data) : e.dataRefs[f.data[k]] = [file |-> i, at |-> k]
      /\ \A x \in DOMAIN d.dataRefs \ Elems(f.data) : e.dataRefs[x] = d.dataRefs[x]
  BY <1>1, <1>2, <1>3
<1> QED BY <1>5, <1>6, <1>7, <1>8

(* The sectors of a file, counted. *)
LEMMA CountedSectors ==
    ASSUME NEW s \in Seq(Sectors), Distinct(s)
    PROVE  /\ IsFiniteSet(Elems(s)) /\ Cardinality(Elems(s)) = Len(s)
           /\ \A T : T \subseteq Elems(s) => Cardinality(T) <= Len(s) /\ Cardinality(T) \in Nat
                        /\ (Cardinality(T) < Len(s) <=> T # Elems(s))
<1> DEFINE n == Len(s)
           g == [i \in 1 .. n |-> s[i]]
<1>0. n \in Nat /\ Elems(s) = {s[i] : i \in 1 .. n}
  BY ElemsAre
<1>1. g \in Bijection(1 .. n, Elems(s))
  <2>1. \A i, j \in 1 .. n : g[i] = g[j] => i = j
    BY DEF Distinct
  <2>2. g \in [1 .. n -> Elems(s)]
    BY ElemsAre
  <2>3. \A x \in Elems(s) : \E i \in 1 .. n : g[i] = x
    BY <1>0
  <2> QED BY <2>1, <2>2, <2>3 DEF Bijection, Injection, Surjection, IsInjective
<1>2. IsFiniteSet(1 .. n) /\ Cardinality(1 .. n) = n
  <2>1. IsFiniteSet(1 .. n) /\ Cardinality(1 .. n) = IF 1 > n THEN 0 ELSE n - 1 + 1
    BY <1>0, FS_Interval
  <2> QED BY <1>0, <2>1
<1>3. IsFiniteSet(Elems(s)) /\ Cardinality(Elems(s)) = n
  <2> HIDE DEF g, n
  <2>1. ExistsBijection(1 .. n, Elems(s))
    BY <1>1 DEF ExistsBijection
  <2> QED BY <1>2, <2>1, FS_Bijection, FS_CountingElements, FS_NatBijection, <1>0
<1>4. ASSUME NEW T, T \subseteq Elems(s)
      PROVE  Cardinality(T) <= Len(s) /\ Cardinality(T) \in Nat /\ (Cardinality(T) < Len(s) <=> T # Elems(s))
  <2>1. IsFiniteSet(T) /\ Cardinality(T) <= Cardinality(Elems(s)) /\ (Cardinality(T) = Cardinality(Elems(s)) => T = Elems(s))
    BY <1>3, <1>4, FS_Subset
  <2>2. Cardinality(T) \in Nat
    BY <2>1, FS_CardinalityType
  <2>3. Len(s) \in Nat /\ Cardinality(Elems(s)) = Len(s)
    BY <1>0, <1>3
  <2> HIDE DEF g, n
  <2>4. CASE T = Elems(s)
    BY <2>2, <2>3, <2>4
  <2>5. CASE T # Elems(s)
    BY <2>1, <2>2, <2>3, <2>5
  <2> QED BY <2>4, <2>5
<1> QED BY <1>3, <1>4

-----------------------------------------------------------------------------
(* Creating a file. *)

(* A create whose directory entry is there. *)
CreateStaged(d, cat, n, f) ==
    /\ Image(d) /\ Catalogue(cat) /\ Layout(d, cat) /\ Fits(cat, n, f) /\ n \notin DOMAIN cat /\ f.host = n
    /\ Alone(d, f.slot, n) /\ d.directory[f.slot] = EntryOf(n, f)
    /\ DOMAIN d.pendingCreates = {f.maps[1]}
    /\ d.pendingCreates[f.maps[1]] = [name |-> n, length |-> Len(f.bytes)]

(* Nothing but the first map sector, which lists nothing, is linked to. *)
Bare(m) == [maps |-> <<m>>, data |-> <<>>]

(* The directory entry of a file is found. *)
LEMMA EntryIs ==
    ASSUME NEW d, NEW n, NEW f, Sound(f), Alone(d, f.slot, n), d.directory[f.slot] = EntryOf(n, f)
    PROVE  FinalizedEntry(d, f.maps[1], n) = {Len(f.bytes)}
<1>1. f.slot \in 1 .. Slots
  BY SoundFacts
<1>2. /\ d.directory[f.slot].status = "active" /\ d.directory[f.slot].map = f.maps[1]
      /\ d.directory[f.slot].name = n /\ d.directory[f.slot].length = Len(f.bytes)
  BY DEF EntryOf
<1> QED BY <1>1, <1>2, FinalizedIs

(* A create whose map is still empty, or links to one that is missing,     *)
(* waits.                                                                  *)
LEMMA CreateWaits ==
    ASSUME NEW d, NEW cat, NEW n, NEW f, CreateStaged(d, cat, n, f),
           Reads(d, Bare(f.maps[1])) \/ Gap(d, Bare(f.maps[1]), f)
    PROVE  CommitCreate(d, f.maps[1]) = d
<1> DEFINE m == f.maps[1]
           p == d.pendingCreates[m]
           entry == FinalizedEntry(d, m, p.name)
           chain == ReadMapChain(d, m, 0)
           s == SectorsFor(p.length)
<1>1. Sound(f) /\ p.name = n /\ p.length = Len(f.bytes)
  BY DEF CreateStaged, Fits
<1>2. entry = {p.length}
  BY <1>1, EntryIs DEF CreateStaged
<1>3. ~IsInventoriedName(d, p.name)
  BY <1>1, NoFile DEF CreateStaged
<1>0. CASE Gap(d, Bare(m), f)
  <2>1. Len(Bare(m).maps) = 1 /\ 0 \in 0 .. 1
    BY DEF Bare
  <2>2. Len(Bare(m).maps) \in Nat \ {0} /\ 0 \in 0 .. Len(Bare(m).maps)
    BY <2>1
  <2>3. chain.status = "incomplete"
    BY <1>0, <1>1, <2>2, GapChain
  <2> HIDE DEF p, entry, chain, s
  <2>4. entry # {} /\ ~(entry # {p.length} \/ IsInventoriedName(d, p.name) \/ chain.status = "bad")
        /\ chain.status = "incomplete"
    BY <1>2, <1>3, <2>3
  <2> QED BY <2>4, Zenon DEF CommitCreate, p, entry, chain, s
<1> SUFFICES ASSUME Reads(d, Bare(m)) PROVE CommitCreate(d, m) = d
  BY <1>0
<1>4. chain.status = "read" /\ chain.listed = <<>>
  <2>1. m \in Sectors
    BY <1>1, SoundFacts
  <2>2. Reads(d, [maps |-> <<m>>, data |-> <<>>])
    BY DEF Bare
  <2> HIDE DEF m
  <2>3. chain = [maps |-> <<m>>, listed |-> <<>>, current |-> 0, status |-> "read"]
    BY <2>1, <2>2, StartChain
  <2> QED BY <2>3
<1>5. Len(chain.listed) < s
  <2>1. s = Len(f.data) /\ Len(f.data) \in Nat \ {0}
    BY <1>1, SoundFacts
  <2>2. Len(<<>>) = 0
    OBVIOUS
  <2> HIDE DEF s, chain
  <2> QED BY <1>4, <2>1, <2>2
<1> HIDE DEF p
<1>6. entry # {} /\ ~(entry # {p.length} \/ IsInventoriedName(d, p.name) \/ chain.status = "bad")
  BY <1>2, <1>3, <1>4
<1>7. chain.status = "incomplete" \/ Len(chain.listed) < s
  BY <1>5
<1> QED BY <1>6, <1>7, Zenon DEF CommitCreate, p

(* The host calls and the outcome of a create. *)
CreateNew(d, n)     == OpenNew(d.io, n)

CreateFull(d, n, f) == PwriteSectors(CreateNew(d, n), d.pendingSectorWrites, n, f.data, Len(f.bytes), 0)

CreateFile0(n, f)   == [hostName |-> n, name |-> n, length |-> Len(f.bytes), dataSectors |-> <<>>, mapSectors |-> <<>>]

CreateBase(d, n, f) == [d EXCEPT !.io = CreateFull(d, n, f), !.files = Append(@, CreateFile0(n, f))]

Created(d, n, f) ==
    [Claimed(CreateBase(d, n, f), Len(d.files) + 1, f, Elems(f.maps) \cup Elems(f.data))
        EXCEPT !.pendingCreates = Without(@, {f.maps[1]})]

(* commitCreate, as its storage calls one after the other. *)
LEMMA CreateSteps ==
    ASSUME NEW d, NEW cat, NEW n, NEW f, CreateStaged(d, cat, n, f), Reads(d, f)
    PROVE  CommitCreate(d, f.maps[1]) =
             IF ~(Elems(f.data) \subseteq DOMAIN d.pendingSectorWrites) THEN d
             ELSE IF ~CreateNew(d, n).ok THEN Failed(d, CreateNew(d, n))
             ELSE IF ~CreateFull(d, n, f).ok THEN Failed(d, Unlink(CreateFull(d, n, f), n))
             ELSE Created(d, n, f)
<1> DEFINE m == f.maps[1]
           p == d.pendingCreates[m]
           entry == FinalizedEntry(d, m, p.name)
           chain == ReadMapChain(d, m, 0)
           s == SectorsFor(p.length)
           new   == OpenNew(d.io, p.name)
           full  == PwriteSectors(new, d.pendingSectorWrites, p.name, chain.listed, p.length, 0)
           file  == [hostName |-> p.name, name |-> p.name, length |-> p.length,
                     dataSectors |-> <<>>, mapSectors |-> <<>>]
           done  == Claim([d EXCEPT !.io = full, !.files = Append(@, file)], Len(d.files) + 1,
                          p.length, chain.maps, chain.listed)
           last  == [Forget(Settle(done), Elems(chain.maps) \cup Elems(chain.listed))
                        EXCEPT !.pendingCreates = Without(@, {m})]
           present == (Elems(chain.listed) \cap DOMAIN d.pendingSectorWrites) \ Elems(chain.maps)
<1>0. CommitCreate(d, m) =
        IF entry = {} THEN d
        ELSE IF entry # {p.length} \/ IsInventoriedName(d, p.name) \/ chain.status = "bad" THEN Fail(d)
        ELSE IF chain.status = "incomplete" \/ Len(chain.listed) < s THEN d
        ELSE IF Len(chain.listed) # s \/ Len(chain.maps) > s + 1 THEN Fail(d)
        ELSE IF Cardinality(present) < s THEN d
        ELSE IF ~new.ok THEN Failed(d, new)
        ELSE IF ~full.ok THEN Failed(d, Unlink(full, p.name))
        ELSE last
  BY DEF CommitCreate
<1>1. Sound(f) /\ p.name = n /\ p.length = Len(f.bytes)
  BY DEF CreateStaged, Fits
<1>2. entry = {p.length}
  BY <1>1, EntryIs DEF CreateStaged
<1>3. ~IsInventoriedName(d, p.name)
  BY <1>1, NoFile DEF CreateStaged
<1>4. chain = [maps |-> f.maps, listed |-> f.data, current |-> 0, status |-> "read"]
  BY <1>1, FileChain
<1>5. chain.status = "read" /\ chain.listed = f.data /\ chain.maps = f.maps
  BY <1>4
<1>6. s = Len(f.data) /\ Len(f.data) \in Nat /\ Len(f.maps) \in Nat /\ Len(f.maps) <= Len(f.data)
  BY <1>1, SoundFacts
<1>7. present \subseteq Elems(f.data) /\ (present = Elems(f.data) <=> Elems(f.data) \subseteq DOMAIN d.pendingSectorWrites)
  <2>1. Elems(f.data) \cap Elems(f.maps) = {}
    BY <1>1, SoundFacts
  <2> QED BY <1>5, <2>1
<1>8. Cardinality(present) < s <=> ~(Elems(f.data) \subseteq DOMAIN d.pendingSectorWrites)
  <2>1. f.data \in Seq(Sectors) /\ Distinct(f.data)
    BY <1>1, SoundFacts
  <2> HIDE DEF present, s
  <2> QED BY <1>6, <1>7, <2>1, CountedSectors
<1>9. new = CreateNew(d, n) /\ full = CreateFull(d, n, f) /\ file = CreateFile0(n, f)
  BY <1>1, <1>5 DEF CreateNew, CreateFull, CreateFile0
<1>10. last = Created(d, n, f)
  <2> HIDE DEF chain, p, full, file
  <2> QED BY <1>1, <1>5, <1>9, Zenon DEF Created, CreateBase, Claimed
<1> HIDE DEF p, entry, chain, s, new, full, file, done, last, present
<1>11. entry # {} /\ ~(entry # {p.length} \/ IsInventoriedName(d, p.name) \/ chain.status = "bad")
  BY <1>2, <1>3, <1>5
<1>12. ~(chain.status = "incomplete" \/ Len(chain.listed) < s) /\ ~(Len(chain.listed) # s \/ Len(chain.maps) > s + 1)
  BY <1>5, <1>6
<1>13. CommitCreate(d, m) =
        IF Cardinality(present) < s THEN d
        ELSE IF ~new.ok THEN Failed(d, new)
        ELSE IF ~full.ok THEN Failed(d, Unlink(full, p.name))
        ELSE last
  BY <1>0, <1>11, <1>12, Zenon
<1> HIDE DEF m
<1> QED BY <1>1, <1>8, <1>9, <1>10, <1>13 DEF m

(* e is laid out and reads like d. *)
Kept(d, e) ==
    /\ e.files = d.files /\ e.allocated = d.allocated /\ e.metadata = d.metadata /\ e.dataRefs = d.dataRefs
    /\ e.pendingSectorWrites = d.pendingSectorWrites /\ DOMAIN e.io.host = DOMAIN d.io.host

(* Layout, Reads and Linked are about what is Kept only. *)
LEMMA KeptIs ==
    ASSUME NEW d, NEW e, Kept(d, e)
    PROVE  /\ \A cat : Layout(d, cat) => Layout(e, cat)
           /\ \A f : Reads(d, f) => Reads(e, f)
           /\ \A s, f, todo : Linked(d, s, f, todo) => Linked(e, s, f, todo)
<1>1. \A cat : Layout(d, cat) => Layout(e, cat)
  BY DEF Kept, Layout, Live
<1>2. \A f : Reads(d, f) => Reads(e, f)
  BY DEF Kept, Reads, Value
<1>3. \A s, f, todo : Linked(d, s, f, todo) => Linked(e, s, f, todo)
  <2>1. \A s, f : Gap(d, s, f) => Gap(e, s, f)
    BY DEF Kept, Gap, Missing, Value
  <2> QED BY <1>2, <2>1 DEF Kept, Linked
<1> QED BY <1>1, <1>2, <1>3

(* The sectors of a file are those at its places. *)
LEMMA SectorsAt ==
    ASSUME NEW f, Sound(f)
    PROVE  /\ \A k \in 1 .. Len(f.maps) : f.maps[k] \in Elems(f.maps)
           /\ \A k \in 1 .. Len(f.data) : f.data[k] \in Elems(f.data)
           /\ \A x \in Elems(f.maps) : \E k \in 1 .. Len(f.maps) : f.maps[k] = x
           /\ \A x \in Elems(f.data) : \E k \in 1 .. Len(f.data) : f.data[k] = x
<1>1. f.maps \in Seq(Sectors) /\ f.data \in Seq(Sectors)
  BY SoundFacts
<1>2. /\ \A k \in 1 .. Len(f.maps) : f.maps[k] \in Elems(f.maps)
      /\ \A x \in Elems(f.maps) : \E k \in 1 .. Len(f.maps) : f.maps[k] = x
  BY <1>1, ElemsAre
<1>3. /\ \A k \in 1 .. Len(f.data) : f.data[k] \in Elems(f.data)
      /\ \A x \in Elems(f.data) : \E k \in 1 .. Len(f.data) : f.data[k] = x
  BY <1>1, ElemsAre
<1> QED BY <1>2, <1>3

(* What a file begins with is part of it. *)
LEMMA BeginsWithin ==
    ASSUME NEW s, Sound(s), NEW f, Sound(f), Begins(s, f)
    PROVE  Elems(s.data) \subseteq Elems(f.data) /\ Elems(s.maps) \subseteq Elems(f.maps)
<1>1. /\ Len(s.maps) \in Nat /\ Len(s.data) \in Nat /\ Len(f.maps) \in Nat /\ Len(f.data) \in Nat
  BY SoundFacts
<1>2. ASSUME NEW x \in Elems(s.data) PROVE x \in Elems(f.data)
  <2>1. PICK k \in 1 .. Len(s.data) : s.data[k] = x
    BY SectorsAt
  <2>2. k \in 1 .. Len(f.data) /\ f.data[k] = x
    BY <1>1, <2>1 DEF Begins
  <2> QED BY <2>2, SectorsAt
<1>3. ASSUME NEW x \in Elems(s.maps) PROVE x \in Elems(f.maps)
  <2>1. PICK k \in 1 .. Len(s.maps) : s.maps[k] = x
    BY SectorsAt
  <2>2. k \in 1 .. Len(f.maps) /\ f.maps[k] = x
    BY <1>1, <2>1 DEF Begins
  <2> QED BY <2>2, SectorsAt
<1> QED BY <1>2, <1>3

(* The overlay of e is a part of d's; nothing of it is about n's maps.      *)
Lasts(d, e) ==
    \A x \in DOMAIN e.pendingSectorWrites :
        x \in DOMAIN d.pendingSectorWrites /\ e.pendingSectorWrites[x] = d.pendingSectorWrites[x]
Unmapped(e, cat, n) == n \in DOMAIN cat => Elems(cat[n].maps) \cap DOMAIN e.pendingSectorWrites = {}

(* A commit's last steps make the file part of the layout. *)
LEMMA ClaimedLands ==
    ASSUME NEW d, Image(d), NEW g, Image(g), NEW cat, Catalogue(cat), Layout(d, cat), NEW n, NEW f,
           Fits(cat, n, f), n \in DOMAIN cat => cat[n].host = f.host /\ Begins(cat[n], f), Reads(d, f),
           g.allocated = d.allocated, g.metadata = d.metadata, g.dataRefs = d.dataRefs,
           g.directory = d.directory, g.pendingSectorWrites = d.pendingSectorWrites,
           NEW i \in DOMAIN g.files, g.files[i].hostName = f.host, g.files[i].name = n,
           DOMAIN g.files = DOMAIN d.files \cup {i},
           \A j \in DOMAIN d.files : j # i => g.files[j] = d.files[j],
           \/ i \in DOMAIN d.files /\ n \in DOMAIN cat /\ d.files[i] = Record(n, cat[n])
           \/ i \notin DOMAIN d.files /\ n \notin DOMAIN cat,
           DOMAIN g.io.host = DOMAIN d.io.host \cup {f.host}, NEW S
    PROVE  LET e == Claimed(g, i, f, S)
           IN  /\ Image(e) /\ Layout(e, Put(cat, n, f)) /\ Reads(e, f)
               /\ \A m \in DOMAIN cat \ {n} : Reads(d, cat[m]) => Reads(e, cat[m])
               /\ e.directory = d.directory /\ e.pendingCreates = g.pendingCreates
               /\ e.pendingAppends = g.pendingAppends /\ e.pendingReplacements = g.pendingReplacements
               /\ e.io = g.io /\ e.error = g.error /\ Lasts(d, e) /\ Unmapped(e, cat, n)
<1> DEFINE e == Claimed(g, i, f, S)
<1>0. Sound(f)
  BY DEF Fits
<1>1. \A m \in Elems(f.maps) : m \in Held(g)
  <2>1. \A m \in Elems(f.maps) : \E k \in 1 .. Len(f.maps) : f.maps[k] = m
    BY ONLY <1>0, SectorsAt
  <2> QED BY <2>1 DEF Reads, Held
<1>2. /\ Image(e) /\ e.allocated = g.allocated \cup Elems(f.data) \cup Elems(f.maps)
      /\ DOMAIN e.files = DOMAIN g.files /\ e.files[i] = Record(n, f)
      /\ \A j \in DOMAIN g.files : j # i => e.files[j] = g.files[j]
      /\ e.directory = g.directory /\ e.pendingCreates = g.pendingCreates
      /\ e.pendingAppends = g.pendingAppends /\ e.pendingReplacements = g.pendingReplacements
      /\ e.io = g.io /\ e.error = g.error
      /\ DOMAIN e.metadata = DOMAIN g.metadata \cup Elems(f.maps)
      /\ \A m \in DOMAIN g.metadata \cup Elems(f.maps) :
                e.metadata[m] = Value(g, m) /\ m \notin DOMAIN e.pendingSectorWrites
      /\ DOMAIN e.dataRefs = DOMAIN g.dataRefs \cup Elems(f.data)
      /\ \A k \in 1 .. Len(f.data) : e.dataRefs[f.data[k]] = [file |-> i, at |-> k]
      /\ \A x \in DOMAIN g.dataRefs \ Elems(f.data) : e.dataRefs[x] = g.dataRefs[x]
      /\ DOMAIN e.pendingSectorWrites = DOMAIN g.pendingSectorWrites \ (DOMAIN g.metadata \cup Elems(f.maps) \cup S)
      /\ \A x \in DOMAIN e.pendingSectorWrites : e.pendingSectorWrites[x] = g.pendingSectorWrites[x]
  BY <1>0, <1>1, ClaimedIs
<1> HIDE DEF e
<1>3. \A m \in DOMAIN d.metadata \cup Elems(f.maps) : m \in DOMAIN e.metadata /\ Value(e, m) = Value(d, m)
  BY <1>2 DEF Value
<1>4. Reads(e, f)
  <2>1. \A k \in 1 .. Len(f.maps) : f.maps[k] \in Elems(f.maps)
    BY <1>0, SectorsAt
  <2> QED BY <1>3, <2>1 DEF Reads
<1>5. ASSUME NEW m \in DOMAIN cat \ {n}, Reads(d, cat[m]) PROVE Reads(e, cat[m])
  <2>1. \A k \in 1 .. Len(cat[m].maps) : cat[m].maps[k] \in DOMAIN d.metadata
    <3>1. Sound(cat[m])
      BY DEF Catalogue
    <3>2. \A k \in 1 .. Len(cat[m].maps) : cat[m].maps[k] \in Elems(cat[m].maps)
      BY <3>1, SectorsAt
    <3> QED BY <3>2 DEF Layout
  <2> QED BY <1>3, <1>5, <2>1 DEF Reads
<1>6. n \in DOMAIN cat => Elems(cat[n].data) \subseteq Elems(f.data) /\ Elems(cat[n].maps) \subseteq Elems(f.maps)
  BY <1>0, BeginsWithin DEF Catalogue
<1>7. DataOf(cat, n) \subseteq Elems(f.data) /\ MapsOf(cat, n) \subseteq Elems(f.maps)
  BY <1>6 DEF DataOf, MapsOf
<1>8. e.allocated = DOMAIN e.dataRefs \cup DOMAIN e.metadata
  <2>1. d.allocated = DOMAIN d.dataRefs \cup DOMAIN d.metadata
    BY DEF Layout
  <2> QED BY <1>2, <2>1
<1>9. Lands(d, e, cat, n, f, i)
  <2>1. i \in DOMAIN e.files /\ e.files[i] = Record(n, f) /\ DOMAIN e.files = DOMAIN d.files \cup {i}
    BY <1>2
  <2>2. \A j \in DOMAIN d.files : j # i => e.files[j] = d.files[j]
    BY <1>2
  <2>3. DOMAIN e.dataRefs = (DOMAIN d.dataRefs \ DataOf(cat, n)) \cup Elems(f.data)
    BY <1>2, <1>7
  <2>4. DOMAIN e.metadata = (DOMAIN d.metadata \ MapsOf(cat, n)) \cup Elems(f.maps)
    BY <1>2, <1>7
  <2>5. /\ \A k \in 1 .. Len(f.data) : e.dataRefs[f.data[k]] = [file |-> i, at |-> k]
        /\ \A x \in DOMAIN d.dataRefs \ (DataOf(cat, n) \cup Elems(f.data)) : e.dataRefs[x] = d.dataRefs[x]
    BY <1>2
  <2>6. DOMAIN e.io.host = DOMAIN d.io.host \cup {f.host}
    BY <1>2
  <2> QED BY <1>8, <2>1, <2>2, <2>3, <2>4, <2>5, <2>6 DEF Lands
<1>10. Layout(e, Put(cat, n, f))
  BY <1>2, <1>9, Landed
<1>11. Lasts(d, e)
  BY <1>2 DEF Lasts
<1>12. Unmapped(e, cat, n)
  BY <1>2, <1>6 DEF Unmapped
<1> QED BY <1>2, <1>4, <1>5, <1>10, <1>11, <1>12 DEF e

(* g is d with the file i in place, its sectors still to be claimed. *)
Ready(d, g, cat, n, f, i) ==
    /\ Image(d) /\ Image(g) /\ Catalogue(cat) /\ Layout(d, cat) /\ Fits(cat, n, f) /\ Reads(d, f)
    /\ n \in DOMAIN cat => cat[n].host = f.host /\ Begins(cat[n], f)
    /\ g.allocated = d.allocated /\ g.metadata = d.metadata /\ g.dataRefs = d.dataRefs
    /\ g.directory = d.directory /\ g.pendingSectorWrites = d.pendingSectorWrites
    /\ i \in DOMAIN g.files /\ g.files[i].hostName = f.host /\ g.files[i].name = n
    /\ DOMAIN g.files = DOMAIN d.files \cup {i}
    /\ \A j \in DOMAIN d.files : j # i => g.files[j] = d.files[j]
    /\ \/ i \in DOMAIN d.files /\ n \in DOMAIN cat /\ d.files[i] = Record(n, cat[n])
       \/ i \notin DOMAIN d.files /\ n \notin DOMAIN cat
    /\ DOMAIN g.io.host = DOMAIN d.io.host \cup {f.host}

(* The same, from Ready. *)
LEMMA ReadyLands ==
    ASSUME NEW d, NEW g, NEW cat, NEW n, NEW f, NEW i, Ready(d, g, cat, n, f, i), NEW S
    PROVE  LET e == Claimed(g, i, f, S)
           IN  /\ Image(e) /\ Layout(e, Put(cat, n, f)) /\ Reads(e, f)
               /\ \A m \in DOMAIN cat \ {n} : Reads(d, cat[m]) => Reads(e, cat[m])
               /\ e.directory = d.directory /\ e.pendingCreates = g.pendingCreates
               /\ e.pendingAppends = g.pendingAppends /\ e.pendingReplacements = g.pendingReplacements
               /\ e.io = g.io /\ e.error = g.error /\ Lasts(d, e) /\ Unmapped(e, cat, n)
BY ClaimedLands DEF Ready

(* The outcomes of a commit: the file is there, or a storage call failed.  *)
Finished(d, e, cat, n, f) ==
    /\ Image(e) /\ e.error = FALSE /\ e.directory = d.directory /\ NoPending(e)
    /\ Layout(e, Put(cat, n, f)) /\ Reads(e, f)
    /\ \A m \in DOMAIN cat \ {n} : Reads(d, cat[m]) => Reads(e, cat[m])
    /\ Lasts(d, e) /\ Unmapped(e, cat, n)

Refused(d, e) == Same(d, e) /\ e.error = TRUE /\ d.io.fault > 0

(* Dropping the pending operation ends a commit. *)
LEMMA FinishedKept ==
    ASSUME NEW d, NEW t, NEW e, NEW cat, NEW n, NEW f, Image(e), NoPending(e), Kept(t, e),
           t.error = FALSE, e.error = t.error, t.directory = d.directory, e.directory = t.directory,
           Layout(t, Put(cat, n, f)), Reads(t, f),
           \A m \in DOMAIN cat \ {n} : Reads(d, cat[m]) => Reads(t, cat[m]),
           Lasts(d, t), Unmapped(t, cat, n)
    PROVE  Finished(d, e, cat, n, f)
<1>1. Lasts(d, e) /\ Unmapped(e, cat, n)
  BY DEF Kept, Lasts, Unmapped
<1> QED BY <1>1, KeptIs DEF Finished

(* A create whose storage calls succeed is laid out. *)
LEMMA CreatedIs ==
    ASSUME NEW d, NEW cat, NEW n, NEW f, CreateStaged(d, cat, n, f), d.error = FALSE,
           Only(d, {f.maps[1]}, {}, {}), Reads(d, f), Storage(CreateFull(d, n, f), DOMAIN d.io.host \cup {n})
    PROVE  Finished(d, Created(d, n, f), cat, n, f) /\ Created(d, n, f).io = CreateFull(d, n, f)
<1> DEFINE m == f.maps[1]
           H == DOMAIN d.io.host
           full == CreateFull(d, n, f)
<1>0. Image(d) /\ Catalogue(cat) /\ Layout(d, cat) /\ Fits(cat, n, f) /\ n \notin DOMAIN cat /\ f.host = n /\ Sound(f)
  BY DEF CreateStaged, Fits
<1> DEFINE F == Append(d.files, CreateFile0(n, f))
           i == Len(d.files) + 1
           g == [d EXCEPT !.io = full, !.files = F]
           t == Claimed(g, i, f, Elems(f.maps) \cup Elems(f.data))
           C == Without(d.pendingCreates, {m})
           e == [t EXCEPT !.pendingCreates = Without(@, {m})]
<1>1. Created(d, n, f) = e
  BY DEF Created, CreateBase
<1>2. Storage(full, H \cup {n})
  OBVIOUS
<1>3. g = Made(F, d.allocated, d.metadata, d.dataRefs, d.directory, d.pendingSectorWrites, d.pendingCreates,
               d.pendingAppends, d.pendingReplacements, full, d.error)
  <2> HIDE DEF F, full
  <2> QED BY <1>0, EditFile
<1> HIDE DEF g
<1>4. CreateFile0(n, f) \in FileRecs /\ CreateFile0(n, f).hostName = n /\ CreateFile0(n, f).name = n
  <2>1. n \in AllNames /\ n \in Paths
    BY <1>0 DEF Fits, Paths
  <2>2. Len(f.bytes) \in Nat
    BY <1>0, SoundFacts
  <2> QED BY <2>1, <2>2 DEF CreateFile0, FileRecs
<1>5. d.files \in Seq(FileRecs) /\ Len(d.files) \in Nat /\ DOMAIN d.files = 1 .. Len(d.files)
  BY <1>0 DEF Image
<1>6. /\ F \in Seq(FileRecs) /\ DOMAIN F = DOMAIN d.files \cup {i} /\ i \in DOMAIN F /\ i \notin DOMAIN d.files
      /\ F[i] = CreateFile0(n, f) /\ \A j \in DOMAIN d.files : F[j] = d.files[j]
  BY <1>4, <1>5
<1>7. /\ Image(g) /\ g.files = F /\ g.allocated = d.allocated /\ g.metadata = d.metadata /\ g.dataRefs = d.dataRefs
      /\ g.directory = d.directory /\ g.pendingSectorWrites = d.pendingSectorWrites
      /\ g.pendingCreates = d.pendingCreates /\ g.pendingAppends = d.pendingAppends
      /\ g.pendingReplacements = d.pendingReplacements /\ g.io = full /\ g.error = d.error
  <2>1. DOMAIN d.directory = 1 .. Slots /\ DOMAIN d.pendingSectorWrites \subseteq Sectors /\ d.error \in BOOLEAN
    BY <1>0 DEF Image
  <2>2. Storage(full, DOMAIN full.host)
    BY <1>2 DEF Storage
  <2> HIDE DEF F, full
  <2> QED BY <1>3, <1>6, <2>1, <2>2, MadeIs
<1>8. DOMAIN g.io.host = DOMAIN d.io.host \cup {f.host}
  BY <1>0, <1>2, <1>7 DEF Storage
<1>9. i \in DOMAIN g.files /\ g.files[i].hostName = f.host /\ g.files[i].name = n
      /\ DOMAIN g.files = DOMAIN d.files \cup {i} /\ \A j \in DOMAIN d.files : j # i => g.files[j] = d.files[j]
  BY <1>0, <1>4, <1>6, <1>7
<1> HIDE DEF i, F, full
<1>10. /\ Image(t) /\ Layout(t, Put(cat, n, f)) /\ Reads(t, f)
       /\ \A k \in DOMAIN cat \ {n} : Reads(d, cat[k]) => Reads(t, cat[k])
       /\ t.directory = d.directory /\ t.pendingCreates = g.pendingCreates
       /\ t.pendingAppends = g.pendingAppends /\ t.pendingReplacements = g.pendingReplacements
       /\ t.io = g.io /\ t.error = g.error /\ Lasts(d, t) /\ Unmapped(t, cat, n)
  BY <1>0, <1>6, <1>7, <1>8, <1>9, ClaimedLands
<1> HIDE DEF t
<1>11. e = [t EXCEPT !.pendingCreates = C]
  BY <1>7, <1>10
<1>12. DOMAIN C = {}
  <2>1. DOMAIN d.pendingCreates = {m}
    BY DEF Only
  <2>2. DOMAIN C = DOMAIN d.pendingCreates \ {m}
    BY WithoutIs
  <2> HIDE DEF C
  <2> QED BY <2>1, <2>2
<1> HIDE DEF C, e
<1>13. e = Made(t.files, t.allocated, t.metadata, t.dataRefs, t.directory, t.pendingSectorWrites, C, t.pendingAppends,
                t.pendingReplacements, t.io, t.error)
  BY <1>10, <1>11, EditCreates
<1>14. /\ e.files = t.files /\ e.allocated = t.allocated /\ e.metadata = t.metadata /\ e.dataRefs = t.dataRefs
       /\ e.directory = t.directory /\ e.pendingSectorWrites = t.pendingSectorWrites /\ e.pendingCreates = C
       /\ e.pendingAppends = t.pendingAppends /\ e.pendingReplacements = t.pendingReplacements /\ e.io = t.io
       /\ e.error = t.error /\ Image(e)
  <2>1. /\ t.files \in Seq(FileRecs) /\ DOMAIN t.directory = 1 .. Slots /\ DOMAIN t.pendingSectorWrites \subseteq Sectors
        /\ Storage(t.io, DOMAIN t.io.host) /\ t.error \in BOOLEAN
    BY <1>10, ImageStorage DEF Image
  <2> QED BY <1>13, <2>1, MadeIs
<1>15. NoPending(e)
  BY <1>7, <1>10, <1>12, <1>14 DEF NoPending, Only
<1>16. Kept(t, e)
  BY <1>14 DEF Kept
<1>17. Finished(d, e, cat, n, f)
  BY <1>7, <1>10, <1>14, <1>15, <1>16, FinishedKept
<1>18. Finished(d, e, cat, n, f) /\ e.io = full
  BY <1>7, <1>10, <1>14, <1>17
<1> QED BY <1>1, <1>18 DEF full

(* commitCreate with all its sectors there finishes, or a storage call     *)
(* failed.                                                                 *)
LEMMA CreateCommits ==
    ASSUME SdfsGuest, NEW d, NEW cat, NEW n, NEW f, CreateStaged(d, cat, n, f), d.error = FALSE,
           Only(d, {f.maps[1]}, {}, {}), Reads(d, f), Elems(f.data) \subseteq DOMAIN d.pendingSectorWrites
    PROVE  LET e == CommitCreate(d, f.maps[1])
           IN  Refused(d, e) \/ Finished(d, e, cat, n, f)
<1> DEFINE m == f.maps[1]
           H == DOMAIN d.io.host
           new == CreateNew(d, n)
           full == CreateFull(d, n, f)
           gone == Unlink(full, n)
<1>0. CommitCreate(d, m) = IF ~new.ok THEN Failed(d, new)
                           ELSE IF ~full.ok THEN Failed(d, gone)
                           ELSE Created(d, n, f)
  BY CreateSteps
<1>1. Image(d) /\ Catalogue(cat) /\ Layout(d, cat) /\ Fits(cat, n, f) /\ n \notin DOMAIN cat /\ f.host = n /\ Sound(f)
  BY DEF CreateStaged, Fits
<1>2. Storage(d.io, H)
  BY <1>1, ImageStorage
<1>3. n \notin H
  <2>1. \A k \in DOMAIN cat : cat[k].host # n
    BY <1>1 DEF Fits, Apart
  <2> QED BY <1>1, <2>1 DEF Layout
<1>4. /\ new.ok => Storage(new, H \cup {n})
      /\ ~new.ok => Storage(new, H) /\ d.io.fault = 1
      /\ d.io.fault = 0 => new.ok /\ new.fault = 0
  <2> HIDE DEF H
  <2> QED BY <1>2, <1>3, OpenNewIs DEF CreateNew
<1>5. /\ new.ok => Storage(full, H \cup {n})
      /\ new.ok /\ new.fault = 0 => full.ok
  <2>1. Len(f.data) \in Nat
    BY <1>1, SoundFacts
  <2> SUFFICES ASSUME new.ok PROVE Storage(full, H \cup {n}) /\ (new.fault = 0 => full.ok)
    OBVIOUS
  <2>2. Storage(new, H \cup {n}) /\ n \in H \cup {n}
    BY <1>4
  <2> HIDE DEF H, new
  <2>3. full = PwriteSectors(new, d.pendingSectorWrites, n, f.data, Len(f.bytes), 0)
    BY DEF CreateFull, new
  <2> HIDE DEF full
  <2> QED BY <2>1, <2>2, <2>3, PwriteSectorsIs
<1>6. new.ok => Storage(gone, H)
  <2> SUFFICES ASSUME new.ok PROVE Storage(gone, H)
    OBVIOUS
  <2>1. Storage(full, H \cup {n}) /\ n \in H \cup {n}
    BY <1>5
  <2>2. (H \cup {n}) \ {n} = H
    BY <1>3
  <2> HIDE DEF H, new, full
  <2>3. Storage(gone, (H \cup {n}) \ {n})
    BY <2>1, UnlinkIs
  <2> QED BY <2>2, <2>3
<1>7. CASE ~new.ok
  <2>1. Storage(new, H) /\ d.io.fault = 1
    BY <1>4, <1>7
  <2> HIDE DEF new
  <2>2. Same(d, Failed(d, new)) /\ Failed(d, new).error = TRUE
    BY <1>1, <2>1, FailedIs
  <2> QED BY <1>0, <1>7, <2>1, <2>2 DEF Refused
<1>8. CASE new.ok /\ ~full.ok
  <2>1. Storage(gone, H) /\ d.io.fault # 0
    BY <1>4, <1>5, <1>6, <1>8
  <2>2. d.io.fault > 0
    BY <1>2, <2>1 DEF Storage
  <2> HIDE DEF gone, new, full
  <2>3. Same(d, Failed(d, gone)) /\ Failed(d, gone).error = TRUE
    BY <1>1, <2>1, FailedIs
  <2> QED BY <1>0, <1>8, <2>2, <2>3 DEF Refused
<1>9. CASE new.ok /\ full.ok
  <2>1. Storage(full, H \cup {n})
    BY <1>5, <1>9
  <2>2. Finished(d, Created(d, n, f), cat, n, f)
    BY <2>1, CreatedIs
  <2> QED BY <1>0, <1>9, <2>2
<1>10. Refused(d, CommitCreate(d, m)) \/ Finished(d, CommitCreate(d, m), cat, n, f)
  BY <1>7, <1>8, <1>9
<1> QED BY <1>10

-----------------------------------------------------------------------------
(* Appending to a file. *)

(* What a sequence has after one that it begins with. *)
LEMMA Suffix ==
    ASSUME NEW S, NEW s \in Seq(S), NEW t \in Seq(S), Len(t) <= Len(s), Distinct(s),
           \A k \in 1 .. Len(t) : t[k] = s[k]
    PROVE  LET u == SubSeq(s, Len(t) + 1, Len(s))
           IN  /\ SubSeq(s, 1, Len(t)) = t /\ u \in Seq(S) /\ Len(u) = Len(s) - Len(t) /\ Distinct(u)
               /\ \A x \in Elems(u) : \E k \in Len(t) + 1 .. Len(s) : s[k] = x
               /\ \A k \in Len(t) + 1 .. Len(s) : s[k] \in Elems(u)
               /\ Elems(u) \subseteq Elems(s) /\ Elems(u) \cap Elems(t) = {}
<1> DEFINE u == SubSeq(s, Len(t) + 1, Len(s))
           a == Len(t)
           b == Len(s)
<1>1. a \in Nat /\ b \in Nat /\ a <= b
  OBVIOUS
<1>2. SubSeq(s, 1, a) = t
  <2>1. SubSeq(s, 1, a) \in Seq(S) /\ Len(SubSeq(s, 1, a)) = a /\ \A i \in 1 .. a : SubSeq(s, 1, a)[i] = s[i]
    BY <1>1, Prefixes
  <2> DEFINE p == SubSeq(s, 1, a)
  <2> HIDE DEF p
  <2>2. p \in Seq(S) /\ Len(p) = Len(t) /\ \A i \in 1 .. Len(t) : p[i] = t[i]
    BY <2>1 DEF p
  <2>3. p = t
    BY <2>2, SeqEqual
  <2> QED BY <2>3 DEF p
<1>3. u \in Seq(S) /\ Len(u) = b - a /\ \A k \in 1 .. b - a : u[k] = s[a + k]
  BY <1>1
<1> HIDE DEF u
<1>4. Distinct(u)
  <2> SUFFICES ASSUME NEW x \in 1 .. Len(u), NEW y \in 1 .. Len(u), u[x] = u[y] PROVE x = y
    BY DEF Distinct
  <2>0. x \in 1 .. b - a /\ y \in 1 .. b - a
    BY <1>3
  <2>3. u[x] = s[a + x] /\ u[y] = s[a + y]
    BY <1>3, <2>0
  <2> HIDE DEF a, b
  <2>4. x \in Int /\ y \in Int /\ a + x \in 1 .. b /\ a + y \in 1 .. b
    BY <1>1, <2>0
  <2> USE DEF a, b
  <2>1. x \in Int /\ y \in Int /\ a + x \in 1 .. b /\ a + y \in 1 .. b /\ s[a + x] = s[a + y]
    BY <2>3, <2>4
  <2>2. a + x = a + y
    BY <2>1 DEF Distinct
  <2> QED BY <1>1, <2>1, <2>2
<1>5. ASSUME NEW x \in Elems(u) PROVE \E k \in a + 1 .. b : s[k] = x
  <2>1. PICK k \in 1 .. Len(u) : u[k] = x
    BY <1>3, ElemsAre
  <2>2. a + k \in a + 1 .. b /\ s[a + k] = x
    BY <1>1, <1>3, <2>1
  <2> QED BY <2>2
<1>6. ASSUME NEW k \in a + 1 .. b PROVE s[k] \in Elems(u)
  <2>1. k - a \in 1 .. Len(u) /\ u[k - a] = s[k]
    BY <1>1, <1>3
  <2>2. u[k - a] \in Elems(u)
    BY <1>3, <2>1, ElemsAre
  <2> QED BY <2>1, <2>2
<1>7. Elems(u) \subseteq Elems(s)
  <2>1. \A k \in a + 1 .. b : k \in 1 .. Len(s)
    BY <1>1
  <2> QED BY <1>5, <2>1, ElemsAre
<1>8. ASSUME NEW x \in Elems(u), x \in Elems(t) PROVE FALSE
  <2>1. PICK k \in a + 1 .. b : s[k] = x
    BY <1>5
  <2>2. PICK l \in 1 .. a : t[l] = x
    <3>1. t \in Seq(S) /\ x \in Elems(t)
      BY <1>8
    <3> QED BY ONLY <3>1, ElemsAre DEF a
  <2>3. k \in 1 .. b /\ l \in 1 .. b /\ s[l] = x /\ k # l
    BY <1>1, <2>1, <2>2
  <2> QED BY <2>1, <2>3 DEF Distinct
<1> HIDE DEF a, b
<1> QED BY <1>2, <1>3, <1>4, <1>5, <1>6, <1>7, <1>8 DEF u, a, b

NewData(old, f) == SubSeq(f.data, Len(old.data) + 1, Len(f.data))

NewMaps(old, f) == SubSeq(f.maps, Len(old.maps) + 1, Len(f.maps))

TailOf(old)     == IF Len(old.bytes) % SectorSize = 0 THEN <<>> ELSE <<old.data[Len(old.data)]>>

(* What an append adds to a file. *)
LEMMA Additions ==
    ASSUME NEW old, Sound(old), NEW f, Sound(f), Begins(old, f)
    PROVE  /\ SubSeq(f.maps, 1, Len(old.maps)) = old.maps /\ SubSeq(f.data, 1, Len(old.data)) = old.data
           /\ NewData(old, f) \in Seq(Sectors) /\ Distinct(NewData(old, f))
           /\ Cardinality(Elems(NewData(old, f))) = Len(NewData(old, f))
           /\ \A x \in Elems(NewData(old, f)) : \E k \in Len(old.data) + 1 .. Len(f.data) : f.data[k] = x
           /\ \A k \in Len(old.data) + 1 .. Len(f.data) : f.data[k] \in Elems(NewData(old, f))
           /\ Elems(NewData(old, f)) \subseteq Elems(f.data) /\ Elems(NewMaps(old, f)) \subseteq Elems(f.maps)
           /\ Elems(NewData(old, f)) \cap Elems(f.maps) = {}
           /\ (Elems(NewMaps(old, f)) \cup Elems(NewData(old, f))) \cap SectorsOf(old) = {}
           /\ TailOf(old) \in Seq(Sectors)
           /\ Len(TailOf(old) \o NewData(old, f)) \in Nat
<1>1. /\ f.maps \in Seq(Sectors) /\ f.data \in Seq(Sectors) /\ Distinct(f.maps) /\ Distinct(f.data)
      /\ old.maps \in Seq(Sectors) /\ old.data \in Seq(Sectors) /\ Elems(f.maps) \cap Elems(f.data) = {}
      /\ Len(old.data) \in Nat \ {0}
  BY SoundFacts
<1>2. /\ Len(old.maps) <= Len(f.maps) /\ Len(old.data) <= Len(f.data)
      /\ \A i \in 1 .. Len(old.maps) : old.maps[i] = f.maps[i]
      /\ \A k \in 1 .. Len(old.data) : old.data[k] = f.data[k]
  BY DEF Begins
<1>3. /\ SubSeq(f.data, 1, Len(old.data)) = old.data
      /\ NewData(old, f) \in Seq(Sectors) /\ Distinct(NewData(old, f))
      /\ \A x \in Elems(NewData(old, f)) : \E k \in Len(old.data) + 1 .. Len(f.data) : f.data[k] = x
      /\ \A k \in Len(old.data) + 1 .. Len(f.data) : f.data[k] \in Elems(NewData(old, f))
      /\ Elems(NewData(old, f)) \subseteq Elems(f.data) /\ Elems(NewData(old, f)) \cap Elems(old.data) = {}
  <2> DEFINE s == f.data
             t == old.data
             u == SubSeq(s, Len(t) + 1, Len(s))
  <2>1. /\ s \in Seq(Sectors) /\ t \in Seq(Sectors) /\ Len(t) <= Len(s) /\ Distinct(s)
        /\ \A k \in 1 .. Len(t) : t[k] = s[k]
    BY <1>1, <1>2
  <2>2. NewData(old, f) = u
    BY DEF NewData
  <2> HIDE DEF s, t
  <2>3. /\ SubSeq(s, 1, Len(t)) = t /\ u \in Seq(Sectors) /\ Len(u) = Len(s) - Len(t) /\ Distinct(u)
        /\ \A x \in Elems(u) : \E k \in Len(t) + 1 .. Len(s) : s[k] = x
        /\ \A k \in Len(t) + 1 .. Len(s) : s[k] \in Elems(u)
        /\ Elems(u) \subseteq Elems(s) /\ Elems(u) \cap Elems(t) = {}
    BY ONLY <2>1, Suffix, Zenon
  <2> HIDE DEF u
  <2> QED BY <2>2, <2>3, Zenon DEF s, t
<1>4. /\ SubSeq(f.maps, 1, Len(old.maps)) = old.maps
      /\ Elems(NewMaps(old, f)) \subseteq Elems(f.maps) /\ Elems(NewMaps(old, f)) \cap Elems(old.maps) = {}
  BY <1>1, <1>2, Suffix DEF NewMaps
<1>5. Cardinality(Elems(NewData(old, f))) = Len(NewData(old, f))
  BY <1>3, CountedSectors
<1>6. Elems(old.data) \subseteq Elems(f.data) /\ Elems(old.maps) \subseteq Elems(f.maps)
  BY BeginsWithin
<1>7. (Elems(NewMaps(old, f)) \cup Elems(NewData(old, f))) \cap SectorsOf(old) = {}
  BY <1>1, <1>3, <1>4, <1>6 DEF SectorsOf
<1>8. TailOf(old) \in Seq(Sectors)
  <2>1. old.data[Len(old.data)] \in Sectors
    BY <1>1
  <2> QED BY <2>1 DEF TailOf
<1>9. Len(TailOf(old) \o NewData(old, f)) \in Nat
  BY <1>3, <1>8
<1> QED BY <1>1, <1>3, <1>4, <1>5, <1>7, <1>8, <1>9

(* An append whose directory entry is there. *)
AppendNoted(d, old, o, i) ==
    \E b \in BOOLEAN : d.pendingAppends[o.file.maps[1]] = PendingAppend(old, o, i, b)

AppendStaged(d, cat, o, i) ==
    LET f == o.file
        n == o.name
        old == cat[n]
    IN  /\ Image(d) /\ Catalogue(cat) /\ Layout(d, cat) /\ Fits(cat, n, f) /\ n \in DOMAIN cat
        /\ old.host = f.host /\ Begins(old, f) /\ Len(old.bytes) < Len(f.bytes)
        /\ Alone(d, f.slot, n) /\ d.directory[f.slot] = EntryOf(n, f)
        /\ DOMAIN d.pendingAppends = {f.maps[1]}
        /\ i \in DOMAIN d.files /\ d.files[i] = Record(n, old) /\ AppendNoted(d, old, o, i)

(* What a pending append remembers. *)
LEMMA NotedIs ==
    ASSUME NEW d, NEW old, NEW o, NEW i, AppendNoted(d, old, o, i)
    PROVE  LET p == d.pendingAppends[o.file.maps[1]]
           IN  /\ p.file = i /\ p.name = old.host /\ p.oldLength = Len(old.bytes)
               /\ p.newLength = Len(o.file.bytes) /\ p.oldData = old.data /\ p.oldMaps = old.maps
BY DEF AppendNoted, PendingAppend

(* The next of the map sectors that a longer file needs, or nothing new. *)
LEMMA SameSectors ==
    ASSUME NEW old, Sound(old), NEW f, Sound(f), Begins(old, f), ~(Len(old.data) < Len(f.data))
    PROVE  old.data = f.data /\ old.maps = f.maps
<1>1. /\ f.maps \in Seq(Sectors) /\ f.data \in Seq(Sectors) /\ old.maps \in Seq(Sectors) /\ old.data \in Seq(Sectors)
      /\ Len(old.maps) = MapsFor(Len(old.data)) /\ Len(f.maps) = MapsFor(Len(f.data))
  BY SoundFacts
<1>2. Len(old.data) = Len(f.data)
  BY <1>1 DEF Begins
<1>3. Len(old.maps) = Len(f.maps)
  BY <1>1, <1>2
<1>4. old.data = f.data
  BY <1>1, <1>2, SeqEqual DEF Begins
<1>5. old.maps = f.maps
  BY <1>1, <1>3, SeqEqual DEF Begins
<1> QED BY <1>4, <1>5

(* An append whose maps do not list its new data yet, or link to one that  *)
(* is missing, waits.                                                      *)
LEMMA AppendWaits ==
    ASSUME NEW d, NEW cat, NEW o, NEW i, AppendStaged(d, cat, o, i),
           \/ Reads(d, cat[o.name]) /\ Len(cat[o.name].data) < Len(o.file.data)
           \/ Gap(d, cat[o.name], o.file)
    PROVE  CommitAppend(d, o.file.maps[1]) = d
<1> DEFINE m == o.file.maps[1]
           old == cat[o.name]
           p == d.pendingAppends[m]
           f == d.files[p.file]
           chain == ReadMapChain(d, m, Len(p.oldMaps))
           s == SectorsFor(p.newLength)
<1>1. Sound(o.file) /\ Sound(old)
  BY DEF AppendStaged, Fits, Catalogue
<1>2. /\ p.file = i /\ p.name = old.host /\ p.oldLength = Len(old.bytes)
      /\ p.newLength = Len(o.file.bytes) /\ p.oldData = old.data /\ p.oldMaps = old.maps
  <2>1. AppendNoted(d, old, o, i)
    BY DEF AppendStaged
  <2> QED BY ONLY <2>1, NotedIs
<1>3. f.hostName = p.name /\ f.length = p.oldLength /\ f.mapSectors = p.oldMaps /\ f.dataSectors = p.oldData
  BY <1>1, <1>2, RecordIs DEF AppendStaged
<1>4. m = old.maps[1]
  <2>1. Len(old.maps) \in Nat \ {0}
    BY <1>1, SoundFacts
  <2> QED BY <2>1 DEF AppendStaged, Begins
<1>0. CASE Gap(d, old, o.file)
  <2>1. Len(old.maps) \in Nat \ {0}
    BY <1>1, SoundFacts
  <2> DEFINE known == Len(p.oldMaps)
  <2>2. known \in 0 .. Len(old.maps)
    BY <1>2, <2>1
  <2> HIDE DEF known, old, p
  <2>3. ReadMapChain(d, m, known).status = "incomplete"
    BY <1>0, <1>1, <2>1, <2>2, GapChain
  <2>4. chain.status = "incomplete"
    BY <2>3 DEF known
  <2> HIDE DEF chain
  <2>5. ~(\/ f.hostName # p.name \/ f.length # p.oldLength
          \/ f.mapSectors # p.oldMaps \/ f.dataSectors # p.oldData \/ chain.status = "bad")
    BY <1>3, <2>4
  <2> HIDE DEF f, s
  <2> QED BY <2>4, <2>5, Zenon DEF CommitAppend, p, f, s, chain
<1> SUFFICES ASSUME Reads(d, old) /\ Len(old.data) < Len(o.file.data) PROVE CommitAppend(d, m) = d
  BY <1>0
<1>5. chain.status = "read" /\ chain.listed = old.data
  <2> DEFINE known == Len(p.oldMaps)
  <2> HIDE DEF known, old, p, m
  <2>1. ReadMapChain(d, old.maps[1], known) = [maps |-> old.maps, listed |-> old.data, current |-> 0, status |-> "read"]
    BY <1>1, FileChain DEF old
  <2>2. chain = ReadMapChain(d, m, known)
    BY DEF known
  <2> HIDE DEF chain
  <2> QED BY <1>4, <2>1, <2>2
<1>6. s = Len(o.file.data)
  BY <1>1, <1>2, SoundFacts
<1>7. Len(chain.listed) < s
  BY <1>5, <1>6
<1> HIDE DEF chain, p, f, s
<1>8. ~(\/ f.hostName # p.name \/ f.length # p.oldLength
        \/ f.mapSectors # p.oldMaps \/ f.dataSectors # p.oldData \/ chain.status = "bad")
  BY <1>3, <1>5
<1>9. chain.status = "incomplete" \/ Len(chain.listed) < s
  BY <1>7
<1> QED BY <1>8, <1>9, Zenon DEF CommitAppend, p, f, s, chain

(* The image once the append knows whether it has new data. *)
WithNote(d, m, u) == [d EXCEPT !.pendingAppends[m].hasData = u # <<>>]

(* Noting that the data is listed changes nothing else. *)
LEMMA WithNoteIs ==
    ASSUME NEW d, Image(d), NEW old, NEW o, NEW i, AppendNoted(d, old, o, i),
           DOMAIN d.pendingAppends = {o.file.maps[1]}, NEW u
    PROVE  LET e == WithNote(d, o.file.maps[1], u)
           IN  /\ Image(e) /\ Kept(d, e) /\ e.directory = d.directory /\ e.pendingCreates = d.pendingCreates
               /\ e.pendingReplacements = d.pendingReplacements /\ e.io = d.io /\ e.error = d.error
               /\ DOMAIN e.pendingAppends = {o.file.maps[1]} /\ AppendNoted(e, old, o, i)
<1> DEFINE m == o.file.maps[1]
           g == d.pendingAppends
           C == [g EXCEPT ![m].hasData = u # <<>>]
           e == WithNote(d, m, u)
<1>1. e = [d EXCEPT !.pendingAppends = C]
  BY DEF WithNote
<1>2. DOMAIN C = {m}
  OBVIOUS
<1>3. \E b \in BOOLEAN : C[m] = PendingAppend(old, o, i, b)
  <2>1. PICK b \in BOOLEAN : g[m] = PendingAppend(old, o, i, b)
    BY DEF AppendNoted
  <2>2. \A c : [g[m] EXCEPT !.hasData = c] = PendingAppend(old, o, i, c)
    BY <2>1 DEF PendingAppend
  <2>3. C[m] = [g[m] EXCEPT !.hasData = u # <<>>]
    OBVIOUS
  <2>4. C[m] = PendingAppend(old, o, i, u # <<>>)
    <3> HIDE DEF C, g, m
    <3>1. [g[m] EXCEPT !.hasData = (u # <<>>)] = PendingAppend(old, o, i, (u # <<>>))
      BY ONLY <2>2, Zenon
    <3> QED BY <2>3, <3>1
  <2>5. (u # <<>>) \in BOOLEAN
    OBVIOUS
  <2> QED BY <2>4, <2>5
<1> HIDE DEF C, e
<1>4. e = Made(d.files, d.allocated, d.metadata, d.dataRefs, d.directory, d.pendingSectorWrites, d.pendingCreates,
               C, d.pendingReplacements, d.io, d.error)
  BY <1>1, EditAppends
<1>5. /\ d.files \in Seq(FileRecs) /\ DOMAIN d.directory = 1 .. Slots /\ DOMAIN d.pendingSectorWrites \subseteq Sectors
      /\ Storage(d.io, DOMAIN d.io.host) /\ d.error \in BOOLEAN
  BY ImageStorage DEF Image
<1>6. /\ e.files = d.files /\ e.allocated = d.allocated /\ e.metadata = d.metadata /\ e.dataRefs = d.dataRefs
      /\ e.directory = d.directory /\ e.pendingSectorWrites = d.pendingSectorWrites
      /\ e.pendingCreates = d.pendingCreates /\ e.pendingAppends = C
      /\ e.pendingReplacements = d.pendingReplacements /\ e.io = d.io /\ e.error = d.error /\ Image(e)
  BY <1>4, <1>5, MadeIs
<1>7. AppendNoted(e, old, o, i)
  BY <1>3, <1>6 DEF AppendNoted
<1>8. Kept(d, e)
  BY <1>6 DEF Kept
<1> QED BY <1>2, <1>6, <1>7, <1>8 DEF e

(* The host calls and the outcome of an append. *)
AppendOpen(d, f)      == Open(d.io, f.host)

AppendFull(d, old, f) ==
    PwriteSectors(AppendOpen(d, f), d.pendingSectorWrites, f.host, TailOf(old) \o NewData(old, f), Len(f.bytes),
                  Len(old.bytes) \div SectorSize)

Extended(d, old, f, i) ==
    [Claimed([d EXCEPT !.io = AppendFull(d, old, f)], i, f,
             Elems(f.maps) \cup Elems(NewData(old, f)) \cup Elems(TailOf(old)))
        EXCEPT !.pendingAppends = Without(@, {f.maps[1]})]

(* commitAppend, as its storage calls one after the other. *)
LEMMA AppendSteps ==
    ASSUME NEW d, NEW cat, NEW o, NEW i, AppendStaged(d, cat, o, i), Reads(d, o.file)
    PROVE  LET f   == o.file
               old == cat[o.name]
               e   == WithNote(d, f.maps[1], NewData(old, f))
           IN  CommitAppend(d, f.maps[1]) =
                 IF ~(Elems(NewData(old, f)) \subseteq DOMAIN e.pendingSectorWrites) THEN d
                 ELSE IF ~(Elems(TailOf(old)) \subseteq DOMAIN e.pendingSectorWrites) THEN e
                 ELSE IF ~AppendOpen(e, f).ok THEN Failed(e, AppendOpen(e, f))
                 ELSE IF ~AppendFull(e, old, f).ok
                      THEN Failed(e, Truncate(AppendFull(e, old, f), f.host, Len(old.bytes)))
                 ELSE Extended(e, old, f, i)
<1> DEFINE ff      == o.file
           old     == cat[o.name]
           m       == ff.maps[1]
           p       == d.pendingAppends[m]
           f       == d.files[p.file]
           chain   == ReadMapChain(d, m, Len(p.oldMaps))
           s       == SectorsFor(p.newLength)
           newMaps == SubSeq(chain.maps, Len(p.oldMaps) + 1, Len(chain.maps))
           newData == SubSeq(chain.listed, Len(p.oldData) + 1, Len(chain.listed))
           e       == [d EXCEPT !.pendingAppends[m].hasData = newData # <<>>]
           entry   == FinalizedEntry(e, m, f.name)
           tail    == IF p.oldLength % SectorSize = 0 THEN <<>> ELSE <<p.oldData[Len(p.oldData)]>>
           from    == p.oldLength \div SectorSize
           opened  == Open(e.io, f.hostName)
           full    == PwriteSectors(opened, e.pendingSectorWrites, f.hostName, tail \o newData, p.newLength, from)
           last    == [Forget(Settle(Claim([e EXCEPT !.io = full], p.file, p.newLength, chain.maps, chain.listed)),
                         Elems(chain.maps) \cup Elems(newData) \cup Elems(tail))
                          EXCEPT !.pendingAppends = Without(@, {m})]
           bad1    == \/ f.hostName # p.name \/ f.length # p.oldLength
                      \/ f.mapSectors # p.oldMaps \/ f.dataSectors # p.oldData \/ chain.status = "bad"
           wait1   == chain.status = "incomplete" \/ Len(chain.listed) < s
           bad2    == \/ SubSeq(chain.maps, 1, Len(p.oldMaps)) # p.oldMaps
                      \/ SubSeq(chain.listed, 1, Len(p.oldData)) # p.oldData
                      \/ Len(chain.listed) # s \/ Elems(newData) \cap Elems(chain.maps) # {}
                      \/ Cardinality(Elems(newData)) # Len(newData)
           bad3    == newData # <<>> /\ (Elems(newMaps) \cup Elems(newData)) \cap e.allocated # {}
<1>0. CommitAppend(d, m) =
        IF bad1 THEN Fail(d)
        ELSE IF wait1 THEN d
        ELSE IF bad2 THEN Fail(d)
        ELSE IF ~(Elems(newData) \subseteq DOMAIN e.pendingSectorWrites) THEN d
        ELSE IF entry = {} THEN e
        ELSE IF entry # {p.newLength} THEN Fail(e)
        ELSE IF ~(Elems(tail) \subseteq DOMAIN e.pendingSectorWrites) THEN e
        ELSE IF bad3 THEN Fail(e)
        ELSE IF ~opened.ok THEN Failed(e, opened)
        ELSE IF ~full.ok THEN Failed(e, Truncate(full, f.hostName, p.oldLength))
        ELSE last
  BY DEF CommitAppend
<1>1. Sound(ff) /\ Sound(old) /\ Begins(old, ff) /\ old.host = ff.host /\ Image(d)
  BY DEF AppendStaged, Fits, Catalogue
<1>2. /\ p.file = i /\ p.name = old.host /\ p.oldLength = Len(old.bytes)
      /\ p.newLength = Len(ff.bytes) /\ p.oldData = old.data /\ p.oldMaps = old.maps
  <2>1. AppendNoted(d, old, o, i)
    BY DEF AppendStaged
  <2> QED BY ONLY <2>1, NotedIs
<1>3. f.hostName = p.name /\ f.length = p.oldLength /\ f.mapSectors = p.oldMaps /\ f.dataSectors = p.oldData
      /\ f.name = o.name
  BY <1>1, <1>2, RecordIs DEF AppendStaged
<1>4. chain.status = "read" /\ chain.listed = ff.data /\ chain.maps = ff.maps
  <2> DEFINE known == Len(p.oldMaps)
  <2> HIDE DEF known, ff, p
  <2>1. ReadMapChain(d, ff.maps[1], known) = [maps |-> ff.maps, listed |-> ff.data, current |-> 0, status |-> "read"]
    BY <1>1, FileChain DEF ff
  <2>2. chain = ReadMapChain(d, ff.maps[1], known)
    BY DEF known
  <2> HIDE DEF chain
  <2> QED BY <2>1, <2>2
<1>5. newData = NewData(old, ff) /\ newMaps = NewMaps(old, ff) /\ tail = TailOf(old) /\ from = Len(old.bytes) \div SectorSize
  <2> HIDE DEF chain, p
  <2> QED BY <1>2, <1>4 DEF NewData, NewMaps, TailOf
<1>6. s = Len(ff.data) /\ Len(ff.data) \in Nat
  BY <1>1, <1>2, SoundFacts
<1> HIDE DEF chain, newData, newMaps, tail, from, s
<1>7. e = WithNote(d, m, NewData(old, ff))
  BY <1>5 DEF WithNote
<1>8. /\ Kept(d, e) /\ e.directory = d.directory /\ e.io = d.io /\ Image(e)
  <2>1. AppendNoted(d, old, o, i) /\ DOMAIN d.pendingAppends = {o.file.maps[1]}
    BY DEF AppendStaged
  <2> DEFINE u == NewData(old, ff)
  <2> HIDE DEF e, u, old
  <2>2. e = WithNote(d, o.file.maps[1], u)
    BY <1>7 DEF u
  <2> QED BY <1>1, <2>1, <2>2, WithNoteIs
<1> HIDE DEF e, old, ff, p
<1>9. ~bad1 /\ ~wait1
  BY <1>3, <1>4, <1>6
<1>10. ~bad2
  <2>1. /\ SubSeq(ff.maps, 1, Len(old.maps)) = old.maps /\ SubSeq(ff.data, 1, Len(old.data)) = old.data
        /\ Cardinality(Elems(NewData(old, ff))) = Len(NewData(old, ff))
        /\ Elems(NewData(old, ff)) \cap Elems(ff.maps) = {}
    BY <1>1, Additions
  <2> QED BY <1>2, <1>4, <1>5, <1>6, <2>1
<1>11. entry = {p.newLength}
  <2>1. Alone(e, ff.slot, o.name) /\ e.directory[ff.slot] = EntryOf(o.name, ff)
    BY <1>8 DEF AppendStaged, Alone, ff
  <2>2. FinalizedEntry(e, ff.maps[1], o.name) = {Len(ff.bytes)}
    BY <1>1, <2>1, EntryIs
  <2> QED BY <1>2, <1>3, <2>2
<1>12. ~bad3
  <2>1. (Elems(NewMaps(old, ff)) \cup Elems(NewData(old, ff))) \cap SectorsOf(old) = {}
    BY <1>1, Additions
  <2>2. Elems(NewMaps(old, ff)) \cup Elems(NewData(old, ff)) \subseteq SectorsOf(ff)
    BY <1>1, Additions DEF SectorsOf
  <2>3. \A k \in DOMAIN cat \ {o.name} : SectorsOf(ff) \cap SectorsOf(cat[k]) = {}
    BY DEF AppendStaged, Fits, Apart, ff
  <2>4. \A x \in d.allocated : \E k \in DOMAIN cat : x \in SectorsOf(cat[k])
    BY DEF AppendStaged, Layout, SectorsOf
  <2>5. (Elems(NewMaps(old, ff)) \cup Elems(NewData(old, ff))) \cap d.allocated = {}
    BY <2>1, <2>2, <2>3, <2>4 DEF old
  <2> QED BY <1>5, <1>8, <2>5 DEF Kept
<1>13. opened = AppendOpen(e, ff)
  BY <1>1, <1>2, <1>3 DEF AppendOpen
<1>14. full = AppendFull(e, old, ff)
  <2> HIDE DEF opened
  <2> QED BY <1>1, <1>2, <1>3, <1>5, <1>13 DEF AppendFull
<1> HIDE DEF opened, full
<1>15. last = Extended(e, old, ff, i)
  BY <1>2, <1>4, <1>5, <1>14, Zenon DEF Extended, Claimed, m
<1>16. Truncate(full, f.hostName, p.oldLength) = Truncate(AppendFull(e, old, ff), ff.host, Len(old.bytes))
  BY <1>1, <1>2, <1>3, <1>14
<1> HIDE DEF bad1, wait1, bad2, bad3, entry, last, f
<1>17. entry # {} /\ ~(entry # {p.newLength})
  BY <1>11
<1>18. CommitAppend(d, m) =
        IF ~(Elems(newData) \subseteq DOMAIN e.pendingSectorWrites) THEN d
        ELSE IF ~(Elems(tail) \subseteq DOMAIN e.pendingSectorWrites) THEN e
        ELSE IF ~opened.ok THEN Failed(e, opened)
        ELSE IF ~full.ok THEN Failed(e, Truncate(full, f.hostName, p.oldLength))
        ELSE last
  BY ONLY <1>0, <1>9, <1>10, <1>12, <1>17, Zenon
<1>19. CommitAppend(d, m) =
        IF ~(Elems(NewData(old, ff)) \subseteq DOMAIN e.pendingSectorWrites) THEN d
        ELSE IF ~(Elems(TailOf(old)) \subseteq DOMAIN e.pendingSectorWrites) THEN e
        ELSE IF ~AppendOpen(e, ff).ok THEN Failed(e, AppendOpen(e, ff))
        ELSE IF ~AppendFull(e, old, ff).ok THEN Failed(e, Truncate(AppendFull(e, old, ff), ff.host, Len(old.bytes)))
        ELSE Extended(e, old, ff, i)
  BY ONLY <1>5, <1>13, <1>14, <1>15, <1>16, <1>18
<1>20. QED
  BY <1>7, <1>19, Zenon DEF ff, old, m

(* What an append that waits or is refused leaves of the image. *)
StillAppending(d, e, old, o, i) ==
    /\ Image(e) /\ Kept(d, e) /\ e.directory = d.directory /\ e.pendingCreates = d.pendingCreates
    /\ e.pendingReplacements = d.pendingReplacements
    /\ DOMAIN e.pendingAppends = {o.file.maps[1]} /\ AppendNoted(e, old, o, i)

(* StillAppending is about Same only. *)
LEMMA SameAppending ==
    ASSUME NEW d, NEW e, NEW g, NEW old, NEW o, NEW i, StillAppending(d, e, old, o, i), Same(e, g)
    PROVE  StillAppending(d, g, old, o, i)
BY DEF StillAppending, Same, Kept, AppendNoted

(* An append with the sectors that wait for it noted; when its storage     *)
(* calls succeed, it is laid out.                                          *)
Hinted(d, old, f) == WithNote(d, f.maps[1], NewData(old, f))
LEMMA ExtendedIs ==
    ASSUME NEW d, NEW cat, NEW o, NEW i, AppendStaged(d, cat, o, i), d.error = FALSE,
           Only(d, {}, {o.file.maps[1]}, {}), Reads(d, o.file),
           Storage(AppendFull(Hinted(d, cat[o.name], o.file), cat[o.name], o.file), DOMAIN d.io.host)
    PROVE  LET g == Hinted(d, cat[o.name], o.file)
               e == Extended(g, cat[o.name], o.file, i)
           IN  Finished(d, e, cat, o.name, o.file) /\ e.io = AppendFull(g, cat[o.name], o.file)
<1> DEFINE f == o.file
           m == f.maps[1]
           n == o.name
           old == cat[n]
           H == DOMAIN d.io.host
           g == Hinted(d, old, f)
           full == AppendFull(g, old, f)
<1>a. /\ Image(d) /\ Catalogue(cat) /\ Layout(d, cat) /\ Fits(cat, n, f) /\ n \in DOMAIN cat /\ Sound(f)
      /\ Sound(old) /\ Begins(old, f) /\ old.host = f.host /\ AppendNoted(d, old, o, i)
      /\ DOMAIN d.pendingAppends = {o.file.maps[1]} /\ i \in DOMAIN d.files /\ d.files[i] = Record(n, old)
  BY DEF AppendStaged, Fits, Catalogue
<1>b. /\ Image(g) /\ Kept(d, g) /\ g.directory = d.directory /\ g.pendingCreates = d.pendingCreates
      /\ g.pendingReplacements = d.pendingReplacements /\ g.io = d.io /\ g.error = d.error
      /\ DOMAIN g.pendingAppends = {o.file.maps[1]} /\ AppendNoted(g, old, o, i)
  <2> DEFINE u == NewData(old, f)
  <2> HIDE DEF u, old, g
  <2>1. g = WithNote(d, o.file.maps[1], u)
    BY DEF u, g, Hinted
  <2> QED BY ONLY <1>a, <2>1, WithNoteIs
<1>c. Storage(full, H)
  OBVIOUS
<1>e. DOMAIN g.io.host = H
  BY <1>b DEF Kept
<1>h. f.host \in H
  BY <1>a DEF Layout
<1> DEFINE h == [g EXCEPT !.io = full]
           S == Elems(f.maps) \cup Elems(NewData(old, f)) \cup Elems(TailOf(old))
           t == Claimed(h, i, f, S)
           C == Without(t.pendingAppends, {m})
           e == [t EXCEPT !.pendingAppends = C]
<1>1. Extended(g, old, f, i) = e
  BY DEF Extended
<1>2. Same(g, h) /\ h.io = full /\ h.error = g.error
  BY <1>b, <1>c, <1>e, WithIo
<1> HIDE DEF h, S, g, full, H, old, f, n, m
<1>3. /\ Image(h) /\ h.files = d.files /\ h.allocated = d.allocated /\ h.metadata = d.metadata
      /\ h.dataRefs = d.dataRefs /\ h.directory = d.directory
      /\ h.pendingSectorWrites = d.pendingSectorWrites /\ h.pendingCreates = d.pendingCreates
      /\ h.pendingReplacements = d.pendingReplacements /\ h.error = d.error
      /\ DOMAIN h.io.host = DOMAIN d.io.host \cup {f.host}
      /\ DOMAIN h.pendingAppends = {m}
  BY <1>b, <1>h, <1>2 DEF Same, Kept, H, m, f
<1>4. i \in DOMAIN h.files /\ h.files[i].hostName = f.host /\ h.files[i].name = n
      /\ DOMAIN h.files = DOMAIN d.files \cup {i}
  BY <1>a, <1>3, RecordIs
<1>5. n \in DOMAIN cat => cat[n].host = f.host /\ Begins(cat[n], f)
  BY <1>a DEF old
<1>6. Reads(d, f) /\ d.files[i] = Record(n, cat[n]) /\ \A j \in DOMAIN d.files : j # i => h.files[j] = d.files[j]
  BY <1>a, <1>3 DEF f, old
<1>7. /\ Image(t) /\ Layout(t, Put(cat, n, f)) /\ Reads(t, f)
      /\ \A k \in DOMAIN cat \ {n} : Reads(d, cat[k]) => Reads(t, cat[k])
      /\ t.directory = d.directory /\ t.pendingCreates = h.pendingCreates
      /\ t.pendingAppends = h.pendingAppends /\ t.pendingReplacements = h.pendingReplacements
      /\ t.io = h.io /\ t.error = h.error /\ Lasts(d, t) /\ Unmapped(t, cat, n)
  <2>1. Image(d) /\ Catalogue(cat) /\ Layout(d, cat) /\ Fits(cat, n, f)
    BY <1>a
  <2>2. \/ i \in DOMAIN d.files /\ n \in DOMAIN cat /\ d.files[i] = Record(n, cat[n])
        \/ i \notin DOMAIN d.files /\ n \notin DOMAIN cat
    BY <1>a, <1>6
  <2>3. Ready(d, h, cat, n, f, i)
    BY <2>1, <2>2, <1>3, <1>4, <1>5, <1>6 DEF Ready
  <2> QED BY <2>3, ReadyLands
<1> HIDE DEF t
<1>8. DOMAIN C = {}
  <2>1. DOMAIN C = DOMAIN t.pendingAppends \ {m}
    BY WithoutIs
  <2> HIDE DEF C
  <2> QED BY <1>3, <1>7, <2>1
<1> HIDE DEF C, e
<1>9. e = Made(t.files, t.allocated, t.metadata, t.dataRefs, t.directory, t.pendingSectorWrites, t.pendingCreates,
               C, t.pendingReplacements, t.io, t.error)
  BY <1>7, EditAppends DEF e
<1>10. /\ e.files = t.files /\ e.allocated = t.allocated /\ e.metadata = t.metadata /\ e.dataRefs = t.dataRefs
       /\ e.directory = t.directory /\ e.pendingSectorWrites = t.pendingSectorWrites
       /\ e.pendingCreates = t.pendingCreates
       /\ e.pendingAppends = C /\ e.pendingReplacements = t.pendingReplacements /\ e.io = t.io
       /\ e.error = t.error /\ Image(e)
  <2>1. /\ t.files \in Seq(FileRecs) /\ DOMAIN t.directory = 1 .. Slots
        /\ DOMAIN t.pendingSectorWrites \subseteq Sectors
        /\ Storage(t.io, DOMAIN t.io.host) /\ t.error \in BOOLEAN
    BY <1>7, ImageStorage DEF Image
  <2> QED BY <1>9, <2>1, MadeIs
<1>11. NoPending(e)
  BY <1>3, <1>7, <1>8, <1>10 DEF NoPending, Only
<1>12. Kept(t, e)
  BY <1>10 DEF Kept
<1>13. Finished(d, e, cat, n, f)
  BY <1>3, <1>7, <1>10, <1>11, <1>12, FinishedKept
<1>14. Finished(d, e, cat, n, f) /\ e.io = full
  BY <1>2, <1>7, <1>10, <1>13
<1> QED BY <1>1, <1>14 DEF g, full, f, n, old

(* commitAppend with its maps there waits for data, finishes, or a storage *)
(* call failed.                                                            *)
LEMMA AppendCommits ==
    ASSUME NEW d, NEW cat, NEW o, NEW i, AppendStaged(d, cat, o, i), d.error = FALSE,
           Only(d, {}, {o.file.maps[1]}, {}), Reads(d, o.file)
    PROVE  LET e   == CommitAppend(d, o.file.maps[1])
               old == cat[o.name]
           IN  \/ StillAppending(d, e, old, o, i) /\ e.error = TRUE /\ d.io.fault > 0
               \/ /\ StillAppending(d, e, old, o, i) /\ e.error = FALSE /\ e.io = d.io
                  /\ ~(Elems(NewData(old, o.file)) \cup Elems(TailOf(old)) \subseteq DOMAIN d.pendingSectorWrites)
               \/ Finished(d, e, cat, o.name, o.file)
<1> DEFINE f == o.file
           m == f.maps[1]
           n == o.name
           old == cat[n]
           H == DOMAIN d.io.host
           g == WithNote(d, m, NewData(old, f))
           new == AppendOpen(g, f)
           full == AppendFull(g, old, f)
           cut == Truncate(full, f.host, Len(old.bytes))
           r == CommitAppend(d, m)
<1>0. r = IF ~(Elems(NewData(old, f)) \subseteq DOMAIN g.pendingSectorWrites) THEN d
          ELSE IF ~(Elems(TailOf(old)) \subseteq DOMAIN g.pendingSectorWrites) THEN g
          ELSE IF ~new.ok THEN Failed(g, new)
          ELSE IF ~full.ok THEN Failed(g, cut)
          ELSE Extended(g, old, f, i)
  BY AppendSteps
<1>1. /\ Image(d) /\ Catalogue(cat) /\ Layout(d, cat) /\ Fits(cat, n, f) /\ n \in DOMAIN cat /\ Sound(f)
      /\ Sound(old) /\ Begins(old, f) /\ old.host = f.host /\ AppendNoted(d, old, o, i)
      /\ DOMAIN d.pendingAppends = {o.file.maps[1]} /\ i \in DOMAIN d.files /\ d.files[i] = Record(n, old)
  BY DEF AppendStaged, Fits, Catalogue
<1>2. /\ Image(g) /\ Kept(d, g) /\ g.directory = d.directory /\ g.pendingCreates = d.pendingCreates
      /\ g.pendingReplacements = d.pendingReplacements /\ g.io = d.io /\ g.error = d.error
      /\ DOMAIN g.pendingAppends = {o.file.maps[1]} /\ AppendNoted(g, old, o, i)
  <2> DEFINE u == NewData(old, f)
  <2> HIDE DEF u, old
  <2> QED BY <1>1, WithNoteIs
<1>3. StillAppending(d, g, old, o, i) /\ StillAppending(d, d, old, o, i)
  BY <1>1, <1>2 DEF StillAppending, Kept
<1>4. Storage(g.io, H)
  BY <1>1, <1>2, ImageStorage
<1>5. f.host \in H
  BY <1>1 DEF Layout
<1> HIDE DEF g, H, old, f, r, n
<1>6. Storage(new, H) /\ (d.io.fault = 0 => new.ok /\ new.fault = 0)
  BY <1>2, <1>4, <1>5, OpenIs DEF AppendOpen
<1>7. Storage(full, H) /\ (new.fault = 0 => full.ok)
  <2> HIDE DEF new
  <2>1. Len(TailOf(old) \o NewData(old, f)) \in Nat
    BY <1>1, Additions
  <2> DEFINE s == TailOf(old) \o NewData(old, f)
             l == Len(f.bytes)
             k == Len(old.bytes) \div SectorSize
             w == g.pendingSectorWrites
  <2>2. full = PwriteSectors(new, w, f.host, s, l, k)
    BY DEF AppendFull, new
  <2> HIDE DEF full, s, l, k, w
  <2> QED BY <1>5, <1>6, <2>1, <2>2, PwriteSectorsIs DEF s
<1>8. Storage(cut, H)
  <2> DEFINE l == Len(old.bytes)
  <2> HIDE DEF full, l
  <2> QED BY <1>5, <1>7, TruncateIs
<1>9. d.io.fault # 0 => d.io.fault > 0
  BY <1>1 DEF Image
<1> HIDE DEF new, full, cut, m
<1>10. CASE ~(Elems(NewData(old, f)) \subseteq DOMAIN g.pendingSectorWrites)
  <2>1. r = d
    BY <1>0, <1>10
  <2>2. g.pendingSectorWrites = d.pendingSectorWrites
    BY <1>2 DEF Kept
  <2> QED BY <1>3, <1>10, <2>1, <2>2 DEF r, m, f, n, old
<1>11. CASE /\ Elems(NewData(old, f)) \subseteq DOMAIN g.pendingSectorWrites
            /\ ~(Elems(TailOf(old)) \subseteq DOMAIN g.pendingSectorWrites)
  <2>1. r = g
    BY <1>0, <1>11
  <2>2. g.pendingSectorWrites = d.pendingSectorWrites
    BY <1>2 DEF Kept
  <2> QED BY <1>2, <1>3, <1>11, <2>1, <2>2 DEF r, m, f, n, old
<1>12. CASE Elems(NewData(old, f)) \cup Elems(TailOf(old)) \subseteq DOMAIN g.pendingSectorWrites
  <2>0. r = IF ~new.ok THEN Failed(g, new) ELSE IF ~full.ok THEN Failed(g, cut) ELSE Extended(g, old, f, i)
    BY <1>0, <1>12
  <2>1. DOMAIN g.io.host = H
    BY <1>4 DEF Storage
  <2>2. CASE ~new.ok
    <3>1. Same(g, Failed(g, new)) /\ Failed(g, new).error = TRUE
      BY <1>2, <1>6, <2>1, FailedIs
    <3>2. d.io.fault > 0
      BY <1>6, <1>9, <2>2
    <3>3. StillAppending(d, r, old, o, i) /\ r.error = TRUE
      BY <1>3, <2>0, <2>2, <3>1, SameAppending
    <3> QED BY <3>2, <3>3 DEF r, m, f, n, old
  <2>3. CASE new.ok /\ ~full.ok
    <3>1. Same(g, Failed(g, cut)) /\ Failed(g, cut).error = TRUE
      BY <1>2, <1>8, <2>1, FailedIs
    <3>2. d.io.fault > 0
      BY <1>6, <1>7, <1>9, <2>3
    <3>3. StillAppending(d, r, old, o, i) /\ r.error = TRUE
      BY <1>3, <2>0, <2>3, <3>1, SameAppending
    <3> QED BY <3>2, <3>3 DEF r, m, f, n, old
  <2>4. CASE new.ok /\ full.ok
    <3>1. Finished(d, Extended(g, old, f, i), cat, n, f)
      BY <1>7, ExtendedIs DEF Hinted, g, full, old, f, n, m, H
    <3> QED BY <2>0, <2>4, <3>1 DEF r, m, f, n, old
  <2> QED BY <2>2, <2>3, <2>4
<1> QED BY <1>10, <1>11, <1>12

-----------------------------------------------------------------------------
(* Replacing a file. *)

(* A replacement that was begun. *)
ReplaceStaged(d, cat, o, i) ==
    LET f == o.file
        n == o.name
        old == cat[n]
    IN  /\ Image(d) /\ Catalogue(cat) /\ Layout(d, cat) /\ Fits(cat, n, f) /\ n \in DOMAIN cat
        /\ old.host = f.host /\ Begins(f, old)
        /\ Alone(d, f.slot, n) /\ DOMAIN d.pendingReplacements = {f.maps[1]}
        /\ i \in DOMAIN d.files /\ d.files[i] = Record(n, old)
        /\ d.pendingReplacements[f.maps[1]] = [file |-> i, name |-> old.host]

(* What a pending replacement remembers. *)
LEMMA ReplaceFacts ==
    ASSUME NEW d, NEW cat, NEW o, NEW i, ReplaceStaged(d, cat, o, i)
    PROVE  LET p == d.pendingReplacements[o.file.maps[1]]
               old == cat[o.name]
           IN  /\ Sound(o.file) /\ Sound(old) /\ p.file = i /\ p.name = old.host
               /\ d.files[i].hostName = old.host /\ d.files[i].name = o.name
               /\ d.files[i].mapSectors = old.maps /\ d.files[i].dataSectors = old.data
               /\ d.files[i].mapSectors # <<>> /\ d.files[i].mapSectors[1] = o.file.maps[1]
<1> DEFINE old == cat[o.name]
           p == d.pendingReplacements[o.file.maps[1]]
           f == d.files[i]
<1>1. Sound(o.file) /\ Sound(old)
  BY DEF ReplaceStaged, Fits, Catalogue
<1>2. p.file = i /\ p.name = old.host
  BY DEF ReplaceStaged
<1>3. /\ f.hostName = old.host /\ f.name = o.name /\ f.mapSectors = old.maps /\ f.dataSectors = old.data
      /\ f.mapSectors # <<>>
  BY <1>1, <1>2, RecordIs DEF ReplaceStaged
<1>4. old.maps[1] = o.file.maps[1]
  <2>1. Len(o.file.maps) \in Nat \ {0}
    BY <1>1, SoundFacts
  <2> QED BY <2>1 DEF ReplaceStaged, Begins
<1> HIDE DEF p, f, old
<1> QED BY <1>1, <1>2, <1>3, <1>4 DEF p, f, old

(* The maps of a replacement are those of the old file: none is missing.   *)
LEMMA ReplaceNoGap ==
    ASSUME NEW d, NEW cat, NEW o, NEW i, ReplaceStaged(d, cat, o, i), NEW s, Len(s.maps) \in Nat
    PROVE  ~Gap(d, s, o.file)
<1> DEFINE f == o.file
           old == cat[o.name]
<1>1. /\ Sound(f) /\ Sound(old) /\ o.name \in DOMAIN cat /\ Layout(d, cat) /\ Begins(f, old)
  BY DEF ReplaceStaged, Fits, Catalogue
<1> HIDE DEF f, old
<1>2. Len(f.maps) \in Nat /\ Len(old.maps) \in Nat /\ \A k \in 1 .. Len(old.maps) : old.maps[k] \in Elems(old.maps)
  BY <1>1, SoundFacts, ElemsAre
<1>3. ASSUME NEW k \in 1 .. Len(f.maps) PROVE f.maps[k] \in DOMAIN d.metadata
  <2>1. k \in 1 .. Len(old.maps) /\ f.maps[k] = old.maps[k]
    BY <1>1, <1>2 DEF Begins
  <2>2. Elems(old.maps) \subseteq DOMAIN d.metadata
    BY <1>1 DEF Layout, old
  <2> QED BY <1>2, <2>1, <2>2
<1>4. ASSUME NEW k \in Len(s.maps) + 1 .. Len(f.maps) PROVE ~Missing(d, f, k)
  <2>1. k \in 1 .. Len(f.maps)
    BY <1>2
  <2> QED BY <1>3, <2>1 DEF Missing
<1> QED BY <1>4 DEF Gap, f

(* A replacement waits for the closed directory entry. *)
LEMMA ReplaceOpened ==
    ASSUME NEW d, NEW cat, NEW o, NEW i, ReplaceStaged(d, cat, o, i),
           d.directory[o.file.slot] = Opened(o.name, o.file)
    PROVE  CommitReplacement(d, o.file.maps[1]) = d
<1> DEFINE m == o.file.maps[1]
           p == d.pendingReplacements[m]
           f == d.files[p.file]
           entry == FinalizedEntry(d, m, f.name)
<1>1. /\ Sound(o.file) /\ ~(f.hostName # p.name \/ f.mapSectors = <<>> \/ f.mapSectors[1] # m)
      /\ f.name = o.name
  <2>1. /\ Sound(o.file) /\ p.file = i /\ p.name = cat[o.name].host
        /\ d.files[i].hostName = cat[o.name].host /\ d.files[i].name = o.name
        /\ d.files[i].mapSectors # <<>> /\ d.files[i].mapSectors[1] = m
    BY ReplaceFacts
  <2> HIDE DEF p, m
  <2> QED BY <2>1
<1>2. entry = {}
  <2>1. o.file.slot \in 1 .. Slots /\ Alone(d, o.file.slot, o.name)
    BY <1>1, SoundFacts DEF ReplaceStaged
  <2>2. d.directory[o.file.slot].status # "active"
    BY DEF Opened
  <2> QED BY <1>1, <2>1, <2>2, FinalizedIs
<1> HIDE DEF p, f, entry
<1> QED BY <1>1, <1>2, Zenon DEF CommitReplacement, p, f, entry

(* A replacement whose map is still empty waits. *)
LEMMA ReplaceWaits ==
    ASSUME NEW d, NEW cat, NEW o, NEW i, ReplaceStaged(d, cat, o, i),
           d.directory[o.file.slot] = EntryOf(o.name, o.file), Reads(d, Bare(o.file.maps[1]))
    PROVE  CommitReplacement(d, o.file.maps[1]) = d
<1> DEFINE m == o.file.maps[1]
           p == d.pendingReplacements[m]
           f == d.files[p.file]
           entry == FinalizedEntry(d, m, f.name)
           length == CHOOSE l \in entry : TRUE
           n == SectorsFor(length)
           chain == ReadMapChain(d, m, Len(f.mapSectors))
<1>1. /\ Sound(o.file) /\ ~(f.hostName # p.name \/ f.mapSectors = <<>> \/ f.mapSectors[1] # m)
      /\ f.name = o.name
  <2>1. /\ Sound(o.file) /\ p.file = i /\ p.name = cat[o.name].host
        /\ d.files[i].hostName = cat[o.name].host /\ d.files[i].name = o.name
        /\ d.files[i].mapSectors # <<>> /\ d.files[i].mapSectors[1] = m
    BY ReplaceFacts
  <2> HIDE DEF p, m
  <2> QED BY <2>1
<1>2. entry = {Len(o.file.bytes)}
  <2>1. Alone(d, o.file.slot, o.name)
    BY DEF ReplaceStaged
  <2>2. FinalizedEntry(d, o.file.maps[1], o.name) = {Len(o.file.bytes)}
    <3> DEFINE g == o.file
    <3>1. Sound(g) /\ Alone(d, g.slot, o.name) /\ d.directory[g.slot] = EntryOf(o.name, g)
      BY <1>1, <2>1
    <3> HIDE DEF g
    <3>2. FinalizedEntry(d, g.maps[1], o.name) = {Len(g.bytes)}
      BY <3>1, EntryIs
    <3> QED BY <3>2 DEF g
  <2>3. f.name = o.name
    BY <1>1
  <2> HIDE DEF f
  <2> QED BY <2>2, <2>3
<1>3. chain.status = "read" /\ chain.listed = <<>>
  <2> DEFINE known == Len(f.mapSectors)
  <2> HIDE DEF known
  <2>1. m \in Sectors
    BY <1>1, SoundFacts
  <2>2. Reads(d, [maps |-> <<m>>, data |-> <<>>])
    BY DEF Bare
  <2> HIDE DEF m
  <2>3. ReadMapChain(d, m, known) = [maps |-> <<m>>, listed |-> <<>>, current |-> 0, status |-> "read"]
    BY <2>1, <2>2, StartChain
  <2>4. chain = ReadMapChain(d, m, known)
    BY DEF known
  <2> HIDE DEF chain
  <2> QED BY <2>3, <2>4
<1>4. Len(chain.listed) < n
  <2>1. length = Len(o.file.bytes)
    <3> HIDE DEF entry
    <3> QED BY <1>2
  <2>2. n = Len(o.file.data) /\ Len(o.file.data) \in Nat \ {0}
    BY <1>1, <2>1, SoundFacts
  <2>3. Len(<<>>) = 0
    OBVIOUS
  <2> HIDE DEF n, chain
  <2> QED BY <1>3, <2>2, <2>3
<1>5. ~(f.hostName # p.name \/ f.mapSectors = <<>> \/ f.mapSectors[1] # m) /\ entry # {} /\ ~(chain.status = "bad")
      /\ (chain.status = "incomplete" \/ Len(chain.listed) < n)
  BY <1>1, <1>2, <1>3, <1>4
<1> HIDE DEF p, f, entry, length, n, chain
<1> QED BY <1>5, Zenon DEF CommitReplacement, p, f, entry, length, n, chain

(* The host calls of a replacement and its outcome. *)
ReplaceBytes(d, f) ==
    [j \in 1 .. Len(f.bytes) |-> d.pendingSectorWrites[f.data[SectorsFor(j)]][((j - 1) % SectorSize) + 1]]

ReplaceOpen(d, h)  == Open(d.io, h)

ReplaceRead(d, h)  == Call(ReplaceOpen(d, h), "pread", TRUE)

ReplaceCut(d, h)   == Truncate(ReplaceRead(d, h), h, 0)

ReplaceNew(d, h)   == Open(ReplaceCut(d, h), h)

ReplaceFull(d, f)  == Pwrite(ReplaceNew(d, f.host), f.host, ReplaceBytes(d, f), 0)

ReplaceAgain(d, f) == Open(Truncate(ReplaceFull(d, f), f.host, 0), f.host)

ReplaceUndo(d, f)  ==
    IF ReplaceAgain(d, f).ok THEN Pwrite(ReplaceAgain(d, f), f.host, ReplaceRead(d, f.host).host[f.host], 0)
    ELSE Truncate(ReplaceFull(d, f), f.host, 0)

LostData(old, f)   == Elems(old.data) \ Elems(f.data)

LostMaps(old, f)   == Elems(old.maps) \ Elems(f.maps)

ReplaceBase(d, old, f) ==
    [d EXCEPT !.io = ReplaceFull(d, f), !.allocated = @ \ (LostData(old, f) \cup LostMaps(old, f)),
              !.dataRefs = Without(@, LostData(old, f)), !.metadata = Without(@, LostMaps(old, f))]

Replaced(d, old, f, i) ==
    [Forget(Claim(ReplaceBase(d, old, f), i, Len(f.bytes), f.maps, f.data),
            LostData(old, f) \cup LostMaps(old, f) \cup (Elems(f.data) \cup Elems(f.maps)))
        EXCEPT !.pendingReplacements = Without(@, {f.maps[1]})]

(* commitReplacement, as its storage calls one after the other. *)
LEMMA ReplaceSteps ==
    ASSUME NEW d, NEW cat, NEW o, NEW i, ReplaceStaged(d, cat, o, i),
           d.directory[o.file.slot] = EntryOf(o.name, o.file), Reads(d, o.file)
    PROVE  LET f == o.file
               old == cat[o.name]
               h == f.host
           IN  CommitReplacement(d, f.maps[1]) =
                 IF ~(Elems(f.data) \subseteq DOMAIN d.pendingSectorWrites) THEN d
                 ELSE IF ~ReplaceOpen(d, h).ok THEN Failed(d, ReplaceOpen(d, h))
                 ELSE IF ~ReplaceRead(d, h).ok THEN Failed(d, ReplaceRead(d, h))
                 ELSE IF ~ReplaceCut(d, h).ok THEN Failed(d, ReplaceCut(d, h))
                 ELSE IF ~ReplaceNew(d, h).ok THEN Failed(d, ReplaceNew(d, h))
                 ELSE IF ~ReplaceFull(d, f).ok THEN Failed(d, ReplaceUndo(d, f))
                 ELSE Replaced(d, old, f, i)
<1> DEFINE ff     == o.file
           oo     == cat[o.name]
           m      == ff.maps[1]
           p      == d.pendingReplacements[m]
           f      == d.files[p.file]
           h      == f.hostName
           entry  == FinalizedEntry(d, m, f.name)
           length == CHOOSE l \in entry : TRUE
           n      == SectorsFor(length)
           chain  == ReadMapChain(d, m, Len(f.mapSectors))
           claims == Elems(chain.listed) \cup Elems(chain.maps)
           bytes  == [j \in 1 .. length |->
                        d.pendingSectorWrites[chain.listed[SectorsFor(j)]][((j - 1) % SectorSize) + 1]]
           old    == Open(d.io, h)
           read   == Call(old, "pread", TRUE)
           cut    == Truncate(read, h, 0)
           new    == Open(cut, h)
           full   == Pwrite(new, h, bytes, 0)
           again  == Open(Truncate(full, h, 0), h)
           lostData == Elems(f.dataSectors) \ Elems(chain.listed)
           lostMaps == Elems(f.mapSectors) \ Elems(chain.maps)
           undo   == IF again.ok THEN Pwrite(again, h, read.host[h], 0) ELSE Truncate(full, h, 0)
           last   == [Forget(Claim([d EXCEPT !.io = full, !.allocated = @ \ (lostData \cup lostMaps),
                                     !.dataRefs = Without(@, lostData),
                                     !.metadata = Without(@, lostMaps)],
                           p.file, length, chain.maps, chain.listed), lostData \cup lostMaps \cup claims)
                        EXCEPT !.pendingReplacements = Without(@, {m})]
           bad1   == h # p.name \/ f.mapSectors = <<>> \/ f.mapSectors[1] # m
           wait1  == chain.status = "incomplete" \/ Len(chain.listed) < n
           wait2  == \E x \in claims \cap DOMAIN d.dataRefs : d.dataRefs[x].file # p.file
<1>0. CommitReplacement(d, m) =
        IF bad1 THEN Fail(d)
        ELSE IF entry = {} THEN d
        ELSE IF chain.status = "bad" THEN Fail(d)
        ELSE IF wait1 THEN d
        ELSE IF Len(chain.listed) # n THEN Fail(d)
        ELSE IF ~(Elems(chain.listed) \subseteq DOMAIN d.pendingSectorWrites) THEN d
        ELSE IF wait2 THEN d
        ELSE IF ~old.ok THEN Failed(d, old)
        ELSE IF ~read.ok THEN Failed(d, read)
        ELSE IF ~cut.ok THEN Failed(d, cut)
        ELSE IF ~new.ok THEN Failed(d, new)
        ELSE IF ~full.ok THEN Failed(d, undo)
        ELSE last
  BY DEF CommitReplacement
<1>1. /\ Sound(ff) /\ Sound(oo) /\ p.file = i /\ p.name = oo.host /\ h = oo.host /\ f.name = o.name
      /\ f.mapSectors = oo.maps /\ f.dataSectors = oo.data /\ ~bad1
  <2>1. /\ Sound(ff) /\ Sound(oo) /\ p.file = i /\ p.name = oo.host
        /\ d.files[i].hostName = oo.host /\ d.files[i].name = o.name
        /\ d.files[i].mapSectors = oo.maps /\ d.files[i].dataSectors = oo.data
        /\ d.files[i].mapSectors # <<>> /\ d.files[i].mapSectors[1] = m
    BY ReplaceFacts
  <2> HIDE DEF p, m, oo, ff
  <2> QED BY <2>1
<1>2. oo.host = ff.host /\ Begins(ff, oo)
  BY DEF ReplaceStaged
<1>3. entry = {Len(ff.bytes)}
  <2>1. Alone(d, ff.slot, o.name)
    BY DEF ReplaceStaged
  <2>4. d.directory[ff.slot] = EntryOf(o.name, ff)
    OBVIOUS
  <2>2. FinalizedEntry(d, ff.maps[1], o.name) = {Len(ff.bytes)}
    <3> HIDE DEF ff
    <3> QED BY <1>1, <2>1, <2>4, EntryIs
  <2>3. f.name = o.name
    BY <1>1
  <2> HIDE DEF f
  <2> QED BY <2>2, <2>3
<1>4. length = Len(ff.bytes)
  <2> HIDE DEF entry
  <2> QED BY <1>3
<1>5. n = Len(ff.data) /\ Len(ff.data) \in Nat
  BY <1>1, <1>4, SoundFacts
<1>6. chain.status = "read" /\ chain.listed = ff.data /\ chain.maps = ff.maps
  <2> DEFINE known == Len(f.mapSectors)
  <2> HIDE DEF known, ff, p
  <2>1. ReadMapChain(d, ff.maps[1], known) = [maps |-> ff.maps, listed |-> ff.data, current |-> 0, status |-> "read"]
    BY <1>1, FileChain DEF ff
  <2>2. chain = ReadMapChain(d, ff.maps[1], known)
    BY DEF known
  <2> HIDE DEF chain
  <2> QED BY <2>1, <2>2
<1> HIDE DEF chain, n, length
<1>7. ~(entry = {}) /\ ~(chain.status = "bad") /\ ~wait1 /\ ~(Len(chain.listed) # n)
  <2>1. entry # {}
    <3> HIDE DEF entry
    <3> QED BY <1>3
  <2>2. ~(chain.status = "bad") /\ ~(chain.status = "incomplete")
    BY <1>6
  <2>3. Len(chain.listed) = n /\ ~(Len(chain.listed) < n)
    <3> HIDE DEF ff
    <3> QED BY <1>5, <1>6
  <2> QED BY <2>1, <2>2, <2>3
<1>8. ~wait2
  <2>1. /\ Elems(ff.data) \subseteq Elems(oo.data) /\ Elems(ff.maps) \subseteq Elems(oo.maps)
    BY <1>1, <1>2, BeginsWithin
  <2>2. \A x \in Elems(oo.data) : d.dataRefs[x].file = i
    <3>1. d.files[i].dataSectors = oo.data /\ i \in DOMAIN d.files
      BY <1>1 DEF ReplaceStaged
    <3>2. \A k \in 1 .. Len(oo.data) : d.dataRefs[oo.data[k]] = [file |-> i, at |-> k]
      <4> HIDE DEF oo
      <4> QED BY <3>1 DEF ReplaceStaged, Layout
    <3>3. \A x \in Elems(oo.data) : \E k \in 1 .. Len(oo.data) : oo.data[k] = x
      <4>1. Sound(oo)
        BY <1>1
      <4> HIDE DEF oo
      <4> QED BY ONLY <4>1, SectorsAt
    <3> HIDE DEF oo
    <3> TAKE x \in Elems(oo.data)
    <3>4. PICK k \in 1 .. Len(oo.data) : oo.data[k] = x
      BY <3>3
    <3>5. d.dataRefs[x] = [file |-> i, at |-> k]
      BY <3>2, <3>4
    <3> QED BY <3>5
  <2>3. Elems(oo.maps) \cap DOMAIN d.dataRefs = {}
    <3>1. \A k \in DOMAIN cat : Elems(oo.maps) \cap Elems(cat[k].data) = {}
      <4> TAKE k \in DOMAIN cat
      <4>1. o.name \in DOMAIN cat /\ Catalogue(cat)
        BY DEF ReplaceStaged
      <4>2. CASE k = o.name
        BY <4>1, <4>2 DEF Catalogue, Sound
      <4>3. CASE k # o.name
        BY <4>1, <4>3 DEF Catalogue, Apart, SectorsOf
      <4> QED BY <4>2, <4>3
    <3> QED BY <3>1 DEF ReplaceStaged, Layout
  <2> QED BY <1>1, <1>6, <2>1, <2>2, <2>3
<1>9. h = ff.host
  BY <1>1, <1>2
<1> HIDE DEF h, bad1, wait1, wait2, entry
<1>10. bytes = ReplaceBytes(d, ff)
  BY <1>4, <1>6 DEF ReplaceBytes
<1> HIDE DEF bytes
<1>11. old = ReplaceOpen(d, ff.host)
  BY <1>9 DEF ReplaceOpen
<1> HIDE DEF old
<1>12. read = ReplaceRead(d, ff.host)
  BY <1>11 DEF ReplaceRead
<1> HIDE DEF read
<1>13. cut = ReplaceCut(d, ff.host)
  BY <1>9, <1>12 DEF ReplaceCut
<1> HIDE DEF cut
<1>14. new = ReplaceNew(d, ff.host)
  BY <1>9, <1>13 DEF ReplaceNew
<1> HIDE DEF new
<1>15. full = ReplaceFull(d, ff)
  BY <1>9, <1>10, <1>14 DEF ReplaceFull
<1> HIDE DEF full
<1>16. again = ReplaceAgain(d, ff)
  BY <1>9, <1>15 DEF ReplaceAgain
<1> HIDE DEF again
<1>17. undo = ReplaceUndo(d, ff)
  BY <1>9, <1>12, <1>15, <1>16 DEF ReplaceUndo
<1>18. lostData = LostData(oo, ff) /\ lostMaps = LostMaps(oo, ff) /\ claims = Elems(ff.data) \cup Elems(ff.maps)
  BY <1>1, <1>6 DEF LostData, LostMaps
<1> HIDE DEF lostData, lostMaps, claims, p, f, undo
<1>19. last = Replaced(d, oo, ff, i)
  BY <1>1, <1>4, <1>6, <1>15, <1>18, Zenon DEF Replaced, ReplaceBase, m
<1> HIDE DEF last, oo
<1>20. CommitReplacement(d, m) =
         IF ~(Elems(chain.listed) \subseteq DOMAIN d.pendingSectorWrites) THEN d
         ELSE IF ~old.ok THEN Failed(d, old)
         ELSE IF ~read.ok THEN Failed(d, read)
         ELSE IF ~cut.ok THEN Failed(d, cut)
         ELSE IF ~new.ok THEN Failed(d, new)
         ELSE IF ~full.ok THEN Failed(d, undo)
         ELSE last
  BY ONLY <1>0, <1>1, <1>7, <1>8, Zenon
<1> HIDE DEF m, ff
<1>21. CommitReplacement(d, m) =
         IF ~(Elems(ff.data) \subseteq DOMAIN d.pendingSectorWrites) THEN d
         ELSE IF ~ReplaceOpen(d, ff.host).ok THEN Failed(d, ReplaceOpen(d, ff.host))
         ELSE IF ~ReplaceRead(d, ff.host).ok THEN Failed(d, ReplaceRead(d, ff.host))
         ELSE IF ~ReplaceCut(d, ff.host).ok THEN Failed(d, ReplaceCut(d, ff.host))
         ELSE IF ~ReplaceNew(d, ff.host).ok THEN Failed(d, ReplaceNew(d, ff.host))
         ELSE IF ~ReplaceFull(d, ff).ok THEN Failed(d, ReplaceUndo(d, ff))
         ELSE Replaced(d, oo, ff, i)
  BY ONLY <1>6, <1>11, <1>12, <1>13, <1>14, <1>15, <1>17, <1>19, <1>20
<1> QED BY <1>21, Zenon DEF m, ff, oo

(* The host calls of a replacement keep the host files, but for what is    *)
(* in the one replaced, and only a fault makes one of them fail.           *)
LEMMA ReplaceCalls ==
    ASSUME NEW d, NEW H, Storage(d.io, H), NEW f, f.host \in H
    PROVE  LET h == f.host
           IN  /\ Storage(ReplaceOpen(d, h), H) /\ Storage(ReplaceRead(d, h), H) /\ Storage(ReplaceCut(d, h), H)
               /\ Storage(ReplaceNew(d, h), H) /\ Storage(ReplaceFull(d, f), H) /\ Storage(ReplaceUndo(d, f), H)
               /\ d.io.fault = 0 => /\ ReplaceOpen(d, h).ok /\ ReplaceRead(d, h).ok /\ ReplaceCut(d, h).ok
                                    /\ ReplaceNew(d, h).ok /\ ReplaceFull(d, f).ok
<1> DEFINE h == f.host
           old == ReplaceOpen(d, h)
           read == ReplaceRead(d, h)
           cut == ReplaceCut(d, h)
           new == ReplaceNew(d, h)
           full == ReplaceFull(d, f)
           again == ReplaceAgain(d, f)
           bytes == ReplaceBytes(d, f)
           zero == Truncate(full, h, 0)
<1>0. h \in H
  OBVIOUS
<1>1. Storage(old, H) /\ (d.io.fault = 0 => old.ok /\ old.fault = 0)
  BY OpenIs DEF ReplaceOpen
<1>2. Storage(read, H) /\ (old.fault = 0 => read.ok /\ read.fault = 0)
  <2>1. read = Call(old, "pread", TRUE)
    BY DEF ReplaceRead
  <2> HIDE DEF old, read
  <2> QED BY <1>1, <2>1, ReadIs
<1>3. Storage(cut, H) /\ (read.fault = 0 => cut.ok /\ cut.fault = 0)
  <2>1. cut = Truncate(read, h, 0)
    BY DEF ReplaceCut
  <2> HIDE DEF read, cut, h
  <2> QED BY <1>0, <1>2, <2>1, TruncateIs
<1>4. Storage(new, H) /\ (cut.fault = 0 => new.ok /\ new.fault = 0)
  <2>1. new = Open(cut, h)
    BY DEF ReplaceNew
  <2> HIDE DEF cut, new, h
  <2> QED BY <1>0, <1>3, <2>1, OpenIs
<1>5. Storage(full, H) /\ (new.fault = 0 => full.ok /\ full.fault = 0)
  <2>1. full = Pwrite(new, h, bytes, 0)
    BY DEF ReplaceFull
  <2> HIDE DEF new, full, h, bytes
  <2> QED BY <1>0, <1>4, <2>1, PwriteIs
<1>6. Storage(zero, H)
  <2> HIDE DEF full, h
  <2> QED BY <1>0, <1>5, TruncateIs
<1>7. Storage(again, H)
  <2>1. again = Open(zero, h)
    BY DEF ReplaceAgain
  <2> HIDE DEF zero, again, h
  <2> QED BY <1>0, <1>6, <2>1, OpenIs
<1>8. Storage(ReplaceUndo(d, f), H)
  <2> DEFINE back == read.host[h]
  <2>1. ReplaceUndo(d, f) = IF again.ok THEN Pwrite(again, h, back, 0) ELSE zero
    BY DEF ReplaceUndo
  <2> HIDE DEF again, zero, h, back
  <2>2. Storage(Pwrite(again, h, back, 0), H)
    BY <1>0, <1>7, PwriteIs
  <2> QED BY <1>6, <2>1, <2>2
<1> HIDE DEF old, read, cut, new, full
<1>9. d.io.fault = 0 => old.ok /\ read.ok /\ cut.ok /\ new.ok /\ full.ok
  BY <1>1, <1>2, <1>3, <1>4, <1>5
<1> QED BY <1>1, <1>2, <1>3, <1>4, <1>5, <1>8, <1>9 DEF old, read, cut, new, full

(* The image a replacement starts from: without the sectors it gives up.   *)
LEMMA ReplaceBaseIs ==
    ASSUME NEW d, Image(d), NEW old, NEW f, Storage(ReplaceFull(d, f), DOMAIN d.io.host)
    PROVE  LET g == ReplaceBase(d, old, f)
           IN  /\ Image(g) /\ g.files = d.files
               /\ g.allocated = d.allocated \ (LostData(old, f) \cup LostMaps(old, f))
               /\ DOMAIN g.dataRefs = DOMAIN d.dataRefs \ LostData(old, f)
               /\ \A x \in DOMAIN d.dataRefs \ LostData(old, f) : g.dataRefs[x] = d.dataRefs[x]
               /\ DOMAIN g.metadata = DOMAIN d.metadata \ LostMaps(old, f)
               /\ \A x \in DOMAIN d.metadata \ LostMaps(old, f) : g.metadata[x] = d.metadata[x]
               /\ g.directory = d.directory /\ g.pendingSectorWrites = d.pendingSectorWrites
               /\ g.pendingCreates = d.pendingCreates /\ g.pendingAppends = d.pendingAppends
               /\ g.pendingReplacements = d.pendingReplacements /\ g.error = d.error
               /\ DOMAIN g.io.host = DOMAIN d.io.host /\ g.io = ReplaceFull(d, f)
<1> DEFINE io == ReplaceFull(d, f)
           LD == LostData(old, f)
           LM == LostMaps(old, f)
           A == d.allocated \ (LD \cup LM)
           R == Without(d.dataRefs, LD)
           M == Without(d.metadata, LM)
           g == ReplaceBase(d, old, f)
<1>1. g = [d EXCEPT !.io = io, !.allocated = A, !.dataRefs = R, !.metadata = M]
  BY DEF ReplaceBase
<1>2. DOMAIN R = DOMAIN d.dataRefs \ LD /\ \A x \in DOMAIN d.dataRefs \ LD : R[x] = d.dataRefs[x]
  <2> HIDE DEF LD
  <2> QED BY WithoutIs
<1>3. DOMAIN M = DOMAIN d.metadata \ LM /\ \A x \in DOMAIN d.metadata \ LM : M[x] = d.metadata[x]
  <2> HIDE DEF LM
  <2> QED BY WithoutIs
<1>4. Storage(io, DOMAIN d.io.host)
  OBVIOUS
<1>9. A = d.allocated \ (LD \cup LM)
  OBVIOUS
<1> HIDE DEF io, A, R, M, g
<1>5. g = Made(d.files, A, M, R, d.directory, d.pendingSectorWrites, d.pendingCreates, d.pendingAppends,
               d.pendingReplacements, io, d.error)
  <2> DEFINE g1 == [d EXCEPT !.io = io]
  <2> DEFINE g2 == [d EXCEPT !.io = io, !.allocated = A]
  <2> DEFINE g3 == [d EXCEPT !.io = io, !.allocated = A, !.dataRefs = R]
  <2>1. g2 = [g1 EXCEPT !.allocated = A]
    OBVIOUS
  <2>2. g3 = [g2 EXCEPT !.dataRefs = R]
    OBVIOUS
  <2>3. g = [g3 EXCEPT !.metadata = M]
    BY <1>1
  <2>4. g1 = Made(d.files, d.allocated, d.metadata, d.dataRefs, d.directory,
                 d.pendingSectorWrites, d.pendingCreates, d.pendingAppends, d.pendingReplacements,
                 io, d.error)
    BY ImageShape DEF Made
  <2> HIDE DEF g1, g2, g3
  <2>5. g2 = Made(d.files, A, d.metadata, d.dataRefs, d.directory,
                 d.pendingSectorWrites, d.pendingCreates, d.pendingAppends, d.pendingReplacements,
                 io, d.error)
    BY <2>1, <2>4 DEF Made
  <2>6. g3 = Made(d.files, A, d.metadata, R, d.directory,
                 d.pendingSectorWrites, d.pendingCreates, d.pendingAppends, d.pendingReplacements,
                 io, d.error)
    BY <2>2, <2>5 DEF Made
  <2> QED BY <2>3, <2>6 DEF Made
<1>6. /\ d.files \in Seq(FileRecs) /\ DOMAIN d.directory = 1 .. Slots /\ DOMAIN d.pendingSectorWrites \subseteq Sectors
      /\ Storage(io, DOMAIN io.host) /\ d.error \in BOOLEAN
  BY <1>4 DEF Image, Storage
<1>7. /\ g.files = d.files /\ g.allocated = A /\ g.metadata = M /\ g.dataRefs = R
      /\ g.directory = d.directory /\ g.pendingSectorWrites = d.pendingSectorWrites
      /\ g.pendingCreates = d.pendingCreates /\ g.pendingAppends = d.pendingAppends
      /\ g.pendingReplacements = d.pendingReplacements /\ g.io = io /\ g.error = d.error /\ Image(g)
  BY <1>5, <1>6, MadeIs
<1>8. DOMAIN g.io.host = DOMAIN d.io.host
  BY <1>4, <1>7 DEF Storage
<1> HIDE DEF LD, LM
<1>10. /\ g.allocated = d.allocated \ (LD \cup LM)
       /\ DOMAIN g.dataRefs = DOMAIN d.dataRefs \ LD /\ \A x \in DOMAIN d.dataRefs \ LD : g.dataRefs[x] = d.dataRefs[x]
       /\ DOMAIN g.metadata = DOMAIN d.metadata \ LM /\ \A x \in DOMAIN d.metadata \ LM : g.metadata[x] = d.metadata[x]
  BY <1>2, <1>3, <1>7, <1>9
<1> QED BY <1>7, <1>8, <1>10 DEF g, io, LD, LM

(* A file whose sectors can be claimed. *)
Claimable(g, i, n, f) ==
    /\ Image(g) /\ i \in DOMAIN g.files /\ Sound(f) /\ g.files[i].hostName = f.host /\ g.files[i].name = n
    /\ \A m \in Elems(f.maps) : m \in Held(g)

Taken(g, c, i, n, f) ==
    /\ Image(c) /\ c.allocated = g.allocated \cup Elems(f.data) \cup Elems(f.maps)
    /\ DOMAIN c.files = DOMAIN g.files /\ c.files[i] = Record(n, f)
    /\ \A j \in DOMAIN g.files : j # i => c.files[j] = g.files[j]
    /\ c.directory = g.directory /\ c.pendingCreates = g.pendingCreates
    /\ c.pendingAppends = g.pendingAppends /\ c.pendingReplacements = g.pendingReplacements
    /\ c.io = g.io /\ c.error = g.error /\ c.pendingSectorWrites = g.pendingSectorWrites
    /\ DOMAIN c.metadata = DOMAIN g.metadata \cup Elems(f.maps)
    /\ \A x \in Elems(f.maps) : c.metadata[x] = Value(g, x)
    /\ \A x \in DOMAIN g.metadata \ Elems(f.maps) : c.metadata[x] = g.metadata[x]
    /\ DOMAIN c.dataRefs = DOMAIN g.dataRefs \cup Elems(f.data)
    /\ \A k \in 1 .. Len(f.data) : c.dataRefs[f.data[k]] = [file |-> i, at |-> k]
    /\ \A x \in DOMAIN g.dataRefs \ Elems(f.data) : c.dataRefs[x] = g.dataRefs[x]

(* Claim gives a replaced file its shorter record. *)
LEMMA ClaimTakes ==
    ASSUME NEW g, NEW i, NEW n, NEW f, Claimable(g, i, n, f)
    PROVE  Taken(g, Claim(g, i, Len(f.bytes), f.maps, f.data), i, n, f)
BY ClaimIs DEF Claimable, Taken

(* A replacement that was written is laid out. *)
LEMMA ReplacedIs ==
    ASSUME NEW d, NEW cat, NEW o, NEW i, ReplaceStaged(d, cat, o, i), d.error = FALSE,
           Only(d, {}, {}, {o.file.maps[1]}), Reads(d, o.file),
           Storage(ReplaceFull(d, o.file), DOMAIN d.io.host)
    PROVE  LET e == Replaced(d, cat[o.name], o.file, i)
           IN  Finished(d, e, cat, o.name, o.file) /\ e.io = ReplaceFull(d, o.file)
<1> DEFINE f == o.file
           n == o.name
           old == cat[n]
           m == f.maps[1]
           LD == LostData(old, f)
           LM == LostMaps(old, f)
           S == LD \cup LM \cup (Elems(f.data) \cup Elems(f.maps))
           g == ReplaceBase(d, old, f)
           c == Claim(g, i, Len(f.bytes), f.maps, f.data)
           t == Forget(c, S)
           C == Without(t.pendingReplacements, {m})
           e == [t EXCEPT !.pendingReplacements = C]
<1>0. Replaced(d, old, f, i) = e
  BY DEF Replaced
<1>1. /\ Image(d) /\ Catalogue(cat) /\ Layout(d, cat) /\ Fits(cat, n, f) /\ n \in DOMAIN cat /\ Sound(f)
      /\ Sound(old) /\ Begins(f, old) /\ old.host = f.host /\ i \in DOMAIN d.files /\ d.files[i] = Record(n, old)
      /\ DOMAIN d.pendingReplacements = {m}
  BY DEF ReplaceStaged, Fits, Catalogue
<1>2. Reads(d, f) /\ DOMAIN d.pendingCreates = {} /\ DOMAIN d.pendingAppends = {} /\ d.error = FALSE
      /\ Storage(ReplaceFull(d, f), DOMAIN d.io.host)
  BY DEF Only
<1> HIDE DEF n, f, old
<1>3. /\ Image(g) /\ g.files = d.files /\ g.allocated = d.allocated \ (LD \cup LM)
      /\ DOMAIN g.dataRefs = DOMAIN d.dataRefs \ LD
      /\ \A x \in DOMAIN d.dataRefs \ LD : g.dataRefs[x] = d.dataRefs[x]
      /\ DOMAIN g.metadata = DOMAIN d.metadata \ LM
      /\ \A x \in DOMAIN d.metadata \ LM : g.metadata[x] = d.metadata[x]
      /\ g.directory = d.directory /\ g.pendingSectorWrites = d.pendingSectorWrites
      /\ g.pendingCreates = d.pendingCreates /\ g.pendingAppends = d.pendingAppends
      /\ g.pendingReplacements = d.pendingReplacements /\ g.error = d.error
      /\ DOMAIN g.io.host = DOMAIN d.io.host /\ g.io = ReplaceFull(d, f)
  BY <1>1, <1>2, ReplaceBaseIs
<1> HIDE DEF g
<1>4. /\ LD = Elems(old.data) \ Elems(f.data) /\ LM = Elems(old.maps) \ Elems(f.maps)
      /\ Elems(f.data) \subseteq Elems(old.data) /\ Elems(f.maps) \subseteq Elems(old.maps)
      /\ Elems(old.maps) \subseteq DOMAIN d.metadata /\ Elems(old.data) \subseteq DOMAIN d.dataRefs
  <2>1. Elems(f.data) \subseteq Elems(old.data) /\ Elems(f.maps) \subseteq Elems(old.maps)
    BY <1>1, BeginsWithin
  <2>2. Elems(old.maps) \subseteq DOMAIN d.metadata /\ Elems(old.data) \subseteq DOMAIN d.dataRefs
    BY <1>1 DEF Layout, old
  <2> QED BY <2>1, <2>2 DEF LostData, LostMaps
<1> HIDE DEF LD, LM
<1>5. \A x \in Elems(f.maps) : x \in DOMAIN g.metadata /\ x \in Held(g)
  BY <1>3, <1>4 DEF Held
<1>6. i \in DOMAIN g.files /\ g.files[i].hostName = f.host /\ g.files[i].name = n
  BY <1>1, <1>3, RecordIs
<1>7. /\ Image(c) /\ c.allocated = g.allocated \cup Elems(f.data) \cup Elems(f.maps)
      /\ DOMAIN c.files = DOMAIN g.files /\ c.files[i] = Record(n, f)
      /\ \A j \in DOMAIN g.files : j # i => c.files[j] = g.files[j]
      /\ c.directory = g.directory /\ c.pendingCreates = g.pendingCreates
      /\ c.pendingAppends = g.pendingAppends /\ c.pendingReplacements = g.pendingReplacements
      /\ c.io = g.io /\ c.error = g.error /\ c.pendingSectorWrites = g.pendingSectorWrites
      /\ DOMAIN c.metadata = DOMAIN g.metadata \cup Elems(f.maps)
      /\ \A x \in Elems(f.maps) : c.metadata[x] = Value(g, x)
      /\ \A x \in DOMAIN g.metadata \ Elems(f.maps) : c.metadata[x] = g.metadata[x]
      /\ DOMAIN c.dataRefs = DOMAIN g.dataRefs \cup Elems(f.data)
      /\ \A k \in 1 .. Len(f.data) : c.dataRefs[f.data[k]] = [file |-> i, at |-> k]
      /\ \A x \in DOMAIN g.dataRefs \ Elems(f.data) : c.dataRefs[x] = g.dataRefs[x]
  <2>1. Claimable(g, i, n, f)
    BY ONLY <1>1, <1>3, <1>5, <1>6 DEF Claimable
  <2>2. Taken(g, c, i, n, f)
    BY ONLY <2>1, ClaimTakes
  <2> HIDE DEF c
  <2> QED BY ONLY <2>2 DEF Taken
<1> HIDE DEF c, S
<1>8. /\ Image(t) /\ t.files = c.files /\ t.allocated = c.allocated /\ t.dataRefs = c.dataRefs
      /\ t.directory = c.directory /\ t.pendingCreates = c.pendingCreates
      /\ t.pendingAppends = c.pendingAppends /\ t.pendingReplacements = c.pendingReplacements
      /\ t.io = c.io /\ t.error = c.error /\ t.metadata = c.metadata
      /\ DOMAIN t.pendingSectorWrites = DOMAIN c.pendingSectorWrites \ S
      /\ \A x \in DOMAIN c.pendingSectorWrites \ S : t.pendingSectorWrites[x] = c.pendingSectorWrites[x]
  BY <1>7, ForgetIs
<1> HIDE DEF t
<1>9. DOMAIN C = {}
  <2>1. DOMAIN C = DOMAIN t.pendingReplacements \ {m}
    BY WithoutIs
  <2> HIDE DEF C
  <2> QED BY <1>1, <1>3, <1>7, <1>8, <2>1
<1> HIDE DEF C, e
<1>10. e = Made(t.files, t.allocated, t.metadata, t.dataRefs, t.directory, t.pendingSectorWrites, t.pendingCreates,
                t.pendingAppends, C, t.io, t.error)
  BY <1>8, EditReplacements DEF e
<1>11. /\ e.files = t.files /\ e.allocated = t.allocated /\ e.metadata = t.metadata /\ e.dataRefs = t.dataRefs
       /\ e.directory = t.directory /\ e.pendingSectorWrites = t.pendingSectorWrites
       /\ e.pendingCreates = t.pendingCreates /\ e.pendingAppends = t.pendingAppends
       /\ e.pendingReplacements = C /\ e.io = t.io /\ e.error = t.error /\ Image(e)
  <2>1. /\ t.files \in Seq(FileRecs) /\ DOMAIN t.directory = 1 .. Slots
        /\ DOMAIN t.pendingSectorWrites \subseteq Sectors
        /\ Storage(t.io, DOMAIN t.io.host) /\ t.error \in BOOLEAN
    BY <1>8, ImageStorage DEF Image
  <2> QED BY <1>10, <2>1, MadeIs
<1>12. NoPending(e) /\ e.error = FALSE /\ e.directory = d.directory
  BY <1>2, <1>3, <1>7, <1>8, <1>9, <1>11 DEF NoPending
<1>13. S = Elems(old.data) \cup Elems(old.maps)
  BY <1>4 DEF S
<1>14. \A x \in Elems(f.maps) : x \in DOMAIN e.metadata /\ x \notin DOMAIN e.pendingSectorWrites
                                  /\ Value(e, x) = Value(d, x)
  <2> TAKE x \in Elems(f.maps)
  <2>1. x \in DOMAIN e.metadata /\ x \notin DOMAIN e.pendingSectorWrites /\ e.metadata[x] = Value(g, x)
    BY <1>4, <1>5, <1>7, <1>8, <1>11, <1>13
  <2>2. Value(g, x) = Value(d, x)
    BY <1>3, <1>4 DEF Value
  <2> QED BY <2>1, <2>2 DEF Value
<1>15. Reads(e, f)
  <2>1. \A k \in 1 .. Len(f.maps) : f.maps[k] \in Elems(f.maps)
    BY <1>1, SectorsAt
  <2> QED BY <1>2, <1>14, <2>1 DEF Reads
<1>16. ASSUME NEW k \in DOMAIN cat \ {n}, Reads(d, cat[k]) PROVE Reads(e, cat[k])
  <2>0. Sound(cat[k]) /\ SectorsOf(cat[k]) \cap SectorsOf(old) = {}
    BY <1>1 DEF Catalogue, Apart, old
  <2>1. \A x \in Elems(cat[k].maps) : /\ x \in DOMAIN d.metadata /\ x \notin S
                                      /\ x \notin LM /\ x \notin Elems(f.maps)
    <3>1. \A x \in Elems(cat[k].maps) : x \in DOMAIN d.metadata
      BY <1>1 DEF Layout
    <3>2. \A x \in Elems(cat[k].maps) : x \notin SectorsOf(old)
      BY <2>0 DEF SectorsOf
    <3> QED BY <1>4, <1>13, <3>1, <3>2 DEF SectorsOf
  <2>2. \A x \in Elems(cat[k].maps) : x \in DOMAIN e.metadata /\ Value(e, x) = Value(d, x)
    <3> TAKE x \in Elems(cat[k].maps)
    <3>1. x \in DOMAIN g.metadata \ Elems(f.maps) /\ g.metadata[x] = d.metadata[x]
      BY <1>3, <2>1
    <3>2. x \in DOMAIN e.metadata /\ e.metadata[x] = d.metadata[x]
      BY <1>7, <1>8, <1>11, <3>1
    <3>3. x \in DOMAIN e.pendingSectorWrites <=> x \in DOMAIN d.pendingSectorWrites
      BY <1>3, <1>7, <1>8, <1>11, <2>1
    <3>4. x \in DOMAIN d.pendingSectorWrites => e.pendingSectorWrites[x] = d.pendingSectorWrites[x]
      BY <1>3, <1>7, <1>8, <1>11, <2>1
    <3> QED BY <3>2, <3>3, <3>4 DEF Value
  <2>3. \A j \in 1 .. Len(cat[k].maps) : cat[k].maps[j] \in Elems(cat[k].maps)
    BY <2>0, SectorsAt
  <2> QED BY <1>16, <2>2, <2>3 DEF Reads
<1>17. e.allocated = DOMAIN e.dataRefs \cup DOMAIN e.metadata
  <2>1. d.allocated = DOMAIN d.dataRefs \cup DOMAIN d.metadata
    BY <1>1 DEF Layout
  <2>2. \A j \in DOMAIN cat : Elems(old.maps) \cap Elems(cat[j].data) = {} /\ Elems(old.data) \cap Elems(cat[j].maps) = {}
    <3> TAKE j \in DOMAIN cat
    <3>1. CASE j = n
      BY <1>1, <3>1 DEF Catalogue, Sound, old
    <3>2. CASE j # n
      BY <1>1, <3>2 DEF Catalogue, Apart, SectorsOf, old
    <3> QED BY <3>1, <3>2
  <2>3. Elems(old.maps) \cap DOMAIN d.dataRefs = {} /\ Elems(old.data) \cap DOMAIN d.metadata = {}
    BY <1>1, <2>2 DEF Layout
  <2> QED BY <1>3, <1>4, <1>7, <1>8, <1>11, <2>1, <2>3
<1>18. DataOf(cat, n) = Elems(old.data) /\ MapsOf(cat, n) = Elems(old.maps)
  BY <1>1 DEF DataOf, MapsOf, old
<1>19. Lands(d, e, cat, n, f, i)
  <2>1. i \in DOMAIN e.files /\ e.files[i] = Record(n, f) /\ DOMAIN e.files = DOMAIN d.files \cup {i}
    BY <1>1, <1>3, <1>7, <1>8, <1>11
  <2>2. \A j \in DOMAIN d.files : j # i => e.files[j] = d.files[j]
    BY <1>3, <1>7, <1>8, <1>11
  <2>3. DOMAIN e.dataRefs = (DOMAIN d.dataRefs \ DataOf(cat, n)) \cup Elems(f.data)
    BY <1>3, <1>4, <1>7, <1>8, <1>11, <1>18
  <2>4. DOMAIN e.metadata = (DOMAIN d.metadata \ MapsOf(cat, n)) \cup Elems(f.maps)
    BY <1>3, <1>4, <1>7, <1>8, <1>11, <1>18
  <2>5. \A k \in 1 .. Len(f.data) : e.dataRefs[f.data[k]] = [file |-> i, at |-> k]
    BY <1>7, <1>8, <1>11
  <2>6. \A x \in DOMAIN d.dataRefs \ (DataOf(cat, n) \cup Elems(f.data)) : e.dataRefs[x] = d.dataRefs[x]
    BY <1>3, <1>4, <1>7, <1>8, <1>11, <1>18
  <2>7. DOMAIN e.io.host = DOMAIN d.io.host \cup {f.host}
    <3>1. f.host \in DOMAIN d.io.host
      BY <1>1 DEF Layout, old
    <3> QED BY <1>3, <1>7, <1>8, <1>11, <3>1
  <2>8. i \in DOMAIN d.files /\ n \in DOMAIN cat /\ d.files[i] = Record(n, cat[n])
    BY <1>1 DEF old
  <2> QED BY <1>17, <2>1, <2>2, <2>3, <2>4, <2>5, <2>6, <2>7, <2>8 DEF Lands
<1>20. Layout(e, Put(cat, n, f))
  <2>1. n \in DOMAIN cat => cat[n].host = f.host
    BY <1>1 DEF old
  <2> QED BY <1>1, <1>11, <1>19, <2>1, Landed
<1>21. Lasts(d, e) /\ Unmapped(e, cat, n) /\ e.io = ReplaceFull(d, f)
  <2>1. DOMAIN e.pendingSectorWrites = DOMAIN d.pendingSectorWrites \ S
    BY <1>3, <1>7, <1>8, <1>11
  <2>2. \A x \in DOMAIN d.pendingSectorWrites \ S : e.pendingSectorWrites[x] = d.pendingSectorWrites[x]
    BY <1>3, <1>7, <1>8, <1>11
  <2>3. e.io = ReplaceFull(d, f)
    BY <1>3, <1>7, <1>8, <1>11
  <2> QED BY <1>13, <2>1, <2>2, <2>3 DEF Lasts, Unmapped, old
<1>22. Finished(d, e, cat, n, f)
  BY <1>11, <1>12, <1>15, <1>16, <1>20, <1>21 DEF Finished
<1> QED BY <1>0, <1>21, <1>22 DEF n, f, old

(* commitReplacement waits for data, finishes, or a storage call failed. *)
LEMMA ReplaceCommits ==
    ASSUME NEW d, NEW cat, NEW o, NEW i, ReplaceStaged(d, cat, o, i), d.error = FALSE,
           d.directory[o.file.slot] = EntryOf(o.name, o.file),
           Only(d, {}, {}, {o.file.maps[1]}), Reads(d, o.file)
    PROVE  LET e == CommitReplacement(d, o.file.maps[1])
           IN  \/ e = d /\ ~(Elems(o.file.data) \subseteq DOMAIN d.pendingSectorWrites)
               \/ Refused(d, e)
               \/ Finished(d, e, cat, o.name, o.file)
<1> DEFINE f == o.file
           H == DOMAIN d.io.host
           h == f.host
           old == cat[o.name]
           r == CommitReplacement(d, f.maps[1])
<1>0. r =    IF ~(Elems(f.data) \subseteq DOMAIN d.pendingSectorWrites) THEN d
             ELSE IF ~ReplaceOpen(d, h).ok THEN Failed(d, ReplaceOpen(d, h))
             ELSE IF ~ReplaceRead(d, h).ok THEN Failed(d, ReplaceRead(d, h))
             ELSE IF ~ReplaceCut(d, h).ok THEN Failed(d, ReplaceCut(d, h))
             ELSE IF ~ReplaceNew(d, h).ok THEN Failed(d, ReplaceNew(d, h))
             ELSE IF ~ReplaceFull(d, f).ok THEN Failed(d, ReplaceUndo(d, f))
             ELSE Replaced(d, old, f, i)
  BY ReplaceSteps
<1>1. Image(d) /\ Storage(d.io, H) /\ h \in H
  <2>1. Image(d) /\ Layout(d, cat) /\ o.name \in DOMAIN cat /\ cat[o.name].host = f.host
    BY DEF ReplaceStaged
  <2> QED BY <2>1, ImageStorage DEF Layout
<1>2. /\ Storage(ReplaceOpen(d, h), H) /\ Storage(ReplaceRead(d, h), H) /\ Storage(ReplaceCut(d, h), H)
      /\ Storage(ReplaceNew(d, h), H) /\ Storage(ReplaceFull(d, f), H) /\ Storage(ReplaceUndo(d, f), H)
      /\ d.io.fault = 0 => /\ ReplaceOpen(d, h).ok /\ ReplaceRead(d, h).ok /\ ReplaceCut(d, h).ok
                           /\ ReplaceNew(d, h).ok /\ ReplaceFull(d, f).ok
  <2> HIDE DEF H, f
  <2> QED BY <1>1, ReplaceCalls
<1>3. ASSUME NEW io, Storage(io, H), d.io.fault # 0 PROVE Refused(d, Failed(d, io))
  <2>1. Same(d, Failed(d, io)) /\ Failed(d, io).error = TRUE
    BY <1>1, <1>3, FailedIs
  <2>2. d.io.fault > 0
    BY <1>1, <1>3 DEF Image
  <2> QED BY <2>1, <2>2 DEF Refused
<1>4. Finished(d, Replaced(d, old, f, i), cat, o.name, f)
  BY <1>2, ReplacedIs
<1> DEFINE a1 == ReplaceOpen(d, h).ok
           a2 == ReplaceRead(d, h).ok
           a3 == ReplaceCut(d, h).ok
           a4 == ReplaceNew(d, h).ok
           a5 == ReplaceFull(d, f).ok
           u1 == Failed(d, ReplaceOpen(d, h))
           u2 == Failed(d, ReplaceRead(d, h))
           u3 == Failed(d, ReplaceCut(d, h))
           u4 == Failed(d, ReplaceNew(d, h))
           u5 == Failed(d, ReplaceUndo(d, f))
           u6 == Replaced(d, old, f, i)
<1>5. d.io.fault # 0 => Refused(d, u1) /\ Refused(d, u2) /\ Refused(d, u3) /\ Refused(d, u4) /\ Refused(d, u5)
  <2> HIDE DEF H, h, f
  <2> QED BY <1>2, <1>3
<1>6. d.io.fault = 0 => a1 /\ a2 /\ a3 /\ a4 /\ a5
  BY <1>2
<1>7. r = IF ~(Elems(f.data) \subseteq DOMAIN d.pendingSectorWrites) THEN d
          ELSE IF ~a1 THEN u1 ELSE IF ~a2 THEN u2 ELSE IF ~a3 THEN u3 ELSE IF ~a4 THEN u4 ELSE IF ~a5 THEN u5 ELSE u6
  BY <1>0
<1> HIDE DEF a1, a2, a3, a4, a5, u1, u2, u3, u4, u5
<1>8. \/ r = d /\ ~(Elems(f.data) \subseteq DOMAIN d.pendingSectorWrites)
      \/ Refused(d, r)
      \/ Finished(d, r, cat, o.name, f)
  <2> HIDE DEF r, u6
  <2> QED BY <1>4, <1>5, <1>6, <1>7 DEF u6
<1> QED BY <1>8

-----------------------------------------------------------------------------
(* Deleting and renaming a file. *)

(* A catalogue without one of its files is one. *)
LEMMA WithoutCatalogue ==
    ASSUME NEW cat, Catalogue(cat), NEW n
    PROVE  Catalogue(Without(cat, {n}))
<1> DEFINE new == Without(cat, {n})
<1>1. DOMAIN new = DOMAIN cat \ {n} /\ \A m \in DOMAIN cat \ {n} : new[m] = cat[m]
  BY WithoutIs
<1>2. new = [m \in DOMAIN new |-> new[m]]
  BY DEF Without
<1> HIDE DEF new
<1> QED BY <1>1, <1>2 DEF Catalogue, new

(* The step from d to e takes the sectors of the file i, n from it. *)
Leaves(d, e, cat, n, i) ==
    /\ n \in DOMAIN cat /\ i \in DOMAIN d.files /\ d.files[i] = Record(n, cat[n])
    /\ DOMAIN e.files = DOMAIN d.files
    /\ e.files[i].length = 0 /\ e.files[i].dataSectors = <<>> /\ e.files[i].mapSectors = <<>>
    /\ \A j \in DOMAIN d.files : j # i => e.files[j] = d.files[j]
    /\ DOMAIN e.dataRefs = DOMAIN d.dataRefs \ Elems(cat[n].data)
    /\ \A x \in DOMAIN d.dataRefs \ Elems(cat[n].data) : e.dataRefs[x] = d.dataRefs[x]
    /\ DOMAIN e.metadata = DOMAIN d.metadata \ Elems(cat[n].maps)
    /\ e.allocated = d.allocated \ (Elems(cat[n].data) \cup Elems(cat[n].maps))
    /\ DOMAIN e.io.host = DOMAIN d.io.host \ {cat[n].host}

(* An image that a file has left is laid out without it. *)
LEMMA LeftIs ==
    ASSUME NEW d, NEW e, Image(d), Image(e), NEW cat, Catalogue(cat), Layout(d, cat), NEW n, NEW i,
           Leaves(d, e, cat, n, i)
    PROVE  Layout(e, Without(cat, {n}))
<1> DEFINE new == Without(cat, {n})
           others == DOMAIN cat \ {n}
<1>1. DOMAIN new = others /\ \A m \in others : new[m] = cat[m]
  BY WithoutIs
<1> HIDE DEF new
<1>2. \A m \in DOMAIN cat : Sound(cat[m])
  BY DEF Catalogue
<1>3. /\ i \in DOMAIN d.files /\ n \in DOMAIN cat /\ d.files[i] = Record(n, cat[n]) /\ DOMAIN e.files = DOMAIN d.files
      /\ e.files[i].length = 0 /\ e.files[i].dataSectors = <<>> /\ e.files[i].mapSectors = <<>>
      /\ \A j \in DOMAIN d.files : j # i => e.files[j] = d.files[j]
  BY DEF Leaves
<1>4. d.files[i].name = n /\ d.files[i].length > 0
  BY <1>2, <1>3, RecordIs
<1>5. ASSUME NEW j \in DOMAIN d.files, j # i
      PROVE  \/ d.files[j].length = 0 /\ d.files[j].dataSectors = <<>> /\ d.files[j].mapSectors = <<>>
             \/ /\ d.files[j].name \in others /\ d.files[j] = Record(d.files[j].name, cat[d.files[j].name])
                /\ d.files[j].dataSectors = cat[d.files[j].name].data
  <2>1. CASE d.files[j].name = n /\ d.files[j].length > 0
    BY <1>3, <1>4, <1>5, <2>1 DEF Layout, Live
  <2> QED BY <2>1, FileIs
<1>6. \A j \in DOMAIN e.files :
        \/ e.files[j].length = 0 /\ e.files[j].dataSectors = <<>> /\ e.files[j].mapSectors = <<>>
        \/ e.files[j].name \in DOMAIN new /\ e.files[j] = Record(e.files[j].name, new[e.files[j].name])
  <2> TAKE j \in DOMAIN e.files
  <2>1. CASE j = i
    BY <1>3, <2>1
  <2>2. CASE j # i
    BY <1>1, <1>3, <1>5, <2>2
  <2> QED BY <2>1, <2>2
<1>7. \A m \in DOMAIN new : \E j \in DOMAIN e.files : e.files[j] = Record(m, new[m])
  <2> TAKE m \in DOMAIN new
  <2>1. m \in others /\ new[m] = cat[m]
    BY <1>1
  <2>2. PICK j \in DOMAIN d.files : d.files[j] = Record(m, cat[m])
    BY <2>1 DEF Layout
  <2>3. Record(m, cat[m]).name = m
    BY <1>2, <2>1, RecordIs
  <2>4. j # i
    BY <1>4, <2>1, <2>2, <2>3
  <2> QED BY <1>3, <2>1, <2>2, <2>4
<1>8. ASSUME NEW j \in DOMAIN e.files, NEW k \in DOMAIN e.files, Live(e, j), Live(e, k),
             e.files[j].name = e.files[k].name
      PROVE  j = k
  <2>1. j # i /\ k # i
    BY <1>3, <1>8 DEF Live
  <2> QED BY <1>3, <1>8, <2>1 DEF Layout, Live
<1>9. DOMAIN e.dataRefs = UNION {Elems(new[m].data) : m \in DOMAIN new}
  <2>1. \A m \in others : Elems(cat[m].data) \cap Elems(cat[n].data) = {}
    BY <1>3 DEF Catalogue, Apart, SectorsOf
  <2>2. DOMAIN e.dataRefs = DOMAIN d.dataRefs \ Elems(cat[n].data)
    BY DEF Leaves
  <2>3. ASSUME NEW x \in DOMAIN e.dataRefs PROVE \E m \in DOMAIN new : x \in Elems(new[m].data)
    <3>1. PICK m \in DOMAIN cat : x \in Elems(cat[m].data)
      BY <2>2 DEF Layout
    <3>2. m # n
      BY <2>2, <3>1
    <3> QED BY <1>1, <3>1, <3>2
  <2>4. ASSUME NEW m \in DOMAIN new PROVE Elems(new[m].data) \subseteq DOMAIN e.dataRefs
    <3>1. m \in others /\ new[m] = cat[m]
      BY <1>1
    <3>2. Elems(cat[m].data) \subseteq DOMAIN d.dataRefs
      BY <3>1 DEF Layout
    <3> QED BY <2>1, <2>2, <3>1, <3>2
  <2> QED BY <2>3, <2>4
<1>10. DOMAIN e.metadata = UNION {Elems(new[m].maps) : m \in DOMAIN new}
  <2>1. \A m \in others : Elems(cat[m].maps) \cap Elems(cat[n].maps) = {}
    BY <1>3 DEF Catalogue, Apart, SectorsOf
  <2>2. DOMAIN e.metadata = DOMAIN d.metadata \ Elems(cat[n].maps)
    BY DEF Leaves
  <2>3. ASSUME NEW x \in DOMAIN e.metadata PROVE \E m \in DOMAIN new : x \in Elems(new[m].maps)
    <3>1. PICK m \in DOMAIN cat : x \in Elems(cat[m].maps)
      BY <2>2 DEF Layout
    <3>2. m # n
      BY <2>2, <3>1
    <3> QED BY <1>1, <3>1, <3>2
  <2>4. ASSUME NEW m \in DOMAIN new PROVE Elems(new[m].maps) \subseteq DOMAIN e.metadata
    <3>1. m \in others /\ new[m] = cat[m]
      BY <1>1
    <3>2. Elems(cat[m].maps) \subseteq DOMAIN d.metadata
      BY <3>1 DEF Layout
    <3> QED BY <2>1, <2>2, <3>1, <3>2
  <2> QED BY <2>3, <2>4
<1>11. ASSUME NEW j \in DOMAIN e.files, NEW k \in 1 .. Len(e.files[j].dataSectors)
       PROVE  e.dataRefs[e.files[j].dataSectors[k]] = [file |-> j, at |-> k]
  <2>1. j # i
    BY <1>3
  <2> DEFINE m == d.files[j].name
             x == d.files[j].dataSectors[k]
  <2>2. j \in DOMAIN d.files /\ e.files[j] = d.files[j] /\ k \in 1 .. Len(d.files[j].dataSectors)
    BY <1>3, <2>1
  <2>3. m \in others /\ d.files[j].dataSectors = cat[m].data
    <3>1. d.files[j].dataSectors # <<>>
      BY <2>2
    <3> QED BY <1>5, <2>1, <2>2, <3>1
  <2>4. d.dataRefs[x] = [file |-> j, at |-> k]
    BY <2>2 DEF Layout
  <2>5. x \in Elems(cat[m].data)
    <3>1. cat[m].data \in Seq(Sectors)
      BY <1>2, <2>3, SoundFacts
    <3> HIDE DEF m
    <3> QED BY <2>2, <2>3, <3>1, ElemsAre
  <2>6. x \in DOMAIN d.dataRefs /\ x \notin Elems(cat[n].data)
    <3>1. x \in DOMAIN d.dataRefs
      <4>1. DOMAIN d.dataRefs = UNION {Elems(cat[v].data) : v \in DOMAIN cat}
        BY ONLY Layout(d, cat) DEF Layout
      <4> HIDE DEF x, m
      <4> QED BY ONLY <2>3, <2>5, <4>1
    <3>2. x \notin Elems(cat[n].data)
      BY <1>3, <2>3, <2>5 DEF Catalogue, Apart, SectorsOf
    <3> QED BY <3>1, <3>2
  <2> QED BY <2>2, <2>4, <2>6 DEF Leaves
<1>12. DOMAIN e.io.host = {new[m].host : m \in DOMAIN new}
  <2>1. DOMAIN d.io.host = {cat[m].host : m \in DOMAIN cat}
    BY DEF Layout
  <2>2. DOMAIN e.io.host = {cat[m].host : m \in DOMAIN cat} \ {cat[n].host}
    BY <2>1 DEF Leaves
  <2>3. \A m \in others : cat[m].host # cat[n].host
    BY <1>3 DEF Catalogue, Apart
  <2> QED BY <1>1, <2>2, <2>3
<1>13. e.allocated = DOMAIN e.dataRefs \cup DOMAIN e.metadata
  <2>1. /\ e.allocated = d.allocated \ (Elems(cat[n].data) \cup Elems(cat[n].maps))
        /\ d.allocated = DOMAIN d.dataRefs \cup DOMAIN d.metadata
        /\ DOMAIN e.dataRefs = DOMAIN d.dataRefs \ Elems(cat[n].data)
        /\ DOMAIN e.metadata = DOMAIN d.metadata \ Elems(cat[n].maps)
    BY DEF Leaves, Layout
  <2>2. ASSUME NEW x \in DOMAIN d.dataRefs, x \in Elems(cat[n].maps) PROVE FALSE
    <3>1. PICK m \in DOMAIN cat : x \in Elems(cat[m].data)
      BY DEF Layout
    <3>2. CASE m = n
      BY <1>2, <2>2, <3>1, <3>2, SoundFacts
    <3>3. CASE m # n
      BY <1>3, <2>2, <3>1, <3>3 DEF Catalogue, Apart, SectorsOf
    <3> QED BY <3>2, <3>3
  <2>3. ASSUME NEW x \in DOMAIN d.metadata, x \in Elems(cat[n].data) PROVE FALSE
    <3>1. PICK m \in DOMAIN cat : x \in Elems(cat[m].maps)
      BY DEF Layout
    <3>2. CASE m = n
      BY <1>2, <2>3, <3>1, <3>2, SoundFacts
    <3>3. CASE m # n
      BY <1>3, <2>3, <3>1, <3>3 DEF Catalogue, Apart, SectorsOf
    <3> QED BY <3>2, <3>3
  <2> QED BY <2>1, <2>2, <2>3
<1> QED BY <1>6, <1>7, <1>8, <1>9, <1>10, <1>11, <1>12, <1>13 DEF Layout, new

(* A file that is deleted keeps its record, with nothing in it. *)
Emptied(r) == [r EXCEPT !.length = 0, !.dataSectors = <<>>, !.mapSectors = <<>>]

(* The record of a file that was deleted. *)
LEMMA EmptiedIs ==
    ASSUME NEW r \in FileRecs
    PROVE  /\ Emptied(r) \in FileRecs /\ Emptied(r).length = 0 /\ Emptied(r).dataSectors = <<>>
           /\ Emptied(r).mapSectors = <<>>
<1> DEFINE z == 0
           e == <<>>
           g1 == [r EXCEPT !.length = z]
           g2 == [r EXCEPT !.length = z, !.dataSectors = e]
<1>1. r = [hostName |-> r.hostName, name |-> r.name, length |-> r.length, dataSectors |-> r.dataSectors,
           mapSectors |-> r.mapSectors] /\ r.hostName \in Paths /\ r.name \in AllNames
  BY DEF FileRecs
<1>2. z \in Nat /\ e \in Seq(Sectors)
  OBVIOUS
<1>3. Emptied(r) = [r EXCEPT !.length = z, !.dataSectors = e, !.mapSectors = e]
  BY DEF Emptied
<1>4. z = 0 /\ e = <<>>
  OBVIOUS
<1> HIDE DEF z, e
<1>5. g1 = [hostName |-> r.hostName, name |-> r.name, length |-> z, dataSectors |-> r.dataSectors,
            mapSectors |-> r.mapSectors]
  BY <1>1
<1>6. g2 = [g1 EXCEPT !.dataSectors = e]
  OBVIOUS
<1>7. [r EXCEPT !.length = z, !.dataSectors = e, !.mapSectors = e] = [g2 EXCEPT !.mapSectors = e]
  OBVIOUS
<1> HIDE DEF g1, g2
<1>8. g2 = [hostName |-> r.hostName, name |-> r.name, length |-> z, dataSectors |-> e, mapSectors |-> r.mapSectors]
  BY <1>5, <1>6
<1>9. Emptied(r) = [hostName |-> r.hostName, name |-> r.name, length |-> z, dataSectors |-> e, mapSectors |-> e]
  BY <1>3, <1>7, <1>8
<1> QED BY <1>1, <1>2, <1>4, <1>9 DEF FileRecs

(* The image without a file, before the overlays are settled. *)
Unlinked(d, i, f) ==
    [d EXCEPT !.io = Unlink(d.io, f.host), !.allocated = @ \ (Elems(f.data) \cup Elems(f.maps)),
              !.dataRefs = Without(@, Elems(f.data)),
              !.metadata = Without(@, Elems(f.maps)),
              !.pendingSectorWrites = Without(@, Elems(f.maps)),
              !.files[i] = Emptied(@)]

(* What deleting a file changes, before Settle. *)
LEMMA UnlinkedIs ==
    ASSUME SdfsGuest, NEW d, Image(d), NEW i \in DOMAIN d.files, NEW f, f.host \in DOMAIN d.io.host
    PROVE  LET g == Unlinked(d, i, f)
           IN  /\ Image(g) /\ DOMAIN g.files = DOMAIN d.files
               /\ g.files[i].length = 0 /\ g.files[i].dataSectors = <<>> /\ g.files[i].mapSectors = <<>>
               /\ \A j \in DOMAIN d.files : j # i => g.files[j] = d.files[j]
               /\ g.allocated = d.allocated \ (Elems(f.data) \cup Elems(f.maps))
               /\ DOMAIN g.dataRefs = DOMAIN d.dataRefs \ Elems(f.data)
               /\ \A x \in DOMAIN d.dataRefs \ Elems(f.data) : g.dataRefs[x] = d.dataRefs[x]
               /\ DOMAIN g.metadata = DOMAIN d.metadata \ Elems(f.maps)
               /\ \A x \in DOMAIN d.metadata \ Elems(f.maps) : g.metadata[x] = d.metadata[x]
               /\ DOMAIN g.pendingSectorWrites = DOMAIN d.pendingSectorWrites \ Elems(f.maps)
               /\ \A x \in DOMAIN d.pendingSectorWrites \ Elems(f.maps) :
                        g.pendingSectorWrites[x] = d.pendingSectorWrites[x]
               /\ g.directory = d.directory /\ g.pendingCreates = d.pendingCreates
               /\ g.pendingAppends = d.pendingAppends /\ g.pendingReplacements = d.pendingReplacements
               /\ g.error = d.error /\ DOMAIN g.io.host = DOMAIN d.io.host \ {f.host}
               /\ (d.io.fault = 0 => g.io.fault = 0) /\ g.io = Unlink(d.io, f.host)
<1> DEFINE io == Unlink(d.io, f.host)
           ED == Elems(f.data)
           EM == Elems(f.maps)
           A == d.allocated \ (ED \cup EM)
           R == Without(d.dataRefs, ED)
           M == Without(d.metadata, EM)
           W == Without(d.pendingSectorWrites, EM)
           F == [d.files EXCEPT ![i] = Emptied(@)]
           g == Unlinked(d, i, f)
<1>1. g = [d EXCEPT !.io = io, !.allocated = A, !.dataRefs = R, !.metadata = M, !.pendingSectorWrites = W,
                    !.files = F]
  BY DEF Unlinked
<1>2. Storage(io, DOMAIN d.io.host \ {f.host}) /\ (d.io.fault = 0 => io.fault = 0)
  <2>1. Storage(d.io, DOMAIN d.io.host)
    BY ImageStorage
  <2> DEFINE h == f.host
             H == DOMAIN d.io.host
  <2>2. Storage(d.io, H) /\ h \in H /\ io = Unlink(d.io, h)
    BY <2>1
  <2> HIDE DEF h, H, io
  <2>3. Storage(io, H \ {h}) /\ (d.io.fault = 0 => io.fault = 0)
    <3> DEFINE u == d.io
    <3>1. SdfsGuest /\ Storage(u, H) /\ h \in H /\ io = Unlink(u, h)
      BY <2>2
    <3> HIDE DEF u
    <3>2. Storage(Unlink(u, h), H \ {h}) /\ (u.fault = 0 => Unlink(u, h).fault = 0)
      BY ONLY <3>1, UnlinkIs
    <3> QED BY <3>1, <3>2 DEF u
  <2> QED BY <2>3 DEF h, H
<1>3. DOMAIN R = DOMAIN d.dataRefs \ ED /\ \A x \in DOMAIN d.dataRefs \ ED : R[x] = d.dataRefs[x]
  <2> HIDE DEF ED
  <2> QED BY WithoutIs
<1>4. DOMAIN M = DOMAIN d.metadata \ EM /\ \A x \in DOMAIN d.metadata \ EM : M[x] = d.metadata[x]
  <2> HIDE DEF EM
  <2> QED BY WithoutIs
<1>5. DOMAIN W = DOMAIN d.pendingSectorWrites \ EM
      /\ \A x \in DOMAIN d.pendingSectorWrites \ EM : W[x] = d.pendingSectorWrites[x]
  <2> HIDE DEF EM
  <2> QED BY WithoutIs
<1>6. /\ F \in Seq(FileRecs) /\ DOMAIN F = DOMAIN d.files /\ F[i].length = 0 /\ F[i].dataSectors = <<>>
      /\ F[i].mapSectors = <<>> /\ \A j \in DOMAIN d.files : j # i => F[j] = d.files[j]
  <2>1. d.files \in Seq(FileRecs) /\ d.files[i] \in FileRecs
    BY DEF Image
  <2> DEFINE r == Emptied(d.files[i])
  <2>2. r \in FileRecs /\ r.length = 0 /\ r.dataSectors = <<>> /\ r.mapSectors = <<>>
    BY <2>1, EmptiedIs
  <2>3. F = [d.files EXCEPT ![i] = r]
    OBVIOUS
  <2> HIDE DEF F, r
  <2> QED BY <2>1, <2>2, <2>3
<1>7. A = d.allocated \ (ED \cup EM)
  OBVIOUS
<1> HIDE DEF io, A, R, M, W, F, g
<1>8. g = Made(F, A, M, R, d.directory, W, d.pendingCreates, d.pendingAppends, d.pendingReplacements, io, d.error)
  <2> DEFINE g1 == [d EXCEPT !.io = io]
             g2 == [d EXCEPT !.io = io, !.allocated = A]
             g3 == [d EXCEPT !.io = io, !.allocated = A, !.dataRefs = R]
             g4 == [d EXCEPT !.io = io, !.allocated = A, !.dataRefs = R, !.metadata = M]
             g5 == [d EXCEPT !.io = io, !.allocated = A, !.dataRefs = R, !.metadata = M, !.pendingSectorWrites = W]
  <2>1. g2 = [g1 EXCEPT !.allocated = A]
    OBVIOUS
  <2>2. g3 = [g2 EXCEPT !.dataRefs = R]
    OBVIOUS
  <2>3. g4 = [g3 EXCEPT !.metadata = M]
    OBVIOUS
  <2>4. g5 = [g4 EXCEPT !.pendingSectorWrites = W]
    OBVIOUS
  <2>5. g = [g5 EXCEPT !.files = F]
    BY <1>1
  <2>6. g1 = Made(d.files, d.allocated, d.metadata, d.dataRefs, d.directory,
                 d.pendingSectorWrites, d.pendingCreates, d.pendingAppends, d.pendingReplacements,
                 io, d.error)
    BY ImageShape DEF Made
  <2> HIDE DEF g1, g2, g3, g4, g5
  <2>7. g2 = Made(d.files, A, d.metadata, d.dataRefs, d.directory,
                 d.pendingSectorWrites, d.pendingCreates, d.pendingAppends, d.pendingReplacements,
                 io, d.error)
    BY <2>1, <2>6 DEF Made
  <2>8. g3 = Made(d.files, A, d.metadata, R, d.directory,
                 d.pendingSectorWrites, d.pendingCreates, d.pendingAppends, d.pendingReplacements,
                 io, d.error)
    BY <2>2, <2>7 DEF Made
  <2>9. g4 = Made(d.files, A, M, R, d.directory,
                 d.pendingSectorWrites, d.pendingCreates, d.pendingAppends, d.pendingReplacements,
                 io, d.error)
    BY <2>3, <2>8 DEF Made
  <2>10. g5 = Made(d.files, A, M, R, d.directory,
                 W, d.pendingCreates, d.pendingAppends, d.pendingReplacements,
                 io, d.error)
    BY <2>4, <2>9 DEF Made
  <2> QED BY <2>5, <2>10 DEF Made
<1>9. /\ DOMAIN d.directory = 1 .. Slots /\ DOMAIN W \subseteq Sectors
      /\ Storage(io, DOMAIN io.host) /\ d.error \in BOOLEAN
  BY <1>2, <1>5 DEF Image, Storage
<1>10. /\ g.files = F /\ g.allocated = A /\ g.metadata = M /\ g.dataRefs = R
       /\ g.directory = d.directory /\ g.pendingSectorWrites = W
       /\ g.pendingCreates = d.pendingCreates /\ g.pendingAppends = d.pendingAppends
       /\ g.pendingReplacements = d.pendingReplacements /\ g.io = io /\ g.error = d.error /\ Image(g)
  BY <1>6, <1>8, <1>9, MadeIs
<1>11. DOMAIN g.io.host = DOMAIN d.io.host \ {f.host} /\ (d.io.fault = 0 => g.io.fault = 0)
  BY <1>2, <1>10 DEF Storage
<1> HIDE DEF ED, EM
<1>12. /\ g.files[i].length = 0 /\ g.files[i].dataSectors = <<>> /\ g.files[i].mapSectors = <<>>
       /\ \A j \in DOMAIN d.files : j # i => g.files[j] = d.files[j]
       /\ DOMAIN g.files = DOMAIN d.files
  BY <1>6, <1>10
<1>13. /\ g.allocated = d.allocated \ (ED \cup EM)
       /\ DOMAIN g.dataRefs = DOMAIN d.dataRefs \ ED /\ \A x \in DOMAIN d.dataRefs \ ED : g.dataRefs[x] = d.dataRefs[x]
       /\ DOMAIN g.metadata = DOMAIN d.metadata \ EM /\ \A x \in DOMAIN d.metadata \ EM : g.metadata[x] = d.metadata[x]
       /\ DOMAIN g.pendingSectorWrites = DOMAIN d.pendingSectorWrites \ EM
       /\ \A x \in DOMAIN d.pendingSectorWrites \ EM : g.pendingSectorWrites[x] = d.pendingSectorWrites[x]
  BY <1>3, <1>4, <1>5, <1>7, <1>10
<1> QED BY <1>10, <1>11, <1>12, <1>13 DEF g, ED, EM, io

(* The outcome of a deletion. *)
Erased(d, e, cat, n) ==
    /\ Image(e) /\ e.error = d.error /\ e.directory = d.directory
    /\ e.pendingCreates = d.pendingCreates /\ e.pendingAppends = d.pendingAppends
    /\ e.pendingReplacements = d.pendingReplacements
    /\ Layout(e, Without(cat, {n}))
    /\ \A m \in DOMAIN cat \ {n} : Reads(d, cat[m]) => Reads(e, cat[m])
    /\ Lasts(d, e) /\ Unmapped(e, cat, n) /\ e.io = Unlink(d.io, cat[n].host)

(* With Settle, the file is out of the layout and the others read as       *)
(* before.                                                                 *)
LEMMA EraseIs ==
    ASSUME SdfsGuest, NEW d, Image(d), NEW cat, Catalogue(cat), Layout(d, cat), NEW n \in DOMAIN cat,
           NEW i \in DOMAIN d.files, d.files[i] = Record(n, cat[n])
    PROVE  Erased(d, Settle(Unlinked(d, i, cat[n])), cat, n)
<1> DEFINE f == cat[n]
           g == Unlinked(d, i, f)
           e == Settle(g)
<1>1. Sound(f) /\ f = cat[n]
  BY DEF Catalogue
<1>2. f.host \in DOMAIN d.io.host
  BY DEF Layout
<1> HIDE DEF f
<1>3. /\ Image(g) /\ DOMAIN g.files = DOMAIN d.files
      /\ g.files[i].length = 0 /\ g.files[i].dataSectors = <<>> /\ g.files[i].mapSectors = <<>>
      /\ \A j \in DOMAIN d.files : j # i => g.files[j] = d.files[j]
      /\ g.allocated = d.allocated \ (Elems(f.data) \cup Elems(f.maps))
      /\ DOMAIN g.dataRefs = DOMAIN d.dataRefs \ Elems(f.data)
      /\ \A x \in DOMAIN d.dataRefs \ Elems(f.data) : g.dataRefs[x] = d.dataRefs[x]
      /\ DOMAIN g.metadata = DOMAIN d.metadata \ Elems(f.maps)
      /\ \A x \in DOMAIN d.metadata \ Elems(f.maps) : g.metadata[x] = d.metadata[x]
      /\ DOMAIN g.pendingSectorWrites = DOMAIN d.pendingSectorWrites \ Elems(f.maps)
      /\ \A x \in DOMAIN d.pendingSectorWrites \ Elems(f.maps) :
               g.pendingSectorWrites[x] = d.pendingSectorWrites[x]
      /\ g.directory = d.directory /\ g.pendingCreates = d.pendingCreates
      /\ g.pendingAppends = d.pendingAppends /\ g.pendingReplacements = d.pendingReplacements
      /\ g.error = d.error /\ DOMAIN g.io.host = DOMAIN d.io.host \ {f.host} /\ g.io = Unlink(d.io, f.host)
  BY <1>2, UnlinkedIs
<1> HIDE DEF g
<1>4. /\ Image(e) /\ e.files = g.files /\ e.allocated = g.allocated /\ e.dataRefs = g.dataRefs
      /\ e.directory = g.directory /\ e.pendingCreates = g.pendingCreates
      /\ e.pendingAppends = g.pendingAppends /\ e.pendingReplacements = g.pendingReplacements
      /\ e.io = g.io /\ e.error = g.error
      /\ DOMAIN e.metadata = DOMAIN g.metadata
      /\ DOMAIN e.pendingSectorWrites = DOMAIN g.pendingSectorWrites \ DOMAIN g.metadata
      /\ \A m \in DOMAIN g.metadata : e.metadata[m] = Value(g, m)
      /\ \A x \in DOMAIN g.pendingSectorWrites \ DOMAIN g.metadata :
               e.pendingSectorWrites[x] = g.pendingSectorWrites[x]
  BY <1>3, SettleIs
<1> HIDE DEF e
<1>5. Layout(e, Without(cat, {n}))
  <2>1. Leaves(d, e, cat, n, i)
    BY <1>1, <1>3, <1>4 DEF Leaves
  <2> QED BY <1>4, <2>1, LeftIs
<1>6. ASSUME NEW m \in DOMAIN cat \ {n}, Reads(d, cat[m])
      PROVE  Reads(e, cat[m])
  <2>1. Sound(cat[m]) /\ Elems(cat[m].maps) \cap Elems(f.maps) = {} /\ Elems(cat[m].maps) \subseteq DOMAIN d.metadata
    <3>1. Sound(cat[m]) /\ Apart(cat[m], f)
      BY <1>1 DEF Catalogue
    <3>2. Elems(cat[m].maps) \subseteq DOMAIN d.metadata
      BY DEF Layout
    <3> QED BY <3>1, <3>2 DEF Apart, SectorsOf
  <2>2. ASSUME NEW k \in 1 .. Len(cat[m].maps)
        PROVE  /\ cat[m].maps[k] \in DOMAIN e.metadata \cup DOMAIN e.pendingSectorWrites
               /\ Value(e, cat[m].maps[k]) = MapImage(cat[m].maps, cat[m].data, k)
    <3> DEFINE x == cat[m].maps[k]
    <3>1. x \in Elems(cat[m].maps)
      BY <2>1, SectorsAt
    <3>2. x \in DOMAIN d.metadata /\ x \notin Elems(f.maps)
      BY <2>1, <3>1
    <3>3. Value(d, x) = MapImage(cat[m].maps, cat[m].data, k)
      BY <1>6, <2>2 DEF Reads
    <3> HIDE DEF x
    <3>4. x \in DOMAIN g.metadata /\ Value(g, x) = Value(d, x)
      BY <1>3, <3>2 DEF Value
    <3>5. x \in DOMAIN e.metadata /\ x \notin DOMAIN e.pendingSectorWrites /\ e.metadata[x] = Value(g, x)
      BY <1>4, <3>4
    <3>6. Value(e, x) = Value(g, x)
      BY <3>5 DEF Value
    <3> QED BY <3>3, <3>4, <3>5, <3>6 DEF x
  <2> QED BY <2>2 DEF Reads
<1>8. Lasts(d, e)
  BY <1>3, <1>4 DEF Lasts
<1>9. Unmapped(e, cat, n)
  BY <1>1, <1>3, <1>4 DEF Unmapped
<1>7. Erased(d, e, cat, n)
  BY <1>1, <1>3, <1>4, <1>5, <1>6, <1>8, <1>9 DEF Erased
<1> QED BY <1>7 DEF e, g, f

(* commitDelete does that, and does not fail. *)
LEMMA EraseCommits ==
    ASSUME SdfsGuest, NEW d, Image(d), NEW cat, Catalogue(cat), Layout(d, cat), NEW n \in DOMAIN cat,
           NEW a, a.status = "deleted"
    PROVE  Erased(d, CommitDelete(d, EntryOf(n, cat[n]), a), cat, n)
<1> DEFINE f == cat[n]
           b == EntryOf(n, f)
<1>1. PICK i \in DOMAIN d.files :
         /\ d.files[i] = Record(n, f) /\ i \in Nat /\ Live(d, i) /\ FilesAt(d, f.maps[1], n) = {i} /\ Min({i}) = i
  <2>1. \E i \in DOMAIN d.files : IsFile(d, cat, n, i)
    BY TheFile
  <2> QED BY ONLY <2>1 DEF IsFile
<1>2. Sound(f)
  BY DEF Catalogue
<1>3. d.files[i].hostName = f.host /\ d.files[i].dataSectors = f.data /\ d.files[i].mapSectors = f.maps
  BY <1>1, <1>2, RecordIs
<1>4. b.status = "active" /\ b.map = f.maps[1] /\ b.name = n
  BY DEF EntryOf
<1> DEFINE at == {j \in FilesAt(d, b.map, b.name) : d.files[j].length > 0}
           io == Unlink(d.io, d.files[i].hostName)
<1>5. at = {i}
  BY <1>1, <1>4 DEF Live
<1>6. io.ok /\ io = Unlink(d.io, f.host)
  <2> DEFINE h == f.host
             H == DOMAIN d.io.host
             u == d.io
  <2>1. SdfsGuest /\ Storage(u, H) /\ h \in H
    BY ImageStorage DEF Layout
  <2>2. io = Unlink(u, h)
    BY <1>3
  <2> HIDE DEF h, H, u, io
  <2>3. Unlink(u, h).ok
    BY ONLY <2>1, UnlinkIs
  <2> QED BY <2>2, <2>3 DEF u, h
<1>7. CommitDelete(d, b, a) = Settle(Unlinked(d, i, f))
  <2> DEFINE full ==
        Settle([d EXCEPT !.io = io, !.allocated = @ \ (Elems(d.files[i].dataSectors) \cup Elems(d.files[i].mapSectors)),
                !.dataRefs = Without(@, Elems(d.files[i].dataSectors)),
                !.metadata = Without(@, Elems(d.files[i].mapSectors)),
                !.pendingSectorWrites = Without(@, Elems(d.files[i].mapSectors)),
                !.files[i] = [@ EXCEPT !.length = 0, !.dataSectors = <<>>, !.mapSectors = <<>>]])
  <2>1. full = Settle(Unlinked(d, i, f))
    BY <1>3, <1>6 DEF Unlinked, Emptied
  <2> DEFINE none == at = {}
             ok == io.ok
             t == Min(at)
  <2>2. t = i
    BY <1>1, <1>5
  <2>3. CommitDelete(d, b, a) = full
    <3> HIDE DEF b
    <3>1. CommitDelete(d, b, a) =
            LET ff == d.files[t]
                uu == Unlink(d.io, ff.hostName)
            IN  IF b.status # "active" \/ a.status # "deleted" \/ at = {} THEN d
                ELSE IF ~uu.ok THEN Failed(d, uu)
                ELSE Settle([d EXCEPT !.io = uu, !.allocated = @ \ (Elems(ff.dataSectors) \cup Elems(ff.mapSectors)),
                        !.dataRefs = Without(@, Elems(ff.dataSectors)),
                        !.metadata = Without(@, Elems(ff.mapSectors)),
                        !.pendingSectorWrites = Without(@, Elems(ff.mapSectors)),
                        !.files[t] = [@ EXCEPT !.length = 0, !.dataSectors = <<>>, !.mapSectors = <<>>]])
      BY DEF CommitDelete
    <3>2. at # {}
      BY <1>5
    <3> HIDE DEF at, t, full
    <3>3. CommitDelete(d, b, a) =
            LET uu == Unlink(d.io, d.files[i].hostName)
            IN  IF ~uu.ok THEN Failed(d, uu)
                ELSE Settle([d EXCEPT !.io = uu, !.allocated = @ \ (Elems(d.files[i].dataSectors) \cup Elems(d.files[i].mapSectors)),
                        !.dataRefs = Without(@, Elems(d.files[i].dataSectors)),
                        !.metadata = Without(@, Elems(d.files[i].mapSectors)),
                        !.pendingSectorWrites = Without(@, Elems(d.files[i].mapSectors)),
                        !.files[i] = [@ EXCEPT !.length = 0, !.dataSectors = <<>>, !.mapSectors = <<>>]])
      BY <1>4, <2>2, <3>1, <3>2
    <3> QED BY <1>6, <3>3 DEF full
  <2> QED BY <2>1, <2>3
<1>8. Erased(d, Settle(Unlinked(d, i, f)), cat, n)
  BY <1>1, EraseIs
<1> QED BY <1>7, <1>8

(* The host call of a renaming, and its outcome. *)
RenameIo(d, h, title) == IF h = title THEN [d.io EXCEPT !.ok = TRUE] ELSE RenameTo(d.io, h, title)

Renamed(d, e, cat, n, title, f) ==
    /\ Image(e) /\ e.error = d.error /\ e.directory = d.directory
    /\ e.pendingCreates = d.pendingCreates /\ e.pendingAppends = d.pendingAppends
    /\ DOMAIN e.pendingReplacements \subseteq DOMAIN d.pendingReplacements
    /\ e.metadata = d.metadata /\ e.pendingSectorWrites = d.pendingSectorWrites
    /\ Layout(e, Put(Without(cat, {n}), title, f)) /\ e.io = RenameIo(d, cat[n].host, title)

(* The step from d to e gives the file i another name. *)
Moves(d, e, cat, n, title, f, i) ==
    /\ n \in DOMAIN cat /\ title \notin DOMAIN cat /\ title \in AllNames /\ Sound(f) /\ f.maps = cat[n].maps /\ f.data = cat[n].data
    /\ i \in DOMAIN d.files /\ d.files[i] = Record(n, cat[n]) /\ e.files[i] = Record(title, f)
    /\ DOMAIN e.files = DOMAIN d.files /\ \A j \in DOMAIN d.files : j # i => e.files[j] = d.files[j]
    /\ e.allocated = d.allocated /\ e.metadata = d.metadata /\ e.dataRefs = d.dataRefs
    /\ DOMAIN e.io.host = (DOMAIN d.io.host \ {cat[n].host}) \cup {f.host}

(* An image where a file has a new name is laid out with it. *)
LEMMA MovedIs ==
    ASSUME NEW d, NEW e, Image(d), Image(e), NEW cat, Catalogue(cat), Layout(d, cat), NEW n, NEW title, NEW f, NEW i,
           Moves(d, e, cat, n, title, f, i)
    PROVE  Layout(e, Put(Without(cat, {n}), title, f))
<1> DEFINE new == Put(Without(cat, {n}), title, f)
           others == DOMAIN cat \ {n}
<1>1. DOMAIN new = others \cup {title} /\ new[title] = f /\ \A m \in others : new[m] = cat[m]
  <2>1. DOMAIN Without(cat, {n}) = others /\ \A m \in others : Without(cat, {n})[m] = cat[m]
    BY WithoutIs
  <2>2. title \notin others
    BY DEF Moves
  <2>3. DOMAIN new = DOMAIN Without(cat, {n}) \cup {title} /\ new[title] = f
        /\ \A m \in DOMAIN Without(cat, {n}) \ {title} : new[m] = Without(cat, {n})[m]
    <3> DEFINE w == Without(cat, {n})
    <3>1. new = Put(w, title, f)
      OBVIOUS
    <3> HIDE DEF w, new
    <3>2. DOMAIN Put(w, title, f) = DOMAIN w \cup {title} /\ Put(w, title, f)[title] = f
          /\ \A m \in DOMAIN w \ {title} : Put(w, title, f)[m] = w[m]
      BY DEF Put
    <3> QED BY <3>1, <3>2 DEF w
  <2> QED BY <2>1, <2>2, <2>3
<1> HIDE DEF new
<1>2. \A m \in DOMAIN cat : Sound(cat[m])
  BY DEF Catalogue
<1>3. /\ n \in DOMAIN cat /\ title \notin DOMAIN cat /\ Sound(f) /\ f.maps = cat[n].maps /\ f.data = cat[n].data
      /\ i \in DOMAIN d.files /\ d.files[i] = Record(n, cat[n]) /\ e.files[i] = Record(title, f)
      /\ DOMAIN e.files = DOMAIN d.files /\ \A j \in DOMAIN d.files : j # i => e.files[j] = d.files[j]
  BY DEF Moves
<1>4. d.files[i].name = n /\ d.files[i].length > 0 /\ d.files[i].dataSectors = cat[n].data
  BY <1>2, <1>3, RecordIs
<1>5. e.files[i].name = title /\ e.files[i].length > 0 /\ e.files[i].dataSectors = f.data
  <2>1. Sound(f) /\ e.files[i] = Record(title, f)
    BY <1>3
  <2>2. Record(title, f).name = title /\ Record(title, f).length > 0 /\ Record(title, f).dataSectors = f.data
    BY ONLY <2>1, RecordIs
  <2> QED BY <2>1, <2>2
<1>6. ASSUME NEW j \in DOMAIN d.files, j # i
      PROVE  \/ d.files[j].length = 0 /\ d.files[j].dataSectors = <<>> /\ d.files[j].mapSectors = <<>>
             \/ d.files[j].name \in others /\ d.files[j] = Record(d.files[j].name, cat[d.files[j].name])
  <2>1. CASE d.files[j].name = n /\ d.files[j].length > 0
    BY <1>3, <1>4, <1>6, <2>1 DEF Layout, Live
  <2> QED BY <2>1, FileIs
<1>7. \A j \in DOMAIN e.files :
        \/ e.files[j].length = 0 /\ e.files[j].dataSectors = <<>> /\ e.files[j].mapSectors = <<>>
        \/ e.files[j].name \in DOMAIN new /\ e.files[j] = Record(e.files[j].name, new[e.files[j].name])
  <2> TAKE j \in DOMAIN e.files
  <2>1. CASE j = i
    BY <1>1, <1>3, <1>5, <2>1
  <2>2. CASE j # i
    BY <1>1, <1>3, <1>6, <2>2
  <2> QED BY <2>1, <2>2
<1>8. \A m \in DOMAIN new : \E j \in DOMAIN e.files : e.files[j] = Record(m, new[m])
  <2> TAKE m \in DOMAIN new
  <2>1. CASE m = title
    BY <1>1, <1>3, <2>1
  <2>2. CASE m # title
    <3>1. m \in others /\ new[m] = cat[m]
      BY <1>1, <2>2
    <3>2. PICK j \in DOMAIN d.files : d.files[j] = Record(m, cat[m])
      BY <3>1 DEF Layout
    <3>3. Record(m, cat[m]).name = m
      BY <1>2, <3>1, RecordIs
    <3>4. j # i
      BY <1>4, <3>1, <3>2, <3>3
    <3> QED BY <1>3, <3>1, <3>2, <3>4
  <2> QED BY <2>1, <2>2
<1>9. ASSUME NEW j \in DOMAIN e.files, NEW k \in DOMAIN e.files, Live(e, j), Live(e, k),
             e.files[j].name = e.files[k].name
      PROVE  j = k
  <2>1. ASSUME NEW h \in DOMAIN d.files, h # i, e.files[h].length > 0 PROVE e.files[h].name # title
    <3>1. e.files[h] = d.files[h]
      BY <1>3, <2>1
    <3>2. ~(0 > 0)
      OBVIOUS
    <3> QED BY <1>3, <1>6, <2>1, <3>1, <3>2
  <2>2. CASE j = i
    BY <1>3, <1>5, <1>9, <2>1, <2>2 DEF Live
  <2>3. CASE k = i
    BY <1>3, <1>5, <1>9, <2>1, <2>3 DEF Live
  <2>4. CASE j # i /\ k # i
    BY <1>3, <1>9, <2>4 DEF Layout, Live
  <2> QED BY <2>2, <2>3, <2>4
<1>10. UNION {Elems(new[m].data) : m \in DOMAIN new} = UNION {Elems(cat[m].data) : m \in DOMAIN cat}
  <2>1. ASSUME NEW m \in DOMAIN new PROVE \E l \in DOMAIN cat : new[m].data = cat[l].data
    BY <1>1, <1>3
  <2>2. ASSUME NEW l \in DOMAIN cat PROVE \E m \in DOMAIN new : new[m].data = cat[l].data
    <3>1. CASE l = n
      BY <1>1, <1>3, <3>1
    <3>2. CASE l # n
      BY <1>1, <3>2
    <3> QED BY <3>1, <3>2
  <2>3. ASSUME NEW x, x \in UNION {Elems(new[m].data) : m \in DOMAIN new}
        PROVE  x \in UNION {Elems(cat[m].data) : m \in DOMAIN cat}
    <3>1. PICK m \in DOMAIN new : x \in Elems(new[m].data)
      BY <2>3
    <3> QED BY <2>1, <3>1
  <2>4. ASSUME NEW x, x \in UNION {Elems(cat[m].data) : m \in DOMAIN cat}
        PROVE  x \in UNION {Elems(new[m].data) : m \in DOMAIN new}
    <3>1. PICK m \in DOMAIN cat : x \in Elems(cat[m].data)
      BY <2>4
    <3> QED BY <2>2, <3>1
  <2> QED BY <2>3, <2>4
<1>11. UNION {Elems(new[m].maps) : m \in DOMAIN new} = UNION {Elems(cat[m].maps) : m \in DOMAIN cat}
  <2>1. ASSUME NEW m \in DOMAIN new PROVE \E l \in DOMAIN cat : new[m].maps = cat[l].maps
    BY <1>1, <1>3
  <2>2. ASSUME NEW l \in DOMAIN cat PROVE \E m \in DOMAIN new : new[m].maps = cat[l].maps
    <3>1. CASE l = n
      BY <1>1, <1>3, <3>1
    <3>2. CASE l # n
      BY <1>1, <3>2
    <3> QED BY <3>1, <3>2
  <2>3. ASSUME NEW x, x \in UNION {Elems(new[m].maps) : m \in DOMAIN new}
        PROVE  x \in UNION {Elems(cat[m].maps) : m \in DOMAIN cat}
    <3>1. PICK m \in DOMAIN new : x \in Elems(new[m].maps)
      BY <2>3
    <3> QED BY <2>1, <3>1
  <2>4. ASSUME NEW x, x \in UNION {Elems(cat[m].maps) : m \in DOMAIN cat}
        PROVE  x \in UNION {Elems(new[m].maps) : m \in DOMAIN new}
    <3>1. PICK m \in DOMAIN cat : x \in Elems(cat[m].maps)
      BY <2>4
    <3> QED BY <2>2, <3>1
  <2> QED BY <2>3, <2>4
<1>12. /\ DOMAIN e.dataRefs = UNION {Elems(new[m].data) : m \in DOMAIN new}
       /\ DOMAIN e.metadata = UNION {Elems(new[m].maps) : m \in DOMAIN new}
       /\ e.allocated = DOMAIN e.dataRefs \cup DOMAIN e.metadata
  <2>1. e.dataRefs = d.dataRefs /\ e.metadata = d.metadata /\ e.allocated = d.allocated
    BY DEF Moves
  <2>2. /\ DOMAIN d.dataRefs = UNION {Elems(cat[m].data) : m \in DOMAIN cat}
        /\ DOMAIN d.metadata = UNION {Elems(cat[m].maps) : m \in DOMAIN cat}
        /\ d.allocated = DOMAIN d.dataRefs \cup DOMAIN d.metadata
    BY DEF Layout
  <2> QED BY <1>10, <1>11, <2>1, <2>2
<1>13. ASSUME NEW j \in DOMAIN e.files, NEW k \in 1 .. Len(e.files[j].dataSectors)
       PROVE  e.dataRefs[e.files[j].dataSectors[k]] = [file |-> j, at |-> k]
  <2>1. e.files[j].dataSectors = d.files[j].dataSectors /\ j \in DOMAIN d.files
    BY <1>3, <1>4, <1>5
  <2>2. e.dataRefs = d.dataRefs
    BY DEF Moves
  <2> QED BY <2>1, <2>2 DEF Layout
<1>14. DOMAIN e.io.host = {new[m].host : m \in DOMAIN new}
  <2>1. DOMAIN d.io.host = {cat[m].host : m \in DOMAIN cat}
    BY DEF Layout
  <2>2. DOMAIN e.io.host = ({cat[m].host : m \in DOMAIN cat} \ {cat[n].host}) \cup {f.host}
    BY <2>1 DEF Moves
  <2>3. \A m \in others : cat[m].host # cat[n].host
    BY <1>3 DEF Catalogue, Apart
  <2>4. ASSUME NEW h \in DOMAIN e.io.host PROVE \E m \in DOMAIN new : h = new[m].host
    <3>1. CASE h = f.host
      BY <1>1, <3>1
    <3>2. CASE h # f.host
      <4>1. PICK m \in DOMAIN cat : h = cat[m].host /\ h # cat[n].host
        BY <2>2, <3>2
      <4>2. m # n
        BY <4>1
      <4> QED BY <1>1, <4>1, <4>2
    <3> QED BY <3>1, <3>2
  <2>5. ASSUME NEW m \in DOMAIN new PROVE new[m].host \in DOMAIN e.io.host
    BY <1>1, <2>2, <2>3
  <2> QED BY <2>4, <2>5
<1> QED BY <1>7, <1>8, <1>9, <1>12, <1>13, <1>14 DEF Layout, new

(* A file under another name, on the host as well. *)
Titled(r, title) == [r EXCEPT !.hostName = title, !.name = title]

(* The record of a renamed file. *)
LEMMA TitledIs ==
    ASSUME NEW n, NEW old, Sound(old), NEW title, NEW f, Sound(f), f.host = title, f.maps = old.maps, f.data = old.data,
           Len(f.bytes) = Len(old.bytes)
    PROVE  Titled(Record(n, old), title) = Record(title, f)
<1> DEFINE r == Record(n, old)
           g == [r EXCEPT !.hostName = title]
           l == Len(old.bytes)
           s == old.data
           m == old.maps
           h == old.host
<1>1. r = [hostName |-> h, name |-> n, length |-> l, dataSectors |-> s, mapSectors |-> m]
  BY DEF Record
<1>2. Record(title, f) = [hostName |-> title, name |-> title, length |-> l, dataSectors |-> s, mapSectors |-> m]
  BY DEF Record
<1>3. Titled(r, title) = [r EXCEPT !.hostName = title, !.name = title]
  BY DEF Titled
<1> HIDE DEF r, l, s, m, h
<1>4. g = [hostName |-> title, name |-> n, length |-> l, dataSectors |-> s, mapSectors |-> m]
  BY ONLY <1>1, SMTT(60)
<1>5. [r EXCEPT !.hostName = title, !.name = title] = [g EXCEPT !.name = title]
  OBVIOUS
<1> HIDE DEF g
<1>6. [g EXCEPT !.name = title] = [hostName |-> title, name |-> title, length |-> l, dataSectors |-> s, mapSectors |-> m]
  BY ONLY <1>4, SMTT(60)
<1> QED BY <1>2, <1>3, <1>5, <1>6 DEF r

(* The image after a renaming. *)
Retitled(d, i, m, h, title) ==
    [d EXCEPT !.io = RenameIo(d, h, title), !.files[i] = Titled(@, title), !.pendingReplacements = Without(@, {m})]

(* Its host file is renamed, unless it has the name already. *)
LEMMA RenameIoIs ==
    ASSUME SdfsGuest, NEW d, Image(d), NEW h, h \in DOMAIN d.io.host, NEW title,
           title \in DOMAIN d.io.host => h = title
    PROVE  LET io == RenameIo(d, h, title)
           IN  /\ io.ok /\ Storage(io, (DOMAIN d.io.host \ {h}) \cup {title})
               /\ d.io.fault = 0 => io.fault = 0
               /\ h = title => io.host = d.io.host
               /\ h # title => io.host = Put(Without(d.io.host, {h}), title, d.io.host[h])
<1> DEFINE u == d.io
           H == DOMAIN u.host
           io == RenameIo(d, h, title)
<1>1. Storage(u, H)
  BY ImageStorage
<1>2. CASE h = title
  <2>1. io = [u EXCEPT !.ok = TRUE]
    BY <1>2 DEF RenameIo
  <2>2. u = [host |-> u.host, fault |-> u.fault, ok |-> u.ok] /\ u.fault \in Nat
    BY <1>1 DEF Storage
  <2> HIDE DEF u, io
  <2>3. io = [host |-> u.host, fault |-> u.fault, ok |-> TRUE]
    BY <2>1, <2>2
  <2>4. io.ok /\ Storage(io, H) /\ (u.fault = 0 => io.fault = 0) /\ io.host = u.host
    BY <1>1, <2>2, <2>3 DEF Storage
  <2>5. H = (H \ {h}) \cup {title}
    BY <1>2 DEF u
  <2> QED BY <1>2, <2>4, <2>5 DEF u, io
<1>3. CASE h # title
  <2>1. io = RenameTo(u, h, title) /\ title \notin H /\ h \in H
    BY <1>3 DEF RenameIo
  <2>2. SdfsGuest
    OBVIOUS
  <2> HIDE DEF u, H, io
  <2>3. /\ RenameTo(u, h, title).ok /\ Storage(RenameTo(u, h, title), (H \ {h}) \cup {title})
        /\ RenameTo(u, h, title).host = Put(Without(u.host, {h}), title, u.host[h])
        /\ u.fault = 0 => RenameTo(u, h, title).fault = 0
    BY ONLY <1>1, <2>1, <2>2, RenameToIs
  <2>4. RenameTo(u, h, title).host = Put(Without(u.host, {h}), title, u.host[h])
    BY ONLY <2>3
  <2> QED BY <1>3, <2>1, <2>3, <2>4 DEF u, H, io
<1> QED BY <1>2, <1>3

(* What renaming a file does to the image. *)
LEMMA RetitledIs ==
    ASSUME SdfsGuest, NEW d, Image(d), NEW cat, Catalogue(cat), Layout(d, cat), NEW n \in DOMAIN cat,
           NEW title, title \in AllNames, title \notin DOMAIN cat, NEW f, Sound(f), f.host = title,
           f.maps = cat[n].maps, f.data = cat[n].data, Len(f.bytes) = Len(cat[n].bytes),
           NEW i \in DOMAIN d.files, d.files[i] = Record(n, cat[n]), NEW m
    PROVE  Renamed(d, Retitled(d, i, m, cat[n].host, title), cat, n, title, f)
<1> DEFINE h == cat[n].host
           io == RenameIo(d, h, title)
           F == [d.files EXCEPT ![i] = Titled(@, title)]
           C == Without(d.pendingReplacements, {m})
           e == Retitled(d, i, m, h, title)
<1>1. Sound(cat[n])
  BY DEF Catalogue
<1>2. h \in DOMAIN d.io.host /\ (title \in DOMAIN d.io.host => h = title)
  <2>1. DOMAIN d.io.host = {cat[l].host : l \in DOMAIN cat}
    BY DEF Layout
  <2>2. \A l \in DOMAIN cat : cat[l].host # title
    BY DEF Catalogue
  <2> QED BY <2>1, <2>2
<1>3. io.ok /\ Storage(io, (DOMAIN d.io.host \ {h}) \cup {title})
  <2> HIDE DEF h
  <2>1. SdfsGuest /\ Image(d)
    OBVIOUS
  <2> QED BY ONLY <1>2, <2>1, RenameIoIs
<1>4. e = [d EXCEPT !.io = io, !.files = F, !.pendingReplacements = C]
  BY DEF Retitled
<1>5. DOMAIN C \subseteq DOMAIN d.pendingReplacements
  BY DEF Without
<1>6. /\ F \in Seq(FileRecs) /\ DOMAIN F = DOMAIN d.files /\ F[i] = Record(title, f)
      /\ \A j \in DOMAIN d.files : j # i => F[j] = d.files[j]
  <2>1. d.files \in Seq(FileRecs)
    BY DEF Image
  <2>2. Titled(d.files[i], title) = Record(title, f)
    <3>1. Titled(Record(n, cat[n]), title) = Record(title, f)
      <4> DEFINE old == cat[n]
      <4>1. /\ Sound(old) /\ Sound(f) /\ f.host = title /\ f.maps = old.maps /\ f.data = old.data
            /\ Len(f.bytes) = Len(old.bytes)
        BY <1>1
      <4> HIDE DEF old
      <4>2. Titled(Record(n, old), title) = Record(title, f)
        BY ONLY <4>1, TitledIs, SMTT(60)
      <4> QED BY <4>2 DEF old
    <3> QED BY <3>1
  <2>3. Record(title, f) \in FileRecs
    <3>1. /\ f.host \in Paths /\ Len(f.bytes) \in Nat /\ f.data \in Seq(Sectors) /\ f.maps \in Seq(Sectors)
      BY SoundFacts
    <3> QED BY <3>1 DEF Record, FileRecs
  <2> DEFINE r == Record(title, f)
  <2>4. F = [d.files EXCEPT ![i] = r]
    BY <2>2
  <2> HIDE DEF F, r
  <2>5. r \in FileRecs
    BY <2>3 DEF r
  <2>6. /\ F \in Seq(FileRecs) /\ DOMAIN F = DOMAIN d.files /\ F[i] = r
        /\ \A j \in DOMAIN d.files : j # i => F[j] = d.files[j]
    BY <2>1, <2>4, <2>5
  <2> QED BY <2>6 DEF r
<1> HIDE DEF io, F, C, e
<1>7. e = Made(F, d.allocated, d.metadata, d.dataRefs, d.directory, d.pendingSectorWrites, d.pendingCreates,
               d.pendingAppends, C, io, d.error)
  <2> DEFINE g1 == [d EXCEPT !.io = io]
             g2 == [d EXCEPT !.io = io, !.files = F]
  <2>1. g2 = [g1 EXCEPT !.files = F]
    OBVIOUS
  <2>2. e = [g2 EXCEPT !.pendingReplacements = C]
    BY <1>4
  <2>3. g1 = Made(d.files, d.allocated, d.metadata, d.dataRefs, d.directory,
                 d.pendingSectorWrites, d.pendingCreates, d.pendingAppends, d.pendingReplacements,
                 io, d.error)
    BY ImageShape DEF Made
  <2> HIDE DEF g1, g2
  <2>4. g2 = Made(F, d.allocated, d.metadata, d.dataRefs, d.directory,
                 d.pendingSectorWrites, d.pendingCreates, d.pendingAppends, d.pendingReplacements,
                 io, d.error)
    BY <2>1, <2>3 DEF Made
  <2> QED BY <2>2, <2>4 DEF Made
<1>8. /\ DOMAIN d.directory = 1 .. Slots /\ DOMAIN d.pendingSectorWrites \subseteq Sectors
      /\ Storage(io, DOMAIN io.host) /\ d.error \in BOOLEAN
  BY <1>3 DEF Image, Storage
<1>9. /\ e.files = F /\ e.allocated = d.allocated /\ e.metadata = d.metadata /\ e.dataRefs = d.dataRefs
      /\ e.directory = d.directory /\ e.pendingSectorWrites = d.pendingSectorWrites
      /\ e.pendingCreates = d.pendingCreates /\ e.pendingAppends = d.pendingAppends
      /\ e.pendingReplacements = C /\ e.io = io /\ e.error = d.error /\ Image(e)
  BY <1>6, <1>7, <1>8, MadeIs
<1>10. DOMAIN e.io.host = (DOMAIN d.io.host \ {h}) \cup {f.host}
  BY <1>3, <1>9 DEF Storage
<1>11. Moves(d, e, cat, n, title, f, i)
  BY <1>6, <1>9, <1>10 DEF Moves
<1>12. Layout(e, Put(Without(cat, {n}), title, f))
  BY <1>9, <1>11, MovedIs
<1> QED BY <1>5, <1>9, <1>12 DEF Renamed, e, io

(* commitRename does that, and does not fail. *)
LEMMA RenameCommits ==
    ASSUME SdfsGuest, NEW d, Image(d), NEW cat, Catalogue(cat), Layout(d, cat), NEW n \in DOMAIN cat,
           NEW title, title \in AllNames, title \notin DOMAIN cat, NEW f, Sound(f), f.host = title,
           f.maps = cat[n].maps, f.data = cat[n].data, Len(f.bytes) = Len(cat[n].bytes)
    PROVE  Renamed(d, CommitRename(d, EntryOf(n, cat[n]), EntryOf(title, f)), cat, n, title, f)
<1> DEFINE old == cat[n]
           b == EntryOf(n, old)
           a == EntryOf(title, f)
           m == old.maps[1]
<1>1. PICK i \in DOMAIN d.files :
         /\ d.files[i] = Record(n, old) /\ i \in Nat /\ Live(d, i) /\ FilesAt(d, m, n) = {i} /\ Min({i}) = i
  <2>1. \E i \in DOMAIN d.files : IsFile(d, cat, n, i)
    BY TheFile
  <2> QED BY ONLY <2>1 DEF IsFile
<1>2. Sound(old)
  BY DEF Catalogue
<1>3. d.files[i].hostName = old.host
  BY <1>1, <1>2, RecordIs
<1>4. /\ b.status = "active" /\ a.status = "active" /\ b.name = n /\ a.name = title /\ b.map = m /\ a.map = m
      /\ b.length = a.length /\ n # title
  BY DEF EntryOf
<1> DEFINE h == old.host
           io == RenameIo(d, h, title)
           at == FilesAt(d, b.map, b.name)
           t == Min(at)
<1>5. at = {i} /\ t = i
  BY <1>1, <1>4
<1>6. io.ok
  <2>1. DOMAIN d.io.host = {cat[l].host : l \in DOMAIN cat}
    BY DEF Layout
  <2>2. \A l \in DOMAIN cat : cat[l].host # title
    BY DEF Catalogue
  <2>3. h \in DOMAIN d.io.host /\ (title \in DOMAIN d.io.host => h = title)
    BY <2>1, <2>2
  <2> HIDE DEF h
  <2>4. SdfsGuest /\ Image(d)
    OBVIOUS
  <2> QED BY ONLY <2>3, <2>4, RenameIoIs
<1>7. ~\E k \in DOMAIN d.files \ {i} : d.files[k].length > 0 /\ d.files[k].name = title
  BY NoFile
<1>8. CommitRename(d, b, a) = Retitled(d, i, m, h, title)
  <2> HIDE DEF b, a
  <2>1. CommitRename(d, b, a) =
          LET hh   == d.files[t].hostName
              done == IF hh = a.name THEN [d.io EXCEPT !.ok = TRUE] ELSE RenameTo(d.io, hh, a.name)
          IN  IF \/ b.status # "active" \/ a.status # "active" \/ b.name = a.name
                 \/ b.map # a.map \/ b.length # a.length \/ at = {} THEN d
              ELSE IF \E k \in DOMAIN d.files \ {t} : d.files[k].length > 0 /\ d.files[k].name = a.name
                   THEN Fail(d)
              ELSE IF ~done.ok THEN Failed(d, done)
              ELSE [d EXCEPT !.io = done,
                             !.files[t] = [@ EXCEPT !.hostName = a.name, !.name = a.name],
                             !.pendingReplacements = Without(@, {b.map})]
    BY DEF CommitRename
  <2>2. at # {}
    BY <1>5
  <2> HIDE DEF at, t
  <2>3. CommitRename(d, b, a) =
          LET done == IF h = title THEN [d.io EXCEPT !.ok = TRUE] ELSE RenameTo(d.io, h, title)
          IN  IF ~done.ok THEN Failed(d, done)
              ELSE [d EXCEPT !.io = done,
                             !.files[i] = [@ EXCEPT !.hostName = title, !.name = title],
                             !.pendingReplacements = Without(@, {m})]
    <3>1. a.name = title /\ d.files[t].hostName = h /\ t = i /\ b.map = m
      BY <1>3, <1>4, <1>5
    <3>2. ~(\/ b.status # "active" \/ a.status # "active" \/ b.name = a.name
                 \/ b.map # a.map \/ b.length # a.length \/ at = {})
      BY <1>4, <2>2
    <3> HIDE DEF h, m
    <3> QED BY ONLY <1>7, <2>1, <3>1, <3>2, Zenon
  <2> QED BY <1>6, <2>3 DEF RenameIo, Retitled, Titled
<1>9. Renamed(d, Retitled(d, i, m, h, title), cat, n, title, f)
  <2> HIDE DEF m
  <2>1. SdfsGuest /\ Image(d) /\ Catalogue(cat) /\ Layout(d, cat) /\ n \in DOMAIN cat /\ title \in AllNames
        /\ title \notin DOMAIN cat /\ Sound(f) /\ f.host = title /\ f.maps = cat[n].maps /\ f.data = cat[n].data
        /\ Len(f.bytes) = Len(cat[n].bytes) /\ i \in DOMAIN d.files /\ d.files[i] = Record(n, cat[n])
    BY <1>1
  <2> QED BY ONLY <2>1, RetitledIs
<1> QED BY <1>8, <1>9

-----------------------------------------------------------------------------
(* Operations with sectors left. *)

(* The operation o with the sectors T left to write. *)
At(o, T) == [o EXCEPT !.todo = T]

(* An operation with other sectors left to write. *)
LEMMA AtIs ==
    ASSUME NEW o \in Ops, NEW T, T \subseteq 1 .. LastSector
    PROVE  /\ At(o, T) \in Ops /\ At(o, T).kind = o.kind /\ At(o, T).name = o.name /\ At(o, T).as = o.as
           /\ At(o, T).file = o.file /\ At(o, T).phase = o.phase /\ At(o, T).todo = T
<1>1. o = [kind |-> o.kind, name |-> o.name, as |-> o.as, file |-> o.file, phase |-> o.phase, todo |-> o.todo,
           stale |-> o.stale]
      /\ o.kind \in Whole \cup {"append", "erase", "rename", "update"} /\ o.name \in AllNames /\ o.as \in AllNames
      /\ o.file \in Files /\ o.phase \in {"open", "empty", "rest"} /\ o.stale \in BOOLEAN
  BY DEF Ops
<1>2. T \in SUBSET (1 .. LastSector)
  OBVIOUS
<1>3. At(o, T) = [kind |-> o.kind, name |-> o.name, as |-> o.as, file |-> o.file, phase |-> o.phase, todo |-> T,
                  stale |-> o.stale]
  BY <1>1 DEF At
<1> QED BY <1>1, <1>2, <1>3 DEF Ops

(* A plan stays one as its sectors are written. *)
LEMMA PlanShrinks ==
    ASSUME NEW cat, NEW o, Plan(cat, o), NEW T, T \subseteq o.todo
    PROVE  Plan(cat, At(o, T))
<1> DEFINE p == At(o, T)
<1>1. o \in Ops /\ T \subseteq 1 .. LastSector
  <2>1. o \in Ops
    BY DEF Plan
  <2>2. o.todo \subseteq 1 .. LastSector
    BY <2>1 DEF Ops
  <2> QED BY <2>1, <2>2
<1>2. /\ p \in Ops /\ p.kind = o.kind /\ p.name = o.name /\ p.as = o.as
      /\ p.file = o.file /\ p.phase = o.phase /\ p.todo = T
  BY <1>1, AtIs
<1> HIDE DEF p
<1>3. Plan(cat, p)
  BY <1>2 DEF Plan
<1> QED BY <1>3 DEF p

(* What a smaller todo gives, a larger one leaves. *)
LEMMA LinkedGrows ==
    ASSUME NEW d, NEW s, NEW f, NEW T, NEW U, T \subseteq U, Linked(d, s, f, T)
    PROVE  Linked(d, s, f, U)
BY DEF Linked

(* What holds with fewer sectors left holds with more: a write may be sent *)
(* again.                                                                  *)
LEMMA GoingGrows ==
    ASSUME NEW d, NEW cat, NEW o, Plan(cat, o), NEW T, T \subseteq o.todo, Going(d, cat, At(o, T))
    PROVE  Going(d, cat, o)
<1> DEFINE p == At(o, T)
<1>1. o \in Ops /\ T \subseteq 1 .. LastSector
  <2>1. o \in Ops
    BY DEF Plan
  <2>2. o.todo \subseteq 1 .. LastSector
    BY <2>1 DEF Ops
  <2> QED BY <2>1, <2>2
<1>2. /\ p.kind = o.kind /\ p.name = o.name /\ p.as = o.as /\ p.file = o.file /\ p.phase = o.phase /\ p.todo = T
  BY <1>1, AtIs
<1>3. Going(d, cat, p)
  OBVIOUS
<1> HIDE DEF p
<1>4. Catalogue(cat) /\ Image(d) /\ Around(d, cat, o)
  BY <1>2, <1>3 DEF Going, Around
<1>5. ASSUME Underway(d, cat, p) PROVE Underway(d, cat, o)
  <2>1. Layout(d, cat)
    BY <1>5 DEF Underway
  <2>2. o.kind \in Outputs /\ o.phase = "rest" => Linked(d, Start(cat, o), o.file, o.todo)
    <3>1. Start(cat, p) = Start(cat, o)
      BY <1>2 DEF Start
    <3>2. p.kind \in Outputs /\ p.phase = "rest" => Linked(d, Start(cat, p), p.file, p.todo)
      BY <1>5 DEF Underway
    <3> HIDE DEF Outputs
    <3>3. o.kind \in Outputs /\ o.phase = "rest" => Linked(d, Start(cat, o), o.file, T)
      BY <1>2, <3>1, <3>2
    <3> QED BY <3>3, LinkedGrows
  <2>3. Creating(d, p) => Creating(d, o)
    BY <1>2 DEF Creating
  <2>4. Appending(d, cat[o.name], p) => Appending(d, cat[o.name], o)
    <3>1. \A old, i, b : PendingAppend(old, p, i, b) = PendingAppend(old, o, i, b)
      BY <1>2 DEF PendingAppend
    <3> QED BY <1>2, <3>1 DEF Appending
  <2>5. Replacing(d, cat[o.name], p) => Replacing(d, cat[o.name], o)
    BY <1>2 DEF Replacing
  <2> QED BY <1>2, <1>5, <2>1, <2>2, <2>3, <2>4, <2>5 DEF Underway
<1>6. ASSUME Committed(d, cat, p) PROVE Committed(d, cat, o)
  <2>1. After(cat, p) = After(cat, o)
    BY <1>2 DEF After
  <2> QED BY <1>2, <1>6, <2>1 DEF Committed
<1> QED BY <1>3, <1>4, <1>5, <1>6 DEF Going

(* What the kinds of operations have in common. *)
LEMMA PlanFacts ==
    ASSUME NEW cat, Catalogue(cat), NEW o, Plan(cat, o)
    PROVE  /\ o \in Ops /\ Sound(o.file) /\ o.name \in AllNames /\ o.as \in AllNames
           /\ o.todo \subseteq {Dir} \cup SectorsOf(o.file)
           /\ \A n \in DOMAIN cat \ {o.name} : Apart(o.file, cat[n])
           /\ \A n \in DOMAIN cat : Sound(cat[n])
           /\ o.file.slot \in 1 .. Slots
           /\ o.kind = "create" => o.name \notin DOMAIN cat /\ o.file.host = o.name
           /\ o.kind # "create" => o.name \in DOMAIN cat /\ cat[o.name].slot = o.file.slot
           /\ o.kind # "rename" => o.as = o.name /\ Fits(cat, o.name, o.file)
           /\ o.kind \notin {"create", "rename"} => cat[o.name].host = o.file.host
<1>1. /\ o \in Ops /\ Sound(o.file) /\ o.todo \subseteq {Dir} \cup SectorsOf(o.file)
      /\ \A n \in DOMAIN cat \ {o.name} : Apart(o.file, cat[n])
      /\ o.kind = "create" => o.name \notin DOMAIN cat /\ o.file.host = o.name
      /\ o.kind # "create" => o.name \in DOMAIN cat /\ cat[o.name].slot = o.file.slot
      /\ o.kind # "rename" => o.as = o.name /\ (o.kind # "create" => cat[o.name].host = o.file.host)
  BY DEF Plan
<1>2. o.name \in AllNames /\ o.as \in AllNames /\ o.file.slot \in 1 .. Slots
  BY <1>1, SoundFacts DEF Ops
<1>3. \A n \in DOMAIN cat : Sound(cat[n]) /\ (cat[n].host = n \/ cat[n].host \notin AllNames)
  BY DEF Catalogue
<1>4. o.kind # "rename" => Fits(cat, o.name, o.file)
  <2>1. o.kind # "rename" => (o.file.host = o.name \/ o.file.host \notin AllNames)
    BY <1>1, <1>3
  <2> QED BY <1>1, <1>2, <2>1 DEF Fits
<1> QED BY <1>1, <1>2, <1>3, <1>4

(* No other entry has the name of the file of the operation. *)
LEMMA AloneIs ==
    ASSUME NEW d, NEW cat, NEW o, Catalogue(cat), Plan(cat, o), Around(d, cat, o)
    PROVE  Alone(d, o.file.slot, o.name)
<1> SUFFICES ASSUME NEW i \in 1 .. Slots \ {o.file.slot}
             PROVE  d.directory[i].status # "active" \/ d.directory[i].name # o.name
  BY DEF Alone
<1>1. CASE Vacant(d, i)
  BY <1>1 DEF Vacant
<1>2. ASSUME NEW n \in DOMAIN cat, cat[n].slot = i PROVE d.directory[i].name # o.name
  <2>1. n # o.name
    BY <1>2, PlanFacts
  <2>2. AtRest(d, cat, n)
    BY <2>1 DEF Around
  <2>3. d.directory[i] = EntryOf(n, cat[n])
    BY <1>2, <2>2 DEF AtRest
  <2>4. EntryOf(n, cat[n]).name = n
    BY DEF EntryOf
  <2> QED BY <2>1, <2>3, <2>4
<1> QED BY <1>1, <1>2 DEF Around

(* e is d with the content c in the overlay for the sector x. *)
Overlaid(d, e, x, c) ==
    /\ Image(e) /\ e.files = d.files /\ e.allocated = d.allocated /\ e.metadata = d.metadata
    /\ e.dataRefs = d.dataRefs /\ e.directory = d.directory /\ e.pendingCreates = d.pendingCreates
    /\ e.pendingAppends = d.pendingAppends /\ e.pendingReplacements = d.pendingReplacements
    /\ DOMAIN e.io.host = DOMAIN d.io.host
    /\ DOMAIN e.pendingSectorWrites = DOMAIN d.pendingSectorWrites \cup {x}
    /\ e.pendingSectorWrites[x] = c
    /\ \A y \in DOMAIN d.pendingSectorWrites \ {x} : e.pendingSectorWrites[y] = d.pendingSectorWrites[y]

(* A sector in the overlay leaves what a file reads, if it is what its map *)
(* should be.                                                              *)
LEMMA OverlaidReads ==
    ASSUME NEW d, NEW e, NEW x, NEW c, Overlaid(d, e, x, c), NEW f, Reads(d, f),
           \A i \in 1 .. Len(f.maps) : f.maps[i] = x => c = MapImage(f.maps, f.data, i)
    PROVE  Reads(e, f)
<1> SUFFICES ASSUME NEW i \in 1 .. Len(f.maps)
             PROVE  /\ f.maps[i] \in DOMAIN e.metadata \cup DOMAIN e.pendingSectorWrites
                    /\ Value(e, f.maps[i]) = MapImage(f.maps, f.data, i)
  BY DEF Reads
<1> DEFINE y == f.maps[i]
           v == MapImage(f.maps, f.data, i)
<1>1. y \in DOMAIN d.metadata \cup DOMAIN d.pendingSectorWrites /\ Value(d, y) = v /\ (y = x => c = v)
  BY DEF Reads
<1> HIDE DEF y, v
<1>2. y \in DOMAIN e.metadata \cup DOMAIN e.pendingSectorWrites /\ Value(e, y) = v
  BY <1>1 DEF Overlaid, Value
<1> QED BY <1>2 DEF y, v

(* A sector in the overlay leaves the layout and what is pending. *)
LEMMA OverlaidRest ==
    ASSUME NEW d, NEW e, NEW x, NEW c, Overlaid(d, e, x, c)
    PROVE  /\ \A cat : Layout(d, cat) => Layout(e, cat)
           /\ NoPending(d) => NoPending(e)
           /\ \A u, a, r : Only(d, u, a, r) => Only(e, u, a, r)
           /\ \A i : Vacant(d, i) <=> Vacant(e, i)
<1>1. \A cat : Layout(d, cat) => Layout(e, cat)
  BY DEF Overlaid, Layout, Live
<1>2. (NoPending(d) => NoPending(e)) /\ \A u, a, r : Only(d, u, a, r) => Only(e, u, a, r)
  BY DEF Overlaid, NoPending, Only
<1>3. \A i : Vacant(d, i) <=> Vacant(e, i)
  BY DEF Overlaid, Vacant
<1> QED BY <1>1, <1>2, <1>3

(* The file s is the beginning of f: the map sectors but the last are the  *)
(* same.                                                                   *)
Stems(s, f) ==
    /\ Len(s.maps) \in 1 .. Len(f.maps) /\ Len(s.data) \in 0 .. Len(f.data)
    /\ \A i \in 1 .. Len(s.maps) : s.maps[i] = f.maps[i]
    /\ \A i \in 1 .. Len(s.maps) - 1 : MapImage(s.maps, s.data, i) = MapImage(f.maps, f.data, i)

(* What an operation starts from is the beginning of its file. *)
LEMMA StartStems ==
    ASSUME NEW cat, Catalogue(cat), NEW o, Plan(cat, o), o.kind \in Outputs
    PROVE  Stems(Start(cat, o), o.file)
<1> DEFINE f == o.file
           old == cat[o.name]
           m == f.maps[1]
<1>1. Sound(f) /\ (o.kind # "create" => Sound(old) /\ o.name \in DOMAIN cat)
  BY PlanFacts
<1>2. Len(f.maps) \in Nat \ {0} /\ Len(f.data) \in Nat \ {0}
  BY <1>1, SoundFacts
<1>3. CASE o.kind = "append"
  <2>1. Begins(old, f) /\ Sound(old) /\ Start(cat, o) = old
    BY <1>1, <1>3 DEF Plan, Start
  <2>2. Len(old.maps) \in Nat \ {0} /\ Len(old.data) \in Nat \ {0}
    BY <2>1, SoundFacts
  <2> HIDE DEF f, old
  <2>3. \A i \in 1 .. Len(old.maps) - 1 : MapImage(old.maps, old.data, i) = MapImage(f.maps, f.data, i)
    BY <1>1, <2>1, PrefixImages
  <2>4. Stems(old, f)
    BY <1>2, <2>1, <2>2, <2>3 DEF Stems, Begins
  <2> QED BY <2>1, <2>4 DEF f
<1>4. CASE o.kind # "append"
  <2> DEFINE s == [maps |-> <<m>>, data |-> <<>>]
  <2>1. Start(cat, o) = s
    BY <1>4 DEF Start
  <2>2. Len(s.maps) = 1 /\ Len(s.data) = 0 /\ s.maps[1] = m
    OBVIOUS
  <2> HIDE DEF s
  <2>3. Stems(s, f)
    BY <1>2, <2>2 DEF Stems
  <2> QED BY <2>1, <2>3
<1> QED BY <1>3, <1>4

(* A sector of the file written, the map sectors behind it there or        *)
(* missing.                                                                *)
LEMMA OverlaidLinked ==
    ASSUME NEW d, NEW e, NEW x, NEW c, Overlaid(d, e, x, c), NEW f, Sound(f), NEW s, Stems(s, f),
           NEW todo, Linked(d, s, f, todo), x \in todo,
           \A i \in 1 .. Len(f.maps) : f.maps[i] = x =>
                /\ c = MapImage(f.maps, f.data, i) /\ i >= Len(s.maps)
                /\ \A j \in i + 1 .. Len(f.maps) : f.maps[j] \in todo =>
                        f.maps[j] \notin DOMAIN d.metadata \cup DOMAIN d.pendingSectorWrites
    PROVE  Linked(e, s, f, todo \ {x})
<1>1. /\ Len(f.maps) \in Nat \ {0} /\ Len(f.data) \in Nat \ {0} /\ Distinct(f.maps) /\ Distinct(f.data)
      /\ Len(s.maps) \in 1 .. Len(f.maps) /\ \A i \in 1 .. Len(s.maps) : s.maps[i] = f.maps[i]
      /\ \A i \in 1 .. Len(s.maps) - 1 : MapImage(s.maps, s.data, i) = MapImage(f.maps, f.data, i)
  BY SoundFacts DEF Stems
<1>2. \A i \in Len(s.maps) + 1 .. Len(f.maps) : f.maps[i] \notin todo \ {x} =>
          /\ f.maps[i] \in DOMAIN e.pendingSectorWrites
          /\ e.pendingSectorWrites[f.maps[i]] = MapImage(f.maps, f.data, i)
  <2> TAKE i \in Len(s.maps) + 1 .. Len(f.maps)
  <2> HAVE f.maps[i] \notin todo \ {x}
  <2> DEFINE v == MapImage(f.maps, f.data, i)
  <2>1. i \in 1 .. Len(f.maps)
    BY <1>1
  <2>2. f.maps[i] = x => c = v
    BY <2>1
  <2>3. f.maps[i] # x => f.maps[i] \in DOMAIN d.pendingSectorWrites /\ d.pendingSectorWrites[f.maps[i]] = v
    BY DEF Linked
  <2> HIDE DEF v
  <2>4. f.maps[i] \in DOMAIN e.pendingSectorWrites /\ e.pendingSectorWrites[f.maps[i]] = v
    BY <2>2, <2>3 DEF Overlaid
  <2> QED BY <2>4 DEF v
<1>3. \A k \in Len(s.data) + 1 .. Len(f.data) : f.data[k] \notin todo \ {x} =>
          f.data[k] \in DOMAIN e.pendingSectorWrites
  BY DEF Linked, Overlaid
<1>4. CASE Reads(d, f)
  <2>1. Reads(e, f)
    BY <1>4, OverlaidReads
  <2> QED BY <1>2, <1>3, <2>1 DEF Linked
<1>5. CASE /\ Reads(d, s) /\ (Len(s.data) < Len(f.data) => f.maps[Len(s.maps)] \in todo)
           /\ f.maps[Len(s.maps)] # x
  <2>1. \A i \in 1 .. Len(s.maps) : s.maps[i] # x
    <3> TAKE i \in 1 .. Len(s.maps)
    <3>1. i \in 1 .. Len(f.maps) /\ s.maps[i] = f.maps[i]
      BY <1>1
    <3>2. f.maps[i] = x => i >= Len(s.maps)
      BY <3>1
    <3>3. f.maps[i] = x => i = Len(s.maps)
      BY <1>1, <3>2
    <3> QED BY <1>5, <3>1, <3>3
  <2>2. Reads(e, s)
    BY <1>5, <2>1, OverlaidReads
  <2> QED BY <1>2, <1>3, <1>5, <2>2 DEF Linked
<1>6. CASE Reads(d, s) /\ f.maps[Len(s.maps)] = x
  <2> DEFINE l == Len(s.maps)
  <2>1. l \in 1 .. Len(f.maps) /\ c = MapImage(f.maps, f.data, l)
        /\ \A j \in l + 1 .. Len(f.maps) : f.maps[j] \in todo =>
                f.maps[j] \notin DOMAIN d.metadata \cup DOMAIN d.pendingSectorWrites
    BY <1>1, <1>6
  <2>2. ASSUME NEW i \in 1 .. Len(f.maps)
        PROVE  \/ /\ f.maps[i] \in DOMAIN e.metadata \cup DOMAIN e.pendingSectorWrites
                  /\ Value(e, f.maps[i]) = MapImage(f.maps, f.data, i)
               \/ i > Len(s.maps) /\ f.maps[i] \notin DOMAIN e.metadata \cup DOMAIN e.pendingSectorWrites
    <3> DEFINE v == MapImage(f.maps, f.data, i)
               y == f.maps[i]
    <3>1. CASE i = l
      <4>1. y = x /\ c = v
        BY <1>6, <2>1, <3>1
      <4> HIDE DEF y, v, l
      <4>2. y \in DOMAIN e.pendingSectorWrites /\ e.pendingSectorWrites[y] = v
        BY <4>1 DEF Overlaid
      <4> QED BY <4>2 DEF Value, y, v
    <3>2. CASE i < l
      <4>1. i \in 1 .. l - 1 /\ i \in 1 .. l
        BY <1>1, <3>2
      <4>2. y = s.maps[i] /\ MapImage(s.maps, s.data, i) = v
        BY <1>1, <4>1
      <4>3. y # x
        BY <1>1, <1>6, <2>1, <3>2 DEF Distinct
      <4>4. y \in DOMAIN d.metadata \cup DOMAIN d.pendingSectorWrites /\ Value(d, y) = v
        <5>1. s.maps[i] \in DOMAIN d.metadata \cup DOMAIN d.pendingSectorWrites
              /\ Value(d, s.maps[i]) = MapImage(s.maps, s.data, i)
          BY <1>6, <4>1 DEF Reads
        <5> QED BY <4>2, <5>1
      <4> HIDE DEF y, v, l
      <4>5. y \in DOMAIN e.metadata \cup DOMAIN e.pendingSectorWrites /\ Value(e, y) = v
        BY <4>3, <4>4 DEF Overlaid, Value
      <4> QED BY <4>5 DEF y, v
    <3>3. CASE i > l
      <4>1. i \in l + 1 .. Len(f.maps)
        BY <1>1, <3>3
      <4>2. CASE y \in todo
        <5>1. y \notin DOMAIN d.metadata \cup DOMAIN d.pendingSectorWrites
          BY <2>1, <4>1, <4>2
        <5>2. y # x
          BY <1>1, <1>6, <2>1, <3>3 DEF Distinct
        <5> HIDE DEF y
        <5>3. y \notin DOMAIN e.metadata \cup DOMAIN e.pendingSectorWrites
          BY <5>1, <5>2 DEF Overlaid
        <5> QED BY <3>3, <5>3 DEF y
      <4>3. CASE y \notin todo
        <5>1. y \in DOMAIN e.pendingSectorWrites /\ e.pendingSectorWrites[y] = v
          BY <1>2, <4>1, <4>3
        <5> QED BY <5>1 DEF Value
      <4> QED BY <4>2, <4>3
    <3>4. l \in Nat /\ i \in Nat
      BY <1>1
    <3> QED BY <3>1, <3>2, <3>3, <3>4
  <2>3. Reads(e, f) \/ Gap(e, s, f)
    <3>1. Len(s.maps) \in Nat /\ Len(f.maps) \in Nat
      BY <1>1
    <3> QED BY ONLY <2>2, <3>1, FirstMissing
  <2> QED BY <1>2, <1>3, <2>3 DEF Linked
<1>8. CASE Gap(d, s, f)
  <2>1. PICK n \in Len(s.maps) + 1 .. Len(f.maps) : Missing(d, f, n)
    BY <1>8 DEF Gap
  <2>2. n \in 1 .. Len(f.maps) /\ n > Len(s.maps) /\ n \in Nat
    BY <1>1
  <2>3. ASSUME NEW k \in 1 .. n - 1
        PROVE  /\ f.maps[k] \in DOMAIN e.metadata \cup DOMAIN e.pendingSectorWrites
               /\ Value(e, f.maps[k]) = MapImage(f.maps, f.data, k)
    <3> DEFINE v == MapImage(f.maps, f.data, k)
               y == f.maps[k]
    <3>1. k \in 1 .. Len(f.maps)
      BY <2>2
    <3>2. y \in DOMAIN d.metadata \cup DOMAIN d.pendingSectorWrites /\ Value(d, y) = v
      BY <2>1 DEF Missing
    <3>3. y = x => c = v
      BY <3>1
    <3> HIDE DEF y, v
    <3>4. y \in DOMAIN e.metadata \cup DOMAIN e.pendingSectorWrites /\ Value(e, y) = v
      BY <3>2, <3>3 DEF Overlaid, Value
    <3> QED BY <3>4 DEF y, v
  <2>4. f.maps[n] \notin DOMAIN d.metadata \cup DOMAIN d.pendingSectorWrites
    BY <2>1 DEF Missing
  <2>5. CASE f.maps[n] # x
    <3>1. f.maps[n] \notin DOMAIN e.metadata \cup DOMAIN e.pendingSectorWrites
      BY <2>4, <2>5 DEF Overlaid
    <3>2. Missing(e, f, n)
      BY <2>3, <3>1 DEF Missing
    <3>3. Gap(e, s, f)
      BY <3>2 DEF Gap
    <3> QED BY <1>2, <1>3, <3>3 DEF Linked
  <2>6. CASE f.maps[n] = x
    <3>1. c = MapImage(f.maps, f.data, n)
          /\ \A j \in n + 1 .. Len(f.maps) : f.maps[j] \in todo =>
                f.maps[j] \notin DOMAIN d.metadata \cup DOMAIN d.pendingSectorWrites
      BY <2>2, <2>6
    <3>2. ASSUME NEW i \in 1 .. Len(f.maps)
          PROVE  \/ /\ f.maps[i] \in DOMAIN e.metadata \cup DOMAIN e.pendingSectorWrites
                    /\ Value(e, f.maps[i]) = MapImage(f.maps, f.data, i)
                 \/ i > Len(s.maps) /\ f.maps[i] \notin DOMAIN e.metadata \cup DOMAIN e.pendingSectorWrites
      <4> DEFINE v == MapImage(f.maps, f.data, i)
                 y == f.maps[i]
      <4>1. CASE i < n
        <5>1. i \in 1 .. n - 1
          BY <2>2, <4>1
        <5> QED BY <2>3, <5>1
      <4>2. CASE i = n
        <5>1. y = x /\ c = v
          BY <2>6, <3>1, <4>2
        <5> HIDE DEF y, v
        <5>2. y \in DOMAIN e.pendingSectorWrites /\ e.pendingSectorWrites[y] = v
          BY <5>1 DEF Overlaid
        <5> QED BY <5>2 DEF Value, y, v
      <4>3. CASE i > n
        <5>1. i \in n + 1 .. Len(f.maps) /\ i \in Len(s.maps) + 1 .. Len(f.maps) /\ i > Len(s.maps) /\ i # n
          BY <1>1, <2>2, <4>3
        <5>2. CASE y \in todo
          <6>1. y \notin DOMAIN d.metadata \cup DOMAIN d.pendingSectorWrites /\ y # x
            BY <1>1, <2>2, <2>6, <3>1, <5>1, <5>2 DEF Distinct
          <6> HIDE DEF y
          <6>2. y \notin DOMAIN e.metadata \cup DOMAIN e.pendingSectorWrites
            BY <6>1 DEF Overlaid
          <6> QED BY <5>1, <6>2 DEF y
        <5>3. CASE y \notin todo
          <6>1. y \in DOMAIN e.pendingSectorWrites /\ e.pendingSectorWrites[y] = v
            BY <1>2, <5>1, <5>3
          <6> QED BY <6>1 DEF Value
        <5> QED BY <5>2, <5>3
      <4>4. i < n \/ i = n \/ i > n
        BY <2>2
      <4> QED BY <4>1, <4>2, <4>3, <4>4
    <3>3. Reads(e, f) \/ Gap(e, s, f)
      <4>1. Len(s.maps) \in Nat /\ Len(f.maps) \in Nat
        BY <1>1
      <4> QED BY ONLY <3>2, <4>1, FirstMissing
    <3> QED BY <1>2, <1>3, <3>3 DEF Linked
  <2> QED BY <2>5, <2>6
<1>7. \/ Reads(d, f) \/ (Reads(d, s) /\ (Len(s.data) < Len(f.data) => f.maps[Len(s.maps)] \in todo))
      \/ Gap(d, s, f)
  BY DEF Linked
<1> QED BY <1>4, <1>5, <1>6, <1>7, <1>8

(* What the guest writes to a sector of its file.                          *)
SectorImage(o, x) ==
    IF x \notin Elems(o.file.maps) THEN Block(o.file.bytes, Place(o.file.data, x))
    ELSE IF o.phase = "empty" THEN EmptyMap
    ELSE MapImage(o.file.maps, o.file.data, Place(o.file.maps, x))

(* A sector of the file of the operation is no other file's. *)
LEMMA OverlaidOthers ==
    ASSUME NEW d, NEW e, NEW x, NEW c, Overlaid(d, e, x, c), NEW cat, Catalogue(cat), NEW o, Plan(cat, o),
           x \in SectorsOf(o.file), Around(d, cat, o)
    PROVE  Around(e, cat, o)
<1>1. ASSUME NEW n \in DOMAIN cat \ {o.name} PROVE AtRest(e, cat, n)
  <2>1. AtRest(d, cat, n) /\ Sound(cat[n]) /\ Apart(o.file, cat[n])
    BY PlanFacts DEF Around
  <2>2. x \notin Elems(cat[n].maps)
    BY <2>1 DEF Apart, SectorsOf
  <2>3. \A i \in 1 .. Len(cat[n].maps) : cat[n].maps[i] # x
    BY <2>1, <2>2, SectorsAt
  <2>4. Reads(d, cat[n]) /\ d.directory[cat[n].slot] = EntryOf(n, cat[n])
    BY <2>1 DEF AtRest
  <2> DEFINE g == cat[n]
  <2> HIDE DEF g
  <2>5. Reads(e, g)
    BY <2>3, <2>4, OverlaidReads DEF g
  <2>6. e.directory = d.directory
    BY DEF Overlaid
  <2> QED BY <2>4, <2>5, <2>6 DEF AtRest, g
<1>2. \A i \in 1 .. Slots : Vacant(e, i) \/ i = o.file.slot \/ \E n \in DOMAIN cat : cat[n].slot = i
  BY OverlaidRest DEF Around
<1> QED BY <1>1, <1>2 DEF Around

(* A map sector written in order is the one of the file, and the later     *)
(* ones are there or missing.                                              *)
LEMMA ImageIs ==
    ASSUME NEW cat, Catalogue(cat), NEW o, Plan(cat, o), NEW x, x \in o.todo, o.phase = "rest",
           NEW d, InOrder(d, o, x)
    PROVE  \A i \in 1 .. Len(o.file.maps) : o.file.maps[i] = x =>
             /\ SectorImage(o, x) = MapImage(o.file.maps, o.file.data, i)
             /\ \A j \in i + 1 .. Len(o.file.maps) : o.file.maps[j] \in o.todo =>
                    o.file.maps[j] \notin DOMAIN d.metadata \cup DOMAIN d.pendingSectorWrites
             /\ o.kind \in Outputs => i >= Len(Start(cat, o).maps)
<1> DEFINE f == o.file
<1>1. Sound(f)
  BY PlanFacts
<1>2. f.maps \in Seq(Sectors) /\ Distinct(f.maps) /\ DOMAIN f.maps = 1 .. Len(f.maps) /\ Len(f.maps) \in Nat
  BY <1>1, SoundFacts
<1> SUFFICES ASSUME NEW i \in 1 .. Len(f.maps), f.maps[i] = x
             PROVE  /\ SectorImage(o, x) = MapImage(f.maps, f.data, i)
                    /\ \A j \in i + 1 .. Len(f.maps) : f.maps[j] \in o.todo =>
                            f.maps[j] \notin DOMAIN d.metadata \cup DOMAIN d.pendingSectorWrites
                    /\ o.kind \in Outputs => i >= Len(Start(cat, o).maps)
  OBVIOUS
<1>3. x \in Elems(f.maps) /\ Place(f.maps, x) = i
  <2>1. Place(f.maps, f.maps[i]) = i
    <3> HIDE DEF f
    <3> QED BY <1>2, PlaceIs
  <2> QED BY <1>1, <2>1, SectorsAt
<1>4. SectorImage(o, x) = MapImage(f.maps, f.data, i)
  BY <1>3 DEF SectorImage
<1>5. \A j \in i + 1 .. Len(f.maps) : f.maps[j] \in o.todo =>
          f.maps[j] \notin DOMAIN d.metadata \cup DOMAIN d.pendingSectorWrites
  BY <1>2 DEF InOrder
<1>6. o.kind \in Outputs => i >= Len(Start(cat, o).maps)
  <2>1. CASE o.kind = "append"
    <3> DEFINE old == cat[o.name]
    <3>1. \A j \in 1 .. Len(old.maps) - 1 : f.maps[j] \notin o.todo
      BY <2>1 DEF Plan
    <3>2. Start(cat, o) = old
      BY <2>1 DEF Start
    <3>3. Len(old.maps) \in Nat
      <4>1. Sound(old)
        BY <2>1, PlanFacts
      <4> QED BY <4>1, SoundFacts
    <3> HIDE DEF old
    <3>4. i \notin 1 .. Len(old.maps) - 1
      BY <3>1
    <3> QED BY <1>2, <3>2, <3>3, <3>4
  <2>2. CASE o.kind # "append"
    <3>1. Start(cat, o) = [maps |-> <<f.maps[1]>>, data |-> <<>>]
      BY <2>2 DEF Start
    <3>2. Len(Start(cat, o).maps) = 1
      BY <3>1
    <3> QED BY <1>2, <3>2
  <2> QED BY <2>1, <2>2
<1> QED BY <1>4, <1>5, <1>6

(* A write of a sector of the file, once it is in the overlay. *)
LEMMA SectorStored ==
    ASSUME NEW d, NEW e, NEW cat, NEW o, Going(d, cat, o), NEW x, x \in o.todo, x # Dir, InOrder(d, o, x),
           Overlaid(d, e, x, SectorImage(o, x))
    PROVE  /\ Going(e, cat, At(o, o.todo \ {x}))
           /\ Underway(d, cat, o) => Underway(e, cat, At(o, o.todo \ {x}))
           /\ Committed(d, cat, o) => Committed(e, cat, At(o, o.todo \ {x}))
<1> DEFINE c == SectorImage(o, x)
           f == o.file
           T == o.todo \ {x}
           p == At(o, T)
           old == cat[o.name]
<1>1. Catalogue(cat) /\ Plan(cat, o) /\ Around(d, cat, o) /\ Overlaid(d, e, x, c)
  BY DEF Going
<1>2. x \in SectorsOf(f) /\ Sound(f)
  BY <1>1, PlanFacts
<1>3. Around(e, cat, o)
  BY <1>1, <1>2, OverlaidOthers
<1>4. Plan(cat, p)
  BY <1>1, PlanShrinks
<1>5. p.kind = o.kind /\ p.name = o.name /\ p.as = o.as /\ p.file = o.file /\ p.phase = o.phase /\ p.todo = T
  <2>1. o \in Ops /\ o.todo \subseteq 1 .. LastSector
    BY <1>1, PlanFacts DEF Ops
  <2>2. T \subseteq 1 .. LastSector
    BY <2>1
  <2> HIDE DEF T
  <2> QED BY <2>1, <2>2, AtIs
<1>6. Image(e)
  BY <1>1 DEF Overlaid
<1> HIDE DEF c, p
<1>7. /\ \A g : Layout(d, g) => Layout(e, g)
      /\ NoPending(d) => NoPending(e)
      /\ \A u, a, r : Only(d, u, a, r) => Only(e, u, a, r)
      /\ \A i : Vacant(d, i) <=> Vacant(e, i)
  BY <1>1, OverlaidRest
<1>8. /\ e.directory = d.directory /\ e.files = d.files /\ e.pendingCreates = d.pendingCreates
      /\ e.pendingAppends = d.pendingAppends /\ e.pendingReplacements = d.pendingReplacements
      /\ DOMAIN d.pendingSectorWrites \cup {x} = DOMAIN e.pendingSectorWrites
  BY <1>1 DEF Overlaid
<1>9. Around(e, cat, p)
  BY <1>3, <1>5 DEF Around
<1>10. Dir \in o.todo => Dir \in p.todo
  BY <1>5
<1>11. o.kind \in Outputs /\ o.phase = "rest" /\ Linked(d, Start(cat, o), f, o.todo)
         => Linked(e, Start(cat, p), p.file, p.todo)
  <2> HAVE o.kind \in Outputs /\ o.phase = "rest" /\ Linked(d, Start(cat, o), f, o.todo)
  <2> DEFINE s == Start(cat, o)
  <2>1. Start(cat, p) = s
    BY <1>5 DEF Start
  <2>2. Stems(s, f)
    BY <1>1, StartStems
  <2>3. \A i \in 1 .. Len(f.maps) : f.maps[i] = x =>
                /\ c = MapImage(f.maps, f.data, i) /\ i >= Len(s.maps)
                /\ \A j \in i + 1 .. Len(f.maps) : f.maps[j] \in o.todo =>
                        f.maps[j] \notin DOMAIN d.metadata \cup DOMAIN d.pendingSectorWrites
    BY <1>1, ImageIs DEF c
  <2> DEFINE U == o.todo
  <2>4. Linked(d, s, f, U) /\ x \in U
    OBVIOUS
  <2>5. \A i \in 1 .. Len(f.maps) : f.maps[i] = x =>
                /\ c = MapImage(f.maps, f.data, i) /\ i >= Len(s.maps)
                /\ \A j \in i + 1 .. Len(f.maps) : f.maps[j] \in U =>
                        f.maps[j] \notin DOMAIN d.metadata \cup DOMAIN d.pendingSectorWrites
    BY <2>3
  <2> HIDE DEF s, f, U
  <2>6. Linked(e, s, f, U \ {x})
    BY ONLY <1>1, <1>2, <2>2, <2>4, <2>5, OverlaidLinked
  <2> QED BY <1>5, <2>1, <2>6 DEF f, U
<1>12. ASSUME Underway(d, cat, o) PROVE Underway(e, cat, p)
  <2>1. Layout(e, cat)
    BY <1>7, <1>12 DEF Underway
  <2>2. p.kind \in Outputs /\ p.phase = "rest" => Linked(e, Start(cat, p), p.file, p.todo)
    BY <1>5, <1>11, <1>12 DEF Underway
  <2>3. CASE o.kind = "create"
    <3>1. Creating(d, o)
      BY <1>12, <2>3 DEF Underway
    <3>2. Creating(e, p)
      <4> HIDE DEF f, T
      <4> QED BY <1>5, <1>7, <1>8, <1>10, <3>1 DEF Creating
    <3> QED BY <1>5, <2>1, <2>2, <2>3, <3>2 DEF Underway
  <2>4. CASE o.kind = "append"
    <3>1. Appending(d, old, o)
      BY <1>12, <2>4 DEF Underway
    <3>2. \A i, b : PendingAppend(old, p, i, b) = PendingAppend(old, o, i, b)
      BY <1>5 DEF PendingAppend
    <3>3. Appending(e, old, p)
      <4> DEFINE last == old.data[Len(old.data)]
                 partial == Len(old.bytes) % SectorSize # 0
                 m == f.maps[1]
                 there == \E i \in DOMAIN d.files, b \in BOOLEAN :
                            d.files[i] = Record(o.name, old) /\ d.pendingAppends[m] = PendingAppend(old, o, i, b)
      <4>1. \/ NoPending(d) /\ d.directory[f.slot] = EntryOf(o.name, old) /\ Dir \in o.todo
            \/ Only(d, {}, {m}, {}) /\ d.directory[f.slot] = EntryOf(o.name, f) /\ there
        BY <3>1 DEF Appending
      <4>2. partial /\ last \notin o.todo => last \in DOMAIN d.pendingSectorWrites
        BY <3>1 DEF Appending
      <4>3. partial /\ last \notin p.todo => last \in DOMAIN e.pendingSectorWrites
        BY <1>5, <1>8, <4>2
      <4>4. there => \E i \in DOMAIN e.files, b \in BOOLEAN :
                       e.files[i] = Record(o.name, old) /\ e.pendingAppends[m] = PendingAppend(old, p, i, b)
        BY <1>8, <3>2
      <4>5. \/ NoPending(e) /\ e.directory[f.slot] = EntryOf(o.name, old) /\ Dir \in p.todo
            \/ Only(e, {}, {m}, {}) /\ e.directory[f.slot] = EntryOf(o.name, f) /\ there
        BY <1>7, <1>8, <1>10, <4>1
      <4> HIDE DEF there, last, partial, T
      <4> QED BY <1>5, <4>3, <4>4, <4>5 DEF Appending, last, partial
    <3> QED BY <1>5, <2>1, <2>2, <2>4, <3>3 DEF Underway
  <2>5. CASE o.kind = "replace"
    <3>1. Replacing(d, old, o)
      BY <1>12, <2>5 DEF Underway
    <3>2. o.phase # "open"
      BY <1>1, <2>5 DEF Plan
    <3>3. Replacing(e, old, p)
      <4> HIDE DEF T
      <4> QED BY <1>5, <1>7, <1>8, <1>10, <3>1, <3>2 DEF Replacing
    <3> QED BY <1>5, <2>1, <2>2, <2>5, <3>3 DEF Underway
  <2>6. CASE o.kind \notin {"create", "append", "replace"}
    <3>1. NoPending(d) /\ AtRest(d, cat, o.name)
      BY <1>12, <2>6 DEF Underway
    <3>2. o.kind = "update"
      <4>1. o.kind \notin {"erase", "rename"}
        BY <1>1 DEF Plan
      <4>2. o.kind \in Whole \cup {"append", "erase", "rename", "update"}
        BY <1>1, PlanFacts DEF Ops
      <4> QED BY <2>6, <4>1, <4>2 DEF Whole
    <3>3. f.maps = old.maps /\ x \in Elems(f.data)
      BY <1>1, <3>2 DEF Plan
    <3>4. x \notin Elems(f.maps)
      BY <1>2, <3>3, SoundFacts
    <3>5. \A i \in 1 .. Len(f.maps) : f.maps[i] # x
      BY <1>2, <3>4, SectorsAt
    <3>6. Reads(d, old) /\ d.directory[old.slot] = EntryOf(o.name, old)
      BY <3>1 DEF AtRest
    <3>7. \A i \in 1 .. Len(old.maps) : old.maps[i] # x
      BY <3>3, <3>5
    <3>8. Reads(e, old)
      <4> HIDE DEF old
      <4> QED BY <1>1, <3>6, <3>7, OverlaidReads
    <3>9. AtRest(e, cat, o.name)
      BY <1>8, <3>6, <3>8 DEF AtRest
    <3> QED BY <1>5, <1>7, <2>1, <2>2, <2>6, <3>1, <3>9 DEF Underway
  <2> QED BY <2>3, <2>4, <2>5, <2>6
<1>13. ASSUME Committed(d, cat, o) PROVE Committed(e, cat, p)
  <2> DEFINE new == After(cat, o)
             g == new[o.name]
  <2>1. After(cat, p) = new
    BY <1>5 DEF After
  <2>2. o.kind \in Outputs /\ o.phase = "rest" /\ NoPending(d) /\ Layout(d, new) /\ AtRest(d, new, o.name)
    BY <1>13 DEF Committed
  <2>3. g = f
    <3>1. new = Put(cat, o.name, f)
      BY <2>2 DEF After, Outputs, Whole
    <3> HIDE DEF new
    <3> QED BY <3>1 DEF Put
  <2>4. Reads(d, f) /\ d.directory[f.slot] = EntryOf(o.name, f)
    BY <2>2, <2>3 DEF AtRest
  <2>5. \A i \in 1 .. Len(f.maps) : f.maps[i] = x => c = MapImage(f.maps, f.data, i)
    BY <1>1, <2>2, ImageIs DEF c
  <2>6. Reads(e, f)
    <3> HIDE DEF f
    <3> QED BY <1>1, <2>4, <2>5, OverlaidReads
  <2>7. AtRest(e, new, o.name)
    BY <1>8, <2>3, <2>4, <2>6 DEF AtRest
  <2> HIDE DEF new
  <2> QED BY <1>5, <1>7, <2>1, <2>2, <2>7 DEF Committed
<1>14. Going(e, cat, p)
  BY <1>1, <1>4, <1>6, <1>9, <1>12, <1>13 DEF Going
<1> QED BY <1>12, <1>13, <1>14 DEF p

-----------------------------------------------------------------------------
(* Parts of sequences, and a call of the storage. *)

(* A storage call that stores nothing. *)
LEMMA CallIs ==
    ASSUME NEW H, NEW io, Storage(io, H), NEW kind, NEW works
    PROVE  Storage(Call(io, kind, works), H) /\ Call(io, kind, works).host = io.host
<1> DEFINE ok == works /\ ~(kind \in FaultKinds /\ io.fault = 1)
           n  == IF kind \in FaultKinds /\ io.fault > 0 THEN io.fault - 1 ELSE io.fault
           c  == Call(io, kind, works)
<1>1. c = [host |-> io.host, fault |-> n, ok |-> ok]
  <2>1. c = [io EXCEPT !.ok = ok, !.fault = n]
        BY DEF Call
  <2> HIDE DEF c, ok, n
  <2> QED
        BY <2>1 DEF Storage
<1>2. io.fault \in Nat /\ DOMAIN io.host = H
      BY DEF Storage
<1>3. n \in Nat /\ ok \in BOOLEAN
      BY <1>2
<1> HIDE DEF c, ok, n
<1>4. c.host = io.host /\ c.fault = n /\ c.ok = ok
      BY <1>1
<1> QED
      BY <1>1, <1>2, <1>3, <1>4 DEF Storage, c

(* A piece of a sequence. *)
LEMMA Slice ==
    ASSUME NEW S, NEW s \in Seq(S), NEW a \in Nat, NEW b \in Nat, a <= b, b <= Len(s)
    PROVE  LET t == SubSeq(s, a + 1, b)
           IN  /\ t \in Seq(S) /\ Len(t) = b - a /\ \A i \in 1 .. b - a : t[i] = s[a + i]
               /\ Distinct(s) => Distinct(t)
<1> DEFINE t == SubSeq(s, a + 1, b)
<1>1. t \in Seq(S) /\ Len(t) = b - a /\ \A i \in 1 .. b - a : t[i] = s[a + i]
  <2>1. Len(s) \in Nat /\ \A i \in 1 .. Len(s) : s[i] \in S
        OBVIOUS
  <2>2. Len(t) = b - a
        BY <2>1
  <2>3. \A i \in 1 .. b - a : t[i] = s[a + i] /\ a + i \in 1 .. Len(s)
        BY <2>1
  <2>4. t \in Seq(S)
    <3>1. b - a \in Nat /\ DOMAIN t = 1 .. b - a
          BY <2>1
    <3>2. t = [i \in 1 .. b - a |-> s[a + i]]
      <4>1. t = [i \in 1 .. b - (a + 1) + 1 |-> s[(a + 1) + i - 1]]
            OBVIOUS
      <4>2. b - (a + 1) + 1 = b - a /\ \A i \in 1 .. b - a : (a + 1) + i - 1 = a + i
            OBVIOUS
      <4> QED
            BY <4>1, <4>2
    <3> HIDE DEF t
    <3>3. t \in [1 .. b - a -> S]
          BY <2>1, <2>3, <3>2
    <3> QED
          BY <3>1, <3>3
  <2> QED
        BY <2>2, <2>3, <2>4
<1> HIDE DEF t
<1>2. ASSUME Distinct(s)
      PROVE  Distinct(t)
  <2> SUFFICES ASSUME NEW i \in 1 .. Len(t), NEW j \in 1 .. Len(t), t[i] = t[j]
               PROVE  i = j
        BY DEF Distinct
  <2>1. i \in 1 .. b - a /\ j \in 1 .. b - a /\ s[a + i] = s[a + j]
        BY <1>1
  <2>2. a + i \in 1 .. Len(s) /\ a + j \in 1 .. Len(s)
        BY <2>1
  <2>3. a + i = a + j
        BY <1>2, <2>1, <2>2 DEF Distinct
  <2> QED
        BY <2>1, <2>3
<1> QED
      BY <1>1, <1>2 DEF t

(* No element of s is one of t. *)
Disjoint(s, t) == \A i \in 1 .. Len(s) : \A j \in 1 .. Len(t) : s[i] # t[j]

(* Two sequences in a row. *)
LEMMA Joined ==
    ASSUME NEW S, NEW s \in Seq(S), NEW t \in Seq(S)
    PROVE  /\ s \o t \in Seq(S) /\ Len(s \o t) = Len(s) + Len(t)
           /\ \A i \in 1 .. Len(s) : (s \o t)[i] = s[i]
           /\ \A i \in 1 .. Len(t) : (s \o t)[Len(s) + i] = t[i]
           /\ \A i \in 1 .. Len(s \o t) : i \notin 1 .. Len(s) => i - Len(s) \in 1 .. Len(t) /\ (s \o t)[i] = t[i - Len(s)]
           /\ Distinct(s) /\ Distinct(t) /\ Disjoint(s, t) => Distinct(s \o t)
<1> DEFINE u == s \o t
<1>1. u \in Seq(S) /\ Len(u) = Len(s) + Len(t) /\ Len(s) \in Nat /\ Len(t) \in Nat
      OBVIOUS
<1>2. \A i \in 1 .. Len(u) : u[i] = IF i <= Len(s) THEN s[i] ELSE t[i - Len(s)]
      OBVIOUS
<1> HIDE DEF u
<1>3. \A i \in 1 .. Len(s) : u[i] = s[i]
      BY <1>1, <1>2
<1>4. \A i \in 1 .. Len(t) : u[Len(s) + i] = t[i]
  <2> TAKE i \in 1 .. Len(t)
  <2>1. Len(s) + i \in 1 .. Len(u) /\ ~(Len(s) + i <= Len(s)) /\ (Len(s) + i) - Len(s) = i
        BY <1>1
  <2> QED
        BY <1>2, <2>1
<1>5. \A i \in 1 .. Len(u) : i \notin 1 .. Len(s) => i - Len(s) \in 1 .. Len(t) /\ u[i] = t[i - Len(s)]
      BY <1>1, <1>2
<1>6. ASSUME Distinct(s), Distinct(t), Disjoint(s, t)
      PROVE  Distinct(u)
  <2> SUFFICES ASSUME NEW i \in 1 .. Len(u), NEW j \in 1 .. Len(u), u[i] = u[j]
               PROVE  i = j
        BY DEF Distinct
  <2>1. CASE i \in 1 .. Len(s) /\ j \in 1 .. Len(s)
        BY <1>3, <1>6, <2>1 DEF Distinct
  <2>2. CASE i \in 1 .. Len(s) /\ j \notin 1 .. Len(s)
        BY <1>3, <1>5, <1>6, <2>2 DEF Disjoint
  <2>3. CASE i \notin 1 .. Len(s) /\ j \in 1 .. Len(s)
        BY <1>3, <1>5, <1>6, <2>3 DEF Disjoint
  <2>4. CASE i \notin 1 .. Len(s) /\ j \notin 1 .. Len(s)
    <3>1. i - Len(s) = j - Len(s)
          BY <1>5, <1>6, <2>4 DEF Distinct
    <3> QED
          BY <1>1, <3>1
  <2> QED
        BY <2>1, <2>2, <2>3, <2>4
<1> QED
      BY <1>1, <1>3, <1>4, <1>5, <1>6 DEF u

(* Two sequences put together. *)
Joint(s, t, u, S) ==
    /\ u \in Seq(S) /\ Len(u) = Len(s) + Len(t)
    /\ \A i \in 1 .. Len(s) : u[i] = s[i]
    /\ \A i \in 1 .. Len(u) : i \notin 1 .. Len(s) => i - Len(s) \in 1 .. Len(t) /\ u[i] = t[i - Len(s)]

(* A sequence put together from two. *)
LEMMA JointIs ==
    ASSUME NEW S, NEW s \in Seq(S), NEW t \in Seq(S), NEW u, u = s \o t
    PROVE  Joint(s, t, u, S) /\ (Distinct(s) /\ Distinct(t) /\ Disjoint(s, t) => Distinct(u))
<1>1. /\ s \o t \in Seq(S) /\ Len(s \o t) = Len(s) + Len(t)
      /\ \A i \in 1 .. Len(s) : (s \o t)[i] = s[i]
      /\ \A i \in 1 .. Len(t) : (s \o t)[Len(s) + i] = t[i]
      /\ \A i \in 1 .. Len(s \o t) : i \notin 1 .. Len(s) => i - Len(s) \in 1 .. Len(t) /\ (s \o t)[i] = t[i - Len(s)]
      /\ Distinct(s) /\ Distinct(t) /\ Disjoint(s, t) => Distinct(s \o t)
      BY Joined
<1> QED
      BY ONLY <1>1, u = s \o t DEF Joint

-----------------------------------------------------------------------------
(* The bytes that a write leaves in a host file. *)

(* Byte j of a file is byte Cell(j) of its sector SectorsFor(j). *)
LEMMA CellIs ==
    ASSUME NEW j \in Nat \ {0}
    PROVE  /\ SectorsFor(j) \in Nat \ {0} /\ Cell(j) \in 1 .. SectorSize /\ SectorsFor(j) <= j
           /\ (SectorsFor(j) - 1) * SectorSize \in Nat
           /\ j = (SectorsFor(j) - 1) * SectorSize + Cell(j)
           /\ SectorsFor(j) * SectorSize = (SectorsFor(j) - 1) * SectorSize + SectorSize
<1> DEFINE E == SectorSize
           q == SectorsFor(j)
           p == (q - 1) * E
           r == (j - 1) % E
<1>1. E \in Nat \ {0}
      BY Sizes
<1>2. q \in Nat \ {0} /\ q <= j /\ j <= q * E /\ p < j
      BY <1>1, Ceiling DEF SectorsFor
<1>3. p \in Nat /\ q * E = p + E
      BY <1>1, <1>2, Multiples
<1>4. r \in 0 .. E - 1 /\ j - 1 = E * ((j - 1) \div E) + r /\ (j - 1) \div E \in Nat
  <2>1. \A m \in Nat : m % E \in 0 .. E - 1 /\ m = E * (m \div E) + (m % E) /\ m \div E \in Nat
        BY <1>1
  <2>2. j - 1 \in Nat
        OBVIOUS
  <2> QED
        BY <2>1, <2>2
<1>5. E * ((j - 1) \div E) = ((j - 1) \div E) * E
      BY <1>1, <1>4
<1> DEFINE t == (j - 1) \div E
<1>6. t = q - 1
  <2> HIDE DEF q, p, r, t
  <2>1. t \in Nat /\ q - 1 \in Nat
        BY <1>2, <1>4 DEF t
  <2>2. t * E \in Nat /\ j - 1 = t * E + r
        BY <1>4, <1>5, <1>1, <2>1, Multiples DEF t
  <2>3. ASSUME t < q - 1 PROVE FALSE
    <3>1. (t + 1) * E <= (q - 1) * E /\ (t + 1) * E = t * E + E
      <4>1. t + 1 \in Nat /\ t + 1 <= q - 1 /\ (t + 1) - 1 = t
            BY <2>1, <2>3
      <4> QED
            BY <4>1, <1>1, <2>1, Multiples
    <3> DEFINE te == t * E
               u == (t + 1) * E
    <3>2. u <= p /\ u = te + E /\ te \in Nat /\ j - 1 = te + r
          BY <3>1, <2>2 DEF p
    <3> HIDE DEF te, u
    <3> QED
          BY <3>2, <1>1, <1>2, <1>3, <1>4
  <2>4. ASSUME q - 1 < t PROVE FALSE
    <3>1. q <= t
          BY <2>4, <2>1, <1>2
    <3>2. q * E <= t * E
          BY <3>1, <1>1, <1>2, <2>1, Multiples
    <3> DEFINE te == t * E
               qe == q * E
    <3>3. qe <= te /\ qe = p + E /\ te \in Nat /\ j - 1 = te + r /\ j <= qe
          BY <3>2, <2>2, <1>2, <1>3
    <3> HIDE DEF te, qe
    <3> QED
          BY <3>3, <1>1, <1>3, <1>4
  <2> QED
        BY <2>1, <2>3, <2>4
<1>7. j - 1 = p + r
      BY <1>4, <1>5, <1>6
<1>8. Cell(j) = r + 1
      BY DEF Cell
<1> HIDE DEF q, p, r, E
<1>9. Cell(j) \in 1 .. E /\ j = p + Cell(j)
      BY <1>1, <1>3, <1>4, <1>7, <1>8
<1> QED
      BY <1>2, <1>3, <1>9 DEF q, p, E

(* A byte is in the first k sectors if its sector is one of them. *)
LEMMA SectorUpto ==
    ASSUME NEW j \in Nat \ {0}, NEW k \in Nat
    PROVE  j <= k * SectorSize <=> SectorsFor(j) <= k
<1> DEFINE E == SectorSize
           q == SectorsFor(j)
<1>1. E \in Nat \ {0} /\ q \in Nat \ {0}
      BY Sizes, CellIs
<1>2. (q - 1) * E \in Nat /\ (q - 1) * E < j /\ j <= q * E
  <2> DEFINE a == (q - 1) * E
             b == q * E
  <2>1. a \in Nat /\ j = a + Cell(j) /\ Cell(j) \in 1 .. E /\ b = a + E
        BY CellIs
  <2> HIDE DEF a, b, E
  <2>2. a < j /\ j <= b
        BY <2>1, <1>1
  <2> QED
        BY <2>1, <2>2 DEF a, b, E
<1> HIDE DEF q
<1>3. CASE q <= k
  <2>1. q * E <= k * E /\ q * E \in Nat /\ k * E \in Nat
        BY <1>1, <1>3, Multiples
  <2> DEFINE a == q * E
             b == k * E
  <2> HIDE DEF a, b
  <2>2. j <= a /\ a <= b /\ a \in Nat /\ b \in Nat
        BY <1>2, <2>1 DEF a, b
  <2>3. j <= b
        BY <2>2
  <2> QED
        BY <1>3, <2>3 DEF b, q
<1>4. CASE k < q
  <2>1. k <= q - 1 /\ q - 1 \in Nat
        BY <1>1, <1>4
  <2>2. k * E <= (q - 1) * E /\ k * E \in Nat
        BY <2>1, <1>1, Multiples
  <2> DEFINE a == (q - 1) * E
             b == k * E
  <2> HIDE DEF a, b
  <2>3. a < j /\ b <= a /\ a \in Nat /\ b \in Nat
        BY <1>2, <2>2 DEF a, b
  <2>4. ~(j <= b) /\ ~(q <= k)
        BY <2>3, <1>1, <1>4
  <2> QED
        BY <2>4 DEF b, q
<1> QED
      BY <1>1, <1>3, <1>4

(* The byte at place i of sector k. *)
LEMMA CellOf ==
    ASSUME NEW k \in Nat \ {0}, NEW i \in 1 .. SectorSize
    PROVE  LET j == (k - 1) * SectorSize + i
           IN  j \in Nat \ {0} /\ SectorsFor(j) = k /\ Cell(j) = i
<1> DEFINE E == SectorSize
           a == (k - 1) * E
           j == a + i
<1>1. E \in Nat \ {0} /\ a \in Nat /\ k * E = a + E
      BY Sizes, Multiples
<1>2. j \in Nat \ {0}
  <2> HIDE DEF a
  <2> QED
      BY <1>1
<1>3. j <= k * E /\ ~(j <= (k - 1) * E)
  <2> HIDE DEF a
  <2>1. j <= a + E /\ ~(j <= a)
        BY <1>1
  <2> QED
        BY <2>1, <1>1 DEF a
<1> HIDE DEF j
<1>4. SectorsFor(j) <= k /\ ~(SectorsFor(j) <= k - 1)
      BY <1>2, <1>3, SectorUpto
<1>5. SectorsFor(j) = k
  <2>1. SectorsFor(j) \in Nat
        BY <1>2, CellIs
  <2> QED
        BY <2>1, <1>4
<1>6. Cell(j) = i
  <2>1. a \in Nat /\ j = a + Cell(j) /\ Cell(j) \in Nat
        BY <1>2, <1>5, CellIs
  <2> HIDE DEF a
  <2> QED
        BY <2>1 DEF j
<1> QED
      BY <1>2, <1>5, <1>6 DEF j

(* The bytes after a write in the middle of old ones. *)
LEMMA OverIs ==
    ASSUME NEW old \in Seq(Int), NEW bytes \in Seq(Int), NEW at \in Nat, at <= Len(old)
    PROVE  LET new == Over(old, bytes, at)
           IN  /\ new \in Seq(Int)
               /\ Len(new) = IF at + Len(bytes) <= Len(old) THEN Len(old) ELSE at + Len(bytes)
               /\ \A j \in 1 .. Len(new) :
                    new[j] = IF at < j /\ j <= at + Len(bytes) THEN bytes[j - at] ELSE old[j]
<1> DEFINE a == SubSeq(old, 1, at)
           b == SubSeq(old, at + Len(bytes) + 1, Len(old))
           m == at + Len(bytes)
<1>1. Len(old) \in Nat /\ Len(bytes) \in Nat /\ m \in Nat
      OBVIOUS
<1>2. a \in Seq(Int) /\ Len(a) = at /\ \A i \in 1 .. at : a[i] = old[i]
      BY <1>1, Prefixes
<1>3. b \in Seq(Int) /\ Len(b) = (IF m <= Len(old) THEN Len(old) - m ELSE 0)
      /\ \A i \in 1 .. Len(b) : b[i] = old[m + i]
  <2>1. CASE m <= Len(old)
    <3>1. LET t == SubSeq(old, m + 1, Len(old))
          IN  t \in Seq(Int) /\ Len(t) = Len(old) - m /\ \A i \in 1 .. Len(old) - m : t[i] = old[m + i]
          BY <1>1, <2>1, Slice
    <3> QED
          BY <3>1, <2>1
  <2>2. CASE ~(m <= Len(old))
    <3>1. b = <<>>
          BY <1>1, <2>2 
    <3> QED
          BY <3>1, <2>2
  <2> QED
        BY <2>1, <2>2
<1> HIDE DEF a, b
<1> DEFINE n == (a \o bytes) \o b
<1> DEFINE w == a \o bytes
<1>4. Joint(a, bytes, w, Int)
      BY <1>2, JointIs
<1>5. Joint(w, b, n, Int)
  <2>1. w \in Seq(Int)
        BY <1>4 DEF Joint
  <2> QED
        BY <2>1, <1>3, JointIs
<1>6. Over(old, bytes, at) = n
      BY DEF Over, n, a, b
<1> HIDE DEF n, w, m
<1>7. Len(w) = m /\ Len(n) = m + Len(b) /\ n \in Seq(Int) /\ m \in Nat /\ m = at + Len(bytes)
      BY <1>1, <1>2, <1>4, <1>5 DEF Joint, m
<1>8. Len(n) = IF m <= Len(old) THEN Len(old) ELSE m
  <2>1. Len(b) = IF m <= Len(old) THEN Len(old) - m ELSE 0
        BY <1>3
  <2> DEFINE x == Len(b)
             y == Len(n)
             z == Len(old)
  <2>2. x = (IF m <= z THEN z - m ELSE 0) /\ y = m + x /\ z \in Nat /\ m \in Nat
        BY <2>1, <1>1, <1>7
  <2> HIDE DEF x, y, z
  <2>3. y = IF m <= z THEN z ELSE m
        BY <2>2
  <2> QED
        BY <2>3 DEF y, z
<1>9. ASSUME NEW j \in 1 .. Len(n)
      PROVE  n[j] = IF at < j /\ j <= m THEN bytes[j - at] ELSE old[j]
  <2>1. CASE j \in 1 .. at
    <3>1. j \in 1 .. Len(w) /\ j \in 1 .. Len(a) /\ ~(at < j)
          BY <2>1, <1>1, <1>2, <1>7
    <3>2. n[j] = w[j] /\ w[j] = a[j] /\ a[j] = old[j]
          BY <3>1, <2>1, <1>2, <1>4, <1>5 DEF Joint
    <3> QED
          BY <3>1, <3>2
  <2>2. CASE j \notin 1 .. at /\ j \in 1 .. m
    <3>1. j \in 1 .. Len(w) /\ j \notin 1 .. Len(a) /\ at < j /\ j <= m
          BY <2>2, <1>1, <1>2, <1>7
    <3>2. n[j] = w[j] /\ w[j] = bytes[j - Len(a)]
          BY <3>1, <1>4, <1>5 DEF Joint
    <3> QED
          BY <3>1, <3>2, <1>2
  <2>3. CASE j \notin 1 .. m
    <3>1. j \notin 1 .. Len(w) /\ ~(at < j /\ j <= m)
          BY <2>3, <1>1, <1>7
    <3>2. j - m \in 1 .. Len(b) /\ n[j] = b[j - m]
          BY <3>1, <1>5, <1>7 DEF Joint
    <3>3. b[j - m] = old[m + (j - m)] /\ m + (j - m) = j
          BY <3>2, <1>3, <1>7
    <3> QED
          BY <3>1, <3>2, <3>3
  <2> QED
        BY <2>1, <2>2, <2>3, <1>7
<1> QED
      BY <1>6, <1>7, <1>8, <1>9 DEF m

(* The bytes n after the block c was written to sector k of a file with bytes b that grows to length. *)
Painted(b, n, c, k, length, ok) ==
    /\ n \in Seq(Int) /\ Len(b) <= Len(n) /\ (Len(n) <= Len(b) \/ Len(n) <= length)
    /\ ok => k * SectorSize <= Len(n) \/ length <= Len(n)
    /\ \A j \in 1 .. Len(n) :
         \/ SectorsFor(j) = k /\ n[j] = c[Cell(j)]
         \/ j \in 1 .. Len(b) /\ n[j] = b[j] /\ (ok => SectorsFor(j) # k \/ length < j)

(* A block is a sequence of bytes. *)
LEMMA BlockSeq ==
    ASSUME NEW c \in Blocks
    PROVE  c \in Seq(Int) /\ Len(c) = SectorSize /\ \A i \in 1 .. SectorSize : c[i] \in Int
<1>1. SectorSize \in Nat
      BY Sizes
<1>2. c \in [1 .. SectorSize -> Int]
      BY DEF Blocks
<1>3. c \in Seq(Int) /\ DOMAIN c = 1 .. SectorSize
      BY <1>1, <1>2
<1>4. Len(c) = SectorSize
      BY <1>1, <1>3
<1> QED
      BY <1>2, <1>3, <1>4

(* What a write of a block at its place does to the bytes. *)
LEMMA Paints ==
    ASSUME NEW b \in Seq(Int), NEW c \in Blocks, NEW k \in Nat \ {0}, NEW length \in Nat,
           (k - 1) * SectorSize <= Len(b), (k - 1) * SectorSize < length, NEW ok
    PROVE  LET at    == (k - 1) * SectorSize
               bytes == SubSeq(c, 1, Min({length - at, SectorSize}))
           IN  Painted(b, Over(b, IF ok THEN bytes ELSE SubSeq(bytes, 1, Len(bytes) - 1), at), c, k, length, ok)
<1> DEFINE E == SectorSize
           at == (k - 1) * E
           m == Min({length - at, E})
           bytes == SubSeq(c, 1, m)
           w == IF ok THEN bytes ELSE SubSeq(bytes, 1, Len(bytes) - 1)
           n == Over(b, w, at)
<1>1. E \in Nat \ {0} /\ at \in Nat /\ k * E = at + E
      BY Sizes, Multiples
<1>2. c \in Seq(Int) /\ Len(c) = E
      BY BlockSeq
<1>3. m \in 1 .. E /\ m <= length - at /\ (m = E \/ m = length - at)
  <2> HIDE DEF at
  <2>1. length - at \in Int /\ E \in Int /\ length - at > 0
        BY <1>1 DEF at
  <2>2. m = IF length - at <= E THEN length - at ELSE E
        BY <2>1, MinOfTwo
  <2> HIDE DEF m
  <2> QED
        BY <2>1, <2>2, <1>1
<1> HIDE DEF m
<1>4. bytes \in Seq(Int) /\ Len(bytes) = m /\ \A i \in 1 .. m : bytes[i] = c[i]
      BY <1>1, <1>2, <1>3, Prefixes
<1> HIDE DEF bytes
<1>5. w \in Seq(Int) /\ Len(w) \in Nat /\ (ok => Len(w) = m) /\ Len(w) <= m /\ \A i \in 1 .. Len(w) : w[i] = c[i]
  <2>1. CASE ok
        BY <2>1, <1>3, <1>4
  <2>2. CASE ~ok
    <3>1. m - 1 \in Nat /\ 0 <= m - 1 /\ m - 1 <= Len(bytes)
          BY <1>3, <1>4
    <3> DEFINE v == SubSeq(bytes, 1, m - 1)
    <3>2. v \in Seq(Int) /\ Len(v) = m - 1 /\ \A i \in 1 .. m - 1 : v[i] = bytes[i]
          BY <3>1, <1>4, Prefixes
    <3>3. w = v
          BY <2>2, <1>4
    <3> HIDE DEF v, w
    <3> QED
          BY <2>2, <3>1, <3>2, <3>3, <1>3, <1>4
  <2> QED
        BY <2>1, <2>2
<1> HIDE DEF w
<1> DEFINE z == Len(b)
           u == Len(w)
<1>6. /\ n \in Seq(Int)
      /\ Len(n) = IF at + u <= z THEN z ELSE at + u
      /\ \A j \in 1 .. Len(n) : n[j] = IF at < j /\ j <= at + u THEN w[j - at] ELSE b[j]
  <2>1. at \in Nat /\ at <= Len(b)
        BY <1>1
  <2> HIDE DEF at
  <2> QED
        BY <2>1, <1>5, OverIs
<1> HIDE DEF n
<1> DEFINE y == Len(n)
<1>7. z \in Nat /\ u \in Nat /\ y \in Nat /\ at <= z /\ at < length
      BY <1>5, <1>6
<1>8. z <= y /\ (y <= z \/ y <= length) /\ (ok => at + E <= y \/ length <= y)
  <2>1. y = (IF at + u <= z THEN z ELSE at + u) /\ (ok => u = m) /\ u <= m
        BY <1>5, <1>6
  <2> HIDE DEF at, u, y, z
  <2> QED
        BY <2>1, <1>1, <1>3, <1>7
<1>9. ASSUME NEW j \in 1 .. Len(n)
      PROVE  \/ SectorsFor(j) = k /\ n[j] = c[Cell(j)]
             \/ j \in 1 .. Len(b) /\ n[j] = b[j] /\ (ok => SectorsFor(j) # k \/ length < j)
  <2>1. CASE at < j /\ j <= at + u
    <3> DEFINE i == j - at
    <3>1. n[j] = w[i]
          BY <2>1, <1>6
    <3>2. i \in 1 .. u /\ i \in 1 .. E /\ at + i = j
      <4>1. u <= m /\ at \in Nat /\ j \in Nat
            BY <1>5, <1>7, <1>1
      <4> HIDE DEF at, u
      <4> QED
            BY <2>1, <4>1, <1>3, <1>7, <1>1
    <3>3. SectorsFor(j) = k /\ Cell(j) = i
      <4> HIDE DEF i
      <4> QED
          BY <3>2, CellOf
    <3> QED
          BY <3>1, <3>2, <3>3, <1>5
  <2>2. CASE ~(at < j /\ j <= at + u)
    <3>1. n[j] = b[j]
          BY <2>2, <1>6
    <3>2. j \in 1 .. z
      <4>1. y = (IF at + u <= z THEN z ELSE at + u) /\ at \in Nat /\ j \in 1 .. y
            BY <1>6, <1>1
      <4> HIDE DEF at, u, y, z
      <4> QED
            BY <2>2, <4>1, <1>7
    <3>3. ASSUME ok, SectorsFor(j) = k, ~(length < j) PROVE FALSE
      <4>0. j \in Nat \ {0} /\ k - 1 \in Nat /\ ~(k <= k - 1)
            OBVIOUS
      <4>1. j <= k * E
            BY <3>3, <4>0, SectorUpto
      <4>2. ~(j <= (k - 1) * E)
            BY <3>3, <4>0, SectorUpto
      <4>3. u = m /\ j <= at + E /\ ~(j <= at) /\ at \in Nat
            BY <4>1, <4>2, <3>3, <1>1, <1>5
      <4> HIDE DEF at, u
      <4> QED
            BY <4>3, <2>2, <3>3, <4>0, <1>1, <1>3
    <3> QED
          BY <3>1, <3>2, <3>3
  <2> QED
        BY <2>1, <2>2
<1> QED
      BY <1>1, <1>6, <1>8, <1>9 DEF Painted, n, w, bytes, m

(* A block written to a sector of a host file, whether or not the call fails. *)
LEMMA BlockWrite ==
    ASSUME NEW H, NEW io, Storage(io, H), NEW h \in H, io.host[h] \in Seq(Int), NEW c \in Blocks,
           NEW k \in Nat \ {0}, NEW length \in Nat,
           (k - 1) * SectorSize <= Len(io.host[h]), (k - 1) * SectorSize < length
    PROVE  LET r == Pwrite(io, h, SubSeq(c, 1, Min({length - (k - 1) * SectorSize, SectorSize})), (k - 1) * SectorSize)
           IN  Painted(io.host[h], r.host[h], c, k, length, r.ok)
<1> DEFINE at == (k - 1) * SectorSize
           bytes == SubSeq(c, 1, Min({length - at, SectorSize}))
           r == Pwrite(io, h, bytes, at)
<1>1. r.host[h] = Over(io.host[h], IF r.ok THEN bytes ELSE SubSeq(bytes, 1, Len(bytes) - 1), at)
  <2> HIDE DEF bytes, at
  <2> QED
      BY PwriteIs
<1>2. \A ok : Painted(io.host[h], Over(io.host[h], IF ok THEN bytes ELSE SubSeq(bytes, 1, Len(bytes) - 1), at), c, k, length, ok)
      BY Paints
<1> QED
      BY <1>1, <1>2

(* A function, given point by point. *)
TidyF(g) == g = [x \in DOMAIN g |-> g[x]]

(* A function that is changed at a point is one. *)
LEMMA TidyExcept ==
    ASSUME NEW g, NEW h, NEW v
    PROVE  TidyF([g EXCEPT ![h] = v]) /\ TidyF(Put(g, h, v)) /\ (\A S : TidyF(Without(g, S)))
<1>1. TidyF([g EXCEPT ![h] = v])
      BY DEF TidyF
<1>2. TidyF(Put(g, h, v))
      BY DEF TidyF, Put
<1>3. \A S : TidyF(Without(g, S))
      BY DEF TidyF, Without
<1> QED
      BY <1>1, <1>2, <1>3

(* The storage calls keep the host directory a function. *)
LEMMA TidyOver ==
    ASSUME NEW H, NEW io, Storage(io, H), Tidy(io), NEW h, NEW bytes, NEW at, NEW size
    PROVE  /\ Tidy(Open(io, h)) /\ Tidy(Call(io, "pread", TRUE)) /\ Tidy(OpenNew(io, h))
           /\ Tidy(Pwrite(io, h, bytes, at)) /\ Tidy(Truncate(io, h, size)) /\ Tidy(Unlink(io, h))
           /\ \A g : Tidy(RenameTo(io, h, g))
<1>1. \A k, w : Call(io, k, w).host = io.host /\ Storage(Call(io, k, w), H)
      BY CallIs
<1>2. Tidy(Open(io, h)) /\ Tidy(Call(io, "pread", TRUE))
      BY <1>1 DEF Open, Tidy
<1>4. Tidy(OpenNew(io, h))
  <2> DEFINE c == Call(io, "open", h \notin DOMAIN io.host)
             v == Put(c.host, h, <<>>)
  <2>1. OpenNew(io, h) = IF c.ok THEN [c EXCEPT !.host = v] ELSE c
        BY DEF OpenNew
  <2>2. c.host = io.host /\ Storage(c, H)
        BY <1>1
  <2>3. TidyF(v)
        BY TidyExcept
  <2> HIDE DEF c, v
  <2>4. [c EXCEPT !.host = v].host = v
        BY <2>2 DEF Storage
  <2> QED
        BY <2>1, <2>2, <2>3, <2>4 DEF Tidy, TidyF
<1>5. Tidy(Pwrite(io, h, bytes, at))
  <2> DEFINE c == Call(io, "pwrite", TRUE)
             v == Over(c.host[h], IF c.ok THEN bytes ELSE SubSeq(bytes, 1, Len(bytes) - 1), at)
  <2>1. Pwrite(io, h, bytes, at) = [c EXCEPT !.host[h] = v]
        BY DEF Pwrite
  <2>2. c.host = io.host /\ Storage(c, H)
        BY <1>1
  <2> HIDE DEF c, v
  <2>3. [c EXCEPT !.host[h] = v].host = [c.host EXCEPT ![h] = v]
        BY <2>2 DEF Storage
  <2> QED
        BY <2>1, <2>3, TidyExcept DEF Tidy, TidyF
<1>6. Tidy(Truncate(io, h, size))
  <2> DEFINE c == Call(io, "truncate", h \in DOMAIN io.host)
             v == SubSeq(c.host[h], 1, size)
  <2>1. Truncate(io, h, size) = IF c.ok THEN [c EXCEPT !.host[h] = v] ELSE c
        BY DEF Truncate
  <2>2. c.host = io.host /\ Storage(c, H)
        BY <1>1
  <2> HIDE DEF c, v
  <2>3. [c EXCEPT !.host[h] = v].host = [c.host EXCEPT ![h] = v]
        BY <2>2 DEF Storage
  <2> QED
        BY <2>1, <2>2, <2>3, TidyExcept DEF Tidy, TidyF
<1>7. Tidy(Unlink(io, h))
  <2> DEFINE c == Call(io, "remove", h \in DOMAIN io.host)
             v == Without(c.host, {h})
  <2>1. Unlink(io, h) = IF c.ok THEN [c EXCEPT !.host = v] ELSE c
        BY DEF Unlink
  <2>2. c.host = io.host /\ Storage(c, H)
        BY <1>1
  <2>3. TidyF(v)
        BY TidyExcept
  <2> HIDE DEF c, v
  <2>4. [c EXCEPT !.host = v].host = v
        BY <2>2 DEF Storage
  <2> QED
        BY <2>1, <2>2, <2>3, <2>4 DEF Tidy, TidyF
<1>8. ASSUME NEW g PROVE Tidy(RenameTo(io, h, g))
  <2> DEFINE c == Call(io, "rename", h \in DOMAIN io.host /\ g \notin DOMAIN io.host)
             v == Put(Without(c.host, {h}), g, io.host[h])
  <2>1. RenameTo(io, h, g) = IF c.ok THEN [c EXCEPT !.host = v] ELSE c
        BY DEF RenameTo
  <2>2. c.host = io.host /\ Storage(c, H)
        BY <1>1
  <2>3. TidyF(v)
        BY DEF TidyF, Put
  <2> HIDE DEF c, v
  <2>4. [c EXCEPT !.host = v].host = v
        BY <2>2 DEF Storage
  <2> QED
        BY <2>1, <2>2, <2>3, <2>4 DEF Tidy, TidyF
<1> QED
      BY <1>2, <1>4, <1>5, <1>6, <1>7, <1>8

(* The sectors D, from sector from on, fill a file up to the bytes T. *)
Fillable(b, overlay, D, length, from, T) ==
    /\ b \in Seq(Int) /\ D \in Seq(Sectors) /\ length \in Nat \ {0} /\ from \in Nat
    /\ from * SectorSize <= Len(b) /\ Len(b) <= length /\ SectorsFor(length) = from + Len(D)
    /\ \A k \in 1 .. Len(D) : overlay[D[k]] \in Blocks
    /\ \A j \in 1 .. Len(b) : T[j] = b[j]
    /\ \A j \in 1 .. length : from < SectorsFor(j) => T[j] = overlay[D[SectorsFor(j) - from]][Cell(j)]

(* The bytes n that a write of some of those sectors makes of b. *)
Filled(b, n, length, T) ==
    /\ n \in Seq(Int) /\ Len(b) <= Len(n) /\ Len(n) <= length
    /\ \A j \in 1 .. Len(n) : n[j] = T[j]

(* One more sector is written. *)
LEMMA FillStep ==
    ASSUME NEW H, NEW u, Storage(u, H), NEW h \in H, NEW overlay, NEW D, NEW length, NEW from, NEW T, NEW b,
           Fillable(b, overlay, D, length, from, T), Filled(b, u.host[h], length, T), u.ok,
           NEW k \in 1 .. Len(D), (from + k - 1) * SectorSize <= Len(u.host[h]) \/ length <= Len(u.host[h])
    PROVE  LET r == Store(u, overlay, h, D, length, from, k)
           IN  /\ Filled(b, r.host[h], length, T)
               /\ r.ok => (from + k) * SectorSize <= Len(r.host[h]) \/ length <= Len(r.host[h])
<1> DEFINE q == from + k
           c == overlay[D[k]]
           w == u.host[h]
           at == (q - 1) * SectorSize
           r == Pwrite(u, h, SubSeq(c, 1, Min({length - at, SectorSize})), at)
<1>1. from \in Nat /\ Len(D) \in Nat /\ k \in Nat \ {0} /\ q \in Nat \ {0} /\ length \in Nat \ {0}
      BY DEF Fillable
<1>2. Store(u, overlay, h, D, length, from, k) = r
  <2>1. (from + k - 1) = q - 1
        BY <1>1
  <2> QED
        BY <2>1 DEF Store
<1>3. at \in Nat /\ at < length
  <2>1. q - 1 \in Nat /\ ~(SectorsFor(length) <= q - 1)
        BY <1>1 DEF Fillable
  <2>2. ~(length <= at)
        BY <2>1, <1>1, SectorUpto
  <2>3. at \in Nat
        BY <2>1, Sizes, Multiples
  <2> HIDE DEF at
  <2> QED
        BY <2>2, <2>3, <1>1
<1>4. at <= Len(w) /\ w \in Seq(Int) /\ Len(w) \in Nat
  <2>1. w \in Seq(Int) /\ Len(w) \in Nat
        BY DEF Filled
  <2>2. at <= Len(w) \/ length <= Len(w)
        BY <1>1
  <2> HIDE DEF at, w
  <2> QED
        BY <2>1, <2>2, <1>1, <1>3
<1>5. c \in Blocks
      BY DEF Fillable
<1> HIDE DEF c
<1>6. Painted(w, r.host[h], c, q, length, r.ok)
      BY <1>1, <1>3, <1>4, <1>5, BlockWrite
<1> DEFINE n == r.host[h]
<1> HIDE DEF r
<1>7. n \in Seq(Int) /\ Len(b) <= Len(n) /\ Len(n) <= length /\ Len(n) \in Nat
  <2>1. n \in Seq(Int) /\ Len(w) <= Len(n) /\ (Len(n) <= Len(w) \/ Len(n) <= length)
        BY <1>6 DEF Painted
  <2>2. Len(b) <= Len(w) /\ Len(w) <= length /\ Len(b) \in Nat
        BY DEF Filled, Fillable
  <2> HIDE DEF n, w
  <2> QED
        BY <2>1, <2>2, <1>1, <1>4
<1>8. ASSUME NEW j \in 1 .. Len(n) PROVE n[j] = T[j]
  <2>1. \/ SectorsFor(j) = q /\ n[j] = c[Cell(j)]
        \/ j \in 1 .. Len(w) /\ n[j] = w[j]
        BY <1>6 DEF Painted
  <2>2. CASE SectorsFor(j) = q /\ n[j] = c[Cell(j)]
    <3>1. j \in 1 .. length /\ from < SectorsFor(j) /\ SectorsFor(j) - from = k
      <4> HIDE DEF n
      <4> QED
          BY <2>2, <1>1, <1>7
    <3>2. T[j] = overlay[D[SectorsFor(j) - from]][Cell(j)]
          BY <3>1 DEF Fillable
    <3> QED
          BY <3>1, <3>2, <2>2 DEF c
  <2>3. CASE j \in 1 .. Len(w) /\ n[j] = w[j]
        BY <2>3 DEF Filled
  <2> QED
        BY <2>1, <2>2, <2>3
<1>9. r.ok => q * SectorSize <= Len(n) \/ length <= Len(n)
      BY <1>6 DEF Painted
<1> QED
      BY <1>2, <1>7, <1>8, <1>9 DEF Filled

(* PwriteSectors fills the file, whichever call fails. *)
LEMMA Fills ==
    ASSUME NEW H, NEW io, Storage(io, H), Tidy(io), NEW h \in H, NEW overlay, NEW D, NEW length, NEW from, NEW T,
           Fillable(io.host[h], overlay, D, length, from, T)
    PROVE  LET r == PwriteSectors(io, overlay, h, D, length, from)
           IN  /\ Tidy(r) /\ Filled(io.host[h], r.host[h], length, T)
               /\ r.ok => Len(r.host[h]) = length
<1> DEFINE N == Len(D)
           b == io.host[h]
           Good(u, k) == /\ Storage(u, H) /\ Tidy(u) /\ Filled(b, u.host[h], length, T)
                         /\ u.ok => (from + k) * SectorSize <= Len(u.host[h]) \/ length <= Len(u.host[h])
           a == [io EXCEPT !.ok = TRUE]
<1>1. from \in Nat /\ N \in Nat /\ length \in Nat \ {0} /\ SectorsFor(length) = from + N
      BY DEF Fillable
<1>2. PICK t : /\ Stores(io, overlay, h, D, length, from, t)
               /\ PwriteSectors(io, overlay, h, D, length, from) = t[N]
  BY <1>1, StoresIs
<1>3. Good(a, 0)
  <2>1. a = [host |-> io.host, fault |-> io.fault, ok |-> TRUE]
    <3>1. \A w : [io EXCEPT !.ok = w] = [host |-> io.host, fault |-> io.fault, ok |-> w]
      BY DEF Storage
    <3> QED BY <3>1
  <2> HIDE DEF a
  <2>2. a.host = io.host /\ a.fault = io.fault /\ a.ok = TRUE
    BY <2>1
  <2>3. Storage(a, H) /\ Tidy(a)
    BY <2>1, <2>2 DEF Storage, Tidy
  <2>4. Filled(b, b, length, T)
    BY DEF Filled, Fillable
  <2>5. (from + 0) * SectorSize <= Len(b)
    <3>1. from + 0 = from
      BY <1>1
    <3> QED BY <3>1 DEF Fillable
  <2> QED BY <2>2, <2>3, <2>4, <2>5
<1>4. ASSUME NEW u, NEW k \in 1 .. N, Good(u, k - 1) PROVE Good(Store(u, overlay, h, D, length, from, k), k)
  <2> DEFINE bb == SubSeq(overlay[D[k]], 1, Min({length - (from + k - 1) * SectorSize, SectorSize}))
             at == (from + k - 1) * SectorSize
             w == Pwrite(u, h, bb, at)
             r == Store(u, overlay, h, D, length, from, k)
  <2>1. r = IF ~u.ok THEN u ELSE w
    BY DEF Store
  <2>2. CASE ~u.ok
    BY <2>1, <2>2, <1>4
  <2>3. CASE u.ok
    <3>1. from + (k - 1) = from + k - 1
      BY <1>1
    <3>2. at <= Len(u.host[h]) \/ length <= Len(u.host[h])
      BY <2>3, <3>1, <1>4
    <3>3. /\ Filled(b, r.host[h], length, T)
          /\ r.ok => (from + k) * SectorSize <= Len(r.host[h]) \/ length <= Len(r.host[h])
      BY <2>3, <3>2, <1>4, FillStep
    <3>4. Storage(r, H) /\ Tidy(r)
      <4>1. Storage(w, H) /\ Tidy(w)
        <5> HIDE DEF bb, at
        <5> QED BY <1>4, PwriteIs, TidyOver
      <4> QED BY <4>1, <2>1, <2>3
    <3> QED BY <3>3, <3>4
  <2> QED BY <2>2, <2>3
<1> DEFINE S == {k \in 0 .. N : Good(t[k], k)}
<1> HIDE DEF Good
<1>5. 0 \in S
  BY <1>1, <1>2, <1>3 DEF Stores
<1>6. ASSUME NEW m \in 1 .. N, m - 1 \in S PROVE m \in S
  <2>1. m \in 0 .. N /\ m # 0
    OBVIOUS
  <2>2. t[m] = Store(t[m - 1], overlay, h, D, length, from, m)
    BY <1>2, <2>1 DEF Stores
  <2> QED BY <1>4, <1>6, <2>1, <2>2
<1>7. N \in S
  <2>1. 0 .. N \subseteq S
    <3> HIDE DEF S
    <3> QED BY <1>1, <1>5, <1>6, Upto
  <2> QED BY <1>1, <2>1
<1>8. Good(t[N], N)
  BY <1>7
<1>9. ASSUME t[N].ok PROVE Len(t[N].host[h]) = length
  <2> DEFINE n == t[N].host[h]
  <2>1. (from + N) * SectorSize <= Len(n) \/ length <= Len(n)
    BY <1>8, <1>9 DEF Good
  <2>2. Len(n) <= length /\ Len(n) \in Nat
    BY <1>8 DEF Good, Filled
  <2>3. length <= (from + N) * SectorSize
    <3>1. from + N \in Nat /\ SectorsFor(length) <= from + N
      BY <1>1
    <3> QED BY <3>1, <1>1, SectorUpto
  <2>4. (from + N) * SectorSize \in Nat
    <3>1. from + N \in Nat
      BY <1>1
    <3> QED BY <3>1, Sizes, Multiples
  <2> DEFINE p == (from + N) * SectorSize
  <2> HIDE DEF p, n
  <2> QED BY <2>1, <2>2, <2>3, <2>4, <1>1 DEF p, n
<1> QED BY <1>2, <1>8, <1>9 DEF Good

-----------------------------------------------------------------------------
(* The bytes that last. *)

(* The block of sector k holds the bytes of that sector. *)
LEMMA BlockIs ==
    ASSUME NEW bytes \in Seq(Int), NEW k \in Nat \ {0}
    PROVE  Block(bytes, k) \in Blocks /\ Matches(Block(bytes, k), bytes, k)
<1> DEFINE E == SectorSize
           at == (k - 1) * E
           c == Block(bytes, k)
<1>1. E \in Nat /\ at \in Nat /\ Len(bytes) \in Nat
      BY Sizes, Multiples
<1>2. c = [i \in 1 .. E |-> IF at + i <= Len(bytes) THEN bytes[at + i] ELSE 0]
      BY DEF Block
<1> HIDE DEF c
<1>3. ASSUME NEW i \in 1 .. E PROVE c[i] \in Int
  <2>1. c[i] = IF at + i <= Len(bytes) THEN bytes[at + i] ELSE 0
        BY <1>2
  <2> HIDE DEF at
  <2>2. at + i <= Len(bytes) => at + i \in 1 .. Len(bytes)
        BY <1>1
  <2>3. at + i <= Len(bytes) => bytes[at + i] \in Int
        BY <2>2
  <2> QED
        BY <2>1, <2>3
<1>4. c \in Blocks
  <2> HIDE DEF at
  <2> QED
      BY <1>2, <1>3 DEF Blocks
<1>5. ASSUME NEW j \in 1 .. Len(bytes), SectorsFor(j) = k PROVE c[Cell(j)] = bytes[j]
  <2>0. j \in Nat \ {0}
        BY <1>1
  <2>1. Cell(j) \in 1 .. E /\ j = at + Cell(j)
    <3>1. Cell(j) \in 1 .. E /\ j = (SectorsFor(j) - 1) * E + Cell(j)
          BY <2>0, CellIs
    <3> QED
          BY <3>1, <1>5, Zenon
  <2>2. c[Cell(j)] = IF at + Cell(j) <= Len(bytes) THEN bytes[at + Cell(j)] ELSE 0
        BY <1>2, <2>1
  <2>3. j <= Len(bytes)
        OBVIOUS
  <2> HIDE DEF at
  <2> QED
        BY <2>1, <2>2, <2>3
<1> QED
      BY <1>4, <1>5 DEF Matches, c

(* Two files alike in a sector have the same block there. *)
LEMMA BlockSame ==
    ASSUME NEW s \in Seq(Int), NEW t \in Seq(Int), Len(s) = Len(t), NEW k \in Nat \ {0},
           \A j \in 1 .. Len(s) : SectorsFor(j) = k => s[j] = t[j]
    PROVE  Block(s, k) = Block(t, k)
<1> DEFINE E == SectorSize
           at == (k - 1) * E
<1>1. ASSUME NEW i \in 1 .. E
      PROVE  (IF at + i <= Len(s) THEN s[at + i] ELSE 0) = (IF at + i <= Len(t) THEN t[at + i] ELSE 0)
  <2>1. at + i \in Nat \ {0} /\ SectorsFor(at + i) = k
        BY CellOf
  <2> HIDE DEF at
  <2> QED
        BY <2>1
<1> QED
      BY <1>1 DEF Block

(* Sequences with the same elements are the same. *)
LEMMA SameBytesAre ==
    ASSUME NEW s \in Seq(Int), NEW t \in Seq(Int), Len(s) = Len(t), \A j \in 1 .. Len(s) : s[j] = t[j]
    PROVE  s = t
OBVIOUS

(* Two images with the same host files. *)
HostSame(d, e) == DOMAIN e.io.host = DOMAIN d.io.host /\ \A h \in DOMAIN d.io.host : e.io.host[h] = d.io.host[h]

(* What an image that lasts keeps of the bytes. *)
LEMMA LastsIs ==
    ASSUME NEW d, NEW e, Lasts(d, e)
    PROVE  /\ \A f, T : Clean(d, f, T) => Clean(e, f, T)
           /\ \A f : Intact(d, f) => Intact(e, f)
           /\ \A M, N : Typed(d, M) /\ M \subseteq N => Typed(e, N)
           /\ \A f, T : Stored(d, f, T) /\ e.io.host[f.host] = d.io.host[f.host] => Stored(e, f, T)
<1>1. ASSUME NEW f, NEW T, Clean(d, f, T) PROVE Clean(e, f, T)
      BY <1>1 DEF Clean, Lasts
<1>2. ASSUME NEW f, Intact(d, f) PROVE Intact(e, f)
      BY <1>2 DEF Intact, Lasts
<1>3. ASSUME NEW M, NEW N, Typed(d, M), M \subseteq N PROVE Typed(e, N)
      BY <1>3 DEF Typed, Lasts
<1>4. ASSUME NEW f, NEW T, Stored(d, f, T), e.io.host[f.host] = d.io.host[f.host] PROVE Stored(e, f, T)
      BY <1>4 DEF Stored
<1> QED
      BY <1>1, <1>2, <1>3, <1>4

(* The hosts of the other files, as they were. *)
LEMMA OthersLast ==
    ASSUME NEW d, NEW e, Lasts(d, e), NEW cat, NEW n, Others(d, cat, n),
           \A m \in DOMAIN cat \ {n} : e.io.host[cat[m].host] = d.io.host[cat[m].host]
    PROVE  Others(e, cat, n)
<1> SUFFICES ASSUME NEW m \in DOMAIN cat \ {n} PROVE Clean(e, cat[m], {}) /\ Stored(e, cat[m], {})
      BY DEF Others
<1>1. Clean(d, cat[m], {}) /\ Stored(d, cat[m], {})
      BY DEF Others
<1> QED
      BY <1>1, LastsIs

(* The files of the catalogue are on the host. *)
LEMMA HostsAre ==
    ASSUME NEW d, NEW cat, Catalogue(cat), Layout(d, cat)
    PROVE  /\ \A n \in DOMAIN cat : cat[n].host \in DOMAIN d.io.host
           /\ \A n, m \in DOMAIN cat : n # m => cat[n].host # cat[m].host
BY DEF Layout, Catalogue, Apart

(* Nothing changed for the bytes: early stays early. *)
LEMMA EarlyLasts ==
    ASSUME NEW d, NEW e, Lasts(d, e), NEW cat, NEW o, Early(d, cat, o),
           o.kind # "create" => e.io.host[cat[o.name].host] = d.io.host[cat[o.name].host],
           o.kind = "update" => o.file.host = cat[o.name].host
    PROVE  Early(e, cat, o)
<1>1. Typed(e, MapsIn(cat) \cup Elems(o.file.maps))
      BY LastsIs DEF Early
<1>2. o.kind \in Outputs => Clean(e, o.file, Unsure(o))
      BY LastsIs DEF Early
<1>3. o.kind \in {"append", "replace", "erase", "rename"} => Stored(e, cat[o.name], {})
      BY LastsIs DEF Early
<1>4. o.kind = "append" => Intact(e, cat[o.name])
      BY LastsIs DEF Early
<1>5. o.kind \in {"erase", "rename"} => Clean(e, cat[o.name], {})
      BY LastsIs DEF Early
<1>6. o.kind = "update" => Clean(e, o.file, Unsure(o)) /\ Stored(e, o.file, Unsure(o))
      BY LastsIs DEF Early
<1> QED
      BY <1>1, <1>2, <1>3, <1>4, <1>5, <1>6 DEF Early

(* An image is not both before and after its commit. *)
LEMMA Exclusive ==
    ASSUME NEW d, NEW cat, NEW o, Going(d, cat, o), Underway(d, cat, o), Committed(d, cat, o)
    PROVE  FALSE
<1> DEFINE f == o.file
           s == f.slot
<1>1. o.kind \in Outputs /\ o.phase = "rest" /\ NoPending(d)
      BY DEF Committed
<1>2. d.directory[s] = EntryOf(o.name, f)
  <2>1. After(cat, o) = Put(cat, o.name, f)
        BY <1>1 DEF After, Outputs, Whole
  <2>2. After(cat, o)[o.name] = f
    <3> HIDE DEF f
    <3>1. Put(cat, o.name, f)[o.name] = f
          BY DEF Put
    <3> QED
          BY <2>1, <3>1
  <2> QED
        BY <2>2 DEF Committed, AtRest
<1>3. CASE o.kind = "create"
  <2>1. Creating(d, o)
        BY <1>3 DEF Underway
  <2>2. Opened(o.name, f) # EntryOf(o.name, f)
    <3>1. Opened(o.name, f).status = "open" /\ EntryOf(o.name, f).status = "active"
          BY DEF Opened, EntryOf
    <3> QED
          BY <3>1
  <2> QED
        BY <2>1, <2>2, <1>1, <1>2 DEF Creating, NoPending, Only
<1>4. CASE o.kind = "append"
  <2>1. Appending(d, cat[o.name], o)
        BY <1>4 DEF Underway
  <2>2. EntryOf(o.name, cat[o.name]) # EntryOf(o.name, f)
    <3>1. Len(cat[o.name].bytes) < Len(f.bytes)
          BY <1>4 DEF Going, Plan
    <3>2. Len(cat[o.name].bytes) \in Nat /\ Len(f.bytes) \in Nat
      <4>1. Sound(f) /\ Sound(cat[o.name])
            BY <1>4 DEF Going, Plan, Catalogue
      <4> QED
            BY <4>1, SoundFacts
    <3>3. EntryOf(o.name, cat[o.name]).length = Len(cat[o.name].bytes) /\ EntryOf(o.name, f).length = Len(f.bytes)
          BY DEF EntryOf
    <3> DEFINE a == Len(cat[o.name].bytes)
               b == Len(f.bytes)
    <3> HIDE DEF a, b
    <3>4. a < b /\ a \in Nat /\ b \in Nat
          BY <3>1, <3>2 DEF a, b
    <3>5. a # b
          BY <3>4
    <3> QED
          BY <3>3, <3>5 DEF a, b
  <2> QED
        BY <2>1, <2>2, <1>1, <1>2 DEF Appending, NoPending, Only
<1>5. CASE o.kind = "replace"
  <2>1. Replacing(d, cat[o.name], o)
        BY <1>5 DEF Underway
  <2> QED
        BY <2>1, <1>1 DEF Replacing, NoPending, Only
<1> QED
      BY <1>1, <1>3, <1>4, <1>5 DEF Outputs, Whole

(* What the commits of a write leave of the bytes: refused, they leave the host as it was. *)
BytesOutcome(d, e, cat, o) == Bytes(e, cat, o) /\ (e.error => HostSame(d, e))

(* A commit that is refused, and leaves the host as it was, leaves the bytes. *)
LEMMA RefusedBytes ==
    ASSUME NEW d, NEW e, NEW cat, NEW o, Going(d, cat, o), Underway(d, cat, o), Early(d, cat, o),
           Others(d, cat, o.name), Same(d, e), HostSame(d, e), Tidy(e.io)
    PROVE  BytesOutcome(d, e, cat, o)
<1>1. Catalogue(cat) /\ Plan(cat, o) /\ Layout(d, cat)
      BY DEF Going, Underway
<1>2. Lasts(d, e)
      BY DEF Same, Lasts
<1>3. \A n \in DOMAIN cat : e.io.host[cat[n].host] = d.io.host[cat[n].host]
      BY <1>1, HostsAre DEF HostSame
<1>4. Others(e, cat, o.name)
      BY <1>2, <1>3, OthersLast
<1>5. o.kind # "create" => o.name \in DOMAIN cat
      BY <1>1, PlanFacts
<1>6. o.kind = "update" => o.file.host = cat[o.name].host
      BY <1>1, PlanFacts
<1>7. Early(e, cat, o)
      BY <1>2, <1>3, <1>5, <1>6, EarlyLasts
<1>8. Underway(e, cat, o)
      BY SameUnderway
<1> QED
      BY <1>4, <1>7, <1>8 DEF BytesOutcome, Bytes, Doing

(* A byte of a file is in one of its sectors. *)
LEMMA SectorIn ==
    ASSUME NEW f, Sound(f), NEW j \in 1 .. Len(f.bytes)
    PROVE  SectorsFor(j) \in 1 .. Len(f.data) /\ Cell(j) \in 1 .. SectorSize /\ j \in Nat \ {0}
<1>1. Len(f.bytes) \in Nat \ {0} /\ Len(f.data) = SectorsFor(Len(f.bytes)) /\ Len(f.data) \in Nat
      BY SoundFacts
<1> DEFINE n == Len(f.bytes)
           s == Len(f.data)
<1> HIDE DEF n, s
<1>2. j \in Nat \ {0} /\ j <= n /\ n \in Nat \ {0} /\ s = SectorsFor(n) /\ s \in Nat
      BY <1>1 DEF n, s
<1>3. SectorsFor(j) \in Nat \ {0} /\ Cell(j) \in 1 .. SectorSize
      BY <1>2, CellIs
<1>4. n <= s * SectorSize
      BY <1>2, SectorUpto
<1>5. s * SectorSize \in Nat
      BY <1>2, SdfsAssumption
<1>6. j <= s * SectorSize
      BY <1>2, <1>4, <1>5
<1>7. SectorsFor(j) <= s
      BY <1>2, <1>6, SectorUpto
<1> QED
      BY <1>2, <1>3, <1>7 DEF s

(* What is waiting for a data sector of the file is a block of bytes. *)
LEMMA DataBlocks ==
    ASSUME NEW d, NEW cat, Catalogue(cat), NEW n, NEW f, Fits(cat, n, f),
           n \in DOMAIN cat => Elems(cat[n].maps) \cap Elems(f.data) = {},
           Typed(d, MapsIn(cat) \cup Elems(f.maps)), NEW x \in Elems(f.data), x \in DOMAIN d.pendingSectorWrites
    PROVE  d.pendingSectorWrites[x] \in Blocks
<1>1. Sound(f) /\ Elems(f.maps) \cap Elems(f.data) = {}
      BY SoundFacts DEF Fits
<1>2. ASSUME NEW m \in DOMAIN cat PROVE x \notin Elems(cat[m].maps)
  <2>1. CASE m = n
        BY <2>1
  <2>2. CASE m # n
        BY <2>2 DEF Fits, Apart, SectorsOf
  <2> QED
        BY <2>1, <2>2
<1>3. x \notin MapsIn(cat) \cup Elems(f.maps)
      BY <1>1, <1>2 DEF MapsIn
<1> QED
      BY <1>3 DEF Typed

(* A sector that waits holds the bytes of the file. *)
LEMMA WaitingByte ==
    ASSUME NEW d, NEW f, Sound(f), NEW U, Clean(d, f, U), NEW j \in 1 .. Len(f.bytes),
           f.data[SectorsFor(j)] \in DOMAIN d.pendingSectorWrites, f.data[SectorsFor(j)] \notin U
    PROVE  d.pendingSectorWrites[f.data[SectorsFor(j)]][Cell(j)] = f.bytes[j]
<1> DEFINE k == SectorsFor(j)
<1>1. k \in 1 .. Len(f.data) /\ k \in Nat \ {0}
      BY SectorIn
<1>2. d.pendingSectorWrites[f.data[k]] = Block(f.bytes, k)
      BY <1>1 DEF Clean
<1>3. f.bytes \in Seq(Int)
      BY SoundFacts
<1>4. Matches(Block(f.bytes, k), f.bytes, k)
      BY <1>1, <1>3, BlockIs
<1>5. Block(f.bytes, k)[Cell(j)] = f.bytes[j]
      BY <1>4 DEF Matches
<1> QED
      BY <1>2, <1>5

-----------------------------------------------------------------------------
(* The storage calls of the three commits, by the bytes they leave. *)

(* A create filled its new file with what waited, or left no file behind. *)
CreateFilled(d, n, f, U) ==
    LET new  == CreateNew(d, n)
            full == CreateFull(d, n, f)
            gone == Unlink(full, n)
        IN  /\ ~new.ok => Tidy(new) /\ Storage(new, DOMAIN d.io.host) /\ new.host = d.io.host
            /\ new.ok /\ ~full.ok => /\ Tidy(gone) /\ Storage(gone, DOMAIN d.io.host)
                                     /\ \A h \in DOMAIN d.io.host : gone.host[h] = d.io.host[h]
            /\ new.ok /\ full.ok =>
                 /\ Tidy(full) /\ Storage(full, DOMAIN d.io.host \cup {n})
                 /\ \A h \in DOMAIN d.io.host : full.host[h] = d.io.host[h]
                 /\ full.host[n] \in Seq(Int) /\ Len(full.host[n]) = Len(f.bytes)
                 /\ \A j \in 1 .. Len(f.bytes) : f.data[SectorsFor(j)] \notin U => full.host[n][j] = f.bytes[j]

(* The storage calls of a create fill the new file with what waits, or     *)
(* leave no file behind.                                                   *)
LEMMA CreateFills ==
    ASSUME SdfsGuest, NEW d, NEW cat, NEW n, NEW f, CreateStaged(d, cat, n, f), Tidy(d.io), NEW U, Clean(d, f, U),
           Typed(d, MapsIn(cat) \cup Elems(f.maps)), Elems(f.data) \subseteq DOMAIN d.pendingSectorWrites
    PROVE  CreateFilled(d, n, f, U)
<1> DEFINE H == DOMAIN d.io.host
           new == CreateNew(d, n)
           full == CreateFull(d, n, f)
           gone == Unlink(full, n)
           o == d.pendingSectorWrites
           T == [j \in 1 .. Len(f.bytes) |-> o[f.data[SectorsFor(j)]][Cell(j)]]
<1>1. Image(d) /\ Catalogue(cat) /\ Layout(d, cat) /\ Fits(cat, n, f) /\ n \notin DOMAIN cat /\ f.host = n /\ Sound(f)
      BY DEF CreateStaged, Fits
<1>2. Storage(d.io, H)
      BY <1>1, ImageStorage
<1>3. n \notin H
  <2>1. \A k \in DOMAIN cat : cat[k].host # n
        BY <1>1 DEF Fits, Apart
  <2> QED
        BY <1>1, <2>1 DEF Layout
<1>4. /\ Tidy(new)
      /\ new.ok => Storage(new, H \cup {n}) /\ new.host = Put(d.io.host, n, <<>>)
      /\ ~new.ok => Storage(new, H) /\ new.host = d.io.host
  <2> HIDE DEF H
  <2> QED
        BY <1>2, OpenNewIs, TidyOver DEF CreateNew
<1>5. CASE ~new.ok
      BY <1>4, <1>5 DEF CreateFilled
<1>6. CASE new.ok
  <2>1. Storage(new, H \cup {n}) /\ Tidy(new) /\ n \in H \cup {n}
        BY <1>4, <1>6
  <2>2. new.host[n] = <<>> /\ \A h \in H : new.host[h] = d.io.host[h]
    <3>1. new.host = Put(d.io.host, n, <<>>)
          BY <1>4, <1>6
    <3> HIDE DEF new
    <3> QED
          BY <3>1, <1>3 DEF Put
  <2>3. Len(f.data) \in Nat \ {0} /\ f.data \in Seq(Sectors) /\ Len(f.bytes) \in Nat \ {0}
        /\ Len(f.data) = SectorsFor(Len(f.bytes))
        BY <1>1, SoundFacts
  <2>4. \A k \in 1 .. Len(f.data) : o[f.data[k]] \in Blocks
    <3> SUFFICES ASSUME NEW k \in 1 .. Len(f.data) PROVE o[f.data[k]] \in Blocks
          OBVIOUS
    <3>1. f.data[k] \in Elems(f.data) /\ f.data[k] \in DOMAIN o
          BY <1>1, SectorsAt
    <3> QED
          BY <3>1, <1>1, DataBlocks
  <2>5. Fillable(new.host[n], o, f.data, Len(f.bytes), 0, T)
    <3>1. 0 * SectorSize = 0
          BY SdfsAssumption
    <3>2. <<>> \in Seq(Int) /\ Len(<<>>) = 0
          OBVIOUS
    <3>3. \A j \in 1 .. Len(f.bytes) : SectorsFor(j) \in Nat
          BY <1>1, SectorIn
    <3>4. \A j \in 1 .. Len(f.bytes) : T[j] = o[f.data[SectorsFor(j) - 0]][Cell(j)]
      <4> TAKE j \in 1 .. Len(f.bytes)
      <4>1. SectorsFor(j) - 0 = SectorsFor(j)
            BY <3>3
      <4> QED
            BY <4>1
    <3> HIDE DEF T, o, new
    <3> DEFINE l == Len(f.bytes)
               s == Len(f.data)
    <3>5. l \in Nat \ {0} /\ s \in Nat /\ SectorsFor(l) = 0 + s /\ 0 <= l
      <4> HIDE DEF l, s
      <4>1. l \in Nat \ {0} /\ s \in Nat /\ s = SectorsFor(l)
            BY <2>3 DEF l, s
      <4> QED
            BY <4>1
    <3> QED
          BY <2>2, <2>3, <2>4, <3>1, <3>2, <3>4, <3>5 DEF Fillable
  <2> DEFINE l == Len(f.bytes)
             D == f.data
  <2>6. full = PwriteSectors(new, o, n, D, l, 0)
        BY DEF CreateFull
  <2>6a. Len(D) \in Nat /\ l \in Nat /\ f.bytes \in Seq(Int)
        BY <2>3, <1>1, SoundFacts
  <2> HIDE DEF full, new, o, l, D, T
  <2>7. Fillable(new.host[n], o, D, l, 0, T)
        BY <2>5 DEF l, D
  <2>8. Tidy(full) /\ Filled(<<>>, full.host[n], l, T) /\ (full.ok => Len(full.host[n]) = l)
        BY <2>1, <2>2, <2>6, <2>7, Fills
  <2>9. Storage(full, H \cup {n}) /\ \A g \in (H \cup {n}) \ {n} : full.host[g] = new.host[g]
    <3> DEFINE G == H \cup {n}
    <3>1. Storage(new, G) /\ n \in G
          BY <2>1
    <3> HIDE DEF G
    <3>2. Storage(full, G) /\ \A g \in G \ {n} : full.host[g] = new.host[g]
          BY ONLY <3>1, <2>6, <2>6a, PwriteSectorsIs
    <3> QED
          BY <3>2 DEF G
  <2>10. \A h \in H : full.host[h] = d.io.host[h]
        BY <2>2, <2>9, <1>3
  <2>11. Tidy(gone) /\ Storage(gone, H) /\ \A h \in H : gone.host[h] = d.io.host[h]
    <3>1. Storage(gone, (H \cup {n}) \ {n}) /\ gone.host = Without(full.host, {n}) /\ Tidy(gone)
      <4> HIDE DEF H
      <4> QED
        <5> DEFINE G == H \cup {n}
        <5>1. Storage(full, G) /\ n \in G /\ Tidy(full) /\ gone = Unlink(full, n) /\ SdfsGuest
              BY <2>1, <2>8, <2>9
        <5> HIDE DEF G, gone, full
        <5>2. Storage(gone, G \ {n}) /\ gone.host = Without(full.host, {n})
              BY ONLY <5>1, UnlinkIs
        <5>3. Tidy(gone)
              BY ONLY <5>1, TidyOver
        <5> QED
              BY <5>2, <5>3 DEF G
    <3>2. (H \cup {n}) \ {n} = H
          BY <1>3
    <3>3. DOMAIN full.host = H \cup {n}
          BY <2>9 DEF Storage
    <3> HIDE DEF gone, H
    <3>4. \A h \in H : gone.host[h] = full.host[h]
          BY <3>1, <3>2, <3>3 DEF Without
    <3> QED
          BY <3>1, <3>2, <3>4, <2>10
  <2>12. ASSUME full.ok
         PROVE  /\ full.host[n] \in Seq(Int) /\ Len(full.host[n]) = l
                /\ \A j \in 1 .. l : f.data[SectorsFor(j)] \notin U => full.host[n][j] = f.bytes[j]
    <3>1. full.host[n] \in Seq(Int) /\ Len(full.host[n]) = l
          BY <2>8, <2>12 DEF Filled
    <3> SUFFICES ASSUME NEW j \in 1 .. l, f.data[SectorsFor(j)] \notin U
                 PROVE  full.host[n][j] = f.bytes[j]
          BY <3>1
    <3>2. full.host[n][j] = T[j]
          BY <2>8, <3>1 DEF Filled
    <3>3. T[j] = o[f.data[SectorsFor(j)]][Cell(j)]
          BY DEF T, l
    <3>4. SectorsFor(j) \in 1 .. Len(f.data)
          BY <1>1, SectorIn DEF l
    <3>5. f.data[SectorsFor(j)] \in DOMAIN o
          BY <3>4, <1>1, SectorsAt DEF o
    <3>6. o[f.data[SectorsFor(j)]][Cell(j)] = f.bytes[j]
          BY <3>5, <1>1, WaitingByte DEF o, l
    <3> QED
          BY <3>2, <3>3, <3>6
  <2> QED
        BY <1>6, <2>8, <2>9, <2>10, <2>11, <2>12 DEF full, new, l, CreateFilled
<1> QED
      BY <1>5, <1>6 DEF CreateFilled

(* The sectors of n bytes, and the whole ones among them. *)
LEMMA WholeSectors ==
    ASSUME NEW n \in Nat \ {0}
    PROVE  LET q == n \div SectorSize
           IN  /\ q \in Nat /\ q * SectorSize <= n /\ q * SectorSize \in Nat
               /\ SectorsFor(n) = IF n % SectorSize = 0 THEN q ELSE q + 1
<1> DEFINE E == SectorSize
           q == n \div E
           p == q * E
<1>1. E \in Nat \ {0}
      BY SdfsAssumption
<1> HIDE DEF E
<1>2. q \in Nat /\ n = E * q + (n % E) /\ n % E \in 0 .. E - 1
  <2>1. \A m \in Nat : m % E = m - E * (m \div E)
        BY <1>1
  <2>2. \A m \in Nat : m % E \in 0 .. E - 1 /\ m \div E \in Nat
        BY <1>1
  <2>3. n % E = n - E * q /\ q \in Nat /\ n % E \in 0 .. E - 1
        BY <2>1, <2>2
  <2> DEFINE p0 == E * q
             r0 == n % E
  <2>4. p0 \in Int /\ r0 = n - p0
        BY <1>1, <2>3
  <2> HIDE DEF p0, r0
  <2>5. n = p0 + r0
        BY <2>4
  <2>6. n = E * q + (n % E)
        BY ONLY <2>5, Zenon DEF p0, r0
  <2> QED
        BY ONLY <2>3, <2>6
<1>3. E * q = p /\ p \in Nat /\ (q + 1) * E = p + E /\ (q > 0 => (q - 1) * E = p - E /\ q - 1 \in Nat)
  <2> HIDE DEF q
  <2> QED
        BY <1>1, <1>2
<1>4. SectorsFor(n) \in Nat \ {0}
      BY CellIs
<1> HIDE DEF q, p
<1>5. n \in Nat \ {0} /\ E = SectorSize
      BY DEF E
<1>6. \A k \in Nat : n <= k * E <=> SectorsFor(n) <= k
      BY <1>5, SectorUpto DEF E
<1> DEFINE r == n % E
           s == SectorsFor(n)
<1>7. r \in 0 .. E - 1 /\ n = p + r /\ s \in Nat \ {0}
  <2>1. n = E * q + (n % E) /\ E * q = p
        BY <1>2, <1>3
  <2>2. n = p + (n % E)
        BY ONLY <2>1, Zenon
  <2> QED
        BY <1>2, <1>4, <2>2 DEF r, s
<1> HIDE DEF r, s
<1>8. n <= p <=> s <= q
      BY <1>2, <1>6 DEF p, s
<1>9. n <= p + E <=> s <= q + 1
  <2>1. q + 1 \in Nat
        BY <1>2
  <2>2. n <= (q + 1) * E <=> s <= q + 1
        BY <2>1, <1>6 DEF s
  <2> QED
        BY <2>2, <1>3
<1>10. q > 0 => (n <= p - E <=> s <= q - 1)
  <2> SUFFICES ASSUME q > 0 PROVE n <= p - E <=> s <= q - 1
        OBVIOUS
  <2>1. q - 1 \in Nat /\ (q - 1) * E = p - E
        BY <1>3
  <2>2. n <= (q - 1) * E <=> s <= q - 1
        BY <2>1, <1>6 DEF s
  <2> QED
        BY <2>1, <2>2
<1>11. q = 0 => p = 0
      BY <1>1 DEF p
<1>12. s = IF r = 0 THEN q ELSE q + 1
      BY <1>1, <1>2, <1>3, <1>5, <1>7, <1>8, <1>9, <1>10, <1>11
<1>13. p <= n
      BY <1>1, <1>3, <1>7
<1> QED
      BY <1>2, <1>3, <1>12, <1>13 DEF s, r, p, q, E

(* The sectors an append writes are those of the file from the last whole  *)
(* one of the old file on.                                                 *)
LEMMA Appended ==
    ASSUME NEW old, Sound(old), NEW f, Sound(f), Begins(old, f)
    PROVE  LET D    == TailOf(old) \o NewData(old, f)
               from == Len(old.bytes) \div SectorSize
           IN  /\ from \in Nat /\ from * SectorSize <= Len(old.bytes) /\ D \in Seq(Sectors)
               /\ Len(f.data) = from + Len(D) /\ \A k \in 1 .. Len(D) : D[k] = f.data[from + k]
               /\ \A k \in 1 .. Len(D) : D[k] \in Elems(TailOf(old)) \cup Elems(NewData(old, f))
<1> DEFINE t == TailOf(old)
           u == NewData(old, f)
           D == t \o u
           from == Len(old.bytes) \div SectorSize
           a == Len(old.data)
           b == Len(f.data)
           n == Len(old.bytes)
<1>1. /\ n \in Nat \ {0} /\ a \in Nat \ {0} /\ b \in Nat \ {0} /\ f.data \in Seq(Sectors)
      /\ a = SectorsFor(n)
      BY SoundFacts
<1>2. a <= b /\ \A k \in 1 .. a : old.data[k] = f.data[k]
      BY DEF Begins
<1>3. from \in Nat /\ from * SectorSize <= n /\ a = IF n % SectorSize = 0 THEN from ELSE from + 1
  <2>1. n \in Nat \ {0} /\ a = SectorsFor(n) /\ from = n \div SectorSize
        BY <1>1
  <2> HIDE DEF n, a, from
  <2> QED
        BY ONLY <2>1, WholeSectors
<1>4. t \in Seq(Sectors) /\ u \in Seq(Sectors)
      BY Additions
<1>5. u \in Seq(Sectors) /\ Len(u) = b - a /\ \A i \in 1 .. b - a : u[i] = f.data[a + i]
  <2>1. u = SubSeq(f.data, a + 1, b)
        BY DEF NewData
  <2> HIDE DEF a, b, u
  <2>2. a \in Nat /\ b \in Nat /\ a <= b /\ b <= Len(f.data) /\ f.data \in Seq(Sectors)
        BY <1>1, <1>2 DEF b
  <2> QED
        BY ONLY <2>1, <2>2, Slice
<1>6. from + Len(t) = a /\ Len(t) \in Nat /\ \A k \in 1 .. Len(t) : t[k] = f.data[from + k]
  <2>1. CASE n % SectorSize = 0
    <3>1. t = <<>>
          BY <2>1 DEF TailOf
    <3> QED
          BY <3>1, <2>1, <1>3
  <2>2. CASE n % SectorSize # 0
    <3>1. t = <<old.data[a]>>
          BY <2>2 DEF TailOf
    <3>2. a = from + 1
          BY <2>2, <1>3
    <3> HIDE DEF a, from, t
    <3>3. t = <<f.data[a]>> /\ Len(t) = 1 /\ t[1] = f.data[a]
          BY <3>1, <1>1, <1>2
    <3> QED
          BY <3>2, <3>3, <1>3
  <2> QED
        BY <2>1, <2>2
<1> HIDE DEF t, u, D
<1>7. Joint(t, u, D, Sectors)
      BY <1>4, JointIs DEF D
<1> DEFINE x == Len(t)
           y == Len(u)
           z == Len(D)
<1>8. D \in Seq(Sectors) /\ z = x + y /\ (\A i \in 1 .. x : D[i] = t[i])
      /\ \A i \in 1 .. z : i \notin 1 .. x => i - x \in 1 .. y /\ D[i] = u[i - x]
      BY <1>7 DEF Joint
<1>9. x \in Nat /\ y \in Nat /\ z \in Nat /\ from + x = a /\ y = b - a
      BY <1>5, <1>6, <1>8, <1>4
<1> HIDE DEF x, y, z, a, b, n, from
<1>10. b = from + z
      BY <1>1, <1>3, <1>8, <1>9
<1>11. ASSUME NEW k \in 1 .. z
       PROVE  D[k] = f.data[from + k] /\ D[k] \in Elems(t) \cup Elems(u)
  <2>1. CASE k \in 1 .. x
    <3>1. D[k] = t[k] /\ t[k] = f.data[from + k]
          BY <2>1, <1>8, <1>6 DEF x
    <3>2. t[k] \in Elems(t)
          BY <2>1, <1>4 DEF x, Elems
    <3> QED
          BY <3>1, <3>2
  <2>2. CASE k \notin 1 .. x
    <3>1. k - x \in 1 .. y /\ D[k] = u[k - x]
          BY <2>2, <1>8
    <3>2. u[k - x] = f.data[a + (k - x)]
          BY <3>1, <1>5, <1>9
    <3>3. a + (k - x) = from + k
          BY <1>9, <1>1, <1>3, <1>11
    <3>4. u[k - x] \in Elems(u)
          BY <3>1, <1>4 DEF y, Elems
    <3> QED
          BY <3>1, <3>2, <3>3, <3>4
  <2> QED
        BY <2>1, <2>2
<1> QED
      BY <1>3, <1>8, <1>10, <1>11 DEF D, t, u, z, b, n, from

(* An append whose calls may be made: what it writes is there, in blocks, *)
(* and the old part is intact.                                            *)
Extending(d, old, f, U) ==
    /\ Storage(d.io, DOMAIN d.io.host) /\ Tidy(d.io) /\ f.host \in DOMAIN d.io.host
    /\ Sound(old) /\ Sound(f) /\ Begins(old, f) /\ Len(old.bytes) < Len(f.bytes) /\ old.host = f.host
    /\ Stored(d, old, {}) /\ Intact(d, old) /\ Clean(d, f, U)
    /\ \A j \in 1 .. Len(old.bytes) : f.bytes[j] = old.bytes[j]
    /\ \A x \in Elems(TailOf(old)) \cup Elems(NewData(old, f)) :
            x \in DOMAIN d.pendingSectorWrites /\ d.pendingSectorWrites[x] \in Blocks

(* What an append leaves in byte j of its file. *)
Lengthened(d, old, f) ==
    [j \in 1 .. Len(f.bytes) |->
        IF Len(old.bytes) \div SectorSize < SectorsFor(j)
        THEN d.pendingSectorWrites[f.data[SectorsFor(j)]][Cell(j)] ELSE d.io.host[f.host][j]]

(* What an append writes, from the last whole sector on, makes the longer file. *)
LEMMA AppendFillable ==
    ASSUME NEW d, NEW old, NEW f, NEW U, Extending(d, old, f, U)
    PROVE  /\ Fillable(d.io.host[f.host], d.pendingSectorWrites, TailOf(old) \o NewData(old, f), Len(f.bytes),
                       Len(old.bytes) \div SectorSize, Lengthened(d, old, f))
           /\ \A j \in 1 .. Len(f.bytes) : f.data[SectorsFor(j)] \notin U => Lengthened(d, old, f)[j] = f.bytes[j]
<1> DEFINE o == d.pendingSectorWrites
           D == TailOf(old) \o NewData(old, f)
           n == Len(old.bytes)
           l == Len(f.bytes)
           from == n \div SectorSize
           b == d.io.host[f.host]
           T == Lengthened(d, old, f)
<1>1. Sound(old) /\ Sound(f) /\ Begins(old, f) /\ n < l /\ old.host = f.host /\ Clean(d, f, U) /\ Intact(d, old)
      BY DEF Extending
<1>2. /\ from \in Nat /\ from * SectorSize <= n /\ D \in Seq(Sectors)
      /\ Len(f.data) = from + Len(D) /\ \A k \in 1 .. Len(D) : D[k] = f.data[from + k]
      /\ \A k \in 1 .. Len(D) : D[k] \in Elems(TailOf(old)) \cup Elems(NewData(old, f))
      BY <1>1, Appended
<1>3. /\ n \in Nat \ {0} /\ l \in Nat \ {0} /\ Len(f.data) = SectorsFor(l) /\ Len(f.data) \in Nat
      /\ Len(old.data) \in Nat
      BY <1>1, SoundFacts
<1>4. \A k \in 1 .. Len(D) : D[k] \in DOMAIN o /\ o[D[k]] \in Blocks
      BY <1>2 DEF Extending
<1>5. b \in Seq(Int) /\ Len(b) = n /\ \A j \in 1 .. n : b[j] = old.bytes[j]
      BY <1>1 DEF Extending, Stored
<1>6. \A j \in 1 .. l : T[j] = IF from < SectorsFor(j) THEN o[f.data[SectorsFor(j)]][Cell(j)] ELSE b[j]
      BY DEF Lengthened
<1>7. \A j \in 1 .. l : SectorsFor(j) \in 1 .. Len(f.data) /\ j \in Nat \ {0}
      BY <1>1, SectorIn
<1>8. \A j \in 1 .. l : from < SectorsFor(j) => SectorsFor(j) - from \in 1 .. Len(D)
                                               /\ D[SectorsFor(j) - from] = f.data[SectorsFor(j)]
  <2> SUFFICES ASSUME NEW j \in 1 .. l, from < SectorsFor(j)
               PROVE  SectorsFor(j) - from \in 1 .. Len(D) /\ D[SectorsFor(j) - from] = f.data[SectorsFor(j)]
        OBVIOUS
  <2> DEFINE k == SectorsFor(j)
             z == Len(D)
  <2>1. k \in 1 .. Len(f.data) /\ z \in Nat /\ Len(f.data) = from + z
        BY <1>7, <1>2
  <2>2. from < k /\ from \in Nat /\ Len(f.data) \in Nat
        BY <1>2, <1>3
  <2> HIDE DEF k, z, D, from
  <2>3. k - from \in 1 .. z /\ from + (k - from) = k
        BY <2>1, <2>2
  <2>4. D[k - from] = f.data[from + (k - from)]
        BY <2>3, <1>2 DEF z
  <2> QED
        BY <2>3, <2>4 DEF k, z
<1>9. \A j \in 1 .. n : T[j] = b[j]
  <2> SUFFICES ASSUME NEW j \in 1 .. n PROVE T[j] = b[j]
        OBVIOUS
  <2>1. j \in 1 .. l
        BY <1>1, <1>3
  <2>2. CASE from < SectorsFor(j)
    <3>1. f.data[SectorsFor(j)] \in DOMAIN o
          BY <2>1, <2>2, <1>4, <1>8
    <3>2. SectorsFor(j) \in 1 .. Len(old.data)
          BY <1>1, SectorIn
    <3>3. old.data[SectorsFor(j)] = f.data[SectorsFor(j)]
          BY <3>2, <1>1 DEF Begins
    <3>4. Matches(o[old.data[SectorsFor(j)]], old.bytes, SectorsFor(j))
          BY <3>1, <3>2, <3>3, <1>1 DEF Intact
    <3>5. o[old.data[SectorsFor(j)]][Cell(j)] = old.bytes[j]
          BY <3>4 DEF Matches
    <3> QED
          BY <2>1, <2>2, <3>3, <3>5, <1>5, <1>6
  <2>3. CASE ~(from < SectorsFor(j))
        BY <2>1, <2>3, <1>6
  <2> QED
        BY <2>2, <2>3
<1>10. \A j \in 1 .. l : from < SectorsFor(j) => T[j] = o[D[SectorsFor(j) - from]][Cell(j)]
       BY <1>6, <1>8
<1>11. Fillable(b, o, D, l, from, T)
  <2> HIDE DEF T, b, o, D, l, from, n
  <2>1. Len(b) <= l /\ from * SectorSize <= Len(b)
        BY <1>1, <1>2, <1>3, <1>5 DEF n, l
  <2>2. \A j \in 1 .. Len(b) : T[j] = b[j]
        BY <1>5, <1>9
  <2> QED
        BY <2>1, <2>2, <1>2, <1>3, <1>4, <1>5, <1>10 DEF Fillable
<1>12. ASSUME NEW j \in 1 .. l, f.data[SectorsFor(j)] \notin U
       PROVE  T[j] = f.bytes[j]
  <2>1. CASE from < SectorsFor(j)
    <3>1. f.data[SectorsFor(j)] \in DOMAIN o
          BY <2>1, <1>4, <1>8
    <3>2. o[f.data[SectorsFor(j)]][Cell(j)] = f.bytes[j]
      <4>1. Sound(f) /\ Clean(d, f, U) /\ j \in 1 .. Len(f.bytes) /\ f.data[SectorsFor(j)] \notin U
            /\ f.data[SectorsFor(j)] \in DOMAIN d.pendingSectorWrites
            BY <3>1, <1>1, <1>12
      <4> QED
            BY ONLY <4>1, WaitingByte
    <3> QED
          BY <2>1, <3>2, <1>6
  <2>2. CASE ~(from < SectorsFor(j))
    <3>1. SectorsFor(j) <= from
          BY <2>2, <1>2, <1>7
    <3>2. j <= from * SectorSize
          BY <3>1, <1>2, <1>7, SectorUpto
    <3>3. from * SectorSize \in Nat
      <4> HIDE DEF from
      <4> QED
            BY <1>2, SdfsAssumption
    <3> DEFINE p == from * SectorSize
    <3>4. j <= p /\ p <= n /\ p \in Nat /\ n \in Nat /\ j \in Nat \ {0}
          BY <3>2, <3>3, <1>2, <1>3, <1>7
    <3> HIDE DEF p
    <3>5. j \in 1 .. n
          BY <3>4
    <3> QED
          BY <3>5, <1>5, <1>9 DEF Extending
  <2> QED
        BY <2>1, <2>2
<1> QED
      BY <1>11, <1>12

(* An append filled its file with what waited, or left it as it was. *)
AppendFilled(d, old, f, U) ==
    LET H    == DOMAIN d.io.host
        new  == AppendOpen(d, f)
        full == AppendFull(d, old, f)
        cut  == Truncate(full, f.host, Len(old.bytes))
    IN  /\ ~new.ok => Tidy(new) /\ Storage(new, H) /\ new.host = d.io.host
        /\ new.ok /\ ~full.ok => Tidy(cut) /\ Storage(cut, H) /\ \A h \in H : cut.host[h] = d.io.host[h]
        /\ new.ok /\ full.ok =>
             /\ Tidy(full) /\ Storage(full, H) /\ \A h \in H \ {f.host} : full.host[h] = d.io.host[h]
             /\ full.host[f.host] \in Seq(Int) /\ Len(full.host[f.host]) = Len(f.bytes)
             /\ \A j \in 1 .. Len(f.bytes) : f.data[SectorsFor(j)] \notin U => full.host[f.host][j] = f.bytes[j]

(* The storage calls of an append fill its file with what waits, or cut it to what it was. *)
LEMMA AppendFills ==
    ASSUME NEW d, NEW old, NEW f, NEW U, Extending(d, old, f, U)
    PROVE  AppendFilled(d, old, f, U)
<1> DEFINE H == DOMAIN d.io.host
           new == AppendOpen(d, f)
           full == AppendFull(d, old, f)
           n == Len(old.bytes)
           h == f.host
           cut == Truncate(full, h, n)
           D == TailOf(old) \o NewData(old, f)
           l == Len(f.bytes)
           from == n \div SectorSize
           T == Lengthened(d, old, f)
           o == d.pendingSectorWrites
           b == d.io.host[h]
<1>1. Storage(d.io, H) /\ Tidy(d.io) /\ h \in H /\ Stored(d, old, {}) /\ Sound(old) /\ Sound(f) /\ old.host = h
      /\ n < l
      BY DEF Extending
<1>2. n \in Nat /\ l \in Nat /\ b \in Seq(Int) /\ Len(b) = n
      BY <1>1, SoundFacts DEF Stored
<1>3. Fillable(b, o, D, l, from, T) /\ \A j \in 1 .. l : f.data[SectorsFor(j)] \notin U => T[j] = f.bytes[j]
      BY AppendFillable
<1>4. Storage(new, H) /\ new.host = d.io.host /\ Tidy(new)
  <2> DEFINE io == d.io
  <2>1. Storage(io, H) /\ Tidy(io) /\ new = Open(io, h)
        BY <1>1 DEF AppendOpen
  <2> HIDE DEF H, io, new
  <2>2. Storage(new, H) /\ new.host = io.host
        BY ONLY <2>1, OpenIs
  <2>3. Tidy(new)
        BY ONLY <2>1, TidyOver
  <2> QED
        BY <2>2, <2>3 DEF io
<1>5. full = PwriteSectors(new, o, h, D, l, from)
      BY DEF AppendFull
<1>7. new.host[h] = b
      BY <1>4
<1> HIDE DEF H, new, full, n, h, D, l, from, T, o, b
<1>6. Len(D) \in Nat /\ D \in Seq(Sectors)
      BY ONLY <1>3 DEF Fillable
<1>8. Tidy(full) /\ Filled(b, full.host[h], l, T) /\ (full.ok => Len(full.host[h]) = l)
      BY <1>1, <1>3, <1>4, <1>5, <1>7, Fills
<1>9. Storage(full, H) /\ (\A g \in H \ {h} : full.host[g] = new.host[g]) /\ (~full.ok => full.fault = 0)
      BY ONLY <1>1, <1>4, <1>5, <1>6, PwriteSectorsIs
<1>10. ASSUME ~full.ok
       PROVE  Tidy(cut) /\ Storage(cut, H) /\ \A g \in H : cut.host[g] = d.io.host[g]
  <2>1. /\ Storage(cut, H) /\ Tidy(cut) /\ cut.host[h] = SubSeq(full.host[h], 1, n)
        /\ \A g \in H \ {h} : cut.host[g] = full.host[g]
    <3>1. Storage(full, H) /\ h \in H /\ Tidy(full) /\ full.fault = 0
          BY <1>1, <1>8, <1>9, <1>10
    <3>2. cut = Truncate(full, h, n)
          OBVIOUS
    <3> HIDE DEF cut
    <3>3. /\ Storage(cut, H) /\ cut.ok /\ \A g \in H \ {h} : cut.host[g] = full.host[g]
          /\ cut.host[h] = IF cut.ok THEN SubSeq(full.host[h], 1, n) ELSE full.host[h]
          BY ONLY <3>1, <3>2, TruncateIs
    <3>4. Tidy(cut)
          BY ONLY <3>1, <3>2, TidyOver
    <3> QED
          BY <3>3, <3>4
  <2>2. SubSeq(full.host[h], 1, n) = b
    <3> DEFINE s == full.host[h]
               c == SubSeq(s, 1, n)
    <3>1. s \in Seq(Int) /\ n <= Len(s) /\ \A j \in 1 .. Len(s) : s[j] = T[j]
          BY <1>2, <1>8 DEF Filled
    <3>2. \A j \in 1 .. n : T[j] = b[j]
          BY <1>2, <1>3 DEF Fillable
    <3> HIDE DEF s
    <3>3. c \in Seq(Int) /\ Len(c) = n /\ \A j \in 1 .. n : c[j] = s[j]
          BY <1>2, <3>1
    <3> HIDE DEF c
    <3>4. Len(s) \in Nat
          BY <3>1
    <3>5. ASSUME NEW j \in 1 .. n
          PROVE  c[j] = b[j]
      <4>1. j \in 1 .. Len(s)
            BY ONLY j \in 1 .. n, <1>2, <3>1, <3>4
      <4> QED
            BY ONLY j \in 1 .. n, <4>1, <3>1, <3>2, <3>3
    <3>6. c = b
          BY <1>2, <3>3, <3>5, SameBytesAre
    <3> QED
          BY <3>6 DEF c, s
  <2>3. cut.host[h] = d.io.host[h]
        BY <2>1, <2>2 DEF b
  <2> QED
        BY <2>1, <2>3, <1>4, <1>9
<1>11. ASSUME full.ok
       PROVE  /\ full.host[h] \in Seq(Int) /\ Len(full.host[h]) = l
              /\ \A j \in 1 .. l : f.data[SectorsFor(j)] \notin U => full.host[h][j] = f.bytes[j]
       BY <1>3, <1>8, <1>11 DEF Filled
<1> QED
      BY <1>4, <1>8, <1>9, <1>10, <1>11 DEF AppendFilled, H, new, full, n, h, l

(* The hinted image may be extended. *)
LEMMA HintedExtends ==
    ASSUME NEW d, NEW cat, NEW o, NEW i, AppendStaged(d, cat, o, i), o.kind = "append", Early(d, cat, o), Prefixed(cat, o),
           Tidy(d.io), Elems(NewData(cat[o.name], o.file)) \cup Elems(TailOf(cat[o.name])) \subseteq DOMAIN d.pendingSectorWrites
    PROVE  LET g == Hinted(d, cat[o.name], o.file)
           IN  /\ Extending(g, cat[o.name], o.file, Unsure(o)) /\ g.io = d.io /\ g.error = d.error /\ Image(g)
               /\ StillAppending(d, g, cat[o.name], o, i)
<1> DEFINE f == o.file
           n == o.name
           old == cat[n]
           g == Hinted(d, old, f)
           m == f.maps[1]
           U == Unsure(o)
<1>1. /\ Image(d) /\ Catalogue(cat) /\ Layout(d, cat) /\ Fits(cat, n, f) /\ n \in DOMAIN cat /\ Sound(f)
      /\ Sound(old) /\ Begins(old, f) /\ old.host = f.host /\ Len(old.bytes) < Len(f.bytes)
      /\ AppendNoted(d, old, o, i) /\ DOMAIN d.pendingAppends = {o.file.maps[1]}
      BY DEF AppendStaged, Fits, Catalogue
<1>2. /\ Image(g) /\ Kept(d, g) /\ g.directory = d.directory /\ g.pendingCreates = d.pendingCreates
      /\ g.pendingReplacements = d.pendingReplacements /\ g.io = d.io /\ g.error = d.error
      /\ DOMAIN g.pendingAppends = {o.file.maps[1]} /\ AppendNoted(g, old, o, i)
  <2> DEFINE u == NewData(old, f)
  <2>1. g = WithNote(d, m, u)
        BY DEF Hinted
  <2>2. Image(d) /\ AppendNoted(d, old, o, i) /\ DOMAIN d.pendingAppends = {o.file.maps[1]} /\ m = o.file.maps[1]
        BY <1>1
  <2> HIDE DEF u, old, g, m
  <2> QED
        BY ONLY <2>1, <2>2, WithNoteIs
<1>3. Clean(d, f, U) /\ Stored(d, old, {}) /\ Intact(d, old) /\ Typed(d, MapsIn(cat) \cup Elems(f.maps))
      BY DEF Early, Outputs
<1>4. Elems(old.maps) \cap Elems(f.data) = {}
  <2>1. Elems(f.maps) \cap Elems(f.data) = {} /\ \A x \in Elems(old.maps) : x \in Elems(f.maps)
    <3>1. \A x \in Elems(old.maps) : \E k \in 1 .. Len(old.maps) : old.maps[k] = x
          BY <1>1, SoundFacts DEF Elems
    <3>2. Len(old.maps) \in Nat /\ Len(f.maps) \in Nat /\ f.maps \in Seq(Sectors)
          BY <1>1, SoundFacts
    <3>3. \A k \in 1 .. Len(old.maps) : k \in 1 .. Len(f.maps) /\ old.maps[k] = f.maps[k]
          BY <1>1, <3>2 DEF Begins
    <3>4. \A k \in 1 .. Len(f.maps) : f.maps[k] \in Elems(f.maps)
          BY <3>2 DEF Elems
    <3>5. Elems(f.maps) \cap Elems(f.data) = {}
          BY <1>1 DEF Sound
    <3> QED
          BY <3>1, <3>3, <3>4, <3>5
  <2> QED
        BY <2>1
<1>5. \A x \in Elems(TailOf(old)) \cup Elems(NewData(old, f)) : x \in Elems(f.data)
  <2>1. Elems(NewData(old, f)) \subseteq Elems(f.data)
        BY <1>1, Additions
  <2>2. Len(old.data) \in 1 .. Len(f.data) /\ old.data[Len(old.data)] = f.data[Len(old.data)]
    <3>1. Len(old.data) \in Nat \ {0} /\ Len(f.data) \in Nat
          BY <1>1, SoundFacts
    <3> QED
          BY <3>1, <1>1 DEF Begins
  <2>3. f.data[Len(old.data)] \in Elems(f.data)
        BY <2>2, <1>1, SectorsAt
  <2>4. \A x \in Elems(TailOf(old)) : x = old.data[Len(old.data)]
        BY DEF TailOf, Elems
  <2> QED
        BY <2>1, <2>2, <2>3, <2>4
<1>6. \A x \in Elems(TailOf(old)) \cup Elems(NewData(old, f)) :
          x \in DOMAIN d.pendingSectorWrites /\ d.pendingSectorWrites[x] \in Blocks
  <2> SUFFICES ASSUME NEW x \in Elems(TailOf(old)) \cup Elems(NewData(old, f))
               PROVE  x \in DOMAIN d.pendingSectorWrites /\ d.pendingSectorWrites[x] \in Blocks
        OBVIOUS
  <2>1. x \in DOMAIN d.pendingSectorWrites
        OBVIOUS
  <2>2. x \in Elems(f.data)
        BY <1>5
  <2>3. d.pendingSectorWrites[x] \in Blocks
        BY <1>1, <1>3, <1>4, <2>1, <2>2, DataBlocks
  <2> QED
        BY <2>1, <2>3
<1>7. Lasts(d, g) /\ g.pendingSectorWrites = d.pendingSectorWrites
      BY <1>2 DEF Kept, Lasts
<1>8. Clean(g, f, U) /\ Stored(g, old, {}) /\ Intact(g, old)
      BY <1>2, <1>3, <1>7, LastsIs
<1>9. Storage(g.io, DOMAIN g.io.host) /\ Tidy(g.io) /\ f.host \in DOMAIN g.io.host
      BY <1>1, <1>2, ImageStorage, HostsAre
<1>10. \A j \in 1 .. Len(old.bytes) : f.bytes[j] = old.bytes[j]
      BY DEF Prefixed
<1>11. Extending(g, old, f, U)
  <2> HIDE DEF g, f, old, U
  <2> QED
      BY <1>1, <1>6, <1>7, <1>8, <1>9, <1>10 DEF Extending
<1>12. StillAppending(d, g, old, o, i)
      BY <1>2 DEF StillAppending
<1> QED
      BY <1>2, <1>11, <1>12

(* A storage that fails to open no host file opens one that is there. *)
LEMMA OpenWorks ==
    ASSUME "open" \notin FaultKinds, NEW H, NEW io, Storage(io, H), NEW h \in H
    PROVE  Open(io, h).ok
<1> DEFINE works == h \in DOMAIN io.host
           ok == works /\ ~("open" \in FaultKinds /\ io.fault = 1)
           n  == IF "open" \in FaultKinds /\ io.fault > 0 THEN io.fault - 1 ELSE io.fault
           c  == Call(io, "open", works)
<1>1. ok
      BY DEF Storage
<1>2. c = [io EXCEPT !.ok = ok, !.fault = n]
      BY DEF Call
<1> HIDE DEF c, ok, n
<1>3. c.ok = ok
      BY <1>2 DEF Storage
<1>4. Open(io, h) = c
      BY DEF Open, c
<1> QED
      BY <1>1, <1>3, <1>4

(* Bytes written over an empty file are the file. *)
LEMMA OverNothing ==
    ASSUME NEW bytes \in Seq(Int)
    PROVE  Over(<<>>, bytes, 0) = bytes
<1> DEFINE new == Over(<<>>, bytes, 0)
           old == <<>>
           l == Len(bytes)
<1>1. old \in Seq(Int) /\ Len(old) = 0 /\ 0 \in Nat /\ l \in Nat
      OBVIOUS
<1> HIDE DEF old
<1>2. new = Over(old, bytes, 0)
      BY DEF old
<1> HIDE DEF new
<1>3. /\ new \in Seq(Int) /\ Len(new) = IF 0 + l <= Len(old) THEN Len(old) ELSE 0 + l
      /\ \A j \in 1 .. Len(new) : new[j] = IF 0 < j /\ j <= 0 + l THEN bytes[j - 0] ELSE old[j]
  <2> DEFINE z == 0
  <2>1. old \in Seq(Int) /\ bytes \in Seq(Int) /\ z \in Nat /\ z <= Len(old) /\ new = Over(old, bytes, z)
        BY <1>1, <1>2
  <2> HIDE DEF z, l
  <2>2. /\ new \in Seq(Int) /\ Len(new) = IF z + Len(bytes) <= Len(old) THEN Len(old) ELSE z + Len(bytes)
        /\ \A j \in 1 .. Len(new) : new[j] = IF z < j /\ j <= z + Len(bytes) THEN bytes[j - z] ELSE old[j]
        BY ONLY <2>1, OverIs
  <2> QED
        BY <2>2 DEF z, l
<1> HIDE DEF l
<1>4. Len(new) = l
      BY <1>1, <1>3
<1>5. \A j \in 1 .. l : new[j] = bytes[j - 0] /\ j - 0 = j
      BY <1>1, <1>3, <1>4
<1>6. \A j \in 1 .. l : new[j] = bytes[j]
      BY <1>5
<1>7. new = bytes
      BY <1>3, <1>4, <1>6, SameBytesAre DEF l
<1> QED
      BY <1>7 DEF new

(* A replacement whose calls may be made: all its data is there. *)
Replaceable(d, f, U) ==
    /\ Storage(d.io, DOMAIN d.io.host) /\ Tidy(d.io) /\ f.host \in DOMAIN d.io.host
    /\ d.io.host[f.host] \in Seq(Int) /\ Sound(f) /\ Clean(d, f, U)
    /\ \A x \in Elems(f.data) : x \in DOMAIN d.pendingSectorWrites /\ d.pendingSectorWrites[x] \in Blocks

(* What a replacement writes is the new file. *)
LEMMA ReplaceBytesAre ==
    ASSUME NEW d, NEW f, NEW U, Replaceable(d, f, U)
    PROVE  /\ ReplaceBytes(d, f) \in Seq(Int) /\ Len(ReplaceBytes(d, f)) = Len(f.bytes)
           /\ \A j \in 1 .. Len(f.bytes) : f.data[SectorsFor(j)] \notin U => ReplaceBytes(d, f)[j] = f.bytes[j]
<1> DEFINE l == Len(f.bytes)
           T == ReplaceBytes(d, f)
           v(j) == d.pendingSectorWrites[f.data[SectorsFor(j)]][Cell(j)]
<1>1. T = [j \in 1 .. l |-> v(j)]
      BY DEF ReplaceBytes, Cell
<1>2. Sound(f) /\ l \in Nat /\ Clean(d, f, U)
      BY SoundFacts DEF Replaceable
<1>3. ASSUME NEW j \in 1 .. l
      PROVE  v(j) \in Int /\ (f.data[SectorsFor(j)] \notin U => v(j) = f.bytes[j])
  <2>1. SectorsFor(j) \in 1 .. Len(f.data) /\ Cell(j) \in 1 .. SectorSize
        BY <1>2, SectorIn
  <2>2. f.data[SectorsFor(j)] \in Elems(f.data)
        BY <1>2, <2>1, SectorsAt
  <2>3. f.data[SectorsFor(j)] \in DOMAIN d.pendingSectorWrites
        /\ d.pendingSectorWrites[f.data[SectorsFor(j)]] \in Blocks
        BY <2>2 DEF Replaceable
  <2>4. v(j) \in Int
    <3> DEFINE c == d.pendingSectorWrites[f.data[SectorsFor(j)]]
               i == Cell(j)
    <3>1. c \in Blocks /\ i \in 1 .. SectorSize
          BY <2>1, <2>3
    <3> HIDE DEF c, i
    <3>2. c[i] \in Int
          BY <3>1 DEF Blocks
    <3> QED
          BY <3>2 DEF c, i
  <2>5. ASSUME f.data[SectorsFor(j)] \notin U PROVE v(j) = f.bytes[j]
    <3>1. Sound(f) /\ Clean(d, f, U) /\ j \in 1 .. Len(f.bytes) /\ f.data[SectorsFor(j)] \notin U
          /\ f.data[SectorsFor(j)] \in DOMAIN d.pendingSectorWrites
          BY <1>2, <2>3, <2>5
    <3> QED
          BY ONLY <3>1, WaitingByte
  <2> QED
        BY <2>4, <2>5
<1> HIDE DEF T, v, l
<1>4. T \in [1 .. l -> Int]
      BY <1>1, <1>3
<1>5. T \in Seq(Int) /\ Len(T) = l
      BY <1>2, <1>4
<1> QED
      BY <1>1, <1>3, <1>5 DEF T, l

(* A replacement filled its file, or left it as it was. *)
ReplaceFilled(d, f, U) ==
    LET H     == DOMAIN d.io.host
        h     == f.host
        full  == ReplaceFull(d, f)
        Safe(io) == Tidy(io) /\ Storage(io, H) /\ \A g \in H : io.host[g] = d.io.host[g]
    IN  /\ Safe(ReplaceOpen(d, h)) /\ Safe(ReplaceRead(d, h))
        /\ ~ReplaceCut(d, h).ok => Safe(ReplaceCut(d, h))
        /\ ReplaceCut(d, h).ok => ReplaceNew(d, h).ok
        /\ ReplaceCut(d, h).ok /\ ~full.ok => Safe(ReplaceUndo(d, f))
        /\ ReplaceCut(d, h).ok /\ full.ok =>
             /\ Tidy(full) /\ Storage(full, H) /\ \A g \in H \ {h} : full.host[g] = d.io.host[g]
             /\ full.host[h] \in Seq(Int) /\ Len(full.host[h]) = Len(f.bytes)
             /\ \A j \in 1 .. Len(f.bytes) : f.data[SectorsFor(j)] \notin U => full.host[h][j] = f.bytes[j]

(* The storage calls of a replacement write the new file, or put the old one back. *)
LEMMA ReplaceFills ==
    ASSUME "open" \notin FaultKinds, NEW d, NEW f, NEW U, Replaceable(d, f, U)
    PROVE  ReplaceFilled(d, f, U)
<1> DEFINE H == DOMAIN d.io.host
           h == f.host
           old == ReplaceOpen(d, h)
           read == ReplaceRead(d, h)
           cut == ReplaceCut(d, h)
           new == ReplaceNew(d, h)
           full == ReplaceFull(d, f)
           bytes == ReplaceBytes(d, f)
           b == d.io.host[h]
           Safe(io) == Tidy(io) /\ Storage(io, H) /\ \A g \in H : io.host[g] = d.io.host[g]
<1>0. h \in H /\ b \in Seq(Int) /\ Storage(d.io, H) /\ Tidy(d.io)
      BY DEF Replaceable
<1>1. bytes \in Seq(Int) /\ Len(bytes) = Len(f.bytes)
      /\ \A j \in 1 .. Len(f.bytes) : f.data[SectorsFor(j)] \notin U => bytes[j] = f.bytes[j]
      BY ReplaceBytesAre
<1>2. Storage(old, H) /\ Tidy(old) /\ old.host = d.io.host
  <2>1. old = Open(d.io, h)
        BY DEF ReplaceOpen
  <2> HIDE DEF old, H, h
  <2> QED
        BY <1>0, <2>1, OpenIs, TidyOver
<1>3. Storage(read, H) /\ Tidy(read) /\ read.host = d.io.host
  <2>1. read = Call(old, "pread", TRUE)
        BY DEF ReplaceRead
  <2> HIDE DEF old, read, H, h
  <2> QED
        <3>1. Storage(read, H) /\ read.host = old.host
          <4>1. \A k, w : Call(old, k, w).host = old.host /\ Storage(Call(old, k, w), H)
                BY ONLY <1>2, CallIs
          <4> QED
                BY <2>1, <4>1
        <3>2. Tidy(read)
              BY ONLY <1>2, <2>1, TidyOver
        <3> QED
              BY <3>1, <3>2, <1>2
<1> HIDE DEF H, h, old, read, b, bytes
<1>4. Storage(cut, H) /\ Tidy(cut) /\ (\A g \in H \ {h} : cut.host[g] = d.io.host[g])
      /\ cut.host[h] = IF cut.ok THEN SubSeq(read.host[h], 1, 0) ELSE read.host[h]
  <2>1. cut = Truncate(read, h, 0)
        BY DEF ReplaceCut, read
  <2> HIDE DEF cut
  <2>2. Storage(cut, H) /\ (\A g \in H \ {h} : cut.host[g] = read.host[g])
        /\ cut.host[h] = IF cut.ok THEN SubSeq(read.host[h], 1, 0) ELSE read.host[h]
        BY ONLY <1>0, <1>3, <2>1, TruncateIs
  <2>3. Tidy(cut)
        BY ONLY <1>3, <2>1, TidyOver
  <2> QED
        BY <2>2, <2>3, <1>3
<1>5. cut.ok => cut.host[h] = <<>>
  <2>1. read.host[h] \in Seq(Int)
        BY <1>0, <1>3 DEF b
  <2>2. \A s \in Seq(Int) : SubSeq(s, 1, 0) = <<>>
        OBVIOUS
  <2> QED
        BY <1>4, <2>1, <2>2
<1>6. Storage(new, H) /\ new.ok /\ Tidy(new) /\ new.host = cut.host
  <2>1. new = Open(cut, h)
        BY DEF ReplaceNew, cut
  <2> HIDE DEF new, cut
  <2> QED
        BY <1>0, <1>4, <2>1, OpenIs, TidyOver, OpenWorks
<1> HIDE DEF cut, new
<1>7. /\ Storage(full, H) /\ Tidy(full) /\ (\A g \in H \ {h} : full.host[g] = d.io.host[g])
      /\ full.ok /\ cut.ok => full.host[h] = bytes
      /\ ~full.ok => full.fault = 0
  <2>1. full = Pwrite(new, h, bytes, 0)
        BY DEF ReplaceFull, new, h, bytes
  <2> HIDE DEF full
  <2>2. /\ Storage(full, H) /\ (\A g \in H \ {h} : full.host[g] = new.host[g])
        /\ full.host[h] = Over(new.host[h], IF full.ok THEN bytes ELSE SubSeq(bytes, 1, Len(bytes) - 1), 0)
        /\ ~full.ok => full.fault = 0
        BY ONLY <1>0, <1>6, <2>1, PwriteIs
  <2>3. Tidy(full)
        BY ONLY <1>6, <2>1, TidyOver
  <2>4. full.ok /\ cut.ok => full.host[h] = bytes
    <3>1. Over(<<>>, bytes, 0) = bytes
          BY <1>1, OverNothing
    <3> QED
          BY <3>1, <2>2, <1>5, <1>6
  <2> QED
        BY <2>2, <2>3, <2>4, <1>4, <1>6
<1> HIDE DEF full
<1>8. ASSUME ~full.ok PROVE Safe(ReplaceUndo(d, f))
  <2> DEFINE zero == Truncate(full, h, 0)
             again == Open(zero, h)
             back == read.host[h]
             undo == Pwrite(again, h, back, 0)
  <2>1. /\ Storage(zero, H) /\ Tidy(zero) /\ zero.ok /\ zero.fault = 0
        /\ \A g \in H \ {h} : zero.host[g] = full.host[g]
    <3>1. full.fault = 0
          BY <1>7, <1>8
    <3> HIDE DEF zero
    <3>2. zero = Truncate(full, h, 0)
          BY DEF zero
    <3>3. Storage(full, H) /\ Tidy(full)
          BY <1>7
    <3> QED
      <4>1. zero.ok /\ zero.fault = 0 /\ Storage(zero, H) /\ \A g \in H \ {h} : zero.host[g] = full.host[g]
            BY ONLY <1>0, <3>1, <3>2, <3>3, TruncateIs
      <4>2. Tidy(zero)
            BY ONLY <3>2, <3>3, TidyOver
      <4> QED
            BY <4>1, <4>2
  <2>2. zero.host[h] = SubSeq(full.host[h], 1, 0)
    <3>1. zero.host[h] = IF zero.ok THEN SubSeq(full.host[h], 1, 0) ELSE full.host[h]
      <4> DEFINE z == zero
      <4>1. z = Truncate(full, h, 0) /\ Storage(full, H)
            BY <1>7
      <4> HIDE DEF z
      <4>2. z.host[h] = IF z.ok THEN SubSeq(full.host[h], 1, 0) ELSE full.host[h]
            BY ONLY <1>0, <4>1, TruncateIs
      <4> QED
            BY <4>2 DEF z
    <3> QED
          BY <3>1, <2>1
  <2> HIDE DEF zero
  <2>3. zero.host[h] = <<>>
    <3>1. \A s : SubSeq(s, 1, 0) = <<>>
          OBVIOUS
    <3> QED
          BY <2>2, <3>1
  <2>4. Storage(again, H) /\ Tidy(again) /\ again.ok /\ again.fault = 0 /\ again.host = zero.host
    <3>1. again = Open(zero, h)
          OBVIOUS
    <3> HIDE DEF again
    <3> QED
          BY <1>0, <2>1, <3>1, OpenIs, TidyOver
  <2> HIDE DEF again
  <2>5. ReplaceUndo(d, f) = undo
    <3>1. ReplaceAgain(d, f) = again
          BY DEF ReplaceAgain, again, zero, full, h
    <3> QED
          BY <3>1, <2>4 DEF ReplaceUndo, h, read
  <2>6. back = b /\ b \in Seq(Int)
        BY <1>0, <1>3 DEF b
  <2> HIDE DEF back
  <2>7. /\ Storage(undo, H) /\ Tidy(undo) /\ (\A g \in H \ {h} : undo.host[g] = again.host[g])
        /\ undo.host[h] = Over(again.host[h], back, 0)
    <3>1. undo = Pwrite(again, h, back, 0)
          OBVIOUS
    <3> HIDE DEF undo
    <3>2. undo.ok /\ Storage(undo, H) /\ (\A g \in H \ {h} : undo.host[g] = again.host[g])
          /\ undo.host[h] = Over(again.host[h], IF undo.ok THEN back ELSE SubSeq(back, 1, Len(back) - 1), 0)
          BY ONLY <1>0, <2>4, <3>1, PwriteIs
    <3>3. Tidy(undo)
          BY ONLY <2>4, <3>1, TidyOver
    <3> QED
          BY <3>2, <3>3
  <2>8. undo.host[h] = b
    <3>1. Over(<<>>, back, 0) = back
          BY <2>6, OverNothing
    <3> HIDE DEF undo
    <3> QED
          BY <3>1, <2>3, <2>4, <2>6, <2>7
  <2> HIDE DEF undo
  <2>9. \A g \in H : undo.host[g] = d.io.host[g]
        BY <2>7, <2>8, <2>4, <2>1, <1>7 DEF b
  <2> QED
        BY <2>5, <2>7, <2>9
<1>9. Safe(old) /\ Safe(read)
      BY <1>2, <1>3
<1>10. ~cut.ok => Safe(cut)
  <2>1. ~cut.ok => cut.host[h] = d.io.host[h]
        BY <1>3, <1>4
  <2> QED
        BY <2>1, <1>4
<1> QED
      BY <1>1, <1>6, <1>7, <1>8, <1>9, <1>10 DEF ReplaceFilled, H, h, old, read, cut, new, full

(* A replacement all of whose data is there may be made. *)
LEMMA MayReplace ==
    ASSUME NEW d, NEW cat, NEW o, NEW i, ReplaceStaged(d, cat, o, i), o.kind = "replace", Early(d, cat, o), Tidy(d.io),
           Elems(o.file.data) \subseteq DOMAIN d.pendingSectorWrites
    PROVE  Replaceable(d, o.file, Unsure(o))
<1> DEFINE f == o.file
           n == o.name
           old == cat[n]
<1>1. /\ Image(d) /\ Catalogue(cat) /\ Layout(d, cat) /\ Fits(cat, n, f) /\ n \in DOMAIN cat /\ Sound(f)
      /\ Sound(old) /\ Begins(f, old) /\ old.host = f.host
      BY DEF ReplaceStaged, Fits, Catalogue
<1>2. Clean(d, f, Unsure(o)) /\ Stored(d, old, {}) /\ Typed(d, MapsIn(cat) \cup Elems(f.maps))
      BY DEF Early, Outputs, Whole
<1>3. Elems(old.maps) \cap Elems(f.data) = {}
  <2>1. Elems(old.maps) \cap Elems(old.data) = {}
        BY <1>1 DEF Sound
  <2>2. \A x \in Elems(f.data) : \E k \in 1 .. Len(f.data) : f.data[k] = x
        BY <1>1, SectorsAt
  <2>3. \A k \in 1 .. Len(f.data) : k \in 1 .. Len(old.data) /\ old.data[k] = f.data[k]
    <3>1. Len(f.data) \in Nat /\ Len(old.data) \in Nat
          BY <1>1, SoundFacts
    <3> QED
          BY <3>1, <1>1 DEF Begins
  <2>4. \A k \in 1 .. Len(old.data) : old.data[k] \in Elems(old.data)
        BY <1>1, SectorsAt
  <2> QED
        BY <2>1, <2>2, <2>3, <2>4
<1>4. \A x \in Elems(f.data) : x \in DOMAIN d.pendingSectorWrites /\ d.pendingSectorWrites[x] \in Blocks
      BY <1>1, <1>2, <1>3, DataBlocks
<1>5. Storage(d.io, DOMAIN d.io.host) /\ f.host \in DOMAIN d.io.host /\ d.io.host[f.host] \in Seq(Int)
      BY <1>1, <1>2, ImageStorage, HostsAre DEF Stored
<1> QED
      BY <1>1, <1>2, <1>4, <1>5 DEF Replaceable

-----------------------------------------------------------------------------
(* A sector of an operation, in the overlay and on the host. *)

(* Sectors outside a file do not count among those still unsure. *)
LEMMA UnsureGrows ==
    ASSUME NEW d, NEW f, Sound(f), NEW T, NEW U, T \cap Elems(f.data) \subseteq U
    PROVE  /\ Clean(d, f, T) => Clean(d, f, U)
           /\ Stored(d, f, T) => Stored(d, f, U)
<1>1. \A k \in 1 .. Len(f.data) : f.data[k] \in Elems(f.data)
      BY SoundFacts, SectorsAt
<1>2. \A k \in 1 .. Len(f.data) : f.data[k] \notin U => f.data[k] \notin T
      BY <1>1
<1>3. ASSUME Clean(d, f, T) PROVE Clean(d, f, U)
      BY <1>2, <1>3 DEF Clean
<1>4. ASSUME Stored(d, f, T) PROVE Stored(d, f, U)
  <2>1. \A j \in 1 .. Len(f.bytes) : SectorsFor(j) \in 1 .. Len(f.data)
        BY SectorIn
  <2> QED
        BY <1>2, <1>4, <2>1 DEF Stored
<1> QED
      BY <1>3, <1>4

(* Where the overlay and the host are as before, so are the bytes. *)
LEMMA BytesShift ==
    ASSUME NEW d, NEW t, NEW cat, NEW o, Going(d, cat, o), Bytes(d, cat, o),
           t.pendingSectorWrites = d.pendingSectorWrites, t.io.host = d.io.host,
           NEW u, u.kind = o.kind, u.name = o.name, u.file = o.file,
           Unsure(o) \cap Elems(o.file.data) \subseteq Unsure(u),
           (Underway(d, cat, o) /\ Underway(t, cat, u)) \/ (Committed(d, cat, o) /\ Committed(t, cat, u))
    PROVE  Bytes(t, cat, u)
<1>1. Lasts(d, t) /\ Tidy(t.io) /\ Others(t, cat, u.name)
  <2>1. Lasts(d, t)
        BY DEF Lasts
  <2>2. Tidy(t.io)
        BY DEF Bytes, Tidy
  <2>3. Others(t, cat, o.name)
        BY <2>1, OthersLast DEF Bytes
  <2> QED
        BY <2>1, <2>2, <2>3
<1>2. Sound(o.file) /\ Catalogue(cat) /\ Plan(cat, o)
      BY PlanFacts DEF Going
<1>3. (Underway(d, cat, o) => Early(d, cat, o)) /\ (Committed(d, cat, o) => Late(d, cat, o))
      BY Exclusive DEF Bytes, Doing
<1>4. CASE Underway(d, cat, o) /\ Underway(t, cat, u)
  <2>1. o.kind = "update" => o.file.host = cat[o.name].host
        BY <1>2, PlanFacts
  <2>2. Early(t, cat, o)
        BY <1>1, <1>3, <1>4, <2>1, EarlyLasts
  <2>3. /\ o.kind \in Outputs => Clean(t, o.file, Unsure(u))
        /\ o.kind = "update" => Clean(t, o.file, Unsure(u)) /\ Stored(t, o.file, Unsure(u))
        BY <1>2, <2>2, UnsureGrows DEF Early
  <2>4. Early(t, cat, u)
        BY <2>2, <2>3 DEF Early
  <2> QED
        BY <1>1, <1>4, <2>4 DEF Bytes, Doing
<1>5. CASE Committed(d, cat, o) /\ Committed(t, cat, u)
  <2>1. After(cat, u) = After(cat, o)
        BY <1>5 DEF After, Committed, Outputs, Whole
  <2>2. Late(d, cat, o)
        BY <1>3, <1>5
  <2>3. Typed(t, MapsIn(After(cat, u)))
        BY <1>1, <2>1, <2>2, LastsIs DEF Late
  <2>4. Clean(t, o.file, Unsure(o)) /\ Stored(t, o.file, Unsure(o))
        BY <1>1, <2>2, LastsIs DEF Late
  <2>5. Clean(t, o.file, Unsure(u)) /\ Stored(t, o.file, Unsure(u))
        BY <1>2, <2>4, UnsureGrows
  <2>6. Late(t, cat, u)
        BY <2>3, <2>5 DEF Late
  <2> QED
        BY <1>1, <1>5, <2>6 DEF Bytes, Doing
<1> QED
      BY <1>4, <1>5

(* What a write of the directory leaves of the bytes. *)
DirBytes(d, e, cat, u) == BytesOutcome(d, e, cat, u) /\ (e.error \/ NoPending(e) \/ e.io = d.io)

(* The host files after a renaming. *)
LEMMA RenameHost ==
    ASSUME SdfsGuest, NEW d, Image(d), NEW h, h \in DOMAIN d.io.host, NEW title,
           title \in DOMAIN d.io.host => h = title
    PROVE  /\ h = title => RenameIo(d, h, title).host = d.io.host
           /\ h # title => RenameIo(d, h, title).host = Put(Without(d.io.host, {h}), title, d.io.host[h])
  BY RenameIoIs

(* A write that goes through, of the k-th sector of a file with the host   *)
(* file h: what is there of it are the bytes c, or those of before.        *)
Through(g, t, h, c, k) ==
    /\ Tidy(t.io) /\ \A y \in DOMAIN g.io.host \ {h} : t.io.host[y] = g.io.host[y]
    /\ t.io.host[h] \in Seq(Int) /\ Len(t.io.host[h]) = Len(g.io.host[h])
    /\ \A j \in 1 .. Len(g.io.host[h]) : t.io.host[h][j] = g.io.host[h][j] \/ (SectorsFor(j) = k /\ t.io.host[h][j] = c[Cell(j)])
    /\ t.error => g.io.fault > 0
    /\ g.io.fault = 0 => t.io.fault = 0
    /\ NoPending(g) /\ ~t.error =>
          \A j \in 1 .. Len(g.io.host[h]) : SectorsFor(j) = k => t.io.host[h][j] = c[Cell(j)]

(* The host call of such a write. *)
ThroughDone(io, o, r, h, L, c, k) ==
    LET H == DOMAIN io.host
        b == io.host[h]
    IN  /\ (k - 1) * SectorSize < L
        /\ Storage(o, H) /\ Tidy(o) /\ o.host = io.host
        /\ ~o.ok => io.fault > 0
        /\ Storage(r, H) /\ Tidy(r) /\ \A y \in H \ {h} : r.host[y] = io.host[y]
        /\ ~r.ok => io.fault > 0
        /\ io.fault = 0 => o.fault = 0 /\ r.fault = 0
        /\ r.host[h] \in Seq(Int) /\ Len(r.host[h]) = L
        /\ \A j \in 1 .. L : r.host[h][j] = b[j] \/ (SectorsFor(j) = k /\ r.host[h][j] = c[Cell(j)])
        /\ r.ok => \A j \in 1 .. L : SectorsFor(j) = k => r.host[h][j] = c[Cell(j)]

(* The host call writes a block, or part of it. *)
LEMMA ThroughCall ==
    ASSUME NEW io, Storage(io, DOMAIN io.host), Tidy(io), NEW h \in DOMAIN io.host, NEW L \in Nat \ {0},
           io.host[h] \in Seq(Int), Len(io.host[h]) = L, NEW c \in Blocks, NEW k \in Nat \ {0}, k <= SectorsFor(L)
    PROVE  ThroughDone(io, Open(io, h),
                       Pwrite(Open(io, h), h, SubSeq(c, 1, Min({L - (k - 1) * SectorSize, SectorSize})), (k - 1) * SectorSize),
                       h, L, c, k)
<1> DEFINE H == DOMAIN io.host
           at == (k - 1) * SectorSize
           bytes == SubSeq(c, 1, Min({L - at, SectorSize}))
           o == Open(io, h)
           r == Pwrite(o, h, bytes, at)
           b == io.host[h]
<1>1. at < L /\ at \in Nat
  <2> DEFINE q == k - 1
             e == q * SectorSize
  <2>1. q \in Nat /\ ~(SectorsFor(L) <= q)
    <3>1. SectorsFor(L) \in Nat
          BY CellIs
    <3> QED
          BY <3>1
  <2> HIDE DEF q
  <2>2. ~(L <= e)
        BY <2>1, SectorUpto
  <2>3. e \in Nat
        BY <2>1, SdfsAssumption
  <2> HIDE DEF e
  <2>4. e < L /\ e \in Nat
        BY <2>2, <2>3
  <2> QED
        BY <2>4 DEF e, q
<1>2. Storage(o, H) /\ o.host = io.host /\ Tidy(o)
      BY OpenIs, TidyOver
<1>3. (io.fault = 0 => o.ok /\ o.fault = 0) /\ (~o.ok => io.fault > 0) /\ io.fault \in Nat /\ o.fault \in Nat
  <2>1. io.fault = 0 => o.ok /\ o.fault = 0
        BY OpenIs
  <2>2. ~o.ok => io.fault = 1
        BY OpenIs
  <2>3. io.fault \in Nat /\ o.fault \in Nat
        BY <1>2 DEF Storage
  <2> HIDE DEF o
  <2> QED
        BY <2>1, <2>2, <2>3
<1> HIDE DEF o, bytes, at
<1>4. Storage(r, H) /\ \A y \in H \ {h} : r.host[y] = o.host[y]
      BY <1>2, PwriteIs
<1>5. (~r.ok => io.fault > 0) /\ (io.fault = 0 => r.fault = 0)
  <2>1. o.fault = 0 => r.ok /\ r.fault = 0
        BY <1>2, PwriteIs
  <2> HIDE DEF r
  <2> QED
        BY <1>3, <2>1
<1>6. Tidy(r)
      BY <1>2, TidyOver
<1>7. Painted(b, r.host[h], c, k, L, r.ok)
  <2>1. o.host[h] \in Seq(Int) /\ at <= Len(o.host[h]) /\ at < L
        BY <1>1, <1>2
  <2> HIDE DEF r
  <2>2. LET z == Pwrite(o, h, SubSeq(c, 1, Min({L - (k - 1) * SectorSize, SectorSize})), (k - 1) * SectorSize)
        IN  Painted(o.host[h], z.host[h], c, k, L, z.ok)
        BY <1>2, <2>1, BlockWrite DEF at
  <2> QED
        BY <1>2, <2>2 DEF r, bytes, at
<1> HIDE DEF r, b
<1>8. b = io.host[h] /\ Len(b) = L
      BY DEF b
<1>9. r.host[h] \in Seq(Int) /\ Len(r.host[h]) = L
  <2> DEFINE N == r.host[h]
  <2>1. N \in Seq(Int) /\ L <= Len(N) /\ (Len(N) <= L \/ Len(N) <= L)
        BY <1>7, <1>8 DEF Painted
  <2> HIDE DEF N
  <2>2. Len(N) \in Nat
        BY <2>1
  <2>3. Len(N) = L
        BY <2>1, <2>2
  <2> QED
        BY <2>1, <2>3 DEF N
<1>10. \A j \in 1 .. L : /\ r.host[h][j] = b[j] \/ (SectorsFor(j) = k /\ r.host[h][j] = c[Cell(j)])
                         /\ r.ok /\ SectorsFor(j) = k => r.host[h][j] = c[Cell(j)]
      BY <1>7, <1>8, <1>9 DEF Painted
<1>11. (k - 1) * SectorSize < L
      BY <1>1 DEF at
<1> HIDE DEF H
<1>12. /\ (k - 1) * SectorSize < L
       /\ Storage(o, H) /\ Tidy(o) /\ o.host = io.host
       /\ ~o.ok => io.fault > 0
       /\ Storage(r, H) /\ Tidy(r) /\ \A y \in H \ {h} : r.host[y] = io.host[y]
       /\ ~r.ok => io.fault > 0
       /\ io.fault = 0 => o.fault = 0 /\ r.fault = 0
       /\ r.host[h] \in Seq(Int) /\ Len(r.host[h]) = L
       /\ \A j \in 1 .. L : r.host[h][j] = b[j] \/ (SectorsFor(j) = k /\ r.host[h][j] = c[Cell(j)])
       /\ r.ok => \A j \in 1 .. L : SectorsFor(j) = k => r.host[h][j] = c[Cell(j)]
  <2>1. /\ (~o.ok => io.fault > 0) /\ (~r.ok => io.fault > 0)
        /\ io.fault = 0 => o.fault = 0 /\ r.fault = 0
        BY <1>3, <1>5
  <2>2. \A y \in H \ {h} : r.host[y] = io.host[y]
        BY <1>2, <1>4
  <2>3. /\ \A j \in 1 .. L : r.host[h][j] = b[j] \/ (SectorsFor(j) = k /\ r.host[h][j] = c[Cell(j)])
        /\ r.ok => \A j \in 1 .. L : SectorsFor(j) = k => r.host[h][j] = c[Cell(j)]
        BY ONLY <1>10
  <2> QED
        BY ONLY <1>2, <1>4, <1>6, <1>9, <1>11, <2>1, <2>2, <2>3
<1>13. ThroughDone(io, o, r, h, L, c, k)
       BY <1>12 DEF ThroughDone, b, H
<1> QED
      BY <1>13 DEF o, r, at, bytes

(* Sector x, the k-th of file n, has its new block in the overlay. *)
Passable(g, cat, n, k, x, U) ==
    /\ Image(g) /\ g.error = FALSE /\ Tidy(g.io) /\ Catalogue(cat) /\ Layout(g, cat) /\ n \in DOMAIN cat
    /\ k \in 1 .. Len(cat[n].data) /\ x = cat[n].data[k] /\ x \in DOMAIN g.pendingSectorWrites
    /\ g.pendingSectorWrites[x] \in Blocks /\ Stored(g, cat[n], U)

(* The write of a sector of a file, by what it leaves on the host. *)
LEMMA ThroughIs ==
    ASSUME NEW g, NEW cat, NEW n, NEW k, NEW x, NEW U, Passable(g, cat, n, k, x, U)
    PROVE  /\ Through(g, WriteThrough(g, x), cat[n].host, g.pendingSectorWrites[x], k)
           /\ \A m \in DOMAIN g.pendingReplacements :
                  /\ g.pendingReplacements[m].file \in DOMAIN g.files
                  /\ g.files[g.pendingReplacements[m].file] = Record(n, cat[n])
                  => WriteThrough(g, x) = g
<1> SUFFICES ASSUME Image(g), g.error = FALSE, Tidy(g.io), Catalogue(cat), Layout(g, cat), n \in DOMAIN cat,
                    k \in 1 .. Len(cat[n].data), x = cat[n].data[k], x \in DOMAIN g.pendingSectorWrites,
                    g.pendingSectorWrites[x] \in Blocks, Stored(g, cat[n], U)
             PROVE  /\ Through(g, WriteThrough(g, x), cat[n].host, g.pendingSectorWrites[x], k)
                    /\ \A m \in DOMAIN g.pendingReplacements :
                           /\ g.pendingReplacements[m].file \in DOMAIN g.files
                           /\ g.files[g.pendingReplacements[m].file] = Record(n, cat[n])
                           => WriteThrough(g, x) = g
      BY DEF Passable
<1> DEFINE f == cat[n]
           h == f.host
           L == Len(f.bytes)
           c == g.pendingSectorWrites[x]
           t == WriteThrough(g, x)
           H == DOMAIN g.io.host
<1>1. Sound(f)
      BY DEF Catalogue
<1>2. PICK i \in DOMAIN g.files : g.files[i] = Record(n, f)
      BY DEF Layout
<1>3. g.files[i].hostName = h /\ g.files[i].length = L /\ g.files[i].dataSectors = f.data
      BY <1>1, <1>2, RecordIs
<1>4. g.dataRefs[x] = [file |-> i, at |-> k] /\ x \in DOMAIN g.dataRefs
  <2>1. x \in Elems(f.data)
        BY <1>1, SectorsAt
  <2> QED
        BY <1>3, <2>1 DEF Layout
<1>5. Storage(g.io, H) /\ h \in H /\ g.io.host[h] \in Seq(Int) /\ Len(g.io.host[h]) = L /\ L \in Nat \ {0}
      BY <1>1, ImageStorage, HostsAre, SoundFacts DEF Stored
<1>6. k \in Nat \ {0} /\ k <= SectorsFor(L)
  <2>1. Len(f.data) = SectorsFor(L) /\ Len(f.data) \in Nat
        BY <1>1, SoundFacts
  <2> QED
        BY <2>1
<1> DEFINE at == (k - 1) * SectorSize
           o == Open(g.io, h)
           r == Pwrite(o, h, SubSeq(c, 1, Min({L - at, SectorSize})), at)
           skip == \E m \in DOMAIN g.pendingReplacements : g.pendingReplacements[m].file = i
<1>7. t = IF skip THEN g
          ELSE IF at >= L THEN Fail(g)
          ELSE IF ~o.ok THEN Failed(g, o)
          ELSE IF ~r.ok THEN Failed(g, r)
          ELSE [g EXCEPT !.io = r]
  <2>1. /\ g.dataRefs[x].file = i /\ g.dataRefs[x].at = k
        BY <1>4
  <2> QED
        BY <1>3, <1>4, <2>1 DEF WriteThrough
<1> DEFINE b == g.io.host[h]
<1>8. /\ at < L
      /\ Storage(o, H) /\ Tidy(o) /\ o.host = g.io.host /\ (~o.ok => g.io.fault > 0)
      /\ Storage(r, H) /\ Tidy(r) /\ \A y \in H \ {h} : r.host[y] = g.io.host[y]
      /\ ~r.ok => g.io.fault > 0
      /\ g.io.fault = 0 => o.fault = 0 /\ r.fault = 0
      /\ r.host[h] \in Seq(Int) /\ Len(r.host[h]) = L
      /\ \A j \in 1 .. L : r.host[h][j] = b[j] \/ (SectorsFor(j) = k /\ r.host[h][j] = c[Cell(j)])
      /\ r.ok => \A j \in 1 .. L : SectorsFor(j) = k => r.host[h][j] = c[Cell(j)]
  <2>1. ThroughDone(g.io, o, r, h, L, c, k)
    <3> DEFINE u == g.io
    <3>1. /\ Storage(u, DOMAIN u.host) /\ Tidy(u) /\ h \in DOMAIN u.host /\ L \in Nat \ {0} /\ u.host[h] \in Seq(Int)
          /\ Len(u.host[h]) = L /\ c \in Blocks /\ k \in Nat \ {0} /\ k <= SectorsFor(L)
          BY <1>5, <1>6
    <3> HIDE DEF h, L, c, u
    <3>2. ThroughDone(u, Open(u, h),
                      Pwrite(Open(u, h), h, SubSeq(c, 1, Min({L - (k - 1) * SectorSize, SectorSize})), (k - 1) * SectorSize),
                      h, L, c, k)
          BY ONLY <3>1, ThroughCall
    <3> QED
        BY <3>2 DEF u
  <2> HIDE DEF h, L, c, o, r
  <2>2. at < L
        BY <2>1 DEF ThroughDone
  <2> HIDE DEF at
  <2> QED
      BY <2>1, <2>2 DEF ThroughDone
<1>9. at \in Int /\ L \in Int
      BY <1>5, <1>6, SdfsAssumption
<1> HIDE DEF o, r, at
<1>10. ~(at >= L)
      BY <1>8, <1>9
<1>11. ASSUME NEW m \in DOMAIN g.pendingReplacements, g.pendingReplacements[m].file \in DOMAIN g.files,
              g.files[g.pendingReplacements[m].file] = Record(n, f)
       PROVE  t = g
  <2> DEFINE q == g.pendingReplacements[m].file
  <2>0. \E a \in DOMAIN g.files : IsFile(g, cat, n, a)
        BY TheFile
  <2>1. PICK a \in DOMAIN g.files :
              /\ g.files[a] = Record(n, cat[n]) /\ a \in Nat /\ Live(g, a)
              /\ FilesAt(g, cat[n].maps[1], n) = {a} /\ Min({a}) = a
              /\ \A y \in DOMAIN g.files : g.files[y].name = n /\ g.files[y].length > 0 => y = a
              /\ \A y \in DOMAIN g.files : g.files[y] = Record(n, cat[n]) => y = a
        BY ONLY <2>0 DEF IsFile
  <2> HIDE DEF q
  <2>2. q = i
        BY <1>2, <1>11, <2>1 DEF q
  <2>3. g.pendingReplacements[m].file = i
        BY <2>2 DEF q
  <2> QED
      BY <1>7, <2>3
<1>12. Through(g, t, h, c, k)
  <2> HIDE DEF h, c, t, L, H
  <2>1. t \in {g, Failed(g, o), Failed(g, r), [g EXCEPT !.io = r]}
        BY <1>7, <1>10
  <2>2. /\ Failed(g, o).io = o /\ Failed(g, r).io = r /\ [g EXCEPT !.io = r].io = r
        /\ [g EXCEPT !.io = r].error = FALSE
        /\ Failed(g, o).error = TRUE /\ Failed(g, r).error = TRUE
    <3>1. Storage(o, DOMAIN g.io.host) /\ Storage(r, DOMAIN g.io.host)
          BY <1>8 DEF H
    <3>2. Failed(g, o).io = o /\ Failed(g, o).error = TRUE
          BY ONLY <3>1, Image(g), FailedIs
    <3>3. Failed(g, r).io = r /\ Failed(g, r).error = TRUE
          BY ONLY <3>1, Image(g), FailedIs
    <3>4. [g EXCEPT !.io = r].io = r /\ [g EXCEPT !.io = r].error = FALSE
          BY ONLY <3>1, Image(g), g.error = FALSE, WithIo
    <3> QED
        BY ONLY <3>2, <3>3, <3>4
  <2>3. CASE skip /\ t = g
    <3>1. ~NoPending(g)
          BY <2>3 DEF NoPending
    <3>2. t.error = FALSE /\ Len(g.io.host[h]) = L /\ g.io.host[h] \in Seq(Int) /\ Tidy(g.io)
          BY <1>5, <2>3 DEF H
    <3> QED
        BY <2>3, <3>1, <3>2 DEF Through
  <2>4. ASSUME NEW v, v = o \/ v = r, ~v.ok, t.io = v, t.error
        PROVE  Through(g, t, h, c, k)
    <3>1. /\ Tidy(v) /\ g.io.fault > 0 /\ ~(g.io.fault = 0) /\ \A y \in H \ {h} : v.host[y] = g.io.host[y]
          /\ v.host[h] \in Seq(Int) /\ Len(v.host[h]) = L /\ Len(g.io.host[h]) = L
          /\ \A j \in 1 .. L : v.host[h][j] = g.io.host[h][j] \/ (SectorsFor(j) = k /\ v.host[h][j] = c[Cell(j)])
          BY <1>5, <1>8, <2>4 DEF H, b
    <3> HIDE DEF skip
    <3> QED
        BY ONLY <2>4, <3>1 DEF Through, H
  <2>5. CASE t = [g EXCEPT !.io = r] /\ r.ok
    <3>1. t.io = r /\ t.error = FALSE /\ Len(g.io.host[h]) = L
          BY <1>5, <2>2, <2>5 DEF H
    <3> QED
        BY <1>8, <2>5, <3>1 DEF Through, b, H
  <2> HIDE DEF skip
  <2>6. CASE t = Failed(g, o) /\ ~o.ok
        BY <2>2, <2>4, <2>6
  <2>7. CASE t = Failed(g, r) /\ ~r.ok
        BY <2>2, <2>4, <2>7
  <2> QED
      BY <1>7, <1>10, <2>3, <2>5, <2>6, <2>7
<1> QED
      BY <1>11, <1>12

(* A block of the file that is written makes its sector sure. *)
LEMMA OverlaidClean ==
    ASSUME NEW d, NEW t, NEW x, NEW c, Overlaid(d, t, x, c), NEW f, NEW T, Clean(d, f, T),
           \A k \in 1 .. Len(f.data) : f.data[k] = x => c = Block(f.bytes, k)
    PROVE  Clean(t, f, T \ {x})
<1> SUFFICES ASSUME NEW k \in 1 .. Len(f.data), f.data[k] \in DOMAIN t.pendingSectorWrites, f.data[k] \notin T \ {x}
             PROVE  t.pendingSectorWrites[f.data[k]] = Block(f.bytes, k)
      BY DEF Clean
<1>1. CASE f.data[k] = x
      BY <1>1 DEF Overlaid
<1>2. CASE f.data[k] # x
      BY <1>2 DEF Overlaid, Clean
<1> QED
      BY <1>1, <1>2

(* What the guest writes in a sector of its file, by what it belongs to. *)
LEMMA SectorImageIs ==
    ASSUME NEW o, Sound(o.file), NEW x \in SectorsOf(o.file)
    PROVE  /\ \A k \in 1 .. Len(o.file.data) : o.file.data[k] = x => SectorImage(o, x) = Block(o.file.bytes, k)
           /\ x \in Elems(o.file.maps) \/ SectorImage(o, x) \in Blocks
<1> DEFINE f == o.file
           c == SectorImage(o, x)
<1>1. \A k \in 1 .. Len(f.data) : f.data[k] = x => c = Block(f.bytes, k)
  <2> TAKE k \in 1 .. Len(f.data)
  <2> HAVE f.data[k] = x
  <2>1. x \notin Elems(f.maps)
        BY SoundFacts, SectorsAt
  <2>2. Place(f.data, f.data[k]) = k
    <3>1. f.data \in Seq(Sectors) /\ Distinct(f.data) /\ DOMAIN f.data = 1 .. Len(f.data)
          BY SoundFacts
    <3> QED
          BY <3>1, PlaceIs
  <2> QED
        BY <2>1, <2>2 DEF SectorImage
<1>2. CASE x \in Elems(f.data)
  <2>1. PICK k \in 1 .. Len(f.data) : f.data[k] = x
        BY <1>2, SectorsAt
  <2>2. f.bytes \in Seq(Int) /\ k \in Nat \ {0}
        BY SoundFacts
  <2> QED
        BY <1>1, <2>1, <2>2, BlockIs
<1> QED
      BY <1>1, <1>2 DEF SectorsOf
=============================================================================
