---------------------------- MODULE Market_proofs ----------------------------
(***************************************************************************)
(* For any master, any trades and any likeness of names: links are sound   *)
(* and final.  Soundness is inductive once it is known that derived rows   *)
(* have no bjd code and that their id tells their dong and their name, so  *)
(* that overwriting one does not change what its links rest on.            *)
(*                                                                         *)
(* And for any queries, over any tables loads and joins can reach: the map *)
(* shows the buildings of the list, the list has the most recent first,    *)
(* ranking only reorders it, and the catalog of unit types loses no trade. *)
(* These rest on the tables being finite and on what counting, summing and *)
(* sorting give, which comes first.                                        *)
(***************************************************************************)
EXTENDS Search, TLAPS, FiniteSetTheorems, WellFoundedInduction

-----------------------------------------------------------------------------
(* Induction, on numbers and on finite sets, over the set of the good ones. *)

LEMMA CountUp ==
  ASSUME NEW n \in Nat, NEW Good, 0 \in Good,
         \A m \in Nat : m < n /\ m \in Good => m + 1 \in Good
  PROVE  n \in Good /\ \A m \in 0..n : m \in Good
<1>. DEFINE Bad == {m \in 0..n : m \notin Good}
            Less == OpToRel(<, Nat)
<1>. SUFFICES ASSUME Bad # {} PROVE FALSE
  <2>1. n \in 0..n
    OBVIOUS
  <2>. QED  BY <2>1
<1>1. Bad \subseteq Nat
  OBVIOUS
<1>2. IsWellFoundedOn(Less, Nat) /\ \A k, m \in Nat : k < m => <<k, m>> \in Less
  BY NatLessThanWellFounded DEF OpToRel
<1>. HIDE DEF Less
<1>3. \E m \in Bad : \A k \in Bad : <<k, m>> \notin Less
  <2>. HIDE DEF Bad
  <2>. QED  BY <1>1, <1>2, WFMin
<1>4. PICK m \in Bad : \A k \in Bad : <<k, m>> \notin Less
  BY <1>3
<1>5. m \in Nat \ {0} /\ m - 1 \in 0..n /\ m <= n
  BY <1>4
<1>6. <<m - 1, m>> \in Less
  BY <1>2, <1>5
<1>7. m - 1 \in Good
  BY <1>4, <1>5, <1>6
<1>. QED  BY <1>4, <1>5, <1>7

LEMMA AddOneByOne ==
  ASSUME NEW S, IsFiniteSet(S), NEW Good, {} \in Good,
         \A T \in SUBSET S : \A x \in S \ T : T \in Good => T \cup {x} \in Good
  PROVE  S \in Good
<1>. DEFINE Reached == {m \in Nat : \A T \in SUBSET S : Cardinality(T) = m => T \in Good}
<1>1. \A T \in SUBSET S : IsFiniteSet(T) /\ Cardinality(T) \in Nat
  BY FS_Subset, FS_CardinalityType
<1>2. 0 \in Reached
  BY <1>1, FS_EmptySet
<1>3. ASSUME NEW m \in Nat, m \in Reached PROVE m + 1 \in Reached
  <2>. SUFFICES ASSUME NEW T \in SUBSET S, Cardinality(T) = m + 1 PROVE T \in Good
    OBVIOUS
  <2>1. PICK x \in T : TRUE
    BY FS_EmptySet
  <2>2. IsFiniteSet(T)
    BY <1>1
  <2>3. Cardinality(T \ {x}) = (m + 1) - 1
    BY <2>1, <2>2, FS_RemoveElement
  <2>4. T \ {x} \in Good
    BY <1>3, <2>3
  <2>5. (T \ {x}) \cup {x} = T
    BY <2>1
  <2>. QED  BY <2>1, <2>4, <2>5
<1>. HIDE DEF Reached
<1>4. Cardinality(S) \in Reached
  BY <1>1, <1>2, <1>3, CountUp
<1>. QED  BY <1>4 DEF Reached

LEMMA MaxIs ==
  ASSUME NEW S \in SUBSET Int, IsFiniteSet(S), S # {}
  PROVE  Max(S) \in S /\ \A y \in S : Max(S) >= y
<1>. DEFINE Good == {T \in SUBSET S : T # {} => \E x \in T : \A y \in T : x >= y}
<1>1. {} \in Good
  OBVIOUS
<1>2. ASSUME NEW T \in SUBSET S, NEW x \in S \ T, T \in Good PROVE T \cup {x} \in Good
  <2>1. CASE T = {}
    BY <2>1
  <2>2. CASE T # {}
    <3>1. PICK z \in T : \A y \in T : z >= y
      BY <1>2, <2>2
    <3>2. CASE z >= x
      BY <3>1, <3>2
    <3>3. CASE ~(z >= x)
      BY <3>1, <3>3
    <3>. QED  BY <3>2, <3>3
  <2>. QED  BY <2>1, <2>2
<1>. HIDE DEF Good
<1>3. S \in Good
  BY <1>1, <1>2, AddOneByOne
<1>4. \E x \in S : \A y \in S : x >= y
  BY <1>3 DEF Good
<1>. QED  BY <1>4 DEF Max

LEMMA MinIs ==
  ASSUME NEW S \in SUBSET Int, IsFiniteSet(S), S # {}
  PROVE  Min(S) \in S /\ \A y \in S : Min(S) <= y
<1>. DEFINE Good == {T \in SUBSET S : T # {} => \E x \in T : \A y \in T : x <= y}
<1>1. {} \in Good
  OBVIOUS
<1>2. ASSUME NEW T \in SUBSET S, NEW x \in S \ T, T \in Good PROVE T \cup {x} \in Good
  <2>1. CASE T = {}
    BY <2>1
  <2>2. CASE T # {}
    <3>1. PICK z \in T : \A y \in T : z <= y
      BY <1>2, <2>2
    <3>2. CASE z <= x
      BY <3>1, <3>2
    <3>3. CASE ~(z <= x)
      BY <3>1, <3>3
    <3>. QED  BY <3>2, <3>3
  <2>. QED  BY <2>1, <2>2
<1>. HIDE DEF Good
<1>3. S \in Good
  BY <1>1, <1>2, AddOneByOne
<1>4. \E x \in S : \A y \in S : x <= y
  BY <1>3 DEF Good
<1>. QED  BY <1>4 DEF Min

LEMMA OfTwo ==
  ASSUME NEW a \in Int, NEW b \in Int
  PROVE  /\ Max({a, b}) = IF a >= b THEN a ELSE b
         /\ Min({a, b}) = IF a <= b THEN a ELSE b
BY DEF Max, Min

LEMMA ImageFinite ==
  ASSUME NEW S, IsFiniteSet(S), NEW f, DOMAIN f = S
  PROVE  IsFiniteSet({f[x] : x \in S}) 
<1>. DEFINE T == {f[x] : x \in S}
            g == [x \in S |-> f[x]]
<1>1. g \in Surjection(S, T)
  BY DEF Surjection
<1>. HIDE DEF g, T
<1>2. IsFiniteSet(T)
  BY <1>1, FS_Surjection
<1>. QED  BY <1>2 DEF T

-----------------------------------------------------------------------------
(* A set as a sequence, places in an order, sums and counts.              *)
LEMMA SeqIs ==
  ASSUME NEW S, IsFiniteSet(S)
  PROVE  LET n == Cardinality(S)
             seq == SetToSeq(S)
         IN  /\ n \in Nat /\ seq \in [1..n -> S] /\ DOMAIN seq = 1..n /\ Len(seq) = n
             /\ \A i, j \in 1..n : seq[i] = seq[j] => i = j
             /\ \A x \in S : \E i \in 1..n : seq[i] = x
<1>. DEFINE n == Cardinality(S)
            seq == SetToSeq(S)
<1>1. n \in Nat /\ ExistsBijection(1..n, S)
  BY FS_CardinalityType
<1>2. \E f \in [1..n -> S] : IsInjective(f)
  BY <1>1 DEF ExistsBijection, Bijection, Injection
<1>3. seq \in [1..n -> S] /\ IsInjective(seq)
  BY <1>2 DEF SetToSeq
<1>. HIDE DEF n, seq
<1>4. \A i, j \in 1..n : seq[i] = seq[j] => i = j
  BY <1>3 DEF IsInjective
<1>5. seq \in Injection(1..n, S)
  BY <1>3 DEF Injection
<1>6. IsFiniteSet(1..n) /\ Cardinality(1..n) = n
  BY <1>1, FS_Interval
<1>7. seq \in Surjection(1..n, S)
  BY <1>5, <1>6, FS_Injection DEF n
<1>8. \A x \in S : \E i \in 1..n : seq[i] = x
  BY <1>7 DEF Surjection
<1>9. Len(seq) = n
  BY <1>1, <1>3
<1>. QED  BY <1>1, <1>3, <1>4, <1>8, <1>9 DEF n, seq

LEMMA Places ==
  ASSUME NEW n \in Nat, NEW key \in [1..n -> Int]
  PROVE  /\ \A i \in 1..n : Place(key, i) \in 1..n
         /\ \A i, j \in 1..n : Before(key, i, j) => Place(key, i) < Place(key, j)
         /\ \A p \in 1..n : \E i \in 1..n : Place(key, i) = p
<1>. DEFINE ahead(i) == {j \in 1..n : Before(key, j, i)}
            place == [i \in 1..n |-> Place(key, i)]
<1>1. \A i, j, k \in 1..n : /\ ~Before(key, i, i)
                            /\ Before(key, i, j) /\ Before(key, j, k) => Before(key, i, k)
                            /\ i # j => Before(key, i, j) \/ Before(key, j, i)
  BY DEF Before
<1>2. IsFiniteSet(1..n) /\ Cardinality(1..n) = n
  BY FS_Interval
<1>3. \A i \in 1..n : /\ IsFiniteSet(ahead(i)) /\ Cardinality(ahead(i)) \in Nat
                      /\ Place(key, i) = Cardinality(ahead(i)) + 1
  BY <1>2, FS_Subset, FS_CardinalityType DEF Place
<1>4. ASSUME NEW i \in 1..n PROVE Place(key, i) \in 1..n
  <2>1. ahead(i) \in SUBSET (1..n) /\ ahead(i) # 1..n
    BY <1>1
  <2>2. Cardinality(ahead(i)) <= n /\ Cardinality(ahead(i)) # n
    <3>. HIDE DEF ahead
    <3>. QED  BY <1>2, <2>1, FS_Subset
  <2>. HIDE DEF ahead
  <2>. QED  BY <1>3, <2>2
<1>5. ASSUME NEW i \in 1..n, NEW j \in 1..n, Before(key, i, j)
      PROVE Place(key, i) < Place(key, j)
  <2>1. ahead(i) \in SUBSET ahead(j) /\ i \in ahead(j) /\ i \notin ahead(i)
    BY <1>1, <1>5
  <2>2. ahead(i) # ahead(j)
    BY <2>1
  <2>3. Cardinality(ahead(i)) <= Cardinality(ahead(j)) /\ Cardinality(ahead(i)) # Cardinality(ahead(j))
    <3>. HIDE DEF ahead
    <3>. QED  BY <1>3, <2>1, <2>2, FS_Subset
  <2>. HIDE DEF ahead
  <2>. QED  BY <1>3, <2>3
<1>6. \A i, j \in 1..n : Place(key, i) = Place(key, j) => i = j
  <2>. SUFFICES ASSUME NEW i \in 1..n, NEW j \in 1..n, Place(key, i) = Place(key, j), i # j
                PROVE  FALSE
    OBVIOUS
  <2>1. Place(key, i) \in Int /\ Place(key, j) \in Int
    BY <1>4
  <2>. QED  BY <1>1, <1>5, <2>1
<1>7. place \in Injection(1..n, 1..n)
  BY <1>4, <1>6 DEF Injection, IsInjective
<1>8. place \in Surjection(1..n, 1..n)
  <2>. HIDE DEF place
  <2>. QED  BY <1>2, <1>7, FS_Injection
<1>9. \A p \in 1..n : \E i \in 1..n : Place(key, i) = p
  BY <1>8 DEF Surjection
<1>. QED  BY <1>4, <1>5, <1>9

\* Where each of the n sorted rows came from.
SortedFrom(from, rows, key, n) ==
    /\ from \in [1..n -> 1..n]
    /\ SortedBy(rows, key) = [p \in 1..n |-> rows[from[p]]]
    /\ \A i \in 1..n : \E p \in 1..n : from[p] = i
    /\ \A p, q \in 1..n : p < q => Before(key, from[p], from[q])

\* SortedBy puts every row at one place, and those of a greater key first.
LEMMA Sorting ==
  ASSUME NEW n \in Nat, NEW rows, DOMAIN rows = 1..n, NEW key \in [1..n -> Int]
  PROVE  \E from : SortedFrom(from, rows, key, n)
<1>. DEFINE from == [p \in 1..n |-> CHOOSE i \in 1..n : Place(key, i) = p]
<1>1. \A p \in 1..n : from[p] \in 1..n /\ Place(key, from[p]) = p
  BY Places
<1>2. from \in [1..n -> 1..n]
  BY <1>1
<1>3. SortedBy(rows, key) = [p \in 1..n |-> rows[from[p]]]
  BY DEF SortedBy
<1>. HIDE DEF from
<1>4. \A i, j \in 1..n : i # j => Before(key, i, j) \/ Before(key, j, i)
  BY DEF Before
<1>5. ASSUME NEW p \in 1..n, NEW q \in 1..n, p < q PROVE Before(key, from[p], from[q])
  <2>1. from[p] # from[q]
    BY <1>1, <1>5
  <2>2. from[p] \in 1..n /\ from[q] \in 1..n /\ Place(key, from[p]) = p /\ Place(key, from[q]) = q
    BY <1>1
  <2>3. ASSUME Before(key, from[q], from[p]) PROVE FALSE
    <3>1. Place(key, from[q]) < Place(key, from[p])
      BY <2>2, <2>3, Places
    <3>. QED  BY <1>5, <2>2, <3>1
  <2>. QED  BY <1>4, <2>1, <2>2, <2>3
<1>6. ASSUME NEW i \in 1..n PROVE \E p \in 1..n : from[p] = i
  <2>1. Place(key, i) \in 1..n
    BY Places
  <2>2. from[Place(key, i)] = i
    <3>1. \A j \in 1..n : Place(key, j) = Place(key, i) => j = i
      <4>. SUFFICES ASSUME NEW j \in 1..n, Place(key, j) = Place(key, i), j # i PROVE FALSE
        OBVIOUS
      <4>1. Place(key, j) \in 1..n /\ Place(key, i) \in 1..n
        BY Places
      <4>2. Place(key, i) < Place(key, j) \/ Place(key, j) < Place(key, i)
        BY <1>4, Places
      <4>. QED  BY <4>1, <4>2
    <3>. QED  BY <1>1, <2>1, <3>1
  <2>. QED  BY <2>1, <2>2
<1>7. SortedFrom(from, rows, key, n)
  BY <1>2, <1>3, <1>5, <1>6 DEF SortedFrom
<1>. QED  BY <1>7

LEMMA SumIs ==
  ASSUME NEW n \in Nat, NEW terms \in [1..n -> Int]
  PROVE  \E sum \in [0..n -> Int] :
            /\ sum[0] = 0 /\ \A m \in 0..(n - 1) : sum[m + 1] = sum[m] + terms[m + 1]
            /\ SumOf(terms) = sum[n]
<1>. DEFINE Adds(h, m) == h[0] = 0 /\ \A k \in 0..(m - 1) : h[k + 1] = h[k] + terms[k + 1]
            Good == {m \in Nat : m <= n => \E h \in [0..m -> Int] : Adds(h, m)}
            body(h) == [k \in 0..Len(terms) |-> IF k = 0 THEN 0 ELSE h[k - 1] + terms[k]]
            sum[k \in 0..Len(terms)] == IF k = 0 THEN 0 ELSE sum[k - 1] + terms[k]
<1>1. Len(terms) = n
  OBVIOUS
<1>2. 0 \in Good
  <2>1. [k \in 0..0 |-> 0] \in [0..0 -> Int] /\ Adds([k \in 0..0 |-> 0], 0)
    OBVIOUS
  <2>. QED  BY <2>1
<1>3. ASSUME NEW m \in Nat, m < n, m \in Good PROVE m + 1 \in Good
  <2>1. PICK h \in [0..m -> Int] : Adds(h, m)
    BY <1>3
  <2>. DEFINE g == [k \in 0..(m + 1) |-> IF k <= m THEN h[k] ELSE h[m] + terms[m + 1]]
  <2>2. terms[m + 1] \in Int /\ h[m] \in Int
    BY <1>3
  <2>3. g \in [0..(m + 1) -> Int]
    BY <2>2
  <2>4. Adds(g, m + 1)
    BY <2>1, <2>2
  <2>. HIDE DEF g, Adds
  <2>. QED  BY <2>3, <2>4
<1>. HIDE DEF Good
<1>4. n \in Good
  BY <1>2, <1>3, CountUp
<1>5. PICK h \in [0..n -> Int] : Adds(h, n)
  BY <1>4 DEF Good
<1>6. h = body(h)
  <2>1. \A k \in 0..n : h[k] = IF k = 0 THEN 0 ELSE h[k - 1] + terms[k]
    <3>. TAKE k \in 0..n
    <3>1. CASE k = 0
      BY <1>5, <3>1
    <3>2. CASE k # 0
      <4>1. k - 1 \in 0..(n - 1) /\ (k - 1) + 1 = k
        BY <3>2
      <4>2. h[(k - 1) + 1] = h[k - 1] + terms[(k - 1) + 1]
        BY <1>5, <4>1
      <4>. QED  BY <3>2, <4>1, <4>2
    <3>. QED  BY <3>1, <3>2
  <2>. QED  BY <1>1, <2>1
<1>7. sum = body(sum)
  <2>1. \E f : f = body(f)
    BY <1>6
  <2>. HIDE DEF body
  <2>2. sum = CHOOSE f : f = body(f)
    BY DEF body
  <2>. QED  BY <2>1, <2>2, Zenon
<1>8. SumOf(terms) = sum[n]
  BY <1>1 DEF SumOf
<1>. HIDE DEF sum
<1>9. DOMAIN sum = 0..n /\ \A k \in 0..n : sum[k] = IF k = 0 THEN 0 ELSE sum[k - 1] + terms[k]
  BY <1>1, <1>7
<1>10. \A m \in 0..(n - 1) : sum[m + 1] = sum[m] + terms[m + 1]
  BY <1>9
<1>11. \A m \in 0..n : sum[m] \in Int
  <2>. DEFINE Whole == {m \in Nat : m <= n => sum[m] \in Int}
  <2>1. 0 \in Whole
    BY <1>9
  <2>2. ASSUME NEW m \in Nat, m < n, m \in Whole PROVE m + 1 \in Whole
    <3>1. m \in 0..(n - 1) /\ terms[m + 1] \in Int /\ sum[m] \in Int
      BY <2>2
    <3>. QED  BY <1>10, <3>1
  <2>. HIDE DEF Whole
  <2>3. \A m \in 0..n : m \in Whole
    BY <2>1, <2>2, CountUp
  <2>. QED  BY <2>3 DEF Whole
<1>12. sum \in [0..n -> Int]
  BY <1>1, <1>7, <1>11
<1>13. sum[0] = 0
  BY <1>9
<1>. HIDE DEF Adds, body
<1>. QED  BY <1>8, <1>10, <1>12, <1>13

LEMMA SumLess ==
  ASSUME NEW n \in Nat, NEW a \in [1..n -> Int], NEW b \in [1..n -> Int],
         \A i \in 1..n : a[i] <= b[i],
         NEW j \in 1..n, a[j] < b[j]
  PROVE  SumOf(a) < SumOf(b)
<1>1. PICK s \in [0..n -> Int] :
         /\ s[0] = 0 /\ \A m \in 0..(n - 1) : s[m + 1] = s[m] + a[m + 1]
         /\ SumOf(a) = s[n]
  BY SumIs
<1>2. PICK t \in [0..n -> Int] :
         /\ t[0] = 0 /\ \A m \in 0..(n - 1) : t[m + 1] = t[m] + b[m + 1]
         /\ SumOf(b) = t[n]
  BY SumIs
<1>. DEFINE Good == {m \in Nat : m <= n => s[m] <= t[m] /\ (m >= j => s[m] < t[m])}
<1>3. 0 \in Good
  BY <1>1, <1>2
<1>4. ASSUME NEW m \in Nat, m < n, m \in Good PROVE m + 1 \in Good
  <2>. m \in 0..(n - 1) /\ m \in 0..n /\ m + 1 \in 1..n
    BY <1>4
  <2>1. /\ s[m] \in Int /\ t[m] \in Int /\ a[m + 1] \in Int /\ b[m + 1] \in Int
        /\ a[m + 1] <= b[m + 1] /\ (m + 1 = j => a[m + 1] < b[m + 1])
    OBVIOUS
  <2>2. s[m] <= t[m] /\ (m >= j => s[m] < t[m])
    BY <1>4
  <2>3. s[m + 1] = s[m] + a[m + 1] /\ t[m + 1] = t[m] + b[m + 1]
    BY <1>1, <1>2, <1>4
  <2>. DEFINE sm == s[m]
              tm == t[m]
              an == a[m + 1]
              bn == b[m + 1]
              sn == s[m + 1]
              tn == t[m + 1]
  <2>4. /\ sm \in Int /\ tm \in Int /\ an \in Int /\ bn \in Int
        /\ an <= bn /\ (m + 1 = j => an < bn) /\ sm <= tm /\ (m >= j => sm < tm)
        /\ sn = sm + an /\ tn = tm + bn
    BY <2>1, <2>2, <2>3
  <2>5. j \in Int
    OBVIOUS
  <2>. HIDE DEF sm, tm, an, bn, sn, tn
  <2>6. sn <= tn
    BY <2>4
  <2>7. m + 1 >= j => sn < tn
    BY <2>4, <2>5
  <2>8. m + 1 <= n => sn <= tn /\ (m + 1 >= j => sn < tn)
    BY <2>6, <2>7
  <2>. QED  BY <2>8 DEF sn, tn
<1>. HIDE DEF Good
<1>5. n \in Good
  BY <1>3, <1>4, CountUp
<1>. QED  BY <1>1, <1>2, <1>5 DEF Good

\* The parts of a finite set, counted, add up to the whole.
LEMMA PartsAddUp ==
  ASSUME NEW T, IsFiniteSet(T), NEW K, NEW h \in [T -> K], NEW f, DOMAIN f = K,
         \A k \in K : f[k] = Cardinality({t \in T : h[t] = k})
  PROVE  Total(f) = Cardinality(T)
<1>. DEFINE part == [k \in K |-> {t \in T : h[t] = k}]
            bij == [k \in K |-> CHOOSE g : g \in Bijection(1..f[k], part[k])]
            pairs == UNION {{x} \X (1..f[x]) : x \in K}
            pos(t) == CHOOSE i \in 1..f[h[t]] : bij[h[t]][i] = t
            place == [t \in T |-> <<h[t], pos(t)>>]
<1>1. ASSUME NEW k \in K PROVE bij[k] \in Bijection(1..f[k], part[k])
  <2>1. IsFiniteSet(part[k]) /\ Cardinality(part[k]) = f[k]
    BY FS_Subset
  <2>2. \E g : g \in Bijection(1..f[k], part[k])
    <3>. HIDE DEF part
    <3>. QED  BY <2>1, FS_CardinalityType DEF ExistsBijection
  <2>. HIDE DEF part
  <2>. QED  BY <2>2
<1>2. ASSUME NEW t \in T
      PROVE /\ h[t] \in K /\ pos(t) \in 1..f[h[t]] /\ bij[h[t]][pos(t)] = t
  <2>1. h[t] \in K /\ t \in part[h[t]]
    OBVIOUS
  <2>. HIDE DEF part, bij
  <2>2. \E i \in 1..f[h[t]] : bij[h[t]][i] = t
    BY <1>1, <2>1 DEF Bijection, Surjection
  <2>. QED  BY <2>1, <2>2
<1>. HIDE DEF pos
<1>3. place \in [T -> pairs]
  <2>1. \A t \in T : <<h[t], pos(t)>> \in {h[t]} \X (1..f[h[t]])
    BY <1>2
  <2>2. \A t \in T : <<h[t], pos(t)>> \in pairs
    BY <1>2, <2>1
  <2>. HIDE DEF pairs
  <2>. QED  BY <2>2
<1>4. place \in Injection(T, pairs)
  BY <1>2, <1>3 DEF Injection, IsInjective
<1>5. place \in Surjection(T, pairs)
  <2>1. SUFFICES ASSUME NEW k \in K, NEW i \in 1..f[k] PROVE \E t \in T : place[t] = <<k, i>>
    <3>1. \A p \in pairs : \E k \in K : \E i \in 1..f[k] : p = <<k, i>>
      OBVIOUS
    <3>. HIDE DEF pairs, place
    <3>. QED  BY <1>3, <2>1, <3>1 DEF Surjection
  <2>2. bij[k][i] \in part[k] /\ \A j \in 1..f[k] : bij[k][j] = bij[k][i] => j = i
    <3>. HIDE DEF part, bij
    <3>. QED  BY <1>1 DEF Bijection, Injection, IsInjective
  <2>3. bij[k][i] \in T /\ h[bij[k][i]] = k
    BY <2>2
  <2>. HIDE DEF bij
  <2>4. pos(bij[k][i]) = i
    BY <1>2, <2>2, <2>3
  <2>. QED  BY <2>3, <2>4
<1>6. ExistsBijection(T, pairs)
  <2>. HIDE DEF place, pairs
  <2>. QED  BY <1>4, <1>5 DEF ExistsBijection, Bijection
<1>7. Cardinality(pairs) = Cardinality(T)
  <2>. HIDE DEF pairs
  <2>. QED  BY <1>6, FS_Bijection
<1>. QED  BY <1>7 DEF Total

\* Given, unfolded.
LEMMA GivenIs ==
  ASSUME NEW n \in Nat, NEW buckets, NEW catalog, Len(catalog) = n
  PROVE  \E given :
            /\ given[0] = [free |-> buckets, rows |-> {}]
            /\ \A m \in 0..(n - 1) : given[m + 1] = Give(given[m], catalog[m + 1])
            /\ Given(buckets, catalog) = given[n]
<1>. DEFINE start == [free |-> buckets, rows |-> {}]
            Steps(h, m) == /\ DOMAIN h = 0..m /\ h = [k \in 0..m |-> h[k]] /\ h[0] = start
                           /\ \A k \in 0..(m - 1) : h[k + 1] = Give(h[k], catalog[k + 1])
            Good == {m \in Nat : \E h : Steps(h, m)}
            body(h) == [k \in 0..Len(catalog) |->
                           IF k = 0 THEN start ELSE Give(h[k - 1], catalog[k])]
            given[k \in 0..Len(catalog)] ==
                IF k = 0 THEN start ELSE Give(given[k - 1], catalog[k])
<1>. HIDE DEF start
<1>1. 0 \in Good
  <2>1. Steps([k \in 0..0 |-> start], 0)
    OBVIOUS
  <2>. HIDE DEF Steps
  <2>. QED  BY <2>1
<1>2. ASSUME NEW m \in Nat, m < n, m \in Good PROVE m + 1 \in Good
  <2>1. PICK h : Steps(h, m)
    BY <1>2
  <2>. DEFINE g == [k \in 0..(m + 1) |-> IF k <= m THEN h[k] ELSE Give(h[m], catalog[m + 1])]
  <2>2. DOMAIN g = 0..(m + 1) /\ g[0] = start
    BY <2>1
  <2>3. \A k \in 0..m : g[k + 1] = Give(g[k], catalog[k + 1])
    <3>. TAKE k \in 0..m
    <3>1. CASE k = m
      BY <3>1
    <3>2. CASE k \in 0..(m - 1)
      <4>1. k <= m /\ k + 1 <= m /\ k + 1 \in 0..(m + 1) /\ k \in 0..(m + 1)
        BY <3>2
      <4>2. g[k] = h[k] /\ g[k + 1] = h[k + 1]
        BY <4>1
      <4>. QED  BY <2>1, <3>2, <4>2
    <3>. QED  BY <3>1, <3>2
  <2>4. g = [k \in 0..(m + 1) |-> g[k]]
    OBVIOUS
  <2>. HIDE DEF g
  <2>5. Steps(g, m + 1)
    <3>1. (m + 1) - 1 = m
      OBVIOUS
    <3>. QED  BY <2>2, <2>3, <2>4, <3>1
  <2>. HIDE DEF Steps
  <2>. QED  BY <2>5
<1>. HIDE DEF Good
<1>3. n \in Good
  BY <1>1, <1>2, CountUp
<1>4. PICK h : Steps(h, n)
  BY <1>3 DEF Good
<1>5. h = body(h)
  <2>1. \A k \in 0..n : h[k] = IF k = 0 THEN start ELSE Give(h[k - 1], catalog[k])
    <3>. TAKE k \in 0..n
    <3>1. CASE k = 0
      BY <1>4, <3>1
    <3>2. CASE k # 0
      <4>1. k - 1 \in 0..(n - 1) /\ (k - 1) + 1 = k
        BY <3>2
      <4>2. h[(k - 1) + 1] = Give(h[k - 1], catalog[(k - 1) + 1])
        BY <1>4, <4>1
      <4>. QED  BY <3>2, <4>1, <4>2
    <3>. QED  BY <3>1, <3>2
  <2>2. DOMAIN h = 0..n /\ h = [k \in 0..n |-> h[k]]
    BY <1>4
  <2>. QED  BY <2>1, <2>2
<1>6. given = body(given)
  <2>1. \E f : f = body(f)
    BY <1>5
  <2>. HIDE DEF body
  <2>2. given = CHOOSE f : f = body(f)
    BY DEF body
  <2>. QED  BY <2>1, <2>2, Zenon
<1>7. Given(buckets, catalog) = given[n]
  BY DEF Given, start
<1>. HIDE DEF given
<1>8. given[0] = start
  BY <1>6
<1>9. \A m \in 0..(n - 1) : given[m + 1] = Give(given[m], catalog[m + 1])
  BY <1>6
<1>. QED  BY <1>7, <1>8, <1>9 DEF start

-----------------------------------------------------------------------------
(* The links.                                                              *)

\* A row is the master's, whole or stripped, or derived: without a code, its id
\* made of its fields.
RowSound(c) ==
    \/ \E k \in Kapt : c = k \/ c = Stripped(k)
    \/ /\ c.bjd = NoBjd /\ c.name \in Names
       /\ c.id.kind \in {"ap", "ro", "of"}
       /\ c.id.dong = c.dong /\ c.id.norm = Norm[c.name]

RowsInv == /\ \A c \in complex : RowSound(c)
           /\ \A c, d \in complex : c.id = d.id => c = d

SaleRows == /\ DOMAIN sale \subseteq Sales
            /\ \A t \in DOMAIN sale :
                  IF t.type = "apartment" THEN sale[t].bjd = t.bjd ELSE sale[t].link = OwnKey(t)

RentRows == /\ DOMAIN rent \subseteq Rents
            /\ \A t \in DOMAIN rent :
                  IF t.type = "apartment"
                  THEN rent[t].bjd = NoBjd
                       \/ \E k \in Kapt : /\ k.bjd = rent[t].bjd /\ k.bjd.sgg = t.sgg
                                          /\ k.dong = t.dong
                  ELSE rent[t].link = OwnKey(t)

BatchInv == \A b \in batch : /\ b.key = OwnKey(b.trade) /\ b.trade.type = "apartment"
                             /\ IF b.table = "sale" THEN b.trade \in DOMAIN sale
                                ELSE b.trade \in DOMAIN rent

IInv == RowsInv /\ SaleRows /\ RentRows /\ BatchInv /\ LinksSound

-----------------------------------------------------------------------------
(* What a match is good for.                                               *)

LEMMA AlikeNotCrossed ==
  ASSUME NEW q \in Names, NEW c \in Names, Similarity(q, c) >= Floor
  PROVE  ~Crossed(q, c)
<1>1. SUFFICES ASSUME Crossed(q, c) PROVE Similarity(q, c) = 0
  BY DEF Floor
<1>2. Numbers[q] # Numbers[c]
  BY <1>1 DEF Crossed
<1>3. Norm[q] # Norm[c]
  BY <1>2, NameFacts
<1>. QED  BY <1>1, <1>3 DEF Similarity

LEMMA MatchAlike ==
  ASSUME NEW t, NEW bjd, NEW rows, t.name \in Names,
         \A c \in rows : c.name \in Names,
         NEW c \in Matches(t, bjd, rows)
  PROVE  c \in Candidates(t, bjd, rows) /\ ~Crossed(t.name, c.name)
<1>. DEFINE cands == Candidates(t, bjd, rows)
            peers == JibunPeers(t, cands)
<1>1. cands \subseteq rows /\ peers \subseteq cands
  BY DEF Candidates, JibunPeers
<1>2. \A d \in rows : Similarity(t.name, d.name) \in 0..100
  <2>. SUFFICES ASSUME NEW d \in rows PROVE Similarity(t.name, d.name) \in 0..100
    OBVIOUS
  <2>1. Ratio[<<t.name, d.name>>] \in 0..100
    BY NameFacts
  <2>. QED  BY <2>1 DEF Similarity, Contained
<1>3. \A S \in SUBSET rows : \A d \in BestMatch(t.name, S) :
         d \in S /\ Similarity(t.name, d.name) >= Floor
  BY <1>2 DEF BestMatch, Threshold, Floor
<1>4. \A d \in Disambiguate(t, peers) : d \in peers /\ Similarity(t.name, d.name) >= Floor
  BY <1>1, <1>3 DEF Disambiguate
<1>5. \A d \in JibunMatch(t, cands) : d \in peers /\ Similarity(t.name, d.name) >= Floor
  BY <1>4 DEF JibunMatch
<1>6. c \in cands /\ Similarity(t.name, c.name) >= Floor
  BY <1>1, <1>3, <1>5 DEF Matches
<1>. QED  BY <1>1, <1>6, AlikeNotCrossed

LEMMA JoinedFrom ==
  ASSUME NEW table, NEW new, NEW rows, Joined(table, new, rows)
  PROVE  /\ DOMAIN new = DOMAIN table
         /\ \A t \in DOMAIN table :
               /\ t \notin Pending(table) => new[t] = table[t]
               /\ t \in Pending(table) =>
                     \E id \in MatchIds(t, table[t].bjd, rows) :
                        new[t] = Relink(table[t], id)
BY DEF Joined

-----------------------------------------------------------------------------
(* Rows come and are overwritten; ids stay.                                *)

LEMMA PrefixKind == \A type : Prefix(type) \in {"ap", "ro", "of"}
BY DEF Prefix

LEMMA BuildingSound ==
  ASSUME NEW t \in Sales \cup Rents, NEW sgg
  PROVE  RowSound(Building(t, sgg)) /\ Building(t, sgg).id = BuildingKey(t, sgg)
BY TradeFacts, PrefixKind DEF RowSound, Building, BuildingKey

\* A record's id, name and type are not touched when its row is stripped.
LEMMA StrippedRow ==
  ASSUME NEW k
  PROVE  /\ Stripped(k).id = k.id /\ Stripped(k).name = k.name
         /\ Stripped(k).bjd = NoBjd /\ Stripped(k).dong = ""
BY DEF Stripped

LEMMA SameRow ==
  ASSUME NEW c, NEW d, RowSound(c), RowSound(d), c.id = d.id, c.id.kind # "kapt"
  PROVE  c.bjd = d.bjd /\ c.dong = d.dong /\ Numbers[c.name] = Numbers[d.name]
<1>1. \A k \in Kapt : k.id.kind = "kapt" /\ Stripped(k).id.kind = "kapt"
  <2>. SUFFICES ASSUME NEW k \in Kapt PROVE k.id.kind = "kapt" /\ Stripped(k).id.kind = "kapt"
    OBVIOUS
  <2>. QED  BY StrippedRow, MasterFacts
<1>2. \A e : RowSound(e) /\ e.id.kind # "kapt" =>
             e.bjd = NoBjd /\ e.name \in Names /\ e.id.dong = e.dong /\ e.id.norm = Norm[e.name]
  BY <1>1 DEF RowSound
<1>. QED  BY <1>2, NameFacts

LEMMA PutKeeps ==
  ASSUME RowsInv, NEW row, RowSound(row), complex' = Put(row)
  PROVE  /\ RowsInv'
         /\ Ids \subseteq Ids' /\ row.id \in Ids'
         /\ \A c \in Full : \E d \in Full' :
               /\ d.id = c.id /\ d.bjd = c.bjd /\ d.dong = c.dong
               /\ Numbers[d.name] = Numbers[c.name]
<1>1. RowsInv'
  BY DEF RowsInv, Put, RowSound
<1>2. row \in complex' /\ \A c \in complex : c.id # row.id => c \in complex'
  BY DEF Put
<1>3. Ids \subseteq Ids' /\ row.id \in Ids'
  BY <1>2 DEF Ids
<1>4. ASSUME NEW c \in Full
      PROVE \E d \in Full' : /\ d.id = c.id /\ d.bjd = c.bjd /\ d.dong = c.dong
                             /\ Numbers[d.name] = Numbers[c.name]
  <2>1. CASE c \in Kapt /\ c.id \in Ids
    BY <1>3, <2>1 DEF Full
  <2>2. CASE c \in complex /\ c.id.kind # "kapt" /\ c.id # row.id
    BY <1>2, <2>2 DEF Full
  <2>3. CASE c \in complex /\ c.id.kind # "kapt" /\ c.id = row.id
    BY <1>2, <2>3, SameRow DEF RowsInv, Full
  <2>. QED  BY <2>1, <2>2, <2>3 DEF Full
<1>. QED  BY <1>1, <1>3, <1>4

\* So whatever link was sound stays sound when only rows change.
LEMMA SoundStays ==
  ASSUME RowsInv, NEW row, RowSound(row), complex' = Put(row), NEW t
  PROVE  /\ SaleSound(t) /\ sale'[t].link = sale[t].link => SaleSound(t)'
         /\ RentSound(t) /\ rent'[t].link = rent[t].link => RentSound(t)'
BY PutKeeps DEF SaleSound, RentSound, Crossed, OwnKey

-----------------------------------------------------------------------------
(* The steps.                                                              *)

LEMMA InitInv == Init => IInv
BY DEF Init, IInv, RowsInv, SaleRows, RentRows, BatchInv, LinksSound

LEMMA LoadComplexInv ==
  ASSUME IInv, NEW k \in Kapt, LoadComplex(k) PROVE IInv'
<1>1. PICK row \in {k, Stripped(k)} : complex' = Put(row) /\ UNCHANGED <<sale, rent, batch>>
  BY DEF LoadComplex
<1>2. RowSound(row) /\ RowsInv'
  <2>1. RowSound(row)
    BY DEF RowSound
  <2>. QED  BY <1>1, <2>1, PutKeeps DEF IInv
<1>3. SaleRows' /\ RentRows' /\ BatchInv'
  BY <1>1 DEF IInv, SaleRows, RentRows, BatchInv, OwnKey, BuildingKey
<1>4. LinksSound'
  BY <1>1, <1>2, SoundStays DEF IInv, LinksSound
<1>. QED  BY <1>2, <1>3, <1>4 DEF IInv

LEMMA LoadSaleInv ==
  ASSUME IInv, NEW t \in Sales, LoadSale(t) PROVE IInv'
<1>1. /\ sale' = Upserted(sale, t, t.bjd) /\ t.type = "apartment"
      /\ UNCHANGED <<complex, rent, batch>>
  BY DEF LoadSale
<1>2. /\ DOMAIN sale' = DOMAIN sale \cup {t}
      /\ \A u \in DOMAIN sale : u # t => sale'[u] = sale[u]
      /\ sale'[t].bjd = t.bjd
      /\ sale'[t].link = IF t \in DOMAIN sale THEN sale[t].link ELSE NoComplex
  BY <1>1 DEF Upserted
<1>3. RowsInv' /\ RentRows'
  BY <1>1 DEF IInv, RowsInv, RentRows, RowSound, OwnKey, BuildingKey
<1>4. SaleRows' /\ BatchInv'
  BY <1>1, <1>2 DEF IInv, SaleRows, BatchInv, OwnKey
<1>5. LinksSound'
  BY <1>1, <1>2 DEF IInv, LinksSound, SaleSound, RentSound, Full, Ids, OwnKey
<1>. QED  BY <1>3, <1>4, <1>5 DEF IInv

LEMMA LoadRentInv ==
  ASSUME IInv, NEW t \in Rents, LoadRent(t) PROVE IInv'
<1>1. /\ rent' = Upserted(rent, t, NoBjd) /\ t.type = "apartment"
      /\ UNCHANGED <<complex, sale, batch>>
  BY DEF LoadRent
<1>2. /\ DOMAIN rent' = DOMAIN rent \cup {t}
      /\ \A u \in DOMAIN rent : u # t => rent'[u] = rent[u]
      /\ rent'[t].bjd = NoBjd
      /\ rent'[t].link = IF t \in DOMAIN rent THEN rent[t].link ELSE NoComplex
  BY <1>1 DEF Upserted
<1>3. RowsInv' /\ SaleRows'
  BY <1>1 DEF IInv, RowsInv, SaleRows, RowSound, OwnKey, BuildingKey
<1>4. RentRows' /\ BatchInv'
  BY <1>1, <1>2 DEF IInv, RentRows, BatchInv, OwnKey
<1>5. LinksSound'
  BY <1>1, <1>2 DEF IInv, LinksSound, SaleSound, RentSound, Full, Ids, OwnKey
<1>. QED  BY <1>3, <1>4, <1>5 DEF IInv

LEMMA LoadNonaptSaleInv ==
  ASSUME IInv, NEW t \in Sales, LoadNonaptSale(t) PROVE IInv'
<1>. DEFINE row == Building(t, t.sgg)
<1>1. /\ complex' = Put(row) /\ sale' = Linked(sale, t, OwnKey(t)) /\ t.type # "apartment"
      /\ UNCHANGED <<rent, batch>>
  BY DEF LoadNonaptSale, OwnKey
<1>2. RowSound(row) /\ row.id = OwnKey(t)
  BY BuildingSound DEF OwnKey
<1>3. /\ DOMAIN sale' = DOMAIN sale \cup {t}
      /\ \A u \in DOMAIN sale : u # t => sale'[u] = sale[u]
      /\ sale'[t].link = OwnKey(t)
  BY <1>1 DEF Linked
<1>. HIDE DEF row
<1>4. RowsInv' /\ OwnKey(t) \in Ids'
  BY <1>1, <1>2, PutKeeps DEF IInv
<1>5. SaleRows' /\ RentRows' /\ BatchInv'
  BY <1>1, <1>3 DEF IInv, SaleRows, RentRows, BatchInv, OwnKey
<1>6. \A u \in DOMAIN rent : RentSound(u)'
  BY <1>1, <1>2, SoundStays DEF IInv, LinksSound
<1>7. \A u \in DOMAIN sale' : SaleSound(u)'
  <2>1. SaleSound(t)'
    BY <1>3, <1>4 DEF SaleSound, OwnKey
  <2>2. ASSUME NEW u \in DOMAIN sale, u # t PROVE SaleSound(u)'
    BY <1>1, <1>2, <1>3, <2>2, SoundStays DEF IInv, LinksSound
  <2>. QED  BY <1>3, <2>1, <2>2
<1>. QED  BY <1>1, <1>4, <1>5, <1>6, <1>7 DEF IInv, LinksSound

LEMMA LoadNonaptRentInv ==
  ASSUME IInv, NEW t \in Rents, LoadNonaptRent(t) PROVE IInv'
<1>. DEFINE row == Building(t, t.sgg)
<1>1. /\ complex' = Put(row) /\ rent' = Linked(rent, t, OwnKey(t)) /\ t.type # "apartment"
      /\ UNCHANGED <<sale, batch>>
  BY DEF LoadNonaptRent, OwnKey
<1>2. RowSound(row) /\ row.id = OwnKey(t)
  BY BuildingSound DEF OwnKey
<1>3. /\ DOMAIN rent' = DOMAIN rent \cup {t}
      /\ \A u \in DOMAIN rent : u # t => rent'[u] = rent[u]
      /\ rent'[t].link = OwnKey(t)
  BY <1>1 DEF Linked
<1>. HIDE DEF row
<1>4. RowsInv' /\ OwnKey(t) \in Ids'
  BY <1>1, <1>2, PutKeeps DEF IInv
<1>5. SaleRows' /\ RentRows' /\ BatchInv'
  BY <1>1, <1>3 DEF IInv, SaleRows, RentRows, BatchInv, OwnKey
<1>6. \A u \in DOMAIN sale : SaleSound(u)'
  BY <1>1, <1>2, SoundStays DEF IInv, LinksSound
<1>7. \A u \in DOMAIN rent' : RentSound(u)'
  <2>1. RentSound(t)'
    BY <1>3, <1>4 DEF RentSound, OwnKey
  <2>2. ASSUME NEW u \in DOMAIN rent, u # t PROVE RentSound(u)'
    BY <1>1, <1>2, <1>3, <2>2, SoundStays DEF IInv, LinksSound
  <2>. QED  BY <1>3, <2>1, <2>2
<1>. QED  BY <1>1, <1>4, <1>5, <1>6, <1>7 DEF IInv, LinksSound

\* A row's code, when it has one, is the master's: so is its dong.
LEMMA CodedRows ==
  ASSUME RowsInv, NEW c \in complex, c.bjd # NoBjd
  PROVE  c \in Kapt
BY StrippedRow DEF RowsInv, RowSound

LEMMA RowNames == RowsInv => \A c \in complex : c.name \in Names
<1>1. ASSUME NEW k \in Kapt PROVE k.name \in Names /\ Stripped(k).name \in Names
  BY StrippedRow, MasterFacts
<1>. QED  BY <1>1 DEF RowsInv, RowSound

\* A candidate is not a stripped row, which has neither a code nor a dong.
LEMMA CandidateFull ==
  ASSUME RowsInv, NEW t, NEW bjd, NEW c \in Candidates(t, bjd, complex)
  PROVE  c \in Full
<1>1. c \in complex /\ (c.bjd # NoBjd \/ c.dong # "")
  BY DEF Candidates
<1>2. c \in Kapt \/ c.id.kind # "kapt"
  BY <1>1, StrippedRow DEF RowsInv, RowSound
<1>. QED  BY <1>1, <1>2 DEF Full, Ids

\* The link a join gives is no link or a row among the candidates.
LEMMA MatchIdSound ==
  ASSUME RowsInv, NEW t \in Sales \cup Rents, NEW bjd,
         NEW id \in MatchIds(t, bjd, complex), id # NoComplex
  PROVE  \E c \in complex \cap Full : /\ c.id = id /\ ~Crossed(t.name, c.name)
                                     /\ c \in Candidates(t, bjd, complex)
<1>1. PICK c \in Matches(t, bjd, complex) : id = c.id
  BY DEF MatchIds
<1>2. c \in Candidates(t, bjd, complex) /\ ~Crossed(t.name, c.name)
  BY <1>1, MatchAlike, RowNames, TradeFacts
<1>. QED  BY <1>1, <1>2, CandidateFull DEF Candidates

LEMMA JoinSalesInv ==
  ASSUME IInv, JoinSales PROVE IInv'
<1>1. Joined(sale, sale', complex) /\ UNCHANGED <<complex, rent, batch>>
  BY DEF JoinSales
<1>2. /\ DOMAIN sale' = DOMAIN sale
      /\ \A t \in DOMAIN sale : sale[t].link # NoComplex => sale'[t] = sale[t]
      /\ \A t \in DOMAIN sale : sale[t].link = NoComplex =>
            /\ sale'[t].bjd = sale[t].bjd
            /\ sale'[t].link \in MatchIds(t, sale[t].bjd, complex)
  <2>1. /\ DOMAIN sale' = DOMAIN sale
        /\ \A t \in DOMAIN sale :
              /\ t \notin Pending(sale) => sale'[t] = sale[t]
              /\ t \in Pending(sale) =>
                    \E id \in MatchIds(t, sale[t].bjd, complex) : sale'[t] = Relink(sale[t], id)
    BY <1>1, JoinedFrom
  <2>2. \A t \in DOMAIN sale : \A id : /\ Relink(sale[t], id).bjd = sale[t].bjd
                                        /\ Relink(sale[t], id).link = id
    BY DEF Relink
  <2>3. \A t \in DOMAIN sale : t \in Pending(sale) <=> sale[t].link = NoComplex
    BY DEF Pending
  <2>. QED  BY <2>1, <2>2, <2>3
<1>3. RowsInv' /\ RentRows'
  BY <1>1 DEF IInv, RowsInv, RentRows, RowSound, OwnKey, BuildingKey
<1>4. \A t \in DOMAIN sale : OwnKey(t) # NoComplex
  BY PrefixKind DEF OwnKey, BuildingKey, NoComplex
<1>5. SaleRows' /\ BatchInv'
  BY <1>1, <1>2, <1>4 DEF IInv, SaleRows, BatchInv, OwnKey
<1>6. ASSUME NEW t \in DOMAIN sale, sale[t].link = NoComplex, sale'[t].link # NoComplex
      PROVE SaleSound(t)'
  <2>1. t \in Sales /\ t.type = "apartment" /\ sale[t].bjd = t.bjd
    BY <1>4, <1>6 DEF IInv, SaleRows
  <2>2. PICK c \in Full : /\ c.id = sale'[t].link /\ ~Crossed(t.name, c.name)
                          /\ c \in Candidates(t, t.bjd, complex)
    BY <1>2, <1>6, <2>1, MatchIdSound DEF IInv
  <2>3. IF t.bjd = NoBjd THEN c.dong = t.dong ELSE c.bjd = t.bjd
    BY <2>2 DEF Candidates
  <2>. QED  BY <1>1, <2>1, <2>2, <2>3 DEF SaleSound, Crossed, Full, Ids
<1>7. ASSUME NEW t \in DOMAIN sale, sale[t].link # NoComplex PROVE SaleSound(t)'
  BY <1>1, <1>2, <1>7 DEF IInv, LinksSound, SaleSound, Full, Ids, OwnKey
<1>8. \A t \in DOMAIN sale : SaleSound(t)'
  BY <1>6, <1>7 DEF SaleSound
<1>9. LinksSound'
  BY <1>1, <1>2, <1>8 DEF IInv, LinksSound, RentSound, Full, Ids, OwnKey
<1>. QED  BY <1>3, <1>5, <1>9 DEF IInv

\* A code filled into a rent is that of a complex of its city and dong.
LEMMA FilledSound ==
  ASSUME RowsInv, NEW t, NEW bjd
  PROVE  FilledBjd(t, bjd) = bjd
         \/ \E k \in Kapt : /\ k.bjd = FilledBjd(t, bjd) /\ k.bjd.sgg = t.sgg /\ k.dong = t.dong
<1>1. SUFFICES ASSUME bjd = NoBjd, Cardinality(BjdOf(t.sgg, t.dong)) = 1
               PROVE  \E k \in Kapt : /\ k.bjd = FilledBjd(t, bjd) /\ k.bjd.sgg = t.sgg
                                      /\ k.dong = t.dong
  BY DEF FilledBjd
<1>2. BjdOf(t.sgg, t.dong) # {}
  BY <1>1, FS_EmptySet
<1>3. FilledBjd(t, bjd) \in BjdOf(t.sgg, t.dong)
  BY <1>1, <1>2 DEF FilledBjd
<1>. QED  BY <1>3, CodedRows DEF BjdOf

LEMMA FilledRows ==
  ASSUME RowsInv, RentRows
  PROVE  /\ DOMAIN Filled = DOMAIN rent
         /\ \A t \in DOMAIN rent :
               /\ Filled[t].link = rent[t].link
               /\ t.type = "apartment" =>
                     Filled[t].bjd = NoBjd
                     \/ \E k \in Kapt : /\ k.bjd = Filled[t].bjd /\ k.bjd.sgg = t.sgg
                                        /\ k.dong = t.dong
<1>1. /\ DOMAIN Filled = DOMAIN rent
      /\ \A t \in DOMAIN rent : /\ Filled[t].link = rent[t].link
                                 /\ Filled[t].bjd = FilledBjd(t, rent[t].bjd)
  BY DEF Filled
<1>. QED  BY <1>1, FilledSound DEF RentRows

LEMMA RentStageInv ==
  ASSUME IInv, RentStage PROVE IInv'
<1>1. UNCHANGED <<complex, sale, batch>>
  BY DEF RentStage
<1>2. /\ DOMAIN rent' = DOMAIN rent
      /\ \A t \in DOMAIN rent :
            /\ rent'[t].bjd = Filled[t].bjd
            /\ \/ rent'[t].link = rent[t].link
               \/ /\ rent[t].link = NoComplex
                  /\ rent'[t].link \in MatchIds(t, Filled[t].bjd, complex)
  <2>1. CASE rent' = Filled
    BY <2>1, FilledRows DEF IInv
  <2>2. CASE Joined(Filled, rent', complex)
    <3>1. /\ DOMAIN rent' = DOMAIN Filled
          /\ \A t \in DOMAIN Filled :
                /\ t \notin Pending(Filled) => rent'[t] = Filled[t]
                /\ t \in Pending(Filled) =>
                      \E id \in MatchIds(t, Filled[t].bjd, complex) :
                         rent'[t] = Relink(Filled[t], id)
      BY <2>2, JoinedFrom
    <3>2. DOMAIN Filled = DOMAIN rent /\ \A t \in DOMAIN rent : Filled[t].link = rent[t].link
      BY FilledRows DEF IInv
    <3>3. \A t \in DOMAIN rent : \A id : /\ Relink(Filled[t], id).bjd = Filled[t].bjd
                                          /\ Relink(Filled[t], id).link = id
      BY DEF Relink
    <3>4. \A t \in DOMAIN rent : t \in Pending(Filled) <=> rent[t].link = NoComplex
      BY <3>2 DEF Pending
    <3>. QED  BY <3>1, <3>2, <3>3, <3>4
  <2>. QED  BY <2>1, <2>2 DEF RentStage
<1>3. RowsInv' /\ SaleRows'
  BY <1>1 DEF IInv, RowsInv, SaleRows, RowSound, OwnKey, BuildingKey
<1>4. \A t : OwnKey(t) # NoComplex
  BY PrefixKind DEF OwnKey, BuildingKey, NoComplex
<1>5. RentRows' /\ BatchInv'
  <2>1. DOMAIN rent' \subseteq Rents
    BY <1>2 DEF IInv, RentRows
  <2>2. ASSUME NEW t \in DOMAIN rent, t.type = "apartment"
        PROVE rent'[t].bjd = NoBjd
              \/ \E k \in Kapt : /\ k.bjd = rent'[t].bjd /\ k.bjd.sgg = t.sgg /\ k.dong = t.dong
    BY <1>2, <2>2, FilledRows DEF IInv
  <2>3. ASSUME NEW t \in DOMAIN rent, t.type # "apartment" PROVE rent'[t].link = OwnKey(t)
    BY <1>2, <1>4, <2>3 DEF IInv, RentRows
  <2>4. RentRows'
    BY <1>2, <2>1, <2>2, <2>3 DEF RentRows, OwnKey, BuildingKey
  <2>. QED  BY <1>1, <1>2, <2>4 DEF IInv, BatchInv, OwnKey
<1>6. ASSUME NEW t \in DOMAIN rent, rent[t].link = NoComplex, rent'[t].link # NoComplex
      PROVE RentSound(t)'
  <2>1. t \in Rents /\ t.type = "apartment"
    BY <1>4, <1>6 DEF IInv, RentRows
  <2>2. PICK c \in complex \cap Full : /\ c.id = rent'[t].link /\ ~Crossed(t.name, c.name)
                                      /\ c \in Candidates(t, Filled[t].bjd, complex)
    BY <1>2, <1>6, <2>1, MatchIdSound DEF IInv
  <2>3. c.dong = t.dong
    <3>1. CASE Filled[t].bjd = NoBjd
      BY <2>2, <3>1 DEF Candidates
    <3>2. CASE Filled[t].bjd # NoBjd
      <4>1. PICK k \in Kapt : k.bjd = Filled[t].bjd /\ k.dong = t.dong
        BY <2>1, <3>2, FilledRows DEF IInv
      <4>2. c.bjd = k.bjd /\ c \in Kapt
        BY <2>2, <3>2, <4>1, CodedRows DEF IInv, Candidates
      <4>. QED  BY <4>1, <4>2, MasterFacts
    <3>. QED  BY <3>1, <3>2
  <2>. QED  BY <1>1, <2>1, <2>2, <2>3 DEF RentSound, Crossed, Full, Ids
<1>7. ASSUME NEW t \in DOMAIN rent, rent[t].link # NoComplex PROVE RentSound(t)'
  BY <1>1, <1>2, <1>7 DEF IInv, LinksSound, RentSound, Full, Ids, OwnKey
<1>8. \A t \in DOMAIN rent : RentSound(t)'
  BY <1>6, <1>7 DEF RentSound
<1>9. LinksSound'
  BY <1>1, <1>2, <1>8 DEF IInv, LinksSound, SaleSound, Full, Ids, OwnKey
<1>. QED  BY <1>3, <1>5, <1>9 DEF IInv

LEMMA DeriveReadInv ==
  ASSUME IInv, DeriveRead PROVE IInv'
<1>1. UNCHANGED <<complex, sale, rent>>
  BY DEF DeriveRead
<1>2. ASSUME NEW b \in Orphans("sale", sale)
      PROVE /\ b.table = "sale" /\ b.trade \in DOMAIN sale /\ b.key = OwnKey(b.trade)
            /\ b.trade.type = "apartment"
  <2>1. PICK t \in Pending(sale) :
           b = [table |-> "sale", trade |-> t, key |-> BuildingKey(t, sale[t].bjd.sgg)]
    BY <1>2 DEF Orphans
  <2>2. t \in DOMAIN sale /\ sale[t].link = NoComplex /\ OwnKey(t) # NoComplex
    BY PrefixKind DEF Pending, OwnKey, BuildingKey, NoComplex
  <2>3. t.type = "apartment" /\ sale[t].bjd = t.bjd /\ t \in Sales /\ t.bjd # NoBjd
    BY <1>2, <2>1, <2>2 DEF IInv, SaleRows, Orphans, IsDerivable
  <2>. QED  BY <2>1, <2>2, <2>3, TradeFacts DEF OwnKey
<1>3. ASSUME NEW b \in Orphans("rent", rent)
      PROVE /\ b.table = "rent" /\ b.trade \in DOMAIN rent /\ b.key = OwnKey(b.trade)
            /\ b.trade.type = "apartment"
  <2>1. PICK t \in Pending(rent) :
           /\ rent[t].bjd # NoBjd
           /\ b = [table |-> "rent", trade |-> t, key |-> BuildingKey(t, rent[t].bjd.sgg)]
    BY <1>3 DEF Orphans, IsDerivable
  <2>2. t \in DOMAIN rent /\ rent[t].link = NoComplex /\ OwnKey(t) # NoComplex
    BY PrefixKind DEF Pending, OwnKey, BuildingKey, NoComplex
  <2>3. t.type = "apartment"
    BY <2>2 DEF IInv, RentRows
  <2>4. rent[t].bjd.sgg = t.sgg
    BY <2>1, <2>2, <2>3 DEF IInv, RentRows
  <2>. QED  BY <2>1, <2>2, <2>3, <2>4 DEF OwnKey
<1>4. BatchInv'
  BY <1>1, <1>2, <1>3 DEF DeriveRead, BatchInv, OwnKey, BuildingKey
<1>5. RowsInv' /\ SaleRows' /\ RentRows'
  BY <1>1 DEF IInv, RowsInv, RowSound, SaleRows, RentRows, OwnKey, BuildingKey
<1>6. LinksSound'
  BY <1>1 DEF IInv, LinksSound, SaleSound, RentSound, Full, Ids, OwnKey
<1>. QED  BY <1>4, <1>5, <1>6 DEF IInv

LEMMA LinkIfNoneRows ==
  ASSUME NEW table, NEW t \in DOMAIN table, NEW id, NEW new, new = LinkIfNone(table, t, id)
  PROVE  /\ DOMAIN new = DOMAIN table
         /\ \A u \in DOMAIN table : u # t \/ table[u].link # NoComplex => new[u] = table[u]
         /\ table[t].link = NoComplex => new[t].link = id /\ new[t].bjd = table[t].bjd
BY DEF LinkIfNone, Relink

LEMMA DeriveFlushInv ==
  ASSUME IInv, NEW b \in batch, DeriveFlush(b) PROVE IInv'
<1>. DEFINE row == Building(b.trade, b.key.sgg)
<1>1. b.trade \in Sales \cup Rents /\ b.key = OwnKey(b.trade) /\ b.trade.type = "apartment"
  BY DEF IInv, BatchInv, SaleRows, RentRows
<1>2. RowSound(row) /\ row.id = OwnKey(b.trade)
  BY <1>1, BuildingSound DEF OwnKey, BuildingKey
<1>3. complex' = Put(row) /\ batch' = batch \ {b}
  BY DEF DeriveFlush
<1>. HIDE DEF row
<1>4. RowsInv' /\ OwnKey(b.trade) \in Ids'
  BY <1>2, <1>3, PutKeeps DEF IInv
<1>5. CASE b.table = "sale"
  <2>1. sale' = LinkIfNone(sale, b.trade, b.key) /\ b.trade \in DOMAIN sale /\ UNCHANGED rent
    BY <1>5 DEF DeriveFlush, IInv, BatchInv
  <2>2. /\ DOMAIN sale' = DOMAIN sale
        /\ \A u \in DOMAIN sale : u # b.trade \/ sale[u].link # NoComplex => sale'[u] = sale[u]
        /\ sale[b.trade].link = NoComplex =>
              sale'[b.trade].link = OwnKey(b.trade) /\ sale'[b.trade].bjd = sale[b.trade].bjd
    BY <1>1, <2>1, LinkIfNoneRows
  <2>3. SaleRows' /\ RentRows' /\ BatchInv'
    BY <1>1, <1>3, <2>1, <2>2 DEF IInv, SaleRows, RentRows, BatchInv, OwnKey
  <2>4. ASSUME NEW u \in DOMAIN sale PROVE SaleSound(u)'
    <3>1. CASE u # b.trade \/ sale[u].link # NoComplex
      BY <1>2, <1>3, <2>2, <3>1, SoundStays DEF IInv, LinksSound
    <3>2. CASE u = b.trade /\ sale[u].link = NoComplex
      BY <1>4, <2>2, <3>2 DEF SaleSound, OwnKey
    <3>. QED  BY <3>1, <3>2
  <2>5. \A u \in DOMAIN rent : RentSound(u)'
    BY <1>2, <1>3, <2>1, SoundStays DEF IInv, LinksSound
  <2>. QED  BY <1>4, <2>1, <2>2, <2>3, <2>4, <2>5 DEF IInv, LinksSound
<1>6. CASE b.table # "sale"
  <2>1. rent' = LinkIfNone(rent, b.trade, b.key) /\ b.trade \in DOMAIN rent /\ UNCHANGED sale
    BY <1>6 DEF DeriveFlush, IInv, BatchInv
  <2>2. /\ DOMAIN rent' = DOMAIN rent
        /\ \A u \in DOMAIN rent : u # b.trade \/ rent[u].link # NoComplex => rent'[u] = rent[u]
        /\ rent[b.trade].link = NoComplex =>
              rent'[b.trade].link = OwnKey(b.trade) /\ rent'[b.trade].bjd = rent[b.trade].bjd
    BY <1>1, <2>1, LinkIfNoneRows
  <2>3. SaleRows' /\ RentRows' /\ BatchInv'
    BY <1>1, <1>3, <2>1, <2>2 DEF IInv, SaleRows, RentRows, BatchInv, OwnKey
  <2>4. ASSUME NEW u \in DOMAIN rent PROVE RentSound(u)'
    <3>1. CASE u # b.trade \/ rent[u].link # NoComplex
      BY <1>2, <1>3, <2>2, <3>1, SoundStays DEF IInv, LinksSound
    <3>2. CASE u = b.trade /\ rent[u].link = NoComplex
      BY <1>4, <2>2, <3>2 DEF RentSound, OwnKey
    <3>. QED  BY <3>1, <3>2
  <2>5. \A u \in DOMAIN sale : SaleSound(u)'
    BY <1>2, <1>3, <2>1, SoundStays DEF IInv, LinksSound
  <2>. QED  BY <1>4, <2>1, <2>2, <2>3, <2>4, <2>5 DEF IInv, LinksSound
<1>. QED  BY <1>5, <1>6

LEMMA QuietInv ==
  ASSUME IInv, DeriveDrop \/ UNCHANGED vars PROVE IInv'
<1>1. UNCHANGED <<complex, sale, rent>> /\ batch' \subseteq batch
  BY DEF DeriveDrop, vars
<1>. QED  BY <1>1 DEF IInv, RowsInv, RowSound, SaleRows, RentRows, BatchInv, OwnKey, BuildingKey,
                     LinksSound, SaleSound, RentSound, Full, Ids

LEMMA NextInv == IInv /\ [Next]_vars => IInv'
BY LoadComplexInv, LoadSaleInv, LoadRentInv, LoadNonaptSaleInv, LoadNonaptRentInv, JoinSalesInv,
   RentStageInv, DeriveReadInv, DeriveFlushInv, QuietInv DEF Next

-----------------------------------------------------------------------------
LEMMA InvHolds == Spec => []IInv
BY InitInv, NextInv, PTL DEF Spec

(* Whatever order loads, re-fetches, joins, the filling of codes and the   *)
(* derivation come in: no dangling link, and none to a building whose      *)
(* numbers the name of the trade crosses.                                  *)
THEOREM LinksAreSound == Spec => []LinksSound
<1>1. IInv => LinksSound
  BY DEF IInv
<1>. QED  BY <1>1, InvHolds, PTL

LEMMA LinksStickStep ==
  ASSUME IInv, [Next]_vars
  PROVE  /\ \A t \in DOMAIN sale : sale[t].link # NoComplex => sale'[t].link = sale[t].link
         /\ \A t \in DOMAIN rent : rent[t].link # NoComplex => rent'[t].link = rent[t].link
<1>1. ASSUME NEW t \in Sales, LoadSale(t) \/ LoadNonaptSale(t)
      PROVE \A u \in DOMAIN sale : sale[u].link # NoComplex => sale'[u].link = sale[u].link
  BY <1>1 DEF LoadSale, LoadNonaptSale, Upserted, Linked, IInv, SaleRows, OwnKey
<1>2. ASSUME NEW t \in Rents, LoadRent(t) \/ LoadNonaptRent(t)
      PROVE \A u \in DOMAIN rent : rent[u].link # NoComplex => rent'[u].link = rent[u].link
  BY <1>2 DEF LoadRent, LoadNonaptRent, Upserted, Linked, IInv, RentRows, OwnKey
<1>3. ASSUME JoinSales
      PROVE \A u \in DOMAIN sale : sale[u].link # NoComplex => sale'[u] = sale[u]
  BY <1>3, JoinedFrom DEF JoinSales, Pending
<1>4. ASSUME RentStage
      PROVE \A u \in DOMAIN rent : rent[u].link # NoComplex => rent'[u].link = rent[u].link
  <2>1. DOMAIN Filled = DOMAIN rent /\ \A u \in DOMAIN rent : Filled[u].link = rent[u].link
    BY FilledRows DEF IInv
  <2>2. CASE rent' = Filled
    BY <2>1, <2>2
  <2>3. CASE Joined(Filled, rent', complex)
    <3>1. \A u \in DOMAIN Filled : u \notin Pending(Filled) => rent'[u] = Filled[u]
      BY <2>3, JoinedFrom
    <3>. QED  BY <2>1, <3>1 DEF Pending
  <2>. QED  BY <1>4, <2>2, <2>3 DEF RentStage
<1>5. ASSUME NEW b \in batch, DeriveFlush(b)
      PROVE /\ \A u \in DOMAIN sale : sale[u].link # NoComplex => sale'[u] = sale[u]
            /\ \A u \in DOMAIN rent : rent[u].link # NoComplex => rent'[u] = rent[u]
  <2>1. CASE b.table = "sale"
    <3>1. sale' = LinkIfNone(sale, b.trade, b.key) /\ b.trade \in DOMAIN sale /\ UNCHANGED rent
      BY <1>5, <2>1 DEF DeriveFlush, IInv, BatchInv
    <3>2. \A u \in DOMAIN sale : u # b.trade \/ sale[u].link # NoComplex => sale'[u] = sale[u]
      BY <3>1 DEF LinkIfNone, Relink
    <3>. QED  BY <3>1, <3>2
  <2>2. CASE b.table # "sale"
    <3>1. rent' = LinkIfNone(rent, b.trade, b.key) /\ b.trade \in DOMAIN rent /\ UNCHANGED sale
      BY <1>5, <2>2 DEF DeriveFlush, IInv, BatchInv
    <3>2. \A u \in DOMAIN rent : u # b.trade \/ rent[u].link # NoComplex => rent'[u] = rent[u]
      BY <3>1 DEF LinkIfNone, Relink
    <3>. QED  BY <3>1, <3>2
  <2>. QED  BY <2>1, <2>2
<1>. QED  BY <1>1, <1>2, <1>3, <1>4, <1>5
          DEF Next, vars, LoadComplex, LoadSale, LoadRent, LoadNonaptSale, LoadNonaptRent,
              JoinSales, RentStage, DeriveRead, DeriveDrop

(* A trade keeps the first link it gets.                                   *)
THEOREM LinksAreFinal == Spec => LinksStick
<1>1. IInv /\ [Next]_vars =>
        [/\ \A t \in DOMAIN sale : sale[t].link # NoComplex => sale'[t].link = sale[t].link
         /\ \A t \in DOMAIN rent : rent[t].link # NoComplex => rent'[t].link = rent[t].link]_vars
  BY LinksStickStep
<1>. QED  BY <1>1, InvHolds, PTL DEF Spec, LinksStick

-----------------------------------------------------------------------------
(* The rows a match is chosen from decide it.                              *)

LEMMA MatchesOf ==
  ASSUME NEW t, NEW bjd, NEW rows, NEW more, Candidates(t, bjd, rows) = Candidates(t, bjd, more)
  PROVE  MatchIds(t, bjd, rows) = MatchIds(t, bjd, more)
BY DEF MatchIds, Matches

\* Derived rows have no code, so a coded trade has the master's candidates.
LEMMA MasterCandidates ==
  ASSUME RowsInv, Kapt \subseteq complex, NEW t, NEW bjd, bjd # NoBjd
  PROVE  Candidates(t, bjd, complex) = Candidates(t, bjd, Kapt)
<1>1. \A c \in complex : c.bjd = bjd => c \in Kapt
  BY CodedRows
<1>. QED  BY <1>1 DEF Candidates

RefInv == IInv /\ MatchIsReference

LEMMA ReferenceJoin ==
  ASSUME RefInv, JoinSales PROVE MatchIsReference'
<1>1. /\ DOMAIN sale' = DOMAIN sale
      /\ \A t \in DOMAIN sale :
            /\ t \notin Pending(sale) => sale'[t] = sale[t]
            /\ t \in Pending(sale) =>
                  \E id \in MatchIds(t, sale[t].bjd, complex) : sale'[t] = Relink(sale[t], id)
  BY JoinedFrom DEF JoinSales
<1>2. ASSUME NEW t \in DOMAIN sale, t \notin hurried', t.type = "apartment", t.bjd # NoBjd
      PROVE sale'[t].link \in {NoComplex, OwnKey(t)} \cup MatchIds(t, t.bjd, Kapt)
  <2>1. t \notin hurried
    BY <1>2 DEF JoinSales
  <2>2. CASE t \notin Pending(sale)
    BY <1>1, <1>2, <2>1, <2>2 DEF RefInv, MatchIsReference
  <2>3. CASE t \in Pending(sale) /\ Kapt \subseteq complex
    <3>1. t \in Sales /\ sale[t].bjd = t.bjd /\ t.bjd # NoBjd
      BY <1>2 DEF RefInv, IInv, SaleRows
    <3>2. MatchIds(t, t.bjd, complex) = MatchIds(t, t.bjd, Kapt)
      BY <2>3, <3>1, MasterCandidates, MatchesOf DEF RefInv, IInv
    <3>3. PICK id \in MatchIds(t, sale[t].bjd, complex) : sale'[t] = Relink(sale[t], id)
      BY <1>1, <2>3
    <3>. QED  BY <3>1, <3>2, <3>3 DEF Relink
  <2>4. CASE t \in Pending(sale) /\ ~(Kapt \subseteq complex)
    BY <1>2, <2>4 DEF JoinSales
  <2>. QED  BY <2>2, <2>3, <2>4
<1>. QED  BY <1>1, <1>2 DEF MatchIsReference, OwnKey

LEMMA ReferenceFlush ==
  ASSUME RefInv, NEW b \in batch, DeriveFlush(b) PROVE MatchIsReference'
<1>1. hurried' = hurried /\ b.key = OwnKey(b.trade)
  BY DEF DeriveFlush, RefInv, IInv, BatchInv
<1>2. CASE b.table = "sale"
  <2>1. sale' = LinkIfNone(sale, b.trade, b.key) /\ b.trade \in DOMAIN sale
    BY <1>2 DEF DeriveFlush, RefInv, IInv, BatchInv
  <2>2. /\ DOMAIN sale' = DOMAIN sale
        /\ \A u \in DOMAIN sale : u # b.trade \/ sale[u].link # NoComplex => sale'[u] = sale[u]
        /\ sale[b.trade].link = NoComplex => sale'[b.trade].link = b.key
    BY <2>1, LinkIfNoneRows
  <2>. QED  BY <1>1, <2>2 DEF RefInv, MatchIsReference, OwnKey
<1>3. CASE b.table # "sale"
  BY <1>1, <1>3 DEF DeriveFlush, RefInv, MatchIsReference, OwnKey
<1>. QED  BY <1>2, <1>3

LEMMA ReferenceNext == RefInv /\ [Next]_vars => RefInv'
<1>1. ASSUME RefInv, NEW t \in Sales, LoadSale(t) PROVE MatchIsReference'
  <2>1. \A u \in DOMAIN sale' : \/ (u \in DOMAIN sale /\ sale'[u].link = sale[u].link)
                               \/ sale'[u].link = NoComplex
    BY <1>1 DEF LoadSale, Upserted
  <2>. QED  BY <1>1, <2>1 DEF LoadSale, RefInv, MatchIsReference, OwnKey
<1>2. ASSUME RefInv, NEW t \in Sales, LoadNonaptSale(t) PROVE MatchIsReference'
  <2>1. \A u \in DOMAIN sale' : u = t \/ (u \in DOMAIN sale /\ sale'[u] = sale[u])
    BY <1>2 DEF LoadNonaptSale, Linked
  <2>. QED  BY <1>2, <2>1 DEF LoadNonaptSale, RefInv, MatchIsReference, OwnKey
<1>3. ASSUME RefInv, UNCHANGED <<sale, hurried>> PROVE MatchIsReference'
  BY <1>3 DEF RefInv, MatchIsReference, OwnKey
<1>4. ASSUME RefInv, Next PROVE MatchIsReference'
  BY <1>1, <1>2, <1>3, <1>4, ReferenceJoin, ReferenceFlush
     DEF Next, LoadComplex, LoadRent, LoadNonaptRent, RentStage, DeriveRead, DeriveDrop
<1>. QED  BY <1>3, <1>4, NextInv DEF RefInv, vars

(* Whatever is derived around it, a coded sale linked with the master whole *)
(* has the link the master alone gives.                                    *)
THEOREM MatchesAreReference == Spec => []MatchIsReference
<1>1. Init => RefInv
  BY InitInv DEF Init, RefInv, MatchIsReference
<1>2. RefInv => MatchIsReference
  BY DEF RefInv
<1>. QED  BY <1>1, <1>2, ReferenceNext, PTL DEF Spec

(* recall_breakdown says of every pending sale what the next join will do  *)
(* with it, whatever the rows.                                             *)
THEOREM RecallAgrees == RecallExact
<1>. SUFFICES ASSUME NEW t \in Pending(sale)
              PROVE  LET found == Matches(t, sale[t].bjd, complex)
                     IN  IF t \in RecallBreakdown(sale, complex)["jibun_recoverable"]
                         THEN found # {}
                         ELSE found = BestMatch(t.name, Candidates(t, sale[t].bjd, complex))
  BY DEF RecallExact
<1>. DEFINE bjd == sale[t].bjd
            cands == Candidates(t, bjd, complex)
            peers == JibunPeers(t, cands)
<1>1. t \in RecallBreakdown(sale, complex)["jibun_recoverable"]
      <=> RecallBucket(t, bjd, complex) = "jibun_recoverable"
  BY DEF RecallBreakdown
<1>2. RecallBucket(t, bjd, complex) = "jibun_recoverable" => JibunMatch(t, cands) # {}
  BY DEF RecallBucket
<1>3. peers = {} => JibunMatch(t, cands) = {}
  BY FS_EmptySet DEF JibunMatch, Disambiguate, SameNumbers, BestMatch
<1>4. bjd = NoBjd /\ t.dong = "" => peers = {}
  BY DEF Candidates, JibunPeers
<1>5. t.lot = NoLot => peers = {}
  BY DEF JibunPeers
<1>6. RecallBucket(t, bjd, complex) # "jibun_recoverable" => JibunMatch(t, cands) = {}
  BY <1>3, <1>4, <1>5 DEF RecallBucket
<1>. QED  BY <1>1, <1>2, <1>6 DEF Matches

-----------------------------------------------------------------------------
(* A query reads finite tables.                                            *)

Finite == IsFiniteSet(complex) /\ IsFiniteSet(DOMAIN sale) /\ IsFiniteSet(DOMAIN rent)

LEMMA FiniteNext == Finite /\ [Next]_vars => Finite'
<1>. SUFFICES ASSUME Finite, [Next]_vars PROVE Finite'
  OBVIOUS
<1>1. \A row : IsFiniteSet(Put(row))
  <2>. TAKE row
  <2>1. IsFiniteSet({c \in complex : c.id # row.id})
    BY FS_Subset DEF Finite
  <2>. QED  BY <2>1, FS_AddElement DEF Put
<1>2. \A t : IsFiniteSet(DOMAIN sale \cup {t}) /\ IsFiniteSet(DOMAIN rent \cup {t})
  BY FS_AddElement DEF Finite
<1>3. \A table, t, bjd, id : /\ DOMAIN Upserted(table, t, bjd) = DOMAIN table \cup {t}
                             /\ DOMAIN Linked(table, t, id) = DOMAIN table \cup {t}
                             /\ DOMAIN LinkIfNone(table, t, id) = DOMAIN table
  BY DEF Upserted, Linked, LinkIfNone
<1>4. \A table, new, rows : Joined(table, new, rows) => DOMAIN new = DOMAIN table
  BY DEF Joined
<1>5. DOMAIN Filled = DOMAIN rent
  BY DEF Filled
<1>6. CASE \E k \in Kapt : LoadComplex(k)
  BY <1>1, <1>6 DEF LoadComplex, Finite
<1>7. CASE \E t \in Sales : LoadSale(t) \/ LoadNonaptSale(t)
  <2>1. PICK t \in Sales : LoadSale(t) \/ LoadNonaptSale(t)
    BY <1>7
  <2>2. UNCHANGED rent /\ DOMAIN sale' = DOMAIN sale \cup {t}
    BY <2>1 DEF LoadSale, LoadNonaptSale, Upserted, Linked
  <2>3. IsFiniteSet(complex')
    BY <1>1, <2>1 DEF LoadSale, LoadNonaptSale, Finite
  <2>. QED  BY <1>2, <2>2, <2>3 DEF Finite
<1>8. CASE \E t \in Rents : LoadRent(t) \/ LoadNonaptRent(t)
  <2>1. PICK t \in Rents : LoadRent(t) \/ LoadNonaptRent(t)
    BY <1>8
  <2>2. UNCHANGED sale /\ DOMAIN rent' = DOMAIN rent \cup {t}
    BY <2>1 DEF LoadRent, LoadNonaptRent, Upserted, Linked
  <2>3. IsFiniteSet(complex')
    BY <1>1, <2>1 DEF LoadRent, LoadNonaptRent, Finite
  <2>. QED  BY <1>2, <2>2, <2>3 DEF Finite
<1>9. CASE JoinSales \/ RentStage
  BY <1>4, <1>5, <1>9 DEF JoinSales, RentStage, Finite
<1>10. CASE \E b \in batch : DeriveFlush(b)
  BY <1>1, <1>3, <1>10 DEF DeriveFlush, Finite
<1>11. CASE DeriveRead \/ DeriveDrop \/ UNCHANGED vars
  BY <1>11 DEF DeriveRead, DeriveDrop, vars, Finite
<1>. QED  BY <1>6, <1>7, <1>8, <1>9, <1>10, <1>11 DEF Next

LEMMA TablesHold == Spec => [](IInv /\ Finite)
<1>1. Init => Finite
  BY FS_EmptySet DEF Init, Finite
<1>. QED  BY <1>1, FiniteNext, InvHolds, PTL DEF Spec

-----------------------------------------------------------------------------
(* The map.                                                                *)

LEMMA MarkersAreRows ==
  ASSUME NEW s, NEW rows, IsFiniteSet(rows)
  PROVE  {m.id : m \in FetchMarkers(s, rows, Cardinality(rows))} = {c.id : c \in rows}
<1>. DEFINE n == Cardinality(rows)
            ordered == SetToSeq(rows)
<1>1. /\ n \in Nat /\ Len(ordered) = n /\ \A i \in 1..n : ordered[i] \in rows
      /\ \A c \in rows : \E i \in 1..n : ordered[i] = c
  BY SeqIs
<1>. HIDE DEF n, ordered
<1>2. Min({n, n}) = n
  <2>1. n \in Int
    BY <1>1
  <2>. QED  BY <2>1, OfTwo
<1>3. FetchMarkers(s, rows, n) = {Marker(s, ordered[i]) : i \in 1..n}
  BY <1>1, <1>2 DEF FetchMarkers, ordered
<1>4. \A c : Marker(s, c).id = c.id
  BY DEF Marker
<1>5. {m.id : m \in FetchMarkers(s, rows, n)} = {c.id : c \in rows}
  BY <1>1, <1>3, <1>4
<1>. QED  BY <1>5 DEF n

LEMMA ClustersAddUp ==
  ASSUME NEW rows, IsFiniteSet(rows), NEW admin
  PROVE  LET clusters == RegionClusters(rows, admin)
         IN  /\ Total([k \in clusters |-> k.count]) = Cardinality(rows)
             /\ \A k, l \in clusters : k.region = l.region => k = l
             /\ \A k \in clusters : k.admin = admin /\ k.zoom_to = ZoomTo(admin)
<1>. DEFINE clusters == RegionClusters(rows, admin)
            key(c) == RegionKey(admin, c)
            cluster(r) == [region |-> r, admin |-> admin, zoom_to |-> ZoomTo(admin),
                           count |-> Cardinality({c \in rows : key(c) = r})]
            home == [c \in rows |-> cluster(key(c))]
            f == [k \in clusters |-> k.count]
<1>1. clusters = {cluster(r) : r \in {key(c) : c \in rows}}
  BY DEF RegionClusters
<1>2. \A r : /\ cluster(r).region = r /\ cluster(r).admin = admin
             /\ cluster(r).zoom_to = ZoomTo(admin)
             /\ cluster(r).count = Cardinality({c \in rows : key(c) = r})
  OBVIOUS
<1>. HIDE DEF cluster, clusters, key
<1>3. home \in [rows -> clusters]
  BY <1>1
<1>4. ASSUME NEW k \in clusters
      PROVE  f[k] = Cardinality({c \in rows : home[c] = k})
  <2>1. PICK r : k = cluster(r)
    BY <1>1
  <2>2. \A c \in rows : home[c] = k <=> key(c) = r
    BY <1>2, <2>1
  <2>3. {c \in rows : home[c] = k} = {c \in rows : key(c) = r}
    BY <2>2
  <2>. QED  BY <1>2, <2>1, <2>3
<1>5. Total(f) = Cardinality(rows)
  <2>1. DOMAIN f = clusters
    OBVIOUS
  <2>. HIDE DEF f, home
  <2>. QED  BY <1>3, <1>4, <2>1, PartsAddUp
<1>6. \A k, l \in clusters : k.region = l.region => k = l
  BY <1>1, <1>2
<1>7. \A k \in clusters : k.admin = admin /\ k.zoom_to = ZoomTo(admin)
  BY <1>1, <1>2
<1>. QED  BY <1>5, <1>6, <1>7 DEF clusters

LEMMA FiniteAgree == Finite => ListMapAgree
<1>. SUFFICES ASSUME Finite, NEW s \in Queries, HasBox(s)
              PROVE  LET feed == MarkerFeed(s)
                         located == {c \in Hits(s) : Located(c)}
                     IN  IF feed.mode = "markers"
                         THEN {m.id : m \in feed.markers} = {c.id : c \in located}
                         ELSE /\ Total([k \in feed.clusters |-> k.count]) = Cardinality(located)
                              /\ \A k, l \in feed.clusters : k.region = l.region => k = l
                              /\ \A k \in feed.clusters :
                                    ZoomBand(k.zoom_to) = CASE k.admin = "sido" -> "sigungu"
                                                            [] k.admin = "sigungu" -> "dong"
                                                            [] OTHER -> "individual"
  BY DEF ListMapAgree
<1>. DEFINE feed == MarkerFeed(s)
            located == {c \in Hits(s) : Located(c)}
            band == ZoomBand(s.level)
            admin == IF band = "individual" THEN "dong" ELSE band
<1>1. located = {c \in complex : MarkerWhere(s, c)}
  <2>1. \A c : (\E t \in TradesOf(s, c) : TxnWhere(s, t)) <=> MatchingTrades(s, c) # {}
    BY DEF MatchingTrades
  <2>. QED  BY <2>1 DEF Hits, ListWhere, MarkerWhere
<1>2. IsFiniteSet(located)
  BY <1>1, FS_Subset DEF Finite
<1>3. \/ feed.mode = "markers" /\ feed.markers = FetchMarkers(s, located, Cardinality(located))
      \/ feed.mode = "clusters" /\ feed.clusters = RegionClusters(located, admin)
  <2>. HIDE DEF located
  <2>. QED  BY <1>1 DEF MarkerFeed
<1>4. admin \in {"sido", "sigungu", "dong"}
  BY DEF ZoomBand
<1>5. /\ ZoomBand(ZoomTo("sido")) = "sigungu" /\ ZoomBand(ZoomTo("sigungu")) = "dong"
      /\ ZoomBand(ZoomTo("dong")) = "individual"
  BY DEF ZoomBand, ZoomTo, LSido, LSigungu, LDong
<1>. HIDE DEF feed, located, admin
<1>6. CASE feed.mode = "markers" /\ feed.markers = FetchMarkers(s, located, Cardinality(located))
  <2>. DEFINE shown == FetchMarkers(s, located, Cardinality(located))
  <2>1. {m.id : m \in shown} = {c.id : c \in located}
    BY <1>2, MarkersAreRows
  <2>. HIDE DEF shown
  <2>2. feed.markers = shown
    BY <1>6 DEF shown
  <2>3. {m.id : m \in feed.markers} = {c.id : c \in located}
    BY <2>1, <2>2
  <2>. QED  BY <1>6, <2>3 DEF feed, located
<1>7. CASE feed.mode = "clusters" /\ feed.clusters = RegionClusters(located, admin)
  <2>. DEFINE clusters == RegionClusters(located, admin)
  <2>1. /\ Total([k \in clusters |-> k.count]) = Cardinality(located)
        /\ \A k, l \in clusters : k.region = l.region => k = l
        /\ \A k \in clusters : k.admin = admin /\ k.zoom_to = ZoomTo(admin)
    BY <1>2, ClustersAddUp
  <2>. HIDE DEF clusters
  <2>2. feed.clusters = clusters /\ feed.mode # "markers"
    BY <1>7 DEF clusters
  <2>3. \A k \in clusters : ZoomBand(k.zoom_to) = CASE k.admin = "sido" -> "sigungu"
                                                   [] k.admin = "sigungu" -> "dong"
                                                   [] OTHER -> "individual"
    BY <1>4, <1>5, <2>1
  <2>. QED  BY <2>1, <2>2, <2>3 DEF feed, located
<1>. QED  BY <1>3, <1>6, <1>7

\* ListMapAgree for every viewport: the list and the map put the same conditions
\* in WHERE, and the groups of a band part the buildings of the viewport, so the
\* counts of the clusters add up to the hits.
THEOREM ListIsMap == Spec => []ListMapAgree
BY TablesHold, FiniteAgree, PTL

-----------------------------------------------------------------------------
(* The list.                                                               *)

LEMMA TradesOfIs ==
  ASSUME IInv, Finite, NEW s, NEW c
  PROVE  /\ TradesOf(s, c) \subseteq Sales \cup Rents /\ IsFiniteSet(TradesOf(s, c))
         /\ MatchingTrades(s, c) \subseteq TradesOf(s, c) /\ IsFiniteSet(MatchingTrades(s, c))
<1>1. /\ DOMAIN TradeTable(s) \subseteq Sales \cup Rents
      /\ IsFiniteSet(DOMAIN TradeTable(s))
  BY DEF TradeTable, IInv, SaleRows, RentRows, Finite
<1>2. TradesOf(s, c) \in SUBSET DOMAIN TradeTable(s)
  BY DEF TradesOf
<1>3. IsFiniteSet(TradesOf(s, c))
  BY <1>1, <1>2, FS_Subset
<1>4. MatchingTrades(s, c) \in SUBSET TradesOf(s, c)
  BY DEF MatchingTrades
<1>5. IsFiniteSet(MatchingTrades(s, c))
  BY <1>3, <1>4, FS_Subset
<1>. QED  BY <1>1, <1>2, <1>3, <1>4, <1>5

LEMMA LatestIs ==
  ASSUME NEW trades \in SUBSET (Sales \cup Rents), IsFiniteSet(trades)
  PROVE  /\ Latest(trades) \in Nat
         /\ \A t \in trades : t.deal_date <= Latest(trades)
         /\ trades # {} => \E t \in trades : t.deal_date = Latest(trades)
<1>. DEFINE date == [t \in trades |-> t.deal_date]
            dates == {date[t] : t \in trades}
<1>1. IsFiniteSet(dates) /\ \A t \in trades : t.deal_date \in Nat
  <2>1. DOMAIN date = trades
    OBVIOUS
  <2>2. IsFiniteSet({date[t] : t \in trades})
    <3>. HIDE DEF date
    <3>. QED  BY <2>1, ImageFinite
  <2>. QED  BY <2>2, SaneFacts
<1>2. {t.deal_date : t \in trades} = dates
  OBVIOUS
<1>3. dates \subseteq Nat /\ \A d \in dates : \E t \in trades : t.deal_date = d
  BY <1>1
<1>4. \A t \in trades : t.deal_date \in dates
  OBVIOUS
<1>. HIDE DEF dates
<1>5. IsFiniteSet({0} \cup dates) /\ {0} \cup dates \in SUBSET Int
  BY <1>1, <1>3, FS_AddElement
<1>6. Max({0} \cup dates) \in {0} \cup dates /\ \A d \in {0} \cup dates : Max({0} \cup dates) >= d
  BY <1>5, MaxIs
<1>7. Latest(trades) = Max({0} \cup dates)
  BY <1>2 DEF Latest
<1>8. Latest(trades) \in Nat
  <2>1. {0} \cup dates \subseteq Nat
    BY <1>3
  <2>. QED  BY <1>6, <1>7, <2>1
<1>9. \A t \in trades : t.deal_date <= Latest(trades)
  BY <1>1, <1>4, <1>6, <1>7, <1>8
<1>10. ASSUME trades # {} PROVE \E t \in trades : t.deal_date = Latest(trades)
  <2>1. CASE Latest(trades) \in dates
    BY <1>3, <2>1
  <2>2. CASE Latest(trades) = 0
    BY <1>1, <1>9, <1>10, <2>2
  <2>. QED  BY <1>6, <1>7, <2>1, <2>2
<1>. QED  BY <1>8, <1>9, <1>10

\* The list is the first of the listed in the order of their latest trade.
LEMMA ListIs ==
  ASSUME IInv, Finite, NEW s \in Queries
  PROVE  \E n \in Nat : \E row \in [1..n -> Hits(s)] :
            /\ \A c \in Hits(s) : \E p \in 1..n : row[p] = c
            /\ \A p, q \in 1..n : p < q => row[p] # row[q]
            /\ \A p, q \in 1..n : p < q => Recent(s, row[p]) >= Recent(s, row[q])
            /\ \E m \in 0..n : SearchComplexes(s) = [p \in 1..m |-> row[p]]
<1>. DEFINE listed == SetToSeq(Hits(s))
            n == Cardinality(Hits(s))
            key == [i \in DOMAIN listed |-> Recent(s, listed[i])]
            row == SortedBy(listed, key)
            m == Min({s.limit, n})
<1>1. IsFiniteSet(Hits(s))
  BY FS_Subset DEF Hits, Finite
<1>2. n \in Nat /\ listed \in [1..n -> Hits(s)] /\ DOMAIN listed = 1..n
  BY <1>1, SeqIs
<1>3. \A i, j \in 1..n : listed[i] = listed[j] => i = j
  BY <1>1, SeqIs
<1>4. \A c \in Hits(s) : \E i \in 1..n : listed[i] = c
  BY <1>1, SeqIs
<1>5. n \in Nat
  BY <1>2
<1>6. \A i \in 1..n : listed[i] \in Hits(s)
  BY <1>2
<1>7. \A c : Recent(s, c) \in Int
  <2>. TAKE c
  <2>1. Latest(MatchingTrades(s, c)) \in Nat /\ Latest(TradesOf(s, c)) \in Nat
    BY TradesOfIs, LatestIs
  <2>. QED  BY <2>1 DEF Recent
<1>. HIDE DEF listed, n
<1>8. key \in [1..n -> Int]
  BY <1>2, <1>7
<1>9. m \in 0..n
  <2>1. Coherent(s)
    BY SaneQueries
  <2>2. s.limit \in 1..200
    BY <2>1 DEF Coherent
  <2>3. s.limit \in Int /\ n \in Int
    BY <1>5, <2>2
  <2>4. m = IF s.limit <= n THEN s.limit ELSE n
    BY <2>3, OfTwo
  <2>. QED  BY <1>5, <2>2, <2>4
<1>10. \E from : SortedFrom(from, listed, key, n)
  <2>. HIDE DEF key
  <2>. QED  BY <1>2, <1>8, Sorting
<1>11. PICK from : SortedFrom(from, listed, key, n)
  BY <1>10
<1>12. row = [p \in 1..n |-> listed[from[p]]] /\ \A p \in 1..n : from[p] \in 1..n
  <2>. HIDE DEF key
  <2>. QED  BY <1>11 DEF SortedFrom
<1>13. \A i \in 1..n : \E p \in 1..n : from[p] = i
  BY <1>11 DEF SortedFrom
<1>14. \A p, q \in 1..n : p < q => Before(key, from[p], from[q])
  <2>. HIDE DEF key
  <2>. QED  BY <1>11 DEF SortedFrom
<1>15. row \in [1..n -> Hits(s)] /\ \A c \in Hits(s) : \E p \in 1..n : row[p] = c
  <2>. HIDE DEF key, row
  <2>1. \A p \in 1..n : from[p] \in 1..n /\ row[p] = listed[from[p]] /\ listed[from[p]] \in Hits(s)
    BY <1>6, <1>12
  <2>2. row \in [1..n -> Hits(s)]
    BY <1>12, <2>1
  <2>3. ASSUME NEW c \in Hits(s) PROVE \E p \in 1..n : row[p] = c
    <3>1. PICK i \in 1..n : listed[i] = c
      BY <1>4
    <3>2. PICK p \in 1..n : from[p] = i
      BY <1>13
    <3>. QED  BY <2>1, <3>1, <3>2
  <2>. QED  BY <2>2, <2>3
<1>16. ASSUME NEW p \in 1..n, NEW q \in 1..n, p < q
      PROVE  row[p] # row[q] /\ Recent(s, row[p]) >= Recent(s, row[q])
  <2>1. Before(key, from[p], from[q]) /\ from[p] \in 1..n /\ from[q] \in 1..n
    <3>. HIDE DEF key, row
    <3>. QED  BY <1>12, <1>14, <1>16
  <2>2. row[p] = listed[from[p]] /\ row[q] = listed[from[q]]
    <3>. HIDE DEF key, row
    <3>. QED  BY <1>12
  <2>3. key[from[p]] = Recent(s, row[p]) /\ key[from[q]] = Recent(s, row[q])
    <3>. HIDE DEF row
    <3>. QED  BY <1>2, <2>1, <2>2
  <2>. HIDE DEF key, row
  <2>4. from[p] # from[q] /\ key[from[p]] >= key[from[q]]
    BY <1>8, <2>1 DEF Before
  <2>. QED  BY <1>3, <2>1, <2>2, <2>3, <2>4
<1>17. SearchComplexes(s) = [p \in 1..m |-> row[p]]
  <2>1. SearchComplexes(s) = SubSeq(row, 1, Min({s.limit, Len(listed)}))
    BY DEF SearchComplexes, listed
  <2>2. Len(listed) = n /\ DOMAIN row = 1..n
    <3>. HIDE DEF row
    <3>. QED  BY <1>2, <1>15
  <2>. HIDE DEF row, m
  <2>3. SubSeq(row, 1, m) = [p \in 1..m |-> row[p]]
    BY <1>2, <1>9, <2>2 DEF SubSeq
  <2>. QED  BY <2>1, <2>2, <2>3 DEF m
<1>. HIDE DEF row, m, key
<1>18. /\ \A p, q \in 1..n : p < q => row[p] # row[q]
       /\ \A p, q \in 1..n : p < q => Recent(s, row[p]) >= Recent(s, row[q])
  BY <1>16
<1>19. \E k \in 0..n : SearchComplexes(s) = [p \in 1..k |-> row[p]]
  BY <1>9, <1>17
<1>. QED  BY <1>5, <1>15, <1>18, <1>19

LEMMA TablesRecent == IInv /\ Finite => MostRecent
<1>. SUFFICES ASSUME IInv, Finite, NEW s \in Queries, s.deal = "sale" \/ HasTxnFilters(s)
              PROVE  LET shown == SearchComplexes(s)
                         cut == Hits(s) \ Range(shown)
                         last(c) == Latest(MatchingTrades(s, c))
                     IN  /\ \A i, j \in DOMAIN shown :
                               i < j => last(shown[i]) >= last(shown[j])
                         /\ \A i \in DOMAIN shown, c \in cut : last(shown[i]) >= last(c)
  BY DEF MostRecent, LatestFirst
<1>. DEFINE shown == SearchComplexes(s)
            cut == Hits(s) \ Range(shown)
            last(c) == Latest(MatchingTrades(s, c))
<1>1. \A c : last(c) = Recent(s, c)
  <2>1. CASE HasTxnFilters(s)
    BY <2>1 DEF Recent
  <2>2. CASE ~HasTxnFilters(s) /\ s.deal = "sale"
    <3>1. \A t : TxnWhere(s, t)
      BY <2>2 DEF HasTxnFilters, TxnWhere
    <3>2. \A c : MatchingTrades(s, c) = TradesOf(s, c)
      BY <3>1 DEF MatchingTrades
    <3>. QED  BY <2>2, <3>2 DEF Recent
  <2>. QED  BY <2>1, <2>2
<1>2. PICK n \in Nat : \E row \in [1..n -> Hits(s)] :
         /\ \A c \in Hits(s) : \E p \in 1..n : row[p] = c
         /\ \A p, q \in 1..n : p < q => row[p] # row[q]
         /\ \A p, q \in 1..n : p < q => Recent(s, row[p]) >= Recent(s, row[q])
         /\ \E m \in 0..n : SearchComplexes(s) = [p \in 1..m |-> row[p]]
  BY ListIs
<1>3. PICK row \in [1..n -> Hits(s)] :
         /\ \A c \in Hits(s) : \E p \in 1..n : row[p] = c
         /\ \A p, q \in 1..n : p < q => Recent(s, row[p]) >= Recent(s, row[q])
         /\ \E m \in 0..n : SearchComplexes(s) = [p \in 1..m |-> row[p]]
  BY <1>2
<1>4. PICK m \in 0..n : shown = [p \in 1..m |-> row[p]]
  BY <1>3
<1>. HIDE DEF shown, last
<1>5. /\ DOMAIN shown = 1..m /\ \A i \in 1..m : shown[i] = row[i] /\ i \in 1..n
  BY <1>4
<1>6. \A i, j \in DOMAIN shown : i < j => last(shown[i]) >= last(shown[j])
  BY <1>1, <1>3, <1>5
<1>7. ASSUME NEW i \in DOMAIN shown, NEW c \in cut PROVE last(shown[i]) >= last(c)
  <2>1. PICK q \in 1..n : row[q] = c
    BY <1>3
  <2>2. q \notin 1..m
    BY <1>5, <2>1 DEF Range
  <2>3. i < q
    BY <1>5, <2>2
  <2>. QED  BY <1>1, <1>3, <1>5, <2>1, <2>3
<1>. QED  BY <1>6, <1>7 DEF shown, last

\* MostRecent for every limit: what is cut comes after what is shown in the order
\* of the latest trades, which for these queries are the matching ones.
THEOREM ListIsMostRecent == Spec => []MostRecent
BY TablesHold, TablesRecent, PTL

-----------------------------------------------------------------------------
(* Scores.                                                                 *)

LEMMA SaneFactsOf == \A c : FactSane(FactsOf(c))
BY SaneFacts DEF FactsOf

LEMMA PrimaryIs ==
  ASSUME NEW facts, IsFiniteSet(facts), facts # {}, \A f \in facts : f.conf \in 0..100
  PROVE  Primary(facts) \in facts
<1>. DEFINE conf == [f \in facts |-> f.conf]
            confs == {conf[f] : f \in facts}
<1>1. IsFiniteSet(confs)
  <2>1. DOMAIN conf = facts
    OBVIOUS
  <2>. HIDE DEF conf
  <2>. QED  BY <2>1, ImageFinite
<1>2. confs \in SUBSET Int /\ confs # {}
  OBVIOUS
<1>3. Max(confs) \in confs /\ \A n \in confs : Max(confs) >= n
  <2>. HIDE DEF confs
  <2>. QED  BY <1>1, <1>2, MaxIs
<1>4. PICK f \in facts : f.conf = Max(confs)
  BY <1>3
<1>5. \A g \in facts : g.conf <= f.conf
  BY <1>3, <1>4
<1>. QED  BY <1>4, <1>5 DEF Primary

LEMMA KeysApart ==
  LET tables == DOMAIN NumericCap \cup DOMAIN CountCap \cup DOMAIN DistCap
  IN  {"gym", "pet", "has_daycare", "subway_time", "approval_year"} \cap tables = {}
BY DEF NumericCap, CountCap, DistCap

\* A gym some source has seen scores above, one no source has seen at most, Neutral.
LEMMA GymScore ==
  ASSUME NEW c
  PROVE  LET seen == \E f \in FactsOf(c).gym : f.state = "yes"
         IN  /\ Score("gym", c) \in Int
             /\ seen => Score("gym", c) >= 600
             /\ ~seen => Score("gym", c) <= Neutral
<1>. DEFINE facts == FactsOf(c).gym
            yes == {f \in facts : f.state = "yes"}
            top == Primary(yes).conf
            made == SynthesizeGym(facts)
<1>1. /\ IsFiniteSet(facts) /\ \A f \in facts : f.conf \in 0..100
      /\ \A f \in facts : f.state \in {"yes", "no", "unknown"}
  BY SaneFactsOf DEF FactSane
<1>2. yes \subseteq facts /\ IsFiniteSet(yes)
  BY <1>1, FS_Subset
<1>3. Score("gym", c) = IF made.state = "none" THEN Neutral ELSE StateSignal(made)
  BY KeysApart DEF Score, HasData
<1>4. CASE facts = {}
  <2>1. made.state = "none"
    BY <1>4 DEF SynthesizeGym, NoFact
  <2>. QED  BY <1>3, <1>4, <2>1 DEF Neutral
<1>5. CASE facts # {} /\ yes = {}
  <2>1. made = [state |-> Primary(facts).state, conf |-> Primary(facts).conf]
    BY <1>5 DEF SynthesizeGym
  <2>2. Primary(facts) \in facts
    BY <1>1, <1>5, PrimaryIs
  <2>3. made.state \in {"no", "unknown"}
    BY <1>1, <1>5, <2>1, <2>2
  <2>4. StateSignal(made) \in {100, 300}
    BY <2>3 DEF StateSignal, Neutral
  <2>5. ~\E f \in FactsOf(c).gym : f.state = "yes"
    BY <1>5
  <2>. HIDE DEF made
  <2>. QED  BY <1>3, <2>3, <2>4, <2>5 DEF Neutral
<1>6. CASE yes # {}
  <2>1. top \in 0..100
    <3>1. Primary(yes) \in yes
      BY <1>1, <1>2, <1>6, PrimaryIs
    <3>. QED  BY <1>1, <3>1
  <2>2. made.state = "yes" /\ (made.conf = top \/ made.conf = Min({97, top + 5}))
    BY <1>2, <1>6 DEF SynthesizeGym
  <2>. HIDE DEF top, made
  <2>3. Min({97, top + 5}) = IF 97 <= top + 5 THEN 97 ELSE top + 5
    <3>1. 97 \in Int /\ top + 5 \in Int
      BY <2>1
    <3>. QED  BY <3>1, OfTwo
  <2>4. made.conf \in 0..105
    BY <2>1, <2>2, <2>3
  <2>5. StateSignal(made) = 600 + 4 * made.conf
    BY <2>2 DEF StateSignal
  <2>6. \E f \in FactsOf(c).gym : f.state = "yes"
    BY <1>6
  <2>. QED  BY <1>3, <2>2, <2>4, <2>5, <2>6
<1>. QED  BY <1>4, <1>5, <1>6

LEMMA SignalIs ==
  ASSUME NEW v \in Int, NEW cap \in Nat \ {0}
  PROVE  NumericSignal(v, cap) \in Int /\ DistSignal(v, cap) \in Int
<1>1. Min({cap, v}) \in Int
  <2>1. cap \in Int
    OBVIOUS
  <2>2. Min({cap, v}) = IF cap <= v THEN cap ELSE v
    BY <2>1, OfTwo
  <2>. QED  BY <2>1, <2>2
<1>2. \A x \in Int : x \div cap \in Int
  OBVIOUS
<1>3. 900 * Min({cap, v}) \in Int /\ 900 * (cap - Min({cap, v})) \in Int
  BY <1>1
<1>4. (900 * Min({cap, v})) \div cap \in Int /\ (900 * (cap - Min({cap, v}))) \div cap \in Int
  BY <1>2, <1>3
<1>. QED  BY <1>4 DEF NumericSignal, DistSignal

LEMMA PetScore == \A c : Score("pet", c) \in Int
<1>. SUFFICES ASSUME NEW c PROVE Score("pet", c) \in Int
  OBVIOUS
<1>. DEFINE f == FactsOf(c)
            facts == IF f.pet # {} THEN f.pet ELSE f.pet_allowed
            made == SynthesizePet(f)
<1>1. IsFiniteSet(facts) /\ \A g \in facts : g.conf \in 0..100
  BY SaneFactsOf DEF FactSane
<1>2. made = Synthesize(facts)
  BY DEF SynthesizePet
<1>3. Score("pet", c) = IF made.state = "none" THEN Neutral ELSE StateSignal(made)
  BY KeysApart DEF Score, HasData
<1>. HIDE DEF f, facts
<1>4. made.conf \in Int
  <2>1. CASE facts = {}
    BY <1>2, <2>1 DEF Synthesize, NoFact
  <2>2. CASE facts # {}
    BY <1>1, <1>2, <2>2, PrimaryIs DEF Synthesize
  <2>. QED  BY <2>1, <2>2
<1>. HIDE DEF made
<1>5. StateSignal(made) \in Int
  BY <1>4 DEF StateSignal, Neutral
<1>. QED  BY <1>3, <1>5 DEF Neutral

LEMMA CapsAre ==
  /\ \A key \in DOMAIN NumericCap : NumericCap[key] \in Nat \ {0}
  /\ \A key \in DOMAIN CountCap : CountCap[key] \in Nat \ {0}
  /\ \A key \in DOMAIN DistCap : DistCap[key] \in Nat \ {0}
BY DEF NumericCap, CountCap, DistCap

LEMMA ScoreIs ==
  ASSUME NEW c, NEW key \in SoftAble
  PROVE  Score(key, c) \in Int
<1>. DEFINE f == FactsOf(c)
<1>1. CASE ~HasData(key, c)
  BY <1>1 DEF Score, Neutral
<1>2. CASE key \in {"gym", "pet"}
  BY <1>2, GymScore, PetScore
<1>3. CASE HasData(key, c) /\ key \in DOMAIN CountCap \cup DOMAIN DistCap
  <2>1. key \notin {"gym", "pet", "has_daycare", "subway_time", "approval_year"} \cup DOMAIN NumericCap
    BY <1>3 DEF CountCap, DistCap, NumericCap
  <2>2. key \in DOMAIN f.near
    BY <1>3, <2>1 DEF HasData
  <2>3. f.near[key].dist \in Int /\ f.near[key].count \in Int
    BY <2>2, SaneFactsOf DEF FactSane
  <2>4. CASE key \in DOMAIN CountCap
    BY <1>3, <2>1, <2>3, <2>4, CapsAre, SignalIs DEF Score
  <2>5. CASE key \notin DOMAIN CountCap
    BY <1>3, <2>1, <2>3, <2>5, CapsAre, SignalIs DEF Score
  <2>. QED  BY <2>4, <2>5
<1>4. CASE /\ HasData(key, c) /\ key \notin {"gym", "pet"}
           /\ key \notin DOMAIN CountCap \cup DOMAIN DistCap
  <2>1. f.attr[key] \in Int
    BY <1>4, SaneFactsOf DEF FactSane, HasData
  <2>2. CASE key = "has_daycare"
    BY <1>4, <2>2, KeysApart DEF Score
  <2>3. CASE key = "subway_time"
    BY <1>4, <2>1, <2>3, KeysApart DEF Score
  <2>4. CASE key = "approval_year"
    <3>1. Max({1980, f.attr[key]}) - 1980 \in Int
      BY <2>1, OfTwo
    <3>2. NumericSignal(Max({1980, f.attr[key]}) - 1980, 45) \in Int
      BY <3>1, SignalIs
    <3>. QED  BY <1>4, <2>4, <3>2, KeysApart DEF Score
  <2>5. CASE key \in DOMAIN NumericCap
    <3>1. key \notin {"gym", "pet", "has_daycare", "subway_time", "approval_year"}
      BY <2>5 DEF NumericCap
    <3>. QED  BY <1>4, <2>1, <2>5, <3>1, CapsAre, SignalIs DEF Score
  <2>. QED  BY <1>4, <2>2, <2>3, <2>4, <2>5 DEF SoftAble
<1>. QED  BY <1>1, <1>2, <1>3, <1>4

-----------------------------------------------------------------------------
(* The ranking.                                                            *)

LEMMA CriteriaAre ==
  ASSUME NEW s \in Queries
  PROVE  LET crit == Criteria(s.soft)
         IN  /\ crit \in Seq(SoftAble \X Nat)
             /\ Len(crit) \in Nat /\ DOMAIN crit = 1..Len(crit)
             /\ \A i \in 1..Len(crit) : crit[i][1] \in SoftAble /\ crit[i][2] \in Nat
<1>. DEFINE prefs == <<<<"gym", PrefWeight[s.soft.gym]>>, <<"pet", PrefWeight[s.soft.pet]>>>>
<1>1. Coherent(s)
  BY SaneQueries
<1>2. s.soft.criteria \in Seq(SoftAble \X Nat)
  BY <1>1 DEF Coherent
<1>3. PrefWeight[s.soft.gym] \in Nat /\ PrefWeight[s.soft.pet] \in Nat
  BY <1>1 DEF Coherent, PrefWeight
<1>4. "gym" \in SoftAble /\ "pet" \in SoftAble
  BY DEF SoftAble
<1>5. prefs \in Seq(SoftAble \X Nat)
  BY <1>3, <1>4
<1>. HIDE DEF prefs
<1>6. prefs \o s.soft.criteria \in Seq(SoftAble \X Nat)
  BY <1>2, <1>5
<1>7. Criteria(s.soft) = prefs \o s.soft.criteria
  BY DEF Criteria, prefs
<1>8. Criteria(s.soft) \in Seq(SoftAble \X Nat)
  BY <1>6, <1>7
<1>. QED  BY <1>8

LEMMA WeightsCount ==
  ASSUME NEW s \in Queries, NEW i \in ActiveCriteria(s.soft)
  PROVE  Weight(s.soft, Criteria(s.soft)[i][1]) \in Nat \ {0}
<1>. DEFINE crit == Criteria(s.soft)
            n == Len(crit)
            key == crit[i][1]
            share == [j \in 1..n |-> IF crit[j][1] = key THEN crit[j][2] ELSE 0]
            zero == [j \in 1..n |-> 0]
<1>1. /\ n \in Nat /\ DOMAIN crit = 1..n
      /\ \A j \in 1..n : crit[j][1] \in SoftAble /\ crit[j][2] \in Nat
  BY CriteriaAre
<1>2. i \in 1..n /\ crit[i][2] > 0
  BY <1>1 DEF ActiveCriteria
<1>3. Weight(s.soft, key) = SumOf(share)
  BY <1>1 DEF Weight
<1>. HIDE DEF crit, n, key
<1>4. share \in [1..n -> Int] /\ zero \in [1..n -> Int]
  BY <1>1
<1>5. (\A j \in 1..n : zero[j] <= share[j]) /\ zero[i] < share[i]
  BY <1>1, <1>2 DEF key
<1>. HIDE DEF share, zero
<1>6. SumOf(zero) < SumOf(share)
  BY <1>1, <1>2, <1>4, <1>5, SumLess
<1>7. SumOf(zero) = 0 /\ SumOf(share) \in Int
  <2>1. PICK sum \in [0..n -> Int] :
           /\ sum[0] = 0 /\ \A m \in 0..(n - 1) : sum[m + 1] = sum[m] + zero[m + 1]
           /\ SumOf(zero) = sum[n]
    BY <1>1, <1>4, SumIs
  <2>. DEFINE Good == {m \in Nat : m <= n => sum[m] = 0}
  <2>2. ASSUME NEW m \in Nat, m < n, m \in Good PROVE m + 1 \in Good
    <3>1. m \in 0..(n - 1) /\ m + 1 \in 1..n /\ m + 1 \in Nat /\ m <= n
      BY <1>1, <2>2
    <3>2. sum[m] = 0
      BY <2>2, <3>1
    <3>3. sum[m + 1] = 0 + 0
      BY <2>1, <3>1, <3>2 DEF zero
    <3>. QED  BY <3>1, <3>3
  <2>3. 0 \in Good
    BY <2>1
  <2>. HIDE DEF Good
  <2>4. n \in Good
    BY <1>1, <2>2, <2>3, CountUp
  <2>5. SumOf(zero) = 0
    BY <1>1, <2>1, <2>4 DEF Good
  <2>6. \E h \in [0..n -> Int] : SumOf(share) = h[n]
    BY <1>1, <1>4, SumIs
  <2>7. n \in 0..n
    BY <1>1
  <2>. QED  BY <2>5, <2>6, <2>7
<1>8. SumOf(share) \in Nat \ {0}
  BY <1>6, <1>7
<1>. QED  BY <1>3, <1>8 DEF key, crit

\* A building that scores less in every active criterion has the lesser sum.
LEMMA SumsCompare ==
  ASSUME NEW s \in Queries, ActiveCriteria(s.soft) # {}, NEW c, NEW d
  PROVE  /\ WeightedSum(s.soft, c) \in Int
         /\ (\A i \in ActiveCriteria(s.soft) :
                Score(Criteria(s.soft)[i][1], c) < Score(Criteria(s.soft)[i][1], d))
            => WeightedSum(s.soft, c) < WeightedSum(s.soft, d)
<1>. DEFINE crit == Criteria(s.soft)
            active == ActiveCriteria(s.soft)
            n == Len(crit)
            weight == [i \in 1..n |-> Weight(s.soft, crit[i][1])]
            score(x) == [i \in 1..n |-> Score(crit[i][1], x)]
            terms(x) == [i \in 1..n |-> IF i \in active THEN weight[i] * score(x)[i] ELSE 0]
<1>1. /\ n \in Nat /\ DOMAIN crit = 1..n
      /\ \A j \in 1..n : crit[j][1] \in SoftAble
  BY CriteriaAre
<1>2. active \subseteq 1..n
  BY <1>1 DEF ActiveCriteria
<1>3. \A i \in active : weight[i] \in Nat \ {0}
  BY <1>2, WeightsCount
<1>4. \A x : \A i \in 1..n : score(x)[i] \in Int
  BY <1>1, ScoreIs
<1>5. \A x : WeightedSum(s.soft, x) = SumOf(terms(x))
  <2>. TAKE x
  <2>1. terms(x) = [i \in DOMAIN crit |->
                       IF i \in active THEN Weight(s.soft, crit[i][1]) * Score(crit[i][1], x) ELSE 0]
    BY <1>1
  <2>. QED  BY <2>1 DEF WeightedSum
<1>. DEFINE a == score(c)
            b == score(d)
<1>. HIDE DEF crit, active, n, weight
<1>6. \A x : terms(x) \in [1..n -> Int]
  <2>. TAKE x
  <2>. DEFINE v == score(x)
  <2>1. \A i \in 1..n : v[i] \in Int
    BY <1>4
  <2>. HIDE DEF v
  <2>2. \A i \in active : weight[i] * v[i] \in Int
    BY <1>2, <1>3, <2>1
  <2>3. terms(x) = [i \in 1..n |-> IF i \in active THEN weight[i] * v[i] ELSE 0]
    BY DEF v
  <2>. QED  BY <2>2, <2>3
<1>7. ASSUME NEW x PROVE SumOf(terms(x)) \in Int
  <2>. DEFINE t == terms(x)
  <2>1. t \in [1..n -> Int]
    BY <1>6
  <2>. HIDE DEF t
  <2>2. \E h \in [0..n -> Int] : SumOf(t) = h[n]
    BY <1>1, <2>1, SumIs
  <2>3. n \in 0..n
    BY <1>1
  <2>. QED  BY <2>2, <2>3 DEF t
<1>8. ASSUME \A i \in active : a[i] < b[i]
      PROVE  SumOf(terms(c)) < SumOf(terms(d))
  <2>. DEFINE t == terms(c)
              u == terms(d)
  <2>1. t \in [1..n -> Int] /\ u \in [1..n -> Int]
    BY <1>6
  <2>2. ASSUME NEW i \in active PROVE t[i] < u[i]
    <3>1. weight[i] \in Nat \ {0} /\ a[i] \in Int /\ b[i] \in Int /\ a[i] < b[i] /\ i \in 1..n
      BY <1>2, <1>3, <1>4, <1>8
    <3>2. t[i] = weight[i] * a[i] /\ u[i] = weight[i] * b[i]
      BY <3>1
    <3>. HIDE DEF a, b, t, u
    <3>3. weight[i] * a[i] < weight[i] * b[i]
      BY <3>1
    <3>. QED  BY <3>2, <3>3
  <2>3. ASSUME NEW i \in 1..n, i \notin active PROVE t[i] = 0 /\ u[i] = 0
    BY <2>3
  <2>. HIDE DEF t, u
  <2>4. \A i \in 1..n : t[i] <= u[i]
    BY <2>1, <2>2, <2>3
  <2>5. PICK j \in active : TRUE
    BY DEF active
  <2>6. SumOf(t) < SumOf(u)
    BY <1>1, <1>2, <2>1, <2>2, <2>4, <2>5, SumLess
  <2>. QED  BY <2>6 DEF t, u
<1>9. \A i \in active : a[i] = Score(crit[i][1], c) /\ b[i] = Score(crit[i][1], d)
  BY <1>2
<1>10. WeightedSum(s.soft, c) \in Int
  BY <1>5, <1>7
<1>11. ASSUME \A i \in active : Score(crit[i][1], c) < Score(crit[i][1], d)
       PROVE  WeightedSum(s.soft, c) < WeightedSum(s.soft, d)
  <2>1. \A i \in active : a[i] < b[i]
    BY <1>9, <1>11
  <2>2. SumOf(terms(c)) < SumOf(terms(d))
    BY <1>8, <2>1
  <2>. QED  BY <1>5, <2>2
<1>. QED  BY <1>10, <1>11 DEF active, crit

LEMMA RankedIs ==
  ASSUME NEW s \in Queries, ActiveCriteria(s.soft) # {}, NEW m \in Nat,
         NEW rows, DOMAIN rows = 1..m
  PROVE  LET after == RankCandidates(rows, s.soft)
         IN  /\ DOMAIN after = 1..m /\ Len(after) = m /\ Range(after) = Range(rows)
             /\ \A i, j \in 1..m :
                   i < j => WeightedSum(s.soft, after[i]) >= WeightedSum(s.soft, after[j])
<1>. DEFINE key == [i \in DOMAIN rows |-> WeightedSum(s.soft, rows[i])]
            after == SortedBy(rows, key)
<1>1. key \in [1..m -> Int]
  BY SumsCompare
<1>2. \A i \in 1..m : key[i] = WeightedSum(s.soft, rows[i])
  OBVIOUS
<1>3. RankCandidates(rows, s.soft) = after
  BY DEF RankCandidates
<1>. HIDE DEF key
<1>4. PICK from : SortedFrom(from, rows, key, m)
  BY <1>1, Sorting
<1>5. from \in [1..m -> 1..m] /\ after = [p \in 1..m |-> rows[from[p]]]
  BY <1>4 DEF SortedFrom
<1>6. \A i \in 1..m : \E p \in 1..m : from[p] = i
  BY <1>4 DEF SortedFrom
<1>7. \A p, q \in 1..m : p < q => Before(key, from[p], from[q])
  BY <1>4 DEF SortedFrom
<1>. HIDE DEF after
<1>8. DOMAIN after = 1..m /\ \A p \in 1..m : from[p] \in 1..m /\ after[p] = rows[from[p]]
  BY <1>5
<1>9. after = [p \in 1..m |-> after[p]]
  BY <1>5
<1>10. Len(after) = m
  BY <1>9
<1>11. Range(after) = Range(rows)
  <2>1. ASSUME NEW x \in Range(rows) PROVE x \in Range(after)
    <3>1. PICK i \in 1..m : x = rows[i]
      BY <2>1 DEF Range
    <3>2. PICK p \in 1..m : from[p] = i
      BY <1>6
    <3>. QED  BY <1>8, <3>1, <3>2 DEF Range
  <2>2. ASSUME NEW x \in Range(after) PROVE x \in Range(rows)
    BY <1>8, <2>2 DEF Range
  <2>. QED  BY <2>1, <2>2
<1>12. ASSUME NEW i \in 1..m, NEW j \in 1..m, i < j
       PROVE  WeightedSum(s.soft, after[i]) >= WeightedSum(s.soft, after[j])
  <2>1. from[i] \in 1..m /\ from[j] \in 1..m /\ Before(key, from[i], from[j])
    BY <1>7, <1>8, <1>12
  <2>2. key[from[i]] >= key[from[j]]
    BY <1>1, <2>1 DEF Before
  <2>. QED  BY <1>2, <1>8, <2>1, <2>2
<1>. QED  BY <1>3, <1>8, <1>10, <1>11, <1>12

LEMMA TablesDemote == IInv /\ Finite => DemoteNotExclude
<1>. SUFFICES ASSUME IInv, Finite, NEW s \in Queries
              PROVE  LET before == SearchComplexes(s)
                         after == RunSearch(s)
                         keys == {Criteria(s.soft)[i][1] : i \in ActiveCriteria(s.soft)}
                         unknown(c) == \A k \in keys : Status(k, c) = "unknown"
                         missed(c) == \A k \in keys : Status(k, c) = "miss" /\ Score(k, c) < Neutral
                         seen(c) == \E f \in FactsOf(c).gym : f.state = "yes"
                     IN  /\ Len(after) = Len(before) /\ Range(after) = Range(before)
                         /\ keys # {} => \A i, j \in DOMAIN after :
                               i < j => /\ ~(missed(after[i]) /\ unknown(after[j]))
                                        /\ keys = {"gym"} /\ seen(after[j]) => seen(after[i])
  BY DEF DemoteNotExclude, DemotedOnly
<1>. DEFINE before == SearchComplexes(s)
            after == RunSearch(s)
            active == ActiveCriteria(s.soft)
            key(i) == Criteria(s.soft)[i][1]
            keys == {key(i) : i \in active}
            unknown(c) == \A k \in keys : Status(k, c) = "unknown"
            missed(c) == \A k \in keys : Status(k, c) = "miss" /\ Score(k, c) < Neutral
            seen(c) == \E f \in FactsOf(c).gym : f.state = "yes"
            sum(c) == WeightedSum(s.soft, c)
<1>1. PICK m \in Nat : DOMAIN before = 1..m /\ before = [p \in 1..m |-> before[p]]
  BY ListIs
<1>2. Len(before) = m
  BY <1>1
<1>3. CASE active = {}
  <2>1. after = before
    BY <1>3 DEF RunSearch, RankCandidates
  <2>. QED  BY <1>3, <2>1
<1>4. CASE active # {}
  <2>1. /\ DOMAIN after = 1..m /\ Len(after) = m /\ Range(after) = Range(before)
        /\ \A i, j \in 1..m : i < j => sum(after[i]) >= sum(after[j])
    BY <1>1, <1>4, RankedIs DEF RunSearch
  <2>. HIDE DEF after, before
  <2>2. \A c, d : /\ sum(c) \in Int /\ sum(d) \in Int
                  /\ (\A i \in active : Score(key(i), c) < Score(key(i), d)) => sum(c) < sum(d)
    BY <1>4, SumsCompare
  <2>. HIDE DEF active, sum
  <2>3. ASSUME NEW i \in 1..m, NEW j \in 1..m, i < j, missed(after[i]), unknown(after[j])
        PROVE  FALSE
    <3>1. ASSUME NEW n \in active PROVE Score(key(n), after[i]) < Score(key(n), after[j])
      <4>1. Score(key(n), after[i]) < Neutral
        BY <2>3
      <4>2. Status(key(n), after[j]) = "unknown"
        BY <2>3
      <4>3. Score(key(n), after[j]) = Neutral
        BY <4>2 DEF Status, Score
      <4>. QED  BY <4>1, <4>3
    <3>2. sum(after[i]) < sum(after[j])
      BY <2>2, <3>1
    <3>. QED  BY <2>1, <2>2, <2>3, <3>2
  <2>4. ASSUME NEW i \in 1..m, NEW j \in 1..m, i < j, keys = {"gym"}, seen(after[j]), ~seen(after[i])
        PROVE  FALSE
    <3>1. Score("gym", after[i]) < Score("gym", after[j])
      <4>1. Score("gym", after[j]) \in Int /\ Score("gym", after[j]) >= 600
        BY <2>4, GymScore
      <4>2. Score("gym", after[i]) \in Int /\ Score("gym", after[i]) <= 300
        BY <2>4, GymScore DEF Neutral
      <4>. QED  BY <4>1, <4>2
    <3>2. \A n \in active : key(n) = "gym"
      BY <2>4
    <3>3. sum(after[i]) < sum(after[j])
      BY <2>2, <3>1, <3>2
    <3>. QED  BY <2>1, <2>2, <2>4, <3>3
  <2>. HIDE DEF unknown, missed, seen, keys
  <2>5. \A i, j \in DOMAIN after :
           i < j => /\ ~(missed(after[i]) /\ unknown(after[j]))
                    /\ keys = {"gym"} /\ seen(after[j]) => seen(after[i])
    BY <2>1, <2>3, <2>4
  <2>. QED  BY <1>2, <2>1, <2>5 DEF unknown, missed, seen, keys, active, after, before
<1>. QED  BY <1>3, <1>4

\* DemoteNotExclude for every SoftSpec: ranking permutes the rows, and a building
\* that scores less in every active criterion has the lesser weighted sum.
THEOREM UnknownIsNotExcluded == Spec => []DemoteNotExclude
BY TablesHold, TablesDemote, PTL

-----------------------------------------------------------------------------
(* The catalog of unit types.                                              *)

LEMMA MostIs ==
  ASSUME NEW D, IsFiniteSet(D), D # {}, NEW size \in [D -> Int]
  PROVE  MostOf(size) \subseteq D /\ MostOf(size) # {}
<1>. DEFINE sizes == {size[a] : a \in D}
<1>1. IsFiniteSet(sizes) /\ sizes \in SUBSET Int /\ sizes # {}
  BY ImageFinite
<1>2. Max(sizes) \in sizes /\ \A n \in sizes : Max(sizes) >= n
  <2>. HIDE DEF sizes
  <2>. QED  BY <1>1, MaxIs
<1>3. PICK a \in D : size[a] = Max(sizes)
  BY <1>2
<1>4. \A b \in D : size[b] <= size[a]
  BY <1>2, <1>3
<1>. QED  BY <1>4 DEF MostOf

\* Every area is in a bucket, and the one that opens a bucket in its own.
LEMMA BucketsApart ==
  ASSUME NEW areas \in SUBSET Nat, IsFiniteSet(areas)
  PROVE  /\ Opens(areas) \subseteq areas
         /\ \A a \in areas : BucketOf(a, areas) \in Opens(areas)
         /\ \A o \in Opens(areas) : BucketOf(o, areas) = o
<1>1. Opens(areas) \in SUBSET areas /\ IsFiniteSet(Opens(areas))
  BY FS_Subset DEF Opens
<1>2. \A a \in areas : a \in Nat /\ a \in Int
  OBVIOUS
<1>3. ASSUME NEW a \in areas PROVE \E o \in Opens(areas) : o <= a
  <2>. DEFINE low == Min(areas)
  <2>1. areas \in SUBSET Int /\ areas # {}
    BY <1>3
  <2>2. low \in areas /\ \A b \in areas : low <= b
    BY <2>1, MinIs
  <2>. HIDE DEF low
  <2>3. \A b \in areas : ~(b < low)
    BY <1>2, <2>2
  <2>4. low \in Opens(areas)
    BY <2>2, <2>3 DEF Opens
  <2>. QED  BY <2>2, <2>4
<1>4. ASSUME NEW a \in areas
      PROVE  LET upto == {o \in Opens(areas) : o <= a}
             IN  BucketOf(a, areas) \in upto /\ \A o \in upto : BucketOf(a, areas) >= o
  <2>. DEFINE upto == {o \in Opens(areas) : o <= a}
  <2>1. upto # {}
    BY <1>3
  <2>2. upto \in SUBSET Opens(areas)
    OBVIOUS
  <2>3. BucketOf(a, areas) = Max(upto)
    BY DEF BucketOf
  <2>. HIDE DEF upto
  <2>4. upto \in SUBSET Int
    BY <1>1, <1>2, <2>2
  <2>5. IsFiniteSet(upto)
    BY <1>1, <2>2, FS_Subset
  <2>6. Max(upto) \in upto /\ \A o \in upto : Max(upto) >= o
    BY <2>1, <2>4, <2>5, MaxIs
  <2>. QED  BY <2>3, <2>6 DEF upto
<1>5. ASSUME NEW o \in Opens(areas) PROVE BucketOf(o, areas) = o
  <2>1. o \in areas /\ o \in Nat
    BY <1>1
  <2>2. BucketOf(o, areas) \in Opens(areas) /\ BucketOf(o, areas) <= o /\ BucketOf(o, areas) >= o
    BY <1>4, <2>1
  <2>3. BucketOf(o, areas) \in Int
    BY <1>1, <1>2, <2>2
  <2>. QED  BY <2>1, <2>2, <2>3
<1>. QED  BY <1>1, <1>4, <1>5

\* A bucket is named for the area of one of its trades.
LEMMA BucketIs ==
  ASSUME NEW s, NEW group \in SUBSET (Sales \cup Rents), IsFiniteSet(group), group # {}
  PROVE  /\ \E t \in group : Bucket(s, group).net_area = t.net_area
         /\ Bucket(s, group).transaction_count = Cardinality(group)
<1>. DEFINE areas == {t.net_area : t \in group}
            at(a) == {t \in group : t.net_area = a}
            many == [a \in areas |-> Cardinality(at(a))]
            frequent == MostOf(many)
            late == [a \in frequent |-> Latest(at(a))]
            last == MostOf(late)
<1>1. Bucket(s, group).net_area = Min(last)
  BY DEF Bucket
<1>2. Bucket(s, group).transaction_count = Cardinality(group)
  BY DEF Bucket
<1>3. areas \in SUBSET Nat /\ areas # {} /\ IsFiniteSet(areas)
  <2>. DEFINE area == [t \in group |-> t.net_area]
  <2>1. DOMAIN area = group
    OBVIOUS
  <2>2. {area[t] : t \in group} = areas
    OBVIOUS
  <2>. HIDE DEF area
  <2>3. IsFiniteSet({area[t] : t \in group})
    BY <2>1, ImageFinite
  <2>. QED  BY <2>2, <2>3, SaneFacts
<1>4. \A a : at(a) \in SUBSET (Sales \cup Rents) /\ IsFiniteSet(at(a))
  BY FS_Subset
<1>5. many \in [areas -> Int]
  <2>1. \A a : Cardinality(at(a)) \in Int
    <3>. TAKE a
    <3>. DEFINE sold == at(a)
    <3>1. IsFiniteSet(sold)
      BY <1>4
    <3>. HIDE DEF sold
    <3>2. Cardinality(sold) \in Int
      BY <3>1, FS_CardinalityType
    <3>. QED  BY <3>2 DEF sold
  <2>. HIDE DEF at
  <2>. QED  BY <2>1
<1>6. \A a : Latest(at(a)) \in Int
  <2>. TAKE a
  <2>. DEFINE sold == at(a)
  <2>1. sold \in SUBSET (Sales \cup Rents) /\ IsFiniteSet(sold)
    BY <1>4
  <2>. HIDE DEF sold
  <2>2. Latest(sold) \in Int
    BY <2>1, LatestIs
  <2>. QED  BY <2>2 DEF sold
<1>. HIDE DEF areas, many, at
<1>7. frequent \in SUBSET areas /\ frequent # {}
  BY <1>3, <1>5, MostIs
<1>8. late \in [frequent -> Int]
  BY <1>6
<1>. HIDE DEF frequent, late
<1>9. IsFiniteSet(frequent)
  BY <1>3, <1>7, FS_Subset
<1>10. last \in SUBSET frequent /\ last # {}
  BY <1>7, <1>8, <1>9, MostIs
<1>11. IsFiniteSet(last)
  <2>. HIDE DEF last
  <2>. QED  BY <1>9, <1>10, FS_Subset
<1>12. areas \subseteq Int
  BY <1>3
<1>13. last \in SUBSET Int /\ last # {} /\ IsFiniteSet(last) /\ last \subseteq areas
  <2>. HIDE DEF last
  <2>. QED  BY <1>7, <1>10, <1>11, <1>12
<1>. HIDE DEF last
<1>14. Min(last) \in areas
  BY <1>13, MinIs
<1>. QED  BY <1>1, <1>2, <1>14 DEF areas

\* The buckets part the trades.
LEMMA BucketsAre ==
  ASSUME NEW s, NEW trades \in SUBSET (Sales \cup Rents), IsFiniteSet(trades)
  PROVE  LET buckets == ClusterAreaBuckets(s, trades)
         IN  /\ IsFiniteSet(buckets) /\ \A b \in buckets : b.net_area \in Int
             /\ \E h \in [trades -> buckets] :
                   \A b \in buckets : b.transaction_count = Cardinality({t \in trades : h[t] = b})
<1>. DEFINE buckets == ClusterAreaBuckets(s, trades)
            areas == {t.net_area : t \in trades}
            of(t) == BucketOf(t.net_area, areas)
            group == [o \in Opens(areas) |-> {t \in trades : of(t) = o}]
            bucket == [o \in Opens(areas) |-> Bucket(s, group[o])]
            h == [t \in trades |-> bucket[of(t)]]
<1>1. areas \in SUBSET Nat /\ IsFiniteSet(areas)
  <2>. DEFINE area == [t \in trades |-> t.net_area]
  <2>1. DOMAIN area = trades
    OBVIOUS
  <2>2. {area[t] : t \in trades} = areas
    OBVIOUS
  <2>. HIDE DEF area
  <2>3. IsFiniteSet({area[t] : t \in trades})
    BY <2>1, ImageFinite
  <2>. QED  BY <2>2, <2>3, SaneFacts
<1>2. \A t \in trades : t.net_area \in areas
  OBVIOUS
<1>3. buckets = {bucket[o] : o \in Opens(areas)}
  BY DEF ClusterAreaBuckets
<1>. HIDE DEF areas
<1>4. /\ Opens(areas) \subseteq areas /\ \A t \in trades : of(t) \in Opens(areas)
      /\ \A o \in Opens(areas) : BucketOf(o, areas) = o
  BY <1>1, <1>2, BucketsApart
<1>5. ASSUME NEW o \in Opens(areas)
      PROVE  /\ \E t \in group[o] : bucket[o].net_area = t.net_area
             /\ bucket[o].transaction_count = Cardinality(group[o])
             /\ bucket[o].net_area \in Int /\ BucketOf(bucket[o].net_area, areas) = o
  <2>1. PICK t \in trades : t.net_area = o
    BY <1>4 DEF areas
  <2>2. group[o] \in SUBSET (Sales \cup Rents) /\ group[o] # {} /\ IsFiniteSet(group[o])
    <3>1. group[o] \in SUBSET trades
      OBVIOUS
    <3>2. t \in group[o]
      BY <1>4, <2>1
    <3>. QED  BY <3>1, <3>2, FS_Subset
  <2>. HIDE DEF group
  <2>3. /\ \E u \in group[o] : bucket[o].net_area = u.net_area
        /\ bucket[o].transaction_count = Cardinality(group[o])
    BY <2>2, BucketIs
  <2>. HIDE DEF bucket
  <2>4. PICK u \in group[o] : bucket[o].net_area = u.net_area
    BY <2>3
  <2>5. u \in trades /\ of(u) = o
    BY DEF group
  <2>6. u.net_area \in areas /\ BucketOf(u.net_area, areas) = o
    BY <1>2, <2>5
  <2>7. u.net_area \in Int
    <3>1. areas \subseteq Int
      BY <1>1
    <3>. QED  BY <2>6, <3>1
  <2>8. bucket[o].net_area \in Int /\ BucketOf(bucket[o].net_area, areas) = o
    BY <2>4, <2>6, <2>7
  <2>. QED  BY <2>3, <2>8
<1>6. IsFiniteSet(buckets)
  <2>1. DOMAIN bucket = Opens(areas) /\ IsFiniteSet(Opens(areas))
    BY <1>1, <1>4, FS_Subset
  <2>. HIDE DEF bucket
  <2>. QED  BY <1>3, <2>1, ImageFinite
<1>7. h \in [trades -> buckets]
  BY <1>3, <1>4
<1>8. \A t \in trades : h[t] = bucket[of(t)]
  OBVIOUS
<1>9. \A o \in Opens(areas) : group[o] = {t \in trades : of(t) = o}
  OBVIOUS
<1>. HIDE DEF buckets, bucket, h, group
<1>10. ASSUME NEW b \in buckets PROVE b.transaction_count = Cardinality({t \in trades : h[t] = b})
  <2>1. PICK o \in Opens(areas) : b = bucket[o]
    BY <1>3
  <2>2. ASSUME NEW t \in trades PROVE h[t] = b <=> of(t) = o
    <3>1. of(t) \in Opens(areas) /\ h[t] = bucket[of(t)]
      BY <1>4, <1>8
    <3>2. ASSUME h[t] = b PROVE of(t) = o
      <4>1. BucketOf(bucket[of(t)].net_area, areas) = of(t)
        BY <1>5, <3>1
      <4>2. BucketOf(bucket[o].net_area, areas) = o
        BY <1>5
      <4>3. bucket[of(t)] = bucket[o]
        BY <2>1, <3>1, <3>2
      <4>. QED  BY <4>1, <4>2, <4>3
    <3>. QED  BY <2>1, <3>1, <3>2
  <2>3. {t \in trades : h[t] = b} = group[o]
    BY <1>9, <2>2
  <2>. QED  BY <1>5, <2>1, <2>3
<1>. QED  BY <1>3, <1>5, <1>6, <1>7, <1>10 DEF buckets

\* The register lists every type of the building.
LEMMA RegisterIs ==
  ASSUME NEW c
  PROVE  LET types == FactsOf(c).units
         IN  \E n \in Nat : /\ Len(Register(c)) = n
                            /\ \A i \in 1..n : Register(c)[i] \in types
                            /\ \A u \in types : \E i \in 1..n : Register(c)[i] = u
                            /\ \A u \in types : u.net_area \in Int
<1>. DEFINE types == FactsOf(c).units
            row == SetToSeq(types)
            n == Cardinality(types)
            key == [i \in DOMAIN row |-> -row[i].net_area]
<1>1. IsFiniteSet(types) /\ \A u \in types : u.net_area \in Int
  BY SaneFactsOf DEF FactSane
<1>. HIDE DEF types
<1>2. n \in Nat /\ row \in [1..n -> types] /\ DOMAIN row = 1..n
  BY <1>1, SeqIs
<1>3. \A u \in types : \E i \in 1..n : row[i] = u
  BY <1>1, SeqIs
<1>. HIDE DEF row, n
<1>4. key \in [1..n -> Int]
  BY <1>1, <1>2
<1>5. Register(c) = SortedBy(row, key)
  BY DEF Register, row, types
<1>. HIDE DEF key
<1>6. PICK from : SortedFrom(from, row, key, n)
  BY <1>2, <1>4, Sorting
<1>7. from \in [1..n -> 1..n] /\ Register(c) = [p \in 1..n |-> row[from[p]]]
  BY <1>5, <1>6 DEF SortedFrom
<1>8. \A i \in 1..n : \E p \in 1..n : from[p] = i
  BY <1>6 DEF SortedFrom
<1>9. \A p \in 1..n : from[p] \in 1..n /\ Register(c)[p] = row[from[p]]
  BY <1>7
<1>10. Len(Register(c)) = n
  BY <1>2, <1>7
<1>11. \A i \in 1..n : Register(c)[i] \in types
  BY <1>2, <1>9
<1>12. ASSUME NEW u \in types PROVE \E p \in 1..n : Register(c)[p] = u
  <2>1. PICK i \in 1..n : row[i] = u
    BY <1>3
  <2>2. PICK p \in 1..n : from[p] = i
    BY <1>8
  <2>. QED  BY <1>9, <2>1, <2>2
<1>. QED  BY <1>1, <1>2, <1>10, <1>11, <1>12 DEF types

\* The nearest of the buckets still free is one of them.
LEMMA NearestIs ==
  ASSUME NEW u, u.net_area \in Int, NEW free, IsFiniteSet(free),
         \A b \in free : b.net_area \in Int, Near(u, free) # {}
  PROVE  Nearest(u, free) \in free
<1>. DEFINE near == Near(u, free)
            away == [b \in near |-> Away(b, u)]
            aways == {away[b] : b \in near}
<1>1. near \in SUBSET free /\ IsFiniteSet(near)
  BY FS_Subset DEF Near
<1>2. ASSUME NEW b \in near PROVE Away(b, u) \in Int
  <2>1. b.net_area \in Int
    BY <1>1
  <2>2. /\ Max({b.net_area, u.net_area}) \in Int
        /\ Min({b.net_area, u.net_area}) \in Int
    BY <2>1, OfTwo
  <2>. QED  BY <2>2 DEF Away
<1>. HIDE DEF near
<1>3. away \in [near -> Int]
  BY <1>2
<1>4. \A b \in near : away[b] = Away(b, u)
  OBVIOUS
<1>. HIDE DEF away
<1>5. aways \in SUBSET Int /\ aways # {} /\ IsFiniteSet(aways)
  BY <1>1, <1>3, ImageFinite DEF near
<1>6. Min(aways) \in aways /\ \A x \in aways : Min(aways) <= x
  <2>. HIDE DEF aways
  <2>. QED  BY <1>5, MinIs
<1>7. PICK b \in near : away[b] = Min(aways)
  BY <1>6
<1>8. \A d \in near : Away(b, u) <= Away(d, u)
  BY <1>4, <1>6, <1>7
<1>9. Nearest(u, free) \in near
  BY <1>7, <1>8 DEF Nearest, near
<1>. QED  BY <1>1, <1>9

\* Where m types of the register have taken their buckets.
GivenInv(acc, m, buckets, catalog) ==
    /\ acc.free \subseteq buckets
    /\ \A r \in acc.rows : /\ r.traded \subseteq buckets \ acc.free
                           /\ \E i \in 1..m : r.types = {catalog[i]}
    /\ \A i \in 1..m : \E r \in acc.rows : r.types = {catalog[i]}
    /\ \A b \in buckets \ acc.free : \E r \in acc.rows : b \in r.traded
    /\ \A r, q \in acc.rows : r.traded \cap q.traded # {} => r = q

LEMMA GiveKeeps ==
  ASSUME NEW buckets, IsFiniteSet(buckets), \A b \in buckets : b.net_area \in Int,
         NEW catalog, NEW m \in Nat, catalog[m + 1].net_area \in Int,
         NEW acc, GivenInv(acc, m, buckets, catalog)
  PROVE  GivenInv(Give(acc, catalog[m + 1]), m + 1, buckets, catalog)
<1>. DEFINE u == catalog[m + 1]
            next == Give(acc, u)
<1>1. /\ \A r \in acc.rows : r.traded \subseteq buckets \ acc.free
      /\ \A r \in acc.rows : \E i \in 1..m : r.types = {catalog[i]}
      /\ \A i \in 1..m : \E r \in acc.rows : r.types = {catalog[i]}
      /\ \A b \in buckets \ acc.free : \E r \in acc.rows : b \in r.traded
      /\ \A r, q \in acc.rows : r.traded \cap q.traded # {} => r = q
  BY DEF GivenInv
<1>2. acc.free \in SUBSET buckets /\ IsFiniteSet(acc.free)
  BY FS_Subset DEF GivenInv
<1>3. \E new : /\ new.types = {u} /\ new.traded \subseteq acc.free
              /\ next.free = acc.free \ new.traded /\ next.rows = acc.rows \cup {new}
  <2>1. CASE Near(u, acc.free) = {}
    <3>. DEFINE new == [area |-> u.net_area, types |-> {u}, traded |-> {}]
    <3>1. next.free = acc.free /\ next.rows = acc.rows \cup {new}
      BY <2>1 DEF Give
    <3>2. new.traded = {} /\ new.types = {u}
      OBVIOUS
    <3>. HIDE DEF new, next
    <3>. QED  BY <3>1, <3>2
  <2>2. CASE Near(u, acc.free) # {}
    <3>. DEFINE b == Nearest(u, acc.free)
                new == [area |-> b.net_area, types |-> {u}, traded |-> {b}]
    <3>1. next.free = acc.free \ {b} /\ next.rows = acc.rows \cup {new}
      BY <2>2 DEF Give
    <3>2. new.traded = {b} /\ new.types = {u}
      OBVIOUS
    <3>3. b \in acc.free
      BY <1>2, <2>2, NearestIs
    <3>. HIDE DEF new, next, b
    <3>. QED  BY <3>1, <3>2, <3>3
  <2>. QED  BY <2>1, <2>2
<1>. HIDE DEF next
<1>4. PICK new : /\ new.types = {u} /\ new.traded \subseteq acc.free
                 /\ next.free = acc.free \ new.traded /\ next.rows = acc.rows \cup {new}
  BY <1>3
<1>5. m + 1 \in 1..(m + 1) /\ \A i \in 1..m : i \in 1..(m + 1)
  OBVIOUS
<1>6. ASSUME NEW i \in 1..(m + 1) PROVE i \in 1..m \/ i = m + 1
  OBVIOUS
<1>7. next.free \subseteq buckets
  BY <1>2, <1>4
<1>8. ASSUME NEW r \in next.rows
      PROVE  r.traded \subseteq buckets \ next.free /\ \E i \in 1..(m + 1) : r.types = {catalog[i]}
  <2>1. CASE r = new
    BY <1>2, <1>4, <1>5, <2>1
  <2>2. CASE r \in acc.rows
    <3>1. r.traded \subseteq buckets \ next.free
      BY <1>1, <1>4, <2>2
    <3>2. PICK i \in 1..m : r.types = {catalog[i]}
      BY <1>1, <2>2
    <3>. QED  BY <1>5, <3>1, <3>2
  <2>. QED  BY <1>4, <1>8, <2>1, <2>2
<1>9. ASSUME NEW i \in 1..(m + 1) PROVE \E r \in next.rows : r.types = {catalog[i]}
  <2>1. CASE i = m + 1
    BY <1>4, <2>1
  <2>2. CASE i \in 1..m
    BY <1>1, <1>4, <2>2
  <2>. QED  BY <1>6, <2>1, <2>2
<1>10. \A b \in buckets \ next.free : \E r \in next.rows : b \in r.traded
  BY <1>1, <1>4
<1>11. \A r, q \in next.rows : r.traded \cap q.traded # {} => r = q
  BY <1>1, <1>4
<1>12. GivenInv(next, m + 1, buckets, catalog)
  BY <1>7, <1>8, <1>9, <1>10, <1>11 DEF GivenInv
<1>. QED  BY <1>12 DEF next

LEMMA GivesAll ==
  ASSUME NEW buckets, IsFiniteSet(buckets), \A b \in buckets : b.net_area \in Int,
         NEW n \in Nat, NEW catalog, Len(catalog) = n,
         \A i \in 1..n : catalog[i].net_area \in Int
  PROVE  GivenInv(Given(buckets, catalog), n, buckets, catalog)
<1>1. PICK given :
         /\ given[0] = [free |-> buckets, rows |-> {}]
         /\ \A m \in 0..(n - 1) : given[m + 1] = Give(given[m], catalog[m + 1])
         /\ Given(buckets, catalog) = given[n]
  BY GivenIs
<1>. DEFINE Good == {m \in Nat : m <= n => GivenInv(given[m], m, buckets, catalog)}
<1>2. 0 \in Good
  <2>1. GivenInv([free |-> buckets, rows |-> {}], 0, buckets, catalog)
    BY DEF GivenInv
  <2>. QED  BY <1>1, <2>1
<1>3. ASSUME NEW m \in Nat, m < n, m \in Good PROVE m + 1 \in Good
  <2>1. m \in 0..(n - 1) /\ m + 1 \in 1..n /\ m <= n /\ m + 1 \in Nat
    BY <1>3
  <2>2. GivenInv(given[m], m, buckets, catalog)
    BY <1>3, <2>1
  <2>3. given[m + 1] = Give(given[m], catalog[m + 1])
    BY <1>1, <2>1
  <2>4. catalog[m + 1].net_area \in Int
    BY <2>1
  <2>. DEFINE acc == given[m]
  <2>. HIDE DEF acc
  <2>5. GivenInv(Give(acc, catalog[m + 1]), m + 1, buckets, catalog)
    BY <2>2, <2>4, GiveKeeps DEF acc
  <2>. QED  BY <2>1, <2>3, <2>5 DEF acc
<1>. HIDE DEF Good
<1>4. n \in Good
  BY <1>2, <1>3, CountUp
<1>5. GivenInv(given[n], n, buckets, catalog)
  BY <1>4 DEF Good
<1>. QED  BY <1>1, <1>5

LEMMA TablesShow == IInv /\ Finite => EveryTradeShown
<1>. SUFFICES ASSUME IInv, Finite, NEW s \in Queries, NEW c \in complex
              PROVE  LET rows == UnitTypeCatalog(s, c).types
                         count(r) == Total([b \in r.traded |-> b.transaction_count])
                     IN  /\ Total([r \in rows |-> count(r)]) = Cardinality(MatchingTrades(s, c))
                         /\ {r.types : r \in rows} \ {{}} = {{u} : u \in FactsOf(c).units}
  BY DEF EveryTradeShown
<1>. DEFINE trades == MatchingTrades(s, c)
            buckets == ClusterAreaBuckets(s, trades)
            catalog == Register(c)
            types == FactsOf(c).units
            given == Given(buckets, catalog)
            left(b) == [area |-> b.net_area, types |-> {}, traded |-> {b}]
            lefts == {left(b) : b \in given.free}
            rows == UnitTypeCatalog(s, c).types
<1>1. trades \in SUBSET (Sales \cup Rents) /\ IsFiniteSet(trades)
  BY TradesOfIs
<1>2. rows = given.rows \cup lefts
  BY DEF UnitTypeCatalog
<1>. HIDE DEF trades
<1>3. IsFiniteSet(buckets) /\ \A b \in buckets : b.net_area \in Int
  BY <1>1, BucketsAre
<1>4. PICK h \in [trades -> buckets] :
         \A b \in buckets : b.transaction_count = Cardinality({t \in trades : h[t] = b})
  BY <1>1, BucketsAre
<1>. HIDE DEF buckets
<1>5. PICK n \in Nat : /\ Len(catalog) = n
                       /\ \A i \in 1..n : catalog[i] \in types
                       /\ \A u \in types : \E i \in 1..n : catalog[i] = u
                       /\ \A u \in types : u.net_area \in Int
  BY RegisterIs
<1>. HIDE DEF catalog, types
<1>6. GivenInv(given, n, buckets, catalog)
  BY <1>3, <1>5, GivesAll
<1>. HIDE DEF given, rows
<1>7. \A b : left(b).traded = {b} /\ left(b).types = {}
  OBVIOUS
<1>. HIDE DEF left
<1>8. /\ \A r \in given.rows : r.types # {}
      /\ \A r \in lefts : r.types = {}
  BY <1>6, <1>7 DEF GivenInv
<1>9. {r.types : r \in rows} \ {{}} = {{u} : u \in types}
  <2>1. ASSUME NEW r \in rows, r.types # {} PROVE \E u \in types : r.types = {u}
    BY <1>2, <1>5, <1>6, <1>8, <2>1 DEF GivenInv
  <2>2. ASSUME NEW u \in types PROVE \E r \in rows : r.types = {u}
    <3>1. PICK i \in 1..n : catalog[i] = u
      BY <1>5
    <3>2. PICK r \in given.rows : r.types = {catalog[i]}
      BY <1>6 DEF GivenInv
    <3>. QED  BY <1>2, <3>1, <3>2
  <2>. QED  BY <2>1, <2>2
<1>10. \A r \in rows : r.traded \subseteq buckets
  BY <1>2, <1>6, <1>7 DEF GivenInv
<1>11. \A b \in buckets : \E r \in rows : b \in r.traded
  BY <1>2, <1>6, <1>7 DEF GivenInv
<1>12. ASSUME NEW r \in rows, NEW q \in rows, NEW b \in r.traded, b \in q.traded PROVE r = q
  <2>1. CASE r \in given.rows /\ q \in given.rows
    BY <1>6, <1>12, <2>1 DEF GivenInv
  <2>2. CASE r \in lefts /\ q \in lefts
    BY <1>7, <1>12, <2>2
  <2>3. CASE r \in given.rows /\ q \in lefts
    BY <1>6, <1>7, <1>12, <2>3 DEF GivenInv
  <2>4. CASE r \in lefts /\ q \in given.rows
    BY <1>6, <1>7, <1>12, <2>4 DEF GivenInv
  <2>. QED  BY <1>2, <2>1, <2>2, <2>3, <2>4
<1>. DEFINE count == [r \in rows |-> Total([b \in r.traded |-> b.transaction_count])]
            shown == [t \in trades |-> CHOOSE r \in rows : h[t] \in r.traded]
<1>13. \A t \in trades : shown[t] \in rows /\ h[t] \in shown[t].traded /\ h[t] \in buckets
  BY <1>11
<1>14. ASSUME NEW r \in rows PROVE count[r] = Cardinality({t \in trades : shown[t] = r})
  <2>. DEFINE these == {t \in trades : h[t] \in r.traded}
              part == [t \in these |-> h[t]]
              size == [b \in r.traded |-> b.transaction_count]
  <2>1. count[r] = Total(size)
    OBVIOUS
  <2>2. these = {t \in trades : shown[t] = r}
    <3>. HIDE DEF shown
    <3>. QED  BY <1>12, <1>13
  <2>3. IsFiniteSet(these)
    BY <1>1, FS_Subset
  <2>4. part \in [these -> r.traded] /\ DOMAIN size = r.traded
    OBVIOUS
  <2>5. ASSUME NEW b \in r.traded PROVE size[b] = Cardinality({t \in these : part[t] = b})
    <3>1. {t \in these : part[t] = b} = {t \in trades : h[t] = b}
      OBVIOUS
    <3>. QED  BY <1>4, <1>10, <3>1
  <2>. HIDE DEF these, part, size, count
  <2>6. Total(size) = Cardinality(these)
    BY <2>3, <2>4, <2>5, PartsAddUp
  <2>. QED  BY <2>1, <2>2, <2>6
<1>15. shown \in [trades -> rows] /\ DOMAIN count = rows
  BY <1>13
<1>16. Total(count) = Cardinality(trades)
  <2>. HIDE DEF count, shown
  <2>. QED  BY <1>1, <1>14, <1>15, PartsAddUp
<1>. QED  BY <1>9, <1>16 DEF trades, rows, types

\* EveryTradeShown for every building: the buckets part the trades, each has the
\* area of one of its own, and the register is given every bucket at most once.
THEOREM NoTradeIsLost == Spec => []EveryTradeShown
BY TablesHold, TablesShow, PTL
=============================================================================
