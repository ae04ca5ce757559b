----------------------------- MODULE DataLemmas -----------------------------
(***************************************************************************)
(* Facts about the data of the models that their proofs share: functions   *)
(* that are defined by recursion on a number, and how many threads or      *)
(* places there are, before and after a step.                              *)
(***************************************************************************)
EXTENDS Integers, Sequences, WellFoundedInduction, FiniteSetTheorems, FunctionTheorems, TLAPS

(* A set of numbers has a least one.  An induction is by the least number  *)
(* for which what is claimed is false.                                     *)
LEMMA Least ==
  ASSUME NEW S \in SUBSET Nat, S # {}
  PROVE  \E x \in S : \A y \in S : x <= y
<1>1. PICK x \in S : \A y \in S : ~ (<<y, x>> \in OpToRel(<, Nat))
  BY NatLessThanWellFounded, WFMin
<1>2. \A y \in S : ~(y < x)
  BY <1>1 DEF OpToRel
<1>. QED
  BY <1>2

(* A recursion over 1 .. n, whose step F[k] takes what there was at k - 1, *)
(* defines a function.                                                     *)
Steps(n, S) == [1 .. n -> [S -> S]]

Runs(n, S, a, F) ==
  {g \in [0 .. n -> S] : g[0] = a /\ \A k \in 1 .. n : g[k] = F[k][g[k - 1]]}

LEMMA Recursion ==
  ASSUME NEW n \in Nat, NEW S, NEW a \in S, NEW F \in Steps(n, S)
  PROVE  Runs(n, S, a, F) # {}
<1>0. F \in [1 .. n -> [S -> S]]
  BY DEF Steps
<1>. DEFINE Good(m, g) == g[0] = a /\ \A k \in 1 .. m : g[k] = F[k][g[k - 1]]
            Bad == {m \in 0 .. n : ~ \E g \in [0 .. m -> S] : Good(m, g)}
<1>1. ASSUME Bad # {} PROVE FALSE
  <2>0. Bad \in SUBSET Nat
    OBVIOUS
  <2>1. PICK m \in Bad : \A l \in Bad : m <= l
    <3>. HIDE DEF Bad
    <3>. QED
      BY <1>1, <2>0, Least
  <2>2. m # 0
    <3>. DEFINE g == [k \in 0 .. 0 |-> a]
    <3>1. g \in [0 .. 0 -> S] /\ g[0] = a /\ 1 .. 0 = {}
      OBVIOUS
    <3>. HIDE DEF g
    <3>2. Good(0, g)
      BY <3>1
    <3>3. 0 \notin Bad
      BY <3>1, <3>2
    <3>. QED
      BY <2>1, <3>3
  <2>3. m \in 1 .. n /\ m - 1 \in 0 .. n /\ m - 1 \notin Bad
    <3>1. m \in 1 .. n /\ m - 1 \in 0 .. n /\ ~(m <= m - 1)
      BY <2>1, <2>2
    <3>. HIDE DEF Bad
    <3>. QED
      BY <2>1, <3>1
  <2>4. PICK g \in [0 .. m - 1 -> S] : Good(m - 1, g)
    BY <2>3
  <2>. DEFINE h == [k \in 0 .. m |-> IF k = m THEN F[m][g[m - 1]] ELSE g[k]]
  <2>5. F[m][g[m - 1]] \in S
    BY <1>0, <2>3
  <2>6. h \in [0 .. m -> S]
    BY <2>3, <2>5
  <2>7. h[0] = a /\ h[m] = F[m][h[m - 1]]
    BY <2>3, <2>4
  <2>8. \A k \in 1 .. m - 1 : h[k] = F[k][h[k - 1]]
    <3>. TAKE k \in 1 .. m - 1
    <3>1. k \in 0 .. m - 1 /\ k - 1 \in 0 .. m - 1 /\ k # m /\ k - 1 # m
      BY <2>3
    <3>2. h[k] = g[k] /\ h[k - 1] = g[k - 1]
      BY <2>3, <3>1
    <3>3. g[k] = F[k][g[k - 1]]
      BY <2>4
    <3>. QED
      BY <3>2, <3>3
  <2>9. Good(m, h)
    <3>. \A k \in 1 .. m : k = m \/ k \in 1 .. m - 1
      BY <2>3
    <3>. HIDE DEF h
    <3>. QED
      BY <2>7, <2>8
  <2>. QED
    BY <2>1, <2>6, <2>9
<1>2. n \in 0 .. n /\ n \notin Bad
  BY <1>1
<1>3. PICK g \in [0 .. n -> S] : Good(n, g)
  BY <1>2
<1>4. g \in Runs(n, S, a, F)
  BY <1>3 DEF Runs
<1>. QED
  BY <1>4

(* It defines one only, and so does a recursion over all numbers.          *)
LEMMA RunsAgree ==
  ASSUME NEW n \in Nat, NEW m \in 0 .. n, NEW S, NEW a, NEW F, NEW G,
         NEW g \in Runs(n, S, a, F), NEW h \in Runs(m, S, a, G), \A k \in 1 .. m : F[k] = G[k]
  PROVE  \A k \in 0 .. m : g[k] = h[k]
<1>. DEFINE Bad == {k \in 0 .. m : g[k] # h[k]}
<1>1. /\ g[0] = a /\ \A k \in 1 .. n : g[k] = F[k][g[k - 1]]
      /\ h[0] = a /\ \A k \in 1 .. m : h[k] = G[k][h[k - 1]]
  BY DEF Runs
<1>2. ASSUME Bad # {} PROVE FALSE
  <2>0. Bad \in SUBSET Nat
    OBVIOUS
  <2>1. PICK k \in Bad : \A l \in Bad : k <= l
    <3>. HIDE DEF Bad
    <3>. QED
      BY <1>2, <2>0, Least
  <2>2. k # 0
    BY <1>1
  <2>3. k \in 1 .. m /\ k \in 1 .. n /\ k - 1 \in 0 .. m /\ ~(k <= k - 1)
    BY <2>2
  <2>4. k - 1 \notin Bad
    <3>. HIDE DEF Bad
    <3>. QED
      BY <2>1, <2>3
  <2>5. g[k - 1] = h[k - 1]
    BY <2>3, <2>4
  <2>6. g[k] = F[k][g[k - 1]] /\ h[k] = G[k][h[k - 1]] /\ F[k] = G[k]
    BY <1>1, <2>3
  <2>. QED
    BY <2>5, <2>6
<1>. QED
  BY <1>2

EndlessRuns(S, a, F) ==
  {f \in [Nat -> S] : f[0] = a /\ \A k \in Nat \ {0} : f[k] = F[k][f[k - 1]]}

LEMMA EndlessRecursion ==
  ASSUME NEW S, NEW a \in S, NEW F \in [Nat \ {0} -> [S -> S]]
  PROVE  EndlessRuns(S, a, F) # {}
<1>. DEFINE Upto(n) == [k \in 1 .. n |-> F[k]]
            run(n) == CHOOSE g : g \in Runs(n, S, a, Upto(n))
            f == [n \in Nat |-> run(n)[n]]
<1>1. ASSUME NEW n \in Nat
      PROVE  run(n) \in Runs(n, S, a, Upto(n))
  <2>1. Upto(n) \in Steps(n, S)
    BY DEF Steps
  <2>. HIDE DEF Upto
  <2>2. Runs(n, S, a, Upto(n)) # {}
    BY <2>1, Recursion
  <2>. QED
    BY <2>2
<1>2. ASSUME NEW n \in Nat
      PROVE  /\ run(n) \in [0 .. n -> S] /\ run(n)[0] = a
             /\ \A k \in 1 .. n : run(n)[k] = F[k][run(n)[k - 1]]
  BY <1>1 DEF Runs
<1>3. ASSUME NEW n \in Nat \ {0}
      PROVE  run(n)[n - 1] = run(n - 1)[n - 1]
  <2>1. PICK m \in 0 .. n : m = n - 1
    OBVIOUS
  <2>2. /\ n \in Nat /\ m \in Nat /\ m \in 0 .. m
        /\ \A k \in 1 .. m : Upto(n)[k] = Upto(m)[k]
    BY <2>1
  <2>3. run(n) \in Runs(n, S, a, Upto(n)) /\ run(m) \in Runs(m, S, a, Upto(m))
    BY <1>1, <2>2
  <2>. HIDE DEF run, Upto
  <2>4. \A k \in 0 .. m : run(n)[k] = run(m)[k]
    BY <2>2, <2>3, RunsAgree
  <2>. QED
    BY <2>1, <2>2, <2>4
<1>4. \A n \in Nat : f[n] = run(n)[n] /\ n \in 0 .. n
  OBVIOUS
<1>. HIDE DEF run
<1>5. f \in [Nat -> S] /\ f[0] = a
  BY <1>2, <1>4
<1>6. ASSUME NEW k \in Nat \ {0}
      PROVE  f[k] = F[k][f[k - 1]]
  <2>1. k \in Nat /\ k \in 1 .. k /\ k - 1 \in Nat
    OBVIOUS
  <2>2. f[k] = F[k][run(k)[k - 1]] /\ f[k - 1] = run(k - 1)[k - 1]
    BY <1>2, <1>4, <2>1
  <2>. HIDE DEF f
  <2>. QED
    BY <1>3, <2>2
<1>7. f \in EndlessRuns(S, a, F)
  <2>. HIDE DEF f
  <2>. QED
    BY <1>5, <1>6 DEF EndlessRuns
<1>. QED
  BY <1>7
-----------------------------------------------------------------------------
(* The quotient and the rest, and that there are no others.                *)
LEMMA QuotientFacts ==
  ASSUME NEW x \in Int, NEW p \in Nat \ {0}
  PROVE  /\ x \div p \in Int /\ x % p \in 0 .. p - 1
         /\ x = p * (x \div p) + (x % p)
OBVIOUS

LEMMA QuotientIs ==
  ASSUME NEW x \in Int, NEW p \in Nat \ {0}, NEW q \in Int, NEW r \in 0 .. p - 1, x = p * q + r
  PROVE  x \div p = q
OBVIOUS

(* To divide twice is to divide by the product.                            *)
LEMMA QuotientTwice ==
  ASSUME NEW x \in Int, NEW p \in Nat \ {0}, NEW b \in Nat \ {0}
  PROVE  (x \div p) \div b = x \div (b * p)
<1>. DEFINE y == x \div p
            r == x % p
            z == y \div b
            s == y % b
<1>1. y \in Int /\ r \in 0 .. p - 1 /\ x = p * y + r
  BY QuotientFacts
<1>. HIDE DEF y, r
<1>2. z \in Int /\ s \in 0 .. b - 1 /\ y = b * z + s
  BY <1>1, QuotientFacts
<1>. HIDE DEF z, s
<1>3. x = (b * p) * z + (p * s + r)
  BY <1>1, <1>2
<1>4. b * p \in Nat \ {0} /\ p * s + r \in 0 .. (b * p) - 1
  <2>1. p * s <= p * (b - 1) /\ 0 <= p * s
    BY <1>1, <1>2
  <2>2. p * (b - 1) = b * p - p /\ b * p \in Nat \ {0} /\ p * s \in Int
    BY <1>1, <1>2
  <2>. QED
    BY <1>1, <1>2, <2>1, <2>2
<1>5. PICK m \in Nat \ {0} : m = b * p
  BY <1>4
<1>6. PICK t \in 0 .. m - 1 : t = p * s + r
  BY <1>4, <1>5
<1>7. x = m * z + t
  BY <1>3, <1>5, <1>6
<1>8. x \div m = z
  BY <1>2, <1>7, QuotientIs
<1>. QED
  BY <1>5, <1>8 DEF y, z

-----------------------------------------------------------------------------
(* A set that grows, by an element x at least.                             *)
LEMMA Arrive ==
  ASSUME NEW S, NEW T, IsFiniteSet(T), S \subseteq T
  PROVE  /\ IsFiniteSet(S) /\ Cardinality(S) \in Nat /\ Cardinality(T) \in Nat
         /\ Cardinality(S) <= Cardinality(T)
         /\ \A x \in T \ S : Cardinality(S) + 1 <= Cardinality(T)
<1>1. /\ IsFiniteSet(S) /\ Cardinality(S) \in Nat /\ Cardinality(T) \in Nat
      /\ Cardinality(S) <= Cardinality(T)
  BY FS_Subset, FS_CardinalityType
<1>2. ASSUME NEW x \in T \ S
      PROVE  Cardinality(S) + 1 <= Cardinality(T)
  <2>1. S \cup {x} \subseteq T
    BY <1>2
  <2>2. Cardinality(S \cup {x}) <= Cardinality(T)
    BY <2>1, FS_Subset
  <2>3. QED
    BY <1>1, <1>2, <2>2, FS_AddElement
<1>3. QED
  BY <1>1, <1>2

(* A set that loses an element x at most. *)
LEMMA Leave ==
  ASSUME NEW S, NEW T, NEW x, IsFiniteSet(S), S \ {x} \subseteq T, IsFiniteSet(T)
  PROVE  Cardinality(S) - 1 <= Cardinality(T)
<1>1. IsFiniteSet(S \ {x}) /\ Cardinality(S \ {x}) <= Cardinality(T)
  BY FS_Subset, FS_RemoveElement
<1>2. Cardinality(S) \in Nat /\ Cardinality(S \ {x}) \in Nat /\ Cardinality(T) \in Nat
  BY <1>1, FS_CardinalityType
<1>3. QED
  BY <1>1, <1>2, FS_RemoveElement
-----------------------------------------------------------------------------
Hit(a, b) == IF a = b THEN 1 ELSE 0

Where(D, f, x) == {i \in D : f[i] = x}

(* How often a value occurs in a function, when one place of it changes. *)
LEMMA CountExcept ==
  ASSUME NEW D, NEW f, NEW g, NEW d \in D, NEW x,
         IsFiniteSet(D), \A i \in D : i # d => g[i] = f[i]
  PROVE  Cardinality(Where(D, g, x)) = Cardinality(Where(D, f, x)) - Hit(f[d], x) + Hit(g[d], x)
<1> DEFINE S == Where(D, f, x)
           T == Where(D, g, x)
           R == S \ {d}
<1>1. /\ \A i : i \in S <=> i \in D /\ f[i] = x
      /\ \A i : i \in T <=> i \in D /\ g[i] = x
  BY DEF Where
<1>2. IsFiniteSet(S) /\ IsFiniteSet(R) /\ Cardinality(S) \in Nat /\ Cardinality(R) \in Nat
  <2>1. S \in SUBSET D /\ R \in SUBSET D
    BY <1>1
  <2>2. QED
    BY <2>1, FS_Subset, FS_CardinalityType
<1> HIDE DEF S, T
<1>3. Cardinality(R) = Cardinality(S) - Hit(f[d], x)
  <2>1. Cardinality(R) = IF d \in S THEN Cardinality(S) - 1 ELSE Cardinality(S)
    BY <1>2, FS_RemoveElement
  <2>2. QED
    BY <1>1, <1>2, <2>1 DEF Hit
<1> DEFINE Goal == Cardinality(T) = Cardinality(S) - Hit(f[d], x) + Hit(g[d], x)
<1>4. ASSUME g[d] = x
      PROVE  Goal
  <2>1. T = R \cup {d} /\ d \notin R
    BY <1>1, <1>4
  <2>2. Cardinality(T) = Cardinality(R) + 1
    BY <1>2, <2>1, FS_AddElement
  <2>3. QED
    BY <1>2, <1>3, <1>4, <2>2 DEF Hit
<1>5. ASSUME g[d] # x
      PROVE  Goal
  <2>1. T = R
    BY <1>1, <1>5
  <2>2. QED
    BY <1>2, <1>3, <1>5, <2>1 DEF Hit
<1>6. QED
  BY <1>4, <1>5 DEF S, T

Places(s, x) == {i \in DOMAIN s : s[i] = x}

(* A value has finitely many places in a sequence. *)
LEMMA FinitePlaces ==
  ASSUME NEW E, NEW s \in Seq(E), NEW x
  PROVE  IsFiniteSet(Places(s, x)) /\ Cardinality(Places(s, x)) \in Nat
<1>1. IsFiniteSet(1 .. Len(s)) /\ Places(s, x) \subseteq 1 .. Len(s)
  BY FS_Interval DEF Places
<1>2. QED
  BY <1>1, FS_Subset, FS_CardinalityType

(* How often a value occurs in a queue to which an element is added. *)
LEMMA CountAppend ==
  ASSUME NEW E, NEW s \in Seq(E), NEW e \in E, NEW x
  PROVE  Cardinality(Places(Append(s, e), x)) = Cardinality(Places(s, x)) + Hit(e, x)
<1> DEFINE n == Len(s) + 1
<1>1. /\ n \notin Places(s, x)
      /\ Places(Append(s, e), x) = IF e = x THEN Places(s, x) \cup {n} ELSE Places(s, x)
  BY DEF Places
<1>2. Cardinality(Places(s, x) \cup {n}) = Cardinality(Places(s, x)) + 1
  BY <1>1, FinitePlaces, FS_AddElement
<1>3. QED
  BY <1>1, <1>2, FinitePlaces DEF Hit

(* How often a value occurs in a queue whose first element is removed. *)
LEMMA CountTail ==
  ASSUME NEW E, NEW s \in Seq(E), s # <<>>, NEW x
  PROVE  Cardinality(Places(Tail(s), x)) = Cardinality(Places(s, x)) - Hit(Head(s), x)
<1> DEFINE P == Places(Tail(s), x)
           Q == Places(s, x) \ {1}
           f == [i \in P |-> i + 1]
<1>1. /\ Tail(s) \in Seq(E) /\ Len(Tail(s)) = Len(s) - 1 /\ Len(s) \in Nat \ {0}
      /\ \A i \in 1 .. Len(s) - 1 : Tail(s)[i] = s[i + 1]
      /\ Head(s) = s[1]
  OBVIOUS
<1>2. P = {i \in 1 .. Len(s) - 1 : s[i + 1] = x} /\ Q = {i \in 2 .. Len(s) : s[i] = x}
  BY <1>1 DEF Places
<1>3. f \in Bijection(P, Q)
  <2>1. f \in [P -> Q] /\ \A a, b \in P : f[a] = f[b] => a = b
    BY <1>1, <1>2
  <2>2. \A q \in Q : \E p \in P : f[p] = q
    <3> SUFFICES ASSUME NEW q \in Q
                 PROVE  \E p \in P : f[p] = q
      OBVIOUS
    <3>1. q - 1 \in 1 .. Len(s) - 1 /\ (q - 1) + 1 = q /\ s[q] = x
      BY <1>1, <1>2
    <3>2. q - 1 \in P
      BY <1>2, <3>1
    <3>3. f[q - 1] = q
      BY <3>1, <3>2
    <3>4. QED
      BY <3>2, <3>3
  <2>3. QED
    BY <2>1, <2>2, Fun_IsBij
<1>4. IsFiniteSet(P) /\ Cardinality(P) = Cardinality(Q)
  <2>1. IsFiniteSet(P)
    BY <1>1, FinitePlaces
  <2>2. ExistsBijection(P, Q)
    BY <1>3 DEF ExistsBijection
  <2>3. QED
    BY <2>1, <2>2, FS_Bijection
<1>5. Cardinality(Q) = Cardinality(Places(s, x)) - Hit(Head(s), x)
  <2>1. 1 \in Places(s, x) <=> Head(s) = x
    BY <1>1 DEF Places
  <2>2. IsFiniteSet(Places(s, x)) /\ Cardinality(Places(s, x)) \in Nat
    BY FinitePlaces
  <2>3. Cardinality(Q) = IF 1 \in Places(s, x) THEN Cardinality(Places(s, x)) - 1
                                              ELSE Cardinality(Places(s, x))
    BY <2>2, FS_RemoveElement
  <2>4. QED
    BY <2>1, <2>2, <2>3 DEF Hit
<1>6. QED
  BY <1>4, <1>5
=============================================================================
