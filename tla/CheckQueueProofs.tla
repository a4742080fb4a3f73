--------------------------- MODULE CheckQueueProofs ---------------------------
(***************************************************************************)
(* Theorems about the admission of checks and the queue of rechecks, for   *)
(* any number of torrents, any limits, requests and restarts.              *)
(***************************************************************************)
EXTENDS CheckQueue, SequenceTheorems, FiniteSetTheorems, WellFoundedInduction, TLAPS

-----------------------------------------------------------------------------
(* What the helpers on sequences return: their elements, their lengths,    *)
(* and that they repeat nothing their arguments did not.                   *)
Line == Seq(Torrents)

LEMMA Elements ==
    ASSUME NEW s \in Line
    PROVE  /\ Len(s) \in Nat /\ DOMAIN s = 1..Len(s) /\ ToSet(s) \subseteq Torrents
           /\ \A i \in 1..Len(s) : s[i] \in ToSet(s)
           /\ \A t \in ToSet(s) : \E i \in 1..Len(s) : s[i] = t
<1> QED
  BY DEF Line, ToSet

LEMMA Within ==
    ASSUME NEW s \in Line, NEW S, \A i \in 1..Len(s) : s[i] \in S
    PROVE  ToSet(s) \subseteq S
<1> QED
  BY Elements

LEMMA Repeats ==
    ASSUME NEW s \in Line
    PROVE  IsInjective(s) <=> \A i, j \in 1..Len(s) : s[i] = s[j] => i = j
<1> QED
  BY Elements DEF IsInjective

LEMMA EmptyLine ==
    /\ <<>> \in Line /\ ToSet(<<>>) = {} /\ Len(<<>>) = 0 /\ IsInjective(<<>>)
    /\ \A s \in Line : s # <<>> => \E t \in Torrents : t \in ToSet(s)
<1> QED
  BY DEF Line, ToSet, IsInjective

LEMMA Joined ==
    ASSUME NEW s \in Line, NEW r \in Line
    PROVE  /\ s \o r \in Line /\ Len(s \o r) = Len(s) + Len(r)
           /\ ToSet(s \o r) = ToSet(s) \cup ToSet(r)
           /\ IsInjective(s \o r) <=> IsInjective(s) /\ IsInjective(r) /\ ToSet(s) \cap ToSet(r) = {}
<1> DEFINE j == s \o r
<1>1. /\ j \in Line /\ Len(j) = Len(s) + Len(r)
      /\ \A i \in 1..Len(s) : j[i] = s[i]
      /\ \A i \in 1..Len(r) : j[i + Len(s)] = r[i]
  BY ConcatProperties DEF Line
<1>2. \A i \in 1..Len(j) : i \in 1..Len(s) \/ (i - Len(s) \in 1..Len(r) /\ i = (i - Len(s)) + Len(s))
  BY <1>1, Elements
<1>3. ToSet(j) = ToSet(s) \cup ToSet(r)
  <2>1. ToSet(s) \cup ToSet(r) \subseteq ToSet(j)
    <3>1. \A i \in 1..Len(s) : i \in 1..Len(j)
      BY <1>1, Elements
    <3>2. \A i \in 1..Len(r) : i + Len(s) \in 1..Len(j)
      BY <1>1, Elements
    <3>3. \A i \in 1..Len(j) : j[i] \in ToSet(j)
      BY <1>1, Elements
    <3>4. \A i \in 1..Len(s) : s[i] \in ToSet(j)
      BY <1>1, <3>1, <3>3
    <3>5. \A i \in 1..Len(r) : r[i] \in ToSet(j)
      BY <1>1, <3>2, <3>3
    <3> QED
      BY <3>4, <3>5, Within
  <2>2. ToSet(j) \subseteq ToSet(s) \cup ToSet(r)
    <3>1. /\ \A i \in 1..Len(s) : s[i] \in ToSet(s)
          /\ \A i \in 1..Len(r) : r[i] \in ToSet(r)
      BY Elements
    <3>2. \A i \in 1..Len(j) : j[i] \in ToSet(s) \cup ToSet(r)
      BY <1>1, <1>2, <3>1
    <3> HIDE DEF j
    <3> QED
      BY <1>1, <3>2, Within
  <2> QED
    BY <2>1, <2>2
<1>4. ASSUME IsInjective(j)
      PROVE  IsInjective(s) /\ IsInjective(r) /\ ToSet(s) \cap ToSet(r) = {}
  <2>1. \A i, k \in 1..Len(j) : j[i] = j[k] => i = k
    <3> HIDE DEF j
    <3> QED
      BY <1>1, <1>4, Repeats
  <2>2. /\ \A i \in 1..Len(s) : i \in 1..Len(j)
        /\ \A i \in 1..Len(r) : i + Len(s) \in 1..Len(j)
    BY <1>1, Elements
  <2>3. \A i, k \in 1..Len(s) : s[i] = s[k] => i = k
    BY <1>1, <2>1, <2>2
  <2>4. \A i, k \in 1..Len(r) : r[i] = r[k] => i = k
    <3> SUFFICES ASSUME NEW i \in 1..Len(r), NEW k \in 1..Len(r), r[i] = r[k] PROVE i = k
      OBVIOUS
    <3>1. i + Len(s) = k + Len(s)
      BY <1>1, <2>1, <2>2
    <3> QED
      BY <3>1, Elements
  <2>5. \A i \in 1..Len(s), k \in 1..Len(r) : s[i] # r[k]
    <3> SUFFICES ASSUME NEW i \in 1..Len(s), NEW k \in 1..Len(r), s[i] = r[k] PROVE FALSE
      OBVIOUS
    <3>1. i = k + Len(s)
      BY <1>1, <2>1, <2>2
    <3> QED
      BY <3>1, Elements
  <2> QED
    BY <2>3, <2>4, <2>5, Repeats, Elements
<1>5. ASSUME IsInjective(s), IsInjective(r), ToSet(s) \cap ToSet(r) = {}
      PROVE  IsInjective(j)
  <2>1. /\ \A i, k \in 1..Len(s) : s[i] = s[k] => i = k
        /\ \A i, k \in 1..Len(r) : r[i] = r[k] => i = k
        /\ \A i \in 1..Len(s), k \in 1..Len(r) : s[i] # r[k]
    BY <1>5, Repeats, Elements
  <2>2. \A i, k \in 1..Len(j) : j[i] = j[k] => i = k
    <3> SUFFICES ASSUME NEW i \in 1..Len(j), NEW k \in 1..Len(j), j[i] = j[k] PROVE i = k
      OBVIOUS
    <3>1. CASE i \in 1..Len(s) /\ k \in 1..Len(s)
      BY <1>1, <2>1, <3>1
    <3>2. CASE i \in 1..Len(s) /\ k - Len(s) \in 1..Len(r)
      BY <1>1, <1>2, <2>1, <3>2
    <3>3. CASE i - Len(s) \in 1..Len(r) /\ k \in 1..Len(s)
      BY <1>1, <1>2, <2>1, <3>3
    <3>4. CASE i - Len(s) \in 1..Len(r) /\ k - Len(s) \in 1..Len(r)
      <4>1. r[i - Len(s)] = r[k - Len(s)]
        BY <1>1, <1>2, <3>4
      <4> QED
        BY <2>1, <3>4, <4>1, Elements
    <3> QED
      BY <1>2, <3>1, <3>2, <3>3, <3>4
  <2> HIDE DEF j
  <2> QED
    BY <1>1, <2>2, Repeats
<1> QED
  BY <1>1, <1>3, <1>4, <1>5

(* First and Rest divide a sequence.                                       *)
LEMMA Divided ==
    ASSUME NEW s \in Line, NEW n \in Nat
    PROVE  /\ First(s, n) \in Line /\ Rest(s, n) \in Line
           /\ s = First(s, n) \o Rest(s, n)
           /\ Len(First(s, n)) <= n /\ Len(First(s, n)) + Len(Rest(s, n)) = Len(s)
           /\ ToSet(First(s, n)) \cup ToSet(Rest(s, n)) = ToSet(s)
           /\ IsInjective(s) => /\ IsInjective(First(s, n)) /\ IsInjective(Rest(s, n))
                                /\ ToSet(First(s, n)) \cap ToSet(Rest(s, n)) = {}
<1>1. Len(s) \in Nat
  BY Elements
<1>2. PICK m \in Nat : m = Min({n, Len(s)}) /\ m <= n /\ m <= Len(s)
  BY <1>1 DEF Min
<1>3. First(s, n) = SubSeq(s, 1, m) /\ Rest(s, n) = SubSeq(s, m + 1, Len(s))
  BY <1>2 DEF First, Rest
<1>4. /\ SubSeq(s, 1, m) \in Line /\ Len(SubSeq(s, 1, m)) = m
      /\ SubSeq(s, m + 1, Len(s)) \in Line
  <2>1. /\ \A i \in 1..m : s[i] \in Torrents
        /\ \A i \in (m + 1)..Len(s) : s[i] \in Torrents
    <3>1. \A i \in 1..Len(s) : s[i] \in Torrents
      BY Elements
    <3>2. \A i : i \in 1..m \/ i \in (m + 1)..Len(s) => i \in 1..Len(s)
      BY <1>1, <1>2
    <3> QED
      BY <3>1, <3>2
  <2>2. \A a, b \in Int : (\A i \in a..b : s[i] \in Torrents)
                          => /\ SubSeq(s, a, b) \in Line
                             /\ Len(SubSeq(s, a, b)) = IF a <= b THEN b - a + 1 ELSE 0
    BY SubSeqProperties DEF Line
  <2>3. 1 \in Int /\ m \in Int /\ m + 1 \in Int /\ Len(s) \in Int
    BY <1>1, <1>2
  <2>4. /\ SubSeq(s, 1, m) \in Line /\ Len(SubSeq(s, 1, m)) = IF 1 <= m THEN m - 1 + 1 ELSE 0
        /\ SubSeq(s, m + 1, Len(s)) \in Line
    BY <2>1, <2>2, <2>3
  <2> QED
    BY <1>2, <2>4
<1>5. SubSeq(s, 1, m) \o SubSeq(s, m + 1, Len(s)) = s
  <2>1. SubSeq(s, 1, m) \o SubSeq(s, m + 1, Len(s)) = SubSeq(s, 1, Len(s))
    <3>1. 1 \in 1..(Len(s) + 1) /\ m \in (1 - 1)..Len(s) /\ Len(s) \in m..Len(s)
      BY <1>1, <1>2
    <3> QED
      BY <3>1, ConcatAdjacentSubSeq DEF Line
  <2> QED
    BY <2>1, SubSeqFull DEF Line
<1> DEFINE f == First(s, n)
           r == Rest(s, n)
<1>6. f \in Line /\ r \in Line /\ Len(f) = m /\ s = f \o r
  BY <1>3, <1>4, <1>5
<1> HIDE DEF f, r
<1>7. /\ Len(f \o r) = Len(f) + Len(r)
      /\ ToSet(f \o r) = ToSet(f) \cup ToSet(r)
      /\ IsInjective(f \o r) <=> IsInjective(f) /\ IsInjective(r) /\ ToSet(f) \cap ToSet(r) = {}
  BY <1>6, Joined
<1>8. /\ f \in Line /\ r \in Line /\ s = f \o r /\ Len(f) <= n /\ Len(f) + Len(r) = Len(s)
      /\ ToSet(f) \cup ToSet(r) = ToSet(s)
      /\ IsInjective(s) => IsInjective(f) /\ IsInjective(r) /\ ToSet(f) \cap ToSet(r) = {}
  BY <1>2, <1>6, <1>7
<1> QED
  BY <1>8 DEF f, r

LEMMA Reversed ==
    ASSUME NEW s \in Line
    PROVE  /\ Reverse(s) \in Line /\ Len(Reverse(s)) = Len(s) /\ ToSet(Reverse(s)) = ToSet(s)
           /\ IsInjective(s) => IsInjective(Reverse(s))
<1>1. PICK n \in Nat : n = Len(s)
  BY Elements
<1> DEFINE v == [i \in 1..n |-> s[(n - i) + 1]]
<1>2. Reverse(s) = v
  BY <1>1 DEF Reverse
<1>3. \A i \in 1..n : (n - i) + 1 \in 1..n /\ s[(n - i) + 1] \in Torrents
  BY <1>1 DEF Line
<1>4. v \in Line /\ Len(v) = n
  BY <1>3 DEF Line
<1>5. \A i \in 1..n : v[i] = s[(n - i) + 1] /\ s[i] = v[(n - i) + 1] /\ (n - i) + 1 \in 1..n
  BY <1>3
<1> HIDE DEF v
<1>6. ToSet(v) = ToSet(s)
  <2>1. \A i \in 1..n : s[i] \in ToSet(s) /\ v[i] \in ToSet(v)
    BY <1>1, <1>4, Elements
  <2>2. \A i \in 1..n : v[i] \in ToSet(s) /\ s[i] \in ToSet(v)
    BY <1>5, <2>1
  <2> QED
    BY <1>1, <1>4, <2>2, Within
<1>7. ASSUME IsInjective(s) PROVE IsInjective(v)
  <2>1. \A i, j \in 1..n : v[i] = v[j] => i = j
    <3> SUFFICES ASSUME NEW i \in 1..n, NEW j \in 1..n, v[i] = v[j] PROVE i = j
      OBVIOUS
    <3>0. \A k, l \in 1..n : s[k] = s[l] => k = l
      BY <1>1, <1>7, Repeats
    <3>1. (n - i) + 1 = (n - j) + 1
      BY <1>5, <3>0
    <3> QED
      BY <3>1
  <2> QED
    BY <1>4, <2>1, Repeats
<1> QED
  BY <1>1, <1>2, <1>4, <1>6, <1>7

LEMMA Appended ==
    ASSUME NEW s \in Line, NEW t \in Torrents
    PROVE  /\ Append(s, t) \in Line /\ Len(Append(s, t)) = Len(s) + 1
           /\ ToSet(Append(s, t)) = ToSet(s) \cup {t}
           /\ IsInjective(s) /\ t \notin ToSet(s) => IsInjective(Append(s, t))
<1>1. Append(s, t) = s \o <<t>>
  BY AppendIsConcat DEF Line
<1>2. <<t>> \in Line /\ Len(<<t>>) = 1 /\ ToSet(<<t>>) = {t} /\ IsInjective(<<t>>)
  BY DEF Line, ToSet, IsInjective
<1> QED
  BY <1>1, <1>2, Joined

LEMMA Advanced ==
    ASSUME NEW s \in Line, s # <<>>
    PROVE  Head(s) \in Torrents /\ Tail(s) \in Line /\ ToSet(s) = ToSet(Tail(s)) \cup {Head(s)}
<1>1. /\ Head(s) \in Torrents /\ Tail(s) \in Line /\ Len(Tail(s)) = Len(s) - 1 /\ s[1] = Head(s)
      /\ \A i \in 1..Len(Tail(s)) : Tail(s)[i] = s[i + 1]
      /\ Len(s) \in Nat /\ Len(s) # 0
  BY DEF Line
<1>2. \A i \in 1..Len(s) : i = 1 \/ (i - 1 \in 1..Len(Tail(s)) /\ s[i] = Tail(s)[i - 1])
  BY <1>1
<1>3. \A i \in 1..Len(Tail(s)) : i + 1 \in 1..Len(s)
  BY <1>1
<1>4. 1 \in 1..Len(s)
  BY <1>1
<1>5. /\ \A i \in 1..Len(s) : s[i] \in ToSet(s)
      /\ \A i \in 1..Len(Tail(s)) : Tail(s)[i] \in ToSet(Tail(s))
  BY <1>1, Elements
<1>6. \A i \in 1..Len(s) : s[i] \in ToSet(Tail(s)) \cup {Head(s)}
  BY <1>1, <1>2, <1>5
<1>7. \A i \in 1..Len(Tail(s)) : Tail(s)[i] \in ToSet(s)
  BY <1>1, <1>3, <1>5
<1>8. ToSet(s) \subseteq ToSet(Tail(s)) \cup {Head(s)} /\ ToSet(Tail(s)) \subseteq ToSet(s)
  BY <1>1, <1>6, <1>7, Within
<1>9. Head(s) \in ToSet(s)
  BY <1>1, <1>4, <1>5
<1> QED
  BY <1>1, <1>8, <1>9

(* Induction over the natural numbers, for a set of them.                  *)
LEMMA NatSetInduction ==
  ASSUME NEW A, 0 \in A, \A n \in Nat : n \in A => n + 1 \in A
  PROVE  Nat \subseteq A
<1> DEFINE T == Nat \ A
<1> SUFFICES ASSUME T # {} PROVE FALSE
  OBVIOUS
<1>1. \E x \in T : \A y \in T : ~(<<y, x>> \in OpToRel(<, Nat))
  <2>1. IsWellFoundedOn(OpToRel(<, Nat), Nat) /\ T \subseteq Nat
    BY NatLessThanWellFounded
  <2> HIDE DEF T
  <2> QED
    BY <2>1, WFMin
<1>2. PICK x \in T : \A y \in T : ~(y < x)
  BY <1>1 DEF OpToRel
<1>3. x # 0 /\ x - 1 \in Nat /\ x - 1 \notin A
  BY <1>2
<1> QED
  BY <1>2, <1>3

(* The prefixes of a sequence without the elements of a set: they exist,   *)
(* so the definition of Without says what it means to say.                 *)
Kept(k, n, s, S) ==
    k = [i \in 0..n |-> IF i = 0 THEN <<>>
                        ELSE IF s[i] \in S THEN k[i - 1] ELSE Append(k[i - 1], s[i])]

LEMMA KeptExists ==
    ASSUME NEW n \in Nat, NEW s, NEW S
    PROVE  \E k : Kept(k, n, s, S)
<1> DEFINE step(x, i) == IF s[i] \in S THEN x ELSE Append(x, s[i])
           Follows(m, k) == k[0] = <<>> /\ \A i \in 1..m : k[i] = step(k[i - 1], i)
           Has(m) == \E k : Follows(m, k)
           A == {m \in Nat : Has(m)}
<1> HIDE DEF step
<1>1. Has(0)
  <2> DEFINE k == [i \in 0..0 |-> <<>>]
  <2>1. Follows(0, k)
    OBVIOUS
  <2> QED
    BY <2>1
<1>2. ASSUME NEW m \in Nat, Has(m)
      PROVE  Has(m + 1)
  <2>1. PICK k : Follows(m, k)
    BY <1>2
  <2> DEFINE at(i) == IF i <= m THEN k[i] ELSE step(k[m], m + 1)
             l == [i \in 0..(m + 1) |-> at(i)]
  <2>2. ASSUME NEW i \in 1..(m + 1)
        PROVE  l[i] = step(l[i - 1], i)
    <3>1. i \in 0..(m + 1) /\ i - 1 \in 0..(m + 1) /\ i - 1 <= m
      OBVIOUS
    <3>2. l[i] = at(i) /\ l[i - 1] = k[i - 1]
      BY <3>1
    <3>3. CASE i <= m
      BY <2>1, <3>2, <3>3
    <3>4. CASE i = m + 1
      BY <3>2, <3>4
    <3> QED
      BY <3>3, <3>4
  <2>3. l[0] = <<>>
    BY <2>1
  <2> HIDE DEF l
  <2> QED
    BY <2>2, <2>3
<1>3. Has(n)
  <2> HIDE DEF Has
  <2>1. 0 \in A
    BY <1>1
  <2>2. ASSUME NEW m \in Nat, m \in A PROVE m + 1 \in A
    BY <1>2, <2>2
  <2> HIDE DEF A
  <2>3. Nat \subseteq A
    BY <2>1, <2>2, NatSetInduction
  <2>4. n \in A
    BY <2>3
  <2> QED
    BY <2>4 DEF A
<1>4. PICK k : Follows(n, k)
  BY <1>3
<1> DEFINE l == [i \in 0..n |-> k[i]]
<1>5. \A i \in 0..n : l[i] = IF i = 0 THEN <<>> ELSE step(l[i - 1], i)
  <2>1. \A i \in 0..n : i # 0 => i \in 1..n /\ i - 1 \in 0..n
    OBVIOUS
  <2> QED
    BY <1>4, <2>1
<1>6. l = [i \in 0..n |-> IF i = 0 THEN <<>> ELSE step(l[i - 1], i)]
  <2>1. l = [i \in 0..n |-> l[i]]
    OBVIOUS
  <2> HIDE DEF l
  <2> QED
    BY <1>5, <2>1
<1>7. Kept(l, n, s, S)
  <2> HIDE DEF l
  <2> QED
    BY <1>6 DEF Kept, step
<1> QED
  BY <1>7

LEMMA Removed ==
    ASSUME NEW s \in Line, NEW S
    PROVE  /\ Without(s, S) \in Line /\ Len(Without(s, S)) <= Len(s)
           /\ ToSet(Without(s, S)) = ToSet(s) \ S
           /\ IsInjective(s) => IsInjective(Without(s, S))
<1>1. PICK n \in Nat : n = Len(s)
  BY Elements
<1>2. PICK k : Kept(k, n, s, S) /\ Without(s, S) = k[n]
  <2> DEFINE k == CHOOSE k : Kept(k, n, s, S)
  <2>1. Kept(k, n, s, S)
    <3> HIDE DEF Kept
    <3> QED
      BY KeptExists
  <2>2. Without(s, S) = k[n]
    BY <1>1 DEF Without, Kept
  <2> QED
    BY <2>1, <2>2
<1>3. /\ k[0] = <<>>
      /\ \A i \in 1..n : k[i] = IF s[i] \in S THEN k[i - 1] ELSE Append(k[i - 1], s[i])
  <2>1. \A i \in 0..n : k[i] = IF i = 0 THEN <<>>
                               ELSE IF s[i] \in S THEN k[i - 1] ELSE Append(k[i - 1], s[i])
    BY <1>2 DEF Kept
  <2> QED
    BY <2>1
<1> DEFINE Until(m) == {t \in Torrents : \E i \in 1..m : s[i] = t}
           Good(m) == m <= n => /\ k[m] \in Line /\ Len(k[m]) <= m
                                /\ ToSet(k[m]) = Until(m) \ S
                                /\ IsInjective(s) => IsInjective(k[m])
           A == {m \in Nat : Good(m)}
<1>4. Good(0)
  BY <1>3, EmptyLine
<1>5. ASSUME NEW m \in Nat, Good(m)
      PROVE  Good(m + 1)
  <2> SUFFICES ASSUME m + 1 <= n
               PROVE  /\ k[m + 1] \in Line /\ Len(k[m + 1]) <= m + 1
                      /\ ToSet(k[m + 1]) = Until(m + 1) \ S
                      /\ IsInjective(s) => IsInjective(k[m + 1])
    OBVIOUS
  <2>1. PICK x \in Line : /\ x = k[m] /\ Len(x) <= m /\ ToSet(x) = Until(m) \ S
                          /\ IsInjective(s) => IsInjective(x)
    BY <1>5
  <2>2. PICK t \in Torrents : t = s[m + 1]
    BY <1>1 DEF Line
  <2>3. Until(m + 1) = Until(m) \cup {t}
    <3>1. \A i \in 1..(m + 1) : i \in 1..m \/ i = m + 1
      OBVIOUS
    <3>2. m + 1 \in 1..(m + 1) /\ \A i \in 1..m : i \in 1..(m + 1)
      OBVIOUS
    <3> QED
      BY <2>2, <3>1, <3>2
  <2>4. k[m + 1] = IF t \in S THEN x ELSE Append(x, t)
    <3>1. m + 1 \in 1..n /\ (m + 1) - 1 = m
      BY <1>1
    <3> QED
      BY <1>3, <2>1, <2>2, <3>1
  <2>5. IsInjective(s) => t \notin Until(m)
    <3> SUFFICES ASSUME IsInjective(s), NEW i \in 1..m, s[i] = t PROVE FALSE
      OBVIOUS
    <3>1. i \in 1..Len(s) /\ m + 1 \in 1..Len(s) /\ i # m + 1
      BY <1>1
    <3> QED
      BY <2>2, <3>1, Repeats
  <2>6. Len(x) \in Nat
    BY Elements
  <2> HIDE DEF Until
  <2>7. CASE t \in S
    BY <2>1, <2>3, <2>4, <2>6, <2>7
  <2>8. CASE t \notin S
    <3>1. /\ Append(x, t) \in Line /\ Len(Append(x, t)) = Len(x) + 1
          /\ ToSet(Append(x, t)) = ToSet(x) \cup {t}
          /\ IsInjective(x) /\ t \notin ToSet(x) => IsInjective(Append(x, t))
      BY Appended
    <3> QED
      BY <2>1, <2>3, <2>4, <2>5, <2>6, <2>8, <3>1
  <2> QED
    BY <2>7, <2>8
<1>6. Good(n)
  <2> HIDE DEF Good
  <2>1. 0 \in A
    BY <1>4
  <2>2. ASSUME NEW m \in Nat, m \in A PROVE m + 1 \in A
    BY <1>5, <2>2
  <2> HIDE DEF A
  <2>3. Nat \subseteq A
    BY <2>1, <2>2, NatSetInduction
  <2>4. n \in A
    BY <2>3
  <2> QED
    BY <2>4 DEF A
<1>7. Until(n) = ToSet(s)
  BY <1>1, Elements
<1> QED
  BY <1>1, <1>2, <1>6, <1>7

(* The sequences that list a set, and how many a sequence can list.        *)
LEMMA Listing ==
    ASSUME NEW S, S \subseteq Torrents, NEW s \in SetToSeqs(S)
    PROVE  s \in Line /\ IsInjective(s) /\ ToSet(s) \subseteq S
<1>1. PICK n \in Nat : n = Cardinality(S)
  <2>1. IsFiniteSet(S)
    BY CheckQueueAssumption, FS_Subset
  <2> QED
    BY <2>1, FS_CardinalityType
<1>2. s \in [1..n -> S] /\ \A i, j \in 1..n : i # j => s[i] # s[j]
  BY <1>1 DEF SetToSeqs
<1>3. s \in Line /\ Len(s) = n
  BY <1>2 DEF Line
<1> QED
  BY <1>2, <1>3, Repeats, Within

LEMMA Counted ==
    ASSUME NEW S, S \subseteq Torrents
    PROVE  /\ IsFiniteSet(S) /\ Cardinality(S) \in Nat
           /\ \A R : R \subseteq S => Cardinality(R) <= Cardinality(S)
           /\ \A s \in Line : Cardinality(S \cup ToSet(s)) <= Cardinality(S) + Len(s)
<1>1. IsFiniteSet(S) /\ Cardinality(S) \in Nat
  BY CheckQueueAssumption, FS_Subset, FS_CardinalityType
<1>2. \A R : R \subseteq S => Cardinality(R) <= Cardinality(S)
  BY <1>1, FS_Subset
<1>3. ASSUME NEW s \in Line
      PROVE  Cardinality(S \cup ToSet(s)) <= Cardinality(S) + Len(s)
  <2>1. Len(s) \in Nat /\ ToSet(s) \subseteq Torrents
    BY Elements
  <2>2. IsFiniteSet(1..Len(s)) /\ Cardinality(1..Len(s)) = Len(s)
    <3>1. /\ IsFiniteSet(1..Len(s))
          /\ Cardinality(1..Len(s)) = IF 1 > Len(s) THEN 0 ELSE Len(s) - 1 + 1
      BY <2>1, FS_Interval
    <3> QED
      BY <2>1, <3>1
  <2>3. s \in Surjection(1..Len(s), ToSet(s))
    <3>1. s \in [1..Len(s) -> ToSet(s)]
      <4>1. s \in [1..Len(s) -> Torrents]
        BY DEF Line
      <4> QED
        BY <4>1, Elements
    <3> QED
      BY <3>1, Elements DEF Surjection
  <2>4. IsFiniteSet(ToSet(s)) /\ Cardinality(ToSet(s)) <= Len(s)
    BY <2>2, <2>3, FS_Surjection
  <2>5. /\ Cardinality(S \cup ToSet(s)) =
              Cardinality(S) + Cardinality(ToSet(s)) - Cardinality(S \cap ToSet(s))
        /\ Cardinality(ToSet(s)) \in Nat /\ Cardinality(S \cap ToSet(s)) \in Nat
    BY <1>1, <2>4, FS_Union, FS_Intersection, FS_CardinalityType
  <2> QED
    BY <1>1, <2>1, <2>4, <2>5
<1> QED
  BY <1>1, <1>2, <1>3

LEMMA Differs ==
    ASSUME NEW x \in Nat, NEW y \in Nat
    PROVE  Minus(x, y) \in Nat /\ Minus(x, y) = IF x > y THEN x - y ELSE 0
<1> QED
  BY DEF Minus
-----------------------------------------------------------------------------
(* The inductive invariant.  The admission's sequences and sets agree;     *)
(* what a request, a recheck or the loop is about to resume has no place   *)
(* in the admission, or no longer waits.                                   *)
LoopState == [seen : [Torrents -> States \cup {"unread", "gone"}], pause : Line, resume : Line]
Handle == [here : BOOLEAN, state : States, paused : BOOLEAN]

AdmitTyped ==
    /\ held \in Line /\ queued \in Line /\ probing \in Line
    /\ hashing \subseteq Torrents /\ waiting \subseteq Torrents
    /\ known \subseteq Torrents /\ sawFull \subseteq Torrents
QueueTyped == order \in Line /\ job \in [Torrents -> Jobs]
DiskTyped == userPaused \subseteq Torrents /\ savedPaused \subseteq Torrents
Typed ==
    /\ limit \in Limits /\ AdmitTyped /\ QueueTyped /\ DiskTyped
    /\ loop \in LoopState /\ lt \in [Torrents -> Handle]
    /\ op \in [Torrents -> Steps] /\ restarts \in 0..MaxRestarts

Placed(h, q, p, x) ==
    /\ IsInjective(h) /\ IsInjective(q) /\ IsInjective(p)
    /\ ToSet(h) \cap ToSet(q) = {} /\ ToSet(h) \cap ToSet(p) = {} /\ ToSet(q) \cap ToSet(p) = {}
    /\ (ToSet(h) \cup ToSet(q) \cup ToSet(p)) \cap x = {}
AdmitPlaced ==
    /\ Placed(held, queued, probing, hashing)
    /\ waiting = ToSet(held) \cup ToSet(queued)
    /\ known = ToSet(held) \cup ToSet(queued) \cup ToSet(probing) \cup hashing
    /\ sawFull \subseteq hashing
QueuePlaced == IsInjective(order) /\ ToSet(order) \cap Running = {}

Rechecked == Running \cup ToSet(order)
Apart ==
    /\ Rechecked \cap known = {}
    /\ ToSet(loop.resume) \cap waiting = {}
    /\ \A t \in known : op[t] # "resume"

CheckQueueInv == Typed /\ AdmitPlaced /\ QueuePlaced /\ WaitingIsPaused /\ Apart

LEMMA Places ==
    ASSUME NEW h \in Line, NEW q \in Line, NEW p \in Line, NEW x
    PROVE  /\ ToSet(h \o q \o p) = ToSet(h) \cup ToSet(q) \cup ToSet(p)
           /\ IsInjective(h \o q \o p) /\ ToSet(h \o q \o p) \cap x = {} <=> Placed(h, q, p, x)
<1>1. /\ h \o q \in Line /\ ToSet(h \o q) = ToSet(h) \cup ToSet(q)
      /\ IsInjective(h \o q) <=> IsInjective(h) /\ IsInjective(q) /\ ToSet(h) \cap ToSet(q) = {}
  BY Joined
<1> DEFINE a == h \o q
<1> HIDE DEF a
<1>2. a \in Line
  BY <1>1 DEF a
<1>3. /\ ToSet(a \o p) = ToSet(a) \cup ToSet(p)
      /\ IsInjective(a \o p) <=> IsInjective(a) /\ IsInjective(p) /\ ToSet(a) \cap ToSet(p) = {}
  BY <1>2, Joined
<1> QED
  BY <1>1, <1>3 DEF a, Placed

LEMMA InvariantSays == CheckQueueInv => TypeOK /\ OnePlace /\ WaitingIsPaused
<1> SUFFICES ASSUME CheckQueueInv PROVE TypeOK /\ OnePlace
  BY DEF CheckQueueInv
<1>1. TypeOK
  <2>1. loop.seen \in [Torrents -> States \cup {"unread", "gone"}] /\ loop.pause \in Line /\ loop.resume \in Line
    BY DEF CheckQueueInv, Typed, LoopState
  <2> QED
    BY <2>1 DEF CheckQueueInv, Typed, AdmitTyped, QueueTyped, DiskTyped, Handle, Line, TypeOK
<1>2. OnePlace
  <2>1. held \in Line /\ queued \in Line /\ probing \in Line
    BY DEF CheckQueueInv, Typed, AdmitTyped
  <2>2. /\ ToSet(held \o queued \o probing) = ToSet(held) \cup ToSet(queued) \cup ToSet(probing)
        /\ IsInjective(held \o queued \o probing) /\ ToSet(held \o queued \o probing) \cap hashing = {}
    BY <2>1, Places DEF CheckQueueInv, AdmitPlaced
  <2> QED
    BY <2>2 DEF CheckQueueInv, AdmitPlaced, QueuePlaced, OnePlace
<1> QED
  BY <1>1, <1>2

(* drop, and the queue of rechecks.                                        *)
LEMMA DropGives ==
    ASSUME AdmitTyped, AdmitPlaced, NEW t, Drop(t)
    PROVE  /\ AdmitTyped' /\ AdmitPlaced' /\ waiting' = waiting \ {t} /\ known' = known \ {t}
           /\ Len(probing') <= Len(probing) /\ hashing' \subseteq hashing
<1>1. /\ held' \in Line /\ ToSet(held') = ToSet(held) \ {t} /\ IsInjective(held')
      /\ queued' \in Line /\ ToSet(queued') = ToSet(queued) \ {t} /\ IsInjective(queued')
      /\ probing' \in Line /\ ToSet(probing') = ToSet(probing) \ {t} /\ IsInjective(probing')
      /\ Len(probing') <= Len(probing)
  BY Removed DEF AdmitTyped, AdmitPlaced, Placed, Drop
<1>2. /\ hashing' = hashing \ {t} /\ waiting' = waiting \ {t} /\ known' = known \ {t}
      /\ sawFull' = sawFull \ {t}
  BY DEF Drop
<1>3. AdmitTyped'
  BY <1>1, <1>2 DEF AdmitTyped
<1>4. AdmitPlaced'
  BY <1>1, <1>2 DEF AdmitPlaced, Placed
<1> QED
  BY <1>1, <1>2, <1>3, <1>4

LEMMA PumpGives ==
    ASSUME QueueTyped, NEW w \in Line, IsInjective(w), NEW running, running \subseteq Running,
           ToSet(w) \cap running = {}, NEW n \in Nat, Pump(w, running, n)
    PROVE  /\ QueueTyped' /\ QueuePlaced' /\ Rechecked' = running \cup ToSet(w)
           /\ Running' \subseteq running \/ Cardinality(Running') <= n
<1>1. PICK m \in Nat : m = Minus(n, Cardinality(running))
  <2>1. Cardinality(running) \in Nat
    BY Counted DEF Running
  <2> QED
    BY <2>1, Differs
<1>2. PICK started \in Line : started = First(w, m)
  BY Divided
<1>3. /\ order' = Rest(w, m)
      /\ job' = [t \in Torrents |-> CASE t \in ToSet(started) -> "recheck"
                                      [] t \in running \ ToSet(started) -> job[t]
                                      [] OTHER -> "none"]
  BY <1>1, <1>2 DEF Pump
<1>4. /\ order' \in Line /\ ToSet(started) \cup ToSet(order') = ToSet(w) /\ IsInjective(order')
      /\ ToSet(started) \cap ToSet(order') = {}
  BY <1>2, <1>3, Divided
<1>5. ToSet(started) \subseteq Torrents
  BY Elements
<1>6. ASSUME NEW t \in Torrents
      PROVE  job'[t] \in Jobs /\ (job'[t] # "none" <=> t \in running \/ t \in ToSet(started))
  <2>1. job[t] \in Jobs /\ (t \in running => job[t] # "none")
    BY DEF QueueTyped, Running
  <2>2. CASE t \in ToSet(started)
    BY <1>3, <2>2 DEF Jobs
  <2>3. CASE t \in running \ ToSet(started)
    BY <1>3, <2>1, <2>3
  <2>4. CASE t \notin running /\ t \notin ToSet(started)
    BY <1>3, <2>4 DEF Jobs
  <2> QED
    BY <2>2, <2>3, <2>4
<1>7. QueueTyped'
  <2>1. job' \in [Torrents -> Jobs]
    BY <1>3, <1>6
  <2> QED
    BY <1>4, <2>1 DEF QueueTyped
<1>8. Running' = running \cup ToSet(started)
  BY <1>5, <1>6 DEF Running
<1>9. Running' \subseteq running \/ Cardinality(Running') <= n
  <2>1. /\ running \subseteq Torrents /\ Cardinality(running) \in Nat
        /\ Cardinality(running \cup ToSet(started)) <= Cardinality(running) + Len(started)
    BY Counted DEF Running
  <2>2. Len(started) \in Nat /\ Len(started) <= m /\ (Len(started) = 0 => ToSet(started) = {})
    BY <1>2, Divided, Elements
  <2>3. m = IF n > Cardinality(running) THEN n - Cardinality(running) ELSE 0
    BY <1>1, <2>1, Differs
  <2>4. CASE Len(started) = 0
    BY <1>8, <2>2, <2>4
  <2>5. CASE Len(started) > 0
    <3>1. Cardinality(running) + Len(started) <= n
      BY <2>1, <2>2, <2>3, <2>5
    <3>2. Cardinality(running \cup ToSet(started)) \in Nat
      BY <1>5, <2>1, Counted
    <3> QED
      BY <1>8, <2>1, <2>2, <3>1, <3>2
  <2> QED
    BY <2>2, <2>4, <2>5
<1> QED
  BY <1>4, <1>7, <1>8, <1>9 DEF QueuePlaced, Rechecked
-----------------------------------------------------------------------------
(* Each step keeps the invariant.                                          *)
LEMMA Parts ==
    ASSUME CheckQueueInv
    PROVE  /\ Typed /\ AdmitTyped /\ AdmitPlaced /\ QueueTyped /\ QueuePlaced /\ DiskTyped /\ Apart
           /\ limit \in Nat /\ waiting \subseteq known /\ Running \subseteq Torrents
           /\ loop \in LoopState /\ lt \in [Torrents -> Handle] /\ op \in [Torrents -> Steps]
           /\ \A t \in waiting : lt[t].here /\ t \notin ToSet(loop.pause) => lt[t].paused
<1> QED
  BY CheckQueueAssumption
  DEF CheckQueueInv, Typed, AdmitPlaced, Running, WaitingIsPaused

(* What the admission and the queue of rechecks keep while they rest.      *)
LEMMA AdmitRests ==
    ASSUME AdmitTyped, AdmitPlaced, UNCHANGED admit
    PROVE  AdmitTyped' /\ AdmitPlaced' /\ waiting' = waiting /\ known' = known
<1> QED
  BY DEF admit, AdmitTyped, AdmitPlaced

LEMMA QueueRests ==
    ASSUME QueueTyped, QueuePlaced, UNCHANGED hashQueue
    PROVE  QueueTyped' /\ QueuePlaced' /\ Rechecked' = Rechecked
<1> QED
  BY DEF hashQueue, QueueTyped, QueuePlaced, Rechecked, Running

LEMMA SetPausedGives ==
    ASSUME lt \in [Torrents -> Handle], NEW t \in Torrents, NEW b \in BOOLEAN, SetPaused(t, b)
    PROVE  /\ lt' \in [Torrents -> Handle]
           /\ \A u \in Torrents : lt'[u].here = lt[u].here
           /\ \A u \in Torrents \ {t} : lt'[u] = lt[u]
           /\ lt[t].here => lt'[t].paused = b
<1> QED
  BY DEF SetPaused, Handle

LEMMA CheckKeeps ==
    ASSUME CheckQueueInv, NEW t \in Torrents, Check(t)
    PROVE  CheckQueueInv'
<1>1. /\ lt' \in [Torrents -> Handle]
      /\ \A u \in Torrents : lt'[u].here = lt[u].here /\ lt'[u].paused = lt[u].paused
  BY Parts DEF Check, Handle, States
<1>2. AdmitTyped' /\ AdmitPlaced' /\ waiting' = waiting /\ known' = known
  BY Parts, AdmitRests DEF Check
<1>3. QueueTyped' /\ QueuePlaced' /\ Rechecked' = Rechecked
  BY Parts, QueueRests DEF Check
<1>4. UNCHANGED <<limit, loop, userPaused, savedPaused, op, restarts>>
  BY DEF Check, disk
<1>5. Typed'
  BY Parts, <1>1, <1>2, <1>3, <1>4 DEF Typed, DiskTyped
<1>6. WaitingIsPaused'
  BY Parts, <1>1, <1>2, <1>4 DEF AdmitTyped, WaitingIsPaused
<1>7. Apart'
  BY Parts, <1>2, <1>3, <1>4 DEF Apart
<1> QED
  BY <1>2, <1>3, <1>5, <1>6, <1>7 DEF CheckQueueInv

LEMMA JobRecheckKeeps ==
    ASSUME CheckQueueInv, NEW t \in Torrents, JobRecheck(t)
    PROVE  CheckQueueInv'
<1>1. /\ lt' \in [Torrents -> Handle] /\ \A u \in Torrents \ {t} : lt'[u] = lt[u]
  BY Parts DEF JobRecheck, Handle, States
<1>2. AdmitTyped' /\ AdmitPlaced' /\ waiting' = waiting /\ known' = known
  BY Parts, AdmitRests DEF JobRecheck
<1>3. UNCHANGED <<limit, order, loop, userPaused, savedPaused, op, restarts>>
  BY DEF JobRecheck, disk
<1>4. QueueTyped' /\ t \in Running /\ Running' = Running
  BY Parts DEF JobRecheck, QueueTyped, Jobs, Running
<1>5. QueuePlaced' /\ Rechecked' = Rechecked
  BY Parts, <1>3, <1>4 DEF QueuePlaced, Rechecked
<1>6. Typed'
  BY Parts, <1>1, <1>2, <1>3, <1>4 DEF Typed, DiskTyped
<1>7. t \notin waiting
  BY Parts, <1>4 DEF Apart, Rechecked
<1>8. WaitingIsPaused'
  BY Parts, <1>1, <1>2, <1>3, <1>7 DEF AdmitTyped, WaitingIsPaused
<1>9. Apart'
  BY Parts, <1>2, <1>3, <1>5 DEF Apart
<1> QED
  BY <1>2, <1>5, <1>6, <1>8, <1>9 DEF CheckQueueInv

LEMMA PumpKeeps ==
    ASSUME CheckQueueInv, NEW running, running \subseteq Running, NEW n \in Limits,
           Pump(order, running, n), limit' = n, UNCHANGED <<admit, loop, lt, disk, op, restarts>>
    PROVE  CheckQueueInv'
<1>1. AdmitTyped' /\ AdmitPlaced' /\ waiting' = waiting /\ known' = known
  BY Parts, AdmitRests
<1>2. QueueTyped' /\ QueuePlaced' /\ Rechecked' = running \cup ToSet(order)
  <2>1. n \in Nat /\ order \in Line /\ IsInjective(order) /\ ToSet(order) \cap running = {}
    BY Parts, CheckQueueAssumption DEF QueueTyped, QueuePlaced
  <2> QED
    BY Parts, <2>1, PumpGives
<1>3. UNCHANGED <<userPaused, savedPaused>>
  BY DEF disk
<1>4. Typed'
  BY Parts, <1>1, <1>2, <1>3 DEF Typed, DiskTyped
<1>5. WaitingIsPaused'
  BY Parts, <1>1 DEF AdmitTyped, WaitingIsPaused
<1>6. Apart'
  BY Parts, <1>1, <1>2 DEF Apart, Rechecked
<1> QED
  BY <1>1, <1>2, <1>4, <1>5, <1>6 DEF CheckQueueInv

LEMMA JobEndsKeeps ==
    ASSUME CheckQueueInv, NEW t \in Torrents, JobEnds(t)
    PROVE  CheckQueueInv'
<1>1. limit \in Limits
  BY DEF CheckQueueInv, Typed
<1> QED
  BY <1>1, PumpKeeps DEF JobEnds

LEMMA SetHashLimitKeeps ==
    ASSUME CheckQueueInv, NEW n \in Limits, SetHashLimit(n)
    PROVE  CheckQueueInv'
<1> QED
  BY PumpKeeps DEF SetHashLimit

LEMMA ReadStateKeeps ==
    ASSUME CheckQueueInv, NEW t \in Torrents, ReadState(t)
    PROVE  CheckQueueInv'
<1>1. loop' \in LoopState /\ loop'.pause = loop.pause /\ loop'.resume = loop.resume
  BY Parts DEF ReadState, LoopState, Handle
<1>2. AdmitTyped' /\ AdmitPlaced' /\ waiting' = waiting /\ known' = known
  BY Parts, AdmitRests DEF ReadState
<1>3. QueueTyped' /\ QueuePlaced' /\ Rechecked' = Rechecked
  BY Parts, QueueRests DEF ReadState
<1>4. UNCHANGED <<limit, lt, userPaused, savedPaused, op, restarts>>
  BY DEF ReadState, disk
<1>5. Typed'
  BY Parts, <1>1, <1>2, <1>3, <1>4 DEF Typed, DiskTyped
<1>6. WaitingIsPaused'
  BY Parts, <1>1, <1>2, <1>4 DEF AdmitTyped, WaitingIsPaused
<1>7. Apart'
  BY Parts, <1>1, <1>2, <1>3, <1>4 DEF Apart
<1> QED
  BY <1>2, <1>3, <1>5, <1>6, <1>7 DEF CheckQueueInv

LEMMA TurnGives ==
    ASSUME CheckQueueInv, NEW t \in Torrents, NEW b \in BOOLEAN, QueueTurn(t, b),
           UNCHANGED <<limit, hashQueue, disk, op, restarts>>, loop' \in LoopState
    PROVE  /\ Typed' /\ AdmitPlaced' /\ QueuePlaced'
           /\ waiting' \subseteq waiting /\ known' \subseteq known /\ Rechecked' = Rechecked
           /\ \A u \in Torrents : lt'[u].here = lt[u].here
           /\ \A u \in Torrents \ {t} : lt'[u] = lt[u]
           /\ lt[t].here => lt'[t].paused = b
<1>1. /\ lt' \in [Torrents -> Handle]
      /\ \A u \in Torrents : lt'[u].here = lt[u].here
      /\ \A u \in Torrents \ {t} : lt'[u] = lt[u]
      /\ lt[t].here => lt'[t].paused = b
  <2>1. lt \in [Torrents -> Handle] /\ SetPaused(t, b)
    BY Parts DEF QueueTurn
  <2> QED
    BY <2>1, SetPausedGives
<1>2. AdmitTyped' /\ AdmitPlaced' /\ waiting' \subseteq waiting /\ known' \subseteq known
  <2>1. CASE UNCHANGED admit
    BY Parts, <2>1, AdmitRests
  <2>2. CASE Drop(t)
    BY Parts, <2>2, DropGives
  <2> QED
    BY <2>1, <2>2 DEF QueueTurn
<1>3. QueueTyped' /\ QueuePlaced' /\ Rechecked' = Rechecked
  BY Parts, QueueRests
<1>4. UNCHANGED <<userPaused, savedPaused>>
  BY DEF disk
<1>5. Typed'
  BY Parts, <1>1, <1>2, <1>3, <1>4 DEF Typed, DiskTyped
<1> QED
  BY <1>1, <1>2, <1>3, <1>5

LEMMA QueuePauseKeeps == CheckQueueInv /\ QueuePause => CheckQueueInv'
<1> SUFFICES ASSUME CheckQueueInv, QueuePause PROVE CheckQueueInv'
  OBVIOUS
<1>1. loop.pause \in Line /\ loop.pause # <<>>
  BY Parts DEF LoopState, QueuePause
<1>2. PICK t \in Torrents, rest \in Line :
        t = Head(loop.pause) /\ rest = Tail(loop.pause) /\ ToSet(loop.pause) = ToSet(rest) \cup {t}
  BY <1>1, Advanced
<1>3. /\ loop' \in LoopState /\ loop'.pause = rest /\ loop'.resume = loop.resume
  BY Parts, <1>2 DEF QueuePause, LoopState
<1>4. /\ Typed' /\ AdmitPlaced' /\ QueuePlaced'
      /\ waiting' \subseteq waiting /\ known' \subseteq known /\ Rechecked' = Rechecked
      /\ \A u \in Torrents : lt'[u].here = lt[u].here
      /\ \A u \in Torrents \ {t} : lt'[u] = lt[u]
      /\ lt[t].here => lt'[t].paused
  <2>1. QueueTurn(t, TRUE) /\ UNCHANGED <<limit, hashQueue, disk, op, restarts>>
    BY <1>2 DEF QueuePause
  <2> QED
    BY <1>3, <2>1, TurnGives
<1>5. WaitingIsPaused'
  BY Parts, <1>2, <1>3, <1>4 DEF AdmitTyped, WaitingIsPaused
<1>6. Apart'
  BY Parts, <1>3, <1>4 DEF Apart, QueuePause
<1> QED
  BY <1>4, <1>5, <1>6 DEF CheckQueueInv

LEMMA QueueResumeKeeps == CheckQueueInv /\ QueueResume => CheckQueueInv'
<1> SUFFICES ASSUME CheckQueueInv, QueueResume PROVE CheckQueueInv'
  OBVIOUS
<1>1. loop.resume \in Line /\ loop.resume # <<>>
  BY Parts DEF LoopState, QueueResume
<1>2. PICK t \in Torrents, rest \in Line :
        t = Head(loop.resume) /\ rest = Tail(loop.resume) /\ ToSet(loop.resume) = ToSet(rest) \cup {t}
  BY <1>1, Advanced
<1>3. /\ loop' \in LoopState /\ loop'.pause = loop.pause /\ loop'.resume = rest
  BY Parts, <1>2 DEF QueueResume, LoopState
<1>4. /\ Typed' /\ AdmitPlaced' /\ QueuePlaced'
      /\ waiting' \subseteq waiting /\ known' \subseteq known /\ Rechecked' = Rechecked
      /\ \A u \in Torrents : lt'[u].here = lt[u].here
      /\ \A u \in Torrents \ {t} : lt'[u] = lt[u]
  <2>1. QueueTurn(t, FALSE) /\ UNCHANGED <<limit, hashQueue, disk, op, restarts>>
    BY <1>2 DEF QueueResume
  <2> QED
    BY <1>3, <2>1, TurnGives
<1>5. t \notin waiting
  BY Parts, <1>2 DEF Apart
<1>6. WaitingIsPaused'
  BY Parts, <1>3, <1>4, <1>5 DEF AdmitTyped, WaitingIsPaused
<1>7. Apart'
  BY Parts, <1>2, <1>3, <1>4 DEF Apart, QueueResume
<1> QED
  BY <1>4, <1>6, <1>7 DEF CheckQueueInv

(* Requests that forget the torrent in the admission.                      *)
LEMMA RequestKeeps ==
    ASSUME CheckQueueInv, NEW t \in Torrents, Drop(t), NEW step \in {"pause", "resume"},
           op' = [op EXCEPT ![t] = step], userPaused' \subseteq Torrents,
           UNCHANGED <<limit, hashQueue, loop, lt, savedPaused, restarts>>
    PROVE  CheckQueueInv'
<1>1. AdmitTyped' /\ AdmitPlaced' /\ waiting' = waiting \ {t} /\ known' = known \ {t}
  BY Parts, DropGives
<1>2. QueueTyped' /\ QueuePlaced' /\ Rechecked' = Rechecked
  BY Parts, QueueRests
<1>3. op' \in [Torrents -> Steps] /\ \A u \in Torrents \ {t} : op'[u] = op[u]
  BY Parts DEF Steps
<1>4. Typed'
  BY Parts, <1>1, <1>2, <1>3 DEF Typed, DiskTyped
<1>5. WaitingIsPaused'
  BY Parts, <1>1 DEF WaitingIsPaused
<1>6. Apart'
  BY Parts, <1>1, <1>2, <1>3 DEF Apart, AdmitTyped
<1> QED
  BY <1>1, <1>2, <1>4, <1>5, <1>6 DEF CheckQueueInv

LEMMA PauseKeeps ==
    ASSUME CheckQueueInv, NEW t \in Torrents, Pause(t)
    PROVE  CheckQueueInv'
<1>1. userPaused' \subseteq Torrents
  BY Parts DEF Pause, DiskTyped
<1> QED
  BY <1>1, RequestKeeps DEF Pause

LEMMA ResumeKeeps ==
    ASSUME CheckQueueInv, NEW t \in Torrents, Resume(t)
    PROVE  CheckQueueInv'
<1>1. userPaused' \subseteq Torrents
  BY Parts DEF Resume, DiskTyped
<1> QED
  BY <1>1, RequestKeeps DEF Resume

(* The steps that leave the admission, the rechecks and the loop alone.    *)
LEMMA AsideKeeps ==
    ASSUME CheckQueueInv, UNCHANGED <<limit, admit, hashQueue, loop, restarts>>,
           lt' \in [Torrents -> Handle], op' \in [Torrents -> Steps], DiskTyped',
           \A t \in waiting : /\ lt'[t].here => lt[t].here
                              /\ lt'[t].here /\ lt[t].paused => lt'[t].paused,
           \A t \in known : op'[t] = "resume" => op[t] = "resume"
    PROVE  CheckQueueInv'
<1>1. AdmitTyped' /\ AdmitPlaced' /\ waiting' = waiting /\ known' = known
  BY Parts, AdmitRests
<1>2. QueueTyped' /\ QueuePlaced' /\ Rechecked' = Rechecked
  BY Parts, QueueRests
<1>3. Typed'
  BY Parts, <1>1, <1>2 DEF Typed
<1>4. WaitingIsPaused'
  BY Parts, <1>1 DEF WaitingIsPaused
<1>5. Apart'
  BY Parts, <1>1, <1>2 DEF Apart
<1> QED
  BY <1>1, <1>2, <1>3, <1>4, <1>5 DEF CheckQueueInv

LEMMA SavedIs ==
    ASSUME savedPaused \subseteq Torrents, NEW S, S \subseteq Torrents
    PROVE  Saved(S) \subseteq Torrents
<1> QED
  BY DEF Saved

LEMMA PauseTorrentKeeps ==
    ASSUME CheckQueueInv, NEW t \in Torrents, PauseTorrent(t)
    PROVE  CheckQueueInv'
<1>1. /\ lt' \in [Torrents -> Handle]
      /\ \A u \in Torrents : lt'[u].here = lt[u].here
      /\ \A u \in Torrents \ {t} : lt'[u] = lt[u]
      /\ lt[t].here => lt'[t].paused
  <2>1. lt \in [Torrents -> Handle] /\ SetPaused(t, TRUE)
    BY Parts DEF PauseTorrent
  <2> QED
    BY <2>1, SetPausedGives
<1>2. op' \in [Torrents -> Steps] /\ \A u \in Torrents : op'[u] = "resume" => op[u] = "resume"
  BY Parts DEF PauseTorrent, Steps
<1>3. DiskTyped'
  BY Parts DEF PauseTorrent, disk, DiskTyped
<1>4. waiting \subseteq Torrents /\ known \subseteq Torrents
  BY Parts DEF AdmitTyped
<1>5. \A u \in waiting : /\ lt'[u].here => lt[u].here
                         /\ lt'[u].here /\ lt[u].paused => lt'[u].paused
  BY <1>1, <1>4
<1> QED
  BY <1>1, <1>2, <1>3, <1>4, <1>5, AsideKeeps DEF PauseTorrent

LEMMA SavePausedKeeps ==
    ASSUME CheckQueueInv, NEW t \in Torrents, SavePaused(t)
    PROVE  CheckQueueInv'
<1>1. op' \in [Torrents -> Steps] /\ \A u \in Torrents : op'[u] = "resume" => op[u] = "resume"
  BY Parts DEF SavePaused, Steps
<1>2. DiskTyped'
  <2>1. savedPaused \subseteq Torrents /\ savedPaused \cup {t} \subseteq Torrents /\ savedPaused \ {t} \subseteq Torrents
    BY Parts DEF DiskTyped
  <2> QED
    BY Parts, <2>1, SavedIs DEF SavePaused, DiskTyped
<1>3. known \subseteq Torrents
  BY Parts DEF AdmitTyped
<1> QED
  BY Parts, <1>1, <1>2, <1>3, AsideKeeps DEF SavePaused

LEMMA ResumeTorrentKeeps ==
    ASSUME CheckQueueInv, NEW t \in Torrents, ResumeTorrent(t)
    PROVE  CheckQueueInv'
<1>1. /\ lt' \in [Torrents -> Handle]
      /\ \A u \in Torrents : lt'[u].here = lt[u].here
      /\ \A u \in Torrents \ {t} : lt'[u] = lt[u]
  <2>1. lt \in [Torrents -> Handle] /\ SetPaused(t, FALSE)
    BY Parts DEF ResumeTorrent
  <2> QED
    BY <2>1, SetPausedGives
<1>2. op' \in [Torrents -> Steps] /\ \A u \in Torrents : op'[u] = "resume" => op[u] = "resume"
  BY Parts DEF ResumeTorrent, Steps
<1>3. DiskTyped'
  BY Parts DEF ResumeTorrent, disk, DiskTyped
<1>4. waiting \subseteq Torrents /\ known \subseteq Torrents /\ t \notin waiting
  BY Parts DEF AdmitTyped, Apart, ResumeTorrent
<1>5. \A u \in waiting : lt'[u] = lt[u]
  BY <1>1, <1>4
<1> QED
  BY <1>1, <1>2, <1>3, <1>4, <1>5, AsideKeeps DEF ResumeTorrent

LEMMA RemoveTorrentKeeps ==
    ASSUME CheckQueueInv, NEW t \in Torrents, RemoveTorrent(t)
    PROVE  CheckQueueInv'
<1>1. /\ lt' \in [Torrents -> Handle]
      /\ \A u \in Torrents \ {t} : lt'[u] = lt[u]
      /\ ~lt'[t].here
  BY Parts DEF RemoveTorrent, Handle, States
<1>2. DiskTyped'
  <2>1. savedPaused \subseteq Torrents /\ savedPaused \ {t} \subseteq Torrents
    BY Parts DEF DiskTyped
  <2> QED
    BY Parts, <2>1, SavedIs DEF RemoveTorrent, DiskTyped
<1>3. waiting \subseteq Torrents
  BY Parts DEF AdmitTyped
<1>4. \A u \in waiting : /\ lt'[u].here => lt[u].here
                         /\ lt'[u].here /\ lt[u].paused => lt'[u].paused
  BY <1>1, <1>3
<1> QED
  BY Parts, <1>1, <1>2, <1>4, AsideKeeps DEF RemoveTorrent

LEMMA PeriodicSaveKeeps == CheckQueueInv /\ PeriodicSave => CheckQueueInv'
<1> SUFFICES ASSUME CheckQueueInv, PeriodicSave PROVE CheckQueueInv'
  OBVIOUS
<1>1. DiskTyped'
  <2>1. savedPaused \subseteq Torrents /\ {t \in Here : lt[t].paused} \subseteq Torrents
    BY Parts DEF DiskTyped, Here
  <2> QED
    BY Parts, <2>1, SavedIs DEF PeriodicSave, DiskTyped
<1> QED
  BY Parts, <1>1, AsideKeeps DEF PeriodicSave

LEMMA RecheckKeeps ==
    ASSUME CheckQueueInv, NEW t \in Torrents, Recheck(t)
    PROVE  CheckQueueInv'
<1>1. AdmitTyped' /\ AdmitPlaced' /\ waiting' = waiting \ {t} /\ known' = known \ {t}
  BY Parts, DropGives DEF Recheck
<1>2. QueueTyped' /\ QueuePlaced' /\ Rechecked' \subseteq Rechecked \cup {t}
  <2>1. CASE UNCHANGED hashQueue
    BY Parts, <2>1, QueueRests
  <2>2. CASE t \notin Rechecked /\ Pump(Append(order, t), Running, limit)
    <3>1. order \in Line /\ IsInjective(order) /\ ToSet(order) \cap Running = {} /\ limit \in Nat
      BY Parts DEF QueueTyped, QueuePlaced
    <3>2. /\ Append(order, t) \in Line /\ IsInjective(Append(order, t))
          /\ ToSet(Append(order, t)) = ToSet(order) \cup {t}
          /\ ToSet(Append(order, t)) \cap Running = {}
      BY <2>2, <3>1, Appended DEF Rechecked
    <3>3. QueueTyped' /\ QueuePlaced' /\ Rechecked' = Running \cup ToSet(Append(order, t))
      BY Parts, <2>2, <3>1, <3>2, PumpGives
    <3> QED
      BY <3>2, <3>3 DEF Rechecked
  <2> QED
    BY <2>1, <2>2 DEF Recheck, Rechecked
<1>3. UNCHANGED <<limit, loop, lt, userPaused, savedPaused, op, restarts>>
  BY DEF Recheck, disk
<1>4. Typed'
  BY Parts, <1>1, <1>2, <1>3 DEF Typed, DiskTyped
<1>5. WaitingIsPaused'
  BY Parts, <1>1, <1>3 DEF WaitingIsPaused
<1>6. Apart'
  BY Parts, <1>1, <1>2, <1>3 DEF Apart
<1> QED
  BY <1>1, <1>2, <1>4, <1>5, <1>6 DEF CheckQueueInv

(* The engine as it starts, for the first time and again.                  *)
Fresh ==
    /\ lt \in [Torrents -> Handle] /\ \A t \in Torrents : lt[t].paused
    /\ limit \in Limits /\ DiskTyped /\ restarts \in 0..MaxRestarts
    /\ held \in SetToSeqs(Here \ (userPaused \cap savedPaused))
    /\ queued = <<>> /\ probing = <<>> /\ hashing = {}
    /\ waiting = ToSet(held) /\ known = ToSet(held) /\ sawFull = {}
    /\ order = <<>> /\ job = [t \in Torrents |-> "none"]
    /\ loop = [seen |-> Unread, pause |-> <<>>, resume |-> <<>>]
    /\ op = [t \in Torrents |-> "none"]

LEMMA FreshHolds == Fresh => CheckQueueInv
<1> SUFFICES ASSUME Fresh PROVE CheckQueueInv
  OBVIOUS
<1>0. Here \ (userPaused \cap savedPaused) \subseteq Torrents
  BY DEF Here
<1>1. held \in Line /\ IsInjective(held) /\ ToSet(held) \subseteq Torrents
  BY <1>0, Listing DEF Fresh
<1>2. /\ <<>> \in Line /\ ToSet(<<>>) = {} /\ IsInjective(<<>>)
  BY EmptyLine
<1>3. AdmitTyped /\ AdmitPlaced
  BY <1>1, <1>2 DEF AdmitTyped, AdmitPlaced, Placed, Fresh
<1>4. QueueTyped /\ Running = {} /\ QueuePlaced
  BY <1>2 DEF QueueTyped, Jobs, Running, QueuePlaced, Fresh
<1>5. loop \in LoopState /\ loop.resume = <<>>
  BY <1>2 DEF LoopState, Unread, Fresh
<1>6. op \in [Torrents -> Steps] /\ \A t \in Torrents : op[t] # "resume"
  BY DEF Steps, Fresh
<1>7. Typed
  BY <1>3, <1>4, <1>5, <1>6 DEF Typed, Fresh
<1>8. WaitingIsPaused
  BY <1>1 DEF WaitingIsPaused, Fresh
<1>9. Apart
  BY <1>1, <1>2, <1>4, <1>5, <1>6 DEF Apart, Rechecked, Fresh
<1> QED
  BY <1>3, <1>4, <1>7, <1>8, <1>9 DEF CheckQueueInv

LEMMA InitCheckQueue == Init => CheckQueueInv
<1> SUFFICES ASSUME Init PROVE CheckQueueInv
  OBVIOUS
<1>1. lt \in [Torrents -> Handle] /\ \A t \in Torrents : lt[t].paused
  BY DEF Init, Handle, States
<1>2. restarts \in 0..MaxRestarts /\ DiskTyped
  BY CheckQueueAssumption DEF Init, DiskTyped
<1>3. Fresh
  BY <1>1, <1>2 DEF Init, Restored, Fresh
<1> QED
  BY <1>3, FreshHolds

LEMMA RestartKeeps == CheckQueueInv /\ Restart => CheckQueueInv'
<1>1. ASSUME CheckQueueInv, Restart
      PROVE  Fresh'
  <2>1. lt' \in [Torrents -> Handle] /\ \A t \in Torrents : lt'[t].paused
    BY <1>1, Parts DEF Restart, Handle, States
  <2>2. held' \in SetToSeqs(Here' \ (userPaused' \cap savedPaused'))
    <3>1. Here' = Here
      BY <1>1 DEF Restart, Here
    <3> QED
      BY <1>1, <3>1 DEF Restart, Restored, disk
  <2>3. restarts' \in 0..MaxRestarts
    BY <1>1, CheckQueueAssumption DEF CheckQueueInv, Typed, Restart
  <2>4. limit' \in Limits /\ DiskTyped'
    BY <1>1 DEF CheckQueueInv, Typed, DiskTyped, Restart, disk
  <2> QED
    BY <1>1, <2>1, <2>2, <2>3, <2>4 DEF Restart, Fresh
<1>2. Fresh' => CheckQueueInv'
  BY FreshHolds, PTL
<1> QED
  BY <1>1, <1>2

(* A round of the admission: what it does with its sequences, and that it  *)
(* gives no slot beyond the limit.                                         *)
LEMMA TickGives ==
    ASSUME CheckQueueInv, NEW late, Tick(late)
    PROVE  /\ AdmitTyped' /\ AdmitPlaced'
           /\ \E pause \in Line, taken \in Line :
                /\ loop' = [seen |-> Unread, pause |-> Without(pause, ToSet(taken)),
                            resume |-> Without(taken, ToSet(pause))]
                /\ waiting' \subseteq (waiting \cup ToSet(pause)) \ ToSet(taken)
                /\ known' \subseteq known
           /\ \/ Watched' \subseteq Watched
              \/ Len(probing') + Cardinality(hashing') + Cardinality(Running) <= limit
<1> DEFINE saw(s) == {t \in Torrents : loop.seen[t] = s}
           gone == saw("gone") \cap Watched
           full == Without(probing, Torrents \ saw("checking"))
           freed == (saw("settled") \cup (saw("new") \cap late))
                    \cap (ToSet(probing) \cup (hashing \ (sawFull \ saw("settled"))))
           out == gone \cup freed
           probing1 == Without(probing, out \cup ToSet(full))
           hashing1 == hashing \ out
           over == Minus(Len(probing1) + Cardinality(hashing1) + Busy, limit)
           back == First(probing1, over)
           probing2 == Rest(probing1, over)
           held2 == Reverse(back) \o held
           queued2 == queued \o full
           slots == Minus(limit, Len(probing2) + Cardinality(hashing1) + Busy)
           taken == First(IF held2 # <<>> THEN held2 ELSE queued2, slots)
           pause == full \o back
<1>1. /\ IF held2 # <<>>
         THEN /\ held' = Rest(held2, slots) /\ probing' = probing2 \o taken
              /\ queued' = queued2 /\ hashing' = hashing1
         ELSE /\ queued' = Rest(queued2, slots) /\ hashing' = hashing1 \cup ToSet(taken)
              /\ held' = held2 /\ probing' = probing2
      /\ waiting' = (waiting \cup ToSet(pause)) \ (ToSet(taken) \cup gone \cup freed)
      /\ known' = known \ out
      /\ sawFull' = (sawFull \cup (hashing \cap saw("checking"))) \ out
      /\ loop' = [seen |-> Unread, pause |-> Without(pause, ToSet(taken)),
                  resume |-> Without(taken, ToSet(pause))]
  BY DEF Tick
<1>2. /\ held \in Line /\ queued \in Line /\ probing \in Line /\ hashing \subseteq Torrents
      /\ sawFull \subseteq hashing /\ limit \in Nat /\ Busy \in Nat /\ Busy = Cardinality(Running)
      /\ Placed(held, queued, probing, hashing)
  BY Parts, Counted DEF AdmitTyped, AdmitPlaced, Busy
<1>3. /\ out \subseteq ToSet(probing) \cup hashing /\ out \cap saw("checking") = {}
      /\ hashing1 \subseteq hashing /\ hashing1 \subseteq Torrents
  BY <1>2 DEF Watched
<1>4. /\ full \in Line /\ ToSet(full) = ToSet(probing) \cap saw("checking") /\ IsInjective(full)
  <2>1. /\ full \in Line /\ ToSet(full) = ToSet(probing) \ (Torrents \ saw("checking"))
        /\ IsInjective(full)
    BY <1>2, Removed DEF Placed
  <2>2. ToSet(probing) \subseteq Torrents
    BY <1>2, Elements
  <2> QED
    BY <2>1, <2>2
<1>5. /\ probing1 \in Line /\ Len(probing1) <= Len(probing) /\ IsInjective(probing1)
      /\ ToSet(probing1) = ToSet(probing) \ (out \cup ToSet(full))
  BY <1>2, Removed DEF Placed
<1>6. Cardinality(hashing1) \in Nat /\ Cardinality(hashing) \in Nat
      /\ Cardinality(hashing1) <= Cardinality(hashing)
  BY <1>2, <1>3, Counted
<1> HIDE DEF full, out
<1>7. over \in Nat
  <2>1. Len(probing1) + Cardinality(hashing1) + Busy \in Nat
    <3>1. Len(probing1) \in Nat
      BY <1>5, Elements
    <3> QED
      BY <1>2, <1>6, <3>1
  <2> QED
    BY <1>2, <2>1, Differs
<1> HIDE DEF probing1, hashing1, over
<1>8. /\ back \in Line /\ probing2 \in Line /\ Len(probing2) <= Len(probing1)
      /\ ToSet(back) \cup ToSet(probing2) = ToSet(probing1)
      /\ IsInjective(back) /\ IsInjective(probing2) /\ ToSet(back) \cap ToSet(probing2) = {}
  <2>1. /\ back \in Line /\ probing2 \in Line /\ Len(back) + Len(probing2) = Len(probing1)
        /\ ToSet(back) \cup ToSet(probing2) = ToSet(probing1)
        /\ IsInjective(back) /\ IsInjective(probing2) /\ ToSet(back) \cap ToSet(probing2) = {}
    BY <1>5, <1>7, Divided
  <2> HIDE DEF back, probing2
  <2>2. Len(back) \in Nat /\ Len(probing2) \in Nat
    BY <2>1, Elements
  <2> QED
    BY <2>1, <2>2
<1> HIDE DEF back, probing2
<1>9. /\ held2 \in Line /\ ToSet(held2) = ToSet(back) \cup ToSet(held) /\ IsInjective(held2)
  <2>1. /\ Reverse(back) \in Line /\ ToSet(Reverse(back)) = ToSet(back) /\ IsInjective(Reverse(back))
    BY <1>8, Reversed
  <2>2. ToSet(back) \cap ToSet(held) = {} /\ IsInjective(held)
    BY <1>2, <1>5, <1>8 DEF Placed
  <2> QED
    BY <1>2, <2>1, <2>2, Joined
<1>10. /\ queued2 \in Line /\ ToSet(queued2) = ToSet(queued) \cup ToSet(full) /\ IsInjective(queued2)
  <2>1. ToSet(queued) \cap ToSet(full) = {} /\ IsInjective(queued)
    BY <1>2, <1>4 DEF Placed
  <2> QED
    BY <1>2, <1>4, <2>1, Joined
<1>11. pause \in Line /\ ToSet(pause) = ToSet(full) \cup ToSet(back)
  BY <1>4, <1>8, Joined
<1>12. /\ slots \in Nat /\ Len(probing2) \in Nat
       /\ slots # 0 => Len(probing2) + Cardinality(hashing1) + Busy + slots = limit
  <2>1. Len(probing2) \in Nat
    BY <1>8, Elements
  <2>2. PICK n \in Nat : n = Len(probing2) + Cardinality(hashing1) + Busy
    BY <1>2, <1>6, <2>1
  <2>3. slots \in Nat /\ slots = IF limit > n THEN limit - n ELSE 0
    BY <1>2, <2>2, Differs
  <2> HIDE DEF slots
  <2> QED
    BY <1>2, <2>1, <2>2, <2>3
<1> HIDE DEF held2, queued2, pause, slots
<1>13. CASE held2 # <<>>
  <2>1. /\ taken = First(held2, slots) /\ held' = Rest(held2, slots) /\ probing' = probing2 \o taken
        /\ queued' = queued2 /\ hashing' = hashing1
    BY <1>1, <1>13
  <2>2. /\ taken \in Line /\ held' \in Line /\ Len(taken) <= slots
        /\ ToSet(taken) \cup ToSet(held') = ToSet(held2)
        /\ IsInjective(taken) /\ IsInjective(held') /\ ToSet(taken) \cap ToSet(held') = {}
    BY <1>9, <1>12, <2>1, Divided
  <2> HIDE DEF taken
  <2>3. ToSet(probing2) \cap ToSet(taken) = {}
    BY <1>2, <1>5, <1>8, <1>9, <2>2 DEF Placed
  <2>4. /\ probing' \in Line /\ ToSet(probing') = ToSet(probing2) \cup ToSet(taken)
        /\ IsInjective(probing') /\ Len(probing') = Len(probing2) + Len(taken)
    BY <1>8, <2>1, <2>2, <2>3, Joined
  <2>5. AdmitTyped'
    <3>1. /\ ToSet(pause) \subseteq Torrents /\ waiting \subseteq Torrents /\ known \subseteq Torrents
      BY Parts, <1>11, Elements DEF AdmitTyped
    <3> QED
      BY <1>1, <1>2, <1>3, <1>10, <2>1, <2>2, <2>4, <3>1 DEF AdmitTyped
  <2>6. AdmitPlaced'
    <3>1. Placed(held', queued', probing', hashing')
      <4>1. /\ ToSet(held') \cap ToSet(queued') = {} /\ ToSet(held') \cap ToSet(probing') = {}
        BY <1>2, <1>4, <1>5, <1>8, <1>9, <1>10, <2>1, <2>2, <2>4 DEF Placed
      <4>2. ToSet(queued') \cap ToSet(probing') = {}
        BY <1>2, <1>4, <1>5, <1>8, <1>9, <1>10, <2>1, <2>2, <2>4 DEF Placed
      <4>3. (ToSet(held') \cup ToSet(queued') \cup ToSet(probing')) \cap hashing' = {}
        BY <1>2, <1>3, <1>4, <1>5, <1>8, <1>9, <1>10, <2>1, <2>2, <2>4 DEF Placed
      <4> QED
        BY <1>10, <2>1, <2>2, <2>4, <4>1, <4>2, <4>3 DEF Placed
    <3>2. waiting' = ToSet(held') \cup ToSet(queued')
      <4>1. /\ waiting = ToSet(held) \cup ToSet(queued) /\ waiting \cap out = {}
        BY Parts, <1>2, <1>3 DEF AdmitPlaced, Placed
      <4>2. waiting' = (waiting \cup ToSet(pause)) \ (ToSet(taken) \cup out)
        BY <1>1 DEF out
      <4>3. ToSet(pause) \cap out = {}
        BY <1>3, <1>4, <1>5, <1>8, <1>11
      <4>4. ToSet(taken) \cap ToSet(queued') = {}
        BY <1>2, <1>4, <1>5, <1>8, <1>9, <1>10, <2>1, <2>2 DEF Placed
      <4> QED
        BY <1>9, <1>10, <1>11, <2>1, <2>2, <4>1, <4>2, <4>3, <4>4
    <3>3. known' = ToSet(held') \cup ToSet(queued') \cup ToSet(probing') \cup hashing'
      <4>1. /\ known = ToSet(held) \cup ToSet(queued) \cup ToSet(probing) \cup hashing
            /\ (ToSet(held) \cup ToSet(queued)) \cap out = {}
        BY Parts, <1>2, <1>3 DEF AdmitPlaced, Placed
      <4>2. ToSet(full) \cap out = {}
        BY <1>3, <1>4
      <4> QED
        BY <1>1, <1>4, <1>5, <1>8, <1>9, <1>10, <2>1, <2>2, <2>4, <4>1, <4>2 DEF hashing1
    <3>4. sawFull' \subseteq hashing'
      BY <1>1, <1>2, <2>1 DEF hashing1
    <3> QED
      BY <3>1, <3>2, <3>3, <3>4 DEF AdmitPlaced
  <2>7. Watched' \subseteq Watched \/ Len(probing') + Cardinality(hashing') + Busy <= limit
    <3>1. Len(taken) \in Nat /\ Len(probing2) \in Nat
      BY <1>8, <2>2, Elements
    <3>2. CASE Len(taken) = 0
      <4>1. ToSet(taken) = {}
        BY <2>2, <3>2, Elements
      <4> QED
        BY <1>3, <1>5, <1>8, <2>1, <2>4, <4>1 DEF Watched
    <3>3. CASE Len(taken) > 0
      <4>1. Len(probing2) + Cardinality(hashing1) + Busy + slots = limit
        BY <1>12, <2>2, <3>1, <3>3
      <4> QED
        BY <1>2, <1>6, <1>12, <2>1, <2>2, <2>4, <3>1, <4>1
    <3> QED
      BY <3>1, <3>2, <3>3
  <2>8. known' \subseteq known /\ waiting' \subseteq (waiting \cup ToSet(pause)) \ ToSet(taken)
    BY <1>1
  <2> QED
    BY <1>1, <1>2, <1>11, <2>2, <2>5, <2>6, <2>7, <2>8
<1>14. CASE held2 = <<>>
  <2>1. /\ taken = First(queued2, slots) /\ queued' = Rest(queued2, slots)
        /\ hashing' = hashing1 \cup ToSet(taken) /\ held' = held2 /\ probing' = probing2
    BY <1>1, <1>14
  <2>2. /\ taken \in Line /\ queued' \in Line /\ Len(taken) <= slots
        /\ ToSet(taken) \cup ToSet(queued') = ToSet(queued2)
        /\ IsInjective(taken) /\ IsInjective(queued') /\ ToSet(taken) \cap ToSet(queued') = {}
    BY <1>10, <1>12, <2>1, Divided
  <2>3. ToSet(held2) = {} /\ IsInjective(held2) /\ ToSet(back) = {} /\ ToSet(held) = {}
    BY <1>9, <1>14, EmptyLine
  <2> HIDE DEF taken
  <2>4. ToSet(taken) \subseteq Torrents
    BY <2>2, Elements
  <2>5. AdmitTyped'
    <3>1. /\ ToSet(pause) \subseteq Torrents /\ waiting \subseteq Torrents /\ known \subseteq Torrents
      BY Parts, <1>11, Elements DEF AdmitTyped
    <3> QED
      BY <1>1, <1>2, <1>3, <1>8, <1>9, <2>1, <2>2, <2>4, <3>1 DEF AdmitTyped
  <2>6. AdmitPlaced'
    <3>1. Placed(held', queued', probing', hashing')
      <4>1. ToSet(queued') \cap ToSet(probing') = {}
        BY <1>2, <1>4, <1>5, <1>8, <1>10, <2>1, <2>2 DEF Placed
      <4>2. (ToSet(held') \cup ToSet(queued') \cup ToSet(probing')) \cap hashing' = {}
        BY <1>2, <1>3, <1>4, <1>5, <1>8, <1>10, <2>1, <2>2, <2>3 DEF Placed
      <4> QED
        BY <1>8, <2>1, <2>2, <2>3, <4>1, <4>2 DEF Placed
    <3>2. waiting' = ToSet(held') \cup ToSet(queued')
      <4>1. /\ waiting = ToSet(held) \cup ToSet(queued) /\ waiting \cap out = {}
        BY Parts, <1>2, <1>3 DEF AdmitPlaced, Placed
      <4>2. waiting' = (waiting \cup ToSet(pause)) \ (ToSet(taken) \cup out)
        BY <1>1 DEF out
      <4>3. ToSet(pause) \cap out = {}
        BY <1>3, <1>4, <1>5, <1>8, <1>11
      <4> QED
        BY <1>10, <1>11, <2>1, <2>2, <2>3, <4>1, <4>2, <4>3
    <3>3. known' = ToSet(held') \cup ToSet(queued') \cup ToSet(probing') \cup hashing'
      <4>1. /\ known = ToSet(held) \cup ToSet(queued) \cup ToSet(probing) \cup hashing
            /\ (ToSet(held) \cup ToSet(queued)) \cap out = {}
        BY Parts, <1>2, <1>3 DEF AdmitPlaced, Placed
      <4>2. ToSet(full) \cap out = {}
        BY <1>3, <1>4
      <4> QED
        BY <1>1, <1>4, <1>5, <1>8, <1>10, <2>1, <2>2, <2>3, <4>1, <4>2 DEF hashing1
    <3>4. sawFull' \subseteq hashing'
      BY <1>1, <1>2, <2>1 DEF hashing1
    <3> QED
      BY <3>1, <3>2, <3>3, <3>4 DEF AdmitPlaced
  <2>7. Watched' \subseteq Watched \/ Len(probing') + Cardinality(hashing') + Busy <= limit
    <3>1. Len(taken) \in Nat /\ Len(probing2) \in Nat
      BY <1>8, <2>2, Elements
    <3>2. CASE Len(taken) = 0
      <4>1. ToSet(taken) = {}
        BY <2>2, <3>2, Elements
      <4> QED
        BY <1>3, <1>5, <1>8, <2>1, <4>1 DEF Watched
    <3>3. CASE Len(taken) > 0
      <4>1. Len(probing2) + Cardinality(hashing1) + Busy + slots = limit
        BY <1>12, <2>2, <3>1, <3>3
      <4>2. /\ Cardinality(hashing') <= Cardinality(hashing1) + Len(taken)
            /\ Cardinality(hashing') \in Nat
        <5>1. hashing' \subseteq Torrents
          BY <1>3, <2>1, <2>4
        <5> QED
          BY <1>3, <2>1, <2>2, <5>1, Counted
      <4> QED
        BY <1>2, <1>6, <1>12, <2>1, <2>2, <3>1, <4>1, <4>2
    <3> QED
      BY <3>1, <3>2, <3>3
  <2>8. known' \subseteq known /\ waiting' \subseteq (waiting \cup ToSet(pause)) \ ToSet(taken)
    BY <1>1
  <2> QED
    BY <1>1, <1>2, <1>11, <2>2, <2>5, <2>6, <2>7, <2>8
<1> QED
  BY <1>13, <1>14

LEMMA TickKeeps ==
    ASSUME CheckQueueInv, NEW late, Tick(late)
    PROVE  CheckQueueInv'
<1>1. PICK pause \in Line, taken \in Line :
        /\ loop' = [seen |-> Unread, pause |-> Without(pause, ToSet(taken)),
                    resume |-> Without(taken, ToSet(pause))]
        /\ waiting' \subseteq (waiting \cup ToSet(pause)) \ ToSet(taken)
        /\ known' \subseteq known
  BY TickGives
<1>2. /\ Without(pause, ToSet(taken)) \in Line /\ Without(taken, ToSet(pause)) \in Line
      /\ ToSet(Without(pause, ToSet(taken))) = ToSet(pause) \ ToSet(taken)
      /\ ToSet(Without(taken, ToSet(pause))) = ToSet(taken) \ ToSet(pause)
  BY Removed
<1>3. /\ loop' \in LoopState /\ ToSet(loop'.pause) = ToSet(pause) \ ToSet(taken)
      /\ ToSet(loop'.resume) = ToSet(taken) \ ToSet(pause)
  <2>1. Unread \in [Torrents -> States \cup {"unread", "gone"}]
    BY DEF Unread
  <2> QED
    BY <1>1, <1>2, <2>1 DEF LoopState
<1>4. AdmitTyped' /\ AdmitPlaced'
  BY TickGives
<1>5. QueueTyped' /\ QueuePlaced' /\ Rechecked' = Rechecked
  BY Parts, QueueRests DEF Tick
<1>6. /\ UNCHANGED <<limit, lt, userPaused, savedPaused, op, restarts>>
      /\ loop.pause = <<>>
  BY DEF Tick, disk, Acting
<1>7. Typed'
  BY Parts, <1>3, <1>4, <1>5, <1>6 DEF Typed, DiskTyped
<1>8. WaitingIsPaused'
  <2>1. \A t \in waiting : lt[t].here => lt[t].paused
    BY Parts, <1>6, EmptyLine
  <2> QED
    BY <1>1, <1>3, <1>6, <2>1 DEF WaitingIsPaused
<1>9. Apart'
  BY Parts, <1>1, <1>3, <1>5, <1>6 DEF Apart
<1> QED
  BY <1>4, <1>5, <1>7, <1>8, <1>9 DEF CheckQueueInv

LEMMA StepCheckQueue == CheckQueueInv /\ [Next]_vars => CheckQueueInv'
<1> SUFFICES ASSUME CheckQueueInv, [Next]_vars PROVE CheckQueueInv'
  OBVIOUS
<1>1. CASE UNCHANGED vars
  <2>1. UNCHANGED <<limit, admit, hashQueue, loop, lt, disk, op, restarts>>
    BY <1>1 DEF vars
  <2>2. lt' \in [Torrents -> Handle] /\ op' \in [Torrents -> Steps] /\ DiskTyped'
    BY Parts, <2>1 DEF disk, DiskTyped
  <2> QED
    BY <2>1, <2>2, AsideKeeps
<1>2. CASE Loop
  BY <1>2, ReadStateKeeps, TickKeeps, QueuePauseKeeps, QueueResumeKeeps DEF Loop
<1>3. ASSUME NEW t \in Torrents, Check(t) \/ Job(t) \/ Request(t)
      PROVE  CheckQueueInv'
  BY <1>3, CheckKeeps, JobRecheckKeeps, JobEndsKeeps, PauseTorrentKeeps, SavePausedKeeps,
     ResumeTorrentKeeps DEF Job, Request
<1>4. ASSUME NEW t \in Torrents, Pause(t) \/ Resume(t) \/ Recheck(t) \/ RemoveTorrent(t)
      PROVE  CheckQueueInv'
  BY <1>4, PauseKeeps, ResumeKeeps, RecheckKeeps, RemoveTorrentKeeps
<1>5. CASE \E n \in Limits : SetHashLimit(n)
  BY <1>5, SetHashLimitKeeps
<1>6. CASE PeriodicSave \/ Restart
  BY <1>6, PeriodicSaveKeeps, RestartKeeps
<1> QED
  BY <1>1, <1>2, <1>3, <1>4, <1>5, <1>6 DEF Next

LEMMA CheckQueueInductive == Spec => []CheckQueueInv
<1> QED
  BY InitCheckQueue, StepCheckQueue, PTL DEF Spec

(* Every step but a tick leaves the admission, forgets a torrent of it or  *)
(* starts it anew.                                                         *)
LEMMA Admissions ==
    ASSUME [Next]_vars
    PROVE  \/ \E late : Tick(late)
           \/ UNCHANGED admit
           \/ \E t : Drop(t)
           \/ Restart
<1>1. CASE UNCHANGED vars
  BY <1>1 DEF vars
<1>2. CASE Loop
  <2>1. CASE \E t \in Torrents : ReadState(t)
    BY <2>1 DEF ReadState
  <2>2. ASSUME NEW t, NEW b, QueueTurn(t, b), loop.pause # <<>> \/ loop.resume # <<>>
        PROVE  UNCHANGED admit \/ Drop(t)
    BY <2>2 DEF QueueTurn
  <2> QED
    BY <1>2, <2>1, <2>2 DEF Loop, QueuePause, QueueResume
<1>3. ASSUME NEW t \in Torrents, Check(t) \/ Job(t) \/ Request(t)
      PROVE  UNCHANGED admit
  BY <1>3 DEF Check, Job, JobRecheck, JobEnds, Request, PauseTorrent, SavePaused, ResumeTorrent
<1>4. ASSUME NEW t \in Torrents, Pause(t) \/ Resume(t) \/ Recheck(t) \/ RemoveTorrent(t)
      PROVE  UNCHANGED admit \/ Drop(t)
  BY <1>4 DEF Pause, Resume, Recheck, RemoveTorrent
<1>5. ASSUME NEW n \in Limits, SetHashLimit(n)
      PROVE  UNCHANGED admit
  BY <1>5 DEF SetHashLimit
<1>6. CASE PeriodicSave
  BY <1>6 DEF PeriodicSave
<1> QED
  BY <1>1, <1>2, <1>3, <1>4, <1>5, <1>6 DEF Next

(* Who reads for the admission: no more than the lists say.                *)
Readers ==
    /\ limit \in Limits
    /\ Watched \subseteq Torrents /\ Cardinality(Watched) \in Nat
    /\ Cardinality(Watched) <= Len(probing) + Cardinality(hashing)
    /\ Running \subseteq Torrents \ Watched /\ Cardinality(Running) \in Nat

LEMMA ReadersCounted == CheckQueueInv => Readers
<1> SUFFICES ASSUME CheckQueueInv PROVE Readers
  OBVIOUS
<1>1. probing \in Line /\ hashing \subseteq Torrents
  BY Parts DEF AdmitTyped
<1>2. ToSet(probing) \subseteq Torrents /\ Len(probing) \in Nat
  BY <1>1, Elements
<1>3. Watched \subseteq Torrents /\ Watched \subseteq known
  BY Parts, <1>1, <1>2 DEF Watched, AdmitPlaced
<1>4. /\ Cardinality(hashing \cup ToSet(probing)) <= Cardinality(hashing) + Len(probing)
      /\ Cardinality(hashing) \in Nat
  BY <1>1, Counted
<1>5. Cardinality(Watched) <= Len(probing) + Cardinality(hashing)
  <2>1. Watched = hashing \cup ToSet(probing)
    BY DEF Watched
  <2> QED
    BY <1>2, <1>4, <2>1
<1>6. Running \subseteq Torrents \ Watched
  BY Parts, <1>3 DEF Apart, Rechecked
<1> QED
  BY <1>3, <1>5, <1>6, Counted, Parts DEF Readers, Typed

LEMMA ReadersCountedNext == CheckQueueInv' => Readers'
  BY ReadersCounted, PTL

(* The instance reads Cardinality as this module does. *)
LEMMA SameCardinality ==
    ASSUME NEW S
    PROVE  Slots!Cardinality(S) = Cardinality(S)
  BY DEF Slots!Cardinality, Cardinality

(* Every step is a round of the admission for the disk, or one of the      *)
(* rechecks.                                                               *)
LEMMA TickAdmits ==
    ASSUME CheckQueueInv, NEW late, Tick(late)
    PROVE  Slots!Admit
<1>1. CheckQueueInv' /\ UNCHANGED <<limit, hashQueue>>
  BY TickKeeps DEF Tick
<1>2. Running' = Running /\ limit \in Nat
  BY Parts, <1>1 DEF hashQueue, Running
<1>3. /\ Watched' \subseteq Torrents \ Running' /\ Cardinality(Watched') \in Nat
      /\ Cardinality(Watched') <= Len(probing') + Cardinality(hashing')
      /\ Cardinality(Running') \in Nat
  BY <1>1, ReadersCountedNext DEF Readers
<1>4. Len(probing') \in Nat /\ Cardinality(hashing') \in Nat
  BY TickGives, Elements, Counted DEF AdmitTyped
<1>5. Watched' \subseteq Watched \/ Cardinality(Watched') + Cardinality(Running) <= limit
  <2>1. CASE Len(probing') + Cardinality(hashing') + Cardinality(Running) <= limit
    BY <1>2, <1>3, <1>4, <2>1
  <2> QED
    BY <2>1, TickGives
<1> QED
  BY <1>1, <1>2, <1>3, <1>5, SameCardinality DEF Slots!Admit, Watched

(* Nobody gets a slot of the admission outside a tick.                     *)
LEMMA NobodyAdmitted ==
    ASSUME CheckQueueInv, [Next]_vars, \A late : ~Tick(late)
    PROVE  Watched' \subseteq Watched
<1>1. CASE UNCHANGED admit
  BY <1>1 DEF admit, Watched
<1>2. ASSUME NEW t, Drop(t)
      PROVE  Watched' \subseteq Watched
  <2>1. ToSet(probing') = ToSet(probing) \ {t} /\ hashing' = hashing \ {t}
    BY <1>2, Parts, Removed DEF AdmitTyped, Drop
  <2> QED
    BY <2>1 DEF Watched
<1>3. CASE Restart
  <2>1. ToSet(probing') = {} /\ hashing' = {}
    BY <1>3, EmptyLine DEF Restart
  <2> QED
    BY <2>1 DEF Watched
<1> QED
  BY <1>1, <1>2, <1>3, Admissions

(* A recheck begins only while the running rechecks are within the limit.  *)
LEMMA RechecksWithin ==
    ASSUME CheckQueueInv, [Next]_vars
    PROVE  Running' \subseteq Running \/ Cardinality(Running') <= limit'
<1>1. CASE UNCHANGED hashQueue
  BY <1>1 DEF hashQueue, Running
<1>2. ASSUME NEW t \in Torrents, JobRecheck(t)
      PROVE  Running' \subseteq Running
  BY <1>2 DEF JobRecheck, Running
<1>3. ASSUME NEW w \in Line, IsInjective(w), NEW running, running \subseteq Running,
             ToSet(w) \cap running = {}, Pump(w, running, limit'), limit' \in Nat
      PROVE  Running' \subseteq Running \/ Cardinality(Running') <= limit'
  BY <1>3, Parts, PumpGives
<1>4. order \in Line /\ IsInjective(order) /\ ToSet(order) \cap Running = {}
  BY Parts DEF QueueTyped, QueuePlaced
<1>5. ASSUME NEW t \in Torrents, JobEnds(t)
      PROVE  Running' \subseteq Running \/ Cardinality(Running') <= limit'
  BY <1>3, <1>4, <1>5, Parts DEF JobEnds
<1>6. ASSUME NEW n \in Limits, SetHashLimit(n)
      PROVE  Running' \subseteq Running \/ Cardinality(Running') <= limit'
  BY <1>3, <1>4, <1>6, CheckQueueAssumption DEF SetHashLimit
<1>7. ASSUME NEW t \in Torrents, Recheck(t)
      PROVE  Running' \subseteq Running \/ Cardinality(Running') <= limit'
  <2>1. CASE t \in Running \cup ToSet(order)
    BY <1>1, <1>7, <2>1 DEF Recheck
  <2>2. CASE t \notin Running \cup ToSet(order)
    <3>1. /\ Append(order, t) \in Line /\ IsInjective(Append(order, t))
          /\ ToSet(Append(order, t)) \cap Running = {}
      BY <1>4, <2>2, Appended
    <3>2. Pump(Append(order, t), Running, limit') /\ limit' \in Nat
      BY <1>7, <2>2, Parts DEF Recheck
    <3> QED
      BY <1>3, <3>1, <3>2
  <2> QED
    BY <2>1, <2>2
<1>8. CASE Restart
  BY <1>8 DEF Restart, Running
<1>9. CASE UNCHANGED vars
  BY <1>1, <1>9 DEF vars
<1>10. CASE Loop
  BY <1>1, <1>10 DEF Loop, ReadState, Tick, QueuePause, QueueResume
<1>11. ASSUME NEW t \in Torrents, Check(t) \/ Job(t) \/ Request(t)
       PROVE  Running' \subseteq Running \/ Cardinality(Running') <= limit'
  BY <1>1, <1>2, <1>5, <1>11 DEF Check, Job, Request, PauseTorrent, SavePaused, ResumeTorrent
<1>12. ASSUME NEW t \in Torrents, Pause(t) \/ Resume(t) \/ Recheck(t) \/ RemoveTorrent(t)
       PROVE  Running' \subseteq Running \/ Cardinality(Running') <= limit'
  BY <1>1, <1>7, <1>12 DEF Pause, Resume, RemoveTorrent
<1>13. CASE PeriodicSave
  BY <1>1, <1>13 DEF PeriodicSave
<1> QED
  BY <1>6, <1>8, <1>9, <1>10, <1>11, <1>12, <1>13 DEF Next

LEMMA StepReads == CheckQueueInv /\ [Next]_vars => Slots!Next
<1> SUFFICES ASSUME CheckQueueInv, [Next]_vars PROVE Slots!Next
  OBVIOUS
<1>1. CASE \E late : Tick(late)
  BY <1>1, TickAdmits DEF Slots!Next
<1>2. CASE \A late : ~Tick(late)
  <2>1. limit' \in Limits /\ Running' \subseteq Torrents \ Watched'
    BY StepCheckQueue, ReadersCountedNext DEF Readers
  <2>2. Watched' \subseteq Watched
    BY <1>2, NobodyAdmitted
  <2> QED
    BY <2>1, <2>2, RechecksWithin, SameCardinality DEF Slots!Next, Slots!Recheck, Watched
<1> QED
  BY <1>1, <1>2

-----------------------------------------------------------------------------
(* Every variable keeps its type: hash_queue.py, check_admit.py and the    *)
(* requests of torrent_runtime.py beside them.                             *)
THEOREM CheckTypes == Spec => []TypeOK
<1>1. CheckQueueInv => TypeOK
  BY InvariantSays
<1> QED
  BY <1>1, CheckQueueInductive, PTL

(* A torrent has one place: it is held, queued, probed or hashed, once, or *)
(* in the queue of rechecks, or runs there; _waiting and _known agree with *)
(* the sequences after every drop, tick and restart.                       *)
THEOREM TorrentHasOnePlace == Spec => []OnePlace
<1>1. CheckQueueInv => OnePlace
  BY InvariantSays
<1> QED
  BY <1>1, CheckQueueInductive, PTL

(* A torrent the clients show as waiting is paused in libtorrent, once the *)
(* loop has carried out its last decision, whatever requests and rechecks  *)
(* ran between its steps.                                                  *)
THEOREM WhoWaitsIsPaused == Spec => []WaitingIsPaused
<1>1. CheckQueueInv => WaitingIsPaused
  BY InvariantSays
<1> QED
  BY <1>1, CheckQueueInductive, PTL

(* Checks and explicit rechecks share the slots as ReadSlots says: a round *)
(* of the admission lets nobody in beyond hash_per_engine, the running     *)
(* rechecks counted; a recheck begins only while the rechecks are within   *)
(* it; no torrent reads for both, whatever pause, removal, restart or      *)
(* smaller limit comes between a look at the torrents and the decision.    *)
THEOREM SlotsAreShared == Spec => ImplementsReadSlots
<1>1. Init => Slots!Init
  <2> SUFFICES ASSUME Init PROVE Slots!Init
    OBVIOUS
  <2>1. ToSet(probing) = {} /\ hashing = {} /\ Running = {} /\ limit \in Limits
    BY EmptyLine DEF Init, Running
  <2> QED
    BY <2>1 DEF Slots!Init
<1>2. CheckQueueInv /\ [Next]_vars => [Slots!Next]_<<limit, Watched, Running>>
  BY StepReads
<1> QED
  BY <1>1, <1>2, CheckQueueInductive, PTL
  DEF Spec, ImplementsReadSlots, Slots!Spec, Watched

(* What the two together cost the disk: with no limit above most, neither  *)
(* the checks nor the rechecks are ever more than most, and no torrent is  *)
(* in both; the limit on them is not a limit on their sum.                 *)
THEOREM DiskIsBounded ==
    ASSUME NEW most \in Nat, \A n \in Limits : n <= most
    PROVE  Spec => []Slots!Crowd(most)
<1> DEFINE Bounded == /\ limit \in Limits /\ Cardinality(Running) <= most
                     /\ Cardinality(Watched) <= most
<1>1. Init => Bounded
  <2> SUFFICES ASSUME Init PROVE Bounded
    OBVIOUS
  <2>1. ToSet(probing) = {} /\ hashing = {} /\ Running = {} /\ limit \in Limits
    BY EmptyLine DEF Init, Running
  <2>2. Watched = {}
    BY <2>1 DEF Watched
  <2> QED
    BY <2>1, <2>2, FS_EmptySet
<1>2. CheckQueueInv /\ Bounded /\ [Next]_vars => Bounded'
  <2> SUFFICES ASSUME CheckQueueInv, Bounded, [Next]_vars PROVE Bounded'
    OBVIOUS
  <2>1. limit' \in Limits
    BY StepCheckQueue, ReadersCountedNext DEF Readers
  <2>2. /\ Watched \subseteq Torrents /\ Running \subseteq Torrents
        /\ Cardinality(Watched) \in Nat /\ Cardinality(Running) \in Nat
    BY ReadersCounted DEF Readers
  <2>3. /\ limit \in Nat /\ limit <= most /\ limit' \in Nat /\ limit' <= most
    BY <2>1, CheckQueueAssumption
  <2>4. Cardinality(Running') \in Nat /\ Cardinality(Watched') \in Nat
    BY StepCheckQueue, ReadersCountedNext DEF Readers
  <2>5. Cardinality(Running') <= most
    <3>1. CASE Running' \subseteq Running
      <4>1. Cardinality(Running') <= Cardinality(Running)
        BY <2>2, <3>1, Counted
      <4> QED
        BY <2>2, <2>4, <4>1
    <3>2. CASE Cardinality(Running') <= limit'
      BY <2>3, <2>4, <3>2
    <3> QED
      BY <3>1, <3>2, RechecksWithin
  <2>6. Cardinality(Watched') <= most
    <3>1. CASE Watched' \subseteq Watched
      <4>1. Cardinality(Watched') <= Cardinality(Watched)
        BY <2>2, <3>1, Counted
      <4> QED
        BY <2>2, <2>4, <4>1
    <3>2. CASE \E late : Tick(late)
      <4>1. Watched' \subseteq Watched \/ Cardinality(Watched') + Cardinality(Running') <= limit
        BY <3>2, TickAdmits, SameCardinality DEF Slots!Admit, Watched
      <4> QED
        BY <2>3, <2>4, <3>1, <4>1
    <3> QED
      BY <3>1, <3>2, NobodyAdmitted
  <2> QED
    BY <2>1, <2>5, <2>6
<1>3. CheckQueueInv /\ Bounded => Slots!Crowd(most)
  <2> SUFFICES ASSUME CheckQueueInv, Bounded PROVE Slots!Crowd(most)
    OBVIOUS
  <2>1. Watched \cap Running = {}
    BY ReadersCounted DEF Readers
  <2> QED
    BY <2>1, SameCardinality DEF Slots!Crowd, Watched
<1> HIDE DEF Bounded
<1> QED
  BY <1>1, <1>2, <1>3, CheckQueueInductive, PTL DEF Spec
=============================================================================
