---------------------------- MODULE SublistProofs ----------------------------
(***************************************************************************)
(* Facts about the operators of Sublists, for the proofs that use them:     *)
(* filtering a list keeps exactly the members asked for, each as often as   *)
(* before, in the order they had.  With them, the facts about prefixes,     *)
(* finite counts and products that the proofs about the routers share.      *)
(***************************************************************************)
EXTENDS Sublists, FiniteSetTheorems, WellFoundedInduction, TLAPS

(* The places and the elements of a list. *)
LEMMA ListFacts ==
  ASSUME NEW T, NEW s \in Seq(T)
  PROVE  /\ Len(s) \in Nat /\ DOMAIN s = 1..Len(s)
         /\ Elements(s) \subseteq T
         /\ \A i \in DOMAIN s : s[i] \in T /\ s[i] \in Elements(s)
  BY DEF Elements

(* Counting the members met: none before the first, then one more at each   *)
(* member.                                                                  *)
LEMMA MetByStep ==
  ASSUME NEW T, NEW s \in Seq(T), NEW S, NEW j \in Nat
  PROVE  /\ MetBy(s, S, 0) = 0
         /\ MetBy(s, S, j) \in Nat
         /\ s[j + 1] \in S => MetBy(s, S, j + 1) = MetBy(s, S, j) + 1
         /\ s[j + 1] \notin S => MetBy(s, S, j + 1) = MetBy(s, S, j)
<1> DEFINE M(k) == {m \in 1..k : s[m] \in S}
<1>1. IsFiniteSet(M(j)) /\ Cardinality(M(j)) \in Nat
  <2>1. IsFiniteSet(1..j)
    BY FS_Interval
  <2>2. M(j) \in SUBSET (1..j)
    OBVIOUS
  <2>3. IsFiniteSet(M(j))
    BY <2>1, <2>2, FS_Subset
  <2> QED
    BY <2>3, FS_CardinalityType
<1>2. MetBy(s, S, 0) = 0
  <2>1. M(0) = {}
    OBVIOUS
  <2> QED
    BY <2>1, FS_EmptySet DEF MetBy
<1>3. CASE s[j + 1] \in S
  <2>1. M(j + 1) = M(j) \cup {j + 1}
    BY <1>3
  <2>2. j + 1 \notin M(j)
    OBVIOUS
  <2>3. Cardinality(M(j) \cup {j + 1}) = Cardinality(M(j)) + 1
    BY <1>1, <2>2, FS_AddElement
  <2> QED
    BY <1>1, <1>2, <1>3, <2>1, <2>3 DEF MetBy
<1>4. CASE s[j + 1] \notin S
  <2>1. M(j + 1) = M(j)
    BY <1>4
  <2> QED
    BY <1>1, <1>2, <1>4, <2>1 DEF MetBy
<1> QED
  BY <1>3, <1>4

(* The count never falls. *)
LEMMA MetByMonotonic ==
  ASSUME NEW T, NEW s \in Seq(T), NEW S, NEW i \in Nat, NEW j \in Nat, i <= j
  PROVE  MetBy(s, S, i) <= MetBy(s, S, j)
<1> DEFINE M(k) == {m \in 1..k : s[m] \in S}
<1>1. IsFiniteSet(M(j))
  <2>1. IsFiniteSet(1..j)
    BY FS_Interval
  <2>2. M(j) \in SUBSET (1..j)
    OBVIOUS
  <2> QED
    BY <2>1, <2>2, FS_Subset
<1>2. M(i) \in SUBSET M(j)
  OBVIOUS
<1>3. Cardinality(M(i)) <= Cardinality(M(j))
  BY <1>1, <1>2, FS_Subset
<1> QED
  BY <1>3 DEF MetBy

(* Two members at different places are counted at different counts. *)
LEMMA MetByStrict ==
  ASSUME NEW T, NEW s \in Seq(T), NEW S, NEW i \in Nat, NEW j \in Nat, i < j, s[j] \in S
  PROVE  MetBy(s, S, i) < MetBy(s, S, j)
<1>1. j - 1 \in Nat /\ i <= j - 1 /\ (j - 1) + 1 = j
  OBVIOUS
<1>2. MetBy(s, S, i) <= MetBy(s, S, j - 1)
  BY <1>1, MetByMonotonic
<1>3. MetBy(s, S, (j - 1) + 1) = MetBy(s, S, j - 1) + 1 /\ MetBy(s, S, j - 1) \in Nat
  BY <1>1, MetByStep
<1>4. MetBy(s, S, i) \in Nat
  BY MetByStep
<1> QED
  BY <1>1, <1>2, <1>3, <1>4

(* A nonempty set of natural numbers has a least element. *)
LEMMA LeastNat ==
  ASSUME NEW T \in SUBSET Nat, T # {}
  PROVE  \E x \in T : \A y \in T : x <= y
<1> DEFINE W == {0..x : x \in T}
<1>1. W \subseteq FiniteSubsetsOf(Nat) /\ W # {}
  <2>1. \A x \in T : 0..x \in SUBSET Nat /\ IsFiniteSet(0..x)
    BY FS_Interval
  <2> QED
    BY <2>1 DEF FiniteSubsetsOf
<1>2. \E w \in W : \A v \in W : ~(<<v, w>> \in StrictSubsetOrdering(Nat))
  BY <1>1, FS_StrictSubsetOrderingWellFounded, WFMin
<1>3. PICK x \in T : \A y \in T : ~(<<0..y, 0..x>> \in StrictSubsetOrdering(Nat))
  BY <1>2
<1>4. ASSUME NEW y \in T, y < x PROVE FALSE
  <2>1. 0..y \subseteq 0..x /\ x \in 0..x /\ x \notin 0..y
    BY <1>4
  <2>2. <<0..y, 0..x>> \in (SUBSET Nat) \X (SUBSET Nat) /\ 0..y # 0..x
    BY <2>1
  <2>3. <<0..y, 0..x>> \in StrictSubsetOrdering(Nat)
    BY <2>1, <2>2 DEF StrictSubsetOrdering
  <2> QED
    BY <1>3, <2>3
<1> QED
  BY <1>4

(* Every count up to the last is the count at some member, so the choice in *)
(* Sublist is never empty.                                                  *)
LEMMA SublistAt ==
  ASSUME NEW T, NEW s \in Seq(T), NEW S, NEW i \in 1..MetBy(s, S, Len(s))
  PROVE  \E j \in DOMAIN s : s[j] \in S /\ MetBy(s, S, j) = i /\ Sublist(s, S)[i] = s[j]
<1> DEFINE U == {j \in Nat : j \in 1..Len(s) /\ MetBy(s, S, j) >= i}
<1>1. Len(s) \in Nat /\ DOMAIN s = 1..Len(s)
  OBVIOUS
<1>2. \A j \in Nat : MetBy(s, S, j) \in Nat
  BY MetByStep
<1>3. MetBy(s, S, 0) = 0
  BY MetByStep
<1>4. i \in Nat /\ i >= 1
  BY <1>1, <1>2
<1>5. Len(s) # 0
  BY <1>1, <1>2, <1>3, <1>4
<1>6. U \in SUBSET Nat /\ U # {}
  <2>1. Len(s) \in U
    BY <1>1, <1>2, <1>4, <1>5
  <2> QED
    BY <2>1
<1>7. PICK j \in U : \A k \in U : j <= k
  BY <1>6, LeastNat
<1>8. j \in 1..Len(s) /\ j \in Nat /\ MetBy(s, S, j) >= i
  BY <1>7
<1>9. \A k \in Nat : k \in 1..Len(s) /\ MetBy(s, S, k) >= i => j <= k
  BY <1>7
<1> HIDE DEF U
<1>10. PICK p \in Nat : j = p + 1
  BY <1>8
<1>11. /\ s[j] \in S => MetBy(s, S, j) = MetBy(s, S, p) + 1
       /\ s[j] \notin S => MetBy(s, S, j) = MetBy(s, S, p)
  <2>1. /\ s[p + 1] \in S => MetBy(s, S, p + 1) = MetBy(s, S, p) + 1
        /\ s[p + 1] \notin S => MetBy(s, S, p + 1) = MetBy(s, S, p)
    BY MetByStep
  <2> QED
    BY <2>1, <1>10
<1>12. s[j] \in S /\ MetBy(s, S, j) = i
  <2>1. MetBy(s, S, p) < i
    <3>1. CASE p = 0
      BY <3>1, <1>3, <1>4
    <3>2. CASE p # 0
      <4>1. p \in 1..Len(s) /\ ~(j <= p)
        BY <3>2, <1>1, <1>8, <1>10
      <4> QED
        BY <4>1, <1>2, <1>4, <1>9
    <3> QED
      BY <3>1, <3>2
  <2>2. MetBy(s, S, p) \in Nat /\ MetBy(s, S, j) \in Nat
    BY <1>2, <1>8
  <2>3. s[j] \in S
    BY <2>1, <2>2, <1>4, <1>8, <1>11
  <2> QED
    BY <2>1, <2>2, <2>3, <1>4, <1>8, <1>11
<1>13. \E k \in DOMAIN s : s[k] \in S /\ MetBy(s, S, k) = i
  BY <1>1, <1>8, <1>12
<1> DEFINE c == CHOOSE k \in DOMAIN s : s[k] \in S /\ MetBy(s, S, k) = i
<1>14. c \in DOMAIN s /\ s[c] \in S /\ MetBy(s, S, c) = i
  BY <1>13
<1>15. Sublist(s, S)[i] = s[c]
  BY DEF Sublist
<1> QED
  BY <1>14, <1>15

(* Its length is the number of members met. *)
LEMMA SublistLen ==
  ASSUME NEW T, NEW s \in Seq(T), NEW S
  PROVE  /\ Len(Sublist(s, S)) = MetBy(s, S, Len(s))
         /\ Len(Sublist(s, S)) \in Nat
         /\ DOMAIN Sublist(s, S) = 1..MetBy(s, S, Len(s))
<1>1. MetBy(s, S, Len(s)) \in Nat
  BY MetByStep
<1> QED
  BY <1>1 DEF Sublist

LEMMA SublistType ==
  ASSUME NEW T, NEW s \in Seq(T), NEW S
  PROVE  Sublist(s, S) \in Seq(T)
<1>1. MetBy(s, S, Len(s)) \in Nat
  BY MetByStep
<1>2. \A i \in 1..MetBy(s, S, Len(s)) : Sublist(s, S)[i] \in T
  <2> SUFFICES ASSUME NEW i \in 1..MetBy(s, S, Len(s))
               PROVE  Sublist(s, S)[i] \in T
    OBVIOUS
  <2>1. \E j \in DOMAIN s : Sublist(s, S)[i] = s[j]
    BY SublistAt
  <2> QED
    BY <2>1
<1> DEFINE f == Sublist(s, S) n == MetBy(s, S, Len(s))
<1>3. f = [i \in 1..n |-> f[i]]
  BY DEF Sublist
<1> HIDE DEF f, n
<1>4. f \in [1..n -> T]
  BY <1>2, <1>3 DEF f, n
<1>5. n \in Nat
  BY <1>1 DEF n
<1>6. f \in Seq(T)
  BY <1>4, <1>5
<1> QED
  BY <1>6 DEF f

(* It has exactly the elements of s that are in S. *)
LEMMA SublistElements ==
  ASSUME NEW T, NEW s \in Seq(T), NEW S
  PROVE  Elements(Sublist(s, S)) = Elements(s) \cap S
<1> DEFINE n == MetBy(s, S, Len(s))
<1>1. DOMAIN Sublist(s, S) = 1..n
  BY SublistLen
<1>2. \A i \in 1..n : Sublist(s, S)[i] \in Elements(s) \cap S
  <2> SUFFICES ASSUME NEW i \in 1..n PROVE Sublist(s, S)[i] \in Elements(s) \cap S
    OBVIOUS
  <2>1. \E j \in DOMAIN s : s[j] \in S /\ Sublist(s, S)[i] = s[j]
    BY SublistAt
  <2> QED
    BY <2>1 DEF Elements
<1>3. ASSUME NEW x \in Elements(s) \cap S PROVE x \in Elements(Sublist(s, S))
  <2>1. PICK j \in DOMAIN s : x = s[j]
    BY DEF Elements
  <2>2. j \in Nat /\ Len(s) \in Nat /\ 0 < j /\ j <= Len(s) /\ s[j] \in S
    BY <2>1
  <2>3. /\ MetBy(s, S, j) \in Nat /\ MetBy(s, S, 0) = 0
        /\ MetBy(s, S, 0) < MetBy(s, S, j) /\ MetBy(s, S, j) <= n /\ n \in Nat
    BY <2>2, MetByStep, MetByStrict, MetByMonotonic
  <2>4. MetBy(s, S, j) \in 1..n
    BY <2>3
  <2>5. PICK k \in DOMAIN s : /\ s[k] \in S /\ MetBy(s, S, k) = MetBy(s, S, j)
                              /\ Sublist(s, S)[MetBy(s, S, j)] = s[k]
    BY <2>4, SublistAt
  <2>6. k \in Nat
    BY <2>5
  <2>7. ~(k < j) /\ ~(j < k)
    BY <2>1, <2>2, <2>3, <2>5, <2>6, MetByStrict
  <2>8. k = j
    BY <2>2, <2>6, <2>7
  <2> QED
    BY <1>1, <2>1, <2>4, <2>5, <2>8 DEF Elements
<1> QED
  BY <1>1, <1>2, <1>3 DEF Elements

(* It keeps the order of s: later in it means later in s. *)
LEMMA SublistOrder ==
  ASSUME NEW T, NEW s \in Seq(T), NEW S,
         NEW a \in DOMAIN Sublist(s, S), NEW b \in DOMAIN Sublist(s, S), a < b
  PROVE  \E i, j \in DOMAIN s : i < j /\ Sublist(s, S)[a] = s[i] /\ Sublist(s, S)[b] = s[j]
<1>1. a \in 1..MetBy(s, S, Len(s)) /\ b \in 1..MetBy(s, S, Len(s)) /\ MetBy(s, S, Len(s)) \in Nat
  BY SublistLen
<1>2. PICK i \in DOMAIN s : MetBy(s, S, i) = a /\ Sublist(s, S)[a] = s[i]
  BY <1>1, SublistAt
<1>3. PICK j \in DOMAIN s : MetBy(s, S, j) = b /\ Sublist(s, S)[b] = s[j]
  BY <1>1, SublistAt
<1>4. i \in Nat /\ j \in Nat
  BY <1>2, <1>3
<1>5. ~(j <= i)
  BY <1>1, <1>2, <1>3, <1>4, MetByMonotonic
<1> QED
  BY <1>2, <1>3, <1>4, <1>5

(* A list without repetitions has none after filtering. *)
LEMMA SublistInjective ==
  ASSUME NEW T, NEW s \in Seq(T), NEW S, IsInjectiveSeq(s)
  PROVE  IsInjectiveSeq(Sublist(s, S))
<1> SUFFICES ASSUME NEW a \in DOMAIN Sublist(s, S), NEW b \in DOMAIN Sublist(s, S),
                    Sublist(s, S)[a] = Sublist(s, S)[b]
             PROVE  a = b
  BY DEF IsInjectiveSeq
<1>1. a \in 1..MetBy(s, S, Len(s)) /\ b \in 1..MetBy(s, S, Len(s))
  BY SublistLen
<1>2. PICK i \in DOMAIN s : MetBy(s, S, i) = a /\ Sublist(s, S)[a] = s[i]
  BY <1>1, SublistAt
<1>3. PICK j \in DOMAIN s : MetBy(s, S, j) = b /\ Sublist(s, S)[b] = s[j]
  BY <1>1, SublistAt
<1>4. i = j
  BY <1>2, <1>3 DEF IsInjectiveSeq
<1> QED
  BY <1>2, <1>3, <1>4

(* Reversing keeps the elements and their number. *)
LEMMA BackwardsFacts ==
  ASSUME NEW T, NEW s \in Seq(T)
  PROVE  /\ Backwards(s) \in Seq(T)
         /\ Elements(Backwards(s)) = Elements(s)
         /\ IsInjectiveSeq(s) => IsInjectiveSeq(Backwards(s))
<1>1. DOMAIN Backwards(s) = 1..Len(s) /\ DOMAIN s = 1..Len(s) /\ Len(s) \in Nat
  BY DEF Backwards
<1>2. \A i \in 1..Len(s) : Backwards(s)[i] = s[Len(s) + 1 - i]
  BY DEF Backwards
<1>3. \A i \in 1..Len(s) : Len(s) + 1 - i \in 1..Len(s) /\ Len(s) + 1 - (Len(s) + 1 - i) = i
  BY <1>1
<1>4. Backwards(s) \in Seq(T)
  BY <1>1, <1>3 DEF Backwards
<1>5. Elements(Backwards(s)) = Elements(s)
  <2>1. ASSUME NEW i \in 1..Len(s) PROVE s[i] \in Elements(Backwards(s))
    BY <1>1, <1>2, <1>3 DEF Elements
  <2>2. ASSUME NEW i \in 1..Len(s) PROVE Backwards(s)[i] \in Elements(s)
    BY <1>1, <1>2, <1>3 DEF Elements
  <2> QED
    BY <1>1, <2>1, <2>2 DEF Elements
<1>6. ASSUME IsInjectiveSeq(s) PROVE IsInjectiveSeq(Backwards(s))
  BY <1>1, <1>2, <1>3, <1>6 DEF IsInjectiveSeq
<1> QED
  BY <1>4, <1>5, <1>6

(* Joining two lists. *)
LEMMA ConcatFacts ==
  ASSUME NEW T, NEW s \in Seq(T), NEW t \in Seq(T)
  PROVE  /\ s \o t \in Seq(T)
         /\ Len(s \o t) = Len(s) + Len(t)
         /\ Elements(s \o t) = Elements(s) \cup Elements(t)
         /\ IsInjectiveSeq(s) /\ IsInjectiveSeq(t) /\ Elements(s) \cap Elements(t) = {}
              => IsInjectiveSeq(s \o t)
<1> DEFINE u == s \o t
<1>1. /\ u \in Seq(T) /\ Len(u) = Len(s) + Len(t) /\ Len(s) \in Nat /\ Len(t) \in Nat
      /\ DOMAIN u = 1..(Len(s) + Len(t)) /\ DOMAIN s = 1..Len(s) /\ DOMAIN t = 1..Len(t)
  OBVIOUS
<1>2. \A i \in 1..Len(s) : u[i] = s[i]
  OBVIOUS
<1>3. \A i \in 1..Len(t) : u[Len(s) + i] = t[i]
  OBVIOUS
<1>4. \A i \in DOMAIN u : i \in 1..Len(s) \/ (\E j \in 1..Len(t) : i = Len(s) + j)
  <2> SUFFICES ASSUME NEW i \in DOMAIN u, i \notin 1..Len(s)
               PROVE  \E j \in 1..Len(t) : i = Len(s) + j
    OBVIOUS
  <2>1. i - Len(s) \in 1..Len(t) /\ i = Len(s) + (i - Len(s))
    BY <1>1
  <2> QED
    BY <2>1
<1> HIDE DEF u
<1>5. Elements(u) = Elements(s) \cup Elements(t)
  <2>1. ASSUME NEW i \in DOMAIN u PROVE u[i] \in Elements(s) \cup Elements(t)
    BY <1>1, <1>2, <1>3, <1>4 DEF Elements
  <2>2. ASSUME NEW i \in DOMAIN s PROVE s[i] \in Elements(u)
    BY <1>1, <1>2 DEF Elements
  <2>3. ASSUME NEW i \in DOMAIN t PROVE t[i] \in Elements(u)
    <3>1. Len(s) + i \in DOMAIN u
      BY <1>1
    <3> QED
      BY <1>1, <1>3, <3>1 DEF Elements
  <2> QED
    BY <2>1, <2>2, <2>3 DEF Elements
<1>6. ASSUME IsInjectiveSeq(s), IsInjectiveSeq(t), Elements(s) \cap Elements(t) = {}
      PROVE  IsInjectiveSeq(u)
  <2> SUFFICES ASSUME NEW i \in DOMAIN u, NEW j \in DOMAIN u, u[i] = u[j] PROVE i = j
    BY DEF IsInjectiveSeq
  <2>1. CASE i \in 1..Len(s) /\ j \in 1..Len(s)
    BY <1>1, <1>2, <1>6, <2>1 DEF IsInjectiveSeq
  <2>2. CASE i \in 1..Len(s) /\ j \notin 1..Len(s)
    <3>1. u[i] \in Elements(s) /\ u[j] \in Elements(t)
      BY <1>1, <1>2, <1>3, <1>4, <2>2 DEF Elements
    <3> QED
      BY <1>6, <3>1
  <2>3. CASE i \notin 1..Len(s) /\ j \in 1..Len(s)
    <3>1. u[j] \in Elements(s) /\ u[i] \in Elements(t)
      BY <1>1, <1>2, <1>3, <1>4, <2>3 DEF Elements
    <3> QED
      BY <1>6, <3>1
  <2>4. CASE i \notin 1..Len(s) /\ j \notin 1..Len(s)
    <3>1. PICK k \in 1..Len(t) : i = Len(s) + k
      BY <1>4, <2>4
    <3>2. PICK l \in 1..Len(t) : j = Len(s) + l
      BY <1>4, <2>4
    <3>3. t[k] = t[l]
      BY <1>3, <3>1, <3>2
    <3> QED
      BY <1>1, <1>6, <3>1, <3>2, <3>3 DEF IsInjectiveSeq
  <2> QED
    BY <2>1, <2>2, <2>3, <2>4
<1> QED
  BY <1>1, <1>5, <1>6 DEF u

(* Two lists without repetitions and without a common element. *)
LEMMA ConcatInjective ==
  ASSUME NEW T, NEW s \in Seq(T), NEW t \in Seq(T),
         IsInjectiveSeq(s), IsInjectiveSeq(t), Elements(s) \cap Elements(t) = {}
  PROVE  /\ s \o t \in Seq(T) /\ Len(s \o t) = Len(s) + Len(t)
         /\ Elements(s \o t) = Elements(s) \cup Elements(t)
         /\ IsInjectiveSeq(s \o t)
  BY ConcatFacts

(* A new element before the others. *)
LEMMA ConsFacts ==
  ASSUME NEW T, NEW x \in T, NEW t \in Seq(T), IsInjectiveSeq(t), x \notin Elements(t)
  PROVE  /\ <<x>> \o t \in Seq(T) /\ IsInjectiveSeq(<<x>> \o t)
         /\ Elements(<<x>> \o t) = {x} \cup Elements(t)
<1> DEFINE s == <<x>>
<1>1. s \in Seq(T) /\ IsInjectiveSeq(s) /\ Elements(s) = {x}
  BY DEF IsInjectiveSeq, Elements
<1> HIDE DEF s
<1>2. Elements(s) \cap Elements(t) = {}
  BY <1>1
<1>3. s \o t \in Seq(T) /\ Elements(s \o t) = Elements(s) \cup Elements(t) /\ IsInjectiveSeq(s \o t)
  BY <1>1, <1>2, ConcatInjective
<1> QED
  BY <1>1, <1>3 DEF s

(* Cutting a list without repetitions in two. *)
LEMMA SplitFacts ==
  ASSUME NEW T, NEW s \in Seq(T), IsInjectiveSeq(s), NEW n \in 0..Len(s)
  PROVE  LET front == SubSeq(s, 1, n)
             back  == SubSeq(s, n + 1, Len(s))
         IN /\ front \in Seq(T) /\ back \in Seq(T)
            /\ Len(front) = n
            /\ IsInjectiveSeq(front) /\ IsInjectiveSeq(back)
            /\ Elements(front) = {s[i] : i \in 1..n}
            /\ Elements(back) = Elements(s) \ {s[i] : i \in 1..n}
<1> DEFINE front == SubSeq(s, 1, n)
           back == SubSeq(s, n + 1, Len(s))
           m == Len(s) - n
<1>1. /\ Len(s) \in Nat /\ n \in Nat /\ n <= Len(s) /\ m \in Nat
      /\ DOMAIN s = 1..Len(s)
  OBVIOUS
<1>2. front \in Seq(T) /\ Len(front) = n /\ DOMAIN front = 1..n /\ \A i \in 1..n : front[i] = s[i]
  BY <1>1
<1>3. back \in Seq(T) /\ DOMAIN back = 1..m /\ \A i \in 1..m : back[i] = s[n + i]
  BY <1>1
<1>4. \A i \in 1..n : i \in DOMAIN s
  BY <1>1
<1>5. \A i \in 1..m : n + i \in DOMAIN s /\ n + i \notin 1..n
  BY <1>1
<1>6. \A i \in DOMAIN s : i \notin 1..n => \E j \in 1..m : i = n + j
  <2> SUFFICES ASSUME NEW i \in DOMAIN s, i \notin 1..n
               PROVE  \E j \in 1..m : i = n + j
    OBVIOUS
  <2>1. i - n \in 1..m /\ i = n + (i - n)
    BY <1>1
  <2> QED
    BY <2>1
<1> HIDE DEF front, back, m
<1>7. IsInjectiveSeq(front)
  BY <1>2, <1>4 DEF IsInjectiveSeq
<1>8. IsInjectiveSeq(back)
  <2> SUFFICES ASSUME NEW i \in 1..m, NEW j \in 1..m, back[i] = back[j] PROVE i = j
    BY <1>3 DEF IsInjectiveSeq
  <2>1. n + i = n + j
    BY <1>3, <1>5 DEF IsInjectiveSeq
  <2> QED
    BY <1>1, <2>1
<1>9. Elements(front) = {s[i] : i \in 1..n}
  BY <1>2 DEF Elements
<1>10. Elements(back) = Elements(s) \ {s[i] : i \in 1..n}
  <2>1. ASSUME NEW i \in 1..m PROVE back[i] \in Elements(s) \ {s[k] : k \in 1..n}
    <3>1. back[i] = s[n + i] /\ n + i \in DOMAIN s /\ n + i \notin 1..n
      BY <1>3, <1>5
    <3>2. \A k \in 1..n : s[k] # s[n + i]
      BY <1>4, <3>1 DEF IsInjectiveSeq
    <3> QED
      BY <3>1, <3>2 DEF Elements
  <2>2. ASSUME NEW x \in Elements(s) \ {s[k] : k \in 1..n} PROVE x \in Elements(back)
    <3>1. PICK i \in DOMAIN s : x = s[i]
      BY DEF Elements
    <3>2. i \notin 1..n
      BY <3>1
    <3>3. PICK j \in 1..m : i = n + j
      BY <1>6, <3>2
    <3> QED
      BY <1>3, <3>1, <3>3 DEF Elements
  <2> QED
    BY <1>3, <2>1, <2>2 DEF Elements
<1> QED
  BY <1>2, <1>3, <1>7, <1>8, <1>9, <1>10 DEF front, back

(* The beginning of a list without repetitions. *)
LEMMA FrontFacts ==
  ASSUME NEW T, NEW s \in Seq(T), IsInjectiveSeq(s), NEW n \in 0..Len(s)
  PROVE  /\ SubSeq(s, 1, n) \in Seq(T) /\ Len(SubSeq(s, 1, n)) = n
         /\ IsInjectiveSeq(SubSeq(s, 1, n))
         /\ Elements(SubSeq(s, 1, n)) \subseteq Elements(s)
<1>1. /\ SubSeq(s, 1, n) \in Seq(T) /\ Len(SubSeq(s, 1, n)) = n
      /\ IsInjectiveSeq(SubSeq(s, 1, n))
      /\ Elements(SubSeq(s, 1, n)) = {s[i] : i \in 1..n}
  BY SplitFacts
<1>2. {s[i] : i \in 1..n} \subseteq Elements(s)
  BY ListFacts DEF Elements
<1> QED
  BY <1>1, <1>2

(* Adding at the end, and taking the head. *)
LEMMA AppendFacts ==
  ASSUME NEW T, NEW s \in Seq(T), NEW x \in T
  PROVE  /\ Append(s, x) \in Seq(T)
         /\ Len(Append(s, x)) = Len(s) + 1
         /\ \A i \in DOMAIN s : Append(s, x)[i] = s[i]
         /\ Append(s, x)[Len(s) + 1] = x
         /\ DOMAIN Append(s, x) = DOMAIN s \cup {Len(s) + 1}
         /\ Elements(Append(s, x)) = Elements(s) \cup {x}
         /\ IsInjectiveSeq(s) /\ x \notin Elements(s) => IsInjectiveSeq(Append(s, x))
<1> DEFINE u == Append(s, x)
<1>1. /\ u \in Seq(T) /\ Len(u) = Len(s) + 1 /\ Len(s) \in Nat
      /\ DOMAIN s = 1..Len(s) /\ DOMAIN u = 1..(Len(s) + 1)
      /\ \A i \in DOMAIN s : u[i] = s[i]
      /\ u[Len(s) + 1] = x
  OBVIOUS
<1>2. DOMAIN u = DOMAIN s \cup {Len(s) + 1} /\ Len(s) + 1 \notin DOMAIN s
  BY <1>1
<1> HIDE DEF u
<1>3. Elements(u) = Elements(s) \cup {x}
  BY <1>1, <1>2 DEF Elements
<1>4. ASSUME IsInjectiveSeq(s), x \notin Elements(s) PROVE IsInjectiveSeq(u)
  BY <1>1, <1>2, <1>4 DEF IsInjectiveSeq, Elements
<1> QED
  BY <1>1, <1>2, <1>3, <1>4 DEF u

LEMMA HeadTailFacts ==
  ASSUME NEW T, NEW s \in Seq(T), s # <<>>
  PROVE  /\ Head(s) = s[1] /\ s[1] \in T /\ 1 \in DOMAIN s
         /\ Tail(s) \in Seq(T)
         /\ \A i \in DOMAIN Tail(s) : i + 1 \in DOMAIN s /\ Tail(s)[i] = s[i + 1]
         /\ \A j \in DOMAIN s : j # 1 => j - 1 \in DOMAIN Tail(s) /\ Tail(s)[j - 1] = s[j]
         /\ Elements(s) = {s[1]} \cup Elements(Tail(s))
         /\ IsInjectiveSeq(s) => IsInjectiveSeq(Tail(s)) /\ s[1] \notin Elements(Tail(s))
<1> DEFINE u == Tail(s)
<1>1. /\ Head(s) = s[1] /\ Len(s) \in Nat /\ Len(s) >= 1 /\ DOMAIN s = 1..Len(s)
      /\ u \in Seq(T) /\ DOMAIN u = 1..(Len(s) - 1)
      /\ \A i \in 1..(Len(s) - 1) : u[i] = s[i + 1]
  OBVIOUS
<1>2. \A i \in DOMAIN u : i + 1 \in DOMAIN s /\ u[i] = s[i + 1] /\ i + 1 # 1
  BY <1>1
<1>3. \A j \in DOMAIN s : j # 1 => j - 1 \in DOMAIN u /\ u[j - 1] = s[j]
  BY <1>1
<1>4. s[1] \in T /\ 1 \in DOMAIN s
  BY <1>1
<1> HIDE DEF u
<1>5. Elements(s) = {s[1]} \cup Elements(u)
  <2>1. ASSUME NEW j \in DOMAIN s PROVE s[j] \in {s[1]} \cup Elements(u)
    BY <1>3 DEF Elements
  <2>2. ASSUME NEW i \in DOMAIN u PROVE u[i] \in Elements(s)
    BY <1>2 DEF Elements
  <2> QED
    BY <1>4, <2>1, <2>2 DEF Elements
<1>6. ASSUME IsInjectiveSeq(s) PROVE IsInjectiveSeq(u) /\ s[1] \notin Elements(u)
  <2>1. ASSUME NEW i \in DOMAIN u, NEW j \in DOMAIN u, u[i] = u[j] PROVE i = j
    <3>1. i + 1 = j + 1
      BY <1>2, <1>6, <2>1 DEF IsInjectiveSeq
    <3> QED
      BY <1>1, <3>1
  <2>2. ASSUME NEW i \in DOMAIN u PROVE u[i] # s[1]
    BY <1>2, <1>4, <1>6 DEF IsInjectiveSeq
  <2> QED
    BY <2>1, <2>2 DEF IsInjectiveSeq, Elements
<1> QED
  BY <1>1, <1>2, <1>3, <1>4, <1>5, <1>6 DEF u

(* A list filtered as it grows. *)
LEMMA SublistAppend ==
  ASSUME NEW T, NEW s \in Seq(T), NEW x \in T, NEW S
  PROVE  Sublist(Append(s, x), S) = IF x \in S THEN Append(Sublist(s, S), x) ELSE Sublist(s, S)
<1> DEFINE a == Append(s, x)
           n == Len(s)
           k == MetBy(s, S, n)
<1>1. /\ a \in Seq(T) /\ Len(a) = n + 1 /\ n \in Nat /\ a[n + 1] = x
      /\ DOMAIN s = 1..n /\ DOMAIN a = 1..(n + 1)
      /\ \A j \in 1..n : a[j] = s[j]
  BY AppendFacts, ListFacts
<1>2. k \in Nat /\ \A j \in Nat : MetBy(s, S, j) \in Nat /\ MetBy(a, S, j) \in Nat
  BY <1>1, MetByStep
<1> HIDE DEF a, n, k
<1>3. \A j \in 0..n : MetBy(a, S, j) = MetBy(s, S, j)
  <2> SUFFICES ASSUME NEW j \in 0..n PROVE MetBy(a, S, j) = MetBy(s, S, j)
    OBVIOUS
  <2>1. {m \in 1..j : a[m] \in S} = {m \in 1..j : s[m] \in S}
    BY <1>1
  <2> QED
    BY <2>1 DEF MetBy
<1>4. MetBy(a, S, n) = k
  BY <1>1, <1>3 DEF k
<1>5. /\ x \in S => MetBy(a, S, n + 1) = k + 1
      /\ x \notin S => MetBy(a, S, n + 1) = k
  BY <1>1, <1>4, MetByStep
<1> DEFINE h == MetBy(a, S, n + 1)
<1>5a. h = IF x \in S THEN k + 1 ELSE k
  BY <1>5
<1>5b. MetBy(a, S, Len(a)) = h
  BY <1>1
<1> HIDE DEF h
<1>6. ASSUME NEW i \in 1..k PROVE Sublist(a, S)[i] = Sublist(s, S)[i]
  <2>1. PICK j \in DOMAIN s : s[j] \in S /\ MetBy(s, S, j) = i /\ Sublist(s, S)[i] = s[j]
    <3>1. i \in 1..MetBy(s, S, Len(s))
      BY DEF k, n
    <3> QED
      BY <3>1, SublistAt
  <2>2. PICK l \in DOMAIN a : a[l] \in S /\ MetBy(a, S, l) = i /\ Sublist(a, S)[i] = a[l]
    <3>1. i \in 1..h
      BY <1>2, <1>5a
    <3> QED
      BY <1>1, <1>5b, <3>1, SublistAt
  <2>3. l # n + 1
    BY <1>1, <1>2, <1>5, <2>2
  <2>4. l \in 1..n /\ j \in 1..n
    BY <1>1, <2>1, <2>2, <2>3
  <2>5. s[l] \in S /\ MetBy(s, S, l) = i /\ Sublist(a, S)[i] = s[l]
    BY <1>1, <1>3, <2>2, <2>4
  <2>6. ~(j < l)
    <3> SUFFICES ASSUME j < l PROVE FALSE
      OBVIOUS
    <3>1. j \in Nat /\ l \in Nat
      BY <1>1, <2>4
    <3>2. MetBy(s, S, j) < MetBy(s, S, l)
      BY <2>5, <3>1, MetByStrict
    <3> QED
      BY <1>2, <2>1, <2>5, <3>1, <3>2
  <2>7. ~(l < j)
    <3> SUFFICES ASSUME l < j PROVE FALSE
      OBVIOUS
    <3>1. j \in Nat /\ l \in Nat
      BY <1>1, <2>4
    <3>2. MetBy(s, S, l) < MetBy(s, S, j)
      BY <2>1, <3>1, MetByStrict
    <3> QED
      BY <1>2, <2>1, <2>5, <3>1, <3>2
  <2>8. j = l
    BY <1>1, <2>4, <2>6, <2>7
  <2> QED
    BY <2>1, <2>5, <2>8
<1>7. /\ Sublist(s, S) \in Seq(T) /\ Len(Sublist(s, S)) = k /\ DOMAIN Sublist(s, S) = 1..k
      /\ Sublist(a, S) \in Seq(T) /\ Len(Sublist(a, S)) = MetBy(a, S, n + 1)
      /\ DOMAIN Sublist(a, S) = 1..MetBy(a, S, n + 1)
  BY <1>1, SublistType, SublistLen DEF k, n
<1>8. CASE x \in S
  <2> DEFINE b == Append(Sublist(s, S), x)
  <2>1. /\ b \in Seq(T) /\ Len(b) = k + 1 /\ b[k + 1] = x
        /\ \A i \in 1..k : b[i] = Sublist(s, S)[i]
    BY <1>7, AppendFacts
  <2>2. Sublist(a, S)[k + 1] = x
    <3>1. PICK l \in DOMAIN a : a[l] \in S /\ MetBy(a, S, l) = k + 1 /\ Sublist(a, S)[k + 1] = a[l]
      <4>1. k + 1 \in 1..h
        BY <1>2, <1>5a, <1>8
      <4> QED
        BY <1>1, <1>5b, <4>1, SublistAt
    <3>2. l = n + 1
      <4> SUFFICES ASSUME l # n + 1 PROVE FALSE
        OBVIOUS
      <4>1. l \in Nat /\ l <= n
        BY <1>1, <3>1
      <4>2. MetBy(a, S, l) <= MetBy(a, S, n)
        BY <1>1, <4>1, MetByMonotonic
      <4> QED
        BY <1>2, <1>4, <3>1, <4>2
    <3> QED
      BY <1>1, <3>1, <3>2
  <2> HIDE DEF b
  <2>3. ASSUME NEW i \in 1..(k + 1) PROVE Sublist(a, S)[i] = b[i]
    <3>1. CASE i = k + 1
      BY <2>1, <2>2, <3>1
    <3>2. CASE i # k + 1
      <4>1. i \in 1..k
        BY <1>2, <3>2
      <4> QED
        BY <1>6, <2>1, <4>1
    <3> QED
      BY <3>1, <3>2
  <2>4. Sublist(a, S) = b
    BY <1>5, <1>7, <1>8, <2>1, <2>3
  <2> QED
    BY <1>8, <2>4 DEF a, b
<1>9. CASE x \notin S
  <2>1. Sublist(a, S) = Sublist(s, S)
    BY <1>5, <1>6, <1>7, <1>9
  <2> QED
    BY <1>9, <2>1 DEF a
<1> QED
  BY <1>8, <1>9

-----------------------------------------------------------------------------
(* Prefixes, products and counts *)

(* A list has a longest prefix in S, and what follows it is not in S.       *)
LEMMA LongestPrefix ==
  ASSUME NEW T, NEW s \in Seq(T), NEW S
  PROVE  \E h \in 0..Len(s) : /\ \A k \in 1..h : s[k] \in S
                              /\ h = Len(s) \/ s[h + 1] \notin S
<1> DEFINE n == Len(s)
           U == {h \in Nat : h \in 0..n /\ (h = n \/ s[h + 1] \notin S)}
<1>1. n \in Nat
  BY ListFacts
<1> HIDE DEF n
<1>2. U \in SUBSET Nat /\ n \in U
  BY <1>1
<1>3. PICK h \in U : \A g \in U : h <= g
  BY <1>2, LeastNat
<1>4. ASSUME NEW k \in 1..h PROVE s[k] \in S
  <2>1. k - 1 \in Nat /\ k - 1 \in 0..n /\ ~(h <= k - 1) /\ k - 1 + 1 = k
    BY <1>1, <1>3
  <2>2. k - 1 \notin U
    BY <1>3, <2>1
  <2> QED
    BY <2>1, <2>2
<1>5. h \in 0..n /\ (h = n \/ s[h + 1] \notin S)
  BY <1>3
<1> QED
  BY <1>4, <1>5 DEF n

LEMMA TimesBelow ==
  ASSUME NEW h \in Nat, NEW m \in Nat, NEW d \in Nat \ {0}, h <= m \div d
  PROVE  h * d \in Nat /\ h * d <= m
<1>1. m \div d \in Nat /\ (m \div d) * d <= m
  BY SMT
<1>2. h * d <= (m \div d) * d /\ h * d \in Nat
  BY <1>1, SMT
<1> QED
  BY <1>1, <1>2, SMT

LEMMA TimesAbove ==
  ASSUME NEW a \in Nat, NEW k \in Nat, k >= 1
  PROVE  a * (k + 1) >= a + a /\ a * (k + 1) \in Nat
<1>1. a * (k + 1) = a * k + a /\ a * k \in Nat
  OBVIOUS
<1>2. a * k >= a
  <2>1. a * k = a * (k - 1) + a /\ k - 1 \in Nat
    OBVIOUS
  <2>2. a * (k - 1) \in Nat
    BY <2>1
  <2> QED
    BY <1>1, <2>1, <2>2
<1> QED
  BY <1>1, <1>2

LEMMA LeastOver ==
  ASSUME NEW f, NEW W, W # {}, \A i \in W : f[i] \in Nat
  PROVE  \E i \in W : \A j \in W : f[i] <= f[j]
<1> DEFINE T == {f[i] : i \in W}
<1>1. T \in SUBSET Nat /\ T # {}
  OBVIOUS
<1>2. PICK x \in T : \A y \in T : x <= y
  BY <1>1, LeastNat
<1> QED
  BY <1>2

(* A finite set of naturals has a member with k others below it. *)
LEMMA KthMember ==
  ASSUME NEW n \in Nat, NEW S \in SUBSET (0..(n - 1)), NEW k \in Nat, k < Cardinality(S)
  PROVE  \E i \in S : Cardinality({j \in S : j < i}) = k
<1> DEFINE below(m) == {j \in S : j < m}
           c(m) == Cardinality(below(m))
           U == {m \in Nat : c(m) > k}
<1>1. IsFiniteSet(S) /\ \A j \in S : j \in Int /\ 0 <= j /\ j < n
  <2>1. IsFiniteSet(0..(n - 1))
    BY FS_Interval
  <2>2. IsFiniteSet(S)
    BY <2>1, FS_Subset
  <2>3. ASSUME NEW j \in S PROVE j \in Int /\ 0 <= j /\ j < n
    <3>1. j \in 0..(n - 1)
      OBVIOUS
    <3> QED
      BY <3>1
  <2> QED
    BY <2>2, <2>3
<1>2. \A m \in Nat : IsFiniteSet(below(m)) /\ c(m) \in Nat
  <2> SUFFICES ASSUME NEW m \in Nat PROVE IsFiniteSet(below(m)) /\ c(m) \in Nat
    OBVIOUS
  <2>1. below(m) \in SUBSET S
    OBVIOUS
  <2> HIDE DEF below
  <2>2. IsFiniteSet(below(m))
    BY <1>1, <2>1, FS_Subset
  <2> QED
    BY <2>2, FS_CardinalityType
<1>3. c(0) = 0
  <2>1. \A j \in S : ~(j < 0)
    BY <1>1
  <2>2. below(0) = {}
    BY <2>1
  <2> QED
    BY <2>2, FS_EmptySet
<1>4. ASSUME NEW m \in Nat PROVE c(m + 1) = IF m \in S THEN c(m) + 1 ELSE c(m)
  <2>0. \A j \in S : (j < m + 1 <=> j < m \/ j = m) /\ ~(m < m)
    BY <1>1
  <2>1. CASE m \in S
    <3>1. below(m + 1) = below(m) \cup {m} /\ m \notin below(m)
      BY <2>0, <2>1
    <3> HIDE DEF below
    <3>2. Cardinality(below(m) \cup {m}) = Cardinality(below(m)) + 1
      BY <1>2, <3>1, FS_AddElement
    <3> QED
      BY <2>1, <3>1, <3>2
  <2>2. CASE m \notin S
    <3>1. below(m + 1) = below(m)
      BY <2>0, <2>2
    <3> HIDE DEF below
    <3> QED
      BY <2>2, <3>1
  <2> QED
    BY <2>1, <2>2
<1>5. c(n) = Cardinality(S)
  <2>1. below(n) = S
    BY <1>1
  <2> QED
    BY <2>1
<1>6. U \in SUBSET Nat /\ n \in U
  BY <1>5
<1> HIDE DEF c
<1>7. PICK m \in U : \A l \in U : m <= l
  BY <1>6, LeastNat
<1>8. m \in Nat /\ m # 0 /\ c(m) > k
  BY <1>3, <1>7
<1>9. m - 1 \in Nat /\ m - 1 \notin U /\ (m - 1) + 1 = m
  BY <1>7, <1>8
<1>10. c(m - 1) \in Nat /\ c(m) \in Nat /\ ~(c(m - 1) > k)
  BY <1>2, <1>8, <1>9 DEF c
<1>11. c(m) = IF m - 1 \in S THEN c(m - 1) + 1 ELSE c(m - 1)
  BY <1>4, <1>9
<1>12. m - 1 \in S /\ c(m - 1) = k
  BY <1>8, <1>10, <1>11
<1> QED
  BY <1>12 DEF c

(* A row of n pairs. *)
LEMMA RowFacts ==
  ASSUME NEW x, NEW n \in Nat
  PROVE  IsFiniteSet({x} \X (1..n)) /\ Cardinality({x} \X (1..n)) = n
<1>1. IsFiniteSet({x}) /\ Cardinality({x}) = 1
  BY FS_Singleton
<1>2. IsFiniteSet(1..n) /\ Cardinality(1..n) = n
  BY FS_Interval
<1>3. Cardinality({x} \X (1..n)) = Cardinality({x}) * Cardinality(1..n)
  BY <1>1, <1>2, FS_Product
<1>4. IsFiniteSet({x} \X (1..n))
  BY <1>1, <1>2, FS_Product
<1>5. 1 * n = n
  OBVIOUS
<1> QED
  BY <1>1, <1>2, <1>3, <1>4, <1>5

LEMMA CountAdded ==
  ASSUME NEW S, IsFiniteSet(S), NEW R, IsFiniteSet(R), S \cap R = {}
  PROVE  IsFiniteSet(S \cup R) /\ Cardinality(S \cup R) = Cardinality(S) + Cardinality(R)
<1>1. /\ IsFiniteSet(S \cup R)
      /\ Cardinality(S \cup R) = Cardinality(S) + Cardinality(R) - Cardinality(S \cap R)
  BY FS_Union
<1>2. Cardinality(S \cap R) = 0
  BY FS_EmptySet
<1>3. Cardinality(S) \in Nat /\ Cardinality(R) \in Nat
  BY FS_CardinalityType
<1> QED
  BY <1>1, <1>2, <1>3

LEMMA CountRemoved ==
  ASSUME NEW S, IsFiniteSet(S), NEW R \in SUBSET S
  PROVE  /\ IsFiniteSet(S \ R)
         /\ Cardinality(S \ R) = Cardinality(S) - Cardinality(R)
         /\ Cardinality(S) - Cardinality(R) \in Nat
<1>1. IsFiniteSet(S \ R) /\ Cardinality(S \ R) = Cardinality(S) - Cardinality(S \cap R)
  BY FS_Difference
<1>2. S \cap R = R
  OBVIOUS
<1>3. Cardinality(S \ R) \in Nat
  BY <1>1, FS_CardinalityType
<1> QED
  BY <1>1, <1>2, <1>3

(* A list without repetitions has as many elements as places. *)
LEMMA InjectiveCardinality ==
  ASSUME NEW T, NEW s \in Seq(T), IsInjectiveSeq(s)
  PROVE  IsFiniteSet(Elements(s)) /\ Cardinality(Elements(s)) = Len(s)
<1>1. Len(s) \in Nat /\ DOMAIN s = 1..Len(s)
  OBVIOUS
<1>2. s \in Bijection(1..Len(s), Elements(s))
  <2>1. s = [i \in 1..Len(s) |-> s[i]]
    OBVIOUS
  <2> DEFINE f == s
             n == Len(s)
  <2> HIDE DEF n
  <2>2. \A i \in 1..n : f[i] \in Elements(s)
    BY <1>1 DEF n, Elements
  <2>3. \A i, j \in 1..n : f[i] = f[j] => i = j
    BY <1>1 DEF n, IsInjectiveSeq
  <2>4. \A x \in Elements(s) : \E i \in 1..n : f[i] = x
    BY <1>1 DEF n, Elements
  <2>5. f = [i \in 1..n |-> f[i]]
    BY <2>1 DEF n
  <2> HIDE DEF f
  <2>6. f \in [1..n -> Elements(s)]
    BY <2>2, <2>5
  <2>7. f \in Bijection(1..n, Elements(s))
    BY <2>3, <2>4, <2>6 DEF Bijection, Injection, Surjection, IsInjective
  <2> QED
    BY <2>7 DEF f, n
<1>3. ExistsBijection(1..Len(s), Elements(s))
  BY <1>2 DEF ExistsBijection
<1> QED
  BY <1>1, <1>3, FS_CountingElements, FS_NatBijection

-----------------------------------------------------------------------------
(* Arithmetic of blocks: rounding a count of tokens down or up *)

LEMMA DivBounds ==
  ASSUME NEW n \in Nat, NEW d \in Nat \ {0}
  PROVE  n \div d \in Nat /\ (n \div d) * d <= n /\ n < (n \div d) * d + d
  BY SMT

LEMMA DivMonotonic ==
  ASSUME NEW m \in Nat, NEW n \in Nat, m <= n, NEW d \in Nat \ {0}
  PROVE  m \div d <= n \div d
  BY SMT

LEMMA DivExact ==
  ASSUME NEW m \in Nat, NEW d \in Nat \ {0}
  PROVE  (m * d + d - 1) \div d = m /\ m * d \in Nat
  BY SMT

LEMMA TimesMonotonic ==
  ASSUME NEW m \in Nat, NEW n \in Nat, m <= n, NEW d \in Nat \ {0}
  PROVE  m * d <= n * d /\ m <= m * d
  BY SMT

LEMMA FactorBelow ==
  ASSUME NEW m \in Nat, NEW d \in Nat \ {0}, NEW n \in Nat, m * d <= n
  PROVE  m <= n
  BY SMT

-----------------------------------------------------------------------------
(* Dropping one element *)

(* A list is not changed by a filter that all of it passes. *)
LEMMA SublistWhole ==
  ASSUME NEW T, NEW s \in Seq(T), NEW S, Elements(s) \subseteq S
  PROVE  Sublist(s, S) = s
<1>1. Len(s) \in Nat /\ DOMAIN s = 1..Len(s) /\ \A i \in DOMAIN s : s[i] \in S
  BY ListFacts
<1>2. ASSUME NEW j \in 0..Len(s) PROVE MetBy(s, S, j) = j
  <2>1. {m \in 1..j : s[m] \in S} = 1..j /\ j \in Nat
    BY <1>1
  <2>2. Cardinality(1..j) = j
    BY <2>1, FS_Interval
  <2> QED
    BY <2>1, <2>2 DEF MetBy
<1>3. MetBy(s, S, Len(s)) = Len(s)
  BY <1>1, <1>2
<1>4. ASSUME NEW i \in 1..Len(s) PROVE Sublist(s, S)[i] = s[i]
  <2>1. i \in 1..MetBy(s, S, Len(s))
    BY <1>3
  <2>2. PICK j \in DOMAIN s : MetBy(s, S, j) = i /\ Sublist(s, S)[i] = s[j]
    BY <2>1, SublistAt
  <2>3. MetBy(s, S, j) = j
    BY <1>1, <1>2
  <2> QED
    BY <2>2, <2>3
<1>5. DOMAIN Sublist(s, S) = 1..Len(s) /\ Sublist(s, S) \in Seq(T)
  BY <1>3, SublistLen, SublistType
<1> DEFINE u == Sublist(s, S)
<1> HIDE DEF u
<1>6. u \in Seq(T) /\ DOMAIN u = 1..Len(s) /\ \A i \in 1..Len(s) : u[i] = s[i]
  BY <1>4, <1>5 DEF u
<1>7. Len(u) = Len(s)
  BY <1>1, <1>6
<1> QED
  BY <1>1, <1>6, <1>7 DEF u

(* Removing an element of a list that has it once. *)
LEMMA WithoutFacts ==
  ASSUME NEW T, NEW s \in Seq(T), IsInjectiveSeq(s), NEW x
  PROVE  /\ Without(s, x) \in Seq(T)
         /\ IsInjectiveSeq(Without(s, x))
         /\ Elements(Without(s, x)) = Elements(s) \ {x}
<1>1. Without(s, x) \in Seq(T)
  BY SublistType DEF Without
<1>2. IsInjectiveSeq(Without(s, x))
  BY SublistInjective DEF Without
<1>3. Elements(Without(s, x)) = Elements(s) \cap (Elements(s) \ {x})
  BY SublistElements DEF Without
<1> QED
  BY <1>1, <1>2, <1>3

(* Removing the last element leaves those before it where they are. *)
LEMMA WithoutLast ==
  ASSUME NEW T, NEW s \in Seq(T), IsInjectiveSeq(s), s # <<>>
  PROVE  /\ Len(Without(s, s[Len(s)])) = Len(s) - 1
         /\ \A i \in 1..(Len(s) - 1) : Without(s, s[Len(s)])[i] = s[i]
<1> DEFINE n == Len(s)
           x == s[n]
           front == SubSeq(s, 1, n - 1)
           S == Elements(s) \ {x}
<1>1. n \in Nat \ {0} /\ DOMAIN s = 1..n /\ x \in T
  OBVIOUS
<1>2. front \in Seq(T) /\ Len(front) = n - 1 /\ DOMAIN front = 1..(n - 1)
        /\ \A i \in 1..(n - 1) : front[i] = s[i]
  BY <1>1
<1>3. s = Append(front, x)
  BY <1>1, <1>2
<1> HIDE DEF front, x, n
<1>4. Elements(front) \subseteq S
  <2>1. \A i \in 1..(n - 1) : i \in DOMAIN s /\ s[i] \in Elements(s) /\ s[i] # s[n]
    BY <1>1 DEF Elements, IsInjectiveSeq
  <2> QED
    BY <1>2, <2>1 DEF Elements, x
<1> HIDE DEF S
<1>5. Sublist(front, S) = front
  BY <1>2, <1>4, SublistWhole
<1>6. x \notin S
  BY DEF S
<1>7. Sublist(Append(front, x), S) = front
  BY <1>1, <1>2, <1>5, <1>6, SublistAppend
<1>8. Without(s, x) = front
  BY <1>3, <1>7 DEF Without, S
<1> QED
  BY <1>2, <1>8 DEF x, n

-----------------------------------------------------------------------------
(* Ranks *)

(* A numbering of 1..n without repetitions leaves no number out. *)
LEMMA InjectiveOnto ==
  ASSUME NEW n \in Nat, NEW f \in [1..n -> 1..n],
         \A i, j \in 1..n : f[i] = f[j] => i = j
  PROVE  \A k \in 1..n : \E i \in 1..n : f[i] = k
<1> DEFINE S == 1..n
<1>1. f \in [S -> S] /\ \A i, j \in S : f[i] = f[j] => i = j
  OBVIOUS
<1>2. IsFiniteSet(S)
  BY FS_Interval
<1> HIDE DEF S
<1>3. f \in Injection(S, S)
  BY <1>1 DEF Injection, IsInjective
<1>4. f \in Surjection(S, S)
  BY <1>2, <1>3, FS_Injection
<1>5. \A k \in S : \E i \in S : f[i] = k
  BY <1>4 DEF Surjection
<1> QED
  BY <1>5 DEF S
=============================================================================
