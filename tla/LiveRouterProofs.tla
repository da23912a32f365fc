-------------------------- MODULE LiveRouterProofs --------------------------
(***************************************************************************)
(* Proofs about LiveRouter, for any workload, any number of instances, any  *)
(* leftovers on them, and any number of evictions and lost messages.        *)
(*                                                                         *)
(* The argument.  The books balance because each request is counted at the  *)
(* instance chosen once, at its dispatch, and leaves with what it still     *)
(* owes.  The messages on the way to a view are exactly those published     *)
(* after the last one it received and not lost, in order (WireInv), so a    *)
(* jump of the sequence number means a loss; and a view that lost none      *)
(* counts, with what is on its way, every copy its engine has made since    *)
(* the run began.                                                           *)
(***************************************************************************)
EXTENDS LiveRouter, SublistProofs, FunctionTheorems

-----------------------------------------------------------------------------
(* choose() *)

LEMMA LeadingFacts ==
  ASSUME NEW r \in Requests, NEW S
  PROVE  LeadingIn(r, S) \in 0..Len(FullBlocks[r]) /\ Len(FullBlocks[r]) \in Nat
<1>1. FullBlocks[r] \in Seq(BlockIds)
  BY WorkloadAssumption
<1>2. \E h \in 0..Len(FullBlocks[r]) :
        /\ \A k \in 1..h : FullBlocks[r][k] \in S
        /\ h = Len(FullBlocks[r]) \/ FullBlocks[r][h + 1] \notin S
  BY <1>1, LongestPrefix
<1> QED
  BY <1>1, <1>2, ListFacts DEF LeadingIn

LEMMA UncachedType ==
  ASSUME NEW r \in Requests, NEW i
  PROVE  Uncached(i, r) \in Nat
<1> DEFINE h == HitBlocks(i, r)
           m == InputLen[r]
<1>1. h \in 0..Len(FullBlocks[r]) /\ Len(FullBlocks[r]) \in Nat
  BY LeadingFacts DEF HitBlocks
<1>2. m \in Nat /\ Len(FullBlocks[r]) = m \div Block /\ Block \in Nat \ {0}
  BY WorkloadAssumption
<1>3. h \in Nat /\ h <= m \div Block
  BY <1>1, <1>2
<1>4. Uncached(i, r) = m - h * Block
  BY DEF Uncached
<1> HIDE DEF h, m
<1>5. h * Block \in Nat /\ h * Block <= m
  BY <1>2, <1>3, TimesBelow
<1> DEFINE x == h * Block
<1>6. x \in Nat /\ x <= m
  BY <1>5
<1> HIDE DEF x
<1>7. m - x \in Nat
  BY <1>2, <1>6
<1> QED
  BY <1>4, <1>7 DEF x

(* Under each policy some instance is as good as any other. *)
LEMMA SomeTied ==
  ASSUME TypeOK, NEW r \in Requests
  PROVE  Tied(r) # {}
<1>1. /\ bs \in [Views -> Nat] /\ queued \in [Views -> Nat] /\ policy \in Policies
      /\ Views # {}
  <2>1. NumViews \in Nat /\ NumViews # 0
    BY WorkloadAssumption
  <2>2. 0 \in Views
    BY <2>1 DEF Views
  <2> QED
    BY <2>2 DEF TypeOK
<1>2. CASE policy = "load"
  <2>1. PICK i \in Views : \A j \in Views : bs[i] <= bs[j]
    BY <1>1, LeastOver
  <2> DEFINE W == {j \in Views : bs[j] = bs[i]}
  <2>2. PICK k \in W : \A j \in W : queued[k] <= queued[j]
    BY <1>1, LeastOver
  <2>3. ASSUME NEW j \in Views PROVE bs[k] < bs[j] \/ (bs[k] = bs[j] /\ queued[k] <= queued[j])
    <3>1. bs[k] = bs[i] /\ bs[k] \in Nat /\ bs[j] \in Nat /\ bs[k] <= bs[j]
      BY <1>1, <2>1, <2>2
    <3>2. CASE bs[k] = bs[j]
      BY <2>2, <3>1, <3>2
    <3>3. CASE bs[k] # bs[j]
      BY <3>1, <3>3
    <3> QED
      BY <3>2, <3>3
  <2>4. k \in Tied(r)
    BY <1>2, <2>2, <2>3 DEF Tied, Prefer
  <2> QED
    BY <2>4
<1>3. CASE policy = "lmetric"
  <2> DEFINE f == [i \in Views |-> (queued[i] + Uncached(i, r)) * (bs[i] + 1)]
  <2>1. ASSUME NEW i \in Views PROVE f[i] \in Nat
    <3> DEFINE u == Uncached(i, r)
    <3>1. u \in Nat /\ queued[i] \in Nat /\ bs[i] \in Nat
      BY <1>1, UncachedType
    <3> HIDE DEF u
    <3>2. (queued[i] + u) * (bs[i] + 1) \in Nat
      BY <3>1
    <3> QED
      BY <3>2 DEF u
  <2> DEFINE g == f
  <2> HIDE DEF g
  <2>2. \A i \in Views : g[i] \in Nat
    BY <2>1 DEF g
  <2>3. PICK k \in Views : \A j \in Views : g[k] <= g[j]
    BY <1>1, <2>2, LeastOver
  <2>4. \A j \in Views : (queued[k] + Uncached(k, r)) * (bs[k] + 1)
                           <= (queued[j] + Uncached(j, r)) * (bs[j] + 1)
    BY <2>3 DEF g
  <2>5. k \in Tied(r)
    BY <1>3, <2>4 DEF Tied, Prefer
  <2> QED
    BY <2>5
<1>4. CASE policy = "affinity"
  <2> DEFINE n == Len(FullBlocks[r])
             f == [i \in Views |-> n - HitBlocks(i, r)]
  <2>1. \A i \in Views : HitBlocks(i, r) \in 0..n /\ n \in Nat
    BY LeadingFacts DEF HitBlocks
  <2> HIDE DEF n
  <2>2. \A i \in Views : f[i] \in Nat
    BY <2>1
  <2> DEFINE g == f
  <2>3. \A i \in Views : g[i] = n - HitBlocks(i, r)
    OBVIOUS
  <2>4. \A i \in Views : g[i] \in Nat
    BY <2>2
  <2> HIDE DEF g
  <2>5. PICK i \in Views : \A j \in Views : g[i] <= g[j]
    BY <1>1, <2>4, LeastOver
  <2> DEFINE W == {j \in Views : HitBlocks(j, r) = HitBlocks(i, r)}
  <2>6. PICK k \in W : \A j \in W : bs[k] <= bs[j]
    BY <1>1, LeastOver
  <2>7. ASSUME NEW j \in Views
        PROVE  \/ HitBlocks(k, r) > HitBlocks(j, r)
               \/ HitBlocks(k, r) = HitBlocks(j, r) /\ bs[k] <= bs[j]
    <3> DEFINE x == HitBlocks(k, r)
               y == HitBlocks(j, r)
    <3>1. /\ x = HitBlocks(i, r) /\ x \in Nat /\ y \in Nat /\ n \in Nat
          /\ n - x <= n - y
      <4>1. x = HitBlocks(i, r)
        BY <2>6
      <4>2. g[i] <= g[j] /\ g[i] = n - HitBlocks(i, r) /\ g[j] = n - y
        BY <2>3, <2>5
      <4>3. x \in Nat /\ y \in Nat /\ n \in Nat
        BY <2>1, <2>6
      <4> QED
        BY <4>1, <4>2, <4>3
    <3> HIDE DEF x, y
    <3>2. x > y \/ x = y
      BY <3>1
    <3>3. CASE x = y
      <4>1. j \in W
        BY <3>1, <3>3 DEF y
      <4> QED
        BY <2>6, <3>3, <4>1 DEF x, y
    <3> QED
      BY <3>2, <3>3 DEF x, y
  <2>8. k \in Tied(r)
    BY <1>4, <2>6, <2>7 DEF Tied, Prefer
  <2> QED
    BY <2>8
<1> QED
  BY <1>1, <1>2, <1>3, <1>4 DEF Policies

(* choose() always names an instance, one of the best. *)
LEMMA ChooseType ==
  ASSUME TypeOK, NEW r \in Requests
  PROVE  Choose(r) \in Views /\ Choose(r) \in Tied(r)
<1> DEFINE T == Tied(r)
           n == Cardinality(T)
           k == turn % n
<1>1. T \in SUBSET (0..(NumViews - 1)) /\ T # {} /\ NumViews \in Nat /\ turn \in Nat
  BY SomeTied, WorkloadAssumption DEF Tied, Views, TypeOK
<1>2. IsFiniteSet(T) /\ n \in Nat /\ n # 0
  <2>1. IsFiniteSet(0..(NumViews - 1))
    BY <1>1, FS_Interval
  <2> HIDE DEF T
  <2>2. IsFiniteSet(T)
    BY <1>1, <2>1, FS_Subset
  <2> QED
    BY <1>1, <2>2, FS_CardinalityType, FS_EmptySet
<1>3. k \in Nat /\ k < n
  <2> HIDE DEF n
  <2> QED
    BY <1>1, <1>2
<1> HIDE DEF T, k, n
<1>4. \E i \in T : Cardinality({j \in T : j < i}) = k
  BY <1>1, <1>3, KthMember DEF n
<1>5. Choose(r) = CHOOSE i \in T : Cardinality({j \in T : j < i}) = k
  BY DEF Choose, T, k, n
<1>6. Choose(r) \in T
  BY <1>4, <1>5
<1> QED
  BY <1>1, <1>6 DEF Views, T

-----------------------------------------------------------------------------
(* Counting *)

\* How many elements of s are in S.
Count(s, S) == Cardinality({k \in DOMAIN s : s[k] \in S})

LEMMA CountType ==
  ASSUME NEW T, NEW s \in Seq(T), NEW S
  PROVE  Count(s, S) \in Nat /\ Count(s, S) = MetBy(s, S, Len(s))
<1>1. {k \in DOMAIN s : s[k] \in S} = {k \in 1..Len(s) : s[k] \in S}
  BY ListFacts
<1>2. Len(s) \in Nat
  BY ListFacts
<1>3. MetBy(s, S, Len(s)) \in Nat
  BY <1>2, MetByStep
<1> QED
  BY <1>1, <1>3 DEF Count, MetBy

LEMMA CountAppend ==
  ASSUME NEW T, NEW s \in Seq(T), NEW x \in T, NEW S
  PROVE  Count(Append(s, x), S) = IF x \in S THEN Count(s, S) + 1 ELSE Count(s, S)
<1> DEFINE n == Len(s)
           a == Append(s, x)
<1>1. /\ a \in Seq(T) /\ Len(a) = n + 1 /\ n \in Nat /\ a[n + 1] = x
      /\ \A k \in 1..n : a[k] = s[k]
  BY AppendFacts, ListFacts
<1> HIDE DEF n, a
<1>2. /\ a[n + 1] \in S => MetBy(a, S, n + 1) = MetBy(a, S, n) + 1
      /\ a[n + 1] \notin S => MetBy(a, S, n + 1) = MetBy(a, S, n)
  BY <1>1, MetByStep
<1>3. MetBy(a, S, n) = MetBy(s, S, n)
  <2>1. {m \in 1..n : a[m] \in S} = {m \in 1..n : s[m] \in S}
    BY <1>1
  <2> QED
    BY <2>1 DEF MetBy
<1>4. Count(a, S) = MetBy(a, S, n + 1)
  BY <1>1, CountType
<1>5. Count(s, S) = MetBy(s, S, n)
  BY CountType DEF n
<1> QED
  BY <1>1, <1>2, <1>3, <1>4, <1>5 DEF a

LEMMA CountTail ==
  ASSUME NEW T, NEW s \in Seq(T), s # <<>>, NEW S
  PROVE  Count(s, S) = IF s[1] \in S THEN Count(Tail(s), S) + 1 ELSE Count(Tail(s), S)
<1> DEFINE t == Tail(s)
           M == {k \in DOMAIN s : s[k] \in S}
           L == {k \in DOMAIN t : t[k] \in S}
           f == [k \in L |-> k + 1]
<1>1. /\ t \in Seq(T) /\ 1 \in DOMAIN s
      /\ \A k \in DOMAIN t : k + 1 \in DOMAIN s /\ t[k] = s[k + 1]
      /\ \A j \in DOMAIN s : j # 1 => j - 1 \in DOMAIN t /\ t[j - 1] = s[j]
  BY HeadTailFacts
<1>2. DOMAIN s = 1..Len(s) /\ DOMAIN t = 1..Len(t) /\ Len(s) \in Nat /\ Len(t) \in Nat
  BY <1>1, ListFacts
<1>3. IsFiniteSet(M) /\ IsFiniteSet(L)
  <2>1. IsFiniteSet(DOMAIN s) /\ IsFiniteSet(DOMAIN t)
    BY <1>2, FS_Interval
  <2>2. M \in SUBSET DOMAIN s /\ L \in SUBSET DOMAIN t
    OBVIOUS
  <2> HIDE DEF M, L
  <2> QED
    BY <2>1, <2>2, FS_Subset
<1>4. f \in Bijection(L, M \ {1})
  <2>1. \A k \in L : k \in Nat /\ k # 0 /\ f[k] = k + 1
    BY <1>2
  <2>2. \A k \in L : f[k] \in M \ {1}
    BY <1>1, <2>1
  <2>3. \A k, l \in L : f[k] = f[l] => k = l
    BY <2>1
  <2>4. \A j \in M \ {1} : \E k \in L : f[k] = j
    <3> SUFFICES ASSUME NEW j \in M \ {1} PROVE \E k \in L : f[k] = j
      OBVIOUS
    <3>1. j \in Nat /\ j - 1 \in DOMAIN t /\ t[j - 1] = s[j]
      BY <1>1, <1>2
    <3>2. j - 1 \in L /\ (j - 1) + 1 = j
      BY <3>1
    <3> QED
      BY <3>2
  <2> QED
    BY <2>2, <2>3, <2>4, Fun_IsBij
<1> HIDE DEF M, L, f
<1>5. Cardinality(M \ {1}) = Cardinality(L)
  <2>1. ExistsBijection(L, M \ {1})
    BY <1>4 DEF ExistsBijection
  <2> QED
    BY <1>3, <2>1, FS_Bijection
<1>6. Cardinality(M \ {1}) = IF 1 \in M THEN Cardinality(M) - 1 ELSE Cardinality(M)
  BY <1>3, FS_RemoveElement
<1>7. 1 \in M <=> s[1] \in S
  BY <1>1 DEF M
<1>8. Cardinality(M) \in Nat /\ Cardinality(L) \in Nat
  BY <1>3, FS_CardinalityType
<1>9. Count(s, S) = Cardinality(M) /\ Count(t, S) = Cardinality(L)
  BY DEF Count, M, L
<1> QED
  BY <1>5, <1>6, <1>7, <1>8, <1>9

-----------------------------------------------------------------------------
(* The books *)

LEMMA AtFinite ==
  ASSUME NEW i \in Views
  PROVE  IsFiniteSet(At(i)) /\ Cardinality(At(i)) \in Nat
<1>1. IsFiniteSet(Requests) /\ At(i) \in SUBSET Requests
  BY WorkloadAssumption DEF At
<1>2. IsFiniteSet(At(i))
  BY <1>1, FS_Subset
<1> QED
  BY <1>2, FS_CardinalityType

LEMMA OwedMembers ==
  ASSUME NEW i, NEW e
  PROVE  /\ e \in Owed(i) <=> \E q \in Requests : /\ task[q] = "open" /\ chosen[q] = i /\ pending[q]
                                                  /\ e \in Tokens(q)
         /\ \A q : e \in Tokens(q) => e[1] = q
<1>1. ASSUME NEW q, e \in Tokens(q) PROVE e[1] = q
  BY <1>1 DEF Tokens
<1>2. e \in Owed(i) <=> \E q \in {p \in At(i) : pending[p]} : e \in Tokens(q)
  BY DEF Owed
<1> QED
  BY <1>1, <1>2 DEF At

Books == BooksBalance /\ \A i \in Views : IsFiniteSet(Owed(i))

LEMMA BooksFrame ==
  ASSUME Books, UNCHANGED <<bs, queued, tasks>>
  PROVE  Books'
<1>1. UNCHANGED <<bs, queued, task, chosen, newTokens, pending>>
  BY DEF tasks
<1>2. \A i : At(i)' = At(i)
  BY <1>1 DEF At
<1>3. \A i : Owed(i)' = Owed(i)
  BY <1>1 DEF Owed, At, Tokens
<1> QED
  BY <1>1, <1>2, <1>3 DEF Books, BooksBalance

LEMMA BooksDispatch ==
  ASSUME TypeOK, Books, NEW r \in Requests, Dispatch(r)
  PROVE  Books'
<1> DEFINE i == Choose(r)
           u == Uncached(i, r)
           R == {r} \X (1..u)
<1>1. i \in Views /\ u \in Nat
  BY ChooseType, UncachedType
<1>2. /\ task[r] = "sleeping" /\ task' = [task EXCEPT ![r] = "open"]
      /\ chosen' = [chosen EXCEPT ![r] = i] /\ newTokens' = [newTokens EXCEPT ![r] = u]
      /\ bs' = [bs EXCEPT ![i] = @ + 1] /\ queued' = [queued EXCEPT ![i] = @ + u]
      /\ pending' = [pending EXCEPT ![r] = TRUE]
  BY DEF Dispatch
<1>3. /\ task \in [Requests -> TaskStates] /\ chosen \in [Requests -> Views \cup {None}]
      /\ newTokens \in [Requests -> Nat] /\ pending \in [Requests -> BOOLEAN]
      /\ bs \in [Views -> Nat] /\ queued \in [Views -> Nat]
  BY DEF TypeOK
<1> HIDE DEF i, u
<1>4. IsFiniteSet(R) /\ Cardinality(R) = u
  BY <1>1, RowFacts
<1>5. ASSUME NEW j \in Views
      PROVE  /\ bs'[j] = Cardinality(At(j)') /\ queued'[j] = Cardinality(Owed(j)')
             /\ IsFiniteSet(Owed(j)')
  <2>1. bs[j] = Cardinality(At(j)) /\ queued[j] = Cardinality(Owed(j)) /\ IsFiniteSet(Owed(j))
    BY DEF Books, BooksBalance
  <2>2. r \notin At(j)
    BY <1>2 DEF At
  <2>3. \A e : e \in Owed(j)' <=> \E q \in Requests : /\ task'[q] = "open" /\ chosen'[q] = j
                                                      /\ pending'[q] /\ e \in Tokens(q)'
    BY DEF Owed, At
  <2>4. Tokens(r)' = R /\ \A q \in Requests : q # r => Tokens(q)' = Tokens(q)
    BY <1>2, <1>3 DEF Tokens
  <2>5. CASE j = i
    <3>1. At(j)' = At(j) \cup {r}
      BY <1>2, <1>3, <2>5 DEF At
    <3>2. Cardinality(At(j) \cup {r}) = Cardinality(At(j)) + 1
      BY <2>2, AtFinite, FS_AddElement
    <3>3. bs'[j] = bs[j] + 1 /\ queued'[j] = queued[j] + u
      BY <1>2, <1>3, <2>5
    <3>4. Owed(j)' = Owed(j) \cup R
      <4> SUFFICES ASSUME NEW e PROVE e \in Owed(j)' <=> e \in Owed(j) \/ e \in R
        OBVIOUS
      <4>1. e \in Owed(j) <=> \E q \in Requests : /\ task[q] = "open" /\ chosen[q] = j /\ pending[q]
                                                  /\ e \in Tokens(q)
        BY OwedMembers
      <4> HIDE DEF R
      <4> QED
        BY <1>2, <1>3, <2>3, <2>4, <2>5, <4>1
    <3>5. Owed(j) \cap R = {}
      <4> SUFFICES ASSUME NEW e, e \in Owed(j), e \in R PROVE FALSE
        OBVIOUS
      <4>1. PICK q \in Requests : task[q] = "open" /\ e \in Tokens(q)
        BY OwedMembers
      <4>2. e[1] = q
        BY <4>1, OwedMembers
      <4>3. e[1] = r
        OBVIOUS
      <4> QED
        BY <1>2, <4>1, <4>2, <4>3
    <3> HIDE DEF R
    <3>6. /\ IsFiniteSet(Owed(j) \cup R)
          /\ Cardinality(Owed(j) \cup R) = Cardinality(Owed(j)) + Cardinality(R)
      BY <1>4, <2>1, <3>5, CountAdded
    <3>7. bs'[j] = Cardinality(At(j)')
      BY <2>1, <3>1, <3>2, <3>3
    <3>8. queued'[j] = Cardinality(Owed(j)')
      BY <1>4, <2>1, <3>3, <3>4, <3>6
    <3> QED
      BY <3>4, <3>6, <3>7, <3>8
  <2>6. CASE j # i
    <3>1. At(j)' = At(j)
      BY <1>2, <1>3, <2>6 DEF At
    <3>2. Owed(j)' = Owed(j)
      <4> SUFFICES ASSUME NEW e PROVE e \in Owed(j)' <=> e \in Owed(j)
        OBVIOUS
      <4>1. e \in Owed(j) <=> \E q \in Requests : /\ task[q] = "open" /\ chosen[q] = j /\ pending[q]
                                                  /\ e \in Tokens(q)
        BY OwedMembers
      <4> HIDE DEF R
      <4> QED
        BY <1>2, <1>3, <2>3, <2>4, <2>6, <4>1
    <3>3. bs'[j] = bs[j] /\ queued'[j] = queued[j]
      BY <1>2, <1>3, <2>6
    <3> QED
      BY <2>1, <3>1, <3>2, <3>3
  <2> QED
    BY <2>5, <2>6
<1> QED
  BY <1>5 DEF Books, BooksBalance

(* What r owes leaves with its first token, or with its end. *)
LEMMA OwedLeaves ==
  ASSUME TypeOK, Books, NEW r \in Requests, task[r] = "open", chosen[r] \in Views, pending[r],
         newTokens' = newTokens, chosen' = chosen,
         NEW j \in Views,
         \A q \in Requests : task'[q] = "open" /\ pending'[q]
                               <=> task[q] = "open" /\ pending[q] /\ q # r
  PROVE  /\ IsFiniteSet(Owed(j)')
         /\ Cardinality(Owed(j)') = IF j = chosen[r] THEN queued[j] - newTokens[r] ELSE queued[j]
         /\ j = chosen[r] => queued[j] - newTokens[r] \in Nat
<1>1. queued[j] = Cardinality(Owed(j)) /\ IsFiniteSet(Owed(j))
  BY DEF Books, BooksBalance
<1>2. IsFiniteSet(Tokens(r)) /\ Cardinality(Tokens(r)) = newTokens[r]
  <2>1. newTokens[r] \in Nat
    BY DEF TypeOK
  <2> QED
    BY <2>1, RowFacts DEF Tokens
<1>3. \A e : e \in Owed(j)' <=> \E q \in Requests : /\ task'[q] = "open" /\ chosen[q] = j
                                                    /\ pending'[q] /\ e \in Tokens(q)
  BY DEF Owed, At, Tokens
<1>4. \A e : e \in Owed(j) <=> \E q \in Requests : /\ task[q] = "open" /\ chosen[q] = j
                                                   /\ pending[q] /\ e \in Tokens(q)
  BY OwedMembers
<1>5. CASE j = chosen[r]
  <2>1. Tokens(r) \in SUBSET Owed(j)
    BY <1>4, <1>5
  <2>2. Owed(j)' = Owed(j) \ Tokens(r)
    <3> SUFFICES ASSUME NEW e PROVE e \in Owed(j)' <=> e \in Owed(j) /\ e \notin Tokens(r)
      OBVIOUS
    <3>1. \A q : e \in Tokens(q) => e[1] = q
      BY OwedMembers
    <3> QED
      BY <1>3, <1>4, <3>1
  <2>3. /\ IsFiniteSet(Owed(j) \ Tokens(r))
        /\ Cardinality(Owed(j) \ Tokens(r)) = Cardinality(Owed(j)) - Cardinality(Tokens(r))
        /\ Cardinality(Owed(j)) - Cardinality(Tokens(r)) \in Nat
    BY <1>1, <2>1, CountRemoved
  <2> QED
    BY <1>1, <1>2, <1>5, <2>2, <2>3
<1>6. CASE j # chosen[r]
  <2>1. Owed(j)' = Owed(j)
    <3> SUFFICES ASSUME NEW e PROVE e \in Owed(j)' <=> e \in Owed(j)
      OBVIOUS
    <3> QED
      BY <1>3, <1>4, <1>6
  <2> QED
    BY <1>1, <1>6, <2>1
<1> QED
  BY <1>5, <1>6

LEMMA BooksFirstToken ==
  ASSUME TypeOK, TaskInv, Books, NEW r \in Requests, FirstToken(r)
  PROVE  Books' /\ queued' \in [Views -> Nat]
<1>1. /\ task[r] = "open" /\ pending[r] /\ pending' = [pending EXCEPT ![r] = FALSE]
      /\ queued' = [queued EXCEPT ![chosen[r]] = @ - newTokens[r]]
      /\ UNCHANGED <<bs, task, chosen, newTokens>>
  BY DEF FirstToken
<1>2. /\ chosen[r] \in Views /\ pending \in [Requests -> BOOLEAN] /\ queued \in [Views -> Nat]
  BY <1>1 DEF TypeOK, TaskInv
<1>3. \A q \in Requests : task'[q] = "open" /\ pending'[q] <=> task[q] = "open" /\ pending[q] /\ q # r
  BY <1>1, <1>2
<1>4. \A j \in Views : /\ IsFiniteSet(Owed(j)')
                       /\ Cardinality(Owed(j)') = IF j = chosen[r] THEN queued[j] - newTokens[r]
                                                                   ELSE queued[j]
                       /\ j = chosen[r] => queued[j] - newTokens[r] \in Nat
  BY <1>1, <1>2, <1>3, OwedLeaves
<1>5. \A j \in Views : At(j)' = At(j)
  BY <1>1 DEF At
<1>6. queued' \in [Views -> Nat]
  BY <1>1, <1>2, <1>4
<1>7. \A j \in Views : queued'[j] = Cardinality(Owed(j)')
  BY <1>1, <1>2, <1>4
<1> QED
  BY <1>1, <1>4, <1>5, <1>6, <1>7 DEF Books, BooksBalance

LEMMA BooksEnd ==
  ASSUME TypeOK, TaskInv, Books, NEW r \in Requests, End(r)
  PROVE  Books' /\ queued' \in [Views -> Nat] /\ bs' \in [Views -> Nat]
<1>1. /\ task[r] = "open" /\ task' = [task EXCEPT ![r] = "ended"]
      /\ queued' = [queued EXCEPT ![chosen[r]] = Settle(r)]
      /\ bs' = [bs EXCEPT ![chosen[r]] = @ - 1]
      /\ UNCHANGED <<chosen, newTokens, pending>>
  BY DEF End
<1>2. /\ chosen[r] \in Views /\ queued \in [Views -> Nat] /\ bs \in [Views -> Nat]
      /\ task \in [Requests -> TaskStates]
  BY <1>1 DEF TypeOK, TaskInv
<1>3. \A j \in Views : /\ bs[j] = Cardinality(At(j)) /\ queued[j] = Cardinality(Owed(j))
                       /\ IsFiniteSet(Owed(j))
  BY DEF Books, BooksBalance
<1>4. ASSUME NEW j \in Views
      PROVE  bs'[j] = Cardinality(At(j)') /\ bs'[j] \in Nat
  <2>1. CASE j = chosen[r]
    <3>1. At(j)' = At(j) \ {r} /\ r \in At(j)
      BY <1>1, <1>2, <2>1 DEF At
    <3>2. Cardinality(At(j) \ {r}) = Cardinality(At(j)) - 1 /\ IsFiniteSet(At(j) \ {r})
      BY <3>1, AtFinite, FS_RemoveElement
    <3>3. Cardinality(At(j) \ {r}) \in Nat
      BY <3>2, FS_CardinalityType
    <3>4. bs'[j] = bs[j] - 1
      BY <1>1, <1>2, <2>1
    <3> QED
      BY <1>3, <3>1, <3>2, <3>3, <3>4
  <2>2. CASE j # chosen[r]
    <3>1. At(j)' = At(j)
      BY <1>1, <1>2, <2>2 DEF At
    <3> QED
      BY <1>1, <1>2, <1>3, <2>2, <3>1
  <2> QED
    BY <2>1, <2>2
<1>5. ASSUME NEW j \in Views
      PROVE  /\ queued'[j] = Cardinality(Owed(j)') /\ queued'[j] \in Nat
             /\ IsFiniteSet(Owed(j)')
  <2>1. CASE pending[r]
    <3>1. \A q \in Requests : task'[q] = "open" /\ pending'[q]
                                <=> task[q] = "open" /\ pending[q] /\ q # r
      BY <1>1, <1>2
    <3>2. /\ IsFiniteSet(Owed(j)')
          /\ Cardinality(Owed(j)') = IF j = chosen[r] THEN queued[j] - newTokens[r] ELSE queued[j]
          /\ j = chosen[r] => queued[j] - newTokens[r] \in Nat
      BY <1>1, <1>2, <2>1, <3>1, OwedLeaves
    <3> QED
      BY <1>1, <1>2, <2>1, <3>2 DEF Settle
  <2>2. CASE ~pending[r]
    <3>1. Owed(j)' = Owed(j)
      <4>1. {q \in At(j)' : pending'[q]} = {q \in At(j) : pending[q]}
        BY <1>1, <1>2, <2>2 DEF At
      <4>2. \A q : Tokens(q)' = Tokens(q)
        BY <1>1 DEF Tokens
      <4> QED
        BY <4>1, <4>2 DEF Owed
    <3>2. queued'[j] = queued[j]
      BY <1>1, <1>2, <2>2 DEF Settle
    <3> QED
      BY <1>2, <1>3, <3>1, <3>2
  <2> QED
    BY <2>1, <2>2
<1>6. queued' \in [Views -> Nat] /\ bs' \in [Views -> Nat]
  BY <1>1, <1>2, <1>4, <1>5
<1> QED
  BY <1>4, <1>5, <1>6 DEF Books, BooksBalance

-----------------------------------------------------------------------------
(* The messages *)

LEMMA PublishFacts ==
  ASSUME TypeOK, NEW i \in Views, NEW type \in EventTypes, NEW blocks \in Seq(BlockIds),
         Publish(i, type, blocks)
  PROVE  LET message == Message(published[i], type, blocks)
         IN /\ message \in Messages /\ Named(message) = {blocks[k] : k \in DOMAIN blocks}
            /\ \/ ~subscribed[i] /\ UNCHANGED <<channel, published, lost>>
               \/ /\ published' = [published EXCEPT ![i] = @ + 1]
                  /\ \/ /\ channel' = [channel EXCEPT ![i] = Append(@, message)]
                        /\ lost' = lost
                     \/ /\ lost' = [lost EXCEPT ![i] = @ \cup {published[i]}]
                        /\ channel' = channel
<1>1. published[i] \in Nat
  BY DEF TypeOK
<1>2. Message(published[i], type, blocks) \in Messages
  BY <1>1 DEF Message, Messages
<1>3. Named(Message(published[i], type, blocks)) = {blocks[k] : k \in DOMAIN blocks}
  BY DEF Message, Named
<1> HIDE DEF LostSoFar
<1>4. \/ ~subscribed[i] /\ UNCHANGED <<channel, published, lost>>
      \/ /\ published' = [published EXCEPT ![i] = @ + 1]
         /\ \/ /\ channel' = [channel EXCEPT ![i] = Append(@, Message(published[i], type, blocks))]
               /\ lost' = lost
            \/ /\ lost' = [lost EXCEPT ![i] = @ \cup {published[i]}]
               /\ channel' = channel
  BY DEF Publish, wire
<1> QED
  BY <1>2, <1>3, <1>4

WireTypes ==
  /\ published \in [Views -> Nat] /\ lost \in [Views -> SUBSET Nat]
  /\ channel \in [Views -> Seq(Messages)]

LEMMA PublishTypes ==
  ASSUME TypeOK, NEW i \in Views, NEW type \in EventTypes, NEW blocks \in Seq(BlockIds),
         Publish(i, type, blocks)
  PROVE  WireTypes'
<1> DEFINE message == Message(published[i], type, blocks)
<1>1. WireTypes
  BY DEF TypeOK, WireTypes
<1>2. /\ message \in Messages
      /\ \/ ~subscribed[i] /\ UNCHANGED <<channel, published, lost>>
         \/ /\ published' = [published EXCEPT ![i] = @ + 1]
            /\ \/ channel' = [channel EXCEPT ![i] = Append(@, message)] /\ lost' = lost
               \/ lost' = [lost EXCEPT ![i] = @ \cup {published[i]}] /\ channel' = channel
  BY PublishFacts
<1> HIDE DEF message
<1>3. channel[i] \in Seq(Messages) /\ published[i] \in Nat /\ lost[i] \in SUBSET Nat
  BY <1>1 DEF WireTypes
<1>4. Append(channel[i], message) \in Seq(Messages)
  BY <1>2, <1>3, AppendFacts
<1>5. published[i] + 1 \in Nat /\ lost[i] \cup {published[i]} \in SUBSET Nat
  BY <1>3
<1> QED
  BY <1>1, <1>2, <1>4, <1>5 DEF WireTypes

(* WireInv and GapsTell, of one view: published p, lost gone, on the way    *)
(* ch, last received last, gaps counted gaps.                               *)
WireAt(p, gone, ch, last, gaps) ==
  /\ gone \subseteq 0..(p - 1)
  /\ last < p /\ last \notin gone
  /\ {ch[k].seq : k \in DOMAIN ch} = {n \in 0..(p - 1) : n > last /\ n \notin gone}
  /\ \A j, k \in DOMAIN ch : j < k => ch[j].seq < ch[k].seq
  /\ (\E n \in gone : n < last /\ \E m \in 0..(n - 1) : m \notin gone) <=> gaps > 0

LEMMA WireEach ==
  WireInv /\ GapsTell
    <=> \A i \in Views : WireAt(published[i], lost[i], channel[i], lastSeq[i], seqGaps[i])
  BY DEF WireInv, GapsTell, WireAt

LEMMA WireAppend ==
  ASSUME NEW p \in Nat, NEW gone \in SUBSET Nat, NEW ch \in Seq(Messages),
         NEW last \in Nat \cup {None}, NEW gaps \in Nat, NEW message \in Messages,
         WireAt(p, gone, ch, last, gaps), message.seq = p
  PROVE  WireAt(p + 1, gone, Append(ch, message), last, gaps)
<1> DEFINE new == Append(ch, message)
<1>1. /\ gone \subseteq 0..(p - 1) /\ last < p /\ last \notin gone
      /\ {ch[k].seq : k \in DOMAIN ch} = {n \in 0..(p - 1) : n > last /\ n \notin gone}
      /\ \A h, k \in DOMAIN ch : h < k => ch[h].seq < ch[k].seq
      /\ (\E n \in gone : n < last /\ \E m \in 0..(n - 1) : m \notin gone) <=> gaps > 0
  BY DEF WireAt
<1>2. /\ \A k \in DOMAIN ch : new[k] = ch[k]
      /\ new[Len(ch) + 1] = message
      /\ DOMAIN new = DOMAIN ch \cup {Len(ch) + 1}
  BY AppendFacts
<1>3. Len(ch) \in Nat /\ DOMAIN ch = 1..Len(ch) /\ last \in Int
  BY ListFacts DEF None
<1> HIDE DEF new
<1>4. \A k \in DOMAIN ch : new[k].seq \in 0..(p - 1)
  BY <1>1, <1>2
<1>5. {new[k].seq : k \in DOMAIN new} = {ch[k].seq : k \in DOMAIN ch} \cup {p}
  BY <1>2
<1>6. {n \in 0..(p + 1 - 1) : n > last /\ n \notin gone}
        = {n \in 0..(p - 1) : n > last /\ n \notin gone} \cup {p}
  BY <1>1, <1>3
<1>7. ASSUME NEW h \in DOMAIN new, NEW k \in DOMAIN new, h < k
      PROVE  new[h].seq < new[k].seq
  <2>1. h \in DOMAIN ch
    BY <1>2, <1>3, <1>7
  <2>2. CASE k \in DOMAIN ch
    BY <1>1, <1>2, <1>7, <2>1, <2>2
  <2>3. CASE k = Len(ch) + 1
    BY <1>2, <1>4, <2>1, <2>3
  <2> QED
    BY <1>2, <2>2, <2>3
<1>8. gone \subseteq 0..(p + 1 - 1) /\ last < p + 1
  BY <1>1, <1>3
<1>9. {new[k].seq : k \in DOMAIN new} = {n \in 0..(p + 1 - 1) : n > last /\ n \notin gone}
  BY <1>1, <1>5, <1>6
<1>10. WireAt(p + 1, gone, new, last, gaps)
  BY <1>1, <1>7, <1>8, <1>9 DEF WireAt
<1> QED
  BY <1>10 DEF new

LEMMA WireLose ==
  ASSUME NEW p \in Nat, NEW gone \in SUBSET Nat, NEW ch \in Seq(Messages),
         NEW last \in Nat \cup {None}, NEW gaps \in Nat,
         WireAt(p, gone, ch, last, gaps)
  PROVE  WireAt(p + 1, gone \cup {p}, ch, last, gaps)
<1>1. /\ gone \subseteq 0..(p - 1) /\ last < p /\ last \notin gone
      /\ {ch[k].seq : k \in DOMAIN ch} = {n \in 0..(p - 1) : n > last /\ n \notin gone}
      /\ \A h, k \in DOMAIN ch : h < k => ch[h].seq < ch[k].seq
      /\ (\E n \in gone : n < last /\ \E m \in 0..(n - 1) : m \notin gone) <=> gaps > 0
  BY DEF WireAt
<1>2. last \in Int
  BY DEF None
<1>3. gone \cup {p} \subseteq 0..(p + 1 - 1) /\ last < p + 1 /\ last \notin gone \cup {p}
  BY <1>1, <1>2
<1>4. {n \in 0..(p + 1 - 1) : n > last /\ n \notin gone \cup {p}}
        = {n \in 0..(p - 1) : n > last /\ n \notin gone}
  BY <1>1, <1>2
<1>5. (\E n \in gone \cup {p} : n < last /\ \E m \in 0..(n - 1) : m \notin gone \cup {p})
        <=> (\E n \in gone : n < last /\ \E m \in 0..(n - 1) : m \notin gone)
  <2>1. ~(p < last)
    BY <1>1, <1>2
  <2>2. \A n \in gone : \A m \in 0..(n - 1) : m # p
    <3> SUFFICES ASSUME NEW n \in gone, NEW m \in 0..(n - 1) PROVE m # p
      OBVIOUS
    <3>1. n \in 0..(p - 1)
      BY <1>1
    <3> QED
      BY <3>1
  <2> QED
    BY <2>1, <2>2
<1> QED
  BY <1>1, <1>3, <1>4, <1>5 DEF WireAt

(* The message received is the first after the last one that is not lost:   *)
(* it follows in the count unless one between was lost.                     *)
LEMMA WireReceive ==
  ASSUME NEW p \in Nat, NEW gone \in SUBSET Nat, NEW ch \in Seq(Messages), ch # <<>>,
         NEW last \in Nat \cup {None}, NEW gaps \in Nat,
         WireAt(p, gone, ch, last, gaps)
  PROVE  LET seq == Head(ch).seq
         IN  WireAt(p, gone, Tail(ch), seq,
                    IF last # None /\ seq # last + 1 THEN gaps + 1 ELSE gaps)
<1> DEFINE seq == ch[1].seq
           t == Tail(ch)
           after == IF last # None /\ seq # last + 1 THEN gaps + 1 ELSE gaps
<1>1. /\ gone \subseteq 0..(p - 1) /\ last < p /\ last \notin gone
      /\ {ch[k].seq : k \in DOMAIN ch} = {n \in 0..(p - 1) : n > last /\ n \notin gone}
      /\ \A h, k \in DOMAIN ch : h < k => ch[h].seq < ch[k].seq
      /\ (\E n \in gone : n < last /\ \E m \in 0..(n - 1) : m \notin gone) <=> gaps > 0
  BY DEF WireAt
<1>2. /\ Head(ch) = ch[1] /\ 1 \in DOMAIN ch /\ t \in Seq(Messages)
      /\ \A k \in DOMAIN t : k + 1 \in DOMAIN ch /\ t[k] = ch[k + 1]
      /\ \A j \in DOMAIN ch : j # 1 => j - 1 \in DOMAIN t /\ t[j - 1] = ch[j]
  BY HeadTailFacts
<1>3. /\ DOMAIN ch = 1..Len(ch) /\ DOMAIN t = 1..Len(t) /\ Len(ch) \in Nat /\ Len(t) \in Nat
  BY <1>2, ListFacts
<1>4. last \in Int /\ (last = None <=> last = -1) /\ (last # None => last >= 0)
  BY DEF None
<1> HIDE DEF t
<1>5. seq \in 0..(p - 1) /\ seq > last /\ seq \notin gone /\ seq \in Nat
  <2>1. seq \in {n \in 0..(p - 1) : n > last /\ n \notin gone}
    BY <1>1, <1>2
  <2> QED
    BY <2>1
<1>6. \A j \in DOMAIN ch : j # 1 => ch[j].seq > seq
  <2> SUFFICES ASSUME NEW j \in DOMAIN ch, j # 1 PROVE ch[j].seq > seq
    OBVIOUS
  <2>1. seq < ch[j].seq
    <3>1. 1 < j
      BY <1>3
    <3> QED
      BY <1>1, <1>2, <3>1
  <2>2. ch[j].seq \in 0..(p - 1)
    BY <1>1
  <2> QED
    BY <1>5, <2>1, <2>2
<1> DEFINE x == seq
<1>7. x = seq
  OBVIOUS
<1> HIDE DEF x
<1>8. \A n \in Nat : n > last /\ n < x => n \in gone
  <2> SUFFICES ASSUME NEW n \in Nat, n > last, n < x, n \notin gone PROVE FALSE
    OBVIOUS
  <2>1. n \in 0..(p - 1)
    BY <1>5, <1>7
  <2>2. n \in {ch[k].seq : k \in DOMAIN ch}
    BY <1>1, <2>1
  <2>3. PICK k \in DOMAIN ch : ch[k].seq = n
    BY <2>2
  <2> QED
    BY <1>5, <1>6, <1>7, <2>3
<1>9. {t[k].seq : k \in DOMAIN t} = {n \in 0..(p - 1) : n > x /\ n \notin gone}
  <2>1. ASSUME NEW k \in DOMAIN t
        PROVE  t[k].seq \in {n \in 0..(p - 1) : n > x /\ n \notin gone}
    <3>1. k + 1 \in DOMAIN ch /\ t[k] = ch[k + 1] /\ k + 1 # 1
      BY <1>2, <1>3
    <3>2. ch[k + 1].seq > x /\ ch[k + 1].seq \in {n \in 0..(p - 1) : n > last /\ n \notin gone}
      BY <1>1, <1>6, <1>7, <3>1
    <3> QED
      BY <3>1, <3>2
  <2>2. ASSUME NEW n \in 0..(p - 1), n > x, n \notin gone
        PROVE  \E k \in DOMAIN t : t[k].seq = n
    <3>1. n > last
      BY <1>4, <1>5, <1>7, <2>2
    <3>2. n \in {ch[k].seq : k \in DOMAIN ch}
      BY <1>1, <2>2, <3>1
    <3>3. PICK j \in DOMAIN ch : ch[j].seq = n
      BY <3>2
    <3>4. j # 1
      BY <1>5, <1>7, <2>2, <3>3
    <3> QED
      BY <1>2, <3>3, <3>4
  <2> QED
    BY <2>1, <2>2
<1>10. \A j, k \in DOMAIN t : j < k => t[j].seq < t[k].seq
  <2> SUFFICES ASSUME NEW j \in DOMAIN t, NEW k \in DOMAIN t, j < k PROVE t[j].seq < t[k].seq
    OBVIOUS
  <2>1. j + 1 \in DOMAIN ch /\ k + 1 \in DOMAIN ch /\ j + 1 < k + 1
    BY <1>2, <1>3
  <2> QED
    BY <1>1, <1>2, <2>1
<1>11. (\E n \in gone : n < x /\ \E m \in 0..(n - 1) : m \notin gone) <=> after > 0
  <2>1. CASE last # None /\ x # last + 1
    <3>1. last + 1 \in Nat /\ last + 1 > last /\ last + 1 < x /\ last \in 0..(last + 1 - 1)
      BY <1>4, <1>5, <1>7, <2>1
    <3>2. last + 1 \in gone
      BY <1>8, <3>1
    <3>3. after > 0
      BY <1>7, <2>1
    <3> QED
      BY <1>1, <3>1, <3>2, <3>3
  <2>2. CASE last = None
    <3>1. after = gaps /\ ~(gaps > 0)
      <4>1. \A n \in gone : ~(n < last)
        BY <1>4, <2>2
      <4> QED
        BY <1>1, <2>2, <4>1
    <3>2. ASSUME NEW n \in gone, n < x, NEW m \in 0..(n - 1) PROVE m \in gone
      BY <1>4, <1>5, <1>7, <1>8, <2>2, <3>2
    <3> QED
      BY <3>1, <3>2
  <2>3. CASE last # None /\ x = last + 1
    <3>1. after = gaps
      BY <1>7, <2>3
    <3>2. \A n \in gone : n < x <=> n < last
      BY <1>1, <1>4, <2>3
    <3> QED
      BY <1>1, <3>1, <3>2
  <2> QED
    BY <2>1, <2>2, <2>3
<1> HIDE DEF seq, after
<1>12. x < p /\ x \notin gone
  BY <1>5, <1>7
<1>13. WireAt(p, gone, t, x, after)
  BY <1>1, <1>9, <1>10, <1>11, <1>12 DEF WireAt
<1>14. Head(ch).seq = x /\ after = IF last # None /\ x # last + 1 THEN gaps + 1 ELSE gaps
  BY <1>2, <1>7 DEF seq, after
<1> QED
  BY <1>13, <1>14 DEF t

LEMMA WireFrame ==
  ASSUME WireInv, GapsTell, UNCHANGED <<lastSeq, seqGaps, wire>>
  PROVE  WireInv' /\ GapsTell'
<1>1. UNCHANGED <<lastSeq, seqGaps, channel, published, lost>>
  BY DEF wire
<1> QED
  BY <1>1 DEF WireInv, GapsTell

LEMMA WirePublish ==
  ASSUME TypeOK, WireInv, GapsTell, UNCHANGED <<lastSeq, seqGaps>>,
         NEW i \in Views, NEW type \in EventTypes, NEW blocks \in Seq(BlockIds),
         Publish(i, type, blocks)
  PROVE  WireInv' /\ GapsTell'
<1> DEFINE message == Message(published[i], type, blocks)
<1>1. message.seq = published[i]
  BY DEF Message
<1>2. /\ message \in Messages
      /\ \/ ~subscribed[i] /\ UNCHANGED <<channel, published, lost>>
         \/ /\ published' = [published EXCEPT ![i] = @ + 1]
            /\ \/ channel' = [channel EXCEPT ![i] = Append(@, message)] /\ lost' = lost
               \/ lost' = [lost EXCEPT ![i] = @ \cup {published[i]}] /\ channel' = channel
  BY PublishFacts
<1> HIDE DEF message
<1>3. /\ published \in [Views -> Nat] /\ lost \in [Views -> SUBSET Nat]
      /\ channel \in [Views -> Seq(Messages)]
      /\ lastSeq \in [Views -> Nat \cup {None}] /\ seqGaps \in [Views -> Nat]
  BY DEF TypeOK
<1>4. \A j \in Views : WireAt(published[j], lost[j], channel[j], lastSeq[j], seqGaps[j])
  BY WireEach
<1>5. ASSUME NEW j \in Views
      PROVE  WireAt(published'[j], lost'[j], channel'[j], lastSeq[j], seqGaps[j])
  <2>1. CASE UNCHANGED <<channel, published, lost>>
    BY <1>4, <2>1
  <2>2. CASE /\ published' = [published EXCEPT ![i] = @ + 1]
             /\ channel' = [channel EXCEPT ![i] = Append(@, message)] /\ lost' = lost
    <3>1. CASE j = i
      <4>1. WireAt(published[i] + 1, lost[i], Append(channel[i], message), lastSeq[i], seqGaps[i])
        BY <1>1, <1>2, <1>3, <1>4, WireAppend
      <4> QED
        BY <1>3, <2>2, <3>1, <4>1
    <3> QED
      BY <1>3, <1>4, <2>2, <3>1
  <2>3. CASE /\ published' = [published EXCEPT ![i] = @ + 1]
             /\ lost' = [lost EXCEPT ![i] = @ \cup {published[i]}] /\ channel' = channel
    <3>1. CASE j = i
      <4>1. WireAt(published[i] + 1, lost[i] \cup {published[i]}, channel[i], lastSeq[i], seqGaps[i])
        BY <1>3, <1>4, WireLose
      <4> QED
        BY <1>3, <2>3, <3>1, <4>1
    <3> QED
      BY <1>3, <1>4, <2>3, <3>1
  <2> QED
    BY <1>2, <2>1, <2>2, <2>3
<1>6. lastSeq' = lastSeq /\ seqGaps' = seqGaps
  OBVIOUS
<1> QED
  BY <1>5, <1>6 DEF WireInv, GapsTell, WireAt

LEMMA WireReceived ==
  ASSUME TypeOK, WireInv, GapsTell, NEW i \in Views, Receive(i)
  PROVE  WireInv' /\ GapsTell'
<1> DEFINE seq == Head(channel[i]).seq
           gaps == IF lastSeq[i] # None /\ seq # lastSeq[i] + 1 THEN seqGaps[i] + 1 ELSE seqGaps[i]
<1>1. /\ published \in [Views -> Nat] /\ lost \in [Views -> SUBSET Nat]
      /\ channel \in [Views -> Seq(Messages)]
      /\ lastSeq \in [Views -> Nat \cup {None}] /\ seqGaps \in [Views -> Nat]
  BY DEF TypeOK
<1>2. /\ channel[i] # <<>> /\ lastSeq' = [lastSeq EXCEPT ![i] = seq]
      /\ channel' = [channel EXCEPT ![i] = Tail(@)]
      /\ published' = published /\ lost' = lost
  BY DEF Receive
<1>3. seqGaps' = [seqGaps EXCEPT ![i] = gaps]
  BY <1>1 DEF Receive, Gap
<1>4. \A j \in Views : WireAt(published[j], lost[j], channel[j], lastSeq[j], seqGaps[j])
  BY WireEach
<1>5. WireAt(published[i], lost[i], Tail(channel[i]), seq, gaps)
  BY <1>1, <1>2, <1>4, WireReceive
<1> HIDE DEF seq, gaps
<1>6. \A j \in Views : WireAt(published'[j], lost'[j], channel'[j], lastSeq'[j], seqGaps'[j])
  BY <1>1, <1>2, <1>3, <1>4, <1>5
<1> QED
  BY <1>6 DEF WireInv, GapsTell, WireAt

-----------------------------------------------------------------------------
(* The index *)

\* Messages of one type that name block b.
Of(b, type) == {m \in Messages : m.type = type /\ b \in Named(m)}

LEMMA CountOf ==
  ASSUME NEW ch \in Seq(Messages), NEW b, NEW type
  PROVE  Cardinality({k \in DOMAIN ch : ch[k].type = type /\ b \in Named(ch[k])}) = Count(ch, Of(b, type))
<1>1. \A k \in DOMAIN ch : ch[k] \in Messages
  BY ListFacts
<1>2. {k \in DOMAIN ch : ch[k].type = type /\ b \in Named(ch[k])} = {k \in DOMAIN ch : ch[k] \in Of(b, type)}
  BY <1>1 DEF Of
<1> QED
  BY <1>2 DEF Count

LEMMA ComingType ==
  ASSUME TypeOK, NEW i \in Views, NEW b, NEW type
  PROVE  Coming(i, b, type) \in Nat /\ Coming(i, b, type) = Count(channel[i], Of(b, type))
<1>1. channel[i] \in Seq(Messages)
  BY DEF TypeOK
<1>2. Count(channel[i], Of(b, type)) \in Nat
  BY <1>1, CountType
<1> QED
  BY <1>1, <1>2, CountOf DEF Coming

LEMMA NamedType ==
  ASSUME NEW m \in Messages
  PROVE  Named(m) \subseteq BlockIds
<1>1. m.blocks \in Seq(BlockIds)
  BY DEF Messages
<1> QED
  BY <1>1, ListFacts DEF Named

LEMMA ComingNext ==
  ASSUME channel' \in [Views -> Seq(Messages)], NEW i \in Views, NEW b, NEW type
  PROVE  Coming(i, b, type)' = Count(channel'[i], Of(b, type))
<1> DEFINE ch == channel'[i]
<1>1. Coming(i, b, type)' = Cardinality({k \in DOMAIN ch : ch[k].type = type /\ b \in Named(ch[k])})
  BY DEF Coming, Named
<1>2. ch \in Seq(Messages)
  OBVIOUS
<1> HIDE DEF ch
<1>3. Coming(i, b, type)' = Count(ch, Of(b, type))
  BY <1>1, <1>2, CountOf
<1> QED
  BY <1>3 DEF ch

(* A message that is not lost is one more on its way, about its blocks.     *)
LEMMA PublishCounts ==
  ASSUME TypeOK, NEW i \in Views, NEW type \in EventTypes, NEW blocks \in Seq(BlockIds),
         Publish(i, type, blocks),
         NEW j \in Views, subscribed[j], lost'[j] = {}, NEW b, NEW t
  PROVE  /\ lost[j] = {}
         /\ channel' \in [Views -> Seq(Messages)]
         /\ Count(channel'[j], Of(b, t)) =
              IF j = i /\ t = type /\ \E k \in DOMAIN blocks : blocks[k] = b
                THEN Coming(j, b, t) + 1 ELSE Coming(j, b, t)
<1> DEFINE message == Message(published[i], type, blocks)
<1>1. message.type = type
  BY DEF Message
<1>2. /\ message \in Messages /\ Named(message) = {blocks[k] : k \in DOMAIN blocks}
      /\ \/ ~subscribed[i] /\ UNCHANGED <<channel, published, lost>>
         \/ /\ published' = [published EXCEPT ![i] = @ + 1]
            /\ \/ channel' = [channel EXCEPT ![i] = Append(@, message)] /\ lost' = lost
               \/ lost' = [lost EXCEPT ![i] = @ \cup {published[i]}] /\ channel' = channel
  BY PublishFacts
<1> HIDE DEF message
<1>3. /\ channel \in [Views -> Seq(Messages)] /\ lost \in [Views -> SUBSET Nat]
      /\ channel' \in [Views -> Seq(Messages)]
  BY PublishTypes DEF TypeOK, WireTypes
<1>4. lost[j] = {} /\ channel'[j] = IF j = i THEN Append(channel[i], message) ELSE channel[j]
  BY <1>2, <1>3
<1>5. Coming(j, b, t) = Count(channel[j], Of(b, t))
  BY ComingType
<1>6. message \in Of(b, t) <=> t = type /\ \E k \in DOMAIN blocks : blocks[k] = b
  BY <1>1, <1>2 DEF Of
<1>7. Count(Append(channel[i], message), Of(b, t))
        = IF message \in Of(b, t) THEN Count(channel[i], Of(b, t)) + 1 ELSE Count(channel[i], Of(b, t))
  BY <1>2, <1>3, CountAppend
<1> QED
  BY <1>3, <1>4, <1>5, <1>6, <1>7

LEMMA PublishKinds ==
  ASSUME TypeOK, IndexInv, NEW i \in Views, NEW type \in EventTypes, NEW blocks \in Seq(BlockIds),
         type # "AllBlocksCleared", Publish(i, type, blocks), NEW j \in Views
  PROVE  \A k \in DOMAIN channel'[j] :
           channel'[j][k].type = "AllBlocksCleared" => channel'[j][k].seq = 0
<1> DEFINE message == Message(published[i], type, blocks)
<1>1. message.type = type
  BY DEF Message
<1>2. /\ message \in Messages
      /\ \/ channel' = channel
         \/ channel' = [channel EXCEPT ![i] = Append(@, message)]
  BY PublishFacts
<1> HIDE DEF message
<1>3. channel \in [Views -> Seq(Messages)]
  BY DEF TypeOK
<1>4. \A k \in DOMAIN channel[j] : channel[j][k].type = "AllBlocksCleared" => channel[j][k].seq = 0
  BY DEF IndexInv
<1>5. CASE channel'[j] = channel[j]
  BY <1>4, <1>5
<1>6. CASE j = i /\ channel'[j] = Append(channel[i], message)
  <2>1. /\ \A k \in DOMAIN channel[i] : channel'[i][k] = channel[i][k]
        /\ channel'[i][Len(channel[i]) + 1] = message
        /\ DOMAIN channel'[i] = DOMAIN channel[i] \cup {Len(channel[i]) + 1}
    BY <1>2, <1>3, <1>6, AppendFacts
  <2> QED
    BY <1>1, <1>4, <1>6, <2>1
<1> QED
  BY <1>2, <1>3, <1>5, <1>6

Index == IndexInv /\ IndexCovers

(* Steps that leave the index, the cache and the messages alone. *)
LEMMA IndexFrame ==
  ASSUME TypeOK, Index,
         UNCHANGED <<indexMode, left, resident, engineHash, lastSeq, channel, lost, copies, chosen>>,
         \A r \in Requests : task'[r] # "sleeping" => task[r] # "sleeping",
         \A i \in Views : subscribed'[i] => subscribed[i]
  PROVE  Index'
<1>1. \A i, b, t : Coming(i, b, t)' = Coming(i, b, t)
  BY DEF Coming, Named
<1>2. IndexInv'
  BY DEF Index, IndexInv
<1>3. IndexCovers'
  BY <1>1 DEF Index, IndexCovers
<1> QED
  BY <1>2, <1>3 DEF Index

LEMMA IndexDispatch ==
  ASSUME TypeOK, TaskInv, Index, NEW r \in Requests, Dispatch(r)
  PROVE  Index' /\ resident' \in [Views -> [BlockIds -> Nat]]
<1> DEFINE i == Choose(r)
<1>1. i \in Views
  BY ChooseType
<1>2. /\ task' = [task EXCEPT ![r] = "open"] /\ chosen' = [chosen EXCEPT ![r] = i]
      /\ resident' = IF indexMode = "dispatch"
                       THEN [resident EXCEPT ![i] =
                              [b \in BlockIds |-> IF b \in PromptBlocks(r) /\ @[b] < 1 THEN 1 ELSE @[b]]]
                       ELSE resident
      /\ UNCHANGED <<indexMode, left, engineHash, lastSeq, subscribed, channel, lost, copies>>
  BY DEF Dispatch, cache, wire, Assume
<1>3. /\ task \in [Requests -> TaskStates] /\ chosen \in [Requests -> Views \cup {None}]
      /\ resident \in [Views -> [BlockIds -> Nat]] /\ engineHash \in [Views -> SUBSET BlockIds]
      /\ copies \in [Views -> [BlockIds -> Nat]]
  BY DEF TypeOK
<1>4. \A q \in Requests : PromptBlocks(q) \subseteq BlockIds
  BY DEF BlockIds
<1> HIDE DEF i
<1>5. CASE indexMode # "dispatch"
  <2>1. resident' = resident
    BY <1>2, <1>5
  <2>2. IndexInv'
    BY <1>2, <1>5, <2>1 DEF Index, IndexInv
  <2>3. \A j, b, t : Coming(j, b, t)' = Coming(j, b, t)
    BY <1>2 DEF Coming, Named
  <2>4. IndexCovers'
    BY <1>2, <2>1, <2>3 DEF Index, IndexCovers
  <2> QED
    BY <1>3, <2>1, <2>2, <2>4 DEF Index
<1>6. CASE indexMode = "dispatch"
  <2>1. resident' = [resident EXCEPT ![i] =
          [b \in BlockIds |-> IF b \in PromptBlocks(r) /\ @[b] < 1 THEN 1 ELSE @[b]]]
    BY <1>2, <1>6
  <2>2. \A j \in Views, b \in BlockIds :
          resident'[j][b] = IF j = i /\ b \in PromptBlocks(r) /\ resident[j][b] < 1
                              THEN 1 ELSE resident[j][b]
    BY <1>1, <1>3, <2>1
  <2>3. resident' \in [Views -> [BlockIds -> Nat]]
    BY <1>1, <1>3, <2>1
  <2>4. \A j \in Views, b \in BlockIds :
          /\ resident[j][b] \in Nat
          /\ resident[j][b] > 0 => resident'[j][b] > 0
          /\ j = i /\ b \in PromptBlocks(r) => resident'[j][b] > 0
    <3> SUFFICES ASSUME NEW j \in Views, NEW b \in BlockIds
                 PROVE  /\ resident[j][b] \in Nat
                        /\ resident[j][b] > 0 => resident'[j][b] > 0
                        /\ j = i /\ b \in PromptBlocks(r) => resident'[j][b] > 0
      OBVIOUS
    <3>1. resident[j][b] \in Nat
      BY <1>3
    <3> QED
      BY <2>2, <3>1
  <2>5. ~subscribed[i] /\ \A j \in Views : ~subscribed[j]
    BY <1>1, <1>6 DEF TaskInv
  <2>6. \A j \in Views : \A b \in engineHash'[j] : resident'[j][b] > 0
    BY <1>2, <1>3, <2>4 DEF Index, IndexInv
  <2>7. \A q \in Requests : task'[q] # "sleeping" =>
          \A b \in PromptBlocks(q) : resident'[chosen'[q]][b] > 0
    <3> SUFFICES ASSUME NEW q \in Requests, task'[q] # "sleeping", NEW b \in PromptBlocks(q)
                 PROVE  resident'[chosen'[q]][b] > 0
      OBVIOUS
    <3>1. b \in BlockIds
      BY <1>4
    <3>2. CASE q = r
      <4>1. chosen'[q] = i
        BY <1>2, <1>3, <3>2
      <4> QED
        BY <1>1, <2>4, <3>1, <3>2, <4>1
    <3>3. CASE q # r
      <4>1. chosen'[q] = chosen[q] /\ task[q] # "sleeping"
        BY <1>2, <1>3, <3>3
      <4>2. chosen[q] \in Views
        BY <4>1 DEF TaskInv
      <4>3. resident[chosen[q]][b] > 0
        BY <1>6, <4>1 DEF Index, IndexInv
      <4> QED
        BY <2>4, <3>1, <4>1, <4>2, <4>3
    <3> QED
      BY <3>2, <3>3
  <2>8. IndexInv'
    BY <1>2, <2>5, <2>6, <2>7 DEF Index, IndexInv
  <2>9. IndexCovers'
    BY <1>2, <1>6, <2>4 DEF Index, IndexCovers
  <2> QED
    BY <2>3, <2>8, <2>9 DEF Index
<1> QED
  BY <1>5, <1>6

(* What Apply does to the index of a view, block by block. *)
LEMMA ApplyFacts ==
  ASSUME TypeOK, Index, NEW i \in Views, NEW event \in Messages, Apply(i, event)
  PROVE  /\ resident' \in [Views -> [BlockIds -> Nat]]
         /\ engineHash' \in [Views -> SUBSET BlockIds]
         /\ \A j \in Views : j # i => resident'[j] = resident[j] /\ engineHash'[j] = engineHash[j]
         /\ \A b \in engineHash'[i] : resident'[i][b] > 0
         /\ \A b \in BlockIds :
              \/ event.type = "BlockStored" /\ b \in Named(event) /\ resident'[i][b] = resident[i][b] + 1
              \/ event.type = "BlockStored" /\ b \notin Named(event) /\ resident'[i][b] = resident[i][b]
              \/ event.type = "BlockRemoved" /\ resident'[i][b] = resident[i][b]
              \/ /\ event.type = "BlockRemoved" /\ b \in Named(event)
                 /\ resident'[i][b] = resident[i][b] - 1
              \/ event.type = "AllBlocksCleared" /\ resident'[i][b] = 0
<1> DEFINE named == Named(event)
           known == named \cap engineHash[i]
<1>1. /\ resident \in [Views -> [BlockIds -> Nat]] /\ engineHash \in [Views -> SUBSET BlockIds]
  BY DEF TypeOK
<1>2. named \subseteq BlockIds
  BY NamedType
<1>3. \A b \in engineHash[i] : b \in BlockIds /\ resident[i][b] > 0
  BY <1>1 DEF Index, IndexInv
<1>4. \A b \in BlockIds : resident[i][b] \in Nat
  BY <1>1
<1> HIDE DEF named
<1>5. CASE /\ event.type = "BlockStored"
           /\ resident' = [resident EXCEPT ![i] =
                [b \in BlockIds |-> IF b \in named THEN @[b] + 1 ELSE @[b]]]
           /\ engineHash' = [engineHash EXCEPT ![i] = @ \cup named]
  <2>1. \A b \in BlockIds : resident'[i][b] = IF b \in named THEN resident[i][b] + 1 ELSE resident[i][b]
    BY <1>1, <1>5
  <2>2. engineHash'[i] = engineHash[i] \cup named
    BY <1>1, <1>5
  <2>3. \A b \in engineHash'[i] : resident'[i][b] > 0
    BY <1>2, <1>3, <1>4, <2>1, <2>2
  <2>4. resident' \in [Views -> [BlockIds -> Nat]] /\ engineHash' \in [Views -> SUBSET BlockIds]
    BY <1>1, <1>2, <1>5
  <2>5. \A j \in Views : j # i => resident'[j] = resident[j] /\ engineHash'[j] = engineHash[j]
    BY <1>1, <1>5
  <2> QED
    BY <1>5, <2>1, <2>3, <2>4, <2>5 DEF named
<1>6. CASE /\ event.type = "BlockRemoved"
           /\ resident' = [resident EXCEPT ![i] =
                [b \in BlockIds |-> IF b \in known THEN @[b] - 1 ELSE @[b]]]
           /\ engineHash' = [engineHash EXCEPT ![i] = @ \ named]
  <2>1. \A b \in BlockIds : resident'[i][b] = IF b \in known THEN resident[i][b] - 1 ELSE resident[i][b]
    BY <1>1, <1>6
  <2>2. engineHash'[i] = engineHash[i] \ named
    BY <1>1, <1>6
  <2>3. \A b \in engineHash'[i] : resident'[i][b] > 0
    BY <1>3, <2>1, <2>2
  <2>4. \A b \in BlockIds : resident'[i][b] \in Nat
    BY <1>3, <1>4, <2>1
  <2>5. resident' \in [Views -> [BlockIds -> Nat]]
    <3> DEFINE f == [b \in BlockIds |-> IF b \in known THEN resident[i][b] - 1 ELSE resident[i][b]]
    <3>1. f \in [BlockIds -> Nat]
      BY <1>3, <1>4
    <3>2. resident' = [resident EXCEPT ![i] = f]
      BY <1>6
    <3> HIDE DEF f
    <3> QED
      BY <1>1, <3>1, <3>2
  <2>6. engineHash' \in [Views -> SUBSET BlockIds]
    BY <1>1, <1>6
  <2>7. \A j \in Views : j # i => resident'[j] = resident[j] /\ engineHash'[j] = engineHash[j]
    BY <1>1, <1>6
  <2> QED
    BY <1>6, <2>1, <2>3, <2>5, <2>6, <2>7 DEF named
<1>7. CASE /\ event.type = "AllBlocksCleared"
           /\ resident' = [resident EXCEPT ![i] = [b \in BlockIds |-> 0]]
           /\ engineHash' = [engineHash EXCEPT ![i] = {}]
  <2>1. resident' \in [Views -> [BlockIds -> Nat]] /\ engineHash' \in [Views -> SUBSET BlockIds]
    BY <1>1, <1>7
  <2>2. engineHash'[i] = {} /\ \A b \in BlockIds : resident'[i][b] = 0
    BY <1>1, <1>7
  <2>3. \A j \in Views : j # i => resident'[j] = resident[j] /\ engineHash'[j] = engineHash[j]
    BY <1>1, <1>7
  <2> QED
    BY <1>7, <2>1, <2>2, <2>3
<1>8. \/ /\ event.type = "BlockStored"
         /\ resident' = [resident EXCEPT ![i] =
              [b \in BlockIds |-> IF b \in named THEN @[b] + 1 ELSE @[b]]]
         /\ engineHash' = [engineHash EXCEPT ![i] = @ \cup named]
      \/ /\ event.type = "BlockRemoved"
         /\ resident' = [resident EXCEPT ![i] =
              [b \in BlockIds |-> IF b \in known THEN @[b] - 1 ELSE @[b]]]
         /\ engineHash' = [engineHash EXCEPT ![i] = @ \ named]
      \/ /\ event.type = "AllBlocksCleared"
         /\ resident' = [resident EXCEPT ![i] = [b \in BlockIds |-> 0]]
         /\ engineHash' = [engineHash EXCEPT ![i] = {}]
  BY DEF Apply, NoCopies, named
<1> QED
  BY <1>5, <1>6, <1>7, <1>8

LEMMA IndexReceive ==
  ASSUME TypeOK, TaskInv, WireInv, Index, NEW i \in Views, Receive(i)
  PROVE  /\ Index'
         /\ resident' \in [Views -> [BlockIds -> Nat]]
         /\ engineHash' \in [Views -> SUBSET BlockIds]
         /\ channel' \in [Views -> Seq(Messages)]
         /\ lastSeq' \in [Views -> Nat \cup {None}] /\ seqGaps' \in [Views -> Nat]
<1> DEFINE ch == channel[i]
           message == Head(ch)
<1>1. /\ subscribed[i] /\ ch # <<>> /\ Apply(i, message)
      /\ lastSeq' = [lastSeq EXCEPT ![i] = message.seq]
      /\ seqGaps' = [seqGaps EXCEPT ![i] = IF Gap(i, message.seq) THEN @ + 1 ELSE @]
      /\ channel' = [channel EXCEPT ![i] = Tail(ch)]
      /\ UNCHANGED <<indexMode, left, subscribed, lost, copies>>
  BY DEF Receive, cache, TypeOK
<1>2. /\ channel \in [Views -> Seq(Messages)] /\ ch \in Seq(Messages)
      /\ lastSeq \in [Views -> Nat \cup {None}] /\ seqGaps \in [Views -> Nat]
      /\ resident \in [Views -> [BlockIds -> Nat]] /\ copies \in [Views -> [BlockIds -> Nat]]
  BY DEF TypeOK
<1>3. /\ message = ch[1] /\ message \in Messages /\ 1 \in DOMAIN ch /\ Tail(ch) \in Seq(Messages)
      /\ \A k \in DOMAIN Tail(ch) : k + 1 \in DOMAIN ch /\ Tail(ch)[k] = ch[k + 1]
  BY <1>1, <1>2, HeadTailFacts
<1>4. indexMode = "events"
  BY <1>1 DEF TaskInv, TypeOK, IndexModes
<1>5. message.seq \in Nat /\ message.seq > lastSeq[i]
  <2>1. ch[1].seq \in {n \in 0..(published[i] - 1) : n > lastSeq[i] /\ n \notin lost[i]}
    BY <1>3 DEF WireInv
  <2>2. published[i] \in Nat
    BY DEF TypeOK
  <2> QED
    BY <1>3, <2>1, <2>2
<1>6. message.type = "AllBlocksCleared" => lastSeq[i] = None
  <2>1. message.type = "AllBlocksCleared" => message.seq = 0
    BY <1>3 DEF Index, IndexInv
  <2> QED
    BY <1>2, <1>5, <2>1
<1> HIDE DEF message
<1>7. /\ resident' \in [Views -> [BlockIds -> Nat]]
      /\ engineHash' \in [Views -> SUBSET BlockIds]
      /\ \A j \in Views : j # i => resident'[j] = resident[j] /\ engineHash'[j] = engineHash[j]
      /\ \A b \in engineHash'[i] : resident'[i][b] > 0
      /\ \A b \in BlockIds :
           \/ message.type = "BlockStored" /\ b \in Named(message) /\ resident'[i][b] = resident[i][b] + 1
           \/ message.type = "BlockStored" /\ b \notin Named(message) /\ resident'[i][b] = resident[i][b]
           \/ message.type = "BlockRemoved" /\ resident'[i][b] = resident[i][b]
           \/ /\ message.type = "BlockRemoved" /\ b \in Named(message)
              /\ resident'[i][b] = resident[i][b] - 1
           \/ message.type = "AllBlocksCleared" /\ resident'[i][b] = 0
  BY <1>1, <1>3, ApplyFacts
<1>8. channel' \in [Views -> Seq(Messages)] /\ lastSeq' \in [Views -> Nat \cup {None}]
  BY <1>1, <1>2, <1>3, <1>5
<1>9. seqGaps' \in [Views -> Nat]
  BY <1>1, <1>2
<1>10. ASSUME NEW j \in Views, j # i
       PROVE  /\ channel'[j] = channel[j] /\ lastSeq'[j] = lastSeq[j]
              /\ resident'[j] = resident[j] /\ engineHash'[j] = engineHash[j]
              /\ \A b, t : Coming(j, b, t)' = Coming(j, b, t)
  <2>1. channel'[j] = channel[j] /\ lastSeq'[j] = lastSeq[j]
    BY <1>1, <1>2, <1>10
  <2> QED
    BY <1>7, <1>10, <2>1 DEF Coming, Named
<1>11. channel'[i] = Tail(ch) /\ lastSeq'[i] = message.seq
  BY <1>1, <1>2
<1>12. IndexInv'
  <2>1. \A j \in Views : \A b \in engineHash'[j] : resident'[j][b] > 0
    BY <1>7, <1>10 DEF Index, IndexInv
  <2>2. \A j \in Views : subscribed[j] /\ lastSeq'[j] = None => \A b \in BlockIds : resident'[j][b] = 0
    <3>1. message.seq # None
      BY <1>5 DEF None
    <3> QED
      BY <1>10, <1>11, <3>1 DEF Index, IndexInv
  <2>3. \A j \in Views : \A k \in DOMAIN channel'[j] :
          channel'[j][k].type = "AllBlocksCleared" => channel'[j][k].seq = 0
    <3> SUFFICES ASSUME NEW j \in Views, NEW k \in DOMAIN channel'[j],
                        channel'[j][k].type = "AllBlocksCleared"
                 PROVE  channel'[j][k].seq = 0
      OBVIOUS
    <3>1. \A l \in DOMAIN channel[j] : channel[j][l].type = "AllBlocksCleared" => channel[j][l].seq = 0
      BY DEF Index, IndexInv
    <3>2. CASE j = i
      <4>1. k + 1 \in DOMAIN channel[j] /\ channel'[j][k] = channel[j][k + 1]
        BY <1>3, <1>11, <3>2
      <4> QED
        BY <3>1, <4>1
    <3>3. CASE j # i
      BY <1>10, <3>1, <3>3
    <3> QED
      BY <3>2, <3>3
  <2> QED
    BY <1>1, <1>4, <2>1, <2>2, <2>3 DEF IndexInv
<1>13. ASSUME NEW j \in Views, NEW b \in BlockIds, subscribed[j], lost[j] = {}
       PROVE  resident'[j][b] + Coming(j, b, "BlockStored")' - Coming(j, b, "BlockRemoved")' >= copies[j][b] - left[j][b]
  <2>1. resident[j][b] + Coming(j, b, "BlockStored") - Coming(j, b, "BlockRemoved") >= copies[j][b] - left[j][b]
    BY <1>4, <1>13 DEF Index, IndexCovers
  <2>2. CASE j # i
    BY <1>10, <2>1, <2>2
  <2>3. CASE j = i
    <3> DEFINE n(t) == Coming(i, b, t)
               m(t) == Count(Tail(ch), Of(b, t))
    <3>1. \A t : n(t) \in Nat /\ n(t) = Count(ch, Of(b, t))
      BY ComingType
    <3>2. \A t : Coming(i, b, t)' = m(t)
      BY <1>8, <1>11, ComingNext
    <3>3. \A t : m(t) \in Nat
      BY <1>3, CountType
    <3>4. \A t : Count(ch, Of(b, t)) = IF ch[1] \in Of(b, t) THEN m(t) + 1 ELSE m(t)
      BY <1>1, <1>2, CountTail
    <3>5. \A t : ch[1] \in Of(b, t) <=> message.type = t /\ b \in Named(message)
      BY <1>3 DEF Of
    <3> DEFINE s0 == n("BlockStored")
               r0 == n("BlockRemoved")
               s1 == m("BlockStored")
               r1 == m("BlockRemoved")
               x == resident[i][b]
               y == resident'[i][b]
               c == copies[i][b] - left[i][b]
    <3>6. s0 = IF message.type = "BlockStored" /\ b \in Named(message) THEN s1 + 1 ELSE s1
      BY <3>1, <3>4, <3>5
    <3>7. r0 = IF message.type = "BlockRemoved" /\ b \in Named(message) THEN r1 + 1 ELSE r1
      BY <3>1, <3>4, <3>5
    <3>8. s1 \in Nat /\ r1 \in Nat /\ x \in Nat /\ c \in Int
      <4>1. left[i][b] \in Nat /\ copies[i][b] \in Nat
        BY <1>2 DEF TypeOK
      <4> QED
        BY <1>2, <3>3, <4>1
    <3>9. x + s0 - r0 >= c
      BY <2>1, <2>3
    <3>10. \/ message.type = "BlockStored" /\ b \in Named(message) /\ y = x + 1
           \/ message.type = "BlockStored" /\ b \notin Named(message) /\ y = x
           \/ message.type = "BlockRemoved" /\ y = x
           \/ message.type = "BlockRemoved" /\ b \in Named(message) /\ y = x - 1
           \/ message.type = "AllBlocksCleared" /\ y = 0
      BY <1>7
    <3>11. message.type = "AllBlocksCleared" => x = 0
      BY <1>1, <1>6 DEF Index, IndexInv
    <3> HIDE DEF s0, r0, s1, r1, x, y, c, n, m
    <3>12. y + s1 - r1 >= c
      BY <3>6, <3>7, <3>8, <3>9, <3>10, <3>11
    <3> QED
      BY <2>3, <3>2, <3>12 DEF s1, r1, y, c
  <2> QED
    BY <2>2, <2>3
<1>14. IndexCovers'
  BY <1>1, <1>4, <1>13 DEF IndexCovers
<1> QED
  BY <1>7, <1>8, <1>9, <1>12, <1>14 DEF Index

(* The server's steps: copies and messages change together.                 *)
LEMMA IndexServer ==
  ASSUME TypeOK, Index, NEW i \in Views, NEW type \in {"BlockStored", "BlockRemoved"},
         NEW blocks \in Seq(BlockIds),
         Publish(i, type, blocks), copies' \in [Views -> [BlockIds -> Nat]],
         UNCHANGED <<indexMode, left, resident, engineHash, lastSeq, subscribed, task, chosen>>,
         \A j \in Views, b \in BlockIds :
           LET on == j = i /\ \E k \in DOMAIN blocks : blocks[k] = b
           IN copies'[j][b] = IF ~on THEN copies[j][b]
                              ELSE IF type = "BlockStored" THEN copies[j][b] + 1
                              ELSE copies[j][b] - 1,
         indexMode = "dispatch" =>
           \A j \in Views, b \in BlockIds : copies'[j][b] > left[j][b] => resident[j][b] > 0
  PROVE  Index'
<1>1. type \in EventTypes /\ type # "AllBlocksCleared" /\ None = -1
  BY DEF EventTypes, None
<1>2. \A j \in Views : \A k \in DOMAIN channel'[j] :
        channel'[j][k].type = "AllBlocksCleared" => channel'[j][k].seq = 0
  BY <1>1, PublishKinds DEF Index
<1>3. IndexInv'
  BY <1>2 DEF Index, IndexInv
<1>4. ASSUME NEW j \in Views, NEW b \in BlockIds, indexMode # "dispatch", subscribed[j], lost'[j] = {}
      PROVE  resident[j][b] + Coming(j, b, "BlockStored")' - Coming(j, b, "BlockRemoved")' >= copies'[j][b] - left[j][b]
  <2> DEFINE on == j = i /\ \E k \in DOMAIN blocks : blocks[k] = b
             s0 == Coming(j, b, "BlockStored")
             r0 == Coming(j, b, "BlockRemoved")
             s1 == Coming(j, b, "BlockStored")'
             r1 == Coming(j, b, "BlockRemoved")'
             x == resident[j][b]
             c == copies[j][b] - left[j][b]
             d == copies'[j][b] - left[j][b]
  <2>0. ASSUME NEW t
        PROVE  /\ lost[j] = {}
               /\ Coming(j, b, t)' = IF j = i /\ t = type /\ \E k \in DOMAIN blocks : blocks[k] = b
                                       THEN Coming(j, b, t) + 1 ELSE Coming(j, b, t)
    <3> HIDE DEF on, s0, r0, s1, r1, x, c, d
    <3>1. lost[j] = {}
      BY <1>1, <1>4, PublishCounts
    <3>2. channel' \in [Views -> Seq(Messages)]
      BY <1>1, <1>4, PublishCounts
    <3>3. Count(channel'[j], Of(b, t)) = IF j = i /\ t = type /\ \E k \in DOMAIN blocks : blocks[k] = b
                                           THEN Coming(j, b, t) + 1 ELSE Coming(j, b, t)
      BY <1>1, <1>4, PublishCounts, SMTT(60)
    <3>4. Coming(j, b, t)' = Count(channel'[j], Of(b, t))
      BY <3>2, ComingNext
    <3> QED
      BY <3>1, <3>3, <3>4
  <2>1. lost[j] = {}
    BY <2>0
  <2>2. s1 = IF on /\ type = "BlockStored" THEN s0 + 1 ELSE s0
    BY <2>0
  <2>3. r1 = IF on /\ type = "BlockRemoved" THEN r0 + 1 ELSE r0
    BY <2>0
  <2>4. x + s0 - r0 >= c
    BY <1>4, <2>1 DEF Index, IndexCovers
  <2>5. d = IF ~on THEN c ELSE IF type = "BlockStored" THEN c + 1 ELSE c - 1
    <3>1. copies'[j][b] = IF ~on THEN copies[j][b]
                          ELSE IF type = "BlockStored" THEN copies[j][b] + 1
                          ELSE copies[j][b] - 1
      OBVIOUS
    <3>2. copies[j][b] \in Nat /\ left[j][b] \in Nat
      BY DEF TypeOK
    <3> HIDE DEF on
    <3> QED
      BY <3>1, <3>2
  <2>6. x \in Nat /\ c \in Int /\ s0 \in Nat /\ r0 \in Nat
    <3>1. s0 \in Nat /\ r0 \in Nat
      BY ComingType
    <3>2. x \in Nat /\ c \in Int
      <4>1. copies[j][b] \in Nat /\ left[j][b] \in Nat /\ x \in Nat
        BY DEF TypeOK
      <4> QED
        BY <4>1
    <3> QED
      BY <3>1, <3>2
  <2> HIDE DEF on, s0, r0, s1, r1, x, c, d
  <2>7. x + s1 - r1 >= d
    BY <2>2, <2>3, <2>4, <2>5, <2>6
  <2> QED
    BY <2>7 DEF s1, r1, x, d
<1>5. IndexCovers'
  BY <1>4 DEF IndexCovers
<1> QED
  BY <1>3, <1>5 DEF Index

-----------------------------------------------------------------------------
(* The first state *)

LEMMA InitBooks ==
  ASSUME Init
  PROVE  Books
<1>1. /\ task = [r \in Requests |-> "sleeping"]
      /\ bs = [i \in Views |-> 0] /\ queued = [i \in Views |-> 0]
  BY DEF Init
<1>2. \A i \in Views : At(i) = {}
  BY <1>1 DEF At
<1>3. \A i \in Views : Owed(i) = {}
  BY <1>2 DEF Owed
<1> QED
  BY <1>1, <1>2, <1>3, FS_EmptySet DEF Books, BooksBalance

LEMMA InitTypes ==
  ASSUME Init
  PROVE  /\ TypeOK
         /\ \A i \in Views : \/ channel[i] = <<>> /\ published[i] = 0
                             \/ /\ channel[i] = <<Message(0, "AllBlocksCleared", <<>>)>>
                                /\ published[i] = 1
<1>1. Message(0, "AllBlocksCleared", <<>>) \in Messages
  BY DEF Message, Messages, EventTypes
<1>2. channel \in [Views -> Seq(Messages)] /\ published \in [Views -> Nat]
  <2> DEFINE reset == <<Message(0, "AllBlocksCleared", <<>>)>>
  <2>1. \/ channel = [i \in Views |-> <<>>] /\ published = [i \in Views |-> 0]
        \/ channel = [i \in Views |-> reset] /\ published = [i \in Views |-> 1]
    BY DEF Init, Connected
  <2>2. <<>> \in Seq(Messages) /\ reset \in Seq(Messages)
    BY <1>1
  <2> HIDE DEF reset
  <2>3. CASE channel = [i \in Views |-> <<>>] /\ published = [i \in Views |-> 0]
    BY <2>2, <2>3
  <2>4. CASE channel = [i \in Views |-> reset] /\ published = [i \in Views |-> 1]
    BY <2>2, <2>4
  <2> QED
    BY <2>1, <2>3, <2>4
<1>3. \A i \in Views : \/ channel[i] = <<>> /\ published[i] = 0
                       \/ /\ channel[i] = <<Message(0, "AllBlocksCleared", <<>>)>>
                          /\ published[i] = 1
  BY DEF Init, Connected
<1>4. policy \in Policies /\ indexMode \in IndexModes /\ turn \in Nat /\ stop \in BOOLEAN
  BY DEF Init
<1>5. bs \in [Views -> Nat] /\ queued \in [Views -> Nat] /\ seqGaps \in [Views -> Nat]
  BY DEF Init
<1>6. /\ resident \in [Views -> [BlockIds -> Nat]] /\ copies = left
      /\ engineHash \in [Views -> SUBSET BlockIds] /\ lost \in [Views -> SUBSET Nat]
      /\ left \in [Views -> [BlockIds -> Nat]]
  <2>1. NoCopies \in [BlockIds -> Nat]
    BY DEF NoCopies
  <2>2. left = [i \in Views |-> NoCopies] \/ left \in [Views -> Leftovers]
    BY DEF Init, Connected
  <2> QED
    BY <2>1, <2>2, WorkloadAssumption DEF Init
<1>7. lastSeq \in [Views -> Nat \cup {None}] /\ chosen \in [Requests -> Views \cup {None}]
  BY DEF Init
<1>8. /\ subscribed \in [Views -> BOOLEAN]
      /\ task \in [Requests -> TaskStates] /\ served \in [Requests -> ServedStates]
      /\ newTokens \in [Requests -> Nat] /\ pending \in [Requests -> BOOLEAN]
      /\ prefix \in [Requests -> Nat]
  BY DEF Init, TaskStates, ServedStates
<1>9. evictions \in 0..MaxEvict
  BY WorkloadAssumption DEF Init
<1> QED
  BY <1>2, <1>3, <1>4, <1>5, <1>6, <1>7, <1>8, <1>9 DEF TypeOK

LEMMA InitWire ==
  ASSUME Init
  PROVE  WireInv /\ GapsTell
<1> SUFFICES ASSUME NEW i \in Views
             PROVE  WireAt(published[i], lost[i], channel[i], lastSeq[i], seqGaps[i])
  BY WireEach
<1>1. lost[i] = {} /\ lastSeq[i] = -1 /\ seqGaps[i] = 0
  BY DEF Init, None
<1>2. CASE channel[i] = <<>> /\ published[i] = 0
  <2>1. {channel[i][k].seq : k \in DOMAIN channel[i]} = {} /\ DOMAIN channel[i] = {}
    BY <1>2
  <2>2. 0..(published[i] - 1) = {}
    BY <1>2
  <2> QED
    BY <1>1, <1>2, <2>1, <2>2 DEF WireAt
<1>3. CASE /\ channel[i] = <<Message(0, "AllBlocksCleared", <<>>)>>
           /\ published[i] = 1
  <2>1. DOMAIN channel[i] = {1} /\ channel[i][1].seq = 0
    BY <1>3 DEF Message
  <2>2. {channel[i][k].seq : k \in DOMAIN channel[i]} = {0}
    BY <2>1
  <2>3. {n \in 0..(published[i] - 1) : n > lastSeq[i] /\ n \notin lost[i]} = {0}
    BY <1>1, <1>3
  <2> QED
    BY <1>1, <1>3, <2>1, <2>2, <2>3 DEF WireAt
<1> QED
  BY <1>2, <1>3, InitTypes

LEMMA InitIndex ==
  ASSUME Init
  PROVE  Index
<1>1. /\ resident = [i \in Views |-> [b \in BlockIds |-> 0]] /\ copies = left
      /\ engineHash = [i \in Views |-> {}]
      /\ task = [r \in Requests |-> "sleeping"]
  BY DEF Init, NoCopies
<1>2. ASSUME NEW i \in Views, NEW k \in DOMAIN channel[i]
      PROVE  channel[i][k].seq = 0 /\ channel[i][k].type = "AllBlocksCleared"
  <2>1. CASE channel[i] = <<>>
    BY <1>2, <2>1
  <2>2. CASE channel[i] = <<Message(0, "AllBlocksCleared", <<>>)>>
    <3>1. k = 1
      BY <1>2, <2>2
    <3>2. channel[i][k] = Message(0, "AllBlocksCleared", <<>>)
      BY <2>2, <3>1
    <3> QED
      BY <3>2 DEF Message
  <2> QED
    BY <2>1, <2>2, InitTypes
<1>3. IndexInv
  BY <1>1, <1>2 DEF IndexInv
<1>4. ASSUME NEW i \in Views, NEW b \in BlockIds, NEW t \in {"BlockStored", "BlockRemoved"}
      PROVE  Coming(i, b, t) = 0
  <2>1. {k \in DOMAIN channel[i] : channel[i][k].type = t /\ b \in Named(channel[i][k])} = {}
    BY <1>2
  <2> QED
    BY <2>1, FS_EmptySet DEF Coming
<1>5. IndexCovers
  <2>1. \A i \in Views, b \in BlockIds : /\ copies[i][b] = left[i][b] /\ left[i][b] \in Nat
                                        /\ resident[i][b] = 0
    BY <1>1, InitTypes DEF TypeOK
  <2> QED
    BY <1>4, <2>1 DEF IndexCovers
<1> QED
  BY <1>3, <1>5 DEF Index

LEMMA InitInductive ==
  Init => Inductive
<1> SUFFICES ASSUME Init PROVE Inductive
  OBVIOUS
<1>1. TypeOK /\ Books /\ WireInv /\ GapsTell /\ Index
  BY InitTypes, InitBooks, InitWire, InitIndex
<1>2. TaskInv
  <2>1. \A r \in Requests : task[r] = "sleeping" /\ served[r] = "none"
    BY DEF Init
  <2>2. \A r \in Requests : prefix[r] <= Len(FullBlocks[r])
    <3> SUFFICES ASSUME NEW r \in Requests PROVE prefix[r] <= Len(FullBlocks[r])
      OBVIOUS
    <3>1. prefix[r] = 0 /\ Len(FullBlocks[r]) \in Nat
      BY LeadingFacts DEF Init
    <3> DEFINE n == Len(FullBlocks[r])
    <3> HIDE DEF n
    <3>2. 0 <= n
      BY <3>1 DEF n
    <3> QED
      BY <3>1, <3>2 DEF n
  <2>3. indexMode = "dispatch" => \A i \in Views : ~subscribed[i]
    BY DEF Init
  <2> QED
    BY <2>1, <2>2, <2>3 DEF TaskInv
<1> QED
  BY <1>1, <1>2 DEF Inductive, Books, Index

-----------------------------------------------------------------------------
(* Every step *)

LEMMA StepDispatch ==
  ASSUME Inductive, NEW r \in Requests, Dispatch(r)
  PROVE  Inductive'
<1>1. TypeOK /\ TaskInv /\ Books /\ WireInv /\ GapsTell /\ Index
  BY DEF Inductive, Books, Index
<1> DEFINE i == Choose(r)
           u == Uncached(i, r)
<1>2. i \in Views /\ u \in Nat
  BY <1>1, ChooseType, UncachedType
<1>3. Books'
  BY <1>1, BooksDispatch
<1>4. Index' /\ resident' \in [Views -> [BlockIds -> Nat]]
  BY <1>1, IndexDispatch
<1>5. /\ task[r] = "sleeping" /\ task' = [task EXCEPT ![r] = "open"]
      /\ chosen' = [chosen EXCEPT ![r] = i] /\ newTokens' = [newTokens EXCEPT ![r] = u]
      /\ bs' = [bs EXCEPT ![i] = @ + 1] /\ queued' = [queued EXCEPT ![i] = @ + u]
      /\ pending' = [pending EXCEPT ![r] = TRUE] /\ turn' = turn + 1
      /\ UNCHANGED <<policy, indexMode, left, engineHash, lastSeq, seqGaps, subscribed, stop,
                     copies, evictions, served, prefix, channel, published, lost>>
  BY DEF Dispatch, cache, wire
<1> HIDE DEF i, u
<1>6. WireInv' /\ GapsTell'
  BY <1>1, <1>5, WireFrame DEF wire
<1>7. TaskInv'
  BY <1>1, <1>2, <1>5 DEF TaskInv, TypeOK
<1>8. bs' \in [Views -> Nat] /\ queued' \in [Views -> Nat] /\ turn' \in Nat
  BY <1>1, <1>2, <1>5 DEF TypeOK
<1>9. /\ task' \in [Requests -> TaskStates] /\ chosen' \in [Requests -> Views \cup {None}]
      /\ newTokens' \in [Requests -> Nat] /\ pending' \in [Requests -> BOOLEAN]
  BY <1>1, <1>2, <1>5 DEF TypeOK, TaskStates
<1>10. TypeOK'
  BY <1>1, <1>4, <1>5, <1>8, <1>9 DEF TypeOK
<1> QED
  BY <1>3, <1>4, <1>6, <1>7, <1>10 DEF Inductive, Books, Index

LEMMA StepFirstToken ==
  ASSUME Inductive, NEW r \in Requests, FirstToken(r)
  PROVE  Inductive'
<1>1. TypeOK /\ TaskInv /\ Books /\ WireInv /\ GapsTell /\ Index
  BY DEF Inductive, Books, Index
<1>2. Books' /\ queued' \in [Views -> Nat]
  BY <1>1, BooksFirstToken
<1>3. /\ pending' = [pending EXCEPT ![r] = FALSE]
      /\ UNCHANGED <<policy, indexMode, left, bs, resident, engineHash, lastSeq, seqGaps, subscribed,
                     task, chosen, newTokens, turn, stop, copies, evictions, served, prefix,
                     channel, published, lost>>
  BY DEF FirstToken, cache, wire
<1>4. WireInv' /\ GapsTell'
  BY <1>1, <1>3, WireFrame DEF wire
<1>5. Index'
  BY <1>1, <1>3, IndexFrame
<1>6. TaskInv'
  BY <1>1, <1>3 DEF TaskInv
<1>7. TypeOK'
  BY <1>1, <1>2, <1>3 DEF TypeOK
<1> QED
  BY <1>2, <1>4, <1>5, <1>6, <1>7 DEF Inductive, Books, Index

LEMMA StepEnd ==
  ASSUME Inductive, NEW r \in Requests, End(r)
  PROVE  Inductive'
<1>1. TypeOK /\ TaskInv /\ Books /\ WireInv /\ GapsTell /\ Index
  BY DEF Inductive, Books, Index
<1>2. Books' /\ queued' \in [Views -> Nat] /\ bs' \in [Views -> Nat]
  BY <1>1, BooksEnd
<1>3. /\ task[r] = "open" /\ task' = [task EXCEPT ![r] = "ended"]
      /\ UNCHANGED <<policy, indexMode, left, resident, engineHash, lastSeq, seqGaps, subscribed,
                     chosen, newTokens, pending, turn, stop, copies, evictions, served, prefix,
                     channel, published, lost>>
  BY DEF End, cache, wire
<1>4. WireInv' /\ GapsTell'
  BY <1>1, <1>3, WireFrame DEF wire
<1>5. task' \in [Requests -> TaskStates]
      /\ \A q \in Requests : task'[q] = "sleeping" <=> task[q] = "sleeping"
  BY <1>1, <1>3 DEF TypeOK, TaskStates
<1>6. Index'
  BY <1>1, <1>3, <1>5, IndexFrame
<1>7. TaskInv'
  BY <1>1, <1>3, <1>5 DEF TaskInv
<1>8. TypeOK'
  BY <1>1, <1>2, <1>3, <1>5 DEF TypeOK
<1> QED
  BY <1>2, <1>4, <1>6, <1>7, <1>8 DEF Inductive, Books, Index

LEMMA StepAllReturned ==
  ASSUME Inductive, AllReturned
  PROVE  Inductive'
<1>1. TypeOK /\ TaskInv /\ Books /\ WireInv /\ GapsTell /\ Index
  BY DEF Inductive, Books, Index
<1>2. /\ stop' = TRUE
      /\ UNCHANGED <<policy, indexMode, left, bs, queued, resident, engineHash, lastSeq, seqGaps,
                     subscribed, task, chosen, newTokens, pending, turn, copies, evictions,
                     served, prefix, channel, published, lost>>
  BY DEF AllReturned, view, tasks, cache, wire
<1>3. Books'
  BY <1>1, <1>2, BooksFrame DEF tasks
<1>4. WireInv' /\ GapsTell'
  BY <1>1, <1>2, WireFrame DEF wire
<1>5. Index'
  BY <1>1, <1>2, IndexFrame
<1>6. TaskInv'
  BY <1>1, <1>2 DEF TaskInv
<1>7. TypeOK'
  BY <1>1, <1>2 DEF TypeOK
<1> QED
  BY <1>3, <1>4, <1>5, <1>6, <1>7 DEF Inductive, Books, Index

LEMMA StepReceive ==
  ASSUME Inductive, NEW i \in Views, Receive(i)
  PROVE  Inductive'
<1>1. TypeOK /\ TaskInv /\ Books /\ WireInv /\ GapsTell /\ Index
  BY DEF Inductive, Books, Index
<1>2. UNCHANGED <<policy, indexMode, left, bs, queued, subscribed, task, chosen, newTokens, pending,
                  turn, stop, copies, evictions, served, prefix, published, lost>>
  BY DEF Receive, tasks, cache
<1>3. Books'
  BY <1>1, <1>2, BooksFrame DEF tasks
<1>4. WireInv' /\ GapsTell'
  BY <1>1, WireReceived
<1>5. /\ Index'
      /\ resident' \in [Views -> [BlockIds -> Nat]]
      /\ engineHash' \in [Views -> SUBSET BlockIds]
      /\ channel' \in [Views -> Seq(Messages)]
      /\ lastSeq' \in [Views -> Nat \cup {None}] /\ seqGaps' \in [Views -> Nat]
  BY <1>1, IndexReceive
<1>6. TaskInv'
  BY <1>1, <1>2 DEF TaskInv
<1>7. TypeOK'
  BY <1>1, <1>2, <1>5 DEF TypeOK
<1> QED
  BY <1>3, <1>4, <1>5, <1>6, <1>7 DEF Inductive, Books, Index

LEMMA StepUnsubscribe ==
  ASSUME Inductive, NEW i \in Views, Unsubscribe(i)
  PROVE  Inductive'
<1>1. TypeOK /\ TaskInv /\ Books /\ WireInv /\ GapsTell /\ Index
  BY DEF Inductive, Books, Index
<1>2. /\ subscribed' = [subscribed EXCEPT ![i] = FALSE]
      /\ UNCHANGED <<policy, indexMode, left, bs, queued, resident, engineHash, lastSeq, seqGaps,
                     task, chosen, newTokens, pending, turn, stop, copies, evictions,
                     served, prefix, channel, published, lost>>
  BY DEF Unsubscribe, tasks, cache, wire
<1>3. Books'
  BY <1>1, <1>2, BooksFrame DEF tasks
<1>4. WireInv' /\ GapsTell'
  BY <1>1, <1>2, WireFrame DEF wire
<1>5. subscribed' \in [Views -> BOOLEAN] /\ \A j \in Views : subscribed'[j] => subscribed[j]
  BY <1>1, <1>2 DEF TypeOK
<1>6. Index'
  BY <1>1, <1>2, <1>5, IndexFrame
<1>7. TaskInv'
  BY <1>1, <1>2, <1>5 DEF TaskInv
<1>8. TypeOK'
  BY <1>1, <1>2, <1>5 DEF TypeOK
<1> QED
  BY <1>3, <1>4, <1>6, <1>7, <1>8 DEF Inductive, Books, Index

LEMMA StepServerAdmit ==
  ASSUME Inductive, NEW r \in Requests, ServerAdmit(r)
  PROVE  Inductive'
<1>1. TypeOK /\ TaskInv /\ Books /\ WireInv /\ GapsTell /\ Index
  BY DEF Inductive, Books, Index
<1> DEFINE h == ServerHit(r)
<1>2. /\ task[r] = "open" /\ served' = [served EXCEPT ![r] = "admitted"]
      /\ prefix' = [prefix EXCEPT ![r] = h]
      /\ UNCHANGED <<policy, indexMode, left, bs, queued, resident, engineHash, lastSeq, seqGaps,
                     subscribed, task, chosen, newTokens, pending, turn, stop, copies, evictions,
                     channel, published, lost>>
  BY DEF ServerAdmit, view, tasks, cache, wire
<1>3. h \in Nat /\ h <= Len(FullBlocks[r])
  <2> DEFINE n == Len(FullBlocks[r])
             f == LeadingIn(r, Held(chosen[r]))
             m == MaxHit(r)
  <2>1. f \in 0..n /\ n \in Nat
    BY LeadingFacts
  <2>2. m \in Nat
    <3>1. InputLen[r] - 1 \in Nat /\ Block \in Nat \ {0}
      BY WorkloadAssumption
    <3> QED
      BY <3>1, DivBounds DEF MaxHit
  <2>3. h = Smaller(f, m)
    BY DEF ServerHit
  <2> HIDE DEF h, n, f, m
  <2>4. h \in Nat /\ h <= n
    BY <2>1, <2>2, <2>3 DEF Smaller
  <2> QED
    BY <2>4 DEF n
<1> HIDE DEF h
<1>4. Books'
  BY <1>1, <1>2, BooksFrame DEF tasks
<1>5. WireInv' /\ GapsTell'
  BY <1>1, <1>2, WireFrame DEF wire
<1>6. Index'
  BY <1>1, <1>2, IndexFrame
<1>7. TaskInv'
  BY <1>1, <1>2, <1>3 DEF TaskInv, TypeOK
<1>8. served' \in [Requests -> ServedStates] /\ prefix' \in [Requests -> Nat]
  BY <1>1, <1>2, <1>3 DEF TypeOK, ServedStates
<1>9. TypeOK'
  BY <1>1, <1>2, <1>8 DEF TypeOK
<1> QED
  BY <1>4, <1>5, <1>6, <1>7, <1>9 DEF Inductive, Books, Index

LEMMA StepServerCache ==
  ASSUME Inductive, NEW r \in Requests, ServerCache(r)
  PROVE  Inductive'
<1>1. TypeOK /\ TaskInv /\ Books /\ WireInv /\ GapsTell /\ Index
  BY DEF Inductive, Books, Index
<1>0. PICK n \in (prefix[r] + 1)..Len(FullBlocks[r]) :
        LET i == chosen[r]
            new == SubSeq(FullBlocks[r], prefix[r] + 1, n)
        IN /\ copies' = [copies EXCEPT ![i] = [b \in BlockIds |->
                           IF \E k \in DOMAIN new : new[k] = b THEN @[b] + 1 ELSE @[b]]]
           /\ prefix' = [prefix EXCEPT ![r] = n]
           /\ Publish(i, "BlockStored", new)
  BY DEF ServerCache
<1> DEFINE i == chosen[r]
           new == SubSeq(FullBlocks[r], prefix[r] + 1, n)
           on(b) == \E k \in DOMAIN new : new[k] = b
<1>2. /\ served[r] = "admitted" /\ prefix' = [prefix EXCEPT ![r] = n]
      /\ copies' = [copies EXCEPT ![i] = [b \in BlockIds |-> IF on(b) THEN @[b] + 1 ELSE @[b]]]
      /\ Publish(i, "BlockStored", new)
      /\ UNCHANGED <<policy, indexMode, left, bs, queued, resident, engineHash, lastSeq, seqGaps,
                     subscribed, task, chosen, newTokens, pending, turn, stop, evictions, served>>
  BY <1>0 DEF ServerCache, view, tasks
<1>3. task[r] # "sleeping" /\ i \in Views /\ prefix[r] \in 0..Len(FullBlocks[r])
  <2>1. task[r] # "sleeping" /\ i \in Views
    BY <1>1, <1>2 DEF TaskInv
  <2>2. prefix[r] \in Nat /\ prefix[r] <= Len(FullBlocks[r]) /\ Len(FullBlocks[r]) \in Nat
    BY <1>1, LeadingFacts DEF TaskInv, TypeOK
  <2> DEFINE l == Len(FullBlocks[r])
  <2> HIDE DEF l
  <2>3. prefix[r] \in Nat /\ prefix[r] <= l /\ l \in Nat
    BY <2>2 DEF l
  <2>4. prefix[r] \in 0..l
    BY <2>3
  <2> QED
    BY <2>1, <2>4 DEF l
<1>4. new \in Seq(BlockIds) /\ \A b : on(b) => b \in PromptBlocks(r)
  <2>1. FullBlocks[r] \in Seq(BlockIds) /\ prefix[r] + 1 \in Nat /\ prefix[r] + 1 >= 1
    BY <1>3, WorkloadAssumption
  <2> DEFINE F == FullBlocks[r]
             m == prefix[r] + 1
  <2> HIDE DEF F, m
  <2>2. /\ F \in Seq(BlockIds) /\ m \in Nat /\ m >= 1 /\ n \in m..Len(F) /\ new = SubSeq(F, m, n)
        /\ Len(F) \in Nat
    BY <2>1, ListFacts DEF F, m
  <2> HIDE DEF new
  <2>3. /\ new \in Seq(BlockIds) /\ DOMAIN new = 1..(n - m + 1)
        /\ \A k \in DOMAIN new : m + k - 1 \in DOMAIN F /\ new[k] = F[m + k - 1]
    BY <2>2
  <2> QED
    BY <2>3 DEF F, PromptBlocks
<1>5. /\ copies \in [Views -> [BlockIds -> Nat]] /\ resident \in [Views -> [BlockIds -> Nat]]
      /\ prefix \in [Requests -> Nat] /\ left \in [Views -> [BlockIds -> Nat]]
  BY <1>1 DEF TypeOK
<1> DEFINE blocks == new
<1>6. new = blocks
  OBVIOUS
<1> HIDE DEF i, blocks, new, on
<1>7. /\ copies' \in [Views -> [BlockIds -> Nat]]
      /\ \A j \in Views, b \in BlockIds :
           copies'[j][b] = IF j = i /\ on(b) THEN copies[j][b] + 1 ELSE copies[j][b]
  BY <1>2, <1>3, <1>5
<1>8. Books'
  BY <1>1, <1>2, BooksFrame DEF tasks
<1>9. /\ prefix' \in [Requests -> Nat] /\ prefix'[r] <= Len(FullBlocks[r])
      /\ \A q \in Requests : q # r => prefix'[q] = prefix[q]
  <2> DEFINE l == Len(FullBlocks[r])
  <2>1. l \in Nat
    BY LeadingFacts
  <2> HIDE DEF l
  <2>2. prefix[r] \in Nat /\ n \in (prefix[r] + 1)..l
    BY <1>5 DEF l
  <2>3. n \in Nat /\ n <= l
    BY <2>1, <2>2
  <2> QED
    BY <1>2, <1>5, <2>3 DEF l
<1>10. TaskInv'
  BY <1>1, <1>2, <1>9 DEF TaskInv
<1>11. "BlockStored" \in EventTypes
  BY DEF EventTypes
<1>12. WireInv' /\ GapsTell'
  BY <1>1, <1>2, <1>3, <1>4, <1>11, WirePublish
<1>13. WireTypes'
  BY <1>1, <1>2, <1>3, <1>4, <1>11, PublishTypes
<1>14. TypeOK'
  BY <1>1, <1>2, <1>7, <1>9, <1>13 DEF TypeOK, WireTypes
<1>15. \A j \in Views, b \in BlockIds :
         LET hit == j = i /\ \E k \in DOMAIN new : new[k] = b
         IN copies'[j][b] = IF ~hit THEN copies[j][b]
                            ELSE IF "BlockStored" = "BlockStored" THEN copies[j][b] + 1
                            ELSE copies[j][b] - 1
  BY <1>7 DEF on
<1>16. indexMode = "dispatch" =>
         \A j \in Views, b \in BlockIds : copies'[j][b] > left[j][b] => resident[j][b] > 0
  <2> SUFFICES ASSUME indexMode = "dispatch", NEW j \in Views, NEW b \in BlockIds,
                      copies'[j][b] > left[j][b]
               PROVE  resident[j][b] > 0
    OBVIOUS
  <2>1. CASE j = i /\ on(b)
    BY <1>1, <1>3, <1>4, <2>1 DEF Index, IndexInv, i
  <2>2. CASE ~(j = i /\ on(b))
    <3>1. copies[j][b] > left[j][b]
      BY <1>7, <2>2
    <3> QED
      BY <1>1, <3>1 DEF Index, IndexCovers
  <2> QED
    BY <2>1, <2>2
<1>17. Index'
  BY <1>1, <1>2, <1>3, <1>4, <1>7, <1>15, <1>16, IndexServer
<1> QED
  BY <1>8, <1>10, <1>12, <1>14, <1>17 DEF Inductive, Books, Index

LEMMA StepServerCompute ==
  ASSUME Inductive, NEW r \in Requests, ServerCompute(r)
  PROVE  Inductive'
<1>1. TypeOK /\ TaskInv /\ Books /\ WireInv /\ GapsTell /\ Index
  BY DEF Inductive, Books, Index
<1>2. /\ served[r] = "admitted" /\ served' = [served EXCEPT ![r] = "computed"]
      /\ UNCHANGED <<policy, indexMode, left, bs, queued, resident, engineHash, lastSeq, seqGaps,
                     subscribed, task, chosen, newTokens, pending, turn, stop, copies, evictions,
                     prefix, channel, published, lost>>
  BY DEF ServerCompute, view, tasks, cache, wire
<1>3. served \in [Requests -> ServedStates]
  BY <1>1 DEF TypeOK
<1>4. Books'
  BY <1>1, <1>2, BooksFrame DEF tasks
<1>5. WireInv' /\ GapsTell'
  BY <1>1, <1>2, WireFrame DEF wire
<1>6. Index'
  BY <1>1, <1>2, IndexFrame
<1>7. TaskInv'
  BY <1>1, <1>2, <1>3 DEF TaskInv
<1>8. TypeOK'
  BY <1>1, <1>2, <1>3 DEF TypeOK, ServedStates
<1> QED
  BY <1>4, <1>5, <1>6, <1>7, <1>8 DEF Inductive, Books, Index

LEMMA StepServerEvict ==
  ASSUME Inductive, NEW i \in Views, NEW e \in BlockIds, ServerEvict(i, e)
  PROVE  Inductive'
<1>1. TypeOK /\ TaskInv /\ Books /\ WireInv /\ GapsTell /\ Index
  BY DEF Inductive, Books, Index
<1> DEFINE blocks == <<e>>
<1>2. /\ copies[i][e] > 0 /\ evictions < MaxEvict
      /\ copies' = [copies EXCEPT ![i][e] = @ - 1] /\ evictions' = evictions + 1
      /\ Publish(i, "BlockRemoved", blocks)
      /\ UNCHANGED <<policy, indexMode, left, bs, queued, resident, engineHash, lastSeq, seqGaps,
                     subscribed, task, chosen, newTokens, pending, turn, stop, served, prefix>>
  <2>1. copies[i][e] \in Nat
    BY <1>1 DEF TypeOK
  <2> QED
    BY <2>1 DEF ServerEvict, view, tasks
<1>3. blocks \in Seq(BlockIds) /\ \A b : (\E k \in DOMAIN blocks : blocks[k] = b) <=> b = e
  <2>1. blocks \in Seq(BlockIds) /\ DOMAIN blocks = {1} /\ blocks[1] = e
    OBVIOUS
  <2> HIDE DEF blocks
  <2> QED
    BY <2>1
<1> HIDE DEF blocks
<1>4. copies \in [Views -> [BlockIds -> Nat]] /\ evictions \in 0..MaxEvict /\ MaxEvict \in Nat
  BY <1>1, WorkloadAssumption DEF TypeOK
<1>5. /\ copies' \in [Views -> [BlockIds -> Nat]]
      /\ \A j \in Views, b \in BlockIds :
           copies'[j][b] = IF j = i /\ b = e THEN copies[j][b] - 1 ELSE copies[j][b]
  BY <1>2, <1>4
<1>6. Books'
  BY <1>1, <1>2, BooksFrame DEF tasks
<1>7. TaskInv'
  BY <1>1, <1>2 DEF TaskInv
<1>8. "BlockRemoved" \in EventTypes /\ "BlockRemoved" # "BlockStored"
  BY DEF EventTypes
<1>9. WireInv' /\ GapsTell'
  BY <1>1, <1>2, <1>3, <1>8, WirePublish
<1>10. WireTypes'
  BY <1>1, <1>2, <1>3, <1>8, PublishTypes
<1>11. evictions' \in 0..MaxEvict
  BY <1>2, <1>4
<1>12. TypeOK'
  BY <1>1, <1>2, <1>5, <1>10, <1>11 DEF TypeOK, WireTypes
<1>13. \A j \in Views, b \in BlockIds :
         LET hit == j = i /\ \E k \in DOMAIN blocks : blocks[k] = b
         IN copies'[j][b] = IF ~hit THEN copies[j][b]
                            ELSE IF "BlockRemoved" = "BlockStored" THEN copies[j][b] + 1
                            ELSE copies[j][b] - 1
  BY <1>3, <1>5, <1>8
<1>14. indexMode = "dispatch" =>
         \A j \in Views, b \in BlockIds : copies'[j][b] > left[j][b] => resident[j][b] > 0
  <2> SUFFICES ASSUME indexMode = "dispatch", NEW j \in Views, NEW b \in BlockIds, copies'[j][b] > left[j][b]
               PROVE  resident[j][b] > 0
    OBVIOUS
  <2>1. copies[j][b] \in Nat /\ left[j][b] \in Nat
    BY <1>1, <1>4 DEF TypeOK
  <2>2. copies[j][b] > left[j][b]
    BY <1>5, <2>1
  <2> QED
    BY <1>1, <2>2 DEF Index, IndexCovers
<1>15. Index'
  BY <1>1, <1>2, <1>3, <1>5, <1>13, <1>14, IndexServer
<1> QED
  BY <1>6, <1>7, <1>9, <1>12, <1>15 DEF Inductive, Books, Index

LEMMA StepInductive ==
  Inductive /\ [Next]_vars => Inductive'
<1> SUFFICES ASSUME Inductive, [Next]_vars PROVE Inductive'
  OBVIOUS
<1>1. CASE Client
  BY <1>1, StepDispatch, StepFirstToken, StepEnd, StepAllReturned, StepReceive, StepUnsubscribe
     DEF Client
<1>2. CASE Servers
  BY <1>2, StepServerAdmit, StepServerCache, StepServerCompute, StepServerEvict DEF Servers
<1>3. CASE UNCHANGED vars
  <2>1. TypeOK /\ TaskInv /\ Books /\ WireInv /\ GapsTell /\ Index
    BY DEF Inductive, Books, Index
  <2>2. UNCHANGED <<policy, indexMode, left, bs, queued, resident, engineHash, lastSeq, seqGaps,
                    subscribed, task, chosen, newTokens, pending, turn, stop, copies, evictions,
                    served, prefix, channel, published, lost>>
    BY <1>3 DEF vars, view, tasks, cache, wire
  <2>3. Books'
    BY <2>1, <2>2, BooksFrame DEF tasks
  <2>4. WireInv' /\ GapsTell'
    BY <2>1, <2>2, WireFrame DEF wire
  <2>5. Index'
    BY <2>1, <2>2, IndexFrame
  <2>6. TaskInv'
    BY <2>1, <2>2 DEF TaskInv
  <2>7. TypeOK'
    BY <2>1, <2>2 DEF TypeOK
  <2> QED
    BY <2>3, <2>4, <2>5, <2>6, <2>7 DEF Inductive, Books, Index
<1> QED
  BY <1>1, <1>2, <1>3 DEF Next, Finished

(* The state of the router, of its messages and of the servers' caches      *)
(* always satisfies the inductive invariant.                                *)
THEOREM RouterInvariant == Spec => []Inductive
<1>1. Init => Inductive
  BY InitInductive
<1>2. Inductive /\ [Next]_vars => Inductive'
  BY StepInductive
<1> QED
  BY <1>1, <1>2, PTL DEF Spec

(* bs and queued are, at every moment and however the streams end, the      *)
(* requests open at the instance and the prefill tokens they still owe:     *)
(* the counters that first_token and the finally of send() update.          *)
THEOREM BooksAlwaysBalance == Spec => []BooksBalance
<1>1. Inductive => BooksBalance
  BY DEF Inductive
<1> QED
  BY <1>1, RouterInvariant, PTL

(* A view's seq_gaps is above zero exactly when a message was lost between  *)
(* two that it received.                                                    *)
THEOREM GapsAlwaysTell == Spec => []GapsTell
<1>1. Inductive => GapsTell
  BY DEF Inductive
<1> QED
  BY <1>1, RouterInvariant, PTL

(* The index, with what is on its way and if nothing was lost, counts every *)
(* copy of a block that the engine has, less as many as it had before the   *)
(* run; in dispatch mode it has every block with a copy beyond those: what  *)
(* apply() and the assumption of send() keep up with.                       *)
THEOREM IndexAlwaysCovers == Spec => []IndexCovers
<1>1. Inductive => IndexCovers
  BY DEF Inductive
<1> QED
  BY <1>1, RouterInvariant, PTL

(* More tokens to compute is fewer blocks hit. *)
LEMMA FewerHits ==
  ASSUME NEW r \in Requests, NEW i, NEW j, Uncached(i, r) < Uncached(j, r)
  PROVE  HitBlocks(j, r) < HitBlocks(i, r)
<1> DEFINE g == HitBlocks(i, r)
           h == HitBlocks(j, r)
           m == InputLen[r]
<1>1. g \in Nat /\ h \in Nat
  BY LeadingFacts DEF HitBlocks
<1>2. m \in Nat /\ Block \in Nat \ {0}
  BY WorkloadAssumption
<1>3. m - g * Block < m - h * Block
  BY DEF Uncached
<1> HIDE DEF g, h, m
<1>4. CASE g <= h
  <2>1. h - g \in Nat /\ h = g + (h - g)
    BY <1>1, <1>4
  <2>2. PICK d \in Nat : h = g + d
    BY <2>1
  <2>3. h * Block = g * Block + d * Block /\ d * Block \in Nat /\ g * Block \in Nat
    BY <1>1, <1>2, <2>2
  <2> QED
    BY <1>2, <1>3, <2>3
<1>5. CASE h < g
  BY <1>5 DEF g, h
<1> QED
  BY <1>1, <1>4, <1>5

(* load and lmetric send nothing to a busy instance while one that holds as *)
(* much of the prompt is idle: the minimum of choose() over the counters    *)
(* bs and queued, which an idle instance has at zero.                       *)
THEOREM IdleGoesFirst == Spec => IdleFirst
<1> DEFINE Step ==
      \A r \in Requests : task[r] = "sleeping" /\ task'[r] = "open" /\ policy # "affinity" =>
        LET i == chosen'[r]
        IN \/ Idle(i)
           \/ policy = "lmetric" /\ Uncached(i, r) = 0
           \/ \A j \in Views : Idle(j) => policy = "lmetric" /\ HitBlocks(j, r) < HitBlocks(i, r)
<1>1. Inductive /\ [Next]_vars => [Step]_vars
  <2> SUFFICES ASSUME Inductive, Next,
                      NEW r \in Requests, task[r] = "sleeping", task'[r] = "open", policy # "affinity",
                      ~Idle(chosen'[r]), ~(policy = "lmetric" /\ Uncached(chosen'[r], r) = 0),
                      NEW j \in Views, Idle(j)
               PROVE  policy = "lmetric" /\ HitBlocks(j, r) < HitBlocks(chosen'[r], r)
    OBVIOUS
  <2>1. TypeOK /\ BooksBalance
    BY DEF Inductive
  <2>2. /\ task \in [Requests -> TaskStates] /\ chosen \in [Requests -> Views \cup {None}]
        /\ policy \in Policies
    BY <2>1 DEF TypeOK
  <2>3. Dispatch(r)
    <3>1. ASSUME NEW q \in Requests, Dispatch(q) PROVE q = r
      <4>1. task' = [task EXCEPT ![q] = "open"]
        BY <3>1 DEF Dispatch
      <4> QED
        BY <2>2, <4>1
    <3>2. ASSUME NEW q \in Requests, End(q) PROVE FALSE
      <4>1. task' = [task EXCEPT ![q] = "ended"]
        BY <3>2 DEF End
      <4> QED
        BY <2>2, <4>1
    <3>3. task' # task
      OBVIOUS
    <3>4. ASSUME NEW q \in Requests, FirstToken(q) PROVE FALSE
      BY <3>3, <3>4 DEF FirstToken
    <3>5. ~AllReturned
      BY <3>3 DEF AllReturned, tasks
    <3>6. ASSUME NEW k \in Views, Receive(k) \/ Unsubscribe(k) PROVE FALSE
      BY <3>3, <3>6 DEF Receive, Unsubscribe, tasks
    <3>7. ASSUME NEW q \in Requests, ServerAdmit(q) \/ ServerCache(q) \/ ServerCompute(q) PROVE FALSE
      BY <3>3, <3>7 DEF ServerAdmit, ServerCache, ServerCompute, tasks
    <3>8. ASSUME NEW k \in Views, NEW b \in BlockIds, ServerEvict(k, b) PROVE FALSE
      BY <3>3, <3>8 DEF ServerEvict, tasks
    <3>9. ~Finished
      BY <3>3 DEF Finished, vars, tasks
    <3> QED
      BY <3>1, <3>2, <3>4, <3>5, <3>6, <3>7, <3>8, <3>9 DEF Next, Client, Servers
  <2> DEFINE i == Choose(r)
  <2>4. chosen'[r] = i
    BY <2>2, <2>3 DEF Dispatch
  <2>5. i \in Views /\ i \in Tied(r)
    BY <2>1, ChooseType
  <2> HIDE DEF i
  <2>6. Prefer(i, j, r)
    BY <2>5 DEF Tied
  <2>7. bs[j] = 0 /\ bs[i] \in Nat /\ bs[i] # 0 /\ queued[i] \in Nat
    BY <2>1, <2>4, <2>5 DEF Idle, TypeOK
  <2>8. policy = "lmetric"
    <3>1. ASSUME policy = "load" PROVE FALSE
      <4>1. bs[i] < bs[j] \/ (bs[i] = bs[j] /\ queued[i] <= queued[j])
        BY <2>6, <3>1 DEF Prefer
      <4> QED
        BY <2>7, <4>1
    <3> QED
      BY <2>2, <3>1 DEF Policies
  <2>9. queued[j] = 0
    <3>1. IsFiniteSet(At(j)) /\ Cardinality(At(j)) = 0
      BY <2>1, <2>7, AtFinite DEF BooksBalance
    <3>2. At(j) = {}
      BY <3>1, FS_EmptySet
    <3>3. Owed(j) = {}
      BY <3>2 DEF Owed
    <3> QED
      BY <2>1, <3>3, FS_EmptySet DEF BooksBalance
  <2> DEFINE u == Uncached(i, r)
             w == Uncached(j, r)
             q == queued[i]
             k == bs[i]
  <2>10. (q + u) * (k + 1) <= (queued[j] + w) * (bs[j] + 1)
    BY <2>6, <2>8 DEF Prefer
  <2>11. u \in Nat /\ w \in Nat /\ q \in Nat /\ k \in Nat /\ k >= 1 /\ u # 0
    BY <2>4, <2>7, <2>8, UncachedType
  <2> HIDE DEF u, w, q, k
  <2>12. (q + u) * (k + 1) <= w
    BY <2>7, <2>9, <2>10, <2>11
  <2>13. q + u \in Nat /\ (q + u) * (k + 1) >= (q + u) + (q + u) /\ (q + u) * (k + 1) \in Nat
    BY <2>11, TimesAbove
  <2>14. u < w
    BY <2>11, <2>12, <2>13
  <2>15. HitBlocks(j, r) < HitBlocks(i, r)
    BY <2>14, FewerHits DEF u, w
  <2> QED
    BY <2>4, <2>8, <2>15
<1>2. Spec => [][Step]_vars
  BY <1>1, RouterInvariant, PTL DEF Spec
<1> QED
  BY <1>2 DEF IdleFirst
=============================================================================
