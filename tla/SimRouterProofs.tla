--------------------------- MODULE SimRouterProofs ---------------------------
(***************************************************************************)
(* Proofs about SimRouter, for any trace, any number of instances and any   *)
(* size of the indexes and of the detector's window.                        *)
(*                                                                         *)
(* Inductive is kept by every action, part by part.  The books are counted  *)
(* unit by unit (Units): a request adds its units when it is routed and     *)
(* takes the same ones away when it leaves prefill.  The pending counts are *)
(* those of its sharers.  The lists stay in the order of the last touch     *)
(* because a touch is later than all before it (LruInv), and a bounded list *)
(* is as long as it can be.  The detector's deque is the end of the trace   *)
(* (WindowInv), so its counts are those of the window; the streak is the    *)
(* run of counting verdicts a class ends with (StreakInv), so the verdict   *)
(* that makes it 2|M| is the first of which FilteringMeans speaks.          *)
(***************************************************************************)
EXTENDS SimRouter, SublistProofs, FunctionTheorems

-----------------------------------------------------------------------------
(* The trace, and what an index says of a prompt *)

LEMMA TraceFacts ==
  /\ Len(Trace) \in Nat /\ DOMAIN Trace = 1..Len(Trace)
  /\ \A n \in 1..Len(Trace) : Trace[n] \in Requests
  /\ \A r \in Requests : \E n \in 1..Len(Trace) : Trace[n] = r
  /\ \A m, n \in 1..Len(Trace) : Trace[m] = Trace[n] => m = n
  /\ IsFiniteSet(Requests)
<1>1. Trace \in Seq(Requests)
  BY TraceAssumption
<1>2. Len(Trace) \in Nat /\ DOMAIN Trace = 1..Len(Trace)
  BY <1>1, ListFacts
<1>3. \A n \in 1..Len(Trace) : Trace[n] \in Requests
  BY <1>2 DEF Requests
<1>4. \A r \in Requests : \E n \in 1..Len(Trace) : Trace[n] = r
  BY <1>2 DEF Requests
<1>5. ASSUME NEW m \in 1..Len(Trace), NEW n \in 1..Len(Trace), Trace[m] = Trace[n]
      PROVE  m = n
  <2>1. \A j, k \in 1..Len(Trace) : j < k => Trace[j] # Trace[k]
    BY <1>2, TraceAssumption
  <2>2. ~(m < n) /\ ~(n < m)
    BY <1>5, <2>1
  <2> QED
    BY <1>2, <2>2
<1>6. IsFiniteSet(Requests)
  <2> DEFINE f == [n \in 1..Len(Trace) |-> Trace[n]]
  <2>1. IsFiniteSet(1..Len(Trace))
    BY <1>2, FS_Interval
  <2>2. f \in Surjection(1..Len(Trace), Requests)
    BY <1>3, <1>4, Fun_IsSurj
  <2> HIDE DEF f
  <2> QED
    BY <2>1, <2>2, FS_Surjection
<1> QED
  BY <1>2, <1>3, <1>4, <1>5, <1>6

LEMMA InstanceFacts ==
  /\ NumInstances \in Nat \ {0} /\ IsFiniteSet(Instances) /\ Instances # {}
  /\ Cardinality(Instances) = NumInstances
  /\ \A i \in Instances : i \in Nat
<1>1. NumInstances \in Nat \ {0}
  BY TraceAssumption
<1>2. NumInstances - 1 \in Int /\ 0 \in 0..(NumInstances - 1)
  BY <1>1
<1>3. IsFiniteSet(0..(NumInstances - 1)) /\ Cardinality(0..(NumInstances - 1)) = NumInstances
  BY <1>1, FS_Interval
<1>4. \A i \in 0..(NumInstances - 1) : i \in Nat
  BY <1>1
<1> QED
  BY <1>1, <1>2, <1>3, <1>4 DEF Instances

LEMMA KeyFacts ==
  ASSUME NEW r \in Requests
  PROVE  /\ FullKeys[r] \in Seq(Keys) /\ IsInjectiveSeq(FullKeys[r])
         /\ Len(FullKeys[r]) \in Nat /\ DOMAIN FullKeys[r] = 1..Len(FullKeys[r])
         /\ \A n \in 1..Len(FullKeys[r]) : FullKeys[r][n] \in KeysOf(r)
         /\ \A k \in KeysOf(r) : \E n \in 1..Len(FullKeys[r]) : FullKeys[r][n] = k
         /\ KeysOf(r) = Elements(FullKeys[r]) /\ KeysOf(r) \in SUBSET Keys
<1>1. FullKeys[r] \in Seq(Keys) /\ IsInjectiveSeq(FullKeys[r])
  BY TraceAssumption
<1>2. Len(FullKeys[r]) \in Nat /\ DOMAIN FullKeys[r] = 1..Len(FullKeys[r])
  BY <1>1, ListFacts
<1>3. KeysOf(r) = Elements(FullKeys[r]) /\ KeysOf(r) \in SUBSET Keys
  BY DEF KeysOf, Elements, Keys
<1> QED
  BY <1>1, <1>2, <1>3 DEF KeysOf

LEMMA HitsFacts ==
  ASSUME NEW i, NEW r \in Requests
  PROVE  /\ Hits(i, r) \in Nat /\ Hits(i, r) <= Len(FullKeys[r])
         /\ Hits(i, r) <= InputLen[r] \div Block
<1>1. FullKeys[r] \in Seq(Keys) /\ Len(FullKeys[r]) \in Nat
  BY KeyFacts
<1>2. \E h \in 0..Len(FullKeys[r]) :
        /\ \A k \in 1..h : FullKeys[r][k] \in Believed(i)
        /\ h = Len(FullKeys[r]) \/ FullKeys[r][h + 1] \notin Believed(i)
  BY <1>1, LongestPrefix
<1>3. Hits(i, r) \in 0..Len(FullKeys[r])
  BY <1>2 DEF Hits
<1>4. Len(FullKeys[r]) = InputLen[r] \div Block
  BY TraceAssumption
<1> QED
  BY <1>1, <1>3, <1>4

-----------------------------------------------------------------------------
(* Costs and scores *)

LEMMA NewTokens ==
  ASSUME NEW r \in Requests, NEW x \in Nat, x <= InputLen[r] \div Block
  PROVE  /\ InputLen[r] \in Nat /\ x * Block \in Nat /\ x * Block <= InputLen[r]
         /\ InputLen[r] - x * Block \in Nat
<1> DEFINE m == InputLen[r]
           y == x * Block
<1>1. m \in Nat /\ Block \in Nat \ {0}
  BY TraceAssumption, SizeAssumption
<1>2. y \in Nat /\ y <= m
  BY <1>1, TimesBelow
<1> HIDE DEF m, y
<1>3. m - y \in Nat
  BY <1>1, <1>2
<1> QED
  BY <1>1, <1>2, <1>3 DEF m, y

LEMMA CostType ==
  ASSUME NEW length \in Nat, NEW hit \in Nat, hit <= length
  PROVE  PrefillCost(length, hit) \in Nat
<1> DEFINE n == length - hit
           a == PrefillPair * n * (2 * length - n)
<1>1. n \in Nat /\ 2 * length - n = length + hit /\ length + hit \in Nat
  OBVIOUS
<1>2. PerToken \in Nat /\ PrefillPair \in Nat
  BY SizeAssumption
<1>3. PrefillCost(length, hit) = PerToken * n + a \div 2
  BY DEF PrefillCost
<1>4. a \in Nat
  <2> DEFINE d == 2 * length - n
  <2>1. d \in Nat
    BY <1>1
  <2> HIDE DEF n, d
  <2>2. PrefillPair * n * d \in Nat
    BY <1>1, <1>2, <2>1
  <2> QED
    BY <2>2 DEF d
<1> HIDE DEF n, a
<1>5. a \div 2 \in Nat
  BY <1>4
<1>6. PerToken * n \in Nat
  BY <1>1, <1>2
<1> QED
  BY <1>3, <1>5, <1>6

(* What is known of the hits of r at the instances. *)
HitsOf(h, r) == h \in [Instances -> Nat] /\ \A i \in Instances : h[i] <= InputLen[r] \div Block

LEMMA HitsAre ==
  ASSUME NEW r \in Requests
  PROVE  HitsOf([i \in Instances |-> Hits(i, r)], r)
  BY HitsFacts DEF HitsOf

LEMMA ScoreType ==
  ASSUME TypeOK, NEW r \in Requests, NEW h, HitsOf(h, r), NEW i \in Instances
  PROVE  /\ LMetric(i, h, r) \in Nat /\ Load(i, h, r) \in Nat
         /\ \E x, y \in Nat : Score(i, h, r) \in {<<x, y>>, <<-h[i], y>>}
<1>1. /\ bs[i] \in Nat /\ queued[i] \in Nat /\ qcost[i] \in Nat /\ policy \in Policies
      /\ lru[i] \in Seq(Keys)
  BY DEF TypeOK
<1>2. h[i] \in Nat /\ h[i] <= InputLen[r] \div Block
  BY DEF HitsOf
<1> DEFINE y == h[i] * Block
           m == InputLen[r]
<1>3. m \in Nat /\ y \in Nat /\ y <= m
  BY <1>2, NewTokens
<1>4. LMetric(i, h, r) \in Nat
  <2>1. LMetric(i, h, r) = (queued[i] + m - y) * (bs[i] + 1)
    BY DEF LMetric
  <2> HIDE DEF m, y
  <2>2. queued[i] + m - y \in Nat
    BY <1>1, <1>3
  <2> QED
    BY <1>1, <2>1, <2>2
<1>5. Load(i, h, r) \in Nat
  <2>1. Load(i, h, r) = qcost[i] + PrefillCost(m, y)
    BY DEF Load
  <2> HIDE DEF m, y
  <2>2. PrefillCost(m, y) \in Nat
    BY <1>3, CostType
  <2> QED
    BY <1>1, <2>1, <2>2
<1>6. Load(i, h, r) * (bs[i] + 1) \in Nat
  <2> DEFINE l == Load(i, h, r)
  <2>1. l \in Nat
    BY <1>5
  <2> HIDE DEF l
  <2>2. l * (bs[i] + 1) \in Nat
    BY <1>1, <2>1
  <2> QED
    BY <2>2 DEF l
<1>7. Len(lru[i]) \in Nat
  BY <1>1, ListFacts
<1>8. \E x, z \in Nat : Score(i, h, r) \in {<<x, z>>, <<-h[i], z>>}
  <2>1. CASE policy = "load"
    <3>1. Score(i, h, r) = <<bs[i], queued[i]>>
      BY <2>1 DEF Score
    <3> QED
      BY <1>1, <3>1
  <2>2. CASE policy \in {"lmetric", "lmetric_detector", "pin"}
    <3>1. Score(i, h, r) = <<LMetric(i, h, r), 0>>
      BY <2>2 DEF Score
    <3> QED
      BY <1>4, <3>1
  <2>3. CASE policy = "affinity"
    <3>1. Score(i, h, r) = <<-h[i], bs[i]>>
      BY <2>3 DEF Score
    <3> QED
      BY <1>1, <3>1
  <2>4. CASE policy = "sglang_ca"
    <3>1. Score(i, h, r) = IF Unbalanced THEN <<bs[i], 0>>
                           ELSE IF GoodRate(h, r) THEN <<-h[i], bs[i]>>
                           ELSE <<Len(lru[i]), bs[i]>>
      BY <2>4 DEF Score
    <3> QED
      BY <1>1, <1>7, <3>1
  <2>5. CASE policy = "smetric"
    <3>1. Score(i, h, r) = <<Load(i, h, r) * (bs[i] + 1), 0>>
      BY <2>5 DEF Score
    <3> QED
      BY <1>6, <3>1
  <2> QED
    BY <1>1, <2>1, <2>2, <2>3, <2>4, <2>5 DEF Policies
<1> QED
  BY <1>4, <1>5, <1>8

(* Pairs over W of an integer from -N on and a natural number: of those over *)
(* a nonempty set, one comes before every other.                            *)
PairsOver(W, f, g, N) == \A i \in W : f[i] \in Int /\ f[i] + N \in Nat /\ g[i] \in Nat

LEMMA LeastPair ==
  ASSUME NEW N \in Nat, NEW f, NEW g, NEW W, W # {}, PairsOver(W, f, g, N)
  PROVE  \E k \in W : \A j \in W : f[k] < f[j] \/ (f[k] = f[j] /\ g[k] <= g[j])
<1> DEFINE e == [i \in W |-> f[i] + N]
<1>0. \A i \in W : f[i] \in Int /\ f[i] + N \in Nat /\ g[i] \in Nat
  BY DEF PairsOver
<1>1. PICK i \in W : \A j \in W : f[i] <= f[j]
  <2>1. \A i \in W : e[i] \in Nat
    BY <1>0
  <2>2. \A i \in W : e[i] = f[i] + N
    OBVIOUS
  <2> HIDE DEF e
  <2>3. PICK i \in W : \A j \in W : e[i] <= e[j]
    BY <2>1, LeastOver
  <2>4. \A j \in W : f[i] <= f[j]
    BY <1>0, <2>2, <2>3
  <2> QED
    BY <2>4
<1> DEFINE V == {j \in W : f[j] = f[i]}
<1>2. PICK k \in V : \A j \in V : g[k] <= g[j]
  <2>1. V # {} /\ \A j \in V : g[j] \in Nat
    BY <1>0
  <2> HIDE DEF V
  <2> QED
    BY <2>1, LeastOver
<1>3. ASSUME NEW j \in W PROVE f[k] < f[j] \/ (f[k] = f[j] /\ g[k] <= g[j])
  <2>1. CASE f[j] = f[i]
    BY <1>2, <2>1
  <2>2. CASE f[j] # f[i]
    BY <1>0, <1>1, <1>2, <2>2
  <2> QED
    BY <2>1, <2>2
<1> QED
  BY <1>2, <1>3

LEMMA SomeBest ==
  ASSUME TypeOK, NEW r \in Requests, NEW h, HitsOf(h, r), NEW C \in SUBSET Instances, C # {}
  PROVE  Best(h, r, C) # {}
<1> DEFINE N == InputLen[r] \div Block
           f == [i \in C |-> Score(i, h, r)[1]]
           g == [i \in C |-> Score(i, h, r)[2]]
<1>1. N \in Nat
  <2>1. InputLen[r] \in Nat /\ Block \in Nat \ {0}
    BY TraceAssumption, SizeAssumption
  <2> QED
    BY <2>1
<1>2. ASSUME NEW i \in C PROVE f[i] \in Int /\ f[i] + N \in Nat /\ g[i] \in Nat
  <2>1. PICK x \in Nat, y \in Nat : Score(i, h, r) \in {<<x, y>>, <<-h[i], y>>}
    BY ScoreType
  <2>2. h[i] \in Nat /\ h[i] <= N
    BY DEF HitsOf
  <2>3. f[i] = Score(i, h, r)[1] /\ g[i] = Score(i, h, r)[2]
    OBVIOUS
  <2> HIDE DEF f, g, N
  <2>4. CASE Score(i, h, r) = <<x, y>>
    BY <1>1, <2>3, <2>4
  <2>5. CASE Score(i, h, r) = <<-h[i], y>>
    <3>1. f[i] = -h[i] /\ g[i] = y
      BY <2>3, <2>5
    <3> QED
      BY <1>1, <2>2, <3>1
  <2> QED
    BY <2>1, <2>4, <2>5
<1>3. \A i \in C : f[i] = Score(i, h, r)[1] /\ g[i] = Score(i, h, r)[2]
  OBVIOUS
<1> HIDE DEF f, g, N
<1>4. PICK k \in C : \A j \in C : f[k] < f[j] \/ (f[k] = f[j] /\ g[k] <= g[j])
  <2>1. PairsOver(C, f, g, N)
    BY <1>2 DEF PairsOver
  <2> QED
    BY <1>1, <2>1, LeastPair
<1>5. \A j \in C : NoWorse(Score(k, h, r), Score(j, h, r))
  BY <1>3, <1>4 DEF NoWorse
<1> QED
  BY <1>5 DEF Best

LEMMA TakeTurnIn ==
  ASSUME TypeOK, NEW tied \in SUBSET Instances, tied # {}
  PROVE  TakeTurn(tied) \in tied
<1> DEFINE n == Cardinality(tied)
           k == (turn + TieOffset) % n
<1>1. tied \in SUBSET (0..(NumInstances - 1)) /\ NumInstances \in Nat /\ turn + TieOffset \in Nat
  BY TraceFacts, TraceAssumption, SizeAssumption DEF Instances, TypeOK
<1>2. n \in Nat /\ n # 0
  <2>1. IsFiniteSet(tied)
    BY InstanceFacts, FS_Subset
  <2> QED
    BY <2>1, FS_CardinalityType, FS_EmptySet
<1>3. k \in Nat /\ k < n
  <2> DEFINE t == turn + TieOffset
  <2>1. t \in Nat
    BY <1>1
  <2> HIDE DEF n, t
  <2>2. t % n \in Nat /\ t % n < n
    BY <1>2, <2>1
  <2> QED
    BY <2>2 DEF t
<1> HIDE DEF k
<1>4. \E i \in tied : Cardinality({j \in tied : j < i}) = k
  BY <1>1, <1>3, KthMember DEF n
<1>5. TakeTurn(tied) = CHOOSE i \in tied : Cardinality({j \in tied : j < i}) = k
  BY DEF TakeTurn, k, n
<1> QED
  BY <1>4, <1>5

LEMMA LongestIn ==
  ASSUME TypeOK, NEW r \in Requests, NEW h, HitsOf(h, r)
  PROVE  Longest(h, r) \in Instances
<1> DEFINE N == InputLen[r] \div Block
           f == [i \in Instances |-> -h[i]]
           g == [i \in Instances |-> Load(i, h, r)]
           P(i) == \A j \in Instances \ {i} :
                     \/ h[i] > h[j]
                     \/ h[i] = h[j] /\ Load(i, h, r) < Load(j, h, r)
                     \/ h[i] = h[j] /\ Load(i, h, r) = Load(j, h, r) /\ i < j
<1>1. N \in Nat
  <2>1. InputLen[r] \in Nat /\ Block \in Nat \ {0}
    BY TraceAssumption, SizeAssumption
  <2> QED
    BY <2>1
<1>2. ASSUME NEW i \in Instances
      PROVE  /\ h[i] \in Nat /\ f[i] = -h[i] /\ f[i] \in Int /\ f[i] + N \in Nat
             /\ g[i] = Load(i, h, r) /\ g[i] \in Nat
  <2>1. h[i] \in Nat /\ h[i] <= N
    BY DEF HitsOf
  <2>2. Load(i, h, r) \in Nat
    BY ScoreType
  <2>3. f[i] = -h[i] /\ g[i] = Load(i, h, r)
    OBVIOUS
  <2> HIDE DEF f, g, N
  <2> QED
    BY <1>1, <2>1, <2>2, <2>3
<1> HIDE DEF f, g, N
<1>3. PICK k \in Instances : \A j \in Instances : f[k] < f[j] \/ (f[k] = f[j] /\ g[k] <= g[j])
  <2>1. PairsOver(Instances, f, g, N)
    BY <1>2 DEF PairsOver
  <2>2. Instances # {}
    BY InstanceFacts
  <2> QED
    BY <1>1, <2>1, <2>2, LeastPair
<1> DEFINE W == {j \in Instances : f[j] = f[k] /\ g[j] = g[k]}
<1>4. PICK i \in W : \A j \in W : i <= j
  <2>1. W \in SUBSET Nat /\ W # {}
    BY InstanceFacts
  <2> HIDE DEF W
  <2> QED
    BY <2>1, LeastNat
<1>5. ASSUME NEW j \in Instances \ {i}
      PROVE  \/ h[i] > h[j]
             \/ h[i] = h[j] /\ Load(i, h, r) < Load(j, h, r)
             \/ h[i] = h[j] /\ Load(i, h, r) = Load(j, h, r) /\ i < j
  <2>1. i \in Instances /\ f[i] = f[k] /\ g[i] = g[k] /\ i \in Nat /\ j \in Nat
    BY InstanceFacts
  <2>2. f[i] < f[j] \/ (f[i] = f[j] /\ g[i] <= g[j])
    BY <1>3, <2>1
  <2>3. f[i] = f[j] /\ g[i] = g[j] => i <= j
    BY <1>4, <2>1
  <2>4. /\ f[i] = -h[i] /\ f[j] = -h[j] /\ h[i] \in Nat /\ h[j] \in Nat
        /\ g[i] = Load(i, h, r) /\ g[j] = Load(j, h, r) /\ g[i] \in Nat /\ g[j] \in Nat
    BY <1>2, <2>1
  <2>5. CASE f[i] < f[j]
    BY <2>4, <2>5
  <2>6. CASE f[i] = f[j] /\ g[i] < g[j]
    BY <2>4, <2>6
  <2>7. CASE f[i] = f[j] /\ g[i] = g[j]
    <3>1. i < j
      BY <2>1, <2>3, <2>7
    <3> QED
      BY <2>4, <2>7, <3>1
  <2> QED
    BY <2>2, <2>4, <2>5, <2>6, <2>7
<1>6. i \in Instances /\ P(i)
  BY <1>5
<1> HIDE DEF P
<1>7. Longest(h, r) = CHOOSE l \in Instances : P(l)
  BY DEF Longest, P
<1> QED
  BY <1>6, <1>7

(* Every policy names an instance; the detector's names one it was offered. *)
LEMMA ChooseFacts ==
  ASSUME TypeOK, NEW r \in Requests, NEW h, HitsOf(h, r), NEW C \in SUBSET Instances, C # {}
  PROVE  /\ Choose(h, r, C) \in Instances
         /\ policy = "lmetric_detector" => Choose(h, r, C) \in C
<1>1. Best(h, r, C) # {} /\ Best(h, r, C) \in SUBSET C
  BY SomeBest DEF Best
<1>2. TakeTurn(Best(h, r, C)) \in Best(h, r, C)
  <2>1. Best(h, r, C) \in SUBSET Instances
    BY <1>1
  <2> QED
    BY <1>1, <2>1, TakeTurnIn
<1>3. Longest(h, r) \in Instances
  BY LongestIn
<1>4. \A p \in Requests : placed[p] # None => placed[p] \in Instances
  BY DEF TypeOK
<1>5. Parent[r] # None => Parent[r] \in Requests
  BY TraceAssumption
<1> QED
  BY <1>1, <1>2, <1>3, <1>4, <1>5 DEF Choose

(* The detector always leaves some instance to choose from. *)
LEMMA CandidatesFacts ==
  ASSUME NEW seen, NEW h, NEW r, Filters(seen, h, r)
  PROVE  Instances \ Holders(h) # {} /\ Cardinality(Holders(h)) > 0
<1>1. Alarm(seen, h, r)
  BY DEF Filters
<1>2. 0 < Cardinality(Holders(h)) /\ Cardinality(Holders(h)) < NumInstances
  BY <1>1 DEF Alarm
<1>3. Holders(h) # Instances
  BY <1>2, InstanceFacts
<1> QED
  BY <1>2, <1>3 DEF Holders

LEMMA HoldersFacts ==
  ASSUME NEW h
  PROVE  IsFiniteSet(Holders(h)) /\ Cardinality(Holders(h)) \in Nat
<1>1. Holders(h) \in SUBSET Instances
  BY DEF Holders
<1>2. IsFiniteSet(Holders(h))
  BY <1>1, InstanceFacts, FS_Subset
<1> QED
  BY <1>2, FS_CardinalityType

-----------------------------------------------------------------------------
(* Routing *)

(* The pieces of Arrive, by name. *)
ArriveHits(r) == [i \in Instances |-> Hits(i, r)]
Candidates(r) ==
  IF policy = "lmetric_detector" /\ Filters(Observed(r), ArriveHits(r), r)
    THEN Instances \ Holders(ArriveHits(r)) ELSE Instances
Chosen(r) == Choose(ArriveHits(r), r, Candidates(r))
New(r) == InputLen[r] - Hits(Chosen(r), r) * Block
Cost(r) == PrefillCost(InputLen[r], Hits(Chosen(r), r) * Block)

LEMMA ChosenFacts ==
  ASSUME TypeOK, NEW r \in Requests
  PROVE  /\ Chosen(r) \in Instances /\ New(r) \in Nat /\ Cost(r) \in Nat
         /\ policy = "lmetric_detector" => Chosen(r) \in Candidates(r)
<1>1. HitsOf(ArriveHits(r), r)
  BY HitsAre DEF ArriveHits
<1>2. Candidates(r) \in SUBSET Instances /\ Candidates(r) # {}
  BY InstanceFacts, CandidatesFacts DEF Candidates
<1>3. Chosen(r) \in Instances
  BY <1>1, <1>2, ChooseFacts DEF Chosen
<1>4. policy = "lmetric_detector" => Chosen(r) \in Candidates(r)
  BY <1>1, <1>2, ChooseFacts DEF Chosen
<1> DEFINE x == Hits(Chosen(r), r)
<1>5. x \in Nat /\ x <= InputLen[r] \div Block
  BY HitsFacts
<1>6. New(r) = InputLen[r] - x * Block /\ Cost(r) = PrefillCost(InputLen[r], x * Block)
  BY DEF New, Cost
<1> HIDE DEF x
<1>7. /\ InputLen[r] \in Nat /\ x * Block \in Nat /\ x * Block <= InputLen[r]
      /\ InputLen[r] - x * Block \in Nat
  BY <1>5, NewTokens
<1>8. PrefillCost(InputLen[r], x * Block) \in Nat
  BY <1>7, CostType
<1> QED
  BY <1>3, <1>4, <1>6, <1>7, <1>8

LEMMA ArriveFacts ==
  ASSUME TypeOK, StateInv, Arrive
  PROVE  LET r == Trace[turn + 1]
             i == Chosen(r)
         IN /\ turn + 1 \in 1..Len(Trace) /\ r \in Requests /\ state[r] = "ahead"
            /\ IF policy = "lmetric_detector" THEN Judge(Observed(r), ArriveHits(r), r)
                                              ELSE UNCHANGED detector
            /\ placed' = [placed EXCEPT ![r] = i]
            /\ newTokens' = [newTokens EXCEPT ![r] = New(r)]
            /\ newCost' = [newCost EXCEPT ![r] = Cost(r)]
            /\ bs' = [bs EXCEPT ![i] = @ + 1]
            /\ queued' = [queued EXCEPT ![i] = @ + New(r)]
            /\ qcost' = [qcost EXCEPT ![i] = @ + Cost(r)]
            /\ Dispatched(i, r)
            /\ state' = [state EXCEPT ![r] = "prefill"]
            /\ turn' = turn + 1
            /\ UNCHANGED <<policy, index, cached, evictions>>
<1> DEFINE r == Trace[turn + 1]
           h == [i \in Instances |-> Hits(i, r)]
<1>1. turn \in Nat /\ turn < Len(Trace) /\ Len(Trace) \in Nat
  BY TraceFacts DEF TypeOK, Arrive
<1>2. turn + 1 \in 1..Len(Trace) /\ ~(turn + 1 <= turn) /\ turn + 1 > turn
  BY <1>1
<1>3. r \in Requests
  BY <1>2, TraceFacts
<1>4. state[r] = "ahead"
  BY <1>2, TraceFacts DEF StateInv
<1>5. h = ArriveHits(r)
  BY DEF ArriveHits
<1>6. Chosen(r) \in Instances
  BY <1>3, ChosenFacts
<1>7. h[Chosen(r)] = Hits(Chosen(r), r)
  BY <1>6
<1> HIDE DEF r, h
<1>8. Choose(h, r, IF policy = "lmetric_detector" /\ Filters(Observed(r), h, r)
                     THEN Instances \ Holders(h) ELSE Instances) = Chosen(r)
  BY <1>5 DEF Chosen, Candidates
<1>9. /\ InputLen[r] - h[Chosen(r)] * Block = New(r)
      /\ PrefillCost(InputLen[r], h[Chosen(r)] * Block) = Cost(r)
  BY <1>7 DEF New, Cost
<1> QED
  BY <1>2, <1>3, <1>4, <1>5, <1>8, <1>9 DEF Arrive, r, h

-----------------------------------------------------------------------------
(* The books *)

LEMMA AtFinite ==
  ASSUME NEW i, NEW states
  PROVE  /\ IsFiniteSet(At(i, states)) /\ At(i, states) \in SUBSET Requests
         /\ Cardinality(At(i, states)) \in Nat
<1>1. IsFiniteSet(Requests) /\ At(i, states) \in SUBSET Requests
  BY TraceFacts DEF At
<1>2. IsFiniteSet(At(i, states))
  BY <1>1, FS_Subset
<1> QED
  BY <1>1, <1>2, FS_CardinalityType

LEMMA UnitsMembers ==
  ASSUME NEW a, NEW S, NEW e
  PROVE  /\ e \in Units(a, S) <=> \E r \in S : e \in {r} \X (1..a[r])
         /\ \A r : e \in {r} \X (1..a[r]) => e[1] = r
  BY DEF Units

LEMMA UnitsFinite ==
  ASSUME NEW a, NEW S, IsFiniteSet(S), \A r \in S : a[r] \in Nat
  PROVE  IsFiniteSet(Units(a, S)) /\ Cardinality(Units(a, S)) \in Nat
<1> DEFINE R == {{r} \X (1..a[r]) : r \in S}
           f == [r \in S |-> {r} \X (1..a[r])]
<1>1. IsFiniteSet(R)
  <2>1. f \in Surjection(S, R)
    BY Fun_IsSurj
  <2> HIDE DEF f, R
  <2> QED
    BY <2>1, FS_Surjection
<1>2. ASSUME NEW T \in R PROVE IsFiniteSet(T)
  <2>1. PICK r \in S : T = {r} \X (1..a[r])
    OBVIOUS
  <2>2. a[r] \in Nat
    BY <2>1
  <2>3. IsFiniteSet({r} \X (1..a[r]))
    BY <2>2, RowFacts
  <2> QED
    BY <2>1, <2>3
<1>3. Units(a, S) = UNION R
  BY DEF Units
<1> HIDE DEF R
<1>4. IsFiniteSet(UNION R)
  BY <1>1, <1>2, FS_UNION
<1> QED
  BY <1>3, <1>4, FS_CardinalityType

LEMMA UnitsSame ==
  ASSUME NEW a, NEW b, NEW S, \A q \in S : b[q] = a[q]
  PROVE  Units(b, S) = Units(a, S)
<1>1. ASSUME NEW e PROVE e \in Units(b, S) <=> e \in Units(a, S)
  BY UnitsMembers
<1> QED
  BY <1>1

LEMMA UnitsAdded ==
  ASSUME NEW a, NEW b, NEW S, IsFiniteSet(S), \A q \in S : a[q] \in Nat /\ b[q] = a[q],
         NEW r, r \notin S, b[r] \in Nat
  PROVE  Cardinality(Units(b, S \cup {r})) = Cardinality(Units(a, S)) + b[r]
<1> DEFINE R == {r} \X (1..b[r])
           U == Units(a, S)
<1>1. IsFiniteSet(R) /\ Cardinality(R) = b[r]
  BY RowFacts
<1>2. IsFiniteSet(U)
  BY UnitsFinite
<1>3. U \cap R = {}
  BY DEF Units
<1>4. Units(b, S \cup {r}) = U \cup R
  <2> SUFFICES ASSUME NEW e PROVE e \in Units(b, S \cup {r}) <=> e \in U \/ e \in R
    OBVIOUS
  <2>1. e \in U <=> \E q \in S : e \in {q} \X (1..a[q])
    BY UnitsMembers
  <2>2. e \in Units(b, S \cup {r}) <=> \E q \in S \cup {r} : e \in {q} \X (1..b[q])
    BY UnitsMembers
  <2> HIDE DEF U
  <2> QED
    BY <2>1, <2>2
<1> HIDE DEF R, U
<1>5. Cardinality(U \cup R) = Cardinality(U) + Cardinality(R)
  BY <1>1, <1>2, <1>3, CountAdded
<1> QED
  BY <1>1, <1>4, <1>5 DEF U

LEMMA UnitsRemoved ==
  ASSUME NEW a, NEW S, IsFiniteSet(S), \A q \in S : a[q] \in Nat, NEW r \in S
  PROVE  /\ Cardinality(Units(a, S \ {r})) = Cardinality(Units(a, S)) - a[r]
         /\ Cardinality(Units(a, S)) - a[r] \in Nat
<1> DEFINE R == {r} \X (1..a[r])
           U == Units(a, S)
<1>1. IsFiniteSet(R) /\ Cardinality(R) = a[r]
  BY RowFacts
<1>2. IsFiniteSet(U)
  BY UnitsFinite
<1>3. R \in SUBSET U
  BY DEF Units
<1>4. Units(a, S \ {r}) = U \ R
  <2> SUFFICES ASSUME NEW e PROVE e \in Units(a, S \ {r}) <=> e \in U /\ e \notin R
    OBVIOUS
  <2>1. e \in U <=> \E q \in S : e \in {q} \X (1..a[q])
    BY UnitsMembers
  <2>2. e \in Units(a, S \ {r}) <=> \E q \in S \ {r} : e \in {q} \X (1..a[q])
    BY UnitsMembers
  <2>3. \A q : e \in {q} \X (1..a[q]) => e[1] = q
    BY UnitsMembers
  <2> HIDE DEF U
  <2> QED
    BY <2>1, <2>2, <2>3
<1> HIDE DEF R, U
<1>5. /\ Cardinality(U \ R) = Cardinality(U) - Cardinality(R)
      /\ Cardinality(U) - Cardinality(R) \in Nat
  BY <1>2, <1>3, CountRemoved
<1> QED
  BY <1>1, <1>4, <1>5 DEF U

BookTypes ==
  /\ bs \in [Instances -> Nat] /\ queued \in [Instances -> Nat] /\ qcost \in [Instances -> Nat]
  /\ newTokens \in [Requests -> Nat] /\ newCost \in [Requests -> Nat]
  /\ placed \in [Requests -> Instances \cup {None}]
  /\ state \in [Requests -> {"ahead", "prefill", "decode", "done"}]

Owing(i) == At(i, {"prefill"})
Open(i) == At(i, {"prefill", "decode"})

LEMMA BooksEach ==
  BooksBalance <=> \A i \in Instances : /\ bs[i] = Cardinality(Open(i))
                                        /\ queued[i] = Cardinality(Units(newTokens, Owing(i)))
                                        /\ qcost[i] = Cardinality(Units(newCost, Owing(i)))
  BY DEF BooksBalance, Open, Owing

LEMMA BooksFrame ==
  ASSUME BooksBalance, UNCHANGED <<books, state>>
  PROVE  BooksBalance'
<1>1. UNCHANGED <<bs, queued, qcost, placed, newTokens, newCost, state>>
  BY DEF books
<1>2. \A i, s : At(i, s)' = At(i, s)
  BY <1>1 DEF At
<1>3. \A i : Open(i)' = Open(i) /\ Owing(i)' = Owing(i)
  BY <1>1 DEF At, Open, Owing
<1> QED
  BY <1>1, <1>3, BooksEach DEF BooksBalance, Open, Owing, Units

LEMMA BooksArrive ==
  ASSUME TypeOK, StateInv, BooksBalance, Arrive
  PROVE  BooksBalance' /\ BookTypes'
<1> DEFINE r == Trace[turn + 1]
           i == Chosen(r)
           n == New(r)
           c == Cost(r)
<1>1. r \in Requests /\ i \in Instances /\ n \in Nat /\ c \in Nat
  BY ArriveFacts, ChosenFacts
<1>2. /\ state[r] = "ahead"
      /\ placed' = [placed EXCEPT ![r] = i]
      /\ newTokens' = [newTokens EXCEPT ![r] = n]
      /\ newCost' = [newCost EXCEPT ![r] = c]
      /\ bs' = [bs EXCEPT ![i] = @ + 1]
      /\ queued' = [queued EXCEPT ![i] = @ + n]
      /\ qcost' = [qcost EXCEPT ![i] = @ + c]
      /\ state' = [state EXCEPT ![r] = "prefill"]
  BY ArriveFacts
<1>3. BookTypes
  BY DEF TypeOK, BookTypes
<1> HIDE DEF r, i, n, c
<1>4. BookTypes'
  BY <1>1, <1>2, <1>3 DEF BookTypes
<1>5. ASSUME NEW j \in Instances
      PROVE  /\ bs'[j] = Cardinality(Open(j)')
             /\ queued'[j] = Cardinality(Units(newTokens', Owing(j)'))
             /\ qcost'[j] = Cardinality(Units(newCost', Owing(j)'))
  <2>1. /\ bs[j] = Cardinality(Open(j)) /\ queued[j] = Cardinality(Units(newTokens, Owing(j)))
        /\ qcost[j] = Cardinality(Units(newCost, Owing(j)))
    BY BooksEach
  <2>2. r \notin Open(j) /\ r \notin Owing(j)
    BY <1>2 DEF Open, Owing, At
  <2>3. IsFiniteSet(Open(j)) /\ IsFiniteSet(Owing(j)) /\ Owing(j) \in SUBSET Requests
    BY AtFinite DEF Open, Owing
  <2>4. /\ newTokens'[r] = n /\ newCost'[r] = c
        /\ \A q \in Owing(j) : /\ newTokens[q] \in Nat /\ newTokens'[q] = newTokens[q]
                               /\ newCost[q] \in Nat /\ newCost'[q] = newCost[q]
    BY <1>1, <1>2, <1>3, <2>2, <2>3 DEF BookTypes
  <2>5. CASE j = i
    <3>1. Open(j)' = Open(j) \cup {r} /\ Owing(j)' = Owing(j) \cup {r}
      BY <1>1, <1>2, <1>3, <2>5 DEF Open, Owing, At, BookTypes
    <3>2. Cardinality(Open(j) \cup {r}) = Cardinality(Open(j)) + 1
      BY <2>2, <2>3, FS_AddElement
    <3>3. Cardinality(Units(newTokens', Owing(j) \cup {r}))
            = Cardinality(Units(newTokens, Owing(j))) + newTokens'[r]
      BY <1>1, <2>2, <2>3, <2>4, UnitsAdded
    <3>4. Cardinality(Units(newCost', Owing(j) \cup {r}))
            = Cardinality(Units(newCost, Owing(j))) + newCost'[r]
      BY <1>1, <2>2, <2>3, <2>4, UnitsAdded
    <3>5. bs'[j] = bs[j] + 1 /\ queued'[j] = queued[j] + n /\ qcost'[j] = qcost[j] + c
      BY <1>2, <1>3, <2>5 DEF BookTypes
    <3> QED
      BY <2>1, <2>4, <3>1, <3>2, <3>3, <3>4, <3>5
  <2>6. CASE j # i
    <3>1. Open(j)' = Open(j) /\ Owing(j)' = Owing(j)
      BY <1>1, <1>2, <1>3, <2>6 DEF Open, Owing, At, BookTypes
    <3>2. /\ Units(newTokens', Owing(j)) = Units(newTokens, Owing(j))
          /\ Units(newCost', Owing(j)) = Units(newCost, Owing(j))
      BY <2>4, UnitsSame
    <3>3. bs'[j] = bs[j] /\ queued'[j] = queued[j] /\ qcost'[j] = qcost[j]
      BY <1>2, <1>3, <2>6 DEF BookTypes
    <3> QED
      BY <2>1, <3>1, <3>2, <3>3
  <2> QED
    BY <2>5, <2>6
<1> QED
  BY <1>4, <1>5 DEF BooksBalance, Open, Owing, Units

LEMMA BooksFirst ==
  ASSUME TypeOK, StateInv, BooksBalance, NEW r \in Requests, First(r)
  PROVE  BooksBalance' /\ BookTypes'
<1> DEFINE i == placed[r]
           n == newTokens[r]
           c == newCost[r]
<1>1. /\ state[r] = "prefill" /\ state' = [state EXCEPT ![r] = "decode"]
      /\ queued' = [queued EXCEPT ![i] = @ - n] /\ qcost' = [qcost EXCEPT ![i] = @ - c]
      /\ UNCHANGED <<bs, placed, newTokens, newCost>>
  BY DEF First
<1>2. BookTypes
  BY DEF TypeOK, BookTypes
<1>3. i \in Instances /\ n \in Nat /\ c \in Nat
  BY <1>1, <1>2 DEF StateInv, BookTypes
<1>4. ASSUME NEW j \in Instances
      PROVE  /\ bs'[j] = Cardinality(Open(j)')
             /\ queued'[j] = Cardinality(Units(newTokens, Owing(j)')) /\ queued'[j] \in Nat
             /\ qcost'[j] = Cardinality(Units(newCost, Owing(j)')) /\ qcost'[j] \in Nat
  <2>1. /\ bs[j] = Cardinality(Open(j)) /\ queued[j] = Cardinality(Units(newTokens, Owing(j)))
        /\ qcost[j] = Cardinality(Units(newCost, Owing(j)))
    BY BooksEach
  <2>2. Open(j)' = Open(j)
    BY <1>1, <1>2 DEF Open, At, BookTypes
  <2>3. IsFiniteSet(Owing(j)) /\ Owing(j) \in SUBSET Requests
    BY AtFinite DEF Owing
  <2>4. \A q \in Owing(j) : newTokens[q] \in Nat /\ newCost[q] \in Nat
    BY <1>2, <2>3 DEF BookTypes
  <2>5. CASE j = i
    <3>1. Owing(j)' = Owing(j) \ {r} /\ r \in Owing(j)
      BY <1>1, <1>2, <2>5 DEF Owing, At, BookTypes
    <3>2. /\ Cardinality(Units(newTokens, Owing(j) \ {r}))
               = Cardinality(Units(newTokens, Owing(j))) - n
          /\ Cardinality(Units(newTokens, Owing(j))) - n \in Nat
      BY <2>3, <2>4, <3>1, UnitsRemoved
    <3>3. /\ Cardinality(Units(newCost, Owing(j) \ {r})) = Cardinality(Units(newCost, Owing(j))) - c
          /\ Cardinality(Units(newCost, Owing(j))) - c \in Nat
      BY <2>3, <2>4, <3>1, UnitsRemoved
    <3>4. queued'[j] = queued[j] - n /\ qcost'[j] = qcost[j] - c /\ bs'[j] = bs[j]
      BY <1>1, <1>2, <2>5 DEF BookTypes
    <3> QED
      BY <2>1, <2>2, <3>1, <3>2, <3>3, <3>4
  <2>6. CASE j # i
    <3>1. Owing(j)' = Owing(j)
      BY <1>1, <1>2, <2>6 DEF Owing, At, BookTypes
    <3>2. queued'[j] = queued[j] /\ qcost'[j] = qcost[j] /\ bs'[j] = bs[j]
      BY <1>1, <1>2, <2>6 DEF BookTypes
    <3>3. queued[j] \in Nat /\ qcost[j] \in Nat
      BY <1>2 DEF BookTypes
    <3> QED
      BY <2>1, <2>2, <3>1, <3>2, <3>3
  <2> QED
    BY <2>5, <2>6
<1>5. queued' \in [Instances -> Nat] /\ qcost' \in [Instances -> Nat]
  BY <1>1, <1>2, <1>3, <1>4 DEF BookTypes
<1>6. BookTypes'
  BY <1>1, <1>2, <1>5 DEF BookTypes
<1>7. BooksBalance'
  <2>1. ASSUME NEW j \in Instances
        PROVE  /\ bs'[j] = Cardinality(Open(j)')
               /\ queued'[j] = Cardinality(Units(newTokens', Owing(j)'))
               /\ qcost'[j] = Cardinality(Units(newCost', Owing(j)'))
    BY <1>1, <1>4
  <2> QED
    BY <2>1 DEF BooksBalance, Open, Owing, Units
<1> QED
  BY <1>6, <1>7

LEMMA BooksDone ==
  ASSUME TypeOK, StateInv, BooksBalance, NEW r \in Requests, Done(r)
  PROVE  BooksBalance' /\ BookTypes'
<1> DEFINE i == placed[r]
<1>1. /\ state[r] = "decode" /\ state' = [state EXCEPT ![r] = "done"]
      /\ bs' = [bs EXCEPT ![i] = @ - 1]
      /\ UNCHANGED <<queued, qcost, placed, newTokens, newCost>>
  BY DEF Done, Leaves
<1>2. BookTypes
  BY DEF TypeOK, BookTypes
<1>3. i \in Instances
  BY <1>1, <1>2 DEF StateInv, BookTypes
<1>4. ASSUME NEW j \in Instances
      PROVE  /\ bs'[j] = Cardinality(Open(j)') /\ bs'[j] \in Nat
             /\ Owing(j)' = Owing(j)
  <2>1. bs[j] = Cardinality(Open(j))
    BY BooksEach
  <2>2. Owing(j)' = Owing(j)
    BY <1>1, <1>2 DEF Owing, At, BookTypes
  <2>3. IsFiniteSet(Open(j))
    BY AtFinite DEF Open
  <2>4. CASE j = i
    <3>1. Open(j)' = Open(j) \ {r} /\ r \in Open(j)
      BY <1>1, <1>2, <2>4 DEF Open, At, BookTypes
    <3>2. Cardinality(Open(j) \ {r}) = Cardinality(Open(j)) - 1 /\ IsFiniteSet(Open(j) \ {r})
      BY <2>3, <3>1, FS_RemoveElement
    <3>3. Cardinality(Open(j) \ {r}) \in Nat
      BY <3>2, FS_CardinalityType
    <3>4. bs'[j] = bs[j] - 1
      BY <1>1, <1>2, <2>4 DEF BookTypes
    <3> QED
      BY <2>1, <2>2, <3>1, <3>2, <3>3, <3>4
  <2>5. CASE j # i
    <3>1. Open(j)' = Open(j)
      BY <1>1, <1>2, <2>5 DEF Open, At, BookTypes
    <3>2. bs'[j] = bs[j] /\ bs[j] \in Nat
      BY <1>1, <1>2, <2>5 DEF BookTypes
    <3> QED
      BY <2>1, <2>2, <3>1, <3>2
  <2> QED
    BY <2>4, <2>5
<1>5. BookTypes'
  <2>1. bs' \in [Instances -> Nat]
    BY <1>1, <1>2, <1>3, <1>4 DEF BookTypes
  <2> QED
    BY <1>1, <1>2, <2>1 DEF BookTypes
<1>6. BooksBalance'
  <2>1. \A j \in Instances : /\ queued[j] = Cardinality(Units(newTokens, Owing(j)))
                             /\ qcost[j] = Cardinality(Units(newCost, Owing(j)))
    BY BooksEach
  <2> QED
    BY <1>1, <1>4, <2>1 DEF BooksBalance, Open, Owing, Units
<1> QED
  BY <1>5, <1>6

-----------------------------------------------------------------------------
(* The in-flight index *)

Sharers(i, k) == {r \in Owing(i) : k \in KeysOf(r)}

LEMMA SharersFinite ==
  ASSUME NEW i, NEW k
  PROVE  IsFiniteSet(Sharers(i, k)) /\ Cardinality(Sharers(i, k)) \in Nat
<1>1. IsFiniteSet(Owing(i))
  BY AtFinite DEF Owing
<1>2. Sharers(i, k) \in SUBSET Owing(i)
  BY DEF Sharers
<1>3. IsFiniteSet(Sharers(i, k))
  BY <1>1, <1>2, FS_Subset
<1> QED
  BY <1>3, FS_CardinalityType

LEMMA PendingEach ==
  /\ PendingCounts <=> \A i \in Instances, k \in Keys :
       pending[i][k] = IF index = "inflight" THEN Cardinality(Sharers(i, k)) ELSE 0
  /\ PendingCounts' <=> \A i \in Instances, k \in Keys :
       pending'[i][k] = IF index' = "inflight" THEN Cardinality(Sharers(i, k)') ELSE 0
  BY DEF PendingCounts, Sharers, Owing

PendingType == pending \in [Instances -> [Keys -> Nat]]

LEMMA PendingFrame ==
  ASSUME PendingCounts, UNCHANGED <<pending, index>>, \A i \in Instances : Owing(i)' = Owing(i)
  PROVE  PendingCounts'
<1>1. \A i \in Instances, k \in Keys : Sharers(i, k)' = Sharers(i, k)
  BY DEF Sharers
<1> QED
  BY <1>1, PendingEach

LEMMA PendingArrive ==
  ASSUME TypeOK, StateInv, PendingCounts, Arrive
  PROVE  PendingCounts' /\ PendingType'
<1> DEFINE r == Trace[turn + 1]
           i == Chosen(r)
<1>1. r \in Requests /\ i \in Instances
  BY ArriveFacts, ChosenFacts
<1>2. /\ state[r] = "ahead" /\ placed' = [placed EXCEPT ![r] = i]
      /\ state' = [state EXCEPT ![r] = "prefill"] /\ index' = index /\ Dispatched(i, r)
  BY ArriveFacts
<1> HIDE DEF r, i
<1>3. pending' = IF index = "inflight"
                   THEN [pending EXCEPT ![i] = [k \in Keys |-> @[k] + (IF k \in KeysOf(r) THEN 1 ELSE 0)]]
                   ELSE pending
  BY <1>2 DEF Dispatched
<1>4. /\ pending \in [Instances -> [Keys -> Nat]] /\ placed \in [Requests -> Instances \cup {None}]
      /\ state \in [Requests -> {"ahead", "prefill", "decode", "done"}]
  BY DEF TypeOK
<1>5. ASSUME NEW j \in Instances, NEW k \in Keys
      PROVE  /\ pending'[j][k] = IF index = "inflight" THEN Cardinality(Sharers(j, k)') ELSE 0
             /\ pending'[j][k] \in Nat
  <2>1. pending[j][k] = (IF index = "inflight" THEN Cardinality(Sharers(j, k)) ELSE 0)
    BY PendingEach
  <2>2. r \notin Sharers(j, k)
    BY <1>2 DEF Sharers, Owing, At
  <2>3. pending[j][k] \in Nat
    BY <1>4
  <2>4. CASE index = "inflight" /\ j = i /\ k \in KeysOf(r)
    <3>1. Sharers(j, k)' = Sharers(j, k) \cup {r}
      BY <1>1, <1>2, <1>4, <2>4 DEF Sharers, Owing, At
    <3>2. Cardinality(Sharers(j, k) \cup {r}) = Cardinality(Sharers(j, k)) + 1
      BY <2>2, SharersFinite, FS_AddElement
    <3>3. pending'[j][k] = pending[j][k] + 1
      BY <1>1, <1>3, <1>4, <2>4
    <3> QED
      BY <2>1, <2>3, <2>4, <3>1, <3>2, <3>3
  <2>5. CASE index = "inflight" /\ ~(j = i /\ k \in KeysOf(r))
    <3>1. Sharers(j, k)' = Sharers(j, k)
      BY <1>1, <1>2, <1>4, <2>5 DEF Sharers, Owing, At
    <3>2. pending'[j][k] = pending[j][k]
      BY <1>1, <1>3, <1>4, <2>3, <2>5
    <3> QED
      BY <2>1, <2>3, <2>5, <3>1, <3>2
  <2>6. CASE index # "inflight"
    BY <1>3, <2>1, <2>6
  <2> QED
    BY <2>4, <2>5, <2>6
<1>6. pending' \in [Instances -> [Keys -> Nat]]
  <2>1. pending' \in [Instances -> [Keys -> Int]]
    <3>1. ASSUME NEW j \in Instances
          PROVE [k \in Keys |-> pending[j][k] + (IF k \in KeysOf(r) THEN 1 ELSE 0)] \in [Keys -> Int]
      BY <1>4
    <3> QED
      BY <1>1, <1>3, <1>4, <3>1
  <2> QED
    BY <1>5, <2>1
<1> QED
  BY <1>2, <1>5, <1>6, PendingEach DEF PendingType

LEMMA PendingFirst ==
  ASSUME TypeOK, StateInv, PendingCounts, NEW r \in Requests, First(r)
  PROVE  PendingCounts' /\ PendingType'
<1> DEFINE i == placed[r]
<1>1. /\ state[r] = "prefill" /\ state' = [state EXCEPT ![r] = "decode"] /\ index' = index
      /\ placed' = placed /\ pending' = [pending EXCEPT ![i] = Prefilled(i, r)]
  BY DEF First
<1>2. /\ pending \in [Instances -> [Keys -> Nat]] /\ placed \in [Requests -> Instances \cup {None}]
      /\ state \in [Requests -> {"ahead", "prefill", "decode", "done"}]
  BY DEF TypeOK
<1>3. i \in Instances
  BY <1>1 DEF StateInv
<1> HIDE DEF i
<1>4. ASSUME NEW j \in Instances, NEW k \in Keys
      PROVE  /\ pending'[j][k] = IF index = "inflight" THEN Cardinality(Sharers(j, k)') ELSE 0
             /\ pending'[j][k] \in Nat
  <2>1. pending[j][k] = (IF index = "inflight" THEN Cardinality(Sharers(j, k)) ELSE 0)
    BY PendingEach
  <2>2. pending[j][k] \in Nat
    BY <1>2
  <2>3. CASE index = "inflight" /\ j = i /\ k \in KeysOf(r)
    <3>1. Sharers(j, k)' = Sharers(j, k) \ {r} /\ r \in Sharers(j, k)
      BY <1>1, <1>2, <2>3 DEF Sharers, Owing, At, i
    <3>2. Cardinality(Sharers(j, k) \ {r}) = Cardinality(Sharers(j, k)) - 1
      BY <3>1, SharersFinite, FS_RemoveElement
    <3>3. IsFiniteSet(Sharers(j, k) \ {r})
      BY SharersFinite, FS_Subset
    <3>4. Cardinality(Sharers(j, k) \ {r}) \in Nat
      BY <3>3, FS_CardinalityType
    <3>5. pending'[j][k] = pending[j][k] - 1
      BY <1>1, <1>2, <1>3, <2>3 DEF Prefilled
    <3> QED
      BY <2>1, <2>3, <3>1, <3>2, <3>4, <3>5
  <2>4. CASE index = "inflight" /\ ~(j = i /\ k \in KeysOf(r))
    <3>1. Sharers(j, k)' = Sharers(j, k)
      BY <1>1, <1>2, <2>4 DEF Sharers, Owing, At, i
    <3>2. pending'[j][k] = pending[j][k]
      BY <1>1, <1>2, <1>3, <2>2, <2>4 DEF Prefilled
    <3> QED
      BY <2>1, <2>2, <2>4, <3>1, <3>2
  <2>5. CASE index # "inflight"
    <3>1. pending'[j][k] = pending[j][k]
      BY <1>1, <1>2, <1>3, <2>5 DEF Prefilled
    <3> QED
      BY <2>1, <2>5, <3>1
  <2> QED
    BY <2>3, <2>4, <2>5
<1>5. pending' \in [Instances -> [Keys -> Nat]]
  <2>1. Prefilled(i, r) \in [Keys -> Int]
    BY <1>2, <1>3 DEF Prefilled
  <2>2. pending' \in [Instances -> [Keys -> Int]]
    <3>1. \A j \in Instances : pending[j] \in [Keys -> Int]
      BY <1>2
    <3> HIDE DEF Prefilled
    <3> QED
      BY <1>1, <1>2, <2>1, <3>1
  <2> QED
    BY <1>4, <2>2
<1> QED
  BY <1>1, <1>4, <1>5, PendingEach DEF PendingType

LEMMA PendingDone ==
  ASSUME PendingCounts, NEW r \in Requests, Done(r), TypeOK
  PROVE  PendingCounts'
<1>1. /\ state[r] = "decode" /\ state' = [state EXCEPT ![r] = "done"]
      /\ UNCHANGED <<placed, pending, index>>
  BY DEF Done
<1>2. state \in [Requests -> {"ahead", "prefill", "decode", "done"}]
  BY DEF TypeOK
<1>3. \A i \in Instances : Owing(i)' = Owing(i)
  BY <1>1, <1>2 DEF Owing, At
<1> QED
  BY <1>1, <1>3, PendingFrame

-----------------------------------------------------------------------------
(* The lru index *)

LEMMA KeysFinite == IsFiniteSet(Keys)
<1> DEFINE K == {KeysOf(r) : r \in Requests}
           f == [r \in Requests |-> KeysOf(r)]
<1>1. IsFiniteSet(K)
  <2>1. f \in Surjection(Requests, K)
    BY Fun_IsSurj
  <2> HIDE DEF f, K
  <2> QED
    BY <2>1, TraceFacts, FS_Surjection
<1>2. ASSUME NEW S \in K PROVE IsFiniteSet(S)
  <2>1. PICK r \in Requests : S = KeysOf(r)
    OBVIOUS
  <2> DEFINE n == Len(FullKeys[r])
             g == [m \in 1..n |-> FullKeys[r][m]]
  <2>2. n \in Nat /\ IsFiniteSet(1..n)
    BY KeyFacts, FS_Interval
  <2>3. g \in Surjection(1..n, KeysOf(r))
    BY KeyFacts, Fun_IsSurj
  <2> HIDE DEF g, n
  <2> QED
    BY <2>1, <2>2, <2>3, FS_Surjection
<1>3. Keys = UNION K
  BY DEF Keys
<1> HIDE DEF K
<1> QED
  BY <1>1, <1>2, <1>3, FS_UNION

(* The length of a list without duplicates. *)
LEMMA InjectiveLen ==
  ASSUME NEW T, NEW s \in Seq(T), IsInjectiveSeq(s)
  PROVE  IsFiniteSet(Elements(s)) /\ Cardinality(Elements(s)) = Len(s) /\ Len(s) \in Nat
<1> DEFINE f == [m \in 1..Len(s) |-> s[m]]
<1>1. Len(s) \in Nat /\ DOMAIN s = 1..Len(s)
  BY ListFacts
<1>2. \A a, b \in 1..Len(s) : s[a] = s[b] => a = b
  BY <1>1 DEF IsInjectiveSeq
<1>3. f \in Bijection(1..Len(s), Elements(s))
  <2>1. \A m \in 1..Len(s) : f[m] \in Elements(s)
    BY <1>1 DEF Elements
  <2>2. \A a, b \in 1..Len(s) : f[a] = f[b] => a = b
    BY <1>2
  <2>3. \A x \in Elements(s) : \E m \in 1..Len(s) : f[m] = x
    BY <1>1 DEF Elements
  <2> QED
    BY <2>1, <2>2, <2>3, Fun_IsBij
<1> HIDE DEF f
<1>4. IsFiniteSet(1..Len(s)) /\ Cardinality(1..Len(s)) = Len(s)
  BY <1>1, FS_Interval
<1>5. ExistsBijection(1..Len(s), Elements(s))
  BY <1>3 DEF ExistsBijection
<1>6. IsFiniteSet(Elements(s)) /\ Cardinality(Elements(s)) = Cardinality(1..Len(s))
  BY <1>4, <1>5, FS_Bijection
<1> QED
  BY <1>1, <1>4, <1>6

LEMMA MinOfTwo ==
  ASSUME NEW a \in Nat, NEW b \in Nat
  PROVE  Min({a, b}) = IF a <= b THEN a ELSE b
<1>1. PICK m \in {a, b} : \A y \in {a, b} : m <= y
  OBVIOUS
<1>2. Min({a, b}) \in {a, b} /\ \A y \in {a, b} : Min({a, b}) <= y
  BY <1>1 DEF Min
<1> QED
  BY <1>2

(* LruInv and LruRecent of one index: its list l, the times t of its keys,  *)
(* none after now.                                                          *)
TimesOf == [Keys -> Nat \X Nat]
Used(t) == {k \in Keys : t[k][1] > 0}

ListAt(l, t, now) ==
  /\ IsInjectiveSeq(l)
  /\ \A k \in Keys : t[k][1] <= now
  /\ \A k \in Elements(l) : t[k][1] > 0

OrderAt(l, t) ==
  /\ \A m, n \in DOMAIN l : m < n => Earlier(t[l[m]], t[l[n]])
  /\ \A k \in Used(t) \ Elements(l), b \in Elements(l) : Earlier(t[k], t[b])

SizeAt(l, t) ==
  /\ index = "dispatch" => Elements(l) = Used(t)
  /\ index = "lru" => Len(l) = Min({Cap, Cardinality(Used(t))})

IsList == index \notin {"exact", "inflight"}

LEMMA LruEach ==
  ASSUME TypeOK
  PROVE  LruInv /\ LruRecent
           <=> \A i \in Instances :
                 /\ ListAt(lru[i], touched[i], turn)
                 /\ IsList => OrderAt(lru[i], touched[i]) /\ SizeAt(lru[i], touched[i])
<1>1. \A i : InLru(i) = Elements(lru[i])
  BY DEF InLru, Elements
<1>2. turn \in Nat /\ touched \in [Instances -> [Keys -> Nat \X Nat]]
  BY TraceFacts DEF TypeOK
<1>3. \A i \in Instances, k \in Keys : touched[i][k][1] \in Nat
  BY <1>2
<1>4. \A i \in Instances, k \in Keys : touched[i][k][1] \in 0..turn <=> touched[i][k][1] <= turn
  BY <1>2, <1>3
<1>5. LruInv <=> \A i \in Instances : ListAt(lru[i], touched[i], turn)
  BY <1>1, <1>4 DEF LruInv, ListAt
<1>6. LruRecent <=> \A i \in Instances :
                      IsList => OrderAt(lru[i], touched[i]) /\ SizeAt(lru[i], touched[i])
  BY <1>1 DEF LruRecent, OrderAt, SizeAt, Used, IsList
<1> QED
  BY <1>5, <1>6

(* After the time now, the keys of r are touched, in order. *)
Retouched(t, r, now) ==
  [k \in Keys |-> IF k \in KeysOf(r)
                    THEN <<now + 1, CHOOSE n \in DOMAIN FullKeys[r] : FullKeys[r][n] = k>>
                    ELSE t[k]]

LEMMA RetouchedFacts ==
  ASSUME NEW r \in Requests, NEW t \in TimesOf, NEW now \in Nat
  PROVE  /\ Retouched(t, r, now) \in TimesOf
         /\ \A n \in 1..Len(FullKeys[r]) : Retouched(t, r, now)[FullKeys[r][n]] = <<now + 1, n>>
         /\ \A k \in KeysOf(r) : Retouched(t, r, now)[k][1] = now + 1
         /\ \A k \in Keys \ KeysOf(r) : Retouched(t, r, now)[k] = t[k]
         /\ Used(Retouched(t, r, now)) = Used(t) \cup KeysOf(r)
<1> DEFINE u == Retouched(t, r, now)
           P(k) == CHOOSE n \in DOMAIN FullKeys[r] : FullKeys[r][n] = k
<1>1. /\ DOMAIN FullKeys[r] = 1..Len(FullKeys[r]) /\ Len(FullKeys[r]) \in Nat
      /\ KeysOf(r) \in SUBSET Keys /\ IsInjectiveSeq(FullKeys[r])
      /\ \A n \in 1..Len(FullKeys[r]) : FullKeys[r][n] \in KeysOf(r)
      /\ \A k \in KeysOf(r) : \E n \in 1..Len(FullKeys[r]) : FullKeys[r][n] = k
  BY KeyFacts
<1>2. ASSUME NEW n \in 1..Len(FullKeys[r]) PROVE P(FullKeys[r][n]) = n
  <2>1. /\ P(FullKeys[r][n]) \in DOMAIN FullKeys[r]
        /\ FullKeys[r][P(FullKeys[r][n])] = FullKeys[r][n]
    BY <1>1
  <2> HIDE DEF P
  <2> QED
    BY <1>1, <2>1 DEF IsInjectiveSeq
<1>3. \A k \in KeysOf(r) : u[k] = <<now + 1, P(k)>> /\ P(k) \in 1..Len(FullKeys[r])
  BY <1>1 DEF Retouched
<1>4. \A k \in Keys \ KeysOf(r) : u[k] = t[k]
  BY DEF Retouched
<1>5. u = [k \in Keys |-> u[k]]
  BY DEF Retouched
<1> HIDE DEF u, P
<1>6. \A k \in Keys : u[k] \in Nat \X Nat
  <2>1. ASSUME NEW k \in KeysOf(r) PROVE u[k] \in Nat \X Nat
    <3>1. u[k] = <<now + 1, P(k)>> /\ P(k) \in Nat /\ now + 1 \in Nat
      BY <1>1, <1>3
    <3> QED
      BY <3>1
  <2>2. \A k \in Keys \ KeysOf(r) : u[k] \in Nat \X Nat
    BY <1>4 DEF TimesOf
  <2> QED
    BY <2>1, <2>2
<1>7. u \in TimesOf
  BY <1>5, <1>6 DEF TimesOf
<1>8. \A k \in KeysOf(r) : u[k][1] = now + 1
  BY <1>3
<1>9. Used(u) = Used(t) \cup KeysOf(r)
  <2>1. ASSUME NEW k \in Keys PROVE u[k][1] > 0 <=> t[k][1] > 0 \/ k \in KeysOf(r)
    BY <1>4, <1>8
  <2> QED
    BY <1>1, <2>1 DEF Used
<1>10. \A n \in 1..Len(FullKeys[r]) : u[FullKeys[r][n]] = <<now + 1, n>>
  BY <1>1, <1>2, <1>3
<1> QED
  BY <1>4, <1>7, <1>8, <1>9, <1>10 DEF u

(* move_to_end, key by key: the keys of r go to the end of the list. *)
Moved(l, r) == Sublist(l, Elements(l) \ KeysOf(r)) \o FullKeys[r]

LEMMA MovedFacts ==
  ASSUME NEW r \in Requests, NEW l \in Seq(Keys)
  PROVE  /\ Moved(l, r) \in Seq(Keys)
         /\ Elements(Moved(l, r)) = Elements(l) \cup KeysOf(r)
         /\ IsInjectiveSeq(l) => IsInjectiveSeq(Moved(l, r))
         /\ \A m, n \in DOMAIN Moved(l, r) : m < n =>
              \/ \E a, b \in DOMAIN l : a < b /\ Moved(l, r)[m] = l[a] /\ Moved(l, r)[n] = l[b]
                                        /\ l[a] \notin KeysOf(r) /\ l[b] \notin KeysOf(r)
              \/ Moved(l, r)[m] \in Elements(l) \ KeysOf(r) /\ Moved(l, r)[n] \in KeysOf(r)
              \/ \E a, b \in 1..Len(FullKeys[r]) :
                   a < b /\ Moved(l, r)[m] = FullKeys[r][a] /\ Moved(l, r)[n] = FullKeys[r][b]
<1> DEFINE S == Elements(l) \ KeysOf(r)
           s == Sublist(l, S)
           f == FullKeys[r]
           u == Moved(l, r)
<1>1. /\ f \in Seq(Keys) /\ IsInjectiveSeq(f) /\ KeysOf(r) = Elements(f)
      /\ Len(f) \in Nat /\ DOMAIN f = 1..Len(f)
  BY KeyFacts
<1>2. s \in Seq(Keys)
  BY SublistType
<1>3. Elements(s) = S
  <2>1. Elements(s) = Elements(l) \cap S
    BY SublistElements
  <2> QED
    BY <2>1
<1>4. IsInjectiveSeq(l) => IsInjectiveSeq(s)
  BY SublistInjective
<1>5. Len(s) \in Nat /\ DOMAIN s = 1..Len(s) /\ \A m \in DOMAIN s : s[m] \in S
  <2>1. Len(s) \in Nat /\ DOMAIN s = 1..Len(s) /\ \A m \in DOMAIN s : s[m] \in Elements(s)
    BY <1>2, ListFacts
  <2> HIDE DEF s, S
  <2> QED
    BY <1>3, <2>1
<1>6. u = s \o f
  BY DEF Moved
<1>7. ASSUME NEW m \in DOMAIN s, NEW n \in DOMAIN s, m < n
      PROVE  \E a, b \in DOMAIN l : a < b /\ s[m] = l[a] /\ s[n] = l[b]
  BY <1>7, SublistOrder
<1>8. Elements(s) \cap Elements(f) = {}
  BY <1>1, <1>3
<1> HIDE DEF s, f, u
<1>9. /\ u \in Seq(Keys) /\ Elements(u) = Elements(s) \cup Elements(f)
      /\ IsInjectiveSeq(s) => IsInjectiveSeq(u) /\ Len(u) = Len(s) + Len(f)
  BY <1>1, <1>2, <1>6, <1>8, ConcatFacts
<1>10. DOMAIN u = 1..(Len(s) + Len(f))
  BY <1>1, <1>2, <1>6
<1>11. \A m \in DOMAIN u : u[m] = IF m <= Len(s) THEN s[m] ELSE f[m - Len(s)]
  BY <1>1, <1>2, <1>6
<1>12. ASSUME NEW m \in DOMAIN u, NEW n \in DOMAIN u, m < n
       PROVE  \/ \E a, b \in DOMAIN l : a < b /\ u[m] = l[a] /\ u[n] = l[b]
                                        /\ l[a] \notin KeysOf(r) /\ l[b] \notin KeysOf(r)
              \/ u[m] \in S /\ u[n] \in KeysOf(r)
              \/ \E a, b \in 1..Len(f) : a < b /\ u[m] = f[a] /\ u[n] = f[b]
  <2>1. m \in Nat /\ n \in Nat /\ m >= 1 /\ n >= 1 /\ n <= Len(s) + Len(f)
    BY <1>1, <1>5, <1>10
  <2>2. CASE n <= Len(s)
    <3>1. m \in DOMAIN s /\ n \in DOMAIN s
      BY <1>5, <1>12, <2>1, <2>2
    <3>2. u[m] = s[m] /\ u[n] = s[n]
      BY <1>5, <1>11, <1>12, <2>1, <2>2
    <3>3. PICK a \in DOMAIN l, b \in DOMAIN l : a < b /\ s[m] = l[a] /\ s[n] = l[b]
      BY <1>7, <1>12, <3>1
    <3>4. s[m] \notin KeysOf(r) /\ s[n] \notin KeysOf(r)
      BY <1>5, <3>1
    <3> QED
      BY <3>2, <3>3, <3>4
  <2>3. CASE m <= Len(s) /\ ~(n <= Len(s))
    <3>1. m \in DOMAIN s /\ n - Len(s) \in DOMAIN f
      BY <1>1, <1>5, <2>1, <2>3
    <3>2. u[m] = s[m] /\ u[n] = f[n - Len(s)]
      BY <1>11, <2>3
    <3>3. f[n - Len(s)] \in KeysOf(r)
      BY <1>1, <3>1 DEF Elements
    <3> QED
      BY <1>5, <3>1, <3>2, <3>3
  <2>4. CASE ~(m <= Len(s))
    <3>1. m - Len(s) \in 1..Len(f) /\ n - Len(s) \in 1..Len(f) /\ m - Len(s) < n - Len(s)
      BY <1>1, <1>5, <1>12, <2>1, <2>4
    <3>2. u[m] = f[m - Len(s)] /\ u[n] = f[n - Len(s)]
      BY <1>5, <1>11, <1>12, <2>1, <2>4
    <3> QED
      BY <3>1, <3>2
  <2> QED
    BY <2>2, <2>3, <2>4
<1>13. Elements(u) = Elements(l) \cup KeysOf(r) /\ (IsInjectiveSeq(l) => IsInjectiveSeq(u))
  BY <1>1, <1>3, <1>4, <1>9
<1> HIDE DEF S
<1> QED
  BY <1>9, <1>12, <1>13 DEF u, f, S

LEMMA MoveKeeps ==
  ASSUME NEW r \in Requests, NEW l \in Seq(Keys), NEW t \in TimesOf, NEW now \in Nat,
         ListAt(l, t, now)
  PROVE  /\ ListAt(Moved(l, r), Retouched(t, r, now), now + 1)
         /\ ListAt(l, Retouched(t, r, now), now + 1)
         /\ OrderAt(l, t) => OrderAt(Moved(l, r), Retouched(t, r, now))
<1> DEFINE u == Moved(l, r)
           v == Retouched(t, r, now)
           K == KeysOf(r)
<1>1. /\ v \in TimesOf /\ \A n \in 1..Len(FullKeys[r]) : v[FullKeys[r][n]] = <<now + 1, n>>
      /\ \A k \in K : v[k][1] = now + 1
      /\ \A k \in Keys \ K : v[k] = t[k]
      /\ Used(v) = Used(t) \cup K
  BY RetouchedFacts
<1>2. u \in Seq(Keys) /\ Elements(u) = Elements(l) \cup K /\ (IsInjectiveSeq(l) => IsInjectiveSeq(u))
  BY MovedFacts
<1>3. \A m, n \in DOMAIN u : m < n =>
        \/ \E a, b \in DOMAIN l : a < b /\ u[m] = l[a] /\ u[n] = l[b]
                                  /\ l[a] \notin K /\ l[b] \notin K
        \/ u[m] \in Elements(l) \ K /\ u[n] \in K
        \/ \E a, b \in 1..Len(FullKeys[r]) :
             a < b /\ u[m] = FullKeys[r][a] /\ u[n] = FullKeys[r][b]
  BY MovedFacts
<1>4. /\ Elements(l) \in SUBSET Keys /\ K \in SUBSET Keys /\ \A a \in DOMAIN l : l[a] \in Keys
      /\ Len(FullKeys[r]) \in Nat
  BY ListFacts, KeyFacts
<1>5. /\ IsInjectiveSeq(l) /\ \A k \in Keys : t[k][1] <= now /\ t[k][1] \in Nat
      /\ \A k \in Elements(l) : t[k][1] > 0
  BY DEF ListAt, TimesOf
<1> HIDE DEF u, v, K
<1>6. \A k \in Keys : v[k][1] <= now + 1
  BY <1>1, <1>5
<1>7. \A k \in Elements(u) : v[k][1] > 0
  BY <1>1, <1>2, <1>4, <1>5
<1>8. ListAt(u, v, now + 1) /\ ListAt(l, v, now + 1)
  BY <1>2, <1>5, <1>6, <1>7 DEF ListAt
<1>9. ASSUME OrderAt(l, t) PROVE OrderAt(u, v)
  <2>1. ASSUME NEW k \in Keys \ K, NEW b \in K PROVE Earlier(v[k], v[b])
    <3>1. v[k][1] <= now /\ v[b][1] = now + 1 /\ v[k][1] \in Nat
      BY <1>1, <1>5
    <3> QED
      BY <3>1 DEF Earlier
  <2>2. ASSUME NEW m \in DOMAIN u, NEW n \in DOMAIN u, m < n PROVE Earlier(v[u[m]], v[u[n]])
    <3>1. CASE \E a, b \in DOMAIN l : a < b /\ u[m] = l[a] /\ u[n] = l[b]
                                        /\ l[a] \notin K /\ l[b] \notin K
      <4>1. PICK a \in DOMAIN l, b \in DOMAIN l : a < b /\ u[m] = l[a] /\ u[n] = l[b]
                                        /\ l[a] \notin K /\ l[b] \notin K
        BY <3>1
      <4>2. Earlier(t[l[a]], t[l[b]])
        BY <1>9, <4>1 DEF OrderAt
      <4>3. v[l[a]] = t[l[a]] /\ v[l[b]] = t[l[b]]
        BY <1>1, <1>4, <4>1
      <4> QED
        BY <4>1, <4>2, <4>3
    <3>2. CASE u[m] \in Elements(l) \ K /\ u[n] \in K
      BY <1>4, <2>1, <3>2
    <3>3. CASE \E a, b \in 1..Len(FullKeys[r]) :
                 a < b /\ u[m] = FullKeys[r][a] /\ u[n] = FullKeys[r][b]
      <4>1. PICK a \in 1..Len(FullKeys[r]), b \in 1..Len(FullKeys[r]) :
                 a < b /\ u[m] = FullKeys[r][a] /\ u[n] = FullKeys[r][b]
        BY <3>3
      <4>2. v[u[m]] = <<now + 1, a>> /\ v[u[n]] = <<now + 1, b>>
        BY <1>1, <4>1
      <4> QED
        BY <4>1, <4>2 DEF Earlier
    <3> QED
      BY <1>3, <2>2, <3>1, <3>2, <3>3
  <2>3. ASSUME NEW k \in Used(v) \ Elements(u), NEW b \in Elements(u) PROVE Earlier(v[k], v[b])
    <3>1. k \in Used(t) /\ k \notin Elements(l) /\ k \notin K /\ k \in Keys
      BY <1>1, <1>2 DEF Used
    <3>2. CASE b \in K
      BY <2>1, <3>1, <3>2
    <3>3. CASE b \notin K
      <4>1. b \in Elements(l) /\ b \in Keys
        BY <1>2, <1>4, <3>3
      <4>2. Earlier(t[k], t[b])
        BY <1>9, <3>1, <4>1 DEF OrderAt
      <4>3. v[k] = t[k] /\ v[b] = t[b]
        BY <1>1, <3>1, <3>3, <4>1
      <4> QED
        BY <4>2, <4>3
    <3> QED
      BY <3>2, <3>3
  <2> QED
    BY <2>2, <2>3 DEF OrderAt
<1> QED
  BY <1>8, <1>9 DEF u, v

(* What is kept of a list are its last n elements. *)
LEMMA NewestFacts ==
  ASSUME NEW T, NEW s \in Seq(T), NEW n \in Nat
  PROVE  /\ Newest(s, n) \in Seq(T)
         /\ Len(Newest(s, n)) = IF Len(s) > n THEN n ELSE Len(s)
         /\ Elements(Newest(s, n)) \in SUBSET Elements(s)
         /\ Len(s) <= n => Newest(s, n) = s
         /\ Len(s) - Len(Newest(s, n)) \in Nat
         /\ \A m \in DOMAIN Newest(s, n) :
              LET d == Len(s) - Len(Newest(s, n))
              IN m + d \in DOMAIN s /\ Newest(s, n)[m] = s[m + d]
         /\ \A k \in DOMAIN s : s[k] \notin Elements(Newest(s, n)) => k <= Len(s) - Len(Newest(s, n))
<1> DEFINE u == Newest(s, n)
           d == Len(s) - Len(u)
<1>1. Len(s) \in Nat /\ DOMAIN s = 1..Len(s)
  BY ListFacts
<1>2. CASE Len(s) > n
  <2> DEFINE a == Len(s) - n + 1
  <2>0. u = SubSeq(s, a, Len(s)) /\ a \in 1..(Len(s) + 1) /\ a \in Nat
    BY <1>1, <1>2 DEF Newest
  <2> HIDE DEF u, d
  <2>1. u \in Seq(T)
    BY <1>1, <2>0
  <2>2. Len(u) = n
    BY <1>1, <1>2, <2>0
  <2>3. \A m \in 1..n : u[m] = s[a + m - 1]
    BY <1>1, <1>2, <2>0
  <2>4. d = Len(s) - n /\ d \in Nat /\ DOMAIN u = 1..n
    BY <1>1, <1>2, <2>1, <2>2, ListFacts DEF d
  <2>5. ASSUME NEW m \in DOMAIN u PROVE m + d \in DOMAIN s /\ u[m] = s[m + d]
    <3>1. m \in 1..n /\ a + m - 1 = m + d /\ m + d \in 1..Len(s)
      BY <1>1, <1>2, <2>4
    <3> QED
      BY <1>1, <2>3, <3>1
  <2>6. ASSUME NEW k \in DOMAIN s, s[k] \notin Elements(u) PROVE k <= d
    <3>1. SUFFICES ASSUME ~(k <= d) PROVE FALSE
      OBVIOUS
    <3>2. k - d \in 1..n /\ (k - d) + d = k
      BY <1>1, <1>2, <2>4, <3>1
    <3>3. k - d \in DOMAIN u /\ u[k - d] = s[k]
      BY <2>4, <2>5, <3>2
    <3> QED
      BY <2>6, <3>3 DEF Elements
  <2>7. Elements(u) \in SUBSET Elements(s)
    BY <2>5 DEF Elements
  <2> QED
    BY <1>1, <1>2, <2>1, <2>2, <2>4, <2>5, <2>6, <2>7 DEF d, u
<1>3. CASE ~(Len(s) > n)
  <2>1. u = s
    BY <1>3 DEF Newest
  <2> HIDE DEF u, d
  <2>2. d = 0 /\ Len(s) - Len(s) = 0
    BY <1>1, <2>1 DEF d
  <2>3. \A m \in DOMAIN s : m + 0 = m /\ s[m] \in Elements(s)
    BY <1>1 DEF Elements
  <2> QED
    BY <1>1, <1>3, <2>1, <2>2, <2>3 DEF u
<1> QED
  BY <1>2, <1>3

LEMMA NewestKeeps ==
  ASSUME NEW l \in Seq(Keys), NEW t \in TimesOf, NEW now \in Nat, NEW n \in Nat,
         ListAt(l, t, now)
  PROVE  /\ ListAt(Newest(l, n), t, now)
         /\ OrderAt(l, t) => OrderAt(Newest(l, n), t)
<1> DEFINE u == Newest(l, n)
           d == Len(l) - Len(u)
<1>1. /\ u \in Seq(Keys) /\ Elements(u) \in SUBSET Elements(l) /\ d \in Nat
      /\ \A m \in DOMAIN u : m + d \in DOMAIN l /\ u[m] = l[m + d]
      /\ \A k \in DOMAIN l : l[k] \notin Elements(u) => k <= d
  BY NewestFacts
<1>2. /\ IsInjectiveSeq(l) /\ \A k \in Keys : t[k][1] <= now
      /\ \A k \in Elements(l) : t[k][1] > 0
  BY DEF ListAt
<1>3. DOMAIN u = 1..Len(u) /\ Len(u) \in Nat /\ DOMAIN l = 1..Len(l) /\ Len(l) \in Nat
  BY <1>1, ListFacts
<1> HIDE DEF u, d
<1>4. IsInjectiveSeq(u)
  <2> SUFFICES ASSUME NEW a \in DOMAIN u, NEW b \in DOMAIN u, u[a] = u[b] PROVE a = b
    BY DEF IsInjectiveSeq
  <2>1. a + d = b + d
    BY <1>1, <1>2 DEF IsInjectiveSeq
  <2> QED
    BY <1>1, <1>3, <2>1
<1>5. ListAt(u, t, now)
  BY <1>1, <1>2, <1>4 DEF ListAt
<1>6. ASSUME OrderAt(l, t) PROVE OrderAt(u, t)
  <2>1. ASSUME NEW a \in DOMAIN u, NEW b \in DOMAIN u, a < b PROVE Earlier(t[u[a]], t[u[b]])
    <3>1. a + d \in DOMAIN l /\ b + d \in DOMAIN l /\ a + d < b + d
      BY <1>1, <1>3, <2>1
    <3>2. Earlier(t[l[a + d]], t[l[b + d]])
      BY <1>6, <3>1 DEF OrderAt
    <3> QED
      BY <1>1, <3>2
  <2>2. ASSUME NEW k \in Used(t) \ Elements(u), NEW b \in Elements(u) PROVE Earlier(t[k], t[b])
    <3>1. CASE k \notin Elements(l)
      BY <1>1, <1>6, <3>1 DEF OrderAt
    <3>2. CASE k \in Elements(l)
      <4>1. PICK m \in DOMAIN l : k = l[m]
        BY <3>2 DEF Elements
      <4>2. PICK a \in DOMAIN u : b = u[a]
        BY DEF Elements
      <4>3. m <= d /\ a + d \in DOMAIN l /\ b = l[a + d] /\ m < a + d
        <5>1. m <= d /\ a + d \in DOMAIN l /\ b = l[a + d]
          BY <1>1, <4>1, <4>2
        <5>2. a \in Nat /\ a >= 1 /\ m \in Nat
          BY <1>3
        <5> QED
          BY <1>1, <5>1, <5>2
      <4>4. Earlier(t[l[m]], t[l[a + d]])
        BY <1>6, <4>3 DEF OrderAt
      <4> QED
        BY <4>1, <4>3, <4>4
    <3> QED
      BY <3>1, <3>2
  <2> QED
    BY <2>1, <2>2 DEF OrderAt
<1> QED
  BY <1>5, <1>6 DEF u

(* The lru index stays as long as it may be. *)
LEMMA LruLength ==
  ASSUME NEW r \in Requests, NEW l \in Seq(Keys), NEW t \in TimesOf, NEW now \in Nat,
         ListAt(l, t, now), Len(l) = Min({Cap, Cardinality(Used(t))})
  PROVE  Len(Newest(Moved(l, r), Cap)) = Min({Cap, Cardinality(Used(Retouched(t, r, now)))})
<1> DEFINE u == Moved(l, r)
           v == Retouched(t, r, now)
           used == Used(t)
           after == Used(v)
           L == Elements(l)
           U == Elements(u)
<1>1. Cap \in Nat
  BY SizeAssumption
<1>2. after = used \cup KeysOf(r)
  BY RetouchedFacts
<1>3. u \in Seq(Keys) /\ U = L \cup KeysOf(r) /\ IsInjectiveSeq(u)
  BY MovedFacts DEF ListAt
<1>4. L \in SUBSET used
  BY ListFacts DEF ListAt, Used
<1>5. used \in SUBSET Keys /\ after \in SUBSET Keys
  BY DEF Used
<1>6. IsFiniteSet(L) /\ Cardinality(L) = Len(l) /\ Len(l) \in Nat
  BY InjectiveLen DEF ListAt
<1> HIDE DEF u, v
<1>7. IsFiniteSet(U) /\ Cardinality(U) = Len(u) /\ Len(u) \in Nat
  BY <1>3, InjectiveLen
<1>8. Len(Newest(u, Cap)) = IF Len(u) > Cap THEN Cap ELSE Len(u)
  BY <1>1, <1>3, NewestFacts
<1> HIDE DEF used, after, L, U
<1>9. IsFiniteSet(used) /\ IsFiniteSet(after)
  BY <1>5, KeysFinite, FS_Subset
<1>10. Cardinality(used) \in Nat /\ Cardinality(after) \in Nat
  BY <1>9, FS_CardinalityType
<1>11. /\ Len(l) = IF Cap <= Cardinality(used) THEN Cap ELSE Cardinality(used)
       /\ Min({Cap, Cardinality(after)}) = IF Cap <= Cardinality(after) THEN Cap ELSE Cardinality(after)
  BY <1>1, <1>10, MinOfTwo DEF used
<1>12. U \in SUBSET after /\ L \in SUBSET U
  BY <1>2, <1>3, <1>4
<1>13. Len(u) <= Cardinality(after)
  <2>1. Cardinality(U) <= Cardinality(after)
    BY <1>9, <1>12, FS_Subset
  <2> QED
    BY <1>7, <2>1
<1>14. Len(l) <= Len(u)
  <2>1. Cardinality(L) <= Cardinality(U)
    BY <1>7, <1>12, FS_Subset
  <2> QED
    BY <1>6, <1>7, <2>1
<1>15. CASE Len(u) >= Cap
  <2>1. Len(Newest(u, Cap)) = Cap
    BY <1>1, <1>7, <1>8, <1>15
  <2> QED
    BY <1>1, <1>7, <1>10, <1>11, <1>13, <1>15, <2>1 DEF u, v, after
<1>16. CASE Len(u) < Cap
  <2>1. Len(l) = Cardinality(used)
    BY <1>1, <1>6, <1>7, <1>10, <1>11, <1>14, <1>16
  <2>2. L = used
    BY <1>4, <1>6, <1>9, <2>1, FS_Subset
  <2>3. U = after
    BY <1>2, <1>3, <2>2
  <2>4. Len(Newest(u, Cap)) = Cardinality(after)
    BY <1>1, <1>7, <1>8, <1>16, <2>3
  <2> QED
    BY <1>1, <1>7, <1>10, <1>11, <1>16, <2>3, <2>4 DEF u, v, after
<1> QED
  BY <1>1, <1>7, <1>15, <1>16

LruTypes == turn \in Nat /\ lru \in [Instances -> Seq(Keys)] /\ touched \in [Instances -> TimesOf]

LEMMA LruEachNext ==
  ASSUME LruTypes', index' = index,
         \A i \in Instances :
           /\ ListAt(lru'[i], touched'[i], turn')
           /\ IsList => OrderAt(lru'[i], touched'[i]) /\ SizeAt(lru'[i], touched'[i])
  PROVE  LruInv' /\ LruRecent'
<1>1. \A i : InLru(i)' = Elements(lru'[i])
  BY DEF InLru, Elements
<1>2. \A i \in Instances, k \in Keys : touched'[i][k][1] \in Nat
  BY DEF LruTypes, TimesOf
<1>3. \A i \in Instances, k \in Keys : touched'[i][k][1] \in 0..turn' <=> touched'[i][k][1] <= turn'
  BY <1>2 DEF LruTypes
<1>4. LruInv'
  BY <1>1, <1>3 DEF LruInv, ListAt
<1>5. LruRecent'
  BY <1>1 DEF LruRecent, OrderAt, SizeAt, Used, IsList
<1> QED
  BY <1>4, <1>5

LEMMA LruKnown ==
  ASSUME TypeOK
  PROVE  LruTypes /\ policy \in Policies /\ index \in IndexModes
  BY TraceFacts DEF TypeOK, LruTypes, TimesOf

LEMMA LruFrame ==
  ASSUME TypeOK, LruInv, LruRecent, UNCHANGED <<lru, touched, turn, index>>
  PROVE  LruInv' /\ LruRecent' /\ LruTypes'
<1>1. LruTypes'
  BY LruKnown DEF LruTypes
<1>2. \A i \in Instances : /\ ListAt(lru[i], touched[i], turn)
                           /\ IsList => OrderAt(lru[i], touched[i]) /\ SizeAt(lru[i], touched[i])
  BY LruEach
<1> QED
  BY <1>1, <1>2, LruEachNext

LEMMA LruArrive ==
  ASSUME TypeOK, StateInv, LruInv, LruRecent, Arrive
  PROVE  LruInv' /\ LruRecent' /\ LruTypes'
<1> DEFINE r == Trace[turn + 1]
           i == Chosen(r)
<1>1. r \in Requests /\ i \in Instances
  BY ArriveFacts, ChosenFacts
<1>2. turn' = turn + 1 /\ index' = index /\ Dispatched(i, r)
  BY ArriveFacts
<1> HIDE DEF r, i
<1>3. LruTypes /\ index \in IndexModes
  BY LruKnown
<1> DEFINE l == lru[i]
           t == touched[i]
           u == Moved(l, r)
           v == Retouched(t, r, turn)
<1>4. l \in Seq(Keys) /\ t \in TimesOf /\ turn \in Nat /\ u \in Seq(Keys) /\ v \in TimesOf
  <2>1. l \in Seq(Keys) /\ t \in TimesOf /\ turn \in Nat
    BY <1>1, <1>3 DEF LruTypes
  <2> HIDE DEF l, t
  <2> QED
    BY <1>1, <2>1, MovedFacts, RetouchedFacts
<1>5. touched' = [touched EXCEPT ![i] = v]
  BY <1>2 DEF Dispatched, Retouched
<1>6. Touch(i, r) = u
  BY DEF Touch, Moved, InLru, Elements
<1>7. index \in {"exact", "inflight"} => lru' = lru
  BY <1>2 DEF Dispatched
<1>8. index = "lru" => lru' = [lru EXCEPT ![i] = Newest(Touch(i, r), Cap)]
  BY <1>2 DEF Dispatched
<1>9. index \notin {"exact", "inflight", "lru"} => lru' = [lru EXCEPT ![i] = Touch(i, r)]
  BY <1>2 DEF Dispatched
<1>10. \A j \in Instances : /\ ListAt(lru[j], touched[j], turn)
                            /\ IsList => OrderAt(lru[j], touched[j]) /\ SizeAt(lru[j], touched[j])
  BY LruEach
<1>11. Cap \in Nat
  BY SizeAssumption
<1>12. /\ ListAt(u, v, turn + 1) /\ ListAt(l, v, turn + 1)
       /\ OrderAt(l, t) => OrderAt(u, v)
  <2>1. ListAt(l, t, turn)
    BY <1>1, <1>10
  <2> HIDE DEF l, t
  <2> QED
    BY <1>1, <1>4, <2>1, MoveKeeps
<1>13. Elements(u) = Elements(l) \cup KeysOf(r) /\ Used(v) = Used(t) \cup KeysOf(r)
  <2> HIDE DEF l, t
  <2> QED
    BY <1>1, <1>4, MovedFacts, RetouchedFacts
<1>14. /\ Newest(u, Cap) \in Seq(Keys) /\ ListAt(Newest(u, Cap), v, turn + 1)
       /\ OrderAt(u, v) => OrderAt(Newest(u, Cap), v)
  <2>1. turn + 1 \in Nat
    BY <1>4
  <2> HIDE DEF u, v
  <2>2. Newest(u, Cap) \in Seq(Keys)
    BY <1>4, <1>11, NewestFacts
  <2>3. /\ ListAt(Newest(u, Cap), v, turn + 1)
        /\ OrderAt(u, v) => OrderAt(Newest(u, Cap), v)
    BY <1>4, <1>11, <1>12, <2>1, NewestKeeps
  <2> QED
    BY <2>2, <2>3
<1>15. index = "lru" => Len(Newest(u, Cap)) = Min({Cap, Cardinality(Used(v))})
  <2> SUFFICES ASSUME index = "lru" PROVE Len(Newest(u, Cap)) = Min({Cap, Cardinality(Used(v))})
    OBVIOUS
  <2>1. ListAt(l, t, turn) /\ Len(l) = Min({Cap, Cardinality(Used(t))})
    BY <1>1, <1>10 DEF SizeAt, IsList
  <2> HIDE DEF l, t
  <2> QED
    BY <1>1, <1>4, <2>1, LruLength
<1>16. \A k \in Keys : touched[i][k][1] <= turn
  BY <1>1, <1>10 DEF ListAt
<1>17. ASSUME NEW j \in Instances
       PROVE  /\ lru'[j] \in Seq(Keys) /\ touched'[j] \in TimesOf
              /\ ListAt(lru'[j], touched'[j], turn + 1)
              /\ IsList => OrderAt(lru'[j], touched'[j]) /\ SizeAt(lru'[j], touched'[j])
  <2>1. lru[j] \in Seq(Keys) /\ touched[j] \in TimesOf
    BY <1>3 DEF LruTypes
  <2>2. CASE j = i
    <3>1. touched'[j] = v /\ lru[j] = l /\ touched[j] = t
      BY <1>1, <1>3, <1>5, <2>2 DEF LruTypes
    <3>2. CASE index \in {"exact", "inflight"}
      BY <1>4, <1>7, <1>12, <3>1, <3>2 DEF IsList
    <3>3. CASE index = "lru"
      <4>1. lru'[j] = Newest(u, Cap)
        BY <1>1, <1>3, <1>6, <1>8, <2>2, <3>3 DEF LruTypes
      <4>2. OrderAt(l, t)
        BY <1>1, <1>10, <3>3 DEF IsList
      <4> HIDE DEF l, t, u, v
      <4>3. SizeAt(Newest(u, Cap), v)
        BY <1>15, <3>3 DEF SizeAt
      <4> QED
        BY <1>4, <1>12, <1>14, <3>1, <4>1, <4>2, <4>3
    <3>4. CASE index \notin {"exact", "inflight", "lru"}
      <4>1. lru'[j] = u
        BY <1>1, <1>3, <1>6, <1>9, <2>2, <3>4 DEF LruTypes
      <4>2. OrderAt(l, t) /\ SizeAt(l, t)
        BY <1>1, <1>10, <3>4 DEF IsList
      <4> HIDE DEF l, t, u, v
      <4>3. SizeAt(u, v)
        BY <1>13, <3>4, <4>2 DEF SizeAt
      <4> QED
        BY <1>4, <1>12, <3>1, <4>1, <4>2, <4>3
    <3> QED
      BY <3>2, <3>3, <3>4
  <2>3. CASE j # i
    <3>1. lru'[j] = lru[j] /\ touched'[j] = touched[j]
      BY <1>1, <1>3, <1>5, <1>7, <1>8, <1>9, <2>3 DEF LruTypes
    <3>2. ListAt(lru[j], touched[j], turn + 1)
      <4>1. ListAt(lru[j], touched[j], turn)
        BY <1>10
      <4>2. \A k \in Keys : touched[j][k][1] <= turn + 1
        <5>1. \A k \in Keys : touched[j][k][1] <= turn /\ touched[j][k][1] \in Nat
          BY <2>1, <4>1 DEF ListAt, TimesOf
        <5> QED
          BY <1>4, <5>1
      <4> QED
        BY <4>1, <4>2 DEF ListAt
    <3> QED
      BY <1>10, <2>1, <3>1, <3>2
  <2> QED
    BY <2>2, <2>3
<1>18. LruTypes'
  <2>1. DOMAIN lru' = Instances /\ lru' = [j \in Instances |-> lru'[j]]
    BY <1>3, <1>7, <1>8, <1>9 DEF LruTypes
  <2>2. touched' = [j \in Instances |-> touched'[j]]
    BY <1>3, <1>5 DEF LruTypes
  <2>3. \A j \in Instances : lru'[j] \in Seq(Keys) /\ touched'[j] \in TimesOf
    BY <1>17
  <2>4. lru' \in [Instances -> Seq(Keys)]
    BY <2>1, <2>3
  <2>5. touched' \in [Instances -> TimesOf]
    BY <2>2, <2>3
  <2> QED
    BY <1>2, <1>4, <2>4, <2>5 DEF LruTypes
<1>19. \A j \in Instances :
         /\ ListAt(lru'[j], touched'[j], turn')
         /\ IsList => OrderAt(lru'[j], touched'[j]) /\ SizeAt(lru'[j], touched'[j])
  BY <1>2, <1>17
<1> QED
  BY <1>2, <1>18, <1>19, LruEachNext

LEMMA LruTrim ==
  ASSUME TypeOK, LruInv, LruRecent, Trim
  PROVE  LruInv' /\ LruRecent' /\ LruTypes'
<1>1. /\ index = "sglang" /\ lru' = [i \in Instances |-> Newest(lru[i], TrimBlocks)]
      /\ UNCHANGED <<turn, touched, index>>
  BY DEF Trim
<1>2. LruTypes /\ TrimBlocks \in Nat
  BY LruKnown, SizeAssumption
<1>3. ASSUME NEW j \in Instances
      PROVE  /\ lru'[j] \in Seq(Keys) /\ ListAt(lru'[j], touched[j], turn)
             /\ IsList => OrderAt(lru'[j], touched[j]) /\ SizeAt(lru'[j], touched[j])
  <2>1. lru[j] \in Seq(Keys) /\ touched[j] \in TimesOf /\ turn \in Nat
    BY <1>2 DEF LruTypes
  <2>2. /\ ListAt(lru[j], touched[j], turn) /\ OrderAt(lru[j], touched[j])
    BY <1>1, LruEach DEF IsList
  <2>3. lru'[j] = Newest(lru[j], TrimBlocks)
    BY <1>1
  <2>4. Newest(lru[j], TrimBlocks) \in Seq(Keys)
    BY <1>2, <2>1, NewestFacts
  <2>5. /\ ListAt(Newest(lru[j], TrimBlocks), touched[j], turn)
        /\ OrderAt(Newest(lru[j], TrimBlocks), touched[j])
    BY <1>2, <2>1, <2>2, NewestKeeps
  <2>6. SizeAt(lru'[j], touched[j])
    BY <1>1 DEF SizeAt
  <2> QED
    BY <2>3, <2>4, <2>5, <2>6
<1>4. LruTypes'
  <2>1. lru' \in [Instances -> Seq(Keys)]
    BY <1>1, <1>3
  <2> QED
    BY <1>1, <1>2, <2>1 DEF LruTypes
<1> QED
  BY <1>1, <1>3, <1>4, LruEachNext

-----------------------------------------------------------------------------
(* The detector's window *)

LEMMA GreatestNat ==
  ASSUME NEW n \in Nat, NEW S \in SUBSET (0..n), S # {}
  PROVE  Max(S) \in S /\ \A y \in S : Max(S) >= y
<1> DEFINE T == {n - y : y \in S}
<1>1. T \in SUBSET Nat /\ T # {}
  <2>1. \A y \in S : y \in 0..n
    OBVIOUS
  <2>2. \A y \in S : n - y \in Nat
    BY <2>1
  <2> QED
    BY <2>2
<1>2. PICK x \in T : \A y \in T : x <= y
  <2> HIDE DEF T
  <2> QED
    BY <1>1, LeastNat
<1>3. PICK m \in S : x = n - m
  OBVIOUS
<1>4. ASSUME NEW y \in S PROVE m >= y
  <2>1. n - m <= n - y
    BY <1>2, <1>3
  <2>2. y \in 0..n /\ m \in 0..n
    OBVIOUS
  <2> QED
    BY <2>1, <2>2
<1> QED
  BY <1>3, <1>4 DEF Max

(* Trimming takes away the expired head, and stops at an arrival inside.    *)
LEMMA ExpiredFacts ==
  ASSUME NEW all \in Seq(Int \X Classes), NEW now \in Int
  PROVE  /\ Expired(all, now) \in 0..Len(all)
         /\ \A m \in 1..Expired(all, now) : all[m][1] <= now - WindowMs
         /\ Expired(all, now) < Len(all) => ~(all[Expired(all, now) + 1][1] <= now - WindowMs)
<1> DEFINE S == {n \in 0..Len(all) : \A m \in 1..n : all[m][1] <= now - WindowMs}
           n == Max(S)
<1>1. Len(all) \in Nat
  BY ListFacts
<1>2. S \in SUBSET (0..Len(all)) /\ 0 \in S
  BY <1>1
<1>3. n \in S /\ \A y \in S : n >= y
  <2> HIDE DEF S
  <2> QED
    BY <1>1, <1>2, GreatestNat
<1>4. n \in 0..Len(all) /\ \A m \in 1..n : all[m][1] <= now - WindowMs
  BY <1>3
<1>5. ASSUME n < Len(all), all[n + 1][1] <= now - WindowMs PROVE FALSE
  <2> HIDE DEF n
  <2>1. n + 1 \in 0..Len(all)
    BY <1>1, <1>4, <1>5
  <2>2. \A m \in 1..(n + 1) : all[m][1] <= now - WindowMs
    BY <1>4, <1>5
  <2>3. n + 1 \in S
    BY <2>1, <2>2
  <2> QED
    BY <1>3, <1>4, <2>3
<1>6. Expired(all, now) = n
  BY DEF Expired
<1> HIDE DEF n
<1> QED
  BY <1>4, <1>5, <1>6

(* The time and the class of the n-th arrival. *)
Time(n) == Arrival[Trace[n]]
Kind(n) == Class[Trace[n]]

LEMMA TimeFacts ==
  /\ \A n \in 1..Len(Trace) : Time(n) \in Int /\ Kind(n) \in Classes
  /\ \A m, n \in 1..Len(Trace) : m <= n => Time(m) <= Time(n)
<1>1. \A n \in 1..Len(Trace) : Time(n) \in Int /\ Kind(n) \in Classes
  BY TraceFacts, TraceAssumption DEF Time, Kind, Classes
<1>2. ASSUME NEW m \in 1..Len(Trace), NEW n \in 1..Len(Trace), m <= n
      PROVE  Time(m) <= Time(n)
  <2>1. CASE m = n
    BY <1>1, <2>1
  <2>2. CASE m < n
    BY <2>2, TraceFacts, TraceAssumption DEF Time
  <2> QED
    BY <1>2, <2>1, <2>2
<1> QED
  BY <1>1, <1>2

\* The arrivals of class c from the a-th to the b-th.
OfKind(a, b, c) == {m \in a..b : Kind(m) = c}

\* Of the first n arrivals, those out of the window are the first d.
Inside(n, d) == \A m \in 1..n : m <= d <=> Time(m) <= Time(n) - WindowMs

(* WindowInv, when d arrivals of the first n are out of the deque a.        *)
WindowAt(a, number, n, d) ==
  /\ Len(a) = n - d
  /\ \A m \in 1..(n - d) : a[m] = <<Time(m + d), Kind(m + d)>>
  /\ Inside(n, d)
  /\ \A c \in Classes : number[c] = Cardinality(OfKind(d + 1, n, c))

LEMMA WindowEach ==
  /\ WindowInv <=> (policy = "lmetric_detector" => \E d \in 0..turn : WindowAt(arrivals, counts, turn, d))
  /\ WindowInv' <=> (policy' = "lmetric_detector"
                       => \E d \in 0..turn' : WindowAt(arrivals', counts', turn', d))
  BY DEF WindowInv, WindowAt, Inside, OfKind, Time, Kind

LEMMA RangeFinite ==
  ASSUME NEW a \in Int, NEW b \in Int, NEW c
  PROVE  IsFiniteSet(OfKind(a, b, c)) /\ Cardinality(OfKind(a, b, c)) \in Nat
<1>1. IsFiniteSet(a..b)
  BY FS_Interval
<1>2. OfKind(a, b, c) \in SUBSET (a..b)
  BY DEF OfKind
<1>3. IsFiniteSet(OfKind(a, b, c))
  BY <1>1, <1>2, FS_Subset
<1> QED
  BY <1>3, FS_CardinalityType

(* The deque after the arrival n + 1 is all, before its head is trimmed of  *)
(* x arrivals.                                                              *)
Holds(all, n, d) == \A m \in 1..(n - d + 1) : all[m] = <<Time(m + d), Kind(m + d)>>
Trimmed(all, now, x) ==
  /\ \A m \in 1..x : all[m][1] <= now - WindowMs
  /\ x < Len(all) => ~(all[x + 1][1] <= now - WindowMs)

LEMMA DequeKeeps ==
  ASSUME NEW n \in Nat, n < Len(Trace), NEW d \in 0..n, Inside(n, d),
         NEW all \in Seq(Int \X Classes), Len(all) = n - d + 1, Holds(all, n, d),
         NEW x \in 0..Len(all), Trimmed(all, Time(n + 1), x)
  PROVE  /\ d + x \in 0..(n + 1)
         /\ Inside(n + 1, d + x)
         /\ SubSeq(all, x + 1, Len(all)) \in Seq(Int \X Classes)
         /\ Len(SubSeq(all, x + 1, Len(all))) = (n + 1) - (d + x)
         /\ \A m \in 1..((n + 1) - (d + x)) :
              SubSeq(all, x + 1, Len(all))[m] = <<Time(m + (d + x)), Kind(m + (d + x))>>
<1> DEFINE now == Time(n + 1)
           b == SubSeq(all, x + 1, Len(all))
           past == now - WindowMs
<1>1. Len(Trace) \in Nat /\ n + 1 \in 1..Len(Trace) /\ \A m \in 1..(n + 1) : m \in 1..Len(Trace)
  BY TraceFacts
<1>2. /\ \A m \in 1..(n + 1) : Time(m) \in Int
      /\ \A l, m \in 1..(n + 1) : l <= m => Time(l) <= Time(m)
      /\ now \in Int /\ WindowMs \in Nat
  BY <1>1, TimeFacts, SizeAssumption
<1>3. x \in Nat /\ x <= n - d + 1 /\ d \in Nat /\ d <= n /\ d + x \in 0..(n + 1)
  OBVIOUS
<1>4. past \in Int /\ past = now - WindowMs
  BY <1>2
<1>5. \A m \in 1..x : all[m][1] <= past
  BY DEF Trimmed
<1>6. x < n - d + 1 => ~(all[x + 1][1] <= past)
  BY DEF Trimmed
<1>7. \A m \in 1..(n - d + 1) : all[m] = <<Time(m + d), Kind(m + d)>> /\ all[m][1] = Time(m + d)
  BY DEF Holds
<1> HIDE DEF now, b, past
<1>8. ASSUME NEW m \in 1..(n + 1) PROVE m <= d + x <=> Time(m) <= past
  <2>1. Time(m) \in Int /\ m \in Nat
    BY <1>2
  <2>2. CASE m <= d
    <3>1. m \in 1..n /\ n \in 1..(n + 1) /\ n + 1 \in 1..(n + 1) /\ n <= n + 1
      BY <1>3, <2>2
    <3>2. Time(m) <= Time(n) - WindowMs
      BY <2>2, <3>1 DEF Inside
    <3>3. Time(n) <= now /\ Time(n) \in Int
      BY <1>2, <3>1 DEF now
    <3>4. Time(m) <= past
      BY <1>2, <1>4, <2>1, <3>2, <3>3
    <3> QED
      BY <1>3, <2>1, <2>2, <3>4
  <2>3. CASE ~(m <= d) /\ m <= d + x
    <3>1. m - d \in 1..x /\ m - d \in 1..(n - d + 1) /\ (m - d) + d = m
      BY <1>3, <2>1, <2>3
    <3>2. all[m - d][1] = Time((m - d) + d)
      BY <1>7, <3>1
    <3>3. all[m - d][1] <= past
      BY <1>5, <3>1
    <3> QED
      BY <2>3, <3>1, <3>2, <3>3
  <2>4. CASE ~(m <= d + x)
    <3>1. /\ x < n - d + 1 /\ x + 1 \in 1..(n - d + 1) /\ (x + 1) + d \in 1..(n + 1)
          /\ (x + 1) + d <= m
      BY <1>3, <2>1, <2>4
    <3>2. all[x + 1][1] = Time((x + 1) + d)
      BY <1>7, <3>1
    <3>3. ~(Time((x + 1) + d) <= past)
      BY <1>6, <3>1, <3>2
    <3>4. Time((x + 1) + d) <= Time(m) /\ Time((x + 1) + d) \in Int
      BY <1>2, <3>1
    <3> QED
      BY <1>4, <2>1, <2>4, <3>3, <3>4
  <2> QED
    BY <1>3, <2>1, <2>2, <2>3, <2>4
<1> DEFINE y == x + 1
           z == Len(all)
<1>9. z \in Nat /\ y \in 1..(z + 1) /\ z = n - d + 1 /\ y = x + 1
  BY <1>3
<1>10. b = SubSeq(all, y, z)
  BY DEF b
<1> HIDE DEF y
<1>11. b \in Seq(Int \X Classes) /\ Len(b) = z - y + 1 /\ \A m \in 1..(z - y + 1) : b[m] = all[y + m - 1]
  BY <1>9, <1>10
<1> HIDE DEF z
<1>12. Len(b) = (n + 1) - (d + x)
  BY <1>3, <1>9, <1>11
<1>13. ASSUME NEW m \in 1..((n + 1) - (d + x))
       PROVE  b[m] = <<Time(m + (d + x)), Kind(m + (d + x))>>
  <2>1. m \in 1..(z - y + 1) /\ y + m - 1 \in 1..(n - d + 1) /\ (y + m - 1) + d = m + (d + x)
    BY <1>3, <1>9
  <2>2. b[m] = all[y + m - 1]
    BY <1>11, <2>1
  <2>3. all[y + m - 1] = <<Time((y + m - 1) + d), Kind((y + m - 1) + d)>>
    BY <1>7, <2>1
  <2> QED
    BY <2>1, <2>2, <2>3
<1> QED
  BY <1>3, <1>8, <1>11, <1>12, <1>13 DEF b, past, now, Inside

\* Of the x arrivals trimmed, those of class c.
Gone(all, x, c) == {m \in 1..x : all[m][2] = c}

LEMMA CountKeeps ==
  ASSUME NEW n \in Nat, NEW d \in 0..n, NEW x \in 0..(n - d + 1), NEW c,
         NEW all, Holds(all, n, d)
  PROVE  Cardinality(OfKind(d + x + 1, n + 1, c))
           = Cardinality(OfKind(d + 1, n, c)) + (IF c = Kind(n + 1) THEN 1 ELSE 0)
             - Cardinality(Gone(all, x, c))
<1> DEFINE E == OfKind(d + 1, n, c)
           F == OfKind(d + 1, n + 1, c)
           G == OfKind(d + 1, d + x, c)
           H == OfKind(d + x + 1, n + 1, c)
           D == {m \in 1..x : all[m][2] = c}
           f == [m \in D |-> m + d]
<1>0. d \in Nat /\ d <= n /\ x \in Nat /\ x <= n - d + 1
  OBVIOUS
<1>00. \A m \in 1..(n - d + 1) : all[m][2] = Kind(m + d)
  BY DEF Holds
<1>1. /\ IsFiniteSet(E) /\ Cardinality(E) \in Nat
  BY <1>0, RangeFinite
<1>2. IsFiniteSet(F) /\ Cardinality(F) \in Nat
  BY <1>0, RangeFinite
<1>3. IsFiniteSet(G) /\ Cardinality(G) \in Nat
  BY <1>0, RangeFinite
<1>4. Cardinality(F) = Cardinality(E) + (IF c = Kind(n + 1) THEN 1 ELSE 0)
  <2>1. CASE c = Kind(n + 1)
    <3>1. F = E \cup {n + 1} /\ n + 1 \notin E
      BY <1>0, <2>1 DEF OfKind
    <3> HIDE DEF E, F
    <3>2. Cardinality(E \cup {n + 1}) = Cardinality(E) + 1
      BY <1>1, <3>1, FS_AddElement
    <3> QED
      BY <2>1, <3>1, <3>2
  <2>2. CASE c # Kind(n + 1)
    <3>1. F = E
      BY <1>0, <2>2 DEF OfKind
    <3> HIDE DEF E, F
    <3> QED
      BY <1>1, <2>2, <3>1
  <2> QED
    BY <2>1, <2>2
<1>5. H = F \ G /\ G \in SUBSET F
  BY <1>0 DEF OfKind
<1>6. Cardinality(H) = Cardinality(F) - Cardinality(G)
  <2> HIDE DEF F, G, H
  <2> QED
    BY <1>2, <1>5, CountRemoved
<1>7. ASSUME NEW m \in D PROVE m \in 1..x /\ m + d \in G /\ f[m] = m + d
  <2>1. m \in 1..x /\ m \in 1..(n - d + 1) /\ m + d \in (d + 1)..(d + x)
    BY <1>0
  <2>2. all[m][2] = c /\ all[m][2] = Kind(m + d)
    BY <1>00, <2>1
  <2>3. m + d \in G
    BY <2>1, <2>2 DEF OfKind
  <2> QED
    BY <2>1, <2>3
<1>8. ASSUME NEW k \in G PROVE k - d \in D /\ (k - d) + d = k
  <2>0. k \in (d + 1)..(d + x) /\ Kind(k) = c
    BY DEF OfKind
  <2>1. k - d \in 1..x /\ k - d \in 1..(n - d + 1) /\ (k - d) + d = k
    BY <1>0, <2>0
  <2>2. all[k - d][2] = Kind((k - d) + d) /\ Kind(k) = c
    BY <1>00, <2>0, <2>1
  <2>3. all[k - d][2] = c
    BY <2>1, <2>2
  <2> QED
    BY <2>1, <2>3
<1>9. f \in Bijection(D, G)
  <2>1. \A m \in D : f[m] \in G
    BY <1>7
  <2>2. ASSUME NEW l \in D, NEW m \in D, f[l] = f[m] PROVE l = m
    <3>1. l \in 1..x /\ m \in 1..x /\ l + d = m + d
      BY <1>7, <2>2
    <3> QED
      BY <1>0, <3>1
  <2>3. ASSUME NEW k \in G PROVE \E m \in D : f[m] = k
    BY <1>7, <1>8
  <2> QED
    BY <2>1, <2>2, <2>3, Fun_IsBij
<1>10. Cardinality(D) = Cardinality(G)
  <2>1. IsFiniteSet(D)
    <3>1. IsFiniteSet(1..x) /\ D \in SUBSET (1..x)
      BY <1>0, FS_Interval
    <3> HIDE DEF D
    <3> QED
      BY <3>1, FS_Subset
  <2> HIDE DEF D, G, f
  <2>2. ExistsBijection(D, G)
    BY <1>9 DEF ExistsBijection
  <2> QED
    BY <2>1, <2>2, FS_Bijection
<1> HIDE DEF D, E, F, G, H, f
<1>11. Cardinality(H) = Cardinality(E) + (IF c = Kind(n + 1) THEN 1 ELSE 0) - Cardinality(D)
  BY <1>1, <1>2, <1>3, <1>4, <1>6, <1>10
<1> QED
  BY <1>11 DEF D, E, H, Gone

LEMMA DetectorTypes ==
  ASSUME TypeOK
  PROVE  /\ arrivals \in Seq(Int \X Classes) /\ verdicts \in Seq(Verdicts)
         /\ counts \in [Classes -> Nat] /\ streak \in [Classes -> Nat] /\ filtering \subseteq Classes
         /\ turn \in 0..Len(Trace) /\ turn \in Nat
  BY TraceFacts DEF TypeOK

LEMMA WindowArrive ==
  ASSUME TypeOK, StateInv, WindowInv, Arrive
  PROVE  WindowInv' /\ arrivals' \in Seq(Int \X Classes) /\ counts' \in [Classes -> Nat]
<1> DEFINE r == Trace[turn + 1]
           n == turn
           now == Time(n + 1)
           all == Append(arrivals, <<now, Kind(n + 1)>>)
           x == Expired(all, now)
<1>1. /\ turn' = turn + 1 /\ policy' = policy
      /\ IF policy = "lmetric_detector" THEN Judge(Observed(r), ArriveHits(r), r)
                                        ELSE UNCHANGED detector
  BY ArriveFacts
<1>2. CASE policy # "lmetric_detector"
  <2>1. UNCHANGED <<arrivals, counts>>
    BY <1>1, <1>2 DEF detector
  <2>2. WindowInv'
    BY <1>1, <1>2 DEF WindowInv
  <2> QED
    BY <2>1, <2>2, DetectorTypes
<1>3. CASE policy = "lmetric_detector"
  <2>1. n \in Nat /\ n < Len(Trace) /\ n + 1 \in 1..Len(Trace) /\ Len(Trace) \in Nat
    BY ArriveFacts, DetectorTypes, TraceFacts
  <2>2. arrivals' = Observed(r).arrivals /\ counts' = Observed(r).counts
    BY <1>1, <1>3 DEF Judge
  <2>3. now = Arrival[r] /\ Kind(n + 1) = Class[r]
    BY DEF Time, Kind
  <2> HIDE DEF now
  <2>4. /\ Observed(r).arrivals = SubSeq(all, x + 1, Len(all))
        /\ Observed(r).counts = [c \in Classes |-> counts[c] + (IF c = Class[r] THEN 1 ELSE 0)
                                                   - Cardinality({m \in 1..x : all[m][2] = c})]
    BY <2>3 DEF Observed
  <2>5. PICK d \in 0..n : WindowAt(arrivals, counts, n, d)
    BY <1>3, WindowEach
  <2>6. /\ Len(arrivals) = n - d
        /\ \A m \in 1..(n - d) : arrivals[m] = <<Time(m + d), Kind(m + d)>>
        /\ Inside(n, d)
        /\ \A c \in Classes : counts[c] = Cardinality(OfKind(d + 1, n, c))
    BY <2>5 DEF WindowAt
  <2>7. now \in Int /\ Kind(n + 1) \in Classes
    BY <2>1, TimeFacts DEF now
  <2>8. <<now, Kind(n + 1)>> \in Int \X Classes /\ arrivals \in Seq(Int \X Classes)
    BY <2>7, DetectorTypes
  <2>9. d \in Nat /\ d <= n /\ DOMAIN arrivals = 1..(n - d)
    BY <2>1, <2>6, <2>8, ListFacts
  <2>10. /\ all \in Seq(Int \X Classes) /\ Len(all) = Len(arrivals) + 1
         /\ \A m \in DOMAIN arrivals : all[m] = arrivals[m]
         /\ all[Len(arrivals) + 1] = <<now, Kind(n + 1)>>
    BY <2>8, AppendFacts
  <2> HIDE DEF all, n
  <2>11. Holds(all, n, d)
    <3> SUFFICES ASSUME NEW m \in 1..(n - d + 1) PROVE all[m] = <<Time(m + d), Kind(m + d)>>
      BY DEF Holds
    <3>1. CASE m = n - d + 1
      <4>1. m + d = n + 1 /\ m = Len(arrivals) + 1
        BY <2>1, <2>6, <2>9, <3>1
      <4> QED
        BY <2>10, <4>1 DEF now
    <3>2. CASE m # n - d + 1
      <4>1. m \in 1..(n - d)
        BY <2>1, <2>9, <3>2
      <4> QED
        BY <2>6, <2>9, <2>10, <4>1
    <3> QED
      BY <3>1, <3>2
  <2>12. Len(all) = n - d + 1
    BY <2>1, <2>6, <2>9, <2>10
  <2>13. x \in 0..Len(all) /\ Trimmed(all, now, x)
    BY <2>7, <2>10, ExpiredFacts DEF Trimmed
  <2> HIDE DEF x
  <2> DEFINE a == SubSeq(all, x + 1, Len(all))
  <2>14. /\ d + x \in 0..(n + 1)
         /\ Inside(n + 1, d + x)
         /\ a \in Seq(Int \X Classes) /\ Len(a) = (n + 1) - (d + x)
         /\ \A m \in 1..((n + 1) - (d + x)) : a[m] = <<Time(m + (d + x)), Kind(m + (d + x))>>
    BY <2>1, <2>6, <2>10, <2>11, <2>12, <2>13, DequeKeeps DEF now
  <2> HIDE DEF a
  <2>15. ASSUME NEW c \in Classes
         PROVE  /\ counts'[c] = Cardinality(OfKind((d + x) + 1, n + 1, c))
                /\ counts'[c] \in Nat
    <3>1. x \in 0..(n - d + 1)
      BY <2>12, <2>13
    <3>2. Cardinality(OfKind(d + x + 1, n + 1, c))
            = Cardinality(OfKind(d + 1, n, c)) + (IF c = Kind(n + 1) THEN 1 ELSE 0)
              - Cardinality(Gone(all, x, c))
      BY <2>1, <2>11, <3>1, CountKeeps
    <3>3. counts'[c] = counts[c] + (IF c = Kind(n + 1) THEN 1 ELSE 0) - Cardinality(Gone(all, x, c))
      BY <2>2, <2>3, <2>4 DEF Gone
    <3>4. counts[c] = Cardinality(OfKind(d + 1, n, c))
      BY <2>6
    <3>5. counts'[c] = Cardinality(OfKind(d + x + 1, n + 1, c))
      BY <3>2, <3>3, <3>4
    <3>6. Cardinality(OfKind(d + x + 1, n + 1, c)) \in Nat
      <4>1. d + x + 1 \in Int /\ n + 1 \in Int
        BY <2>1, <2>9, <3>1
      <4> QED
        BY <4>1, RangeFinite
    <3> QED
      BY <3>5, <3>6
  <2>16. counts' \in [Classes -> Nat]
    <3>1. counts' = [c \in Classes |-> counts'[c]]
      BY <2>2, <2>4
    <3> QED
      BY <2>15, <3>1
  <2>17. arrivals' = a
    BY <2>2, <2>4 DEF a
  <2>18. WindowAt(arrivals', counts', n + 1, d + x)
    BY <2>14, <2>15, <2>17 DEF WindowAt, now
  <2>19. turn' = n + 1 /\ policy' = "lmetric_detector"
    BY <1>1, <1>3 DEF n
  <2>20. WindowInv'
    BY <2>14, <2>18, <2>19, WindowEach
  <2> QED
    BY <2>14, <2>16, <2>17, <2>20
<1> QED
  BY <1>2, <1>3

LEMMA WindowFrame ==
  ASSUME WindowInv, UNCHANGED <<policy, turn, arrivals, counts>>
  PROVE  WindowInv'
  BY DEF WindowInv

(* What the deque and the counts hold is what the window holds. *)
LEMMA WindowMeans ==
  ASSUME TypeOK, WindowInv
  PROVE  WindowCounts
<1> SUFFICES ASSUME policy = "lmetric_detector", turn > 0
             PROVE  LET inside == {n \in 1..turn : Arrival[Trace[n]] > Arrival[Trace[turn]] - WindowMs}
                    IN /\ Len(arrivals) = Cardinality(inside)
                       /\ \A c \in Classes : counts[c] = Cardinality({n \in inside : Class[Trace[n]] = c})
  BY DEF WindowCounts
<1> DEFINE inside == {n \in 1..turn : Arrival[Trace[n]] > Arrival[Trace[turn]] - WindowMs}
<1>1. turn \in Nat /\ turn \in 1..Len(Trace) /\ Len(Trace) \in Nat /\ WindowMs \in Nat
  BY DetectorTypes, TraceFacts, SizeAssumption
<1>2. PICK d \in 0..turn : WindowAt(arrivals, counts, turn, d)
  BY WindowEach
<1>3. /\ Len(arrivals) = turn - d
      /\ \A n \in 1..turn : n <= d <=> Time(n) <= Time(turn) - WindowMs
      /\ \A c \in Classes : counts[c] = Cardinality(OfKind(d + 1, turn, c))
  BY <1>2 DEF WindowAt, Inside
<1>4. \A n \in 1..turn : n \in 1..Len(Trace)
  BY <1>1
<1>5. \A n \in 1..turn : Time(n) \in Int /\ Time(turn) \in Int
  BY <1>1, <1>4, TimeFacts
<1>6. ASSUME NEW n PROVE n \in inside <=> n \in (d + 1)..turn
  <2>1. CASE n \in 1..turn
    <3>1. n \in inside <=> Time(n) > Time(turn) - WindowMs
      BY <2>1 DEF Time
    <3>2. n \in inside <=> ~(n <= d)
      BY <1>1, <1>3, <1>5, <2>1, <3>1
    <3> QED
      BY <1>1, <2>1, <3>2
  <2>2. CASE n \notin 1..turn
    BY <1>1, <2>2
  <2> QED
    BY <2>1, <2>2
<1>7. inside = (d + 1)..turn
  BY <1>6
<1> HIDE DEF inside
<1>8. Cardinality((d + 1)..turn) = turn - d
  <2>1. d + 1 \in Int /\ turn \in Int /\ d + 1 <= turn + 1 /\ turn - (d + 1) + 1 = turn - d
    BY <1>1
  <2>2. Cardinality((d + 1)..turn) = IF d + 1 > turn THEN 0 ELSE turn - (d + 1) + 1
    BY <2>1, FS_Interval
  <2> QED
    BY <1>1, <2>1, <2>2
<1>9. ASSUME NEW c \in Classes PROVE counts[c] = Cardinality({n \in inside : Class[Trace[n]] = c})
  <2>1. {n \in inside : Class[Trace[n]] = c} = OfKind(d + 1, turn, c)
    BY <1>7 DEF OfKind, Kind
  <2> QED
    BY <1>3, <2>1
<1> QED
  BY <1>3, <1>7, <1>8, <1>9 DEF inside

-----------------------------------------------------------------------------
(* Filtering *)

(* FilteringMeans and StreakInv of one class, from its own verdicts.        *)
Stands(own) ==
  \E n \in DOMAIN own :
    LET from == n - 2 * own[n].holders + 1
    IN /\ own[n].alarm /\ from >= 1
       /\ \A m \in from..n : own[m].counts
       /\ \A m \in n..Len(own) : own[m].alarm

RunAt(own, s) ==
  /\ s <= Len(own)
  /\ \A m \in (Len(own) - s + 1)..Len(own) : own[m].counts
  /\ s = Len(own) \/ ~own[Len(own) - s].counts

Sound(v) == (v.counts => v.alarm) /\ (v.alarm => v.holders > 0)

LEMMA FilteringEach ==
  /\ FilteringMeans /\ StreakInv
       <=> /\ \A c \in Classes : c \in filtering <=> Stands(Own(c))
           /\ \A c \in Classes \ filtering : RunAt(Own(c), streak[c])
           /\ \A v \in Elements(verdicts) : Sound(v)
  /\ FilteringMeans' /\ StreakInv'
       <=> /\ \A c \in Classes : c \in filtering' <=> Stands(Own(c)')
           /\ \A c \in Classes \ filtering' : RunAt(Own(c)', streak'[c])
           /\ \A v \in Elements(verdicts') : Sound(v)
<1>1. FilteringMeans /\ StreakInv
        <=> /\ \A c \in Classes : c \in filtering <=> Stands(Own(c))
            /\ \A c \in Classes \ filtering : RunAt(Own(c), streak[c])
            /\ \A v \in Elements(verdicts) : Sound(v)
  BY DEF FilteringMeans, StreakInv, Stands, RunAt, Sound
<1>2. FilteringMeans' /\ StreakInv'
        <=> /\ \A c \in Classes : c \in filtering' <=> Stands(Own(c)')
            /\ \A c \in Classes \ filtering' : RunAt(Own(c)', streak'[c])
            /\ \A v \in Elements(verdicts') : Sound(v)
  BY DEF FilteringMeans, StreakInv, Stands, RunAt, Sound
<1> QED
  BY <1>1, <1>2

LEMMA GrownFacts ==
  ASSUME NEW own \in Seq(Verdicts), NEW v \in Verdicts
  PROVE  /\ Append(own, v) \in Seq(Verdicts) /\ Len(own) \in Nat
         /\ Len(Append(own, v)) = Len(own) + 1
         /\ DOMAIN own = 1..Len(own) /\ DOMAIN Append(own, v) = 1..(Len(own) + 1)
         /\ \A m \in 1..Len(own) : Append(own, v)[m] = own[m]
         /\ Append(own, v)[Len(own) + 1] = v
<1>1. DOMAIN own = 1..Len(own) /\ Len(own) \in Nat
  BY ListFacts
<1>2. /\ Append(own, v) \in Seq(Verdicts) /\ Len(Append(own, v)) = Len(own) + 1
      /\ \A m \in DOMAIN own : Append(own, v)[m] = own[m]
      /\ Append(own, v)[Len(own) + 1] = v
  BY AppendFacts
<1>3. DOMAIN Append(own, v) = 1..(Len(own) + 1)
  BY <1>2, ListFacts
<1> QED
  BY <1>1, <1>2, <1>3

(* A request that raises no alarm ends the filtering and the streak. *)
LEMMA NoAlarm ==
  ASSUME NEW own \in Seq(Verdicts), NEW v \in Verdicts, Sound(v), ~v.alarm
  PROVE  ~Stands(Append(own, v)) /\ RunAt(Append(own, v), 0)
<1> DEFINE a == Append(own, v)
           k == Len(own)
<1>1. k \in Nat /\ Len(a) = k + 1 /\ DOMAIN a = 1..(k + 1) /\ a[k + 1] = v
  BY GrownFacts
<1> HIDE DEF a, k
<1>2. \A n \in 1..(k + 1) : k + 1 \in n..(k + 1)
  BY <1>1
<1>3. ~Stands(a)
  BY <1>1, <1>2 DEF Stands
<1>4. RunAt(a, 0)
  <2>1. 0 <= k + 1 /\ k + 1 - 0 = k + 1 /\ (k + 1 - 0 + 1)..(k + 1) = {}
    BY <1>1
  <2>2. ~a[k + 1].counts
    BY <1>1 DEF Sound
  <2> QED
    BY <1>1, <2>1, <2>2 DEF RunAt
<1> QED
  BY <1>3, <1>4 DEF a

(* Once it stands, filtering lasts as long as the alarm. *)
LEMMA StillStands ==
  ASSUME NEW own \in Seq(Verdicts), NEW v \in Verdicts, Stands(own), v.alarm
  PROVE  Stands(Append(own, v))
<1> DEFINE a == Append(own, v)
           k == Len(own)
<1>1. /\ k \in Nat /\ Len(a) = k + 1 /\ DOMAIN a = 1..(k + 1) /\ a[k + 1] = v /\ DOMAIN own = 1..k
      /\ \A m \in 1..k : a[m] = own[m]
  BY GrownFacts
<1>2. PICK n \in 1..k : /\ own[n].alarm /\ n - 2 * own[n].holders + 1 >= 1
                        /\ \A m \in (n - 2 * own[n].holders + 1)..n : own[m].counts
                        /\ \A m \in n..k : own[m].alarm
  BY <1>1 DEF Stands
<1>3. own[n].holders \in Nat
  <2>1. own[n] \in Verdicts
    BY <1>1
  <2> QED
    BY <2>1 DEF Verdicts
<1> HIDE DEF a, k
<1> DEFINE from == n - 2 * own[n].holders + 1
<1>4. from \in Nat /\ from >= 1 /\ n \in 1..(k + 1) /\ a[n] = own[n]
  BY <1>1, <1>2, <1>3
<1>5. ASSUME NEW m \in from..n PROVE a[m].counts
  <2>1. m \in 1..k
    BY <1>1, <1>2, <1>4
  <2> QED
    BY <1>1, <1>2, <2>1
<1>6. ASSUME NEW m \in n..(k + 1) PROVE a[m].alarm
  <2>1. CASE m = k + 1
    BY <1>1, <2>1
  <2>2. CASE m # k + 1
    <3>1. m \in n..k /\ m \in 1..k
      BY <1>1, <1>2, <2>2
    <3> QED
      BY <1>1, <1>2, <3>1
  <2> QED
    BY <2>1, <2>2
<1>7. Stands(a)
  BY <1>1, <1>2, <1>4, <1>5, <1>6 DEF Stands
<1> QED
  BY <1>7 DEF a

(* A counting request lengthens the streak; another one breaks it. *)
LEMMA RunGrows ==
  ASSUME NEW own \in Seq(Verdicts), NEW v \in Verdicts, NEW s \in Nat, RunAt(own, s)
  PROVE  RunAt(Append(own, v), IF v.counts THEN s + 1 ELSE 0)
<1> DEFINE a == Append(own, v)
           k == Len(own)
<1>1. /\ k \in Nat /\ Len(a) = k + 1 /\ a[k + 1] = v
      /\ \A m \in 1..k : a[m] = own[m]
  BY GrownFacts
<1>2. /\ s <= k /\ \A m \in (k - s + 1)..k : own[m].counts
      /\ s = k \/ ~own[k - s].counts
  BY DEF RunAt
<1> HIDE DEF a, k
<1>3. CASE v.counts
  <2>1. s + 1 <= k + 1 /\ k + 1 - (s + 1) = k - s /\ k + 1 - (s + 1) + 1 = k - s + 1
    BY <1>1, <1>2
  <2>2. ASSUME NEW m \in (k - s + 1)..(k + 1) PROVE a[m].counts
    <3>1. CASE m = k + 1
      BY <1>1, <1>3, <3>1
    <3>2. CASE m # k + 1
      <4>1. m \in (k - s + 1)..k /\ m \in 1..k
        BY <1>1, <1>2, <3>2
      <4> QED
        BY <1>1, <1>2, <4>1
    <3> QED
      BY <3>1, <3>2
  <2>3. s + 1 = k + 1 \/ ~a[k - s].counts
    <3>1. CASE s = k
      BY <3>1
    <3>2. CASE s # k
      <4>1. k - s \in 1..k
        BY <1>1, <1>2, <3>2
      <4> QED
        BY <1>1, <1>2, <3>2, <4>1
    <3> QED
      BY <3>1, <3>2
  <2>4. RunAt(a, s + 1)
    BY <1>1, <1>2, <2>1, <2>2, <2>3 DEF RunAt
  <2> QED
    BY <1>3, <2>4 DEF a
<1>4. CASE ~v.counts
  <2>1. 0 <= k + 1 /\ k + 1 - 0 = k + 1 /\ (k + 1 - 0 + 1)..(k + 1) = {}
    BY <1>1
  <2>2. RunAt(a, 0)
    BY <1>1, <1>4, <2>1 DEF RunAt
  <2> QED
    BY <1>4, <2>2 DEF a
<1> QED
  BY <1>3, <1>4

(* Filtering begins exactly when the streak reaches 2|M|. *)
LEMMA BeginsToStand ==
  ASSUME NEW own \in Seq(Verdicts), NEW v \in Verdicts, Sound(v), v.alarm, ~Stands(own),
         NEW s \in Nat, RunAt(Append(own, v), s)
  PROVE  Stands(Append(own, v)) <=> s >= 2 * v.holders
<1> DEFINE a == Append(own, v)
           k == Len(own)
           M == v.holders
<1>1. /\ k \in Nat /\ Len(a) = k + 1 /\ DOMAIN a = 1..(k + 1) /\ a[k + 1] = v /\ DOMAIN own = 1..k
      /\ \A m \in 1..k : a[m] = own[m]
  BY GrownFacts
<1>2. /\ s <= k + 1 /\ \A m \in (k + 1 - s + 1)..(k + 1) : a[m].counts
      /\ s = k + 1 \/ ~a[k + 1 - s].counts
  BY <1>1 DEF RunAt
<1>3. M \in Nat /\ M > 0
  BY DEF Sound, Verdicts
<1>4. ASSUME NEW n \in 1..k PROVE own[n].holders \in Nat
  <2>1. own[n] \in Verdicts
    BY <1>1
  <2> QED
    BY <2>1 DEF Verdicts
<1> HIDE DEF a, k, M
<1>5. ASSUME s >= 2 * M PROVE Stands(a)
  <2> DEFINE from == k + 1 - 2 * M + 1
  <2>1. from >= 1 /\ \A m \in from..(k + 1) : m \in (k + 1 - s + 1)..(k + 1)
    BY <1>1, <1>2, <1>3, <1>5
  <2>2. k + 1 \in 1..(k + 1) /\ a[k + 1].alarm /\ a[k + 1].holders = M
    BY <1>1 DEF M
  <2>3. \A m \in (k + 1)..(k + 1) : m = k + 1
    BY <1>1
  <2> QED
    <3> DEFINE n == k + 1
    <3>1. n \in DOMAIN a /\ a[n].alarm /\ Len(a) = n
      BY <1>1, <2>2
    <3>2. n - 2 * a[n].holders + 1 = from
      BY <1>1, <1>3, <2>2
    <3>3. \A m \in from..n : a[m].counts
      BY <1>2, <2>1
    <3>4. \A m \in n..Len(a) : a[m].alarm
      BY <2>2, <2>3, <3>1
    <3> HIDE DEF n, from
    <3> QED
      BY <2>1, <3>1, <3>2, <3>3, <3>4 DEF Stands
<1>6. ASSUME Stands(a) PROVE s >= 2 * M
  <2>1. PICK n \in 1..(k + 1) : /\ a[n].alarm /\ n - 2 * a[n].holders + 1 >= 1
                                /\ \A m \in (n - 2 * a[n].holders + 1)..n : a[m].counts
                                /\ \A m \in n..(k + 1) : a[m].alarm
    BY <1>1, <1>6 DEF Stands
  <2>2. n = k + 1
    <3> SUFFICES ASSUME n # k + 1 PROVE FALSE
      OBVIOUS
    <3>1. n \in 1..k /\ a[n] = own[n]
      BY <1>1, <2>1
    <3> DEFINE from == n - 2 * own[n].holders + 1
    <3>2. own[n].alarm /\ from >= 1 /\ own[n].holders \in Nat
      BY <1>4, <2>1, <3>1
    <3>3. ASSUME NEW m \in from..n PROVE own[m].counts
      <4>1. m \in 1..k
        BY <1>1, <3>1, <3>2
      <4>2. a[m].counts
        BY <2>1, <3>1
      <4> QED
        BY <1>1, <4>1, <4>2
    <3>4. ASSUME NEW m \in n..k PROVE own[m].alarm
      <4>1. m \in 1..k /\ m \in n..(k + 1)
        BY <1>1, <3>1
      <4> QED
        BY <1>1, <2>1, <4>1
    <3>5. Stands(own)
      BY <1>1, <3>1, <3>2, <3>3, <3>4 DEF Stands, k
    <3> QED
      BY <3>5
  <2>3. k + 1 - 2 * M + 1 >= 1 /\ \A m \in (k + 1 - 2 * M + 1)..(k + 1) : a[m].counts
    <3>1. a[n].holders = M
      BY <1>1, <2>2 DEF M
    <3>2. n - 2 * a[n].holders + 1 = k + 1 - 2 * M + 1
      BY <1>1, <1>3, <2>2, <3>1
    <3> DEFINE from == n - 2 * a[n].holders + 1
    <3>3. from >= 1 /\ \A m \in from..n : a[m].counts
      BY <2>1
    <3> QED
      BY <2>2, <3>2, <3>3
  <2> SUFFICES ASSUME s < 2 * M PROVE FALSE
    BY <1>3
  <2>4. k + 1 - s \in (k + 1 - 2 * M + 1)..(k + 1) /\ s # k + 1
    BY <1>1, <1>2, <1>3, <2>3
  <2> QED
    BY <1>2, <2>3, <2>4
<1> QED
  BY <1>5, <1>6 DEF a, M

LEMMA OwnType ==
  ASSUME verdicts \in Seq(Verdicts), NEW c
  PROVE  Own(c) \in Seq(Verdicts)
  BY SublistType DEF Own

LEMMA StreakArrive ==
  ASSUME TypeOK, StateInv, StreakInv, FilteringMeans, Arrive
  PROVE  /\ StreakInv' /\ FilteringMeans'
         /\ verdicts' \in Seq(Verdicts) /\ streak' \in [Classes -> Nat] /\ filtering' \subseteq Classes
<1> DEFINE r == Trace[turn + 1]
           seen == Observed(r)
           h == ArriveHits(r)
           c == Class[r]
           A == Alarm(seen, h, r)
           W == HotspotWins(h, r)
           M == Cardinality(Holders(h))
           v == [class |-> c, holders |-> M, alarm |-> A, counts |-> A /\ W]
<1>1. /\ r \in Requests
      /\ IF policy = "lmetric_detector" THEN Judge(seen, h, r) ELSE UNCHANGED detector
  BY ArriveFacts
<1>2. /\ verdicts \in Seq(Verdicts) /\ streak \in [Classes -> Nat] /\ filtering \subseteq Classes
  BY DetectorTypes
<1>3. CASE UNCHANGED <<streak, filtering, verdicts>>
  <2>1. \A k : Own(k)' = Own(k)
    BY <1>3 DEF Own
  <2> QED
    BY <1>2, <1>3, <2>1, FilteringEach
<1>4. CASE ~UNCHANGED <<streak, filtering, verdicts>>
  <2>1. policy = "lmetric_detector" /\ HasClass(r)
    BY <1>1, <1>4 DEF Judge, detector
  <2>2. /\ streak' = [streak EXCEPT ![c] = NextStreak(seen, h, r)]
        /\ filtering' = IF Filters(seen, h, r) THEN filtering \cup {c} ELSE filtering \ {c}
        /\ verdicts' = Append(verdicts, v)
    BY <1>1, <2>1 DEF Judge
  <2>3. c \in Classes
    BY <1>1 DEF Classes
  <2>4. M \in Nat
    BY HoldersFacts
  <2>5. Filters(seen, h, r) <=> A /\ (c \in filtering \/ NextStreak(seen, h, r) >= 2 * M)
    BY <2>1 DEF Filters
  <2>6. NextStreak(seen, h, r) = IF ~A THEN 0
                                 ELSE IF c \in filtering THEN streak[c]
                                 ELSE IF W THEN streak[c] + 1 ELSE 0
    BY DEF NextStreak
  <2>7. A => M > 0
    BY <2>4 DEF Alarm
  <2>8. A \in BOOLEAN /\ (A /\ W) \in BOOLEAN
    BY Zenon DEF Alarm
  <2> HIDE DEF A, W, M, c
  <2>9. v.class = c /\ v.holders = M /\ v.alarm = A /\ v.counts = (A /\ W)
    BY Zenon
  <2>10. v \in Verdicts
    BY <2>3, <2>4, <2>8 DEF Verdicts
  <2>11. Sound(v)
    BY <2>7, <2>9 DEF Sound
  <2> DEFINE N == NextStreak(seen, h, r)
             F == Filters(seen, h, r)
             own == Own(c)
             s == streak[c]
  <2> HIDE DEF v, c, seen, h, N, F
  <2>12. own \in Seq(Verdicts) /\ s \in Nat
    BY <1>2, <2>3, OwnType
  <2>13. /\ \A k \in Classes : k \in filtering <=> Stands(Own(k))
         /\ \A k \in Classes \ filtering : RunAt(Own(k), streak[k])
         /\ \A w \in Elements(verdicts) : Sound(w)
    BY FilteringEach
  <2>14. ASSUME NEW k \in Classes
         PROVE  Own(k)' = IF k = c THEN Append(Own(k), v) ELSE Own(k)
    <3> DEFINE S == {w \in Verdicts : w.class = k}
    <3>1. v \in S <=> k = c
      BY <2>9, <2>10
    <3>2. Own(k)' = Sublist(verdicts', S) /\ Own(k) = Sublist(verdicts, S)
      BY DEF Own
    <3> HIDE DEF S
    <3>3. Sublist(Append(verdicts, v), S)
            = IF v \in S THEN Append(Sublist(verdicts, S), v) ELSE Sublist(verdicts, S)
      BY <1>2, <2>10, SublistAppend
    <3> QED
      BY <2>2, <3>1, <3>2, <3>3
  <2>15. N \in Nat
    BY <2>6, <2>12 DEF N
  <2>16. /\ Stands(Append(own, v)) <=> F
         /\ ~F => RunAt(Append(own, v), N)
    <3>1. CASE ~A
      <4>1. ~v.alarm
        BY <2>9, <3>1
      <4>2. ~Stands(Append(own, v)) /\ RunAt(Append(own, v), 0)
        BY <2>10, <2>11, <2>12, <4>1, NoAlarm
      <4>3. ~F /\ N = 0
        BY <2>5, <2>6, <3>1 DEF F, N
      <4> QED
        BY <4>2, <4>3
    <3>2. CASE A /\ c \in filtering
      <4>1. v.alarm /\ Stands(own)
        BY <2>3, <2>9, <2>13, <3>2
      <4>2. Stands(Append(own, v))
        BY <2>10, <2>12, <4>1, StillStands
      <4>3. F
        BY <2>5, <3>2 DEF F
      <4> QED
        BY <4>2, <4>3
    <3>3. CASE A /\ c \notin filtering
      <4>1. v.alarm /\ ~Stands(own) /\ RunAt(own, s)
        BY <2>3, <2>9, <2>13, <3>3
      <4>2. N = IF v.counts THEN s + 1 ELSE 0
        BY <2>6, <2>9, <3>3 DEF N
      <4>3. RunAt(Append(own, v), IF v.counts THEN s + 1 ELSE 0)
        BY <2>10, <2>12, <4>1, RunGrows
      <4>4. RunAt(Append(own, v), N)
        BY <4>2, <4>3
      <4>5. Stands(Append(own, v)) <=> N >= 2 * v.holders
        BY <2>10, <2>11, <2>12, <2>15, <4>1, <4>4, BeginsToStand
      <4>6. F <=> N >= 2 * M
        BY <2>5, <3>3 DEF F, N
      <4> QED
        BY <2>9, <4>4, <4>5, <4>6
    <3> QED
      BY <3>1, <3>2, <3>3
  <2>17. filtering' = (IF F THEN filtering \cup {c} ELSE filtering \ {c}) /\ filtering' \subseteq Classes
    BY <1>2, <2>2, <2>3 DEF F
  <2>18. streak' = [streak EXCEPT ![c] = N] /\ streak' \in [Classes -> Nat]
    BY <1>2, <2>2, <2>15 DEF N
  <2>19. verdicts' \in Seq(Verdicts) /\ Elements(verdicts') = Elements(verdicts) \cup {v}
    BY <1>2, <2>2, <2>10, AppendFacts
  <2>20. ASSUME NEW k \in Classes
         PROVE  /\ k \in filtering' <=> Stands(Own(k)')
                /\ k \notin filtering' => RunAt(Own(k)', streak'[k])
    <3>1. CASE k = c
      <4>1. Own(k)' = Append(own, v) /\ streak'[k] = N /\ (k \in filtering' <=> F)
        BY <1>2, <2>14, <2>17, <2>18, <3>1
      <4> QED
        BY <2>16, <4>1
    <3>2. CASE k # c
      <4>1. Own(k)' = Own(k) /\ streak'[k] = streak[k] /\ (k \in filtering' <=> k \in filtering)
        BY <1>2, <2>14, <2>17, <2>18, <3>2
      <4> QED
        BY <2>13, <4>1
    <3> QED
      BY <3>1, <3>2
  <2>21. \A w \in Elements(verdicts') : Sound(w)
    BY <2>11, <2>13, <2>19
  <2> QED
    BY <2>17, <2>18, <2>19, <2>20, <2>21, FilteringEach
<1> QED
  BY <1>3, <1>4

LEMMA StreakFrame ==
  ASSUME StreakInv, FilteringMeans, UNCHANGED <<streak, filtering, verdicts>>
  PROVE  StreakInv' /\ FilteringMeans'
<1>1. \A c : Own(c)' = Own(c)
  BY DEF Own
<1> QED
  BY <1>1, FilteringEach

-----------------------------------------------------------------------------
(* All of them together *)

StateType == state \in [Requests -> {"ahead", "prefill", "decode", "done"}]

LEMMA StateArrive ==
  ASSUME TypeOK, StateInv, Arrive
  PROVE  StateInv'
<1> DEFINE r == Trace[turn + 1]
<1>1. /\ turn + 1 \in 1..Len(Trace) /\ r \in Requests
      /\ placed' = [placed EXCEPT ![r] = Chosen(r)]
      /\ state' = [state EXCEPT ![r] = "prefill"] /\ turn' = turn + 1
  BY ArriveFacts
<1>2. Chosen(r) \in Instances
  BY <1>1, ChosenFacts
<1>3. /\ DOMAIN Trace = 1..Len(Trace) /\ turn \in Nat /\ Len(Trace) \in Nat
      /\ \A n \in 1..Len(Trace) : Trace[n] \in Requests
      /\ \A n \in 1..Len(Trace) : n # turn + 1 => Trace[n] # r
      /\ placed \in [Requests -> Instances \cup {None}]
      /\ state \in [Requests -> {"ahead", "prefill", "decode", "done"}]
  BY <1>1, TraceFacts DEF TypeOK
<1>4. ASSUME NEW n \in DOMAIN Trace PROVE state'[Trace[n]] = "ahead" <=> n > turn'
  <2>1. state[Trace[n]] = "ahead" <=> n > turn
    BY DEF StateInv
  <2>2. CASE n = turn + 1
    BY <1>1, <1>3, <2>2
  <2>3. CASE n # turn + 1
    <3>1. Trace[n] \in Requests /\ Trace[n] # r
      BY <1>3, <2>3
    <3>2. state'[Trace[n]] = state[Trace[n]]
      BY <1>1, <1>3, <3>1
    <3>3. n > turn <=> n > turn + 1
      BY <1>3, <2>3
    <3> QED
      BY <1>1, <2>1, <3>2, <3>3
  <2> QED
    BY <2>2, <2>3
<1>5. ASSUME NEW q \in Requests, state'[q] # "ahead" PROVE placed'[q] \in Instances
  <2>1. CASE q = r
    BY <1>1, <1>2, <1>3, <2>1
  <2>2. CASE q # r
    <3>1. state'[q] = state[q] /\ placed'[q] = placed[q]
      BY <1>1, <1>3, <2>2
    <3> QED
      BY <1>5, <3>1 DEF StateInv
  <2> QED
    BY <2>1, <2>2
<1> QED
  BY <1>4, <1>5 DEF StateInv

\* A callback moves a request that has arrived on, and no other.
LEMMA StateMoves ==
  ASSUME TypeOK, StateInv, NEW r \in Requests, state[r] # "ahead",
         NEW x, x # "ahead", state' = [state EXCEPT ![r] = x], UNCHANGED <<turn, placed>>
  PROVE  StateInv'
<1>1. state \in [Requests -> {"ahead", "prefill", "decode", "done"}]
  BY DEF TypeOK
<1>2. \A q \in Requests : state'[q] = "ahead" <=> state[q] = "ahead"
  BY <1>1
<1>3. \A n \in DOMAIN Trace : Trace[n] \in Requests
  BY TraceFacts
<1> QED
  BY <1>2, <1>3 DEF StateInv

LEMMA StateFrame ==
  ASSUME StateInv, UNCHANGED <<turn, placed, state>>
  PROVE  StateInv'
  BY DEF StateInv

(* What each action does to the rest of the types. *)
RestTypes == /\ policy \in Policies /\ index \in IndexModes /\ turn \in 0..Len(Trace)
             /\ cached \in [Instances -> SUBSET Keys] /\ evictions \in 0..MaxEvict
DetectorType == /\ arrivals \in Seq(Int \X Classes) /\ verdicts \in Seq(Verdicts)
                /\ counts \in [Classes -> Nat] /\ streak \in [Classes -> Nat]
                /\ filtering \subseteq Classes

LEMMA TypesAre ==
  /\ TypeOK => BookTypes /\ PendingType /\ LruTypes /\ RestTypes /\ DetectorType
  /\ BookTypes' /\ PendingType' /\ LruTypes' /\ RestTypes' /\ DetectorType' => TypeOK'
<1>1. TypeOK => turn \in Nat
  BY TraceFacts DEF TypeOK
<1>2. TypeOK => BookTypes /\ PendingType /\ LruTypes /\ RestTypes /\ DetectorType
  BY <1>1 DEF TypeOK, BookTypes, PendingType, LruTypes, TimesOf, RestTypes, DetectorType
<1>3. BookTypes' /\ PendingType' /\ LruTypes' /\ RestTypes' /\ DetectorType' => TypeOK'
  BY DEF TypeOK, BookTypes, PendingType, LruTypes, TimesOf, RestTypes, DetectorType
<1> QED
  BY <1>2, <1>3

LEMMA TypesFrame ==
  /\ BookTypes /\ UNCHANGED <<books, state>> => BookTypes'
  /\ PendingType /\ UNCHANGED pending => PendingType'
  /\ DetectorType /\ UNCHANGED detector => DetectorType'
<1>1. BookTypes /\ UNCHANGED <<books, state>> => BookTypes'
  BY DEF BookTypes, books
<1>2. PendingType /\ UNCHANGED pending => PendingType'
  BY DEF PendingType
<1>3. DetectorType /\ UNCHANGED detector => DetectorType'
  BY DEF DetectorType, detector
<1> QED
  BY <1>1, <1>2, <1>3

LEMMA InitTypes ==
  ASSUME Init
  PROVE  TypeOK
<1>1. BookTypes
  <2>1. /\ bs \in [Instances -> Nat] /\ queued \in [Instances -> Nat]
        /\ qcost \in [Instances -> Nat]
    BY DEF Init
  <2>2. newTokens \in [Requests -> Nat] /\ newCost \in [Requests -> Nat]
    BY DEF Init
  <2>3. /\ placed \in [Requests -> Instances \cup {None}]
        /\ state \in [Requests -> {"ahead", "prefill", "decode", "done"}]
    BY DEF Init
  <2> QED
    BY <2>1, <2>2, <2>3 DEF BookTypes
<1>2. PendingType
  BY DEF Init, PendingType
<1>3. LruTypes
  <2>1. lru \in [Instances -> Seq(Keys)]
    BY DEF Init
  <2>2. touched \in [Instances -> [Keys -> Nat \X Nat]]
    BY DEF Init
  <2>3. turn \in Nat
    BY DEF Init
  <2> QED
    BY <2>1, <2>2, <2>3 DEF LruTypes, TimesOf
<1>4. RestTypes
  <2>1. policy \in Policies /\ index \in IndexModes
    BY DEF Init
  <2>2. turn \in 0..Len(Trace) /\ evictions \in 0..MaxEvict
    BY TraceFacts, SizeAssumption DEF Init
  <2>3. cached \in [Instances -> SUBSET Keys]
    BY DEF Init
  <2> QED
    BY <2>1, <2>2, <2>3 DEF RestTypes
<1>5. DetectorType
  BY DEF Init, DetectorType
<1> QED
  BY <1>1, <1>2, <1>3, <1>4, <1>5 DEF TypeOK, BookTypes, PendingType, LruTypes, TimesOf, RestTypes, DetectorType

LEMMA InitBooks ==
  ASSUME Init
  PROVE  StateInv /\ BooksBalance /\ PendingCounts
<1>1. /\ state = [r \in Requests |-> "ahead"] /\ turn = 0
      /\ bs = [i \in Instances |-> 0] /\ queued = [i \in Instances |-> 0]
      /\ qcost = [i \in Instances |-> 0]
      /\ pending = [i \in Instances |-> [k \in Keys |-> 0]]
  BY DEF Init
<1>2. StateInv
  <2>1. \A n \in DOMAIN Trace : Trace[n] \in Requests /\ n > 0
    BY TraceFacts
  <2> QED
    BY <1>1, <2>1 DEF StateInv
<1>3. \A i : Open(i) = {} /\ Owing(i) = {}
  BY <1>1 DEF Open, Owing, At
<1>4. Cardinality({}) = 0
  BY FS_EmptySet
<1>5. BooksBalance
  <2>1. Units(newTokens, {}) = {} /\ Units(newCost, {}) = {}
    BY DEF Units
  <2> QED
    BY <1>1, <1>3, <1>4, <2>1, BooksEach
<1>6. PendingCounts
  <2>1. \A i, k : Sharers(i, k) = {}
    BY <1>3 DEF Sharers
  <2> QED
    BY <1>1, <1>4, <2>1, PendingEach
<1> QED
  BY <1>2, <1>5, <1>6

LEMMA InitLru ==
  ASSUME Init
  PROVE  LruInv /\ LruRecent
<1>1. TypeOK
  BY InitTypes
<1> SUFFICES ASSUME NEW i \in Instances
             PROVE  /\ ListAt(lru[i], touched[i], turn)
                    /\ OrderAt(lru[i], touched[i]) /\ SizeAt(lru[i], touched[i])
  BY <1>1, LruEach
<1>2. /\ lru[i] = <<>> /\ turn = 0
      /\ \A k \in Keys : touched[i][k] = <<0, 0>>
  BY DEF Init
<1>3. DOMAIN lru[i] = {} /\ Elements(lru[i]) = {} /\ Len(lru[i]) = 0
  BY <1>2 DEF Elements
<1>4. ListAt(lru[i], touched[i], turn)
  BY <1>2, <1>3 DEF ListAt, IsInjectiveSeq
<1>5. OrderAt(lru[i], touched[i])
  BY <1>3 DEF OrderAt
<1>6. SizeAt(lru[i], touched[i])
  <2>1. Used(touched[i]) = {}
    BY <1>2 DEF Used
  <2>2. Cardinality(Used(touched[i])) = 0
    BY <2>1, FS_EmptySet
  <2>3. Min({Cap, 0}) = 0
    BY MinOfTwo, SizeAssumption
  <2> QED
    BY <1>3, <2>1, <2>2, <2>3 DEF SizeAt
<1> QED
  BY <1>4, <1>5, <1>6

LEMMA InitDetector ==
  ASSUME Init
  PROVE  WindowInv /\ StreakInv /\ FilteringMeans
<1>1. /\ turn = 0 /\ arrivals = <<>> /\ counts = [c \in Classes |-> 0]
      /\ streak = [c \in Classes |-> 0] /\ filtering = {} /\ verdicts = <<>>
  BY DEF Init
<1>2. WindowInv
  <2>1. WindowAt(arrivals, counts, 0, 0)
    <3>1. \A c : OfKind(1, 0, c) = {}
      BY DEF OfKind
    <3>2. \A c : Cardinality(OfKind(1, 0, c)) = 0
      BY <3>1, FS_EmptySet
    <3>3. Inside(0, 0)
      BY DEF Inside
    <3> QED
      BY <1>1, <3>2, <3>3 DEF WindowAt
  <2>2. 0 \in 0..turn
    BY <1>1
  <2> QED
    BY <1>1, <2>1, <2>2, WindowEach
<1>3. ASSUME NEW c PROVE Own(c) = <<>>
  <2> DEFINE S == {v \in Verdicts : v.class = c}
  <2>1. verdicts \in Seq(Verdicts) /\ Elements(verdicts) = {}
    BY <1>1 DEF Elements
  <2>2. Own(c) = Sublist(verdicts, S)
    BY DEF Own
  <2> HIDE DEF S
  <2>3. Own(c) \in Seq(Verdicts) /\ Elements(Own(c)) = {}
    BY <2>1, <2>2, SublistType, SublistElements
  <2>4. Len(Own(c)) = 0
    <3>1. Len(Own(c)) \in Nat /\ DOMAIN Own(c) = 1..Len(Own(c))
      BY <2>3, ListFacts
    <3>2. DOMAIN Own(c) = {}
      BY <2>3 DEF Elements
    <3> QED
      BY <3>1, <3>2
  <2> QED
    BY <2>3, <2>4
<1>4. Len(<<>>) = 0 /\ DOMAIN <<>> = {}
  OBVIOUS
<1>5. \A c \in Classes : ~Stands(Own(c)) /\ RunAt(Own(c), streak[c])
  BY <1>1, <1>3, <1>4 DEF Stands, RunAt
<1>6. \A v \in Elements(verdicts) : Sound(v)
  BY <1>1 DEF Elements
<1> QED
  BY <1>1, <1>2, <1>5, <1>6, FilteringEach

LEMMA InitInductive == Init => Inductive
  BY InitTypes, InitBooks, InitLru, InitDetector DEF Inductive

(* An action that leaves the lists and the detector alone keeps what is     *)
(* said of them.                                                            *)
LEMMA QuietStep ==
  ASSUME Inductive, UNCHANGED <<policy, index, turn, lru, touched, detector>>
  PROVE  /\ LruInv' /\ LruRecent' /\ WindowInv' /\ StreakInv' /\ FilteringMeans'
         /\ LruTypes' /\ DetectorType'
         /\ policy' \in Policies /\ index' \in IndexModes /\ turn' \in 0..Len(Trace)
<1>1. UNCHANGED <<arrivals, counts, streak, filtering, verdicts>>
  BY DEF detector
<1>2. /\ TypeOK /\ LruInv /\ LruRecent /\ WindowInv /\ StreakInv /\ FilteringMeans
  BY DEF Inductive
<1>3. LruInv' /\ LruRecent' /\ LruTypes'
  BY <1>2, LruFrame
<1>4. WindowInv'
  BY <1>1, <1>2, WindowFrame
<1>5. StreakInv' /\ FilteringMeans'
  BY <1>1, <1>2, StreakFrame
<1>6. DetectorType'
  BY <1>2, TypesAre, TypesFrame
<1>7. policy' \in Policies /\ index' \in IndexModes /\ turn' \in 0..Len(Trace)
  BY <1>2 DEF TypeOK
<1> QED
  BY <1>3, <1>4, <1>5, <1>6, <1>7

LEMMA PartsAre ==
  /\ Inductive => /\ TypeOK /\ StateInv /\ BooksBalance /\ PendingCounts
                  /\ LruInv /\ LruRecent /\ WindowInv /\ StreakInv /\ FilteringMeans
  /\ (/\ TypeOK' /\ StateInv' /\ BooksBalance' /\ PendingCounts'
      /\ LruInv' /\ LruRecent' /\ WindowInv' /\ StreakInv' /\ FilteringMeans')
       => Inductive'
  BY DEF Inductive

LEMMA StepArrive ==
  ASSUME Inductive, Arrive
  PROVE  Inductive'
<1>1. /\ TypeOK /\ StateInv /\ BooksBalance /\ PendingCounts
      /\ LruInv /\ LruRecent /\ WindowInv /\ StreakInv /\ FilteringMeans
  BY PartsAre
<1>2. turn + 1 \in 1..Len(Trace) /\ turn' = turn + 1 /\ UNCHANGED <<policy, index, cached, evictions>>
  BY <1>1, ArriveFacts
<1>3. BooksBalance' /\ BookTypes'
  BY <1>1, BooksArrive
<1>4. PendingCounts' /\ PendingType'
  BY <1>1, PendingArrive
<1>5. LruInv' /\ LruRecent' /\ LruTypes'
  BY <1>1, LruArrive
<1>6. WindowInv' /\ arrivals' \in Seq(Int \X Classes) /\ counts' \in [Classes -> Nat]
  BY <1>1, WindowArrive
<1>7. /\ StreakInv' /\ FilteringMeans'
      /\ verdicts' \in Seq(Verdicts) /\ streak' \in [Classes -> Nat] /\ filtering' \subseteq Classes
  BY <1>1, StreakArrive
<1>8. StateInv'
  BY <1>1, StateArrive
<1>9. RestTypes'
  <2>1. turn' \in 0..Len(Trace)
    BY <1>2, TraceFacts
  <2> QED
    BY <1>1, <1>2, <2>1, TypesAre DEF RestTypes
<1>10. DetectorType'
  BY <1>6, <1>7 DEF DetectorType
<1>11. TypeOK'
  BY <1>3, <1>4, <1>5, <1>9, <1>10, TypesAre
<1> QED
  BY <1>3, <1>4, <1>5, <1>6, <1>7, <1>8, <1>11, PartsAre

LEMMA StepFirst ==
  ASSUME Inductive, NEW r \in Requests, First(r)
  PROVE  Inductive'
<1>1. TypeOK /\ StateInv /\ BooksBalance /\ PendingCounts
  BY PartsAre
<1>2. /\ state[r] = "prefill" /\ state' = [state EXCEPT ![r] = "decode"]
      /\ cached' = [cached EXCEPT ![placed[r]] = @ \cup KeysOf(r)]
      /\ UNCHANGED <<policy, index, turn, placed, lru, touched, detector, evictions>>
  BY DEF First
<1>3. /\ LruInv' /\ LruRecent' /\ WindowInv' /\ StreakInv' /\ FilteringMeans'
      /\ LruTypes' /\ DetectorType'
      /\ policy' \in Policies /\ index' \in IndexModes /\ turn' \in 0..Len(Trace)
  BY <1>2, QuietStep
<1>4. BooksBalance' /\ BookTypes'
  BY <1>1, BooksFirst
<1>5. PendingCounts' /\ PendingType'
  BY <1>1, PendingFirst
<1>6. StateInv'
  BY <1>1, <1>2, StateMoves
<1>7. RestTypes'
  <2>1. cached \in [Instances -> SUBSET Keys] /\ evictions \in 0..MaxEvict
    BY <1>1 DEF TypeOK
  <2>2. KeysOf(r) \in SUBSET Keys
    BY KeyFacts
  <2>3. cached' \in [Instances -> SUBSET Keys] /\ evictions' \in 0..MaxEvict
    BY <1>2, <2>1, <2>2
  <2> QED
    BY <1>3, <2>3 DEF RestTypes
<1>8. TypeOK'
  BY <1>3, <1>4, <1>5, <1>7, TypesAre
<1> QED
  BY <1>3, <1>4, <1>5, <1>6, <1>8, PartsAre

LEMMA StepDone ==
  ASSUME Inductive, NEW r \in Requests, Done(r)
  PROVE  Inductive'
<1>1. TypeOK /\ StateInv /\ BooksBalance /\ PendingCounts
  BY PartsAre
<1>2. /\ state[r] = "decode" /\ state' = [state EXCEPT ![r] = "done"]
      /\ UNCHANGED <<policy, index, turn, placed, lru, pending, touched, detector, cached, evictions>>
  BY DEF Done
<1>3. /\ LruInv' /\ LruRecent' /\ WindowInv' /\ StreakInv' /\ FilteringMeans'
      /\ LruTypes' /\ DetectorType'
      /\ policy' \in Policies /\ index' \in IndexModes /\ turn' \in 0..Len(Trace)
  BY <1>2, QuietStep
<1>4. BooksBalance' /\ BookTypes'
  BY <1>1, BooksDone
<1>5. PendingCounts'
  BY <1>1, PendingDone
<1>6. PendingType'
  BY <1>1, <1>2, TypesAre, TypesFrame
<1>7. StateInv'
  BY <1>1, <1>2, StateMoves
<1>8. RestTypes'
  BY <1>1, <1>2, <1>3, TypesAre DEF RestTypes
<1>9. TypeOK'
  BY <1>3, <1>4, <1>6, <1>8, TypesAre
<1> QED
  BY <1>3, <1>4, <1>5, <1>7, <1>9, PartsAre

(* An action of the instances' caches.                                      *)
LEMMA StepCache ==
  ASSUME Inductive, cached' \in [Instances -> SUBSET Keys], evictions' \in 0..MaxEvict,
         UNCHANGED <<policy, index, turn, books, lru, pending, touched, detector, state>>
  PROVE  Inductive'
<1>1. TypeOK /\ StateInv /\ BooksBalance /\ PendingCounts
  BY PartsAre
<1>2. UNCHANGED <<placed, books, state>>
  BY DEF books
<1>3. /\ LruInv' /\ LruRecent' /\ WindowInv' /\ StreakInv' /\ FilteringMeans'
      /\ LruTypes' /\ DetectorType'
      /\ policy' \in Policies /\ index' \in IndexModes /\ turn' \in 0..Len(Trace)
  BY QuietStep
<1>4. BooksBalance'
  BY <1>1, <1>2, BooksFrame
<1>5. PendingCounts'
  <2>1. \A i \in Instances : Owing(i)' = Owing(i)
    BY <1>2 DEF Owing, At
  <2> QED
    BY <1>1, <2>1, PendingFrame
<1>6. BookTypes' /\ PendingType'
  BY <1>1, <1>2, TypesAre, TypesFrame
<1>7. StateInv'
  BY <1>1, <1>2, StateFrame
<1>8. RestTypes'
  BY <1>3 DEF RestTypes
<1>9. TypeOK'
  BY <1>3, <1>6, <1>8, TypesAre
<1> QED
  BY <1>3, <1>4, <1>5, <1>7, <1>9, PartsAre

LEMMA StepChunk ==
  ASSUME Inductive, NEW r \in Requests, NEW n \in DOMAIN FullKeys[r], CacheChunk(r, n)
  PROVE  Inductive'
<1>1. cached \in [Instances -> SUBSET Keys] /\ evictions \in 0..MaxEvict
  BY PartsAre DEF TypeOK
<1> DEFINE chunk == {FullKeys[r][k] : k \in 1..n}
<1>2. chunk \in SUBSET Keys
  <2>1. n \in 1..Len(FullKeys[r]) /\ Len(FullKeys[r]) \in Nat
    BY KeyFacts
  <2>2. \A k \in 1..n : k \in 1..Len(FullKeys[r])
    BY <2>1
  <2>3. \A k \in 1..n : FullKeys[r][k] \in Keys
    BY <2>2, KeyFacts
  <2> QED
    BY <2>3
<1> HIDE DEF chunk
<1>3. /\ cached' = [cached EXCEPT ![placed[r]] = @ \cup chunk] /\ evictions' = evictions
      /\ UNCHANGED <<policy, index, turn, books, lru, pending, touched, detector, state>>
  BY DEF CacheChunk, chunk
<1>4. cached' \in [Instances -> SUBSET Keys]
  BY <1>1, <1>2, <1>3
<1> QED
  BY <1>1, <1>3, <1>4, StepCache

LEMMA StepEvict ==
  ASSUME Inductive, NEW i \in Instances, NEW k \in Keys, Evict(i, k)
  PROVE  Inductive'
<1>1. cached \in [Instances -> SUBSET Keys] /\ evictions \in 0..MaxEvict /\ MaxEvict \in Nat
  BY PartsAre, SizeAssumption DEF TypeOK
<1>2. /\ cached' = [cached EXCEPT ![i] = @ \ {k}]
      /\ evictions < MaxEvict /\ evictions' = evictions + 1
      /\ UNCHANGED <<policy, index, turn, books, lru, pending, touched, detector, state>>
  BY DEF Evict
<1>3. cached' \in [Instances -> SUBSET Keys]
  BY <1>1, <1>2
<1>4. evictions' \in 0..MaxEvict
  BY <1>1, <1>2
<1> QED
  BY <1>2, <1>3, <1>4, StepCache

LEMMA StepTrim ==
  ASSUME Inductive, Trim
  PROVE  Inductive'
<1>1. /\ TypeOK /\ StateInv /\ BooksBalance /\ PendingCounts
      /\ LruInv /\ LruRecent /\ WindowInv /\ StreakInv /\ FilteringMeans
  BY PartsAre
<1>2. UNCHANGED <<policy, index, turn, books, pending, touched, detector, state, cached, evictions>>
  BY DEF Trim
<1>3. UNCHANGED <<arrivals, counts, streak, filtering, verdicts, placed>>
  BY <1>2 DEF detector, books
<1>4. LruInv' /\ LruRecent' /\ LruTypes'
  BY <1>1, LruTrim
<1>5. WindowInv' /\ StreakInv' /\ FilteringMeans'
  BY <1>1, <1>2, <1>3, WindowFrame, StreakFrame
<1>6. BooksBalance'
  BY <1>1, <1>2, BooksFrame
<1>7. PendingCounts'
  <2>1. \A i \in Instances : Owing(i)' = Owing(i)
    BY <1>2, <1>3 DEF Owing, At
  <2> QED
    BY <1>1, <1>2, <2>1, PendingFrame
<1>8. StateInv'
  BY <1>1, <1>2, <1>3, StateFrame
<1>9. BookTypes' /\ PendingType' /\ DetectorType'
  BY <1>1, <1>2, TypesAre, TypesFrame
<1>10. RestTypes'
  BY <1>1, <1>2, TypesAre DEF RestTypes
<1>11. TypeOK'
  BY <1>4, <1>9, <1>10, TypesAre
<1> QED
  BY <1>4, <1>5, <1>6, <1>7, <1>8, <1>11, PartsAre

LEMMA StepInductive == Inductive /\ [Next]_vars => Inductive'
<1> SUFFICES ASSUME Inductive, [Next]_vars PROVE Inductive'
  OBVIOUS
<1>1. CASE Arrive
  BY <1>1, StepArrive
<1>2. ASSUME NEW r \in Requests, First(r) \/ Done(r) PROVE Inductive'
  BY <1>2, StepFirst, StepDone
<1>3. ASSUME NEW r \in Requests, NEW n \in DOMAIN FullKeys[r], CacheChunk(r, n) PROVE Inductive'
  BY <1>3, StepChunk
<1>4. ASSUME NEW i \in Instances, NEW k \in Keys, Evict(i, k) PROVE Inductive'
  BY <1>4, StepEvict
<1>5. CASE Trim
  BY <1>5, StepTrim
<1>6. CASE UNCHANGED vars
  <2>1. /\ UNCHANGED <<policy, index, turn, books, lru, pending, touched, detector, state>>
        /\ cached' = cached /\ evictions' = evictions
    BY <1>6 DEF vars
  <2>2. cached' \in [Instances -> SUBSET Keys] /\ evictions' \in 0..MaxEvict
    BY <2>1, PartsAre DEF TypeOK
  <2> QED
    BY <2>1, <2>2, StepCache
<1>7. CASE Finished
  BY <1>6, <1>7 DEF Finished
<1> QED
  BY <1>1, <1>2, <1>3, <1>4, <1>5, <1>6, <1>7 DEF Next

(* For every trace, whatever the order of the callbacks, the trims and the  *)
(* evictions: the types, the books, the in-flight counts, the order of the  *)
(* lists and what the detector remembers hold together in every state.      *)
THEOREM SimInvariant == Spec => []Inductive
<1> QED
  BY InitInductive, StepInductive, PTL DEF Spec

(* The books of every instance are those of the requests it has not         *)
(* answered: bs counts them, queued and qcost are what those still in       *)
(* prefill were charged when they were routed.                              *)
THEOREM SimBooksAlwaysBalance == Spec => []BooksBalance
<1>1. Inductive => BooksBalance
  BY DEF Inductive
<1> QED
  BY <1>1, SimInvariant, PTL

(* The in-flight index counts, for every key, the requests in prefill that  *)
(* share it, so a key is predicted until the last of them is cached.        *)
THEOREM PendingAlwaysCounts == Spec => []PendingCounts
<1>1. Inductive => PendingCounts
  BY DEF Inductive
<1> QED
  BY <1>1, SimInvariant, PTL

(* The dispatch, lru and sglang indexes hold the most recently routed keys, *)
(* in the order in which they were routed last; the lru index as many as it *)
(* can.                                                                     *)
THEOREM LruAlwaysRecent == Spec => []LruRecent
<1>1. Inductive => LruRecent
  BY DEF Inductive
<1> QED
  BY <1>1, SimInvariant, PTL

(* The detector's running counts are those of the trailing window, however  *)
(* many arrivals leave it at once and however many come at the same time.   *)
THEOREM WindowAlwaysCounts == Spec => []WindowCounts
<1>1. Inductive => WindowCounts
  BY WindowMeans DEF Inductive
<1> QED
  BY <1>1, SimInvariant, PTL

(* A class is filtered exactly when its history says so: 2|M| counting      *)
(* requests in a row, and an alarm at every request since.                  *)
THEOREM FilteringAlwaysMeans == Spec => []FilteringMeans
<1>1. Inductive => FilteringMeans
  BY DEF Inductive
<1> QED
  BY <1>1, SimInvariant, PTL

(* No request of a filtered class goes to an instance that holds its        *)
(* prefix.                                                                  *)
THEOREM HoldersAlwaysAvoided == Spec => AvoidsHolders
<1> DEFINE Step == turn' = turn + 1 /\ policy = "lmetric_detector" =>
                     LET r == Trace[turn']
                     IN HasClass(r) /\ Class[r] \in filtering' => Hits(placed'[r], r) < ClassBlocks
<1>1. ASSUME Inductive, [Next]_vars PROVE [Step]_vars
  <2> SUFFICES ASSUME turn' = turn + 1, policy = "lmetric_detector",
                      NEW r, r = Trace[turn'], HasClass(r), Class[r] \in filtering'
               PROVE  Hits(placed'[r], r) < ClassBlocks
    OBVIOUS
  <2>1. TypeOK /\ StateInv /\ turn \in Nat
    BY <1>1, TraceFacts DEF Inductive, TypeOK
  <2>2. turn' # turn
    BY <2>1
  <2>3. Arrive
    <3>1. ASSUME NEW q \in Requests, First(q) \/ Done(q) PROVE FALSE
      BY <2>2, <3>1 DEF First, Done
    <3>2. ASSUME NEW q \in Requests, NEW n \in DOMAIN FullKeys[q], CacheChunk(q, n) PROVE FALSE
      BY <2>2, <3>2 DEF CacheChunk
    <3>3. ASSUME NEW i \in Instances, NEW k \in Keys, Evict(i, k) PROVE FALSE
      BY <2>2, <3>3 DEF Evict
    <3>4. ~Trim
      BY <2>2 DEF Trim
    <3>5. ~UNCHANGED vars /\ ~Finished
      BY <2>2 DEF Finished, vars
    <3> QED
      BY <1>1, <3>1, <3>2, <3>3, <3>4, <3>5 DEF Next
  <2>4. r = Trace[turn + 1]
    OBVIOUS
  <2>5. /\ r \in Requests
        /\ Judge(Observed(r), ArriveHits(r), r)
        /\ placed' = [placed EXCEPT ![r] = Chosen(r)]
    BY <2>1, <2>3, <2>4, ArriveFacts
  <2>6. Filters(Observed(r), ArriveHits(r), r)
    <3>1. filtering' = IF Filters(Observed(r), ArriveHits(r), r)
                         THEN filtering \cup {Class[r]} ELSE filtering \ {Class[r]}
      BY <2>5 DEF Judge
    <3> QED
      BY <3>1
  <2>7. Chosen(r) \in Instances \ Holders(ArriveHits(r))
    BY <2>1, <2>5, <2>6, ChosenFacts DEF Candidates
  <2>8. placed'[r] = Chosen(r)
    BY <2>1, <2>5 DEF TypeOK
  <2> DEFINE i == Chosen(r)
  <2>9. i \in Instances /\ ~(ArriveHits(r)[i] >= ClassBlocks)
    BY <2>7 DEF Holders
  <2>10. ArriveHits(r)[i] = Hits(i, r)
    BY <2>9 DEF ArriveHits
  <2>11. Hits(i, r) \in Nat /\ ClassBlocks \in Nat
    BY <2>5, HitsFacts, SizeAssumption
  <2> QED
    BY <2>8, <2>9, <2>10, <2>11
<1>2. Spec => [][Step]_vars
  BY <1>1, SimInvariant, PTL DEF Spec
<1> QED
  BY <1>2 DEF AvoidsHolders
=============================================================================
