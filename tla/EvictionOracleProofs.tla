------------------------ MODULE EvictionOracleProofs ------------------------
(***************************************************************************)
(* Proofs about EvictionOracle, for every workload, pool and budget, and    *)
(* whatever the search chooses to evict; and about the deadlines of both    *)
(* oracles (module Deadlines).                                              *)
(*                                                                         *)
(* The argument.  Inductive is an invariant.  References are the requests   *)
(* that list a block, and the free queue has the others (PoolOK), because a *)
(* request lists a block once: its hits have different identities, and what *)
(* it takes was free.  The content of a prompt's full blocks survives       *)
(* (ContentOK) because a block that is not full yet is never shared: it has *)
(* no identity to be found by.  An iteration serves the running requests in *)
(* order and takes blocks from their end (VisitsOK), so the first of them   *)
(* is never the victim while it has company, and alone it fits.             *)
(***************************************************************************)
EXTENDS EvictionOracle, SublistProofs

-----------------------------------------------------------------------------
(* The inductive invariant *)

Identities == {None} \cup UNION {{Prefix(i, n) : n \in DOMAIN Hashes[i]} : i \in Requests}
BlockType == [identity : Identities, refs : Nat]
ProgressType == [computed : Nat, blocks : Seq(Blocks), outputs : Seq(Nat)]
ServiceType == [index : Requests, tokens : 1..TokenBudget, kind : {"prefill", "decode"}]

TypeOK ==
  /\ blocks \in [Blocks -> BlockType] /\ free \in Seq(Blocks)
  /\ progress \in [Requests -> ProgressType]
  /\ running \in Seq(Requests) /\ waiting \in Seq(Requests) /\ todo \in Seq(Requests)
  /\ released \in SUBSET Requests
  /\ time \in Nat
  /\ phase \in {"start", "running", "leaving", "infeasible", "done"}
  /\ budget \in 0..TokenBudget /\ services \in Seq(ServiceType)
  /\ hadPreemption \in BOOLEAN /\ stock \in BOOLEAN
  /\ mode \in {"baseline", "search"}

Holders(b) == {i \in Requests : b \in Elements(progress[i].blocks)}

\* References and the free queue.
PoolOK ==
  /\ \A b \in Blocks : blocks[b].refs = Cardinality(Holders(b))
  /\ \A b \in Blocks : b \in Elements(free) <=> blocks[b].refs = 0
  /\ IsInjectiveSeq(free)
  /\ \A i \in Requests : IsInjectiveSeq(progress[i].blocks)

\* Where a request is.
QueuesOK ==
  /\ IsInjectiveSeq(running) /\ IsInjectiveSeq(waiting)
  /\ Elements(running) \cap Elements(waiting) = {}
  /\ Elements(running) \subseteq released /\ Elements(waiting) \subseteq released
  /\ \A i \in released : Completed(i) \/ i \in Elements(running) \/ i \in Elements(waiting)
  /\ \A i \in Requests \ released : progress[i].outputs = <<>>
  /\ \A i \in Elements(waiting) : ~Completed(i)
  /\ \A i \in Requests \ Elements(running) : progress[i].blocks = <<>>
  /\ phase # "leaving" => \A i \in Elements(running) : ~Completed(i)

\* How far an iteration is: served are the first of the running requests, to
\* be visited the others; or completed ones are leaving.
VisitsOK ==
  /\ phase = "running" =>
       /\ Len(running) = Len(services) + Len(todo)
       /\ \A k \in DOMAIN services : services[k].index = running[k]
       /\ \A k \in DOMAIN todo : todo[k] = running[Len(services) + k]
       /\ services = <<>> => budget = TokenBudget
       /\ hadPreemption => running # <<>>
       /\ \E i \in Requests : ~Completed(i)
  /\ phase # "running" => services = <<>>
  /\ phase \notin {"running", "leaving"} => todo = <<>>
  /\ phase = "leaving" =>
       IsInjectiveSeq(todo) /\ Elements(todo) = {i \in Elements(running) : Completed(i)}

\* A running request has a block for each token it has computed, or is served
\* in this iteration, and is behind its target.
TablesOK ==
  /\ \A i \in Elements(running) :
       /\ Len(progress[i].blocks) = Ceil(Computed(i))
       /\ ~Completed(i) => progress[i].computed < Target(i) /\ Computed(i) <= Target(i)
  /\ \A i \in Requests : Len(progress[i].outputs) <= Output[i]

\* A block that its request has filled with its prompt has that content; any
\* other has no identity, and no other request has it.
Whole(i) == Min({progress[i].computed, Input[i]}) \div BlockSize
Content(i, n, b) ==
  IF n <= Whole(i) THEN blocks[b].identity = Prefix(i, n)
  ELSE blocks[b].identity = None /\ Holders(b) = {i}
ContentOK ==
  \A i \in Elements(running), b \in Blocks : \A n \in DOMAIN progress[i].blocks :
    progress[i].blocks[n] = b => Content(i, n, b)

Inductive == TypeOK /\ PoolOK /\ QueuesOK /\ VisitsOK /\ TablesOK /\ ContentOK

-----------------------------------------------------------------------------
(* The constants, and arithmetic *)

LEMMA Sizes ==
  /\ N \in Nat \ {0} /\ Capacity \in Nat \ {0} /\ BlockSize \in Nat \ {0}
  /\ MaxSequences \in Nat \ {0} /\ TokenBudget \in Nat \ {0} /\ PrefillChunk \in Nat \ {0}
  /\ Overhead \in Nat \ {0} /\ PrefillTokenCost \in Nat \ {0} /\ DecodeTokenCost \in Nat \ {0}
  BY ValidAssumption

LEMMA Demands ==
  ASSUME NEW i \in Requests
  PROVE  /\ i \in Nat /\ Arrival[i] \in Nat
         /\ Input[i] \in Nat \ {0} /\ Output[i] \in Nat \ {0}
         /\ Hashes[i] \in Seq(Int) /\ Len(Hashes[i]) = Ceil(Input[i])
         /\ Ceil(Input[i] + Output[i] - 1) <= Capacity
  BY ValidAssumption DEF Requests

(* The least of some natural numbers, and the greatest of some below n. *)
LEMMA MinFacts ==
  ASSUME NEW S \in SUBSET Nat, S # {}
  PROVE  Min(S) \in S /\ \A x \in S : Min(S) <= x
  BY LeastNat DEF Min

LEMMA MinOfTwo ==
  ASSUME NEW a \in Nat, NEW b \in Nat
  PROVE  Min({a, b}) \in {a, b} /\ Min({a, b}) <= a /\ Min({a, b}) <= b
<1>1. {a, b} \in SUBSET Nat /\ {a, b} # {}
  OBVIOUS
<1> QED
  BY <1>1, MinFacts

LEMMA MaxFacts ==
  ASSUME NEW n \in Nat, NEW S \in SUBSET (0..n), S # {}
  PROVE  Max(S) \in S /\ \A x \in S : Max(S) >= x
<1> DEFINE T == {n - x : x \in S}
<1>1. T \in SUBSET Nat /\ T # {}
  <2>1. \A x \in S : n - x \in Nat
    OBVIOUS
  <2> QED
    BY <2>1
<1>2. PICK y \in T : \A z \in T : y <= z
  BY <1>1, LeastNat
<1>3. PICK x \in S : y = n - x
  BY <1>2
<1>4. \A z \in S : x >= z
  BY <1>2, <1>3
<1> QED
  BY <1>3, <1>4 DEF Max

(* Rounding up to blocks: monotonic, exact on whole blocks, and at least    *)
(* the number of full blocks.                                               *)
LEMMA CeilFacts ==
  ASSUME NEW m \in Nat, NEW n \in Nat, m <= n
  PROVE  /\ Ceil(m) \in Nat
         /\ Ceil(m) <= Ceil(n)
         /\ m \div BlockSize \in Nat
         /\ m \div BlockSize <= Ceil(n)
         /\ Ceil(m * BlockSize) = m
<1>1. BlockSize \in Nat \ {0} /\ m + BlockSize - 1 \in Nat /\ n + BlockSize - 1 \in Nat
        /\ m <= n + BlockSize - 1 /\ m + BlockSize - 1 <= n + BlockSize - 1
  BY Sizes
<1>2. (m + BlockSize - 1) \div BlockSize \in Nat /\ m \div BlockSize \in Nat
  BY <1>1, DivBounds
<1>3. (m + BlockSize - 1) \div BlockSize <= (n + BlockSize - 1) \div BlockSize
        /\ m \div BlockSize <= (n + BlockSize - 1) \div BlockSize
  BY <1>1, DivMonotonic
<1>4. (m * BlockSize + BlockSize - 1) \div BlockSize = m
  BY <1>1, DivExact
<1> QED
  BY <1>2, <1>3, <1>4 DEF Ceil

LEMMA CeilType == ASSUME NEW m \in Nat PROVE Ceil(m) \in Nat
  BY CeilFacts

(* What a request has computed of its prompt, in full blocks. *)
LEMMA WholeFacts ==
  ASSUME NEW i \in Requests, NEW c \in Nat
  PROVE  LET w == Min({c, Input[i]}) \div BlockSize
         IN /\ w \in Nat /\ w <= Ceil(c) /\ w <= Len(Hashes[i]) /\ w <= Capacity
            /\ \A d \in Nat : c <= d => w <= Min({d, Input[i]}) \div BlockSize
<1>1. Input[i] \in Nat /\ BlockSize \in Nat \ {0} /\ Len(Hashes[i]) = Ceil(Input[i])
        /\ Output[i] \in Nat \ {0} /\ Ceil(Input[i] + Output[i] - 1) <= Capacity
        /\ Capacity \in Nat
  BY Sizes, Demands
<1> DEFINE m == Min({c, Input[i]})
<1>2. m \in Nat /\ m <= c /\ m <= Input[i]
  BY <1>1, MinOfTwo
<1> HIDE DEF m
<1>3. m \div BlockSize \in Nat /\ m \div BlockSize <= Ceil(c) /\ m \div BlockSize <= Ceil(Input[i])
  BY <1>1, <1>2, CeilFacts
<1>4. Ceil(Input[i]) <= Capacity
  <2>1. Input[i] + Output[i] - 1 \in Nat /\ Input[i] <= Input[i] + Output[i] - 1
    BY <1>1
  <2>2. Ceil(Input[i]) <= Ceil(Input[i] + Output[i] - 1) /\ Ceil(Input[i]) \in Nat
    BY <1>1, <2>1, CeilFacts
  <2>3. Ceil(Input[i] + Output[i] - 1) \in Nat
    BY <2>1, CeilType
  <2> QED
    BY <1>1, <2>2, <2>3
<1>5. ASSUME NEW d \in Nat, c <= d
      PROVE  m \div BlockSize <= Min({d, Input[i]}) \div BlockSize
  <2> DEFINE k == Min({d, Input[i]})
  <2>1. k \in {d, Input[i]}
    BY <1>1, MinOfTwo
  <2> HIDE DEF k
  <2>2. k \in Nat /\ m <= k
    BY <1>1, <1>2, <1>5, <2>1
  <2>3. m \div BlockSize <= k \div BlockSize
    BY <1>1, <1>2, <2>2, DivMonotonic
  <2> QED
    BY <2>3 DEF k
<1>6. m \div BlockSize <= Capacity
  <2>1. Ceil(Input[i]) \in Nat
    BY <1>1, CeilType
  <2> QED
    BY <1>1, <1>3, <1>4, <2>1
<1> QED
  BY <1>1, <1>3, <1>5, <1>6 DEF m

(* A request that is not complete fits the pool with all it may compute. *)
LEMMA FitsAlone ==
  ASSUME NEW i \in Requests, NEW made \in Nat, made < Output[i], NEW c \in Nat,
         c <= Input[i] + made
  PROVE  Ceil(c) \in Nat /\ Ceil(c) <= Capacity
<1>1. /\ Input[i] \in Nat /\ Output[i] \in Nat \ {0} /\ Capacity \in Nat
      /\ Ceil(Input[i] + Output[i] - 1) <= Capacity
  BY Sizes, Demands
<1>2. Input[i] + Output[i] - 1 \in Nat /\ c <= Input[i] + Output[i] - 1
  BY <1>1
<1>3. Ceil(c) \in Nat /\ Ceil(c) <= Ceil(Input[i] + Output[i] - 1)
  BY <1>2, CeilFacts
<1>4. Ceil(Input[i] + Output[i] - 1) \in Nat
  BY <1>2, CeilType
<1> QED
  BY <1>1, <1>3, <1>4

(* Two prefixes are the same only if they are of the same length; and of    *)
(* none is the identity None.                                               *)
LEMMA PrefixFacts ==
  ASSUME NEW i \in Requests, NEW n \in 1..Len(Hashes[i])
  PROVE  /\ Prefix(i, n) \in Seq(Int) /\ Len(Prefix(i, n)) = n
         /\ Prefix(i, n) # None /\ Prefix(i, n) \in Identities
<1>1. Hashes[i] \in Seq(Int)
  BY Demands
<1>2. n \in DOMAIN Hashes[i]
  BY <1>1
<1>3. Prefix(i, n) \in Seq(Int) /\ Len(Prefix(i, n)) = n
  BY <1>1 DEF Prefix
<1> QED
  BY <1>2, <1>3, NoneAssumption DEF Identities

-----------------------------------------------------------------------------
(* The order of arrival *)

Rank(i) == Cardinality({j \in Requests : Before(j, i)})

LEMMA RequestsFinite == IsFiniteSet(Requests) /\ Cardinality(Requests) = N
  BY Sizes, FS_Interval DEF Requests

LEMMA RankBelow ==
  ASSUME NEW i \in Requests
  PROVE  Rank(i) \in 0..(N - 1)
<1> DEFINE S == {j \in Requests : Before(j, i)}
<1>1. S \in SUBSET (Requests \ {i})
  BY Demands DEF Before
<1>2. IsFiniteSet(Requests \ {i}) /\ Cardinality(Requests \ {i}) = N - 1
  BY RequestsFinite, FS_RemoveElement
<1>3. IsFiniteSet(S) /\ Cardinality(S) <= N - 1
  BY <1>1, <1>2, FS_Subset
<1>4. Cardinality(S) \in Nat
  BY <1>3, FS_CardinalityType
<1> QED
  BY <1>3, <1>4, Sizes DEF Rank

LEMMA RankOrder ==
  ASSUME NEW i \in Requests, NEW j \in Requests, Before(i, j)
  PROVE  Rank(i) < Rank(j)
<1> DEFINE S(k) == {m \in Requests : Before(m, k)}
<1>1. S(i) \in SUBSET S(j)
  <2> SUFFICES ASSUME NEW m \in Requests, Before(m, i) PROVE Before(m, j)
    OBVIOUS
  <2>1. m \in Nat /\ i \in Nat /\ j \in Nat /\ Arrival[m] \in Nat /\ Arrival[i] \in Nat /\ Arrival[j] \in Nat
    BY Demands
  <2> QED
    BY <2>1 DEF Before
<1>2. i \in S(j) /\ i \notin S(i)
  BY Demands DEF Before
<1>3. IsFiniteSet(S(j))
  <2>1. S(j) \in SUBSET Requests
    OBVIOUS
  <2> QED
    BY <2>1, RequestsFinite, FS_Subset
<1>4. Cardinality(S(i)) <= Cardinality(S(j)) /\ Cardinality(S(i)) # Cardinality(S(j))
  BY <1>1, <1>2, <1>3, FS_Subset
<1>5. Rank(i) \in Int /\ Rank(j) \in Int
  BY RankBelow, Sizes
<1> QED
  BY <1>4, <1>5 DEF Rank

LEMMA ByArrivalFacts ==
  /\ ByArrival \in Seq(Requests)
  /\ IsInjectiveSeq(ByArrival)
  /\ Elements(ByArrival) = Requests
<1> DEFINE f == [i \in Requests |-> Rank(i) + 1]
<1>1. Requests = 1..N /\ N \in Nat
  BY Sizes DEF Requests
<1>2. f \in [1..N -> 1..N]
  <2>1. \A i \in 1..N : Rank(i) + 1 \in 1..N
    BY <1>1, RankBelow
  <2> QED
    BY <1>1, <2>1
<1>3. \A i, j \in 1..N : Rank(i) = Rank(j) => i = j
  <2> SUFFICES ASSUME NEW i \in Requests, NEW j \in Requests, i # j
               PROVE  Rank(i) # Rank(j)
    BY <1>1
  <2>1. Before(i, j) \/ Before(j, i)
    <3>1. i \in Nat /\ j \in Nat /\ Arrival[i] \in Nat /\ Arrival[j] \in Nat
      BY Demands
    <3> QED
      BY <3>1 DEF Before
  <2>2. Rank(i) \in Int /\ Rank(j) \in Int
    BY <1>1, RankBelow
  <2> QED
    BY <2>1, <2>2, RankOrder
<1>4. \A i, j \in 1..N : f[i] = f[j] => i = j
  BY <1>1, <1>2, <1>3, RankBelow
<1> HIDE DEF f
<1>5. \A k \in 1..N : \E i \in 1..N : f[i] = k
  BY <1>1, <1>2, <1>4, InjectiveOnto
<1>6. \A k \in Requests : ByArrival[k] \in Requests /\ Rank(ByArrival[k]) = k - 1
  <2> SUFFICES ASSUME NEW k \in Requests
               PROVE  ByArrival[k] \in Requests /\ Rank(ByArrival[k]) = k - 1
    OBVIOUS
  <2>1. PICK i \in Requests : f[i] = k
    BY <1>1, <1>5
  <2>2. Rank(i) = k - 1
    BY <1>1, <2>1, RankBelow DEF f
  <2>3. ByArrival[k] = CHOOSE j \in Requests : Rank(j) = k - 1
    BY DEF ByArrival, Rank
  <2> QED
    BY <2>2, <2>3
<1> DEFINE s == ByArrival
           at(k) == CHOOSE i \in Requests : Cardinality({j \in Requests : Before(j, i)}) = k - 1
<1>7. s = [k \in 1..N |-> s[k]] /\ DOMAIN s = 1..N
  <2>1. s = [k \in Requests |-> at(k)]
    BY DEF ByArrival
  <2> HIDE DEF s, at
  <2> QED
    BY <1>1, <2>1
<1> HIDE DEF s
<1>8. s \in Seq(Requests)
  BY <1>1, <1>6, <1>7 DEF s
<1>9. IsInjectiveSeq(s)
  BY <1>1, <1>6, <1>7 DEF IsInjectiveSeq, s
<1>10. Elements(s) = Requests
  <2>1. ASSUME NEW i \in Requests PROVE i \in Elements(s)
    <3>1. f[i] \in 1..N /\ f[i] - 1 = Rank(i)
      BY <1>1, <1>2, RankBelow DEF f
    <3>2. s[f[i]] \in Requests /\ Rank(s[f[i]]) = Rank(i)
      BY <1>1, <1>6, <3>1 DEF s
    <3>3. s[f[i]] = i
      BY <1>1, <1>3, <3>2
    <3> QED
      BY <1>7, <3>1, <3>3 DEF Elements
  <2>2. Elements(s) \subseteq Requests
    BY <1>8, ListFacts
  <2> QED
    BY <2>1, <2>2
<1> QED
  BY <1>8, <1>9, <1>10 DEF s

-----------------------------------------------------------------------------
(* The pool *)

LEMMA HoldersFacts ==
  ASSUME NEW b
  PROVE  IsFiniteSet(Holders(b)) /\ Cardinality(Holders(b)) \in Nat
<1>1. Holders(b) \in SUBSET Requests
  BY DEF Holders
<1>2. IsFiniteSet(Holders(b))
  BY <1>1, RequestsFinite, FS_Subset
<1> QED
  BY <1>2, FS_CardinalityType

(* A block is free just if nobody lists it. *)
LEMMA FreeIsUnheld ==
  ASSUME PoolOK, NEW b \in Blocks
  PROVE  b \in Elements(free) <=> Holders(b) = {}
<1>1. blocks[b].refs = Cardinality(Holders(b)) /\ (b \in Elements(free) <=> blocks[b].refs = 0)
  BY DEF PoolOK
<1>2. Cardinality(Holders(b)) = 0 <=> Holders(b) = {}
  BY HoldersFacts, FS_EmptySet
<1> QED
  BY <1>1, <1>2

LEMMA BlockShape ==
  ASSUME TypeOK, NEW b \in Blocks
  PROVE  /\ blocks[b] = [identity |-> blocks[b].identity, refs |-> blocks[b].refs]
         /\ blocks[b].identity \in Identities /\ blocks[b].refs \in Nat
  BY DEF TypeOK, BlockType

(* release: v gives up its blocks. *)
LEMMA ReleasePool ==
  ASSUME TypeOK, PoolOK, NEW v \in Requests, Release(progress[v].blocks),
         progress'[v].blocks = <<>>,
         \A i \in Requests \ {v} : progress'[i].blocks = progress[i].blocks
  PROVE  /\ PoolOK'
         /\ blocks' \in [Blocks -> BlockType] /\ free' \in Seq(Blocks)
         /\ \A b \in Blocks : blocks'[b].identity = blocks[b].identity
         /\ \A b \in Blocks : Holders(b)' = Holders(b) \ {v}
<1> DEFINE ids == progress[v].blocks
           left == {b \in Elements(ids) : blocks[b].refs = 1}
           cached == {b \in left : Cached(b)}
           front == Sublist(Backwards(ids), left \ cached)
           back == Sublist(Backwards(ids), cached)
<1>1. /\ ids \in Seq(Blocks) /\ IsInjectiveSeq(ids) /\ Elements(ids) \subseteq Blocks
      /\ free \in Seq(Blocks) /\ IsInjectiveSeq(free) /\ Elements(free) \subseteq Blocks
  <2>1. ids \in Seq(Blocks) /\ free \in Seq(Blocks) /\ IsInjectiveSeq(ids) /\ IsInjectiveSeq(free)
    BY DEF TypeOK, ProgressType, PoolOK
  <2> HIDE DEF ids
  <2> QED
    BY <2>1, ListFacts
<1>2. ASSUME NEW b \in Blocks
      PROVE  /\ Holders(b)' = Holders(b) \ {v}
             /\ v \in Holders(b) <=> b \in Elements(ids)
  <2>1. Elements(progress'[v].blocks) = {}
    BY DEF Elements
  <2> QED
    BY <2>1 DEF Holders
<1>3. blocks' = [b \in Blocks |->
        IF b \in Elements(ids) THEN [blocks[b] EXCEPT !.refs = @ - 1] ELSE blocks[b]]
  BY DEF Release
<1>4. free' = front \o free \o back
  BY DEF Release
<1> HIDE DEF ids
<1>5. ASSUME NEW b \in Blocks
      PROVE  /\ blocks[b].refs = Cardinality(Holders(b)) /\ blocks[b].refs \in Nat
             /\ b \in Elements(free) <=> blocks[b].refs = 0
             /\ b \in Elements(ids) => blocks[b].refs > 0
             /\ Cardinality(Holders(b)')
                  = IF b \in Elements(ids) THEN blocks[b].refs - 1 ELSE blocks[b].refs
  <2>1. blocks[b].refs = Cardinality(Holders(b)) /\ (b \in Elements(free) <=> blocks[b].refs = 0)
    BY DEF PoolOK
  <2>2. blocks[b].refs \in Nat
    BY <2>1, HoldersFacts
  <2>3. b \in Elements(ids) => Cardinality(Holders(b)) # 0
    BY <1>2, HoldersFacts, FS_EmptySet
  <2>4. Cardinality(Holders(b) \ {v})
          = IF v \in Holders(b) THEN Cardinality(Holders(b)) - 1 ELSE Cardinality(Holders(b))
    BY HoldersFacts, FS_RemoveElement
  <2>5. Cardinality(Holders(b)') = Cardinality(Holders(b) \ {v})
          /\ (v \in Holders(b) <=> b \in Elements(ids))
    BY <1>2
  <2>6. b \in Elements(ids) => blocks[b].refs > 0
    BY <2>1, <2>2, <2>3
  <2>7. Cardinality(Holders(b)')
          = IF b \in Elements(ids) THEN blocks[b].refs - 1 ELSE blocks[b].refs
    BY <2>1, <2>4, <2>5
  <2> QED
    BY <2>1, <2>2, <2>6, <2>7
<1>6. ASSUME NEW b \in Blocks
      PROVE  /\ blocks'[b].identity = blocks[b].identity
             /\ blocks'[b].refs = Cardinality(Holders(b)')
             /\ blocks'[b] \in BlockType
  <2>1. /\ blocks[b] = [identity |-> blocks[b].identity, refs |-> blocks[b].refs]
        /\ blocks[b].identity \in Identities /\ blocks[b].refs \in Nat
    BY BlockShape
  <2>2. CASE b \in Elements(ids)
    <3>1. blocks'[b] = [blocks[b] EXCEPT !.refs = @ - 1]
      BY <1>3, <2>2
    <3>2. blocks'[b] = [identity |-> blocks[b].identity, refs |-> blocks[b].refs - 1]
      BY <2>1, <3>1
    <3>3. blocks[b].refs - 1 \in Nat
      BY <1>5, <2>2
    <3> QED
      BY <1>5, <2>1, <2>2, <3>2, <3>3 DEF BlockType
  <2>3. CASE b \notin Elements(ids)
    <3>1. blocks'[b] = blocks[b]
      BY <1>3, <2>3
    <3> QED
      BY <1>5, <2>1, <2>3, <3>1 DEF BlockType
  <2> QED
    BY <2>2, <2>3
<1>7. /\ front \in Seq(Blocks) /\ IsInjectiveSeq(front) /\ Elements(front) = left \ cached
      /\ back \in Seq(Blocks) /\ IsInjectiveSeq(back) /\ Elements(back) = cached
  <2>1. /\ Backwards(ids) \in Seq(Blocks) /\ Elements(Backwards(ids)) = Elements(ids)
        /\ IsInjectiveSeq(Backwards(ids))
    BY <1>1, BackwardsFacts
  <2>2. left \subseteq Elements(ids) /\ cached \subseteq left
    OBVIOUS
  <2> HIDE DEF left, cached
  <2>3. front \in Seq(Blocks) /\ back \in Seq(Blocks)
    BY <2>1, SublistType
  <2>4. IsInjectiveSeq(front) /\ IsInjectiveSeq(back)
    BY <2>1, SublistInjective
  <2>5. Elements(front) = Elements(Backwards(ids)) \cap (left \ cached)
    BY <2>1, SublistElements
  <2>6. Elements(back) = Elements(Backwards(ids)) \cap cached
    BY <2>1, SublistElements
  <2> QED
    BY <2>1, <2>2, <2>3, <2>4, <2>5, <2>6
<1>8. left \cap Elements(free) = {} /\ cached \subseteq left
  BY <1>1, <1>5
<1> HIDE DEF front, back, left, cached
<1>9. /\ front \o free \in Seq(Blocks)
      /\ Elements(front \o free) = (left \ cached) \cup Elements(free)
      /\ IsInjectiveSeq(front \o free)
  <2>1. Elements(front) \cap Elements(free) = {}
    BY <1>7, <1>8
  <2> QED
    BY <1>1, <1>7, <2>1, ConcatFacts
<1>10. /\ free' \in Seq(Blocks) /\ Elements(free') = left \cup Elements(free)
       /\ IsInjectiveSeq(free')
  <2>1. Elements(front \o free) \cap Elements(back) = {}
    BY <1>7, <1>8, <1>9
  <2> DEFINE s == front \o free
  <2> HIDE DEF s
  <2>2. s \in Seq(Blocks) /\ IsInjectiveSeq(s) /\ Elements(s) \cap Elements(back) = {}
    BY <1>9, <2>1 DEF s
  <2>3. s \o back \in Seq(Blocks) /\ IsInjectiveSeq(s \o back)
          /\ Elements(s \o back) = Elements(s) \cup Elements(back)
    BY <1>7, <2>2, ConcatFacts
  <2> QED
    BY <1>4, <1>7, <1>8, <1>9, <2>3 DEF s
<1>11. ASSUME NEW b \in Blocks PROVE b \in Elements(free') <=> blocks'[b].refs = 0
  <2>1. b \in left <=> b \in Elements(ids) /\ blocks[b].refs = 1
    BY DEF left
  <2> QED
    BY <1>5, <1>6, <1>10, <2>1
<1>12. \A i \in Requests : IsInjectiveSeq(progress'[i].blocks)
  <2>1. IsInjectiveSeq(progress'[v].blocks)
    BY DEF IsInjectiveSeq
  <2> QED
    BY <2>1 DEF PoolOK
<1>13. blocks' \in [Blocks -> BlockType]
  BY <1>3, <1>6
<1>14. PoolOK'
  BY <1>6, <1>10, <1>11, <1>12 DEF PoolOK
<1> QED
  BY <1>2, <1>6, <1>10, <1>13, <1>14

(* allocate, with the hits of an admission: i shares hits and takes free    *)
(* blocks.                                                                  *)
LEMMA HoldPool ==
  ASSUME TypeOK, PoolOK, NEW i \in Requests,
         NEW hits \in Seq(Blocks), NEW taken \in Seq(Blocks), Hold(hits, taken),
         Elements(taken) \subseteq Elements(free), Elements(taken) \cap Elements(hits) = {},
         Elements(hits) \cap Elements(progress[i].blocks) = {},
         IsInjectiveSeq(progress'[i].blocks),
         Elements(progress'[i].blocks)
           = Elements(progress[i].blocks) \cup Elements(hits) \cup Elements(taken),
         \A j \in Requests \ {i} : progress'[j].blocks = progress[j].blocks
  PROVE  /\ PoolOK'
         /\ blocks' \in [Blocks -> BlockType] /\ free' \in Seq(Blocks)
         /\ \A b \in Blocks : blocks'[b].identity
              = IF b \in Elements(taken) THEN None ELSE blocks[b].identity
         /\ \A b \in Blocks : Holders(b)'
              = IF b \in Elements(taken) \cup Elements(hits) THEN Holders(b) \cup {i} ELSE Holders(b)
<1>1. /\ Elements(hits) \subseteq Blocks /\ Elements(taken) \subseteq Blocks
      /\ free \in Seq(Blocks) /\ IsInjectiveSeq(free) /\ Elements(free) \subseteq Blocks
  <2>1. free \in Seq(Blocks) /\ IsInjectiveSeq(free)
    BY DEF TypeOK, PoolOK
  <2> QED
    BY <2>1, ListFacts
<1>2. blocks' = [b \in Blocks |->
        IF b \in Elements(taken) THEN [identity |-> None, refs |-> 1]
        ELSE IF b \in Elements(hits) THEN [blocks[b] EXCEPT !.refs = @ + 1] ELSE blocks[b]]
  BY DEF Hold
<1>3. free' = Sublist(free, Blocks \ (Elements(taken) \cup Elements(hits)))
  BY DEF Hold
<1>4. ASSUME NEW b \in Blocks
      PROVE  /\ Holders(b)' = IF b \in Elements(taken) \cup Elements(hits)
                                THEN Holders(b) \cup {i} ELSE Holders(b)
             /\ b \in Elements(taken) \cup Elements(hits) => i \notin Holders(b)
             /\ b \in Elements(taken) => Holders(b) = {}
  <2>1. b \in Elements(taken) => Holders(b) = {}
    BY FreeIsUnheld
  <2>2. i \in Holders(b) <=> b \in Elements(progress[i].blocks)
    BY DEF Holders
  <2>3. Holders(b)' = IF b \in Elements(taken) \cup Elements(hits)
                        THEN Holders(b) \cup {i} ELSE Holders(b)
    BY DEF Holders
  <2> QED
    BY <2>1, <2>2, <2>3
<1>5. ASSUME NEW b \in Blocks
      PROVE  /\ blocks[b].refs = Cardinality(Holders(b)) /\ blocks[b].refs \in Nat
             /\ b \in Elements(free) <=> blocks[b].refs = 0
             /\ Cardinality(Holders(b)')
                  = IF b \in Elements(taken) THEN 1
                    ELSE IF b \in Elements(hits) THEN blocks[b].refs + 1 ELSE blocks[b].refs
  <2>1. blocks[b].refs = Cardinality(Holders(b)) /\ (b \in Elements(free) <=> blocks[b].refs = 0)
    BY DEF PoolOK
  <2>2. blocks[b].refs \in Nat
    BY <2>1, HoldersFacts
  <2>3. Cardinality(Holders(b) \cup {i})
          = IF i \in Holders(b) THEN Cardinality(Holders(b)) ELSE Cardinality(Holders(b)) + 1
    BY HoldersFacts, FS_AddElement
  <2>4. b \in Elements(taken) => blocks[b].refs = 0
    BY <2>1
  <2>5. Cardinality(Holders(b)')
          = IF b \in Elements(taken) \cup Elements(hits) THEN blocks[b].refs + 1 ELSE blocks[b].refs
    BY <1>4, <2>1, <2>3
  <2> QED
    BY <2>1, <2>2, <2>4, <2>5
<1>6. ASSUME NEW b \in Blocks
      PROVE  /\ blocks'[b].identity = IF b \in Elements(taken) THEN None ELSE blocks[b].identity
             /\ blocks'[b].refs = Cardinality(Holders(b)')
             /\ blocks'[b] \in BlockType
  <2>1. /\ blocks[b] = [identity |-> blocks[b].identity, refs |-> blocks[b].refs]
        /\ blocks[b].identity \in Identities /\ blocks[b].refs \in Nat
    BY BlockShape
  <2>2. CASE b \in Elements(taken)
    <3>1. blocks'[b] = [identity |-> None, refs |-> 1]
      BY <1>2, <2>2
    <3> QED
      BY <1>5, <2>2, <3>1 DEF BlockType, Identities
  <2>3. CASE b \notin Elements(taken) /\ b \in Elements(hits)
    <3>1. blocks'[b] = [blocks[b] EXCEPT !.refs = @ + 1]
      BY <1>2, <2>3
    <3>2. blocks'[b] = [identity |-> blocks[b].identity, refs |-> blocks[b].refs + 1]
      BY <2>1, <3>1
    <3> QED
      BY <1>5, <2>1, <2>3, <3>2 DEF BlockType
  <2>4. CASE b \notin Elements(taken) /\ b \notin Elements(hits)
    <3>1. blocks'[b] = blocks[b]
      BY <1>2, <2>4
    <3> QED
      BY <1>5, <2>1, <2>4, <3>1 DEF BlockType
  <2> QED
    BY <2>2, <2>3, <2>4
<1>7. /\ free' \in Seq(Blocks) /\ IsInjectiveSeq(free')
      /\ Elements(free') = Elements(free) \cap (Blocks \ (Elements(taken) \cup Elements(hits)))
  BY <1>1, <1>3, SublistType, SublistInjective, SublistElements
<1>8. ASSUME NEW b \in Blocks PROVE b \in Elements(free') <=> blocks'[b].refs = 0
  BY <1>5, <1>6, <1>7
<1>9. \A j \in Requests : IsInjectiveSeq(progress'[j].blocks)
  BY DEF PoolOK
<1>10. blocks' \in [Blocks -> BlockType]
  BY <1>2, <1>6
<1>11. PoolOK'
  BY <1>6, <1>7, <1>8, <1>9 DEF PoolOK
<1> QED
  BY <1>4, <1>6, <1>7, <1>10, <1>11

(* What allocate may take: free blocks, each once, as many as asked for.    *)
LEMMA TakesFacts ==
  ASSUME NEW queue \in Seq(Blocks), IsInjectiveSeq(queue), NEW count \in Nat, count <= Len(queue),
         NEW taken \in Takes(queue, count)
  PROVE  /\ taken \in Seq(Blocks) /\ Len(taken) = count /\ IsInjectiveSeq(taken)
         /\ Elements(taken) \subseteq Elements(queue)
<1> DEFINE stocked == Stock(queue, count)
<1>1. Elements(queue) \subseteq Blocks /\ count \in 0..Len(queue)
  BY ListFacts
<1>2. CASE taken = stocked
  <2>1. stocked = SubSeq(queue, 1, count)
    BY DEF Stock
  <2> HIDE DEF stocked
  <2>2. /\ SubSeq(queue, 1, count) \in Seq(Blocks) /\ Len(SubSeq(queue, 1, count)) = count
        /\ IsInjectiveSeq(SubSeq(queue, 1, count))
        /\ Elements(SubSeq(queue, 1, count)) \subseteq Elements(queue)
    BY <1>1, FrontFacts
  <2> QED
    BY <1>2, <2>1, <2>2
<1>3. CASE taken \in [1..count -> Elements(queue)] /\ IsInjectiveSeq(taken)
  <2>1. taken \in [1..count -> Blocks]
    BY <1>1, <1>3
  <2>2. taken \in Seq(Blocks) /\ Len(taken) = count
    BY <2>1
  <2>3. Elements(taken) \subseteq Elements(queue)
    BY <1>3 DEF Elements
  <2> QED
    BY <1>3, <2>2, <2>3
<1> QED
  BY <1>2, <1>3 DEF Takes

-----------------------------------------------------------------------------
(* A request, and the batch *)

LEMMA ProgressFacts ==
  ASSUME TypeOK, NEW i \in Requests
  PROVE  /\ progress[i].computed \in Nat
         /\ progress[i].blocks \in Seq(Blocks) /\ Len(progress[i].blocks) \in Nat
         /\ progress[i].outputs \in Seq(Nat) /\ Len(progress[i].outputs) \in Nat
         /\ Target(i) \in Nat
<1>1. progress[i] \in ProgressType
  BY DEF TypeOK
<1>2. progress[i].outputs \in Seq(Nat) /\ Len(progress[i].outputs) \in Nat
  BY <1>1 DEF ProgressType
<1>3. Target(i) \in Nat
  BY <1>2, Demands DEF Target
<1> QED
  BY <1>1, <1>2, <1>3 DEF ProgressType

(* A request behind its target is served at least a token, and not beyond   *)
(* its target or the budget.                                                *)
LEMMA GrantFacts ==
  ASSUME NEW c \in Nat, NEW t \in Nat, c < t, NEW left \in Nat \ {0}, NEW chunk \in Nat \ {0}
  PROVE  LET n == Min({left, t - c, chunk})
         IN n \in Nat \ {0} /\ n <= left /\ c + n <= t
<1> DEFINE S == {left, t - c, chunk}
<1>1. S \in SUBSET Nat /\ S # {} /\ t - c \in Nat \ {0}
  OBVIOUS
<1>2. Min(S) \in S /\ \A x \in S : Min(S) <= x
  BY <1>1, MinFacts
<1>3. Min(S) \in {left, t - c, chunk} /\ Min(S) <= left /\ Min(S) <= t - c
  BY <1>2
<1> QED
  BY <1>1, <1>3

LEMMA ServedNone ==
  ASSUME NEW i, \A k \in DOMAIN services : services[k].index # i
  PROVE  Served(i) = 0 /\ Computed(i) = progress[i].computed + 0
  BY DEF Served, Computed

LEMMA ServedAt ==
  ASSUME services \in Seq(ServiceType), NEW k \in DOMAIN services,
         \A l \in DOMAIN services : services[l].index = services[k].index => l = k
  PROVE  Served(services[k].index) = services[k].tokens /\ services[k].tokens \in 1..TokenBudget
<1>1. {l \in DOMAIN services : services[l].index = services[k].index} = {k}
  OBVIOUS
<1>2. Served(services[k].index) = services[CHOOSE l \in {k} : TRUE].tokens
  BY <1>1 DEF Served
<1>3. services[k] \in ServiceType
  BY ListFacts
<1> QED
  BY <1>2, <1>3 DEF ServiceType

LEMMA ServedType ==
  ASSUME services \in Seq(ServiceType), NEW i
  PROVE  Served(i) \in Nat /\ (Served(i) > 0 => \E k \in DOMAIN services : services[k].index = i)
<1> DEFINE visits == {k \in DOMAIN services : services[k].index = i}
<1>1. CASE visits = {}
  BY <1>1 DEF Served
<1>2. CASE visits # {}
  <2>1. PICK k \in visits : Served(i) = services[k].tokens
    BY <1>2 DEF Served
  <2>2. services[k] \in ServiceType
    BY <2>1, ListFacts
  <2>3. services[k].tokens \in Nat
    BY <2>2, Sizes DEF ServiceType
  <2> QED
    BY <2>1, <2>3
<1> QED
  BY <1>1, <1>2

(* One more service is that of its request; those of others are the same.   *)
LEMMA ServedAppend ==
  ASSUME services \in Seq(ServiceType), NEW s \in ServiceType, services' = Append(services, s),
         \A k \in DOMAIN services : services[k].index # s.index
  PROVE  /\ Served(s.index)' = s.tokens
         /\ \A j \in Requests \ {s.index} : Served(j)' = Served(j)
<1>1. /\ DOMAIN services' = DOMAIN services \cup {Len(services) + 1}
      /\ \A k \in DOMAIN services : services'[k] = services[k]
      /\ services'[Len(services) + 1] = s
      /\ Len(services) + 1 \notin DOMAIN services
  BY AppendFacts, ListFacts
<1>2. Served(s.index)' = s.tokens
  <2>1. {k \in DOMAIN services' : services'[k].index = s.index} = {Len(services) + 1}
    BY <1>1
  <2>2. Served(s.index)' = services'[CHOOSE k \in {Len(services) + 1} : TRUE].tokens
    BY <2>1 DEF Served
  <2> QED
    BY <1>1, <2>2
<1>3. ASSUME NEW j \in Requests \ {s.index} PROVE Served(j)' = Served(j)
  <2> DEFINE visits == {k \in DOMAIN services : services[k].index = j}
             next == {k \in DOMAIN services' : services'[k].index = j}
             pick(S) == CHOOSE k \in S : TRUE
             at == pick(visits)
  <2>1. next = visits
    BY <1>1
  <2>2. visits # {} => at \in visits /\ at \in DOMAIN services
    OBVIOUS
  <2>3. Served(j)' = IF visits = {} THEN 0 ELSE services'[at].tokens
    <3>1. Served(j)' = IF next = {} THEN 0 ELSE services'[pick(next)].tokens
      BY DEF Served
    <3> HIDE DEF next, visits, pick
    <3> QED
      BY <2>1, <3>1
  <2>4. Served(j) = IF visits = {} THEN 0 ELSE services[at].tokens
    BY DEF Served
  <2> HIDE DEF visits, at
  <2> QED
    BY <1>1, <2>2, <2>3, <2>4
<1> QED
  BY <1>2, <1>3

-----------------------------------------------------------------------------
(* Each action keeps the inductive invariant *)

\* How a replay begins.
Fresh ==
  /\ blocks = FreshBlocks /\ free = FreeOrder /\ progress = FreshProgress
  /\ running = <<>> /\ waiting = <<>> /\ released = {}
  /\ time = 0 /\ phase = "start"
  /\ todo = <<>> /\ budget \in 0..TokenBudget /\ services = <<>>
  /\ hadPreemption \in BOOLEAN /\ stock \in BOOLEAN /\ mode \in {"baseline", "search"}

LEMMA FreshInductive == Fresh => Inductive
<1> SUFFICES ASSUME Fresh PROVE Inductive
  OBVIOUS
<1>1. Blocks = 1..Capacity /\ Capacity \in Nat
  BY Sizes DEF Blocks
<1>2. /\ free \in Seq(Blocks) /\ DOMAIN free = Blocks /\ \A b \in Blocks : free[b] = b
  BY <1>1 DEF Fresh, FreeOrder
<1>3. Elements(free) = Blocks /\ IsInjectiveSeq(free)
  BY <1>2 DEF Elements, IsInjectiveSeq
<1>4. \A i \in Requests :
        progress[i] = [computed |-> 0, blocks |-> <<>>, outputs |-> <<>>]
  BY DEF Fresh, FreshProgress
<1>5. \A b \in Blocks : blocks[b] = [identity |-> None, refs |-> 0]
  BY DEF Fresh, FreshBlocks
<1>6. TypeOK
  <2>1. blocks \in [Blocks -> BlockType]
    <3>1. [identity |-> None, refs |-> 0] \in BlockType
      BY DEF BlockType, Identities
    <3> QED
      BY <3>1 DEF Fresh, FreshBlocks
  <2>2. progress \in [Requests -> ProgressType]
    <3>1. [computed |-> 0, blocks |-> <<>>, outputs |-> <<>>] \in ProgressType
      BY DEF ProgressType
    <3> QED
      BY <3>1 DEF Fresh, FreshProgress
  <2> QED
    BY <1>2, <2>1, <2>2 DEF TypeOK, Fresh
<1>7. \A b \in Blocks : Holders(b) = {}
  BY <1>4 DEF Holders, Elements
<1>8. PoolOK
  <2>1. \A b \in Blocks : blocks[b].refs = Cardinality(Holders(b))
    BY <1>5, <1>7, FS_EmptySet
  <2>2. \A i \in Requests : IsInjectiveSeq(progress[i].blocks)
    BY <1>4 DEF IsInjectiveSeq
  <2> QED
    BY <1>3, <1>5, <2>1, <2>2 DEF PoolOK
<1>9. \A i \in Requests : ~Completed(i)
  <2> SUFFICES ASSUME NEW i \in Requests PROVE ~Completed(i)
    OBVIOUS
  <2>1. Len(progress[i].outputs) = 0 /\ Output[i] # 0
    BY <1>4, Demands
  <2> QED
    BY <2>1 DEF Completed
<1>10. Elements(running) = {} /\ Elements(waiting) = {} /\ IsInjectiveSeq(running) /\ IsInjectiveSeq(waiting)
  BY DEF Fresh, Elements, IsInjectiveSeq
<1>11. QueuesOK
  BY <1>4, <1>9, <1>10 DEF QueuesOK, Fresh
<1>12. VisitsOK
  BY DEF VisitsOK, Fresh
<1>13. TablesOK
  <2>1. \A i \in Requests : Len(progress[i].outputs) <= Output[i]
    BY <1>4, Demands
  <2> QED
    BY <1>10, <2>1 DEF TablesOK
<1>14. ContentOK
  BY <1>10 DEF ContentOK
<1> QED
  BY <1>6, <1>8, <1>11, <1>12, <1>13, <1>14 DEF Inductive

LEMMA InitFresh == Init => Fresh
<1> SUFFICES ASSUME Init PROVE Fresh
  OBVIOUS
<1>1. budget \in 0..TokenBudget
  BY Sizes DEF Init
<1> QED
  BY <1>1 DEF Init, Fresh

LEMMA SearchFresh == Inductive /\ Search => Fresh'
<1> SUFFICES ASSUME Inductive, Search PROVE Fresh'
  OBVIOUS
<1>1. /\ budget \in 0..TokenBudget /\ hadPreemption \in BOOLEAN
      /\ services = <<>> /\ todo = <<>>
  BY DEF Inductive, TypeOK, VisitsOK, Search
<1> QED
  BY <1>1 DEF Fresh, Search, batch

LEMMA SearchStep == Inductive /\ Search => Inductive'
<1>1. Fresh' => Inductive'
  BY FreshInductive, PTL
<1> QED
  BY <1>1, SearchFresh

LEMMA StutterStep == Inductive /\ UNCHANGED vars => Inductive'
<1> SUFFICES ASSUME Inductive, UNCHANGED vars PROVE Inductive'
  OBVIOUS
<1> USE DEF Inductive, vars, cache, queues, batch
<1>1. TypeOK'
  BY DEF TypeOK
<1>2. PoolOK'
  BY DEF PoolOK, Holders
<1>3. QueuesOK'
  BY DEF QueuesOK, Completed
<1>4. VisitsOK'
  BY DEF VisitsOK, Completed
<1>5. TablesOK'
  BY DEF TablesOK, Completed, Target, Computed, Served
<1>6. ContentOK'
  BY DEF ContentOK, Content, Whole, Holders
<1> QED
  BY <1>1, <1>2, <1>3, <1>4, <1>5, <1>6

(* The pool and what it holds are as before if nothing is taken or given.   *)
LEMMA SamePool ==
  ASSUME Inductive, UNCHANGED <<cache, progress, running>>
  PROVE  PoolOK' /\ ContentOK'
  BY DEF Inductive, PoolOK, ContentOK, Content, Whole, Holders, cache

LEMMA SameTables ==
  ASSUME TablesOK, UNCHANGED <<running, progress, services>>
  PROVE  TablesOK'
<1>1. \A i \in Requests : Served(i)' = Served(i)
  BY DEF Served
<1>2. \A i \in Elements(running) :
        Computed(i)' = Computed(i) /\ Target(i)' = Target(i) /\ Completed(i)' = Completed(i)
  BY DEF Computed, Served, Target, Completed
<1> QED
  BY <1>2 DEF TablesOK

LEMMA StartStep == Inductive /\ Start => Inductive'
<1> SUFFICES ASSUME Inductive, Start PROVE Inductive'
  OBVIOUS
<1> DEFINE due == {i \in Requests \ released : Arrival[i] <= time}
           coming == Sublist(ByArrival, due)
<1>1. /\ phase = "start" /\ phase' = "running"
      /\ released' = released \cup due /\ waiting' = waiting \o coming
      /\ todo' = running /\ budget' = TokenBudget /\ services' = <<>> /\ hadPreemption' = FALSE
      /\ UNCHANGED <<blocks, free, progress, running, time, mode, stock>>
      /\ \E i \in Requests : ~Completed(i)
  BY DEF Start, cache
<1>2. TypeOK /\ QueuesOK /\ VisitsOK /\ TablesOK
  BY DEF Inductive
<1>3. services = <<>>
  BY <1>1, <1>2 DEF VisitsOK
<1>4. /\ coming \in Seq(Requests) /\ IsInjectiveSeq(coming) /\ Elements(coming) = due
  <2>1. Elements(coming) = Requests \cap due
    BY ByArrivalFacts, SublistElements
  <2>2. coming \in Seq(Requests) /\ IsInjectiveSeq(coming)
    BY ByArrivalFacts, SublistType, SublistInjective
  <2> QED
    BY <2>1, <2>2
<1> HIDE DEF coming
<1>5. /\ waiting \in Seq(Requests) /\ running \in Seq(Requests)
      /\ IsInjectiveSeq(waiting) /\ Elements(waiting) \subseteq released
  BY <1>2 DEF TypeOK, QueuesOK
<1>6. /\ waiting' \in Seq(Requests) /\ IsInjectiveSeq(waiting')
      /\ Elements(waiting') = Elements(waiting) \cup due
  <2>1. Elements(waiting) \cap Elements(coming) = {}
    BY <1>4, <1>5
  <2>2. waiting \o coming \in Seq(Requests) /\ IsInjectiveSeq(waiting \o coming)
    BY <1>4, <1>5, <2>1, ConcatFacts
  <2>3. Elements(waiting \o coming) = Elements(waiting) \cup Elements(coming)
    BY <1>4, <1>5, ConcatFacts
  <2> QED
    BY <1>1, <1>4, <2>2, <2>3
<1>7. TypeOK'
  <2>1. services' \in Seq(ServiceType) /\ budget' \in 0..TokenBudget
    BY <1>1, Sizes
  <2>2. released' \in SUBSET Requests
    BY <1>1, <1>2 DEF TypeOK
  <2> QED
    BY <1>1, <1>2, <1>6, <2>1, <2>2 DEF TypeOK
<1>8. PoolOK' /\ ContentOK'
  BY <1>1, SamePool DEF cache
<1>9. \A i \in due : ~Completed(i) /\ i \notin Elements(running)
  <2> SUFFICES ASSUME NEW i \in due PROVE ~Completed(i) /\ i \notin Elements(running)
    OBVIOUS
  <2>1. progress[i].outputs = <<>> /\ i \notin released /\ Elements(running) \subseteq released
    BY <1>2 DEF QueuesOK
  <2>2. Len(progress[i].outputs) = 0 /\ Output[i] # 0
    BY <2>1, Demands
  <2> QED
    BY <2>1, <2>2 DEF Completed
<1>10. \A i \in Requests : Completed(i)' <=> Completed(i)
  BY <1>1 DEF Completed
<1>11. QueuesOK'
  <2>1. due \subseteq Requests \ released /\ Elements(waiting') \subseteq released'
          /\ Elements(running) \subseteq released'
    BY <1>1, <1>2, <1>6 DEF QueuesOK
  <2>2. Elements(running) \cap Elements(waiting') = {}
    BY <1>2, <1>6, <1>9 DEF QueuesOK
  <2>3. \A i \in released' : Completed(i) \/ i \in Elements(running) \/ i \in Elements(waiting')
    BY <1>1, <1>2, <1>6 DEF QueuesOK
  <2>4. \A i \in Elements(waiting') : ~Completed(i)
    BY <1>2, <1>6, <1>9 DEF QueuesOK
  <2>5. \A i \in Elements(running) : ~Completed(i)
    BY <1>1, <1>2 DEF QueuesOK
  <2>6. /\ Elements(running) \cup Elements(waiting') \cup released' \subseteq Requests
        /\ running' = running /\ progress' = progress
    BY <1>1, <1>7, ListFacts DEF TypeOK
  <2> HIDE DEF due
  <2> QED
    BY <1>1, <1>2, <1>6, <1>10, <2>1, <2>2, <2>3, <2>4, <2>5, <2>6 DEF QueuesOK
<1>12. VisitsOK'
  <2>1. Len(running) = Len(services') + Len(todo') /\ DOMAIN services' = {} /\ Len(services') = 0
          /\ \A k \in DOMAIN todo' : todo'[k] = running[Len(services') + k]
    BY <1>1, <1>5, ListFacts
  <2> QED
    BY <1>1, <1>10, <2>1 DEF VisitsOK
<1>13. TablesOK'
  <2>1. \A i \in Requests : Computed(i)' = Computed(i) /\ Target(i)' = Target(i)
    BY <1>1, <1>3 DEF Computed, Served, Target
  <2>2. Elements(running) \subseteq Requests
    BY <1>5, ListFacts
  <2> QED
    BY <1>1, <1>2, <1>10, <2>1, <2>2 DEF TablesOK
<1> QED
  BY <1>7, <1>8, <1>11, <1>12, <1>13 DEF Inductive

LEMMA IdleStep == Inductive /\ Idle => Inductive'
<1> SUFFICES ASSUME Inductive, Idle PROVE Inductive'
  OBVIOUS
<1>1. /\ services = <<>> /\ running = <<>> /\ Future # {} /\ time' = Min(Future)
      /\ phase = "running" /\ phase' = "start"
      /\ UNCHANGED <<blocks, free, progress, running, waiting, released,
                     todo, budget, services, hadPreemption, mode, stock>>
  BY DEF Idle, Visited, cache, queues, batch
<1>2. TypeOK /\ QueuesOK /\ VisitsOK /\ TablesOK
  BY DEF Inductive
<1>3. time' \in Nat
  <2>1. Future \in SUBSET Nat
    BY Demands DEF Future
  <2> QED
    BY <1>1, <2>1, MinFacts
<1>4. TypeOK'
  BY <1>1, <1>2, <1>3 DEF TypeOK
<1>5. PoolOK' /\ ContentOK'
  BY <1>1, SamePool DEF cache
<1>6. QueuesOK'
  BY <1>1, <1>2 DEF QueuesOK, Completed, Elements
<1>7. VisitsOK'
  <2>1. Len(running) = 0 + Len(todo) /\ todo \in Seq(Requests)
    BY <1>1, <1>2 DEF VisitsOK, TypeOK
  <2>2. todo = <<>>
    BY <1>1, <2>1
  <2> QED
    BY <1>1, <2>2 DEF VisitsOK
<1>8. TablesOK'
  BY <1>1, <1>2, SameTables
<1> QED
  BY <1>4, <1>5, <1>6, <1>7, <1>8 DEF Inductive

LEMMA FinishStep == Inductive /\ Finish => Inductive'
<1> SUFFICES ASSUME Inductive, Finish PROVE Inductive'
  OBVIOUS
<1>1. /\ phase = "leaving" /\ todo = <<>> /\ phase' \in {"infeasible", "done", "start"}
      /\ UNCHANGED <<blocks, free, progress, running, waiting, released, time,
                     todo, budget, services, hadPreemption, mode, stock>>
  BY DEF Finish, cache, queues, batch
<1>2. TypeOK /\ QueuesOK /\ VisitsOK /\ TablesOK
  BY DEF Inductive
<1>3. TypeOK'
  BY <1>1, <1>2 DEF TypeOK
<1>4. PoolOK' /\ ContentOK'
  BY <1>1, SamePool DEF cache
<1>5. \A i \in Elements(running) : ~Completed(i)
  BY <1>1, <1>2 DEF VisitsOK, Elements
<1>6. QueuesOK'
  BY <1>1, <1>2, <1>5 DEF QueuesOK, Completed
<1>7. VisitsOK'
  BY <1>1, <1>2 DEF VisitsOK
<1>8. TablesOK'
  BY <1>1, <1>2, SameTables
<1> QED
  BY <1>3, <1>4, <1>6, <1>7, <1>8 DEF Inductive

(* In an iteration the first of the running requests are those served, and  *)
(* the others are still to be visited.                                      *)
LEMMA VisitFacts ==
  ASSUME Inductive, phase = "running"
  PROVE  /\ Len(running) \in Nat /\ Len(services) \in Nat /\ Len(todo) \in Nat
         /\ Len(running) = Len(services) + Len(todo)
         /\ \A k \in DOMAIN services : k \in DOMAIN running /\ services[k].index = running[k]
         /\ \A k, l \in DOMAIN services : services[k].index = services[l].index => k = l
         /\ \A i \in Requests : i \notin Elements(running) => Served(i) = 0
         /\ \A i \in Requests : i \notin Elements(running) =>
              \A k \in DOMAIN services : services[k].index # i
         /\ \A k \in DOMAIN todo :
              /\ Len(services) + k \in DOMAIN running /\ todo[k] = running[Len(services) + k]
              /\ todo[k] \in Elements(running) /\ todo[k] \in Requests
              /\ \A l \in DOMAIN services : services[l].index # todo[k]
              /\ Served(todo[k]) = 0
<1>1. /\ running \in Seq(Requests) /\ todo \in Seq(Requests) /\ services \in Seq(ServiceType)
      /\ IsInjectiveSeq(running)
  BY DEF Inductive, TypeOK, QueuesOK
<1>2. /\ Len(running) = Len(services) + Len(todo)
      /\ \A k \in DOMAIN services : services[k].index = running[k]
      /\ \A k \in DOMAIN todo : todo[k] = running[Len(services) + k]
  BY DEF Inductive, VisitsOK
<1>3. /\ Len(running) \in Nat /\ DOMAIN running = 1..Len(running)
      /\ Len(todo) \in Nat /\ DOMAIN todo = 1..Len(todo)
      /\ Len(services) \in Nat /\ DOMAIN services = 1..Len(services)
      /\ \A k \in DOMAIN running : running[k] \in Requests /\ running[k] \in Elements(running)
  BY <1>1, ListFacts
<1>4. \A k \in DOMAIN services : k \in DOMAIN running /\ services[k].index = running[k]
  BY <1>2, <1>3
<1>5. \A k, l \in DOMAIN services : services[k].index = services[l].index => k = l
  BY <1>1, <1>4 DEF IsInjectiveSeq
<1>6. \A i \in Requests : i \notin Elements(running) =>
        \A k \in DOMAIN services : services[k].index # i
  BY <1>3, <1>4
<1>7. \A i \in Requests : i \notin Elements(running) => Served(i) = 0
  BY <1>6, ServedNone
<1>8. ASSUME NEW k \in DOMAIN todo
      PROVE  /\ Len(services) + k \in DOMAIN running /\ todo[k] = running[Len(services) + k]
             /\ todo[k] \in Elements(running) /\ todo[k] \in Requests
             /\ \A l \in DOMAIN services : services[l].index # todo[k]
             /\ Served(todo[k]) = 0
  <2>1. Len(services) + k \in DOMAIN running /\ todo[k] = running[Len(services) + k]
    BY <1>2, <1>3
  <2>2. todo[k] \in Elements(running) /\ todo[k] \in Requests
    BY <1>3, <2>1
  <2>3. ASSUME NEW l \in DOMAIN services PROVE services[l].index # todo[k]
    <3>1. l # Len(services) + k
      BY <1>3
    <3> QED
      BY <1>1, <1>4, <2>1, <3>1 DEF IsInjectiveSeq
  <2>4. Served(todo[k]) = 0
    BY <2>3, ServedNone
  <2> QED
    BY <2>1, <2>2, <2>3, <2>4
<1> QED
  BY <1>2, <1>3, <1>4, <1>5, <1>6, <1>7, <1>8

(* What the next request to be visited needs.                               *)
LEMMA NeedFacts ==
  ASSUME Inductive, phase = "running", budget # 0, NEW k \in DOMAIN todo
  PROVE  LET i == todo[k]
             c == progress[i].computed
             n == Grant(i, c)
         IN /\ ~Completed(i) /\ c \in Nat /\ n \in 1..budget /\ c + n <= Target(i)
            /\ Len(progress[i].blocks) = Ceil(c) /\ Need(i) \in Nat
            /\ Ceil(c + n) \in Nat /\ Ceil(c + n) <= Capacity
            /\ Len(progress[i].blocks) + Need(i) = Ceil(c + n)
<1> DEFINE i == todo[k]
           c == progress[i].computed
           n == Grant(i, c)
<1>1. i \in Requests /\ i \in Elements(running) /\ Served(i) = 0
  BY VisitFacts
<1>2. TypeOK /\ TablesOK /\ QueuesOK
  BY DEF Inductive
<1> HIDE DEF i
<1>3. ~Completed(i)
  BY <1>1, <1>2 DEF QueuesOK
<1>4. c \in Nat /\ Target(i) \in Nat /\ Len(progress[i].outputs) \in Nat /\ Len(progress[i].blocks) \in Nat
  BY <1>1, <1>2, ProgressFacts
<1>5. Computed(i) = c
  BY <1>1, <1>4 DEF Computed
<1>6. Len(progress[i].blocks) = Ceil(c) /\ c < Target(i)
  BY <1>1, <1>2, <1>3, <1>5 DEF TablesOK
<1>7. n \in Nat \ {0} /\ n <= budget /\ c + n <= Target(i)
  <2> DEFINE chunk == IF c < Input[i] THEN PrefillChunk ELSE 1
  <2>1. budget \in Nat \ {0} /\ chunk \in Nat \ {0}
    BY <1>2, Sizes DEF TypeOK
  <2> HIDE DEF chunk
  <2>2. n = Min({budget, Target(i) - c, chunk})
    BY DEF Grant, chunk
  <2> HIDE DEF n, c
  <2> QED
    BY <1>4, <1>6, <2>1, <2>2, GrantFacts
<1> HIDE DEF n, c
<1>8. Ceil(c) \in Nat /\ Ceil(c) <= Ceil(c + n) /\ Ceil(c + n) \in Nat
  <2>1. c + n \in Nat /\ c <= c + n
    BY <1>4, <1>7
  <2> QED
    BY <1>4, <2>1, CeilFacts, CeilType
<1>9. Ceil(c + n) <= Capacity
  <2>1. Len(progress[i].outputs) < Output[i]
    <3>1. Len(progress[i].outputs) <= Output[i] /\ Len(progress[i].outputs) # Output[i]
      BY <1>1, <1>2, <1>3 DEF TablesOK, Completed
    <3> QED
      BY <1>1, <1>4, <3>1, Demands
  <2>2. c + n \in Nat /\ c + n <= Input[i] + Len(progress[i].outputs)
    BY <1>4, <1>7 DEF Target
  <2> QED
    BY <1>1, <1>4, <2>1, <2>2, FitsAlone
<1>10. Need(i) = Ceil(c + n) - Len(progress[i].blocks)
  BY DEF Need, c, n
<1>11. Need(i) \in Nat /\ Len(progress[i].blocks) + Need(i) = Ceil(c + n)
  BY <1>4, <1>6, <1>8, <1>10
<1>12. budget \in Nat
  BY <1>2, Sizes DEF TypeOK
<1>13. n \in 1..budget
  BY <1>7, <1>12
<1> QED
  BY <1>3, <1>4, <1>6, <1>7, <1>8, <1>9, <1>11, <1>13 DEF i, c, n

(* A request that runs alone finds the blocks it needs.                     *)
LEMMA AloneFits ==
  ASSUME Inductive, phase = "running", budget # 0, services = <<>>, Len(running) = 1
  PROVE  Need(todo[1]) <= Len(free)
<1> DEFINE i == todo[1]
           ids == progress[i].blocks
<1>1. 1 \in DOMAIN todo /\ todo[1] = running[1]
  <2>1. Len(services) = 0 /\ Len(todo) = 1 /\ todo \in Seq(Requests)
    BY VisitFacts DEF Inductive, TypeOK
  <2>2. 1 \in DOMAIN todo
    BY <2>1
  <2> QED
    BY <2>1, <2>2, VisitFacts
<1>2. /\ i \in Requests /\ Need(i) \in Nat /\ Len(ids) + Need(i) <= Capacity
  BY <1>1, VisitFacts, NeedFacts
<1>3. TypeOK /\ PoolOK /\ QueuesOK
  BY DEF Inductive
<1>4. Elements(running) = {i}
  BY <1>1, <1>3 DEF Elements, TypeOK
<1> HIDE DEF i
<1>5. /\ ids \in Seq(Blocks) /\ IsInjectiveSeq(ids) /\ Elements(ids) \subseteq Blocks
      /\ free \in Seq(Blocks) /\ IsInjectiveSeq(free) /\ Elements(free) \subseteq Blocks
  <2>1. ids \in Seq(Blocks) /\ IsInjectiveSeq(ids) /\ free \in Seq(Blocks) /\ IsInjectiveSeq(free)
    BY <1>2, <1>3, ProgressFacts DEF PoolOK, TypeOK
  <2> HIDE DEF ids
  <2> QED
    BY <2>1, ListFacts
<1>6. Elements(free) = Blocks \ Elements(ids)
  <2>1. \A j \in Requests \ {i} : Elements(progress[j].blocks) = {}
    BY <1>3, <1>4 DEF QueuesOK, Elements
  <2>2. \A b \in Blocks : Holders(b) = {} <=> b \notin Elements(ids)
    BY <1>2, <2>1 DEF Holders
  <2>3. \A b \in Blocks : b \in Elements(free) <=> Holders(b) = {}
    BY <1>3, FreeIsUnheld
  <2> QED
    BY <1>5, <2>2, <2>3
<1> HIDE DEF ids
<1>7. Cardinality(Elements(ids)) = Len(ids) /\ Cardinality(Elements(free)) = Len(free)
  BY <1>5, InjectiveCardinality
<1>8. IsFiniteSet(Blocks) /\ Cardinality(Blocks) = Capacity
  BY Sizes, FS_Interval DEF Blocks
<1>9. Cardinality(Blocks \ Elements(ids)) = Cardinality(Blocks) - Cardinality(Elements(ids))
  BY <1>5, <1>8, CountRemoved
<1>10. Len(free) = Capacity - Len(ids)
  BY <1>6, <1>7, <1>8, <1>9
<1>11. Len(ids) \in Nat /\ Capacity \in Nat
  BY <1>5, Sizes, ListFacts
<1> QED
  BY <1>2, <1>10, <1>11 DEF i

(* What giving up blocks does to the content of the others'.                *)
LEMMA ReleaseContent ==
  ASSUME ContentOK, NEW v, running \in Seq(Requests), running' \in Seq(Requests),
         Elements(running') = Elements(running) \ {v},
         progress \in [Requests -> ProgressType],
         \A i \in Requests \ {v} : progress'[i] = progress[i],
         \A b \in Blocks : blocks'[b].identity = blocks[b].identity,
         \A b \in Blocks : Holders(b)' = Holders(b) \ {v}
  PROVE  ContentOK'
<1> SUFFICES ASSUME NEW i \in Elements(running'), NEW b \in Blocks,
                    NEW n \in DOMAIN progress'[i].blocks, progress'[i].blocks[n] = b
             PROVE  Content(i, n, b)'
  BY DEF ContentOK
<1>1. i \in Requests \ {v} /\ i \in Elements(running) /\ progress'[i] = progress[i]
  BY ListFacts
<1>2. Content(i, n, b)
  BY <1>1 DEF ContentOK
<1>3. Whole(i)' = Whole(i)
  BY <1>1 DEF Whole
<1>4. CASE n <= Whole(i)
  BY <1>2, <1>3, <1>4 DEF Content
<1>5. CASE ~(n <= Whole(i))
  <2>1. blocks[b].identity = None /\ Holders(b) = {i}
    BY <1>2, <1>5 DEF Content
  <2>2. Holders(b)' = {i}
    BY <1>1, <2>1
  <2> QED
    BY <1>3, <1>5, <2>1, <2>2 DEF Content
<1> QED
  BY <1>4, <1>5

LEMMA PreemptStep == Inductive /\ Preempt => Inductive'
<1> SUFFICES ASSUME Inductive, Preempt PROVE Inductive'
  OBVIOUS
<1> DEFINE v == running[Len(running)]
<1>1. /\ phase = "running" /\ todo # <<>> /\ budget # 0
      /\ Need(Head(todo)) > Len(free)
      /\ Release(progress[v].blocks)
      /\ progress' = [progress EXCEPT ![v].computed = 0, ![v].blocks = <<>>]
      /\ running' = Without(running, v)
      /\ waiting' = <<v>> \o waiting
      /\ todo' = Without(todo, v)
      /\ hadPreemption' = TRUE
      /\ UNCHANGED <<released, time, phase, budget, services, mode, stock>>
  BY DEF Preempt, Visited
<1>2. TypeOK /\ PoolOK /\ QueuesOK /\ VisitsOK /\ TablesOK /\ ContentOK
  BY DEF Inductive
<1>3. /\ running \in Seq(Requests) /\ waiting \in Seq(Requests) /\ todo \in Seq(Requests)
      /\ IsInjectiveSeq(running) /\ IsInjectiveSeq(waiting)
      /\ progress \in [Requests -> ProgressType]
  BY <1>2 DEF TypeOK, QueuesOK
<1> DEFINE r == Len(running)
           m == Len(services)
           t == Len(todo)
<1>4. /\ r \in Nat /\ m \in Nat /\ t \in Nat /\ t > 0 /\ r = m + t
      /\ DOMAIN running = 1..r /\ DOMAIN todo = 1..t
      /\ \A k \in 1..t : todo[k] = running[m + k] /\ todo[k] \in Requests
  BY <1>1, <1>3, VisitFacts
<1>5. v = todo[t] /\ v \in Requests /\ v \in Elements(running) /\ Served(v) = 0
  <2>1. t \in DOMAIN todo /\ todo[t] = running[m + t]
    BY <1>4
  <2> QED
    BY <1>1, <1>4, <2>1, VisitFacts
<1>6. IsInjectiveSeq(todo)
  <2> SUFFICES ASSUME NEW j \in 1..t, NEW k \in 1..t, todo[j] = todo[k] PROVE j = k
    BY <1>4 DEF IsInjectiveSeq
  <2>1. running[m + j] = running[m + k] /\ m + j \in DOMAIN running /\ m + k \in DOMAIN running
    BY <1>4
  <2>2. m + j = m + k
    BY <1>3, <2>1 DEF IsInjectiveSeq
  <2> QED
    BY <1>4, <2>2
<1>7. /\ Len(running') = r - 1 /\ \A k \in 1..(r - 1) : running'[k] = running[k]
      /\ running' \in Seq(Requests) /\ IsInjectiveSeq(running')
      /\ Elements(running') = Elements(running) \ {v}
  <2>1. running # <<>>
    BY <1>3, <1>4
  <2>2. /\ Len(Without(running, v)) = r - 1
        /\ \A k \in 1..(r - 1) : Without(running, v)[k] = running[k]
    BY <1>3, <2>1, WithoutLast
  <2>3. /\ Without(running, v) \in Seq(Requests) /\ IsInjectiveSeq(Without(running, v))
        /\ Elements(Without(running, v)) = Elements(running) \ {v}
    BY <1>3, WithoutFacts
  <2> HIDE DEF v
  <2> QED
    BY <1>1, <2>2, <2>3
<1>8. /\ Len(todo') = t - 1 /\ \A k \in 1..(t - 1) : todo'[k] = todo[k]
      /\ todo' \in Seq(Requests)
  <2>1. /\ Len(Without(todo, todo[t])) = t - 1
        /\ \A k \in 1..(t - 1) : Without(todo, todo[t])[k] = todo[k]
    BY <1>1, <1>3, <1>6, WithoutLast
  <2>2. Without(todo, todo[t]) \in Seq(Requests)
    BY <1>3, <1>6, WithoutFacts
  <2> HIDE DEF v, t
  <2> QED
    BY <1>1, <1>5, <2>1, <2>2
<1> HIDE DEF v
<1>9. /\ progress'[v] = [progress[v] EXCEPT !.computed = 0, !.blocks = <<>>]
      /\ \A i \in Requests \ {v} : progress'[i] = progress[i]
  BY <1>1, <1>3, <1>5
<1>10. progress'[v].blocks = <<>> /\ progress'[v].outputs = progress[v].outputs
       /\ progress'[v] \in ProgressType
  <2>1. progress[v] \in ProgressType
    BY <1>3, <1>5
  <2>2. progress'[v] = [computed |-> 0, blocks |-> <<>>, outputs |-> progress[v].outputs]
    BY <1>9, <2>1 DEF ProgressType
  <2>3. progress[v].outputs \in Seq(Nat)
    BY <2>1 DEF ProgressType
  <2> QED
    BY <2>2, <2>3 DEF ProgressType
<1>11. progress' \in [Requests -> ProgressType]
  BY <1>1, <1>3, <1>9, <1>10
<1>12. \A i \in Requests : progress'[i].outputs = progress[i].outputs
  BY <1>9, <1>10
<1>13. /\ PoolOK' /\ blocks' \in [Blocks -> BlockType] /\ free' \in Seq(Blocks)
       /\ \A b \in Blocks : blocks'[b].identity = blocks[b].identity
       /\ \A b \in Blocks : Holders(b)' = Holders(b) \ {v}
  <2>1. \A i \in Requests \ {v} : progress'[i].blocks = progress[i].blocks
    BY <1>9
  <2> QED
    BY <1>1, <1>2, <1>5, <1>10, <2>1, ReleasePool
<1>14. /\ waiting' \in Seq(Requests) /\ IsInjectiveSeq(waiting')
       /\ Elements(waiting') = {v} \cup Elements(waiting)
  <2>1. v \notin Elements(waiting)
    BY <1>2, <1>5 DEF QueuesOK
  <2> QED
    BY <1>1, <1>3, <1>5, <2>1, ConsFacts
<1>15. TypeOK'
  BY <1>1, <1>2, <1>7, <1>8, <1>11, <1>13, <1>14 DEF TypeOK
<1>16. \A i \in Requests : Completed(i)' <=> Completed(i)
  BY <1>12 DEF Completed
<1>17. Elements(running) \subseteq Requests /\ Elements(waiting) \subseteq Requests
  BY <1>3, ListFacts
<1>18. QueuesOK'
  <2>1. ~Completed(v) /\ v \in released
    BY <1>1, <1>2, <1>5 DEF QueuesOK
  <2>2. /\ Elements(running') \cap Elements(waiting') = {}
        /\ Elements(running') \subseteq released /\ Elements(waiting') \subseteq released
    BY <1>2, <1>7, <1>14, <2>1 DEF QueuesOK
  <2>3. \A i \in released : Completed(i)' \/ i \in Elements(running') \/ i \in Elements(waiting')
    <3> SUFFICES ASSUME NEW i \in released
                 PROVE  Completed(i)' \/ i \in Elements(running') \/ i \in Elements(waiting')
      OBVIOUS
    <3>1. i \in Requests /\ (Completed(i) \/ i \in Elements(running) \/ i \in Elements(waiting))
      BY <1>2 DEF QueuesOK, TypeOK
    <3> QED
      BY <1>7, <1>14, <1>16, <3>1
  <2>4. \A i \in Requests \ released : progress'[i].outputs = <<>>
    BY <1>2, <1>12 DEF QueuesOK
  <2>5. \A i \in Elements(waiting') : ~Completed(i)'
    BY <1>2, <1>5, <1>14, <1>16, <1>17, <2>1 DEF QueuesOK
  <2>6. \A i \in Requests \ Elements(running') : progress'[i].blocks = <<>>
    BY <1>2, <1>7, <1>9, <1>10 DEF QueuesOK
  <2>7. \A i \in Elements(running') : ~Completed(i)'
    BY <1>1, <1>2, <1>7, <1>16, <1>17 DEF QueuesOK
  <2> QED
    BY <1>1, <1>7, <1>14, <2>2, <2>3, <2>4, <2>5, <2>6, <2>7 DEF QueuesOK
<1>19. VisitsOK'
  <2>1. Len(running') = Len(services') + Len(todo')
    BY <1>1, <1>4, <1>7, <1>8
  <2>2. \A k \in DOMAIN services' : services'[k].index = running'[k]
    <3> SUFFICES ASSUME NEW k \in DOMAIN services PROVE services[k].index = running'[k]
      BY <1>1
    <3>1. services \in Seq(ServiceType) /\ services[k].index = running[k]
      BY <1>1, <1>2 DEF TypeOK, VisitsOK
    <3>2. k \in 1..m
      BY <3>1
    <3>3. k \in 1..(r - 1)
      BY <1>4, <3>2
    <3> QED
      BY <1>7, <3>1, <3>3
  <2>3. \A k \in DOMAIN todo' : todo'[k] = running'[Len(services') + k]
    <3> SUFFICES ASSUME NEW k \in DOMAIN todo' PROVE todo'[k] = running'[m + k]
      BY <1>1
    <3>1. k \in 1..(t - 1)
      BY <1>8
    <3>2. k \in 1..t /\ m + k \in 1..(r - 1)
      BY <1>4, <3>1
    <3> QED
      BY <1>4, <1>7, <1>8, <3>1, <3>2
  <2>4. running' # <<>>
    <3>1. CASE services = <<>> /\ r = 1
      <4>1. Need(todo[1]) <= Len(free)
        BY <1>1, <3>1, AloneFits
      <4>2. Head(todo) = todo[1]
        BY <1>1, <1>3
      <4>3. 1 \in DOMAIN todo /\ Need(todo[1]) \in Nat
        <5>1. 1 \in DOMAIN todo
          BY <1>4
        <5> QED
          BY <1>1, <5>1, NeedFacts
      <4>4. Len(free) \in Nat
        BY <1>2 DEF TypeOK
      <4> QED
        BY <1>1, <4>1, <4>2, <4>3, <4>4
    <3>2. CASE services # <<>> \/ r # 1
      <4>1. services # <<>> => m > 0
        BY <1>2 DEF TypeOK
      <4>2. r - 1 > 0
        BY <1>4, <3>2, <4>1
      <4> QED
        BY <1>7, <4>2
    <3> QED
      BY <3>1, <3>2
  <2>5. services' = <<>> => budget' = TokenBudget
    BY <1>1, <1>2 DEF VisitsOK
  <2>6. \E i \in Requests : ~Completed(i)'
    BY <1>1, <1>2, <1>16 DEF VisitsOK
  <2> QED
    BY <1>1, <2>1, <2>2, <2>3, <2>4, <2>5, <2>6 DEF VisitsOK
<1>20. TablesOK'
  <2>1. ASSUME NEW i \in Elements(running')
        PROVE  i \in Requests /\ i \in Elements(running) /\ progress'[i] = progress[i]
               /\ Computed(i)' = Computed(i) /\ Target(i)' = Target(i)
    <3>1. i \in Requests /\ i \in Elements(running) /\ progress'[i] = progress[i]
      BY <1>7, <1>9, <1>17
    <3>2. Served(i)' = Served(i)
      BY <1>1 DEF Served
    <3> QED
      BY <3>1, <3>2 DEF Computed, Target
  <2>2. \A i \in Requests : Len(progress'[i].outputs) <= Output[i]
    BY <1>2, <1>12 DEF TablesOK
  <2> QED
    BY <1>2, <1>16, <2>1, <2>2 DEF TablesOK
<1>21. ContentOK'
  BY <1>2, <1>3, <1>7, <1>9, <1>13, ReleaseContent
<1> QED
  BY <1>13, <1>15, <1>18, <1>19, <1>20, <1>21 DEF Inductive

(* What sharing and taking blocks does to the content of the others': only  *)
(* blocks that have an identity are shared, and those taken were unheld.    *)
LEMMA HoldContent ==
  ASSUME ContentOK, PoolOK, running \in Seq(Requests), running' \in Seq(Requests),
         NEW i \in Requests, NEW H \in SUBSET Blocks, NEW T \in SUBSET Blocks,
         \A b \in H : blocks[b].identity # None,
         \A b \in T : Holders(b) = {},
         \A b \in Blocks : blocks'[b].identity = IF b \in T THEN None ELSE blocks[b].identity,
         \A b \in Blocks : Holders(b)' = IF b \in T \cup H THEN Holders(b) \cup {i} ELSE Holders(b),
         \A j \in Elements(running') : j # i => j \in Elements(running) /\ progress'[j] = progress[j],
         \A b \in Blocks : \A n \in DOMAIN progress'[i].blocks :
           progress'[i].blocks[n] = b => Content(i, n, b)'
  PROVE  ContentOK'
<1> SUFFICES ASSUME NEW j \in Elements(running'), NEW b \in Blocks,
                    NEW n \in DOMAIN progress'[j].blocks, progress'[j].blocks[n] = b
             PROVE  Content(j, n, b)'
  BY DEF ContentOK
<1>1. CASE j = i
  BY <1>1
<1>2. CASE j # i
  <2>1. j \in Requests /\ j \in Elements(running) /\ progress'[j] = progress[j]
    BY <1>2, ListFacts
  <2>2. Content(j, n, b)
    BY <2>1 DEF ContentOK
  <2>3. Whole(j)' = Whole(j)
    BY <2>1 DEF Whole
  <2>4. j \in Holders(b) /\ b \notin T
    BY <2>1 DEF Holders, Elements
  <2>5. CASE n <= Whole(j)
    BY <2>2, <2>3, <2>4, <2>5 DEF Content
  <2>6. CASE ~(n <= Whole(j))
    <3>1. blocks[b].identity = None /\ Holders(b) = {j}
      BY <2>2, <2>6 DEF Content
    <3>2. b \notin T \cup H
      BY <2>4, <3>1
    <3>3. Holders(b)' = {j} /\ blocks'[b].identity = None
      BY <2>4, <3>1, <3>2
    <3> QED
      BY <2>3, <2>6, <3>3 DEF Content
  <2> QED
    BY <2>5, <2>6
<1> QED
  BY <1>1, <1>2

LEMMA RunStep == Inductive /\ Run => Inductive'
<1> SUFFICES ASSUME Inductive, Run PROVE Inductive'
  OBVIOUS
<1>1. todo # <<>> /\ todo \in Seq(Requests)
  BY DEF Run, Visited, Inductive, TypeOK
<1>2. PICK i \in Requests : i = Head(todo)
  BY <1>1, HeadTailFacts
<1> DEFINE p == progress[i]
           c == p.computed
           n == Grant(i, c)
           ids == p.blocks
<1>31. /\ phase = "running" /\ budget # 0 /\ Need(i) <= Len(free)
      /\ services' = Append(services, Service(i, n, c)) /\ budget' = budget - n /\ todo' = Tail(todo)
      /\ UNCHANGED <<running, waiting, released, time, phase, hadPreemption, mode>>
  BY <1>2 DEF Run, Visited, queues
<1>32. PICK taken \in Takes(free, Need(i)) :
        /\ Hold(<<>>, taken)
        /\ progress' = [progress EXCEPT ![i].blocks = @ \o taken]
        /\ stock' = (stock /\ taken = Stock(free, Need(i)))
  BY <1>2 DEF Run
<1>3. TypeOK /\ PoolOK /\ QueuesOK /\ VisitsOK /\ TablesOK /\ ContentOK
  BY DEF Inductive
<1>4. /\ running \in Seq(Requests) /\ waiting \in Seq(Requests) /\ todo \in Seq(Requests)
      /\ services \in Seq(ServiceType) /\ progress \in [Requests -> ProgressType]
      /\ free \in Seq(Blocks) /\ IsInjectiveSeq(free) /\ stock \in BOOLEAN
  BY <1>3 DEF TypeOK, PoolOK
<1>5. 1 \in DOMAIN todo /\ i = todo[1]
  BY <1>1, <1>2, HeadTailFacts
<1>6. /\ i \in Elements(running)
      /\ \A k \in DOMAIN services : services[k].index # i
  <2>1. todo[1] \in Requests /\ todo[1] \in Elements(running)
          /\ \A k \in DOMAIN services : services[k].index # todo[1]
    BY <1>31, <1>5, VisitFacts
  <2> QED
    BY <1>5, <2>1
<1>7. /\ ~Completed(i) /\ c \in Nat /\ n \in 1..budget /\ c + n <= Target(i)
      /\ Len(ids) = Ceil(c) /\ Need(i) \in Nat /\ Len(ids) + Need(i) = Ceil(c + n)
  <2> DEFINE k == 1
  <2>1. k \in DOMAIN todo /\ i = todo[k]
    BY <1>5
  <2> HIDE DEF k
  <2>2. LET j == todo[k]
            d == progress[j].computed
            m == Grant(j, d)
        IN /\ ~Completed(j) /\ d \in Nat /\ m \in 1..budget /\ d + m <= Target(j)
           /\ Len(progress[j].blocks) = Ceil(d) /\ Need(j) \in Nat
           /\ Len(progress[j].blocks) + Need(j) = Ceil(d + m)
    BY <1>31, <2>1, NeedFacts
  <2> QED
    BY <2>1, <2>2
<1>8. /\ taken \in Seq(Blocks) /\ Len(taken) = Need(i) /\ IsInjectiveSeq(taken)
      /\ Elements(taken) \subseteq Elements(free)
  BY <1>31, <1>32, <1>4, <1>7, TakesFacts
<1>9. p \in ProgressType /\ ids \in Seq(Blocks) /\ IsInjectiveSeq(ids)
        /\ p.outputs \in Seq(Nat) /\ Len(ids) \in Nat /\ Target(i) \in Nat
  BY <1>3, <1>4, <1>6, ProgressFacts DEF PoolOK
<1>10. Elements(ids) \cup Elements(taken) \cup Elements(free) \subseteq Blocks
  BY <1>4, <1>8, <1>9, ListFacts
<1>11. \A b \in Elements(taken) : Holders(b) = {}
  BY <1>3, <1>8, <1>10, FreeIsUnheld
<1>12. Elements(ids) \cap Elements(taken) = {}
  BY <1>6, <1>11 DEF Holders
<1> DEFINE more == ids \o taken
<1>13. /\ more \in Seq(Blocks) /\ Len(more) = Ceil(c + n) /\ IsInjectiveSeq(more)
       /\ Elements(more) = Elements(ids) \cup Elements(taken)
       /\ \A k \in DOMAIN more : IF k <= Len(ids) THEN k \in DOMAIN ids /\ more[k] = ids[k]
                                 ELSE more[k] \in Elements(taken)
  <2> HIDE DEF p, n, ids
  <2>1. more \in Seq(Blocks) /\ IsInjectiveSeq(more) /\ Len(more) = Len(ids) + Len(taken)
    BY <1>8, <1>9, <1>12, ConcatInjective
  <2>2. Elements(more) = Elements(ids) \cup Elements(taken)
    BY <1>8, <1>9, <1>12, ConcatInjective
  <2>3. ASSUME NEW k \in DOMAIN more
        PROVE  IF k <= Len(ids) THEN k \in DOMAIN ids /\ more[k] = ids[k]
               ELSE more[k] \in Elements(taken)
    <3>1. k \in 1..(Len(ids) + Len(taken)) /\ Len(taken) \in Nat
      BY <1>8, <1>9, <2>1
    <3>2. CASE k <= Len(ids)
      BY <1>8, <1>9, <3>1, <3>2
    <3>3. CASE ~(k <= Len(ids))
      <4>1. k - Len(ids) \in DOMAIN taken /\ more[k] = taken[k - Len(ids)]
        BY <1>8, <1>9, <3>1, <3>3
      <4> QED
        BY <4>1 DEF Elements
    <3> QED
      BY <3>2, <3>3
  <2> QED
    BY <1>7, <1>8, <2>1, <2>2, <2>3
<1> HIDE DEF more
<1>14. /\ progress'[i] = [computed |-> c, blocks |-> more, outputs |-> p.outputs]
       /\ \A j \in Requests \ {i} : progress'[j] = progress[j]
  <2>1. progress'[i] = [p EXCEPT !.blocks = more] /\ \A j \in Requests \ {i} : progress'[j] = progress[j]
    BY <1>32, <1>4, <1>6 DEF more
  <2> QED
    BY <1>9, <2>1 DEF ProgressType
<1>15. /\ progress'[i].computed = c /\ progress'[i].blocks = more /\ progress'[i].outputs = p.outputs
       /\ progress'[i] \in ProgressType
  BY <1>7, <1>9, <1>13, <1>14 DEF ProgressType
<1>16. progress' \in [Requests -> ProgressType]
  BY <1>32, <1>4, <1>14, <1>15
<1>17. \A j \in Requests : /\ progress'[j].outputs = progress[j].outputs
                           /\ progress'[j].computed = progress[j].computed
  BY <1>14, <1>15
<1>18. /\ PoolOK' /\ blocks' \in [Blocks -> BlockType] /\ free' \in Seq(Blocks)
       /\ \A b \in Blocks : blocks'[b].identity
            = IF b \in Elements(taken) THEN None ELSE blocks[b].identity
       /\ \A b \in Blocks : Holders(b)'
            = IF b \in Elements(taken) THEN Holders(b) \cup {i} ELSE Holders(b)
  <2> DEFINE hits == <<>>
  <2>1. hits \in Seq(Blocks) /\ Elements(hits) = {}
    BY DEF Elements
  <2>2. Hold(hits, taken)
    BY <1>32
  <2>3. \A j \in Requests \ {i} : progress'[j].blocks = progress[j].blocks
    BY <1>14
  <2> HIDE DEF hits
  <2>4. Elements(progress'[i].blocks) = Elements(progress[i].blocks) \cup Elements(hits) \cup Elements(taken)
    BY <1>13, <1>15, <2>1
  <2>5. /\ Elements(taken) \subseteq Elements(free) /\ Elements(taken) \cap Elements(hits) = {}
        /\ Elements(hits) \cap Elements(progress[i].blocks) = {}
        /\ IsInjectiveSeq(progress'[i].blocks)
    BY <1>8, <1>13, <1>15, <2>1
  <2>6. /\ PoolOK' /\ blocks' \in [Blocks -> BlockType] /\ free' \in Seq(Blocks)
        /\ \A b \in Blocks : blocks'[b].identity
             = IF b \in Elements(taken) THEN None ELSE blocks[b].identity
        /\ \A b \in Blocks : Holders(b)'
             = IF b \in Elements(taken) \cup Elements(hits) THEN Holders(b) \cup {i} ELSE Holders(b)
    BY <1>3, <1>6, <1>8, <2>1, <2>2, <2>3, <2>4, <2>5, HoldPool
  <2> QED
    BY <2>1, <2>6
<1>19. PICK s \in ServiceType : s = Service(i, n, c) /\ s.index = i /\ s.tokens = n
  <2>1. budget \in 0..TokenBudget /\ TokenBudget \in Nat
    BY <1>3, Sizes DEF TypeOK
  <2>2. n \in 1..TokenBudget
    BY <1>7, <2>1
  <2> HIDE DEF n, p
  <2>3. Service(i, n, c) \in ServiceType /\ Service(i, n, c).index = i /\ Service(i, n, c).tokens = n
    BY <2>2 DEF ServiceType, Service
  <2> QED
    BY <2>3
<1>20. budget' \in 0..TokenBudget
  <2>1. budget \in 0..TokenBudget /\ TokenBudget \in Nat
    BY <1>3, Sizes DEF TypeOK
  <2> QED
    BY <1>31, <1>7, <2>1
<1> HIDE DEF n
<1>21. /\ services' \in Seq(ServiceType) /\ Len(services') = Len(services) + 1
       /\ \A k \in DOMAIN services : services'[k] = services[k]
       /\ services'[Len(services) + 1] = s
       /\ DOMAIN services' = DOMAIN services \cup {Len(services) + 1}
  BY <1>31, <1>4, <1>19, AppendFacts
<1>22. /\ todo' \in Seq(Requests) /\ Len(todo') = Len(todo) - 1
       /\ \A k \in DOMAIN todo' : k + 1 \in DOMAIN todo /\ todo'[k] = todo[k + 1]
  BY <1>1, <1>4, <1>31, HeadTailFacts
<1>23. TypeOK'
  <2>1. stock' \in BOOLEAN
    BY <1>32
  <2> QED
    BY <1>31, <1>3, <1>16, <1>18, <1>20, <1>21, <1>22, <2>1 DEF TypeOK
<1>24. \A j \in Requests : Completed(j)' <=> Completed(j)
  BY <1>17 DEF Completed
<1>25. Elements(running) \cup Elements(waiting) \cup released \subseteq Requests
  BY <1>3, <1>4, ListFacts DEF TypeOK
<1>26. QueuesOK'
  <2>1. \A j \in Requests \ Elements(running) : progress'[j].blocks = <<>>
    BY <1>3, <1>6, <1>14 DEF QueuesOK
  <2>2. \A j \in Requests \ released : progress'[j].outputs = <<>>
    BY <1>3, <1>17 DEF QueuesOK
  <2>3. \A j \in released : Completed(j)' \/ j \in Elements(running) \/ j \in Elements(waiting)
    BY <1>3, <1>24, <1>25 DEF QueuesOK
  <2>4. \A j \in Elements(waiting) : ~Completed(j)'
    BY <1>3, <1>24, <1>25 DEF QueuesOK
  <2>5. \A j \in Elements(running) : ~Completed(j)'
    BY <1>31, <1>3, <1>24, <1>25 DEF QueuesOK
  <2> QED
    BY <1>31, <1>3, <2>1, <2>2, <2>3, <2>4, <2>5 DEF QueuesOK
<1>27. VisitsOK'
  <2>1. Len(services) \in Nat /\ Len(todo) \in Nat /\ Len(running) = Len(services) + Len(todo)
          /\ DOMAIN services = 1..Len(services)
    BY <1>31, <1>4, VisitFacts, ListFacts
  <2>2. Len(running) = Len(services') + Len(todo')
    BY <1>21, <1>22, <2>1
  <2>3. ASSUME NEW k \in DOMAIN services' PROVE services'[k].index = running[k]
    <3>1. CASE k \in DOMAIN services
      BY <1>31, <1>3, <1>21, <3>1 DEF VisitsOK
    <3>2. CASE k = Len(services) + 1
      <4>1. todo[1] = running[Len(services) + 1]
        BY <1>31, <1>5, VisitFacts
      <4> QED
        BY <1>5, <1>19, <1>21, <3>2, <4>1
    <3> QED
      BY <1>21, <3>1, <3>2
  <2>4. ASSUME NEW k \in DOMAIN todo' PROVE todo'[k] = running[Len(services') + k]
    <3>1. k + 1 \in DOMAIN todo /\ todo'[k] = todo[k + 1]
      BY <1>22
    <3>2. todo[k + 1] = running[Len(services) + (k + 1)]
      BY <1>31, <3>1, VisitFacts
    <3>3. Len(services') + k = Len(services) + (k + 1)
      BY <1>21, <1>22, <2>1
    <3> QED
      BY <3>1, <3>2, <3>3
  <2>5. services' # <<>> /\ (hadPreemption => running # <<>>) /\ \E j \in Requests : ~Completed(j)'
    BY <1>31, <1>3, <1>21, <1>24, <2>1 DEF VisitsOK
  <2> QED
    BY <1>31, <2>2, <2>3, <2>4, <2>5 DEF VisitsOK
<1>28. Served(i)' = n /\ \A j \in Requests \ {i} : Served(j)' = Served(j)
  BY <1>31, <1>4, <1>6, <1>19, ServedAppend
<1>29. TablesOK'
  <2>1. Computed(i)' = c + n
    BY <1>15, <1>28 DEF Computed
  <2>2. \A j \in Requests \ {i} : Computed(j)' = Computed(j)
    BY <1>14, <1>28 DEF Computed
  <2>3. \A j \in Requests : Target(j)' = Target(j)
    BY <1>17 DEF Target
  <2>4. ASSUME NEW j \in Elements(running)
        PROVE  /\ Len(progress'[j].blocks) = Ceil(Computed(j)')
               /\ ~Completed(j)' => progress'[j].computed < Target(j)' /\ Computed(j)' <= Target(j)'
    <3>1. j \in Requests
      BY <1>25
    <3>2. ~Completed(j)' => progress'[j].computed < Target(j)'
      BY <1>3, <1>17, <1>24, <2>3, <3>1 DEF TablesOK
    <3>3. CASE j = i
      BY <1>7, <1>13, <1>15, <2>1, <2>3, <3>1, <3>2, <3>3
    <3>4. CASE j # i
      <4>1. Len(progress[j].blocks) = Ceil(Computed(j)) /\ (~Completed(j) => Computed(j) <= Target(j))
        BY <1>3 DEF TablesOK
      <4> QED
        BY <1>14, <1>24, <2>2, <2>3, <3>1, <3>2, <3>4, <4>1
    <3> QED
      BY <3>3, <3>4
  <2>5. \A j \in Requests : Len(progress'[j].outputs) <= Output[j]
    BY <1>3, <1>17 DEF TablesOK
  <2> QED
    BY <1>31, <2>4, <2>5 DEF TablesOK
<1>30. ContentOK'
  <2>1. Whole(i)' = Whole(i) /\ Whole(i) \in Nat /\ Whole(i) <= Len(ids)
    <3>1. Whole(i)' = Whole(i)
      BY <1>15 DEF Whole
    <3>2. Whole(i) = Min({c, Input[i]}) \div BlockSize
      BY DEF Whole
    <3>3. Min({c, Input[i]}) \div BlockSize \in Nat
            /\ Min({c, Input[i]}) \div BlockSize <= Ceil(c)
      BY <1>6, <1>7, WholeFacts
    <3> QED
      BY <1>7, <3>1, <3>2, <3>3
  <2>2. ASSUME NEW b \in Blocks, NEW k \in DOMAIN progress'[i].blocks, progress'[i].blocks[k] = b
        PROVE  Content(i, k, b)'
    <3>1. k \in DOMAIN more /\ more[k] = b /\ k \in Nat
      BY <1>13, <1>15, <2>2
    <3>2. CASE k <= Len(ids)
      <4>1. k \in DOMAIN ids /\ ids[k] = b
        BY <1>13, <3>1, <3>2
      <4>2. Content(i, k, b)
        BY <1>3, <1>6, <4>1 DEF ContentOK
      <4>3. b \notin Elements(taken)
        BY <1>12, <4>1 DEF Elements
      <4> QED
        BY <1>18, <2>1, <4>2, <4>3 DEF Content
    <3>3. CASE ~(k <= Len(ids))
      <4>1. b \in Elements(taken)
        BY <1>13, <3>1, <3>3
      <4>2. ~(k <= Whole(i))
        BY <1>9, <2>1, <3>1, <3>3
      <4>3. blocks'[b].identity = None /\ Holders(b)' = {i}
        BY <1>11, <1>18, <4>1
      <4> QED
        BY <2>1, <4>2, <4>3 DEF Content
    <3> QED
      BY <3>2, <3>3
  <2> DEFINE H == {}
             T == Elements(taken)
  <2>3. /\ H \in SUBSET Blocks /\ T \in SUBSET Blocks
        /\ \A b \in H : blocks[b].identity # None
        /\ \A b \in T : Holders(b) = {}
        /\ \A b \in Blocks : blocks'[b].identity = IF b \in T THEN None ELSE blocks[b].identity
        /\ \A b \in Blocks : Holders(b)' = IF b \in T \cup H THEN Holders(b) \cup {i} ELSE Holders(b)
    BY <1>10, <1>11, <1>18
  <2>4. running' \in Seq(Requests)
          /\ \A j \in Elements(running') : j # i => j \in Elements(running) /\ progress'[j] = progress[j]
    BY <1>31, <1>4, <1>14, <1>25
  <2> HIDE DEF H, T
  <2> QED
    BY <1>3, <1>4, <1>6, <2>2, <2>3, <2>4, HoldContent
<1> QED
  BY <1>18, <1>23, <1>26, <1>27, <1>29, <1>30 DEF Inductive

LEMMA TimesOver ==
  ASSUME NEW m \in Nat, NEW d \in Nat \ {0}
  PROVE  (m * d) \div d = m /\ m * d \in Nat
  BY SMT

(* find_hits: of each of the first prefixes of i's prompt a block that has  *)
(* it, never of all of the prompt.                                          *)
LEMMA HitsFacts ==
  ASSUME TypeOK, NEW i \in Requests
  PROVE  LET hits == Hits(i)
             h == Len(hits)
         IN /\ hits \in Seq(Blocks) /\ h \in Nat /\ IsInjectiveSeq(hits)
            /\ h * BlockSize \in Nat /\ h * BlockSize <= Input[i] - 1
            /\ \A n \in 1..h : /\ blocks[hits[n]].identity = Prefix(i, n)
                               /\ Prefix(i, n) # None
<1> DEFINE top == (Input[i] - 1) \div BlockSize
           S == {n \in 0..top : \A m \in 1..n : Holding(Prefix(i, m)) # {}}
           h == Max(S)
           hits == [n \in 1..h |-> Min(Holding(Prefix(i, n)))]
<1>1. Input[i] \in Nat \ {0} /\ BlockSize \in Nat \ {0} /\ Len(Hashes[i]) = Ceil(Input[i])
  BY Sizes, Demands
<1>2. top \in Nat /\ top <= Len(Hashes[i])
  <2> DEFINE last == Input[i] - 1
  <2>1. last \in Nat /\ last <= Input[i] /\ Input[i] \in Nat
    BY <1>1
  <2>2. top = last \div BlockSize
    OBVIOUS
  <2> HIDE DEF last, top
  <2>3. last \div BlockSize \in Nat /\ last \div BlockSize <= Ceil(Input[i])
    BY <2>1, CeilFacts
  <2> QED
    BY <1>1, <2>2, <2>3
<1>3. h \in S
  <2>1. S \in SUBSET (0..top) /\ 0 \in S
    BY <1>2
  <2> HIDE DEF S, top
  <2> QED
    BY <1>2, <2>1, MaxFacts
<1>4. h \in 0..top /\ h \in Nat /\ \A n \in 1..h : Holding(Prefix(i, n)) # {}
  <2> HIDE DEF h, top
  <2> QED
    BY <1>2, <1>3
<1>5. h * BlockSize \in Nat /\ h * BlockSize <= Input[i] - 1
  <2>1. Input[i] - 1 \in Nat /\ h <= (Input[i] - 1) \div BlockSize
    BY <1>1, <1>2, <1>4
  <2> HIDE DEF h
  <2> QED
    BY <1>1, <1>4, <2>1, TimesBelow
<1> HIDE DEF h
<1>6. ASSUME NEW n \in 1..h
      PROVE  /\ hits[n] \in Blocks /\ blocks[hits[n]].identity = Prefix(i, n)
             /\ Prefix(i, n) # None /\ Len(Prefix(i, n)) = n
  <2>1. Holding(Prefix(i, n)) \in SUBSET Nat /\ Holding(Prefix(i, n)) # {}
    BY <1>4 DEF Holding, Blocks
  <2>2. Min(Holding(Prefix(i, n))) \in Holding(Prefix(i, n))
    BY <2>1, MinFacts
  <2>3. n \in 1..Len(Hashes[i])
    <3> HIDE DEF top
    <3>1. Len(Hashes[i]) \in Nat
      BY <1>1, CeilType
    <3> QED
      BY <1>2, <1>4, <3>1
  <2>4. Prefix(i, n) # None /\ Len(Prefix(i, n)) = n
    BY <2>3, PrefixFacts
  <2>5. hits[n] = Min(Holding(Prefix(i, n)))
    OBVIOUS
  <2> QED
    BY <2>2, <2>4, <2>5 DEF Holding
<1>7. DOMAIN hits = 1..h
  OBVIOUS
<1>8. Hits(i) = hits
  BY DEF Hits, h, S, top
<1>9. hits = [n \in 1..h |-> hits[n]]
  OBVIOUS
<1> HIDE DEF hits
<1>10. hits \in Seq(Blocks) /\ Len(hits) = h
  BY <1>4, <1>6, <1>7, <1>9
<1>11. IsInjectiveSeq(hits)
  <2> SUFFICES ASSUME NEW m \in 1..h, NEW n \in 1..h, hits[m] = hits[n] PROVE m = n
    BY <1>7 DEF IsInjectiveSeq
  <2>1. Prefix(i, m) = Prefix(i, n)
    BY <1>6
  <2> QED
    BY <1>6, <2>1
<1> QED
  BY <1>4, <1>5, <1>6, <1>8, <1>10, <1>11

LEMMA AdmitStep == Inductive /\ Admit => Inductive'
<1> SUFFICES ASSUME Inductive, Admit PROVE Inductive'
  OBVIOUS
<1>1. TypeOK /\ PoolOK /\ QueuesOK /\ VisitsOK /\ TablesOK /\ ContentOK
  BY DEF Inductive
<1>2. waiting # <<>> /\ waiting \in Seq(Requests)
  BY <1>1 DEF Admit, CanAdmit, TypeOK
<1>3. PICK i \in Requests : i = Head(waiting)
  BY <1>2, HeadTailFacts
<1> DEFINE p == progress[i]
           c == Len(Hits(i)) * BlockSize
           n == Min({budget, PrefillChunk, Target(i) - c})
           count == Ceil(c + n) - Len(Hits(i))
           queue == Sublist(free, Blocks \ Elements(Hits(i)))
<1>4. PICK hits \in Seq(Blocks) : hits = Hits(i)
  BY <1>1, HitsFacts
<1>5. /\ phase = "running" /\ todo = <<>> /\ budget > 0
      /\ Ceil(Target(i)) - Len(hits) + Cardinality(Protected(hits)) <= Len(free)
      /\ running' = Append(running, i) /\ waiting' = Tail(waiting)
      /\ services' = Append(services, Service(i, n, c)) /\ budget' = budget - n
      /\ UNCHANGED <<released, time, phase, todo, hadPreemption, mode>>
  <2>1. budget > 0 /\ Visited
    BY DEF Admit, CanAdmit
  <2>2. todo = <<>>
    BY <2>1 DEF Visited
  <2> QED
    BY <1>3, <1>4, <2>1, <2>2 DEF Admit, CanAdmit, Visited
<1>6. PICK taken \in Takes(queue, count) :
        /\ Hold(hits, taken)
        /\ progress' = [progress EXCEPT ![i].blocks = hits \o taken, ![i].computed = c]
        /\ stock' = (stock /\ taken = Stock(queue, count))
  BY <1>3, <1>4 DEF Admit
<1>7. /\ running \in Seq(Requests) /\ services \in Seq(ServiceType)
      /\ progress \in [Requests -> ProgressType]
      /\ free \in Seq(Blocks) /\ IsInjectiveSeq(free) /\ stock \in BOOLEAN
      /\ IsInjectiveSeq(running) /\ IsInjectiveSeq(waiting)
      /\ budget \in Nat \ {0} /\ budget \in 0..TokenBudget /\ TokenBudget \in Nat
  <2>1. budget \in 0..TokenBudget /\ TokenBudget \in Nat
    BY <1>1, Sizes DEF TypeOK
  <2> QED
    BY <1>1, <1>5, <2>1 DEF TypeOK, PoolOK, QueuesOK
<1>8. /\ i \in Elements(waiting) /\ i \notin Elements(running)
      /\ ~Completed(i) /\ i \in released /\ p.blocks = <<>>
      /\ \A k \in DOMAIN services : services[k].index # i
  <2>1. i \in Elements(waiting)
    BY <1>2, <1>3, HeadTailFacts
  <2>2. i \notin Elements(running) /\ ~Completed(i) /\ i \in released
    BY <1>1, <2>1 DEF QueuesOK
  <2>3. p.blocks = <<>>
    BY <1>1, <2>2 DEF QueuesOK
  <2> QED
    BY <1>5, <2>1, <2>2, <2>3, VisitFacts
<1> DEFINE h == Len(hits)
<1>9. /\ h \in Nat /\ IsInjectiveSeq(hits) /\ c = h * BlockSize
      /\ c \in Nat /\ c <= Input[i] - 1
      /\ \A k \in 1..h : blocks[hits[k]].identity = Prefix(i, k) /\ Prefix(i, k) # None
  BY <1>1, <1>4, HitsFacts
<1>10. /\ p \in ProgressType /\ p.outputs \in Seq(Nat) /\ Target(i) \in Nat /\ Input[i] \in Nat
       /\ c < Target(i)
  <2>1. p \in ProgressType /\ p.outputs \in Seq(Nat) /\ Target(i) \in Nat /\ Len(p.outputs) \in Nat
    BY <1>1, <1>7, ProgressFacts
  <2> HIDE DEF c
  <2> QED
    BY <1>9, <2>1, Demands DEF Target
<1> HIDE DEF c
<1>11. n \in Nat \ {0} /\ n <= budget /\ c + n <= Target(i)
  <2>1. n = Min({budget, Target(i) - c, PrefillChunk})
    <3>1. {budget, PrefillChunk, Target(i) - c} = {budget, Target(i) - c, PrefillChunk}
      OBVIOUS
    <3> QED
      BY <3>1
  <2> HIDE DEF n
  <2> QED
    BY <1>7, <1>9, <1>10, <2>1, Sizes, GrantFacts
<1> HIDE DEF n
<1>12. /\ Ceil(c + n) \in Nat /\ Ceil(c + n) <= Ceil(Target(i)) /\ Ceil(Target(i)) \in Nat
       /\ h <= Ceil(c + n) /\ count \in Nat /\ count = Ceil(c + n) - h
  <2>1. c \in Nat /\ c + n \in Nat /\ c <= c + n
    BY <1>9, <1>11
  <2>2. Ceil(c + n) \in Nat /\ Ceil(c + n) <= Ceil(Target(i)) /\ Ceil(Target(i)) \in Nat
    BY <1>10, <1>11, <2>1, CeilFacts, CeilType
  <2>3. Ceil(c) = h
    BY <1>9, CeilFacts
  <2>4. Ceil(c) <= Ceil(c + n)
    BY <2>1, CeilFacts
  <2> QED
    BY <1>4, <1>9, <2>2, <2>3, <2>4
<1>13. /\ queue \in Seq(Blocks) /\ IsInjectiveSeq(queue)
       /\ Elements(queue) = Elements(free) \ Elements(hits)
       /\ Elements(hits) \subseteq Blocks /\ Elements(free) \subseteq Blocks
  <2>1. Elements(hits) \subseteq Blocks /\ Elements(free) \subseteq Blocks
    BY <1>7, ListFacts
  <2>2. queue \in Seq(Blocks) /\ IsInjectiveSeq(queue)
    BY <1>7, SublistType, SublistInjective
  <2>3. Elements(queue) = Elements(free) \cap (Blocks \ Elements(hits))
    BY <1>4, <1>7, SublistElements
  <2> QED
    BY <2>1, <2>2, <2>3
<1> HIDE DEF queue, count
<1>14. count <= Len(queue)
  <2>1. Protected(hits) \subseteq Elements(free) /\ Elements(queue) = Elements(free) \ Protected(hits)
    <3>1. \A b \in Blocks : b \in Elements(free) <=> blocks[b].refs = 0
      BY <1>1 DEF PoolOK
    <3> QED
      BY <1>13, <3>1 DEF Protected
  <2>2. IsFiniteSet(Elements(free)) /\ Cardinality(Elements(free)) = Len(free)
    BY <1>7, InjectiveCardinality
  <2>3. Cardinality(Elements(queue)) = Len(queue)
    BY <1>13, InjectiveCardinality
  <2>4. Cardinality(Elements(free) \ Protected(hits)) = Cardinality(Elements(free)) - Cardinality(Protected(hits))
    BY <2>1, <2>2, CountRemoved
  <2>5. Len(queue) = Len(free) - Cardinality(Protected(hits))
    BY <2>1, <2>2, <2>3, <2>4
  <2>6. Cardinality(Protected(hits)) \in Nat /\ Len(free) \in Nat
    <3>1. IsFiniteSet(Protected(hits))
      BY <2>1, <2>2, FS_Subset
    <3> QED
      BY <1>7, <3>1, FS_CardinalityType
  <2> QED
    BY <1>5, <1>9, <1>12, <2>5, <2>6
<1>15. /\ taken \in Seq(Blocks) /\ Len(taken) = count /\ IsInjectiveSeq(taken)
       /\ Elements(taken) \subseteq Elements(queue)
  BY <1>6, <1>12, <1>13, <1>14, TakesFacts
<1>16. /\ Elements(taken) \subseteq Elements(free) /\ Elements(taken) \subseteq Blocks
       /\ Elements(hits) \cap Elements(taken) = {}
       /\ \A b \in Elements(taken) : Holders(b) = {}
  <2>1. Elements(taken) \subseteq Elements(free) /\ Elements(hits) \cap Elements(taken) = {}
          /\ Elements(taken) \subseteq Blocks
    BY <1>13, <1>15
  <2> QED
    BY <1>1, <2>1, FreeIsUnheld
<1> DEFINE more == hits \o taken
<1>17. /\ more \in Seq(Blocks) /\ Len(more) = Ceil(c + n) /\ IsInjectiveSeq(more)
       /\ Elements(more) = Elements(hits) \cup Elements(taken)
       /\ \A k \in DOMAIN more : IF k <= h THEN k \in 1..h /\ more[k] = hits[k]
                                 ELSE more[k] \in Elements(taken)
  <2>1. more \in Seq(Blocks) /\ IsInjectiveSeq(more) /\ Len(more) = h + Len(taken)
    BY <1>9, <1>15, <1>16, ConcatInjective
  <2>2. Elements(more) = Elements(hits) \cup Elements(taken)
    BY <1>15, ConcatFacts
  <2>3. ASSUME NEW k \in DOMAIN more
        PROVE  IF k <= h THEN k \in 1..h /\ more[k] = hits[k] ELSE more[k] \in Elements(taken)
    <3>1. k \in 1..(h + Len(taken)) /\ Len(taken) \in Nat
      BY <1>9, <1>15, <2>1
    <3>2. CASE k <= h
      BY <1>9, <1>15, <3>1, <3>2
    <3>3. CASE ~(k <= h)
      <4>1. k - h \in DOMAIN taken /\ more[k] = taken[k - h]
        BY <1>9, <1>15, <3>1, <3>3
      <4> QED
        BY <4>1 DEF Elements
    <3> QED
      BY <3>2, <3>3
  <2> QED
    BY <1>9, <1>12, <1>15, <2>1, <2>2, <2>3
<1> HIDE DEF more
<1>18. /\ progress'[i] = [computed |-> c, blocks |-> more, outputs |-> p.outputs]
       /\ \A j \in Requests \ {i} : progress'[j] = progress[j]
  <2>1. /\ progress'[i] = [p EXCEPT !.blocks = more, !.computed = c]
        /\ \A j \in Requests \ {i} : progress'[j] = progress[j]
    BY <1>6, <1>7 DEF more
  <2> QED
    BY <1>10, <2>1 DEF ProgressType
<1>19. /\ progress'[i].computed = c /\ progress'[i].blocks = more /\ progress'[i].outputs = p.outputs
       /\ progress'[i] \in ProgressType
  BY <1>9, <1>10, <1>17, <1>18 DEF ProgressType
<1>20. progress' \in [Requests -> ProgressType]
  BY <1>6, <1>7, <1>18, <1>19
<1>21. \A j \in Requests : progress'[j].outputs = progress[j].outputs
  BY <1>18, <1>19
<1>22. /\ PoolOK' /\ blocks' \in [Blocks -> BlockType] /\ free' \in Seq(Blocks)
       /\ \A b \in Blocks : blocks'[b].identity
            = IF b \in Elements(taken) THEN None ELSE blocks[b].identity
       /\ \A b \in Blocks : Holders(b)'
            = IF b \in Elements(taken) \cup Elements(hits) THEN Holders(b) \cup {i} ELSE Holders(b)
  <2>1. Elements(progress[i].blocks) = {}
    BY <1>8 DEF Elements
  <2>2. /\ Elements(progress'[i].blocks)
             = Elements(progress[i].blocks) \cup Elements(hits) \cup Elements(taken)
        /\ Elements(hits) \cap Elements(progress[i].blocks) = {}
        /\ IsInjectiveSeq(progress'[i].blocks)
        /\ \A j \in Requests \ {i} : progress'[j].blocks = progress[j].blocks
        /\ Elements(taken) \cap Elements(hits) = {}
    BY <1>16, <1>17, <1>18, <1>19, <2>1
  <2> QED
    BY <1>1, <1>6, <1>15, <1>16, <2>2, HoldPool
<1>23. PICK s \in ServiceType : s = Service(i, n, c) /\ s.index = i /\ s.tokens = n
  <2>1. n \in 1..TokenBudget
    BY <1>7, <1>11
  <2>2. Service(i, n, c) \in ServiceType /\ Service(i, n, c).index = i /\ Service(i, n, c).tokens = n
    BY <2>1 DEF ServiceType, Service
  <2> QED
    BY <2>2
<1>24. /\ services' \in Seq(ServiceType) /\ Len(services') = Len(services) + 1
       /\ \A k \in DOMAIN services : services'[k] = services[k]
       /\ services'[Len(services) + 1] = s
       /\ DOMAIN services' = DOMAIN services \cup {Len(services) + 1}
  BY <1>5, <1>7, <1>23, AppendFacts
<1>25. /\ running' \in Seq(Requests) /\ Len(running') = Len(running) + 1
       /\ \A k \in DOMAIN running : running'[k] = running[k]
       /\ running'[Len(running) + 1] = i
       /\ Elements(running') = Elements(running) \cup {i}
       /\ IsInjectiveSeq(running')
  BY <1>5, <1>7, <1>8, AppendFacts
<1>26. /\ waiting' \in Seq(Requests) /\ IsInjectiveSeq(waiting')
       /\ Elements(waiting') = Elements(waiting) \ {i}
  <2>1. waiting' \in Seq(Requests) /\ waiting[1] = i
    BY <1>2, <1>3, <1>5, HeadTailFacts
  <2>2. IsInjectiveSeq(waiting') /\ waiting[1] \notin Elements(waiting')
    BY <1>2, <1>5, <1>7, HeadTailFacts
  <2>3. Elements(waiting) = {waiting[1]} \cup Elements(waiting')
    BY <1>2, <1>5, HeadTailFacts
  <2> QED
    BY <2>1, <2>2, <2>3
<1>27. TypeOK'
  <2>1. budget' \in 0..TokenBudget
    BY <1>5, <1>7, <1>11
  <2>2. stock' \in BOOLEAN
    BY <1>6
  <2> QED
    BY <1>1, <1>5, <1>20, <1>22, <1>24, <1>25, <1>26, <2>1, <2>2 DEF TypeOK
<1>28. \A j \in Requests : Completed(j)' <=> Completed(j)
  BY <1>21 DEF Completed
<1>29. Elements(running) \cup Elements(waiting) \cup released \subseteq Requests
  BY <1>1, <1>2, <1>7, ListFacts DEF TypeOK
<1>30. QueuesOK'
  <2>1. /\ Elements(running') \cap Elements(waiting') = {}
        /\ Elements(running') \subseteq released /\ Elements(waiting') \subseteq released
    BY <1>1, <1>8, <1>25, <1>26 DEF QueuesOK
  <2>2. \A j \in released : Completed(j)' \/ j \in Elements(running') \/ j \in Elements(waiting')
    BY <1>1, <1>25, <1>26, <1>28, <1>29 DEF QueuesOK
  <2>3. \A j \in Requests \ released : progress'[j].outputs = <<>>
    BY <1>1, <1>21 DEF QueuesOK
  <2>4. \A j \in Elements(waiting') : ~Completed(j)'
    BY <1>1, <1>26, <1>28, <1>29 DEF QueuesOK
  <2>5. \A j \in Requests \ Elements(running') : progress'[j].blocks = <<>>
    BY <1>1, <1>18, <1>25 DEF QueuesOK
  <2>6. \A j \in Elements(running') : ~Completed(j)'
    BY <1>1, <1>5, <1>8, <1>25, <1>28, <1>29 DEF QueuesOK
  <2> QED
    BY <1>5, <1>25, <1>26, <2>1, <2>2, <2>3, <2>4, <2>5, <2>6 DEF QueuesOK
<1>31. VisitsOK'
  <2>1. Len(services) \in Nat /\ Len(todo) = 0 /\ Len(running) = Len(services)
          /\ DOMAIN services = 1..Len(services) /\ DOMAIN running = 1..Len(running)
    <3>1. Len(services) \in Nat /\ Len(running) = Len(services) + Len(todo)
      BY <1>5, VisitFacts
    <3> QED
      BY <1>5, <1>7, <3>1, ListFacts
  <2>2. Len(running') = Len(services') + Len(todo')
    BY <1>5, <1>24, <1>25, <2>1
  <2>3. ASSUME NEW k \in DOMAIN services' PROVE services'[k].index = running'[k]
    <3>1. CASE k \in DOMAIN services
      BY <1>1, <1>5, <1>24, <1>25, <2>1, <3>1 DEF VisitsOK
    <3>2. CASE k = Len(services) + 1
      BY <1>23, <1>24, <1>25, <2>1, <3>2
    <3> QED
      BY <1>24, <3>1, <3>2
  <2>4. \A k \in DOMAIN todo' : todo'[k] = running'[Len(services') + k]
    BY <1>5
  <2>5. /\ services' # <<>> /\ (hadPreemption => running' # <<>>)
        /\ \E j \in Requests : ~Completed(j)'
    BY <1>1, <1>5, <1>24, <1>25, <1>28, <2>1 DEF VisitsOK
  <2> QED
    BY <1>5, <2>2, <2>3, <2>4, <2>5 DEF VisitsOK
<1>32. Served(i)' = n /\ \A j \in Requests \ {i} : Served(j)' = Served(j)
  BY <1>5, <1>7, <1>8, <1>23, ServedAppend
<1>33. TablesOK'
  <2>1. Computed(i)' = c + n
    BY <1>19, <1>32 DEF Computed
  <2>2. \A j \in Requests \ {i} : Computed(j)' = Computed(j)
    BY <1>18, <1>32 DEF Computed
  <2>3. \A j \in Requests : Target(j)' = Target(j)
    BY <1>21 DEF Target
  <2>4. ASSUME NEW j \in Elements(running')
        PROVE  /\ Len(progress'[j].blocks) = Ceil(Computed(j)')
               /\ ~Completed(j)' => progress'[j].computed < Target(j)' /\ Computed(j)' <= Target(j)'
    <3>1. CASE j = i
      BY <1>10, <1>11, <1>17, <1>19, <2>1, <2>3, <3>1
    <3>2. CASE j # i
      <4>1. j \in Elements(running) /\ j \in Requests
        BY <1>25, <1>29, <3>2
      <4>2. Len(progress[j].blocks) = Ceil(Computed(j))
              /\ (~Completed(j) => progress[j].computed < Target(j) /\ Computed(j) <= Target(j))
        BY <1>1, <4>1 DEF TablesOK
      <4> QED
        BY <1>18, <1>28, <2>2, <2>3, <3>2, <4>1, <4>2
    <3> QED
      BY <3>1, <3>2
  <2>5. \A j \in Requests : Len(progress'[j].outputs) <= Output[j]
    BY <1>1, <1>21 DEF TablesOK
  <2> QED
    BY <2>4, <2>5 DEF TablesOK
<1>34. ContentOK'
  <2>1. Whole(i)' = h
    <3>1. Min({c, Input[i]}) = c
      <4>1. Min({c, Input[i]}) \in {c, Input[i]} /\ Min({c, Input[i]}) <= c
        BY <1>9, <1>10, MinOfTwo
      <4> QED
        BY <1>9, <1>10, <4>1
    <3>2. Whole(i)' = c \div BlockSize
      BY <1>19, <3>1 DEF Whole
    <3> HIDE DEF h
    <3>3. (h * BlockSize) \div BlockSize = h
      BY <1>9, Sizes, TimesOver
    <3> QED
      BY <1>9, <3>2, <3>3
  <2>2. ASSUME NEW b \in Blocks, NEW k \in DOMAIN progress'[i].blocks, progress'[i].blocks[k] = b
        PROVE  Content(i, k, b)'
    <3>1. k \in DOMAIN more /\ more[k] = b
      BY <1>19, <2>2
    <3>2. CASE k <= h
      <4>1. k \in 1..h /\ hits[k] = b
        BY <1>17, <3>1, <3>2
      <4>2. blocks[b].identity = Prefix(i, k) /\ b \in Elements(hits)
        BY <1>9, <4>1 DEF Elements
      <4> QED
        BY <1>16, <1>22, <2>1, <3>2, <4>2 DEF Content
    <3>3. CASE ~(k <= h)
      <4>1. b \in Elements(taken)
        BY <1>17, <3>1, <3>3
      <4>2. blocks'[b].identity = None /\ Holders(b)' = {i}
        BY <1>16, <1>22, <4>1
      <4> QED
        BY <2>1, <3>3, <4>2 DEF Content
    <3> QED
      BY <3>2, <3>3
  <2> DEFINE H == Elements(hits)
             T == Elements(taken)
  <2>3. /\ H \in SUBSET Blocks /\ T \in SUBSET Blocks
        /\ \A b \in T : Holders(b) = {}
        /\ \A b \in Blocks : blocks'[b].identity = IF b \in T THEN None ELSE blocks[b].identity
        /\ \A b \in Blocks : Holders(b)' = IF b \in T \cup H THEN Holders(b) \cup {i} ELSE Holders(b)
    BY <1>13, <1>16, <1>22
  <2>4. \A b \in H : blocks[b].identity # None
    <3> SUFFICES ASSUME NEW b \in H PROVE blocks[b].identity # None
      OBVIOUS
    <3>1. PICK k \in 1..h : hits[k] = b
      BY <1>9 DEF Elements
    <3> QED
      BY <1>9, <3>1
  <2>5. running' \in Seq(Requests)
          /\ \A j \in Elements(running') : j # i => j \in Elements(running) /\ progress'[j] = progress[j]
    BY <1>18, <1>25, <1>29
  <2> HIDE DEF H, T
  <2> QED
    BY <1>1, <1>7, <2>2, <2>3, <2>4, <2>5, HoldContent
<1> QED
  BY <1>22, <1>27, <1>30, <1>31, <1>33, <1>34 DEF Inductive

LEMMA LeaveStep == Inductive /\ Leave => Inductive'
<1> SUFFICES ASSUME Inductive, Leave PROVE Inductive'
  OBVIOUS
<1>1. TypeOK /\ PoolOK /\ QueuesOK /\ VisitsOK /\ TablesOK /\ ContentOK
  BY DEF Inductive
<1>2. todo # <<>> /\ todo \in Seq(Requests)
  BY <1>1 DEF Leave, TypeOK
<1>3. PICK i \in Requests : i = Head(todo)
  BY <1>2, HeadTailFacts
<1>4. /\ phase = "leaving" /\ Release(progress[i].blocks)
      /\ progress' = [progress EXCEPT ![i].blocks = <<>>]
      /\ running' = Without(running, i) /\ todo' = Tail(todo)
      /\ UNCHANGED <<waiting, released, time, phase, budget, services, hadPreemption, mode, stock>>
  BY <1>3 DEF Leave
<1>5. /\ running \in Seq(Requests) /\ waiting \in Seq(Requests) /\ services = <<>>
      /\ IsInjectiveSeq(running) /\ IsInjectiveSeq(todo)
      /\ Elements(todo) = {j \in Elements(running) : Completed(j)}
      /\ progress \in [Requests -> ProgressType]
  BY <1>1, <1>4 DEF TypeOK, QueuesOK, VisitsOK
<1>6. Elements(running) \cup Elements(waiting) \cup released \subseteq Requests
  BY <1>1, <1>5, ListFacts DEF TypeOK
<1>7. /\ todo' \in Seq(Requests) /\ IsInjectiveSeq(todo') /\ Elements(todo') = Elements(todo) \ {i}
      /\ i \in Elements(todo)
  <2>1. todo' \in Seq(Requests) /\ todo[1] = i
    BY <1>2, <1>3, <1>4, HeadTailFacts
  <2>2. IsInjectiveSeq(todo') /\ todo[1] \notin Elements(todo')
    BY <1>2, <1>4, <1>5, HeadTailFacts
  <2>3. Elements(todo) = {todo[1]} \cup Elements(todo')
    BY <1>2, <1>4, HeadTailFacts
  <2> QED
    BY <2>1, <2>2, <2>3
<1>8. i \in Elements(running) /\ Completed(i)
  BY <1>5, <1>7
<1>9. /\ running' \in Seq(Requests) /\ IsInjectiveSeq(running')
      /\ Elements(running') = Elements(running) \ {i}
  BY <1>4, <1>5, WithoutFacts
<1>10. /\ progress'[i] = [computed |-> progress[i].computed, blocks |-> <<>>,
                          outputs |-> progress[i].outputs]
       /\ \A j \in Requests \ {i} : progress'[j] = progress[j]
  <2>1. progress[i] \in ProgressType
    BY <1>5
  <2>2. progress'[i] = [progress[i] EXCEPT !.blocks = <<>>]
          /\ \A j \in Requests \ {i} : progress'[j] = progress[j]
    BY <1>4, <1>5
  <2> QED
    BY <2>1, <2>2 DEF ProgressType
<1>11. /\ progress'[i].blocks = <<>> /\ progress'[i] \in ProgressType
       /\ \A j \in Requests : progress'[j].outputs = progress[j].outputs
  <2>1. progress[i] \in ProgressType
    BY <1>5
  <2>2. progress[i].computed \in Nat /\ progress[i].outputs \in Seq(Nat)
    BY <2>1 DEF ProgressType
  <2> QED
    BY <1>10, <2>2 DEF ProgressType
<1>12. progress' \in [Requests -> ProgressType]
  BY <1>4, <1>5, <1>10, <1>11
<1>13. /\ PoolOK' /\ blocks' \in [Blocks -> BlockType] /\ free' \in Seq(Blocks)
       /\ \A b \in Blocks : blocks'[b].identity = blocks[b].identity
       /\ \A b \in Blocks : Holders(b)' = Holders(b) \ {i}
  <2>1. \A j \in Requests \ {i} : progress'[j].blocks = progress[j].blocks
    BY <1>10
  <2> QED
    BY <1>1, <1>4, <1>11, <2>1, ReleasePool
<1>14. TypeOK'
  BY <1>1, <1>4, <1>7, <1>9, <1>12, <1>13 DEF TypeOK
<1>15. \A j \in Requests : Completed(j)' <=> Completed(j)
  BY <1>11 DEF Completed
<1>16. QueuesOK'
  <2>1. /\ Elements(running') \cap Elements(waiting) = {}
        /\ Elements(running') \subseteq released /\ Elements(waiting) \subseteq released
    BY <1>1, <1>9 DEF QueuesOK
  <2>2. \A j \in released : Completed(j)' \/ j \in Elements(running') \/ j \in Elements(waiting)
    BY <1>1, <1>6, <1>8, <1>9, <1>15 DEF QueuesOK
  <2>3. \A j \in Requests \ released : progress'[j].outputs = <<>>
    BY <1>1, <1>11 DEF QueuesOK
  <2>4. \A j \in Elements(waiting) : ~Completed(j)'
    BY <1>1, <1>6, <1>15 DEF QueuesOK
  <2>5. \A j \in Requests \ Elements(running') : progress'[j].blocks = <<>>
    BY <1>1, <1>9, <1>10, <1>11 DEF QueuesOK
  <2> QED
    BY <1>1, <1>4, <1>9, <2>1, <2>2, <2>3, <2>4, <2>5 DEF QueuesOK
<1>17. VisitsOK'
  <2>1. Elements(todo') = {j \in Elements(running') : Completed(j)'}
    BY <1>5, <1>6, <1>7, <1>9, <1>15
  <2> QED
    BY <1>4, <1>5, <1>7, <2>1 DEF VisitsOK
<1>18. TablesOK'
  <2>1. \A j \in Requests \ {i} : Computed(j)' = Computed(j) /\ Target(j)' = Target(j)
    BY <1>4, <1>10 DEF Computed, Served, Target
  <2>2. Elements(running') \subseteq Requests \ {i}
    BY <1>6, <1>9
  <2>3. \A j \in Requests : Len(progress'[j].outputs) <= Output[j]
    BY <1>1, <1>11 DEF TablesOK
  <2> QED
    BY <1>1, <1>9, <1>10, <1>15, <2>1, <2>2, <2>3 DEF TablesOK
<1>19. ContentOK'
  BY <1>1, <1>5, <1>9, <1>10, <1>13, ReleaseContent
<1> QED
  BY <1>13, <1>14, <1>16, <1>17, <1>18, <1>19 DEF Inductive

(* The batch takes a time.                                                  *)
LEMMA DurationFacts ==
  ASSUME services \in Seq(ServiceType)
  PROVE  Duration \in Nat \ {0}
<1> DEFINE all == (1..Len(services)) \X (1..TokenBudget)
<1>1. Len(services) \in Nat /\ TokenBudget \in Nat /\ DOMAIN services = 1..Len(services)
  BY Sizes
<1>2. IsFiniteSet(all)
  <2>1. IsFiniteSet(1..Len(services)) /\ IsFiniteSet(1..TokenBudget)
    BY <1>1, FS_Interval
  <2> QED
    BY <2>1, FS_Product
<1>3. ASSUME NEW kind PROVE Cardinality(Batch(kind)) \in Nat
  <2>1. Batch(kind) \in SUBSET all
    <3> SUFFICES ASSUME NEW k \in DOMAIN services
                 PROVE  {k} \X (1..services[k].tokens) \subseteq all
      BY DEF Batch
    <3>1. services[k] \in ServiceType /\ k \in 1..Len(services)
      BY <1>1, ListFacts
    <3>2. services[k].tokens \in 1..TokenBudget
      BY <3>1 DEF ServiceType
    <3>3. 1..services[k].tokens \subseteq 1..TokenBudget
      BY <1>1, <3>2
    <3> QED
      BY <3>1, <3>3
  <2>2. IsFiniteSet(Batch(kind))
    BY <1>2, <2>1, FS_Subset
  <2> QED
    BY <2>2, FS_CardinalityType
<1> DEFINE p == Cardinality(Batch("prefill"))
           d == Cardinality(Batch("decode"))
<1>4. p \in Nat /\ d \in Nat
  BY <1>3
<1>5. Duration = Overhead + PrefillTokenCost * p + DecodeTokenCost * d
  BY DEF Duration
<1> HIDE DEF p, d
<1>6. PrefillTokenCost * p \in Nat /\ DecodeTokenCost * d \in Nat
  BY <1>4, Sizes
<1> QED
  BY <1>5, <1>6, Sizes

(* What the batch makes of a block that i lists: the content of i's prompt  *)
(* there or nothing, whoever else lists it.                                 *)
LEMMA WrittenFacts ==
  ASSUME Inductive, phase = "running", NEW i \in Elements(running), NEW b \in Blocks,
         NEW n \in DOMAIN progress[i].blocks, progress[i].blocks[n] = b
  PROVE  /\ \A x \in Written(b) : x = Prefix(i, n)
         /\ n > Full(i) => Written(b) = {}
         /\ n <= Full(i) /\ n > Whole(i) => Written(b) # {}
<1>1. TypeOK /\ PoolOK /\ QueuesOK /\ TablesOK /\ ContentOK
  BY DEF Inductive
<1>2. running \in Seq(Requests) /\ services \in Seq(ServiceType) /\ Elements(running) \subseteq Requests
  <2>1. running \in Seq(Requests) /\ services \in Seq(ServiceType)
    BY <1>1 DEF TypeOK
  <2> QED
    BY <2>1, ListFacts
<1>3. ASSUME NEW j \in Elements(running)
      PROVE  /\ progress[j].computed \in Nat /\ Served(j) \in Nat /\ Computed(j) \in Nat
             /\ Full(j) \in Nat /\ Full(j) <= Len(progress[j].blocks)
             /\ progress[j].blocks \in Seq(Blocks) /\ IsInjectiveSeq(progress[j].blocks)
             /\ Whole(j) \in Nat /\ Whole(j) <= Full(j) /\ Whole(j) <= Len(Hashes[j])
  <2>1. j \in Requests
    BY <1>2
  <2>2. progress[j].computed \in Nat /\ Served(j) \in Nat
    BY <1>1, <1>2, <2>1, ProgressFacts, ServedType
  <2>3. Computed(j) \in Nat /\ progress[j].computed <= Computed(j)
    BY <2>2 DEF Computed
  <2>4. Full(j) \in Nat /\ Full(j) <= Ceil(Computed(j))
    BY <2>1, <2>3, WholeFacts DEF Full
  <2>5. Whole(j) \in Nat /\ Whole(j) <= Len(Hashes[j]) /\ Whole(j) <= Full(j)
    BY <2>1, <2>2, <2>3, WholeFacts DEF Full, Whole
  <2>6. Ceil(Computed(j)) = Len(progress[j].blocks)
    BY <1>1 DEF TablesOK
  <2>7. progress[j].blocks \in Seq(Blocks) /\ IsInjectiveSeq(progress[j].blocks)
    BY <1>1, <2>1, ProgressFacts DEF PoolOK
  <2> QED
    BY <2>2, <2>3, <2>4, <2>5, <2>6, <2>7
<1>4. ASSUME NEW x \in Written(b)
      PROVE  \E j \in Elements(running) : \E m \in DOMAIN progress[j].blocks :
               m <= Full(j) /\ progress[j].blocks[m] = b /\ x = Prefix(j, m)
  <2>1. PICK j \in Requests :
          Served(j) > 0 /\ \E m \in 1..Full(j) : progress[j].blocks[m] = b /\ x = Prefix(j, m)
    BY <1>4 DEF Written
  <2>2. PICK m \in 1..Full(j) : progress[j].blocks[m] = b /\ x = Prefix(j, m)
    BY <2>1
  <2>3. j \in Elements(running)
    BY <2>1, VisitFacts
  <2>4. m \in DOMAIN progress[j].blocks /\ m <= Full(j)
    BY <1>3, <2>2, <2>3
  <2> QED
    BY <2>2, <2>3, <2>4
<1>5. Content(i, n, b)
  BY <1>1 DEF ContentOK
<1>6. n \in Nat
  BY <1>3
<1>7. CASE n <= Whole(i)
  <2>1. blocks[b].identity = Prefix(i, n)
    BY <1>5, <1>7 DEF Content
  <2>2. Prefix(i, n) # None
    <3>1. i \in Requests /\ Len(Hashes[i]) \in Nat
      BY <1>2, Demands
    <3>2. n \in 1..Len(Hashes[i])
      BY <1>3, <1>7, <3>1
    <3> QED
      BY <3>1, <3>2, PrefixFacts
  <2>3. ASSUME NEW x \in Written(b) PROVE x = Prefix(i, n)
    <3>1. PICK j \in Elements(running) : \E m \in DOMAIN progress[j].blocks :
            m <= Full(j) /\ progress[j].blocks[m] = b /\ x = Prefix(j, m)
      BY <1>4
    <3>2. PICK m \in DOMAIN progress[j].blocks : progress[j].blocks[m] = b /\ x = Prefix(j, m)
      BY <3>1
    <3>3. Content(j, m, b)
      BY <1>1, <3>2 DEF ContentOK
    <3> QED
      BY <2>1, <2>2, <3>2, <3>3 DEF Content
  <2> QED
    BY <1>3, <1>6, <1>7, <2>3
<1>8. CASE ~(n <= Whole(i))
  <2>1. Holders(b) = {i}
    BY <1>5, <1>8 DEF Content
  <2>2. ASSUME NEW x \in Written(b) PROVE x = Prefix(i, n) /\ n <= Full(i)
    <3>1. PICK j \in Elements(running) : \E m \in DOMAIN progress[j].blocks :
            m <= Full(j) /\ progress[j].blocks[m] = b /\ x = Prefix(j, m)
      BY <1>4
    <3>2. PICK m \in DOMAIN progress[j].blocks :
            m <= Full(j) /\ progress[j].blocks[m] = b /\ x = Prefix(j, m)
      BY <3>1
    <3>3. j \in Holders(b)
      BY <1>2, <3>2 DEF Holders, Elements
    <3>4. j = i
      BY <2>1, <3>3
    <3>5. m = n
      BY <1>3, <3>2, <3>4 DEF IsInjectiveSeq
    <3> QED
      BY <3>2, <3>4, <3>5
  <2>3. n > Full(i) => Written(b) = {}
    BY <1>3, <1>6, <2>2
  <2>4. ASSUME n <= Full(i) PROVE Written(b) # {}
    <3>1. Served(i) > 0
      <4> SUFFICES ASSUME Served(i) = 0 PROVE FALSE
        BY <1>3
      <4>1. Computed(i) = progress[i].computed
        BY <1>3 DEF Computed
      <4>2. Full(i) = Whole(i)
        BY <4>1 DEF Full, Whole
      <4> QED
        BY <1>8, <2>4, <4>2
    <3>2. n \in 1..Full(i) /\ i \in Requests
      BY <1>2, <1>3, <2>4
    <3>3. Prefix(i, n) \in Written(b)
      BY <3>1, <3>2 DEF Written
    <3> QED
      BY <3>3
  <2> QED
    BY <2>2, <2>3, <2>4
<1> QED
  BY <1>7, <1>8

LEMMA ExecuteStep == Inductive /\ Execute => Inductive'
<1> SUFFICES ASSUME Inductive, Execute PROVE Inductive'
  OBVIOUS
<1> DEFINE New(b) == CHOOSE identity \in Written(b) : TRUE
<1>1. /\ phase = "running" /\ phase' = "leaving" /\ time' = time + Duration
      /\ budget' = 0 /\ services' = <<>> /\ hadPreemption' = FALSE
      /\ UNCHANGED <<free, running, waiting, released, mode, stock>>
  BY DEF Execute, Visited, queues
<1>21. blocks' = [b \in Blocks |->
         IF Written(b) = {} THEN blocks[b] ELSE [blocks[b] EXCEPT !.identity = New(b)]]
  BY DEF Execute
<1>22. progress' = [i \in Requests |->
         [progress[i] EXCEPT !.computed = Computed(i),
                             !.outputs = IF Answers(i) THEN Append(@, time') ELSE @]]
  BY DEF Execute
<1>23. todo' = Sublist(running, {i \in Requests : Completed(i)'})
  BY DEF Execute
<1>2. TypeOK /\ PoolOK /\ QueuesOK /\ VisitsOK /\ TablesOK /\ ContentOK
  BY DEF Inductive
<1>3. /\ running \in Seq(Requests) /\ waiting \in Seq(Requests) /\ IsInjectiveSeq(running)
      /\ services \in Seq(ServiceType) /\ progress \in [Requests -> ProgressType]
      /\ blocks \in [Blocks -> BlockType]
  BY <1>2 DEF TypeOK, QueuesOK
<1>4. Elements(running) \cup Elements(waiting) \cup released \subseteq Requests
  BY <1>2, <1>3, ListFacts DEF TypeOK
<1>5. time' \in Nat
  BY <1>1, <1>2, <1>3, DurationFacts DEF TypeOK
<1>6. ASSUME NEW i \in Requests
      PROVE  /\ progress[i].computed \in Nat /\ Served(i) \in Nat /\ Computed(i) \in Nat
             /\ progress[i].computed <= Computed(i)
             /\ progress[i] \in ProgressType /\ progress[i].outputs \in Seq(Nat)
             /\ progress[i].blocks \in Seq(Blocks) /\ Target(i) \in Nat
             /\ i \notin Elements(running) => Served(i) = 0 /\ ~Answers(i)
  <2>1. progress[i].computed \in Nat /\ Served(i) \in Nat
    BY <1>2, <1>3, ProgressFacts, ServedType
  <2>2. Computed(i) \in Nat /\ progress[i].computed <= Computed(i)
    BY <2>1 DEF Computed
  <2>3. i \notin Elements(running) => Served(i) = 0 /\ ~Answers(i)
    BY <1>1, VisitFacts DEF Answers
  <2> QED
    BY <1>2, <1>3, <2>1, <2>2, <2>3, ProgressFacts
<1>7. ASSUME NEW i \in Requests
      PROVE  /\ progress'[i].computed = Computed(i) /\ progress'[i].blocks = progress[i].blocks
             /\ progress'[i].outputs = IF Answers(i) THEN Append(progress[i].outputs, time')
                                       ELSE progress[i].outputs
             /\ progress'[i] \in ProgressType
  <2> DEFINE made == IF Answers(i) THEN Append(progress[i].outputs, time') ELSE progress[i].outputs
  <2>1. progress'[i] = [progress[i] EXCEPT !.computed = Computed(i), !.outputs = made]
    BY <1>22
  <2>2. made \in Seq(Nat)
    BY <1>5, <1>6
  <2> HIDE DEF made
  <2>3. progress'[i] = [computed |-> Computed(i), blocks |-> progress[i].blocks, outputs |-> made]
    BY <1>6, <2>1 DEF ProgressType
  <2>4. progress'[i].computed = Computed(i) /\ progress'[i].blocks = progress[i].blocks
          /\ progress'[i].outputs = made
    BY <2>3
  <2>5. progress'[i] \in ProgressType
    BY <1>6, <2>2, <2>3 DEF ProgressType
  <2> QED
    BY <2>4, <2>5 DEF made
<1>8. progress' \in [Requests -> ProgressType]
  BY <1>7, <1>22
<1>9. ASSUME NEW i \in Elements(running)
      PROVE  /\ i \in Requests /\ ~Completed(i) /\ Computed(i) <= Target(i)
             /\ progress[i].computed < Target(i) /\ Len(progress[i].outputs) < Output[i]
  <2>1. i \in Requests /\ ~Completed(i)
    BY <1>1, <1>2, <1>4 DEF QueuesOK
  <2>2. Computed(i) <= Target(i) /\ progress[i].computed < Target(i)
          /\ Len(progress[i].outputs) <= Output[i]
    BY <1>2, <2>1 DEF TablesOK
  <2>3. Len(progress[i].outputs) < Output[i]
    BY <1>6, <2>1, <2>2, Demands DEF Completed
  <2> QED
    BY <2>1, <2>2, <2>3
<1>10. \A i \in Requests \ Elements(running) :
         progress'[i].outputs = progress[i].outputs /\ (Completed(i)' <=> Completed(i))
  BY <1>6, <1>7 DEF Completed
<1>11. ASSUME NEW b \in Blocks
       PROVE  /\ blocks'[b].refs = blocks[b].refs
              /\ blocks'[b].identity = IF Written(b) = {} THEN blocks[b].identity ELSE New(b)
              /\ blocks'[b] \in BlockType
  <2>1. blocks[b] = [identity |-> blocks[b].identity, refs |-> blocks[b].refs]
          /\ blocks[b].identity \in Identities /\ blocks[b].refs \in Nat
    BY <1>2, BlockShape
  <2>2. CASE Written(b) = {}
    BY <1>3, <1>21, <2>2
  <2>3. CASE Written(b) # {}
    <3>1. New(b) \in Written(b)
      BY <2>3
    <3>2. PICK j \in Requests : \E m \in 1..Full(j) : New(b) = Prefix(j, m)
      BY <3>1 DEF Written
    <3>6. PICK m \in 1..Full(j) : New(b) = Prefix(j, m)
      BY <3>2
    <3> HIDE DEF New
    <3>3. New(b) \in Identities
      <4>3. Computed(j) \in Nat
        BY <1>6
      <4>4. Full(j) \in Nat /\ Full(j) <= Len(Hashes[j])
        BY <4>3, WholeFacts DEF Full
      <4>1. Full(j) \in Nat /\ Full(j) <= Len(Hashes[j]) /\ Len(Hashes[j]) \in Nat
        BY <4>4, Demands
      <4>2. m \in 1..Len(Hashes[j])
        BY <4>1
      <4> QED
        BY <3>6, <4>2, PrefixFacts
    <3>4. blocks'[b] = [blocks[b] EXCEPT !.identity = New(b)]
      BY <1>21, <2>3 DEF New
    <3>5. blocks'[b] = [identity |-> New(b), refs |-> blocks[b].refs]
      BY <2>1, <3>4
    <3> QED
      BY <2>1, <2>3, <3>3, <3>5 DEF BlockType
  <2> QED
    BY <2>2, <2>3
<1> HIDE DEF New
<1>12. /\ todo' \in Seq(Requests) /\ IsInjectiveSeq(todo')
       /\ Elements(todo') = {i \in Elements(running) : Completed(i)'}
  <2> DEFINE S == {i \in Requests : Completed(i)'}
  <2>1. todo' \in Seq(Requests) /\ IsInjectiveSeq(todo') /\ Elements(todo') = Elements(running) \cap S
    <3> HIDE DEF S
    <3>1. todo' = Sublist(running, S)
      BY <1>23 DEF S
    <3> QED
      BY <1>3, <3>1, SublistType, SublistInjective, SublistElements
  <2> QED
    BY <1>4, <2>1
<1>13. TypeOK'
  <2>1. blocks' \in [Blocks -> BlockType]
    BY <1>11, <1>21
  <2>2. budget' \in 0..TokenBudget
    BY <1>1, Sizes
  <2> QED
    <3>1. free' \in Seq(Blocks) /\ running' \in Seq(Requests) /\ waiting' \in Seq(Requests)
            /\ todo' \in Seq(Requests) /\ released' \in SUBSET Requests
      BY <1>1, <1>2, <1>12 DEF TypeOK
    <3>2. services' \in Seq(ServiceType)
      BY <1>1
    <3>4. hadPreemption' \in BOOLEAN /\ phase' \in {"start", "running", "leaving", "infeasible", "done"}
      BY <1>1
    <3>3. mode' \in {"baseline", "search"} /\ stock' \in BOOLEAN
      BY <1>1, <1>2 DEF TypeOK
    <3> QED
      BY <1>5, <1>8, <2>1, <2>2, <3>1, <3>2, <3>3, <3>4 DEF TypeOK
<1>14. \A b \in Blocks : Holders(b)' = Holders(b)
  BY <1>7 DEF Holders
<1>15. PoolOK'
  <2>1. \A b \in Blocks : blocks'[b].refs = Cardinality(Holders(b)')
    BY <1>2, <1>11, <1>14 DEF PoolOK
  <2> QED
    BY <1>1, <1>2, <1>7, <1>11, <2>1 DEF PoolOK
<1>16. QueuesOK'
  <2>1. \A i \in released : Completed(i)' \/ i \in Elements(running) \/ i \in Elements(waiting)
    BY <1>2, <1>4, <1>10 DEF QueuesOK
  <2>2. \A i \in Requests \ released : progress'[i].outputs = <<>>
    BY <1>2, <1>10 DEF QueuesOK
  <2>3. \A i \in Elements(waiting) : ~Completed(i)'
    BY <1>2, <1>4, <1>10 DEF QueuesOK
  <2>4. \A i \in Requests \ Elements(running) : progress'[i].blocks = <<>>
    BY <1>2, <1>7 DEF QueuesOK
  <2> QED
    BY <1>1, <1>2, <2>1, <2>2, <2>3, <2>4 DEF QueuesOK
<1>17. VisitsOK'
  BY <1>1, <1>12 DEF VisitsOK
<1>18. \A i \in Requests : Computed(i)' = Computed(i)
  <2> SUFFICES ASSUME NEW i \in Requests PROVE Computed(i)' = Computed(i)
    OBVIOUS
  <2>1. Served(i)' = 0
    BY <1>1 DEF Served
  <2>2. Computed(i)' = progress'[i].computed + Served(i)'
    BY DEF Computed
  <2> QED
    BY <1>6, <1>7, <2>1, <2>2
<1>19. TablesOK'
  <2>1. ASSUME NEW i \in Elements(running)
        PROVE  progress'[i].computed < Target(i)' /\ Computed(i)' <= Target(i)'
                 /\ Len(progress'[i].outputs) <= Output[i]
    <3>1. /\ i \in Requests /\ Computed(i) <= Target(i) /\ progress[i].computed < Target(i)
          /\ Len(progress[i].outputs) < Output[i] /\ Len(progress[i].outputs) \in Nat
          /\ Output[i] \in Nat /\ Input[i] \in Nat
      BY <1>6, <1>9, Demands
    <3>2. Target(i) = Input[i] + Len(progress[i].outputs)
            /\ Target(i)' = Input[i] + Len(progress'[i].outputs)
      BY DEF Target
    <3>3. CASE Answers(i)
      <4>1. progress[i].outputs \in Seq(Nat) /\ progress'[i].outputs = Append(progress[i].outputs, time')
        BY <1>6, <1>7, <3>1, <3>3
      <4>2. Len(progress'[i].outputs) = Len(progress[i].outputs) + 1
        BY <1>5, <4>1
      <4>3. /\ progress[i].computed \in Nat /\ Computed(i) \in Nat /\ Target(i) \in Nat
            /\ progress'[i].computed = Computed(i) /\ Computed(i)' = Computed(i)
        BY <1>6, <1>7, <1>18, <3>1
      <4> QED
        BY <3>1, <3>2, <4>2, <4>3
    <3>4. CASE ~Answers(i)
      <4>1. Len(progress'[i].outputs) = Len(progress[i].outputs)
        BY <1>7, <3>1, <3>4
      <4>2. Computed(i) < Target(i)
        <5>1. CASE Served(i) = 0
          BY <1>6, <3>1, <5>1 DEF Computed
        <5>2. CASE Served(i) # 0
          BY <1>6, <3>1, <3>4, <5>2 DEF Answers
        <5> QED
          BY <5>1, <5>2
      <4> QED
        BY <1>6, <1>7, <1>18, <3>1, <3>2, <4>1, <4>2
    <3> QED
      BY <3>3, <3>4
  <2>2. \A i \in Elements(running) : Len(progress'[i].blocks) = Ceil(Computed(i)')
    BY <1>2, <1>4, <1>7, <1>18 DEF TablesOK
  <2>3. \A i \in Requests : Len(progress'[i].outputs) <= Output[i]
    BY <1>2, <1>10, <2>1 DEF TablesOK
  <2> QED
    BY <1>1, <2>1, <2>2, <2>3 DEF TablesOK
<1>20. ContentOK'
  <2> SUFFICES ASSUME NEW i \in Elements(running), NEW b \in Blocks,
                      NEW n \in DOMAIN progress[i].blocks, progress[i].blocks[n] = b
               PROVE  Content(i, n, b)'
    BY <1>1, <1>4, <1>7 DEF ContentOK
  <2>1. /\ \A x \in Written(b) : x = Prefix(i, n)
        /\ n > Full(i) => Written(b) = {}
        /\ n <= Full(i) /\ n > Whole(i) => Written(b) # {}
    BY <1>1, WrittenFacts
  <2>2. i \in Requests
    BY <1>4
  <2>3. Whole(i)' = Full(i) /\ Full(i) \in Nat /\ Whole(i) \in Nat /\ Whole(i) <= Full(i) /\ n \in Nat
    <3>1. Whole(i)' = Full(i)
      BY <1>7, <2>2 DEF Whole, Full
    <3>2. Full(i) \in Nat /\ Whole(i) \in Nat /\ Whole(i) <= Full(i)
      BY <1>6, <2>2, WholeFacts DEF Whole, Full
    <3>3. n \in Nat
      BY <1>6, <2>2
    <3> QED
      BY <3>1, <3>2, <3>3
  <2>4. Content(i, n, b)
    BY <1>2 DEF ContentOK
  <2>5. Written(b) # {} => New(b) = Prefix(i, n)
    BY <2>1 DEF New
  <2>6. CASE n <= Full(i)
    <3>1. blocks'[b].identity = Prefix(i, n)
      <4>1. CASE Written(b) # {}
        BY <1>11, <2>5, <4>1
      <4>2. CASE Written(b) = {}
        <5>1. n <= Whole(i)
          BY <2>1, <2>3, <2>6, <4>2
        <5> QED
          BY <1>11, <2>4, <4>2, <5>1 DEF Content
      <4> QED
        BY <4>1, <4>2
    <3> QED
      BY <2>3, <2>6, <3>1 DEF Content
  <2>7. CASE ~(n <= Full(i))
    <3>1. Written(b) = {} /\ ~(n <= Whole(i))
      BY <2>1, <2>3, <2>7
    <3>2. blocks'[b].identity = None /\ Holders(b)' = {i}
      BY <1>11, <1>14, <2>4, <3>1 DEF Content
    <3> QED
      BY <2>3, <2>7, <3>2 DEF Content
  <2> QED
    BY <2>6, <2>7
<1> QED
  BY <1>13, <1>15, <1>16, <1>17, <1>19, <1>20 DEF Inductive

-----------------------------------------------------------------------------
(* The properties *)

(* Every action keeps the inductive invariant.                              *)
THEOREM InductiveInvariant == Spec => []Inductive
<1>1. Init => Inductive
  BY InitFresh, FreshInductive
<1>2. Inductive /\ [Next]_vars => Inductive'
  <2> SUFFICES ASSUME Inductive, [Next]_vars PROVE Inductive'
    OBVIOUS
  <2> QED
    BY StartStep, PreemptStep, RunStep, AdmitStep, ExecuteStep, LeaveStep, FinishStep,
       IdleStep, SearchStep, StutterStep DEF Next
<1> QED
  BY <1>1, <1>2, PTL DEF Spec

(* validate_state(), of every workload and whatever is evicted: references  *)
(* and the free queue agree with the tables, a table has a block for each   *)
(* token computed, and the full blocks of a running request's prompt still  *)
(* hold its own content.                                                    *)
THEOREM StateIsValid == Spec => []ValidState
<1>1. Inductive => ValidState
  <2> SUFFICES ASSUME Inductive PROVE ValidState
    OBVIOUS
  <2>1. TypeOK /\ PoolOK /\ QueuesOK /\ VisitsOK /\ TablesOK /\ ContentOK
    BY DEF Inductive
  <2>2. \A b \in Blocks :
          /\ blocks[b].refs = Cardinality({i \in Requests : b \in Elements(progress[i].blocks)})
          /\ blocks[b].refs = 0 <=> b \in Elements(free)
    BY <2>1 DEF PoolOK, Holders
  <2>3. ASSUME NEW i \in Requests
        PROVE  LET p == progress[i]
               IN /\ IsInjectiveSeq(p.blocks)
                  /\ p.blocks # <<>> => i \in Elements(running)
                  /\ phase = "start" /\ i \in Elements(running) => Len(p.blocks) = Ceil(p.computed)
                  /\ i \in Elements(running) =>
                       \A n \in 1..(Min({p.computed, Input[i]}) \div BlockSize) :
                         blocks[p.blocks[n]].identity = Prefix(i, n)
    <3> DEFINE p == progress[i]
    <3>1. IsInjectiveSeq(p.blocks) /\ (p.blocks # <<>> => i \in Elements(running))
      BY <2>1 DEF PoolOK, QueuesOK
    <3>2. p.computed \in Nat /\ p.blocks \in Seq(Blocks) /\ services \in Seq(ServiceType)
      BY <2>1, ProgressFacts DEF TypeOK
    <3>3. Served(i) \in Nat /\ Computed(i) \in Nat /\ p.computed <= Computed(i)
      BY <3>2, ServedType DEF Computed
    <3>4. ASSUME phase = "start", i \in Elements(running) PROVE Len(p.blocks) = Ceil(p.computed)
      <4>1. services = <<>>
        BY <2>1, <3>4 DEF VisitsOK
      <4>2. Computed(i) = p.computed
        BY <3>2, <4>1 DEF Computed, Served
      <4> QED
        BY <2>1, <3>4, <4>2 DEF TablesOK
    <3>5. ASSUME i \in Elements(running), NEW n \in 1..Whole(i)
          PROVE  blocks[p.blocks[n]].identity = Prefix(i, n)
      <4>1. Len(p.blocks) = Ceil(Computed(i))
        BY <2>1, <3>5 DEF TablesOK
      <4>2. Whole(i) \in Nat /\ Whole(i) <= Ceil(p.computed)
        BY <3>2, WholeFacts DEF Whole
      <4>3. Ceil(p.computed) <= Ceil(Computed(i)) /\ Ceil(p.computed) \in Nat
        BY <3>2, <3>3, CeilFacts
      <4>4. n \in DOMAIN p.blocks
        <5>1. Len(p.blocks) \in Nat /\ DOMAIN p.blocks = 1..Len(p.blocks)
          BY <3>2, ListFacts
        <5> HIDE DEF p
        <5> QED
          BY <4>1, <4>2, <4>3, <5>1
      <4>5. p.blocks[n] \in Blocks /\ n <= Whole(i)
        BY <3>2, <4>2, <4>4, ListFacts
      <4>6. Content(i, n, p.blocks[n])
        BY <2>1, <3>5, <4>4, <4>5 DEF ContentOK
      <4> QED
        BY <4>5, <4>6 DEF Content
    <3> QED
      BY <3>1, <3>4, <3>5 DEF Whole
  <2> QED
    BY <2>1, <2>2, <2>3 DEF ValidState, PoolOK
<1> QED
  BY <1>1, InductiveInvariant, PTL

(* The three ways in which replay() gives up on an iteration are never      *)
(* taken: an iteration that serves nobody has nobody to serve, and somebody *)
(* is still to arrive.                                                      *)
THEOREM SomebodyIsServed == Spec => []NeverStuck
<1>1. Inductive => NeverStuck
  <2> SUFFICES ASSUME Inductive PROVE NeverStuck
    OBVIOUS
  <2>1. TypeOK /\ PoolOK /\ QueuesOK /\ VisitsOK /\ TablesOK
    BY DEF Inductive
  <2>2. \A k \in DOMAIN services : services[k].tokens > 0
    <3> SUFFICES ASSUME NEW k \in DOMAIN services PROVE services[k].tokens > 0
      OBVIOUS
    <3>1. services[k] \in ServiceType
      BY <2>1, ListFacts DEF TypeOK
    <3>2. services[k].tokens \in 1..TokenBudget /\ TokenBudget \in Nat
      BY <3>1, Sizes DEF ServiceType
    <3> QED
      BY <3>2
  <2>3. ASSUME Visited, ~CanAdmit, services = <<>>
        PROVE  running = <<>> /\ waiting = <<>> /\ ~hadPreemption /\ Future # {}
    <3>1. phase = "running" /\ budget = TokenBudget /\ budget > 0
      BY <2>1, <2>3, Sizes DEF Visited, VisitsOK
    <3>2. todo = <<>>
      BY <2>3, <3>1 DEF Visited
    <3>3. running = <<>>
      <4>1. Len(running) = 0 /\ running \in Seq(Requests)
        BY <2>1, <2>3, <3>1, <3>2 DEF VisitsOK, TypeOK
      <4> QED
        BY <4>1
    <3>4. ~hadPreemption
      BY <2>1, <3>1, <3>3 DEF VisitsOK
    <3>5. waiting = <<>>
      <4> SUFFICES ASSUME waiting # <<>> PROVE FALSE
        OBVIOUS
      <4>1. PICK i \in Requests : i = Head(waiting) /\ i \in Elements(waiting)
        BY <2>1, HeadTailFacts DEF TypeOK
      <4>2. PICK hits \in Seq(Blocks) : hits = Hits(i)
        BY <2>1, HitsFacts
      <4>3. Len(free) = Capacity
        <5>1. \A j \in Requests : Elements(progress[j].blocks) = {}
          BY <2>1, <3>3 DEF QueuesOK, Elements
        <5>2. \A b \in Blocks : Holders(b) = {}
          BY <5>1 DEF Holders
        <5>3. free \in Seq(Blocks) /\ IsInjectiveSeq(free)
          BY <2>1 DEF TypeOK, PoolOK
        <5>4. Elements(free) = Blocks
          BY <2>1, <5>2, <5>3, FreeIsUnheld, ListFacts
        <5>5. Cardinality(Elements(free)) = Len(free)
          BY <5>3, InjectiveCardinality
        <5>6. Cardinality(Blocks) = Capacity
          BY Sizes, FS_Interval DEF Blocks
        <5> QED
          BY <5>4, <5>5, <5>6
      <4>4. Cardinality(Protected(hits)) \in Nat /\ Cardinality(Protected(hits)) <= Len(hits)
        <5>1. IsInjectiveSeq(hits)
          BY <2>1, <4>2, HitsFacts
        <5>2. IsFiniteSet(Elements(hits)) /\ Cardinality(Elements(hits)) = Len(hits)
          BY <5>1, InjectiveCardinality
        <5>3. Protected(hits) \in SUBSET Elements(hits)
          BY DEF Protected
        <5>4. IsFiniteSet(Protected(hits)) /\ Cardinality(Protected(hits)) <= Cardinality(Elements(hits))
          BY <5>2, <5>3, FS_Subset
        <5> QED
          BY <5>2, <5>4, FS_CardinalityType
      <4>5. Ceil(Target(i)) \in Nat /\ Ceil(Target(i)) <= Capacity
        <5>1. ~Completed(i) /\ Len(progress[i].outputs) <= Output[i]
          BY <2>1, <4>1 DEF QueuesOK, TablesOK
        <5>2. Len(progress[i].outputs) \in Nat /\ Target(i) \in Nat
          BY <2>1, ProgressFacts
        <5>3. Len(progress[i].outputs) < Output[i]
          BY <5>1, <5>2, Demands DEF Completed
        <5>4. Target(i) <= Input[i] + Len(progress[i].outputs)
          BY <5>2, Demands DEF Target
        <5> QED
          BY <5>2, <5>3, <5>4, FitsAlone
      <4>6. Ceil(Target(i)) - Len(hits) + Cardinality(Protected(hits)) <= Len(free)
        BY <4>3, <4>4, <4>5, Sizes
      <4>7. Len(running) < MaxSequences
        BY <3>3, Sizes
      <4> QED
        BY <2>3, <3>1, <3>4, <4>1, <4>2, <4>6, <4>7 DEF CanAdmit
    <3>6. Future # {}
      <4>1. PICK i \in Requests : ~Completed(i)
        BY <2>1, <3>1 DEF VisitsOK
      <4>2. i \notin released
        BY <2>1, <3>3, <3>5, <4>1 DEF QueuesOK, Elements
      <4> QED
        BY <4>2 DEF Future
    <3> QED
      BY <3>3, <3>4, <3>5, <3>6
  <2> QED
    BY <2>2, <2>3 DEF NeverStuck
<1> QED
  BY <1>1, InductiveInvariant, PTL

-----------------------------------------------------------------------------
(* The deadlines *)

\* Whether t is within n and its slack, as toy_oracle.py compares fractions.
WithinFraction(t, n, slack, epsilon) ==
  100 * t <= 100 * n + (IF n * slack > 100 * epsilon THEN n * slack ELSE 100 * epsilon)

LimitType == [completion : Int, duration : Int, gap : Int]

(* limits_for's comment: "Integer rounding DOWN makes the integer           *)
(* constraint equivalent to its rational 5% bound" -- for every slack, and  *)
(* every epsilon.                                                           *)
THEOREM RoundingDown ==
  ASSUME NEW t \in Int, NEW n \in Nat, NEW slack \in Nat, NEW epsilon \in Nat
  PROVE  t <= Allowed(n, slack, epsilon) <=> WithinFraction(t, n, slack, epsilon)
<1> DEFINE p == n * slack
           late == p \div 100
<1>1. p \in Nat
  OBVIOUS
<1>2. late \in Int /\ 100 * late <= p /\ p < 100 * late + 100
  BY <1>1
<1> HIDE DEF late
<1>3. late > epsilon => p > 100 * epsilon
  BY <1>1, <1>2
<1>4. t <= n + late <=> 100 * t <= 100 * n + p
  BY <1>1, <1>2
<1> HIDE DEF p
<1>5. Allowed(n, slack, epsilon) = n + (IF late > epsilon THEN late ELSE epsilon)
  BY DEF Allowed, late, p
<1>6. WithinFraction(t, n, slack, epsilon)
        <=> 100 * t <= 100 * n + (IF p > 100 * epsilon THEN p ELSE 100 * epsilon)
  BY DEF WithinFraction, p
<1>7. CASE late > epsilon
  BY <1>1, <1>2, <1>3, <1>4, <1>5, <1>6, <1>7
<1>8. CASE ~(late > epsilon) /\ p > 100 * epsilon
  <2>1. late = epsilon
    BY <1>1, <1>2, <1>8
  <2> QED BY <1>1, <1>2, <1>4, <1>5, <1>6, <1>8, <2>1
<1>9. CASE ~(late > epsilon) /\ ~(p > 100 * epsilon)
  BY <1>1, <1>2, <1>5, <1>6, <1>9
<1> QED BY <1>7, <1>8, <1>9

(* A request that breaks its deadlines breaks them ever after: whatever     *)
(* time passes, and whether it is given its next answer or not.  So a state *)
(* the search drops (visit() of toy_oracle.py, Infeasible of                *)
(* eviction_oracle.py) had no schedule in it that keeps the deadlines.      *)
THEOREM BrokenStaysBroken ==
  ASSUME NEW limit \in LimitType, NEW length \in Nat \ {0},
         NEW outputs \in Seq(Int), Len(outputs) <= length,
         NEW now \in Int, NEW later \in Int, now <= later,
         NEW more, more = outputs \/ (Len(outputs) < length /\ more = Append(outputs, later)),
         Breaks(limit, length, outputs, now)
  PROVE  Breaks(limit, length, more, later)
<1>1. CASE Len(outputs) = length
  BY <1>1 DEF Breaks
<1>2. CASE Len(outputs) < length
  <2> DEFINE completion == IF Len(more) = length THEN more[length] ELSE later
             seen == IF Len(more) = length THEN more ELSE Append(more, later)
  <2>1. more \in Seq(Int) /\ completion = later
    BY <1>2
  <2>2. /\ Len(seen) \in {Len(outputs) + 1, Len(outputs) + 2}
        /\ \A k \in 1..Len(outputs) : seen[k] = outputs[k]
        /\ seen[Len(outputs) + 1] = later
    BY <1>2, <2>1
  <2>3. outputs # <<>> => more # <<>> /\ more[1] = outputs[1] /\ outputs[1] \in Int
    BY <1>2
  <2>4. GapBroken(limit.gap, Append(outputs, now)) => GapBroken(limit.gap, seen)
    <3> HIDE DEF completion, seen
    <3> HAVE GapBroken(limit.gap, Append(outputs, now))
    <3>1. PICK k \in 1..Len(outputs) :
            Append(outputs, now)[k + 1] - Append(outputs, now)[k] > limit.gap
      BY DEF GapBroken
    <3>2. k \in 1..(Len(seen) - 1) /\ seen[k] = outputs[k] /\ outputs[k] \in Int
      BY <2>2
    <3>3. limit.gap \in Int
      BY DEF LimitType
    <3>4. seen[k + 1] - seen[k] > limit.gap
      <4>1. CASE k = Len(outputs)
        BY <2>2, <3>1, <3>2, <3>3, <4>1
      <4>2. CASE k # Len(outputs)
        BY <2>2, <3>1, <3>2, <3>3, <4>2
      <4> QED BY <4>1, <4>2
    <3> QED BY <3>2, <3>4 DEF GapBroken
  <2>5. \/ now > limit.completion
        \/ /\ length > 1 /\ outputs # <<>>
           /\ now - outputs[1] > limit.duration \/ GapBroken(limit.gap, Append(outputs, now))
    BY <1>2 DEF Breaks
  <2>6. limit.completion \in Int /\ limit.duration \in Int
    BY DEF LimitType
  <2> HIDE DEF completion, seen
  <2>7. \/ completion > limit.completion
        \/ /\ length > 1 /\ more # <<>>
           /\ completion - more[1] > limit.duration \/ GapBroken(limit.gap, seen)
    <3>1. CASE now > limit.completion
      BY <2>1, <2>6, <3>1
    <3>2. CASE length > 1 /\ outputs # <<>> /\ now - outputs[1] > limit.duration
      BY <2>1, <2>3, <2>6, <3>2
    <3>3. CASE length > 1 /\ outputs # <<>> /\ GapBroken(limit.gap, Append(outputs, now))
      BY <2>3, <2>4, <3>3
    <3> QED BY <2>5, <3>1, <3>2, <3>3
  <2> QED BY <2>7 DEF Breaks, completion, seen
<1> QED BY <1>1, <1>2

\* A request that is to be answered at the times outputs is within its limits
\* whenever it is looked at.
Kept(limit, outputs) ==
  \A n \in 0..Len(outputs), now \in Int :
    (n > 0 => outputs[n] <= now) /\ (n < Len(outputs) => now <= outputs[n + 1])
      => ~Breaks(limit, Len(outputs), SubSeq(outputs, 1, n), now)

(* A schedule keeps the deadlines that are derived from it, whatever the    *)
(* slack.                                                                   *)
THEOREM OwnScheduleKept ==
  ASSUME NEW arrival \in Int, NEW outputs \in Seq(Int), outputs # <<>>,
         \A k \in DOMAIN outputs : arrival <= outputs[k],
         \A j, k \in DOMAIN outputs : j <= k => outputs[j] <= outputs[k],
         NEW slack \in Nat, NEW epsilon \in Nat
  PROVE  Kept(LimitsOf(arrival, outputs, slack, epsilon), outputs)
<1> DEFINE l == Len(outputs)
           last == outputs[l]
           gaps == {0} \cup {outputs[k + 1] - outputs[k] : k \in 1..(l - 1)}
           limit == LimitsOf(arrival, outputs, slack, epsilon)
<1>1. /\ l \in Nat \ {0} /\ DOMAIN outputs = 1..l /\ \A k \in 1..l : outputs[k] \in Int
      /\ last \in Int /\ outputs[1] <= last /\ arrival <= last
      /\ \A k \in 1..l : outputs[1] <= outputs[k] /\ outputs[k] <= last
  <2>1. l \in Nat \ {0} /\ DOMAIN outputs = 1..l /\ \A k \in 1..l : outputs[k] \in Int
    OBVIOUS
  <2>2. 1 \in 1..l /\ l \in 1..l
    BY <2>1
  <2> QED
    BY <2>1, <2>2
<1> HIDE DEF l
<1>2. ASSUME NEW d \in Nat PROVE Allowed(d, slack, epsilon) \in Int /\ d <= Allowed(d, slack, epsilon)
  <2>1. d * slack \in Nat
    OBVIOUS
  <2>2. (d * slack) \div 100 \in Nat
    BY <2>1
  <2> QED
    BY <2>2 DEF Allowed
<1>3. \A k \in 1..(l - 1) : outputs[k + 1] - outputs[k] <= LongestGap(outputs) /\ LongestGap(outputs) \in Nat
  <2>1. gaps \in SUBSET (0..(last - outputs[1])) /\ gaps # {} /\ last - outputs[1] \in Nat
    <3>1. ASSUME NEW k \in 1..(l - 1)
          PROVE  outputs[k + 1] - outputs[k] \in 0..(last - outputs[1])
      <4>1. k \in 1..l /\ k + 1 \in 1..l /\ k <= k + 1 /\ 1 \in 1..l
        BY <1>1
      <4>2. /\ outputs[k] \in Int /\ outputs[k + 1] \in Int /\ outputs[1] \in Int
            /\ outputs[k] <= outputs[k + 1] /\ outputs[1] <= outputs[k] /\ outputs[k + 1] <= last
        BY <1>1, <4>1
      <4> QED
        BY <1>1, <4>2
    <3>2. 1 \in 1..l
      BY <1>1
    <3>3. last - outputs[1] \in Nat
      BY <1>1, <3>2
    <3> HIDE DEF last
    <3> QED
      BY <3>1, <3>3
  <2>2. LongestGap(outputs) = Max(gaps)
    BY DEF LongestGap, l
  <2> HIDE DEF gaps, last
  <2>3. Max(gaps) \in gaps /\ \A x \in gaps : Max(gaps) >= x
    BY <2>1, MaxFacts
  <2>4. LongestGap(outputs) \in Nat /\ gaps \subseteq Nat
    <3> DEFINE bound == last - outputs[1]
    <3> HIDE DEF bound
    <3>1. bound \in Nat /\ gaps \subseteq 0..bound /\ LongestGap(outputs) \in gaps
      BY <2>1, <2>2, <2>3 DEF bound
    <3>2. 0..bound \subseteq Nat
      BY <3>1
    <3>3. LongestGap(outputs) \in 0..bound
      BY <3>1
    <3> QED
      BY <3>1, <3>2, <3>3
  <2>5. ASSUME NEW k \in 1..(l - 1) PROVE outputs[k + 1] - outputs[k] \in gaps
    BY DEF gaps
  <2>6. ASSUME NEW k \in 1..(l - 1) PROVE outputs[k + 1] - outputs[k] <= LongestGap(outputs)
    BY <2>2, <2>3, <2>4, <2>5
  <2> QED
    BY <2>4, <2>6
<1>4. /\ limit.completion = arrival + Allowed(last - arrival, slack, epsilon)
      /\ limit.duration = Allowed(last - outputs[1], slack, epsilon)
      /\ limit.gap = Allowed(LongestGap(outputs), slack, epsilon)
  BY DEF LimitsOf, l
<1>5. /\ limit.completion \in Int /\ last <= limit.completion
      /\ limit.duration \in Int /\ last - outputs[1] <= limit.duration
      /\ \A k \in 1..(l - 1) : limit.gap \in Int /\ outputs[k + 1] - outputs[k] <= limit.gap
  <2>1. 1 \in 1..l /\ last - arrival \in Nat /\ last - outputs[1] \in Nat
    BY <1>1
  <2>2. /\ limit.completion \in Int /\ last <= limit.completion
        /\ limit.duration \in Int /\ last - outputs[1] <= limit.duration
    <3>1. /\ Allowed(last - arrival, slack, epsilon) \in Int
          /\ last - arrival <= Allowed(last - arrival, slack, epsilon)
      BY <1>2, <2>1
    <3>2. /\ Allowed(last - outputs[1], slack, epsilon) \in Int
          /\ last - outputs[1] <= Allowed(last - outputs[1], slack, epsilon)
      BY <1>2, <2>1
    <3> HIDE DEF limit, last
    <3> QED
      BY <1>1, <1>4, <3>1, <3>2
  <2>3. ASSUME NEW k \in 1..(l - 1)
        PROVE  limit.gap \in Int /\ outputs[k + 1] - outputs[k] <= limit.gap
    <3>1. outputs[k + 1] - outputs[k] <= LongestGap(outputs) /\ LongestGap(outputs) \in Nat
      BY <1>3
    <3>2. limit.gap \in Int /\ LongestGap(outputs) <= limit.gap
      <4> HIDE DEF limit
      <4> QED
        BY <1>2, <1>4, <3>1
    <3>3. k \in 1..l /\ k + 1 \in 1..l
      BY <1>1
    <3>4. outputs[k + 1] \in Int /\ outputs[k] \in Int
      BY <1>1, <3>3
    <3> HIDE DEF limit
    <3> QED
      BY <3>1, <3>2, <3>4
  <2> QED
    BY <2>2, <2>3
<1> HIDE DEF limit, last
<1>6. SUFFICES ASSUME NEW n \in 0..l, NEW now \in Int,
                      n > 0 => outputs[n] <= now, n < l => now <= outputs[n + 1],
                      Breaks(limit, l, SubSeq(outputs, 1, n), now)
               PROVE  FALSE
  BY DEF Kept, limit, l
<1> DEFINE made == SubSeq(outputs, 1, n)
<1>7. /\ made \in Seq(Int) /\ Len(made) = n /\ \A k \in 1..n : made[k] = outputs[k]
  BY <1>1 DEF l
<1>8. CASE n = l
  <2>1. made[l] = last /\ made[1] = outputs[1]
    BY <1>1, <1>7, <1>8 DEF last
  <2>2. ~GapBroken(limit.gap, made)
    <3> SUFFICES ASSUME NEW k \in 1..(l - 1) PROVE ~(made[k + 1] - made[k] > limit.gap)
      BY <1>7, <1>8 DEF GapBroken
    <3>1. k \in 1..l /\ k + 1 \in 1..l
      BY <1>1
    <3>2. made[k] = outputs[k] /\ made[k + 1] = outputs[k + 1] /\ outputs[k] \in Int /\ outputs[k + 1] \in Int
      BY <1>1, <1>7, <1>8, <3>1
    <3>3. outputs[k + 1] - outputs[k] <= limit.gap /\ limit.gap \in Int
      BY <1>5
    <3> HIDE DEF made
    <3> QED
      BY <3>2, <3>3
  <2> HIDE DEF made
  <2>3. last > limit.completion \/ last - outputs[1] > limit.duration
    BY <1>6, <1>7, <1>8, <2>1, <2>2 DEF Breaks, made
  <2>4. 1 \in 1..l /\ outputs[1] \in Int
    BY <1>1
  <2> QED
    BY <1>1, <1>5, <2>3, <2>4
<1>9. CASE n < l
  <2>1. n + 1 \in 1..l /\ 1 \in 1..l
    BY <1>1, <1>9
  <2>2. now <= outputs[n + 1] /\ now <= last /\ outputs[n + 1] \in Int
    BY <1>1, <1>6, <1>9, <2>1
  <2>3. n > 0 => made[1] = outputs[1] /\ outputs[1] \in Int
    BY <1>1, <1>7, <2>1
  <2>4. ~GapBroken(limit.gap, Append(made, now))
    <3> DEFINE seen == Append(made, now)
    <3>1. /\ Len(seen) = n + 1 /\ seen[n + 1] = now
          /\ \A k \in 1..n : seen[k] = outputs[k]
      BY <1>7
    <3> HIDE DEF seen, made
    <3> SUFFICES ASSUME NEW k \in 1..n PROVE ~(seen[k + 1] - seen[k] > limit.gap)
      BY <3>1 DEF GapBroken, seen
    <3>2. k \in 1..(l - 1) /\ k \in 1..l /\ k + 1 \in 1..l
      BY <1>1, <1>9
    <3>3. outputs[k + 1] - outputs[k] <= limit.gap /\ limit.gap \in Int
            /\ outputs[k] \in Int /\ outputs[k + 1] \in Int
      BY <1>1, <1>5, <3>2
    <3>4. seen[k + 1] \in Int /\ seen[k + 1] <= outputs[k + 1]
      <4>1. CASE k = n
        BY <2>2, <3>1, <4>1
      <4>2. CASE k # n
        <5>1. k + 1 \in 1..n
          BY <4>2
        <5> QED
          BY <3>1, <3>3, <5>1
      <4> QED
        BY <4>1, <4>2
    <3> QED
      BY <3>1, <3>3, <3>4
  <2> HIDE DEF made
  <2>5. now > limit.completion \/ (n > 0 /\ now - outputs[1] > limit.duration)
    <3>1. Len(made) # l /\ (made # <<>> => n > 0)
      BY <1>7, <1>9
    <3> QED
      BY <1>6, <2>3, <2>4, <3>1 DEF Breaks, made
  <2> QED
    BY <1>1, <1>5, <2>1, <2>2, <2>3, <2>5
<1> QED
  BY <1>1, <1>8, <1>9

\* A request is answered after it arrives, one answer after another; and it is
\* released when its time has come, not before.
Times ==
  /\ \A i \in released : Arrival[i] <= time
  /\ phase = "running" => \A i \in Requests \ released : time < Arrival[i]
  /\ phase = "done" => \A i \in Requests : Completed(i)
  /\ \A i \in Requests : \A k \in DOMAIN progress[i].outputs :
       Arrival[i] <= progress[i].outputs[k] /\ progress[i].outputs[k] <= time
  /\ \A i \in Requests : \A j, k \in DOMAIN progress[i].outputs :
       j <= k => progress[i].outputs[j] <= progress[i].outputs[k]

LEMMA TimesKept ==
  ASSUME Times, UNCHANGED <<released, time>>,
         \A i \in Requests : progress'[i].outputs = progress[i].outputs,
         phase' = "running" => phase = "running",
         phase' = "done" => phase = "done" \/ \A i \in Requests : Completed(i)
  PROVE  Times'
<1>1. \A i \in released' : Arrival[i] <= time'
  BY DEF Times
<1>2. phase' = "running" => \A i \in Requests \ released' : time' < Arrival[i]
  BY DEF Times
<1>3. phase' = "done" => \A i \in Requests : Completed(i)'
  BY DEF Times, Completed
<1>4. \A i \in Requests : \A k \in DOMAIN progress'[i].outputs :
        Arrival[i] <= progress'[i].outputs[k] /\ progress'[i].outputs[k] <= time'
  BY DEF Times
<1>5. \A i \in Requests : \A j, k \in DOMAIN progress'[i].outputs :
        j <= k => progress'[i].outputs[j] <= progress'[i].outputs[k]
  BY DEF Times
<1> QED
  BY <1>1, <1>2, <1>3, <1>4, <1>5 DEF Times

LEMMA TimesFresh == Fresh => Times
<1> SUFFICES ASSUME Fresh PROVE Times
  OBVIOUS
<1>1. \A i \in Requests : progress[i].outputs = <<>>
  BY DEF Fresh, FreshProgress
<1> QED
  BY <1>1 DEF Fresh, Times

LEMMA TimesStep == Inductive /\ Times /\ [Next]_vars => Times'
<1> SUFFICES ASSUME Inductive, Times, [Next]_vars PROVE Times'
  OBVIOUS
<1>1. TypeOK /\ QueuesOK /\ VisitsOK
  BY DEF Inductive
<1>2. /\ progress \in [Requests -> ProgressType] /\ time \in Nat /\ released \in SUBSET Requests
      /\ \A i \in Requests : progress[i].outputs \in Seq(Nat) /\ Arrival[i] \in Nat
      /\ \A i \in Requests : \A k \in DOMAIN progress[i].outputs : progress[i].outputs[k] \in Nat
  <2>1. progress \in [Requests -> ProgressType] /\ time \in Nat /\ released \in SUBSET Requests
    BY <1>1 DEF TypeOK
  <2>2. \A i \in Requests : progress[i].outputs \in Seq(Nat) /\ Arrival[i] \in Nat
    BY <1>1, ProgressFacts, Demands
  <2>3. \A i \in Requests : \A k \in DOMAIN progress[i].outputs : progress[i].outputs[k] \in Nat
    BY <2>2, ListFacts
  <2> QED
    BY <2>1, <2>2, <2>3
<1>3. CASE Start
  <2>1. /\ UNCHANGED <<progress, time>> /\ phase' = "running"
        /\ released' = released \cup {i \in Requests \ released : Arrival[i] <= time}
    BY <1>3 DEF Start
  <2>2. \A i \in released' : Arrival[i] <= time
    BY <2>1 DEF Times
  <2>3. \A i \in Requests \ released' : time < Arrival[i]
    BY <1>2, <2>1
  <2> QED
    BY <2>1, <2>2, <2>3 DEF Times
<1>4. CASE Preempt
  <2> DEFINE v == running[Len(running)]
  <2>1. /\ progress' = [progress EXCEPT ![v].computed = 0, ![v].blocks = <<>>]
        /\ UNCHANGED <<released, time, phase>>
    BY <1>4 DEF Preempt
  <2> HIDE DEF v
  <2>2. \A i \in Requests : progress'[i].outputs = progress[i].outputs
    BY <1>2, <2>1 DEF ProgressType
  <2> QED
    BY <2>1, <2>2, TimesKept
<1>5. CASE Run
  <2>1. UNCHANGED <<released, time, phase>>
    BY <1>5 DEF Run, queues
  <2>2. PICK taken : progress' = [progress EXCEPT ![Head(todo)].blocks = @ \o taken]
    BY <1>5 DEF Run
  <2>3. \A i \in Requests : progress'[i].outputs = progress[i].outputs
    BY <1>2, <2>2 DEF ProgressType
  <2> QED
    BY <2>1, <2>3, TimesKept
<1>6. CASE Admit
  <2>1. UNCHANGED <<released, time, phase>>
    BY <1>6 DEF Admit
  <2>2. PICK ids, c : progress' = [progress EXCEPT ![Head(waiting)].blocks = ids,
                                                   ![Head(waiting)].computed = c]
    BY <1>6 DEF Admit
  <2>3. \A i \in Requests : progress'[i].outputs = progress[i].outputs
    BY <1>2, <2>2 DEF ProgressType
  <2> QED
    BY <2>1, <2>3, TimesKept
<1>7. CASE Execute
  <2>1. /\ time' = time + Duration /\ phase' = "leaving" /\ released' = released
        /\ Duration \in Nat
    BY <1>1, <1>7, DurationFacts DEF Execute, queues, TypeOK
  <2>2. time' \in Nat /\ time <= time'
    BY <1>2, <2>1
  <2>3. \A i \in released' : Arrival[i] <= time'
    BY <1>2, <2>1, <2>2 DEF Times
  <2>4. ASSUME NEW i \in Requests
        PROVE  /\ \A k \in DOMAIN progress'[i].outputs :
                    Arrival[i] <= progress'[i].outputs[k] /\ progress'[i].outputs[k] <= time'
               /\ \A j, k \in DOMAIN progress'[i].outputs :
                    j <= k => progress'[i].outputs[j] <= progress'[i].outputs[k]
    <3> DEFINE old == progress[i].outputs
               new == progress'[i].outputs
    <3>1. /\ old \in Seq(Nat)
          /\ \A k \in DOMAIN old : old[k] \in Nat /\ Arrival[i] <= old[k] /\ old[k] <= time
          /\ \A j, k \in DOMAIN old : j <= k => old[j] <= old[k]
      BY <1>2 DEF Times
    <3>2. new = IF Answers(i) THEN Append(old, time') ELSE old
      <4>1. progress'[i] = [progress[i] EXCEPT !.computed = Computed(i),
                              !.outputs = IF Answers(i) THEN Append(@, time') ELSE @]
        BY <1>7 DEF Execute
      <4>2. progress[i] \in ProgressType
        BY <1>2
      <4> QED
        BY <4>1, <4>2 DEF ProgressType
    <3> HIDE DEF old, new
    <3>3. CASE ~Answers(i)
      <4>1. \A k \in DOMAIN old : Arrival[i] <= old[k] /\ old[k] <= time'
        BY <1>2, <2>2, <3>1
      <4> QED
        BY <3>1, <3>2, <3>3, <4>1 DEF new
    <3>4. CASE Answers(i)
      <4>1. /\ DOMAIN new = DOMAIN old \cup {Len(old) + 1} /\ DOMAIN old = 1..Len(old) /\ Len(old) \in Nat
            /\ \A k \in DOMAIN old : new[k] = old[k]
            /\ new[Len(old) + 1] = time'
        BY <2>2, <3>1, <3>2, <3>4, AppendFacts, ListFacts
      <4>2. Arrival[i] <= time'
        <5>1. i \in released
          <6>1. Served(i) > 0 /\ phase = "running"
            BY <1>7, <3>4 DEF Answers, Execute, Visited
          <6>2. i \in Elements(running)
            BY <6>1, VisitFacts
          <6> QED
            BY <1>1, <6>2 DEF QueuesOK
        <5> QED
          BY <2>1, <2>3, <5>1
      <4>3. \A k \in DOMAIN new : Arrival[i] <= new[k] /\ new[k] <= time' /\ new[k] \in Nat
        BY <1>2, <2>2, <3>1, <4>1, <4>2
      <4>4. ASSUME NEW j \in DOMAIN new, NEW k \in DOMAIN new, j <= k
            PROVE  new[j] <= new[k]
        <5>1. CASE k \in DOMAIN old
          <6>1. j \in DOMAIN old
            BY <4>1, <4>4, <5>1
          <6> QED
            BY <3>1, <4>1, <4>4, <5>1, <6>1
        <5>2. CASE k \notin DOMAIN old
          BY <4>1, <4>3, <5>2
        <5> QED
          BY <5>1, <5>2
      <4> QED
        BY <4>3, <4>4 DEF new
    <3> QED
      BY <3>3, <3>4
  <2> QED
    BY <2>1, <2>3, <2>4 DEF Times
<1>8. CASE Leave
  <2>1. /\ UNCHANGED <<released, time, phase>>
        /\ progress' = [progress EXCEPT ![Head(todo)].blocks = <<>>]
    BY <1>8 DEF Leave
  <2>2. \A i \in Requests : progress'[i].outputs = progress[i].outputs
    BY <1>2, <2>1 DEF ProgressType
  <2> QED
    BY <2>1, <2>2, TimesKept
<1>9. CASE Finish
  <2>1. /\ UNCHANGED <<released, time, progress>>
        /\ phase' \in {"infeasible", "done", "start"}
        /\ phase' = "done" => \A i \in Requests : Completed(i)
    BY <1>9 DEF Finish, queues
  <2> QED
    BY <2>1, TimesKept
<1>10. CASE Idle
  <2>1. /\ UNCHANGED <<released, progress>> /\ phase = "running" /\ phase' = "start"
        /\ time' = Min(Future) /\ Future # {}
    BY <1>10 DEF Idle, Visited, queues
  <2>2. time' \in Nat /\ time <= time'
    <3>1. Future \in SUBSET Nat /\ \A x \in Future : time < x
      BY <1>2, <2>1 DEF Future, Times
    <3>2. Min(Future) \in Future
      BY <2>1, <3>1, MinFacts
    <3> QED
      BY <1>2, <2>1, <3>1, <3>2
  <2>3. \A i \in released' : Arrival[i] <= time'
    BY <1>2, <2>1, <2>2 DEF Times
  <2>4. \A i \in Requests : \A k \in DOMAIN progress'[i].outputs :
          Arrival[i] <= progress'[i].outputs[k] /\ progress'[i].outputs[k] <= time'
    BY <1>2, <2>1, <2>2 DEF Times
  <2> QED
    BY <2>1, <2>3, <2>4 DEF Times
<1>11. CASE Search
  <2>1. Fresh' => Times'
    BY TimesFresh, PTL
  <2> QED
    BY <1>11, <2>1, SearchFresh
<1>12. CASE UNCHANGED vars
  BY <1>12, TimesKept DEF vars, queues
<1> QED
  BY <1>3, <1>4, <1>5, <1>6, <1>7, <1>8, <1>9, <1>10, <1>11, <1>12 DEF Next

(* What solve() starts its search with is feasible: the deadlines it        *)
(* derives from the baseline are such that the baseline itself is within    *)
(* them, whenever replay() looks.                                           *)
THEOREM BaselineIsWithin ==
  Spec => [][Search => \A i \in Requests : Kept(limits'[i], progress[i].outputs)]_vars
<1>1. Init => Inductive /\ Times
  BY InitFresh, FreshInductive, TimesFresh
<1>2. Inductive /\ Times /\ Search
        => \A i \in Requests : Kept(limits'[i], progress[i].outputs)
  <2> SUFFICES ASSUME Inductive, Times, Search, NEW i \in Requests
               PROVE  Kept(limits'[i], progress[i].outputs)
    OBVIOUS
  <2> DEFINE outputs == progress[i].outputs
  <2>1. limits'[i] = LimitsOf(Arrival[i], outputs, SlackPercent, Epsilon)
    BY DEF Search
  <2>2. outputs \in Seq(Nat) /\ outputs \in Seq(Int)
    <3>1. outputs \in Seq(Nat)
      BY ProgressFacts DEF Inductive
    <3> QED
      BY <3>1
  <2>3. outputs # <<>>
    <3>1. Completed(i)
      BY DEF Search, Times
    <3>2. Len(outputs) = Output[i] /\ Output[i] # 0
      BY <3>1, Demands DEF Completed
    <3> QED
      BY <3>2
  <2>4. /\ \A k \in DOMAIN outputs : Arrival[i] <= outputs[k]
        /\ \A j, k \in DOMAIN outputs : j <= k => outputs[j] <= outputs[k]
    BY DEF Times
  <2>5. Arrival[i] \in Int /\ SlackPercent \in Nat /\ Epsilon \in Nat
    BY Demands, ValidAssumption
  <2> HIDE DEF outputs
  <2>6. Kept(LimitsOf(Arrival[i], outputs, SlackPercent, Epsilon), outputs)
    BY <2>2, <2>3, <2>4, <2>5, OwnScheduleKept
  <2> QED
    BY <2>1, <2>6 DEF outputs
<1>3. Inductive /\ [Next]_vars => Inductive'
  <2> SUFFICES ASSUME Inductive, [Next]_vars PROVE Inductive'
    OBVIOUS
  <2> QED
    BY StartStep, PreemptStep, RunStep, AdmitStep, ExecuteStep, LeaveStep, FinishStep,
       IdleStep, SearchStep, StutterStep DEF Next
<1> QED
  BY <1>1, <1>2, <1>3, TimesStep, PTL DEF Spec
=============================================================================
