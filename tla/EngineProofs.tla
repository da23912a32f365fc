---------------------------- MODULE EngineProofs ----------------------------
(***************************************************************************)
(* Proofs about Engine, for every trace, pool size, budget and batch limit. *)
(*                                                                         *)
(* The argument.  Inductive (module Engine) is an invariant: the pool's     *)
(* accounting needs that only running requests own blocks and that a cached *)
(* block is under one key; that needs that the tables cover exactly what is *)
(* computed or planned; and that needs that a preempted request is never in *)
(* the plan, which holds because the plan is a prefix of the running list   *)
(* while victims come from its end.                                         *)
(***************************************************************************)
EXTENDS Engine, SublistProofs, FiniteSetTheorems, TLAPS

-----------------------------------------------------------------------------
(* Arithmetic of blocks *)

USE SizesAssumption, RequestsAssumption

(* Rounding up to blocks: monotonic, exact on whole blocks, at least the    *)
(* number of full blocks.                                                   *)
LEMMA CeilFacts ==
  ASSUME NEW m \in Nat, NEW n \in Nat, m <= n
  PROVE  /\ CeilBlocks(m) \in Nat
         /\ CeilBlocks(m) <= CeilBlocks(n)
         /\ m \div Block \in Nat
         /\ m \div Block <= CeilBlocks(m)
         /\ CeilBlocks(m * Block) = m
<1>1. Block \in Nat \ {0} /\ m + Block - 1 \in Nat /\ n + Block - 1 \in Nat
        /\ m <= m + Block - 1 /\ m + Block - 1 <= n + Block - 1
  OBVIOUS
<1>2. (m + Block - 1) \div Block \in Nat /\ m \div Block \in Nat
  BY <1>1, DivBounds
<1>3. (m + Block - 1) \div Block <= (n + Block - 1) \div Block
        /\ m \div Block <= (m + Block - 1) \div Block
  BY <1>1, DivMonotonic
<1>4. (m * Block + Block - 1) \div Block = m
  BY <1>1, DivExact
<1> QED
  BY <1>2, <1>3, <1>4 DEF CeilBlocks

-----------------------------------------------------------------------------
(* Keys and hits *)

LEMMA KeyType ==
  ASSUME NEW r \in Requests, NEW i \in 0..(InputLen[r] + OutputLen[r])
  PROVE  Key(r, i) \in Keys
  BY DEF Keys, KeysOf

(* hit_blocks returns the length of the longest cached prefix. *)
LEMMA HitBlocksFacts ==
  ASSUME NEW r \in Requests, NEW n \in Nat
  PROVE  /\ HitBlocks(r, n) \in 0..n
         /\ \A i \in 0..(HitBlocks(r, n) - 1) : Key(r, i) \in DOMAIN cached
         /\ HitBlocks(r, n) = n \/ Key(r, HitBlocks(r, n)) \notin DOMAIN cached
<1> DEFINE P(h) == /\ \A i \in 0..(h - 1) : Key(r, i) \in DOMAIN cached
                   /\ h = n \/ Key(r, h) \notin DOMAIN cached
           U == {h \in Nat : h \in 0..n /\ (h = n \/ Key(r, h) \notin DOMAIN cached)}
<1>1. U \in SUBSET Nat /\ n \in U
  OBVIOUS
<1>2. PICK h \in U : \A g \in U : h <= g
  BY <1>1, LeastNat
<1>3. ASSUME NEW i \in 0..(h - 1) PROVE Key(r, i) \in DOMAIN cached
  <2>1. i \in Nat /\ i \in 0..n /\ ~(h <= i)
    BY <1>2
  <2>2. i \notin U
    BY <1>2, <2>1
  <2> QED
    BY <2>1, <2>2
<1>4. h \in 0..n /\ P(h)
  BY <1>2, <1>3
<1> HIDE DEF P
<1>5. HitBlocks(r, n) = CHOOSE g \in 0..n : P(g)
  BY DEF HitBlocks, P
<1>6. HitBlocks(r, n) \in 0..n /\ P(HitBlocks(r, n))
  BY <1>4, <1>5
<1> QED
  BY <1>6 DEF P

(* The blocks a request is admitted with: distinct, cached, and short of    *)
(* its last token.                                                          *)
LEMMA HitFacts ==
  ASSUME TypeOK, CacheBijection, NEW r \in Requests, generated[r] < OutputLen[r]
  PROVE  /\ Hit(r) \in Nat
         /\ Hit(r) * Block < Length(r)
         /\ Length(r) \in Nat
         /\ HitTable(r) \in Seq(Blocks)
         /\ Len(HitTable(r)) = Hit(r)
         /\ IsInjectiveSeq(HitTable(r))
         /\ \A i \in 1..Hit(r) : /\ Key(r, i - 1) \in DOMAIN cached
                                 /\ HitTable(r)[i] = cached[Key(r, i - 1)]
                                 /\ blockKey[HitTable(r)[i]] = Key(r, i - 1)
<1> DEFINE L == Length(r)
           n == L \div Block
           h == HitBlocks(r, n)
<1>1. L \in Nat /\ L >= 1 /\ L <= InputLen[r] + OutputLen[r]
  BY DEF TypeOK, Length
<1> HIDE DEF L
<1>2. /\ n \in Nat /\ n * Block <= L
      /\ (L - 1) \div Block \in Nat /\ ((L - 1) \div Block) * Block <= L - 1
  <2>1. L - 1 \in Nat /\ Block \in Nat \ {0}
    BY <1>1
  <2> QED
    BY <1>1, <2>1, DivBounds
<1> HIDE DEF n
<1>3. h \in 0..n /\ \A i \in 0..(h - 1) : Key(r, i) \in DOMAIN cached
  BY <1>2, HitBlocksFacts
<1>4. Hit(r) \in Nat /\ Hit(r) <= h /\ Hit(r) <= (L - 1) \div Block
  <2>1. Hit(r) = LeastOf(h, (L - 1) \div Block)
    BY DEF Hit, L, n
  <2> HIDE DEF h
  <2> QED
    BY <1>2, <1>3, <2>1 DEF LeastOf
<1> HIDE DEF h
<1>5. Hit(r) * Block < L
  <2>1. Hit(r) * Block <= ((L - 1) \div Block) * Block
    BY <1>2, <1>4, TimesMonotonic
  <2>2. Hit(r) * Block \in Nat /\ ((L - 1) \div Block) * Block \in Nat
    BY <1>2, <1>4, DivExact
  <2> QED
    BY <1>1, <1>2, <2>1, <2>2
<1>6. n <= L
  BY <1>1, <1>2, FactorBelow
<1>7. \A i \in 1..Hit(r) : /\ i - 1 \in 0..(h - 1)
                           /\ i - 1 \in 0..(InputLen[r] + OutputLen[r])
  <2>1. InputLen[r] + OutputLen[r] \in Nat
    OBVIOUS
  <2> QED
    BY <1>1, <1>2, <1>3, <1>4, <1>6, <2>1
<1>8. \A i \in 1..Hit(r) : /\ Key(r, i - 1) \in DOMAIN cached
                           /\ Key(r, i - 1) \in Keys
  BY <1>3, <1>7, KeyType
<1>9. \A i \in 1..Hit(r) : cached[Key(r, i - 1)] \in Blocks
  BY <1>8 DEF TypeOK
<1>10. HitTable(r) = [i \in 1..Hit(r) |-> cached[Key(r, i - 1)]]
  BY DEF HitTable
<1>11. /\ HitTable(r) \in Seq(Blocks) /\ Len(HitTable(r)) = Hit(r)
       /\ DOMAIN HitTable(r) = 1..Hit(r)
  BY <1>4, <1>9, <1>10
<1>12. \A i \in 1..Hit(r) : /\ HitTable(r)[i] = cached[Key(r, i - 1)]
                            /\ blockKey[HitTable(r)[i]] = Key(r, i - 1)
  BY <1>8, <1>9, <1>10 DEF CacheBijection
<1>13. IsInjectiveSeq(HitTable(r))
  <2> SUFFICES ASSUME NEW i \in 1..Hit(r), NEW j \in 1..Hit(r), HitTable(r)[i] = HitTable(r)[j]
               PROVE  i = j
    BY <1>11 DEF IsInjectiveSeq
  <2>1. Key(r, i - 1) = Key(r, j - 1)
    BY <1>12
  <2>2. i - 1 = j - 1
    BY <1>7, <2>1, KeysAssumption
  <2> QED
    BY <2>2, <1>4
<1> QED
  BY <1>1, <1>4, <1>5, <1>8, <1>11, <1>12, <1>13 DEF L

-----------------------------------------------------------------------------
(* The block pool *)

LEMMA HoldersFinite ==
  ASSUME NEW b
  PROVE  IsFiniteSet(Holders(b)) /\ Cardinality(Holders(b)) \in Nat
<1>1. Holders(b) \in SUBSET Requests
  BY DEF Holders
<1> QED
  BY <1>1, FS_Subset, FS_CardinalityType

(* Taking n free blocks removes them from the free queue and, for those     *)
(* that cached something, from both maps of the cache.                      *)
LEMMA TakeFreeFacts ==
  ASSUME TypeOK, CacheBijection,
         NEW from \in Seq(Blocks), IsInjectiveSeq(from), NEW n \in 0..Len(from),
         TakeFree(from, n)
  PROVE  /\ free' \in Seq(Blocks) /\ IsInjectiveSeq(free')
         /\ Elements(free') = Elements(from) \ {from[i] : i \in 1..n}
         /\ blockKey' \in [Blocks -> Keys \cup {NoKey}]
         /\ DOMAIN cached' \subseteq Keys /\ \A k \in DOMAIN cached' : cached'[k] \in Blocks
         /\ CacheBijection'
<1> DEFINE taken == {from[i] : i \in 1..n}
           gone == {blockKey[b] : b \in taken}
<1>1. /\ free' = SubSeq(from, n + 1, Len(from))
      /\ blockKey' = [b \in Blocks |-> IF b \in taken THEN NoKey ELSE blockKey[b]]
      /\ cached' = [k \in {x \in DOMAIN cached : x \notin gone} |-> cached[k]]
  BY DEF TakeFree
<1>2. /\ free' \in Seq(Blocks) /\ IsInjectiveSeq(free')
      /\ Elements(free') = Elements(from) \ taken
  <2> DEFINE back == SubSeq(from, n + 1, Len(from))
  <2>1. back \in Seq(Blocks) /\ IsInjectiveSeq(back) /\ Elements(back) = Elements(from) \ taken
    BY SplitFacts
  <2>2. free' = back
    BY <1>1
  <2> HIDE DEF back, taken
  <2> QED
    BY <2>1, <2>2
<1>3. taken \subseteq Blocks
  OBVIOUS
<1>4. blockKey \in [Blocks -> Keys \cup {NoKey}]
  BY DEF TypeOK
<1>5. \A k \in DOMAIN cached : k \in Keys /\ cached[k] \in Blocks
  BY DEF TypeOK
<1> HIDE DEF taken
<1>6. blockKey' \in [Blocks -> Keys \cup {NoKey}]
  BY <1>1, <1>4
<1>7. /\ DOMAIN cached' = {x \in DOMAIN cached : x \notin gone}
      /\ \A k \in DOMAIN cached' : cached'[k] = cached[k]
  BY <1>1
<1>8. ASSUME NEW b \in Blocks, NEW k \in Keys
      PROVE  blockKey'[b] = k <=> (k \in DOMAIN cached' /\ cached'[k] = b)
  <2>1. blockKey[b] = k <=> (k \in DOMAIN cached /\ cached[k] = b)
    BY DEF CacheBijection
  <2>2. CASE b \in taken
    <3>1. blockKey'[b] # k
      BY <1>1, <2>2, KeysAssumption
    <3>2. ~(k \in DOMAIN cached' /\ cached'[k] = b)
      BY <1>7, <2>1, <2>2
    <3> QED
      BY <3>1, <3>2
  <2>3. CASE b \notin taken
    <3>1. blockKey'[b] = blockKey[b]
      BY <1>1, <2>3
    <3>2. ASSUME k \in DOMAIN cached, cached[k] = b PROVE k \notin gone
      <4>1. ASSUME NEW t \in taken, blockKey[t] = k PROVE FALSE
        <5>1. cached[k] = t
          BY <1>3, <4>1 DEF CacheBijection
        <5> QED
          BY <2>3, <3>2, <5>1
      <4> QED
        BY <4>1
    <3> QED
      BY <1>7, <2>1, <3>1, <3>2
  <2> QED
    BY <2>2, <2>3
<1>9. CacheBijection'
  BY <1>8 DEF CacheBijection
<1>10. DOMAIN cached' \subseteq Keys /\ \A k \in DOMAIN cached' : cached'[k] \in Blocks
  BY <1>5, <1>7
<1> QED
  BY <1>2, <1>6, <1>9, <1>10 DEF taken

(* A release gives back exactly the blocks nobody else holds. *)
LEMMA ReleaseFacts ==
  ASSUME TypeOK, PoolAccounting, NEW r \in Requests,
         ReleasedPool(r), table' = [table EXCEPT ![r] = <<>>]
  PROVE  /\ free' \in Seq(Blocks)
         /\ ref' \in [Blocks -> Nat]
         /\ table' \in [Requests -> Seq(Blocks)]
         /\ PoolAccounting'
<1> DEFINE mine == Elements(table[r])
           last == {b \in mine : ref[b] = 1}
           back == Sublist(Backwards(table[r]), last)
<1>1. /\ table[r] \in Seq(Blocks) /\ free \in Seq(Blocks) /\ ref \in [Blocks -> Nat]
      /\ table \in [Requests -> Seq(Blocks)]
      /\ IsInjectiveSeq(table[r]) /\ IsInjectiveSeq(free)
      /\ Elements(free) = {b \in Blocks : ref[b] = 0}
      /\ \A b \in Blocks : ref[b] = Cardinality(Holders(b))
      /\ \A q \in Requests : IsInjectiveSeq(table[q])
  BY DEF TypeOK, PoolAccounting
<1>2. /\ free' = free \o back
      /\ ref' = [b \in Blocks |-> IF b \in mine THEN ref[b] - 1 ELSE ref[b]]
  BY DEF ReleasedPool
<1>3. mine \subseteq Blocks
  BY <1>1 DEF Elements
<1>4. /\ Backwards(table[r]) \in Seq(Blocks) /\ Elements(Backwards(table[r])) = mine
      /\ IsInjectiveSeq(Backwards(table[r]))
  BY <1>1, BackwardsFacts
<1> HIDE DEF mine
<1>5. /\ back \in Seq(Blocks) /\ Elements(back) = last /\ IsInjectiveSeq(back)
  <2>1. last \subseteq mine
    OBVIOUS
  <2> DEFINE rev == Backwards(table[r])
  <2> HIDE DEF last, rev
  <2>2. rev \in Seq(Blocks) /\ Elements(rev) = mine /\ IsInjectiveSeq(rev)
    BY <1>4 DEF rev
  <2>3. Sublist(rev, last) \in Seq(Blocks)
    BY <2>2, SublistType
  <2>4. Elements(Sublist(rev, last)) = mine \cap last
    BY <2>2, SublistElements
  <2>5. IsInjectiveSeq(Sublist(rev, last))
    BY <2>2, SublistInjective
  <2> QED
    BY <2>1, <2>3, <2>4, <2>5 DEF rev
<1>6. last \cap Elements(free) = {}
  BY <1>1
<1> HIDE DEF back
<1>7. /\ free' \in Seq(Blocks) /\ IsInjectiveSeq(free')
      /\ Elements(free') = Elements(free) \cup last
  <2> HIDE DEF last
  <2> QED
    BY <1>1, <1>2, <1>5, <1>6, ConcatFacts
<1>8. \A b \in mine : ref[b] >= 1
  <2> SUFFICES ASSUME NEW b \in mine PROVE ref[b] >= 1
    OBVIOUS
  <2>1. r \in Holders(b)
    BY DEF Holders, mine
  <2>2. Cardinality(Holders(b)) # 0
    BY <2>1, HoldersFinite, FS_EmptySet
  <2> QED
    BY <1>1, <1>3, <2>2
<1>9. ref' \in [Blocks -> Nat]
  BY <1>1, <1>2, <1>8
<1>10. \A q \in Requests : table'[q] = IF q = r THEN <<>> ELSE table[q]
  BY <1>1
<1>11. /\ table' \in [Requests -> Seq(Blocks)]
       /\ \A q \in Requests : IsInjectiveSeq(table'[q])
  BY <1>1, <1>10 DEF IsInjectiveSeq
<1>12. ASSUME NEW b \in Blocks PROVE ref'[b] = Cardinality(Holders(b)')
  <2>1. Holders(b)' = Holders(b) \ {r}
    BY <1>10 DEF Holders, Elements
  <2>2. r \in Holders(b) <=> b \in mine
    BY DEF Holders, mine
  <2>3. CASE b \in mine
    <3>1. Cardinality(Holders(b) \ {r}) = Cardinality(Holders(b)) - 1
      BY <2>2, <2>3, HoldersFinite, FS_RemoveElement
    <3> QED
      BY <1>1, <1>2, <2>1, <2>3, <3>1
  <2>4. CASE b \notin mine
    <3>1. Holders(b) \ {r} = Holders(b)
      BY <2>2, <2>4
    <3> QED
      BY <1>1, <1>2, <2>1, <2>4, <3>1
  <2> QED
    BY <2>3, <2>4
<1>13. Elements(free') = {b \in Blocks : ref'[b] = 0}
  <2>1. \A b \in Blocks : ref'[b] = 0 <=> (ref[b] = 0 \/ b \in last)
    BY <1>1, <1>2, <1>8
  <2> QED
    BY <1>1, <1>3, <1>7, <2>1
<1> QED
  BY <1>7, <1>9, <1>11, <1>12, <1>13 DEF PoolAccounting

(* A request takes more blocks: `base`, which others may hold too, and      *)
(* `fresh`, which nobody does.                                              *)
LEMMA GrowFacts ==
  ASSUME TypeOK, PoolAccounting, NEW r \in Requests,
         NEW base \in Seq(Blocks), NEW fresh \in Seq(Blocks),
         IsInjectiveSeq(base), IsInjectiveSeq(fresh),
         Elements(table[r]) \subseteq Elements(base),
         Elements(fresh) \subseteq Elements(free) \ Elements(base),
         IsInjectiveSeq(free'),
         Elements(free') = (Elements(free) \ Elements(base)) \ Elements(fresh),
         ref' = [b \in Blocks |-> IF b \in Elements(fresh) THEN 1
                                  ELSE IF b \in Elements(base) /\ b \notin Elements(table[r])
                                         THEN ref[b] + 1 ELSE ref[b]],
         table' = [table EXCEPT ![r] = base \o fresh]
  PROVE  /\ ref' \in [Blocks -> Nat]
         /\ table' \in [Requests -> Seq(Blocks)]
         /\ PoolAccounting'
<1> DEFINE mine == Elements(table[r])
           B == Elements(base)
           F == Elements(fresh)
<1>1. /\ ref \in [Blocks -> Nat] /\ table \in [Requests -> Seq(Blocks)]
      /\ Elements(free) = {b \in Blocks : ref[b] = 0}
      /\ \A b \in Blocks : ref[b] = Cardinality(Holders(b))
      /\ \A q \in Requests : IsInjectiveSeq(table[q])
  BY DEF TypeOK, PoolAccounting
<1>2. /\ base \o fresh \in Seq(Blocks) /\ Elements(base \o fresh) = B \cup F
      /\ IsInjectiveSeq(base \o fresh)
  BY ConcatFacts
<1>3. B \subseteq Blocks /\ F \subseteq Blocks
  BY DEF Elements
<1>4. ref' \in [Blocks -> Nat]
  BY <1>1
<1>5. \A q \in Requests : table'[q] = IF q = r THEN base \o fresh ELSE table[q]
  BY <1>1
<1>6. /\ table' \in [Requests -> Seq(Blocks)]
      /\ \A q \in Requests : IsInjectiveSeq(table'[q])
  BY <1>1, <1>2, <1>5
<1>7. ASSUME NEW b \in Blocks PROVE ref'[b] = Cardinality(Holders(b)')
  <2>1. \A q \in Requests : q \in Holders(b)' <=> IF q = r THEN b \in B \cup F ELSE q \in Holders(b)
    BY <1>2, <1>5 DEF Holders
  <2>2. Holders(b) \subseteq Requests /\ Holders(b)' \subseteq Requests
    BY DEF Holders
  <2>3. r \in Holders(b) <=> b \in mine
    BY DEF Holders
  <2> HIDE DEF mine, B, F
  <2>4. CASE b \in F
    <3>1. ref[b] = 0 /\ ref'[b] = 1
      BY <1>1, <2>4 DEF F
    <3>2. Holders(b) = {}
      BY <1>1, <3>1, HoldersFinite, FS_EmptySet
    <3>3. Holders(b)' = {r}
      BY <2>1, <2>2, <2>4, <3>2
    <3>4. Cardinality({r}) = 1
      BY FS_Singleton
    <3> QED
      BY <3>1, <3>3, <3>4
  <2>5. CASE b \notin F /\ b \in B /\ b \notin mine
    <3>1. ref'[b] = ref[b] + 1
      BY <2>5 DEF F, B, mine
    <3>2. Holders(b)' = Holders(b) \cup {r} /\ r \notin Holders(b)
      BY <2>1, <2>2, <2>3, <2>5
    <3>3. Cardinality(Holders(b) \cup {r}) = Cardinality(Holders(b)) + 1
      BY <3>2, HoldersFinite, FS_AddElement
    <3> QED
      BY <1>1, <3>1, <3>2, <3>3
  <2>6. CASE b \notin F /\ ~(b \in B /\ b \notin mine)
    <3>1. ref'[b] = ref[b]
      BY <2>6 DEF F, B, mine
    <3>2. r \in Holders(b)' <=> r \in Holders(b)
      BY <2>1, <2>3, <2>6 DEF B, mine
    <3>3. Holders(b)' = Holders(b)
      BY <2>1, <2>2, <3>2
    <3> QED
      BY <1>1, <3>1, <3>3
  <2> QED
    BY <2>4, <2>5, <2>6
<1>8. Elements(free') = {b \in Blocks : ref'[b] = 0}
  <2>1. \A b \in mine : ref[b] # 0
    <3> SUFFICES ASSUME NEW b \in mine PROVE ref[b] # 0
      OBVIOUS
    <3>1. r \in Holders(b) /\ b \in Blocks
      BY <1>1 DEF Holders, Elements
    <3> QED
      BY <1>1, <3>1, HoldersFinite, FS_EmptySet
  <2>2. \A b \in Blocks : ref'[b] = 0 <=> (ref[b] = 0 /\ b \notin B /\ b \notin F)
    BY <1>1, <2>1
  <2> HIDE DEF B, F, mine
  <2>3. Elements(free') = (Elements(free) \ B) \ F
    BY DEF B, F
  <2> QED
    BY <1>1, <2>2, <2>3
<1> QED
  BY <1>4, <1>6, <1>7, <1>8 DEF PoolAccounting

(* Caching a request's full blocks keeps the two maps in step: only blocks  *)
(* that cached nothing and keys that no block had are paired.               *)
LEMMA CacheFullFacts ==
  ASSUME TypeOK, CacheBijection, NEW r \in Requests, NEW tokens \in Nat,
         IsInjectiveSeq(table[r]), tokens \div Block <= Len(table[r]),
         tokens <= InputLen[r] + OutputLen[r],
         CacheFull(r, tokens)
  PROVE  /\ blockKey' \in [Blocks -> Keys \cup {NoKey}]
         /\ DOMAIN cached' \subseteq Keys /\ \A k \in DOMAIN cached' : cached'[k] \in Blocks
         /\ CacheBijection'
<1> DEFINE t == table[r]
           n == tokens \div Block
           new == NewlyFull(r, tokens)
           newKeys == {Key(r, i - 1) : i \in new}
           keyed(b) == CHOOSE i \in new : table[r][i] = b
           place(k) == CHOOSE i \in new : Key(r, i - 1) = k
<1>1. /\ blockKey' = [b \in Blocks |-> IF \E i \in new : table[r][i] = b
                                         THEN Key(r, keyed(b) - 1) ELSE blockKey[b]]
      /\ cached' = [k \in DOMAIN cached \cup newKeys |->
                      IF k \in newKeys THEN table[r][place(k)] ELSE cached[k]]
  BY DEF CacheFull
<1>2. /\ t \in Seq(Blocks) /\ Len(t) \in Nat /\ DOMAIN t = 1..Len(t)
      /\ blockKey \in [Blocks -> Keys \cup {NoKey}]
      /\ \A k \in DOMAIN cached : k \in Keys /\ cached[k] \in Blocks
  BY DEF TypeOK
<1>3. n \in Nat /\ n <= Len(t) /\ n <= InputLen[r] + OutputLen[r]
  <2>1. n \in Nat /\ n * Block <= tokens
    BY DivBounds
  <2>2. n <= tokens
    BY <2>1, FactorBelow
  <2>3. InputLen[r] + OutputLen[r] \in Nat
    OBVIOUS
  <2> HIDE DEF n
  <2> QED
    BY <2>1, <2>2, <2>3 DEF n
<1>4. ASSUME NEW i \in new
      PROVE  /\ i \in 1..n /\ i \in DOMAIN t /\ t[i] \in Blocks
             /\ i - 1 \in 0..(InputLen[r] + OutputLen[r])
             /\ blockKey[t[i]] = NoKey
             /\ Key(r, i - 1) \notin DOMAIN cached
             /\ Key(r, i - 1) \in Keys
  <2>1. i \in 1..n /\ blockKey[t[i]] = NoKey /\ Key(r, i - 1) \notin DOMAIN cached
    BY DEF NewlyFull
  <2>2. InputLen[r] + OutputLen[r] \in Nat
    OBVIOUS
  <2> HIDE DEF n, t, new
  <2>3. i \in DOMAIN t /\ i - 1 \in 0..(InputLen[r] + OutputLen[r])
    BY <1>2, <1>3, <2>1, <2>2
  <2> QED
    BY <1>2, <2>1, <2>3, KeyType
<1>5. \A i, j \in new : t[i] = t[j] => i = j
  BY <1>4 DEF IsInjectiveSeq
<1>6. \A i, j \in new : Key(r, i - 1) = Key(r, j - 1) => i = j
  <2> SUFFICES ASSUME NEW i \in new, NEW j \in new, Key(r, i - 1) = Key(r, j - 1) PROVE i = j
    OBVIOUS
  <2>1. i - 1 = j - 1
    BY <1>4, KeysAssumption
  <2>2. i \in Int /\ j \in Int
    BY <1>3, <1>4
  <2> QED
    BY <2>1, <2>2
<1> HIDE DEF new
<1>7. ASSUME NEW i \in new PROVE keyed(t[i]) = i /\ place(Key(r, i - 1)) = i
  BY <1>5, <1>6
<1> HIDE DEF keyed, place
<1>8. ASSUME NEW i \in new
      PROVE  blockKey'[t[i]] = Key(r, i - 1) /\ cached'[Key(r, i - 1)] = t[i]
  BY <1>1, <1>4, <1>7
<1>9. ASSUME NEW b \in Blocks, \A i \in new : t[i] # b
      PROVE  blockKey'[b] = blockKey[b]
  BY <1>1, <1>9
<1>10. ASSUME NEW k \in DOMAIN cached
       PROVE  k \notin newKeys /\ cached'[k] = cached[k]
  BY <1>1, <1>4
<1>11. DOMAIN cached' = DOMAIN cached \cup newKeys
  BY <1>1
<1>12. blockKey' \in [Blocks -> Keys \cup {NoKey}]
  <2>1. ASSUME NEW b \in Blocks PROVE blockKey'[b] \in Keys \cup {NoKey}
    <3>1. CASE \A i \in new : t[i] # b
      <4>1. blockKey'[b] = blockKey[b]
        BY <1>9, <3>1
      <4> QED
        BY <1>2, <4>1
    <3>2. ASSUME NEW i \in new, t[i] = b PROVE blockKey'[b] \in Keys \cup {NoKey}
      <4>1. blockKey'[b] = Key(r, i - 1)
        BY <1>8, <3>2
      <4> QED
        BY <1>4, <4>1
    <3> QED
      BY <3>1, <3>2
  <2>2. blockKey' = [b \in Blocks |-> blockKey'[b]]
    BY <1>1
  <2> QED
    BY <2>1, <2>2
<1>13. DOMAIN cached' \subseteq Keys /\ \A k \in DOMAIN cached' : cached'[k] \in Blocks
  <2>1. ASSUME NEW k \in DOMAIN cached' PROVE k \in Keys /\ cached'[k] \in Blocks
    <3>1. CASE k \in DOMAIN cached
      <4>1. cached'[k] = cached[k]
        BY <1>10, <3>1
      <4> QED
        BY <1>2, <3>1, <4>1
    <3>2. CASE k \in newKeys
      <4>1. PICK i \in new : k = Key(r, i - 1)
        BY <3>2
      <4>2. cached'[k] = t[i]
        BY <1>8, <4>1
      <4> QED
        BY <1>4, <4>1, <4>2
    <3> QED
      BY <1>11, <3>1, <3>2
  <2> QED
    BY <2>1
<1>14. ASSUME NEW b \in Blocks, NEW k \in Keys
       PROVE  blockKey'[b] = k <=> (k \in DOMAIN cached' /\ cached'[k] = b)
  <2>1. blockKey[b] = k <=> (k \in DOMAIN cached /\ cached[k] = b)
    BY DEF CacheBijection
  <2>2. CASE \E i \in new : t[i] = b
    <3>1. PICK i \in new : t[i] = b
      BY <2>2
    <3>2. blockKey'[b] = Key(r, i - 1) /\ cached'[Key(r, i - 1)] = b
      BY <1>8, <3>1
    <3>3. ASSUME k \in DOMAIN cached', cached'[k] = b PROVE k = Key(r, i - 1)
      <4>1. CASE k \in DOMAIN cached
        <5>1. cached[k] = b
          BY <1>10, <3>3, <4>1
        <5>2. blockKey[b] = k
          BY <2>1, <4>1, <5>1
        <5> QED
          BY <1>4, <3>1, <5>2, KeysAssumption
      <4>2. CASE k \in newKeys
        <5>1. PICK j \in new : k = Key(r, j - 1)
          BY <4>2
        <5>2. t[j] = t[i]
          BY <1>8, <3>1, <3>3, <5>1
        <5> QED
          BY <1>5, <5>1, <5>2
      <4> QED
        BY <1>11, <3>3, <4>1, <4>2
    <3>4. Key(r, i - 1) \in DOMAIN cached'
      BY <1>11
    <3> QED
      BY <3>2, <3>3, <3>4
  <2>3. CASE \A i \in new : t[i] # b
    <3>1. blockKey'[b] = blockKey[b]
      BY <1>9, <2>3
    <3>2. ASSUME k \in DOMAIN cached', cached'[k] = b PROVE k \in DOMAIN cached /\ cached[k] = b
      <4>1. k \notin newKeys
        <5>1. ASSUME NEW j \in new, k = Key(r, j - 1) PROVE FALSE
          BY <1>8, <2>3, <3>2, <5>1
        <5> QED
          BY <5>1
      <4> QED
        BY <1>10, <1>11, <3>2, <4>1
    <3>3. ASSUME k \in DOMAIN cached, cached[k] = b PROVE k \in DOMAIN cached' /\ cached'[k] = b
      BY <1>10, <1>11, <3>3
    <3> QED
      BY <2>1, <3>1, <3>2, <3>3
  <2> QED
    BY <2>2, <2>3
<1>15. CacheBijection'
  BY <1>14 DEF CacheBijection
<1> QED
  BY <1>12, <1>13, <1>15

(* A block in some table is not free. *)
LEMMA OwnedNotFree ==
  ASSUME PoolAccounting, TypeOK, NEW r \in Requests
  PROVE  Elements(table[r]) \cap Elements(free) = {} /\ Elements(table[r]) \subseteq Blocks
<1>1. Elements(table[r]) \subseteq Blocks
  BY DEF TypeOK, Elements
<1>2. ASSUME NEW b \in Elements(table[r]) PROVE b \notin Elements(free)
  <2>1. r \in Holders(b) /\ b \in Blocks
    BY <1>1, <1>2 DEF Holders
  <2>2. Cardinality(Holders(b)) # 0
    BY <2>1, HoldersFinite, FS_EmptySet
  <2> QED
    BY <2>1, <2>2 DEF PoolAccounting
<1> QED
  BY <1>1, <1>2

-----------------------------------------------------------------------------
(* Each action keeps the inductive invariant *)

LEMMA InductiveInit == Init => Inductive
<1> SUFFICES ASSUME Init PROVE Inductive
  OBVIOUS
<1>1. /\ free \in Seq(Blocks) /\ DOMAIN free = Blocks /\ \A b \in Blocks : free[b] = b
  BY DEF Init, Blocks
<1>2. Elements(free) = Blocks /\ IsInjectiveSeq(free)
  BY <1>1 DEF Elements, IsInjectiveSeq
<1>3. \A r \in Requests : table[r] = <<>>
  BY DEF Init
<1>4. TypeOK
  <2>1. preempted \in BOOLEAN
    BY Zenon DEF Init
  <2>2. first \in [Requests -> BOOLEAN] /\ done \in [Requests -> BOOLEAN]
    BY Zenon DEF Init
  <2>3. blockKey \in [Blocks -> Keys \cup {NoKey}] /\ ref \in [Blocks -> Nat]
    BY DEF Init
  <2>4. DOMAIN cached = {}
    BY DEF Init
  <2>5. /\ rank \in [Requests -> Nat] /\ computed \in [Requests -> Nat]
        /\ generated \in [Requests -> Nat] /\ table \in [Requests -> Seq(Blocks)]
        /\ engineHit \in [Requests -> Nat \cup {NoHit}]
    BY DEF Init, NoHit
  <2>6. /\ waiting \in Seq(Requests) /\ running \in Seq(Requests)
        /\ plan \in Seq(Requests \X Nat) /\ phase \in Phases
        /\ budget \in 0..TokenBudget /\ cursor \in Nat \ {0}
    BY DEF Init, Phases
  <2> QED
    BY <1>1, <2>1, <2>2, <2>3, <2>4, <2>5, <2>6 DEF TypeOK
<1>5. PoolAccounting
  <2>1. \A b \in Blocks : Holders(b) = {}
    BY <1>3 DEF Holders, Elements
  <2>2. \A b \in Blocks : ref[b] = 0
    BY DEF Init
  <2>3. \A r \in Requests : IsInjectiveSeq(table[r])
    BY <1>3 DEF IsInjectiveSeq
  <2> QED
    BY <1>2, <2>1, <2>2, <2>3, FS_EmptySet DEF PoolAccounting
<1>6. CacheBijection
  BY KeysAssumption DEF Init, CacheBijection
<1>7. QueueInv /\ TableInv /\ PlanCovered /\ PlanInv
  BY <1>3 DEF Init, QueueInv, TableInv, PlanCovered, PlanInv, Elements, IsInjectiveSeq
<1> QED
  BY <1>4, <1>5, <1>6, <1>7 DEF Inductive

LEMMA StutterStep == Inductive /\ UNCHANGED vars => Inductive'
<1> SUFFICES ASSUME Inductive, UNCHANGED vars PROVE Inductive'
  OBVIOUS
<1> USE DEF vars, pool, requests, scheduler
<1>1. TypeOK' /\ PoolAccounting' /\ CacheBijection'
  BY DEF Inductive, TypeOK, PoolAccounting, CacheBijection, Holders
<1>2. QueueInv' /\ TableInv' /\ PlanCovered' /\ PlanInv'
  BY DEF Inductive, QueueInv, TableInv, PlanCovered, PlanInv, InPlan, Length
<1> QED
  BY <1>1, <1>2 DEF Inductive

(* Steps that only move `phase` and the locals of schedule(). *)
LEMMA ControlStep ==
  ASSUME Inductive, UNCHANGED <<pool, requests, waiting, running, plan>>,
         phase' \in Phases, budget' \in 0..TokenBudget, cursor' \in Nat \ {0},
         preempted' \in BOOLEAN, PlanInv'
  PROVE  Inductive'
<1> USE DEF pool, requests
<1>1. TypeOK' /\ PoolAccounting' /\ CacheBijection'
  BY DEF Inductive, TypeOK, PoolAccounting, CacheBijection, Holders
<1>2. QueueInv' /\ TableInv' /\ PlanCovered'
  BY DEF Inductive, QueueInv, TableInv, PlanCovered, InPlan, Length
<1> QED
  BY <1>1, <1>2 DEF Inductive

LEMMA EndRunningStep == Inductive /\ EndRunning => Inductive'
<1> SUFFICES ASSUME Inductive, EndRunning PROVE Inductive'
  OBVIOUS
<1>1. phase' \in {"admit", "idle", "step"} /\ (phase' = "idle" => plan' = <<>>)
  BY DEF EndRunning, ReturnPlan
<1>2. PlanInv'
  BY <1>1 DEF PlanInv
<1> QED
  BY <1>1, <1>2, ControlStep DEF EndRunning, Inductive, TypeOK, Phases

LEMMA EndAdmitStep == Inductive /\ EndAdmit => Inductive'
<1> SUFFICES ASSUME Inductive, EndAdmit PROVE Inductive'
  OBVIOUS
<1>1. phase' \in {"idle", "step"} /\ (phase' = "idle" => plan' = <<>>)
  BY DEF EndAdmit, ReturnPlan
<1>2. PlanInv'
  BY <1>1 DEF PlanInv
<1> QED
  BY <1>1, <1>2, ControlStep DEF EndAdmit, Inductive, TypeOK, Phases

LEMMA StepDueStep == Inductive /\ StepDue => Inductive'
<1> SUFFICES ASSUME Inductive, StepDue PROVE Inductive'
  OBVIOUS
<1>1. PlanInv'
  BY DEF PlanInv, StepDue
<1> QED
  BY <1>1, ControlStep DEF StepDue, Inductive, TypeOK, Phases

LEMMA NextStepStep == Inductive /\ NextStep => Inductive'
<1> SUFFICES ASSUME Inductive, NextStep PROVE Inductive'
  OBVIOUS
<1>1. plan' = <<>> /\ cursor' = 1 /\ phase' = "running" /\ Len(running') \in Nat
  BY DEF NextStep, BeginSchedule, Inductive, TypeOK
<1>2. PlanInv'
  BY <1>1 DEF PlanInv
<1> QED
  <2>1. preempted' \in BOOLEAN
    BY Zenon DEF NextStep, BeginSchedule
  <2>2. phase' \in Phases /\ budget' \in 0..TokenBudget /\ cursor' \in Nat \ {0}
    BY DEF NextStep, BeginSchedule, Phases
  <2> QED
    BY <1>2, <2>1, <2>2, ControlStep DEF NextStep

LEMMA SubmitStep ==
  ASSUME Inductive, NEW r \in Requests, Submit(r)
  PROVE  Inductive'
<1> USE DEF pool
<1>1. /\ waiting \in Seq(Requests) /\ running \in Seq(Requests) /\ Len(running) \in Nat
      /\ rank \in [Requests -> Nat] /\ rank[r] = 0
      /\ QueueInv /\ TableInv /\ PlanCovered /\ PlanInv
  BY DEF Inductive, TypeOK, Submit
<1>2. r \notin Elements(running) \cup Elements(waiting)
  BY <1>1 DEF QueueInv
<1>3. Cardinality(Arrived) \in Nat
  <2>1. Arrived \in SUBSET Requests
    BY DEF Arrived
  <2> QED
    BY <2>1, FS_Subset, FS_CardinalityType
<1>4. /\ rank' \in [Requests -> Nat] /\ rank'[r] > 0
      /\ \A q \in Requests : q # r => rank'[q] = rank[q]
  BY <1>1, <1>3 DEF Submit
<1>5. /\ waiting' \in Seq(Requests) /\ IsInjectiveSeq(waiting')
      /\ Elements(waiting') = Elements(waiting) \cup {r}
  BY <1>1, <1>2, AppendFacts DEF Submit, QueueInv
<1>6. /\ phase' \in {"running", "step"} /\ plan' = plan
      /\ phase' = "running" => plan = <<>> /\ cursor' = 1
      /\ budget' \in 0..TokenBudget /\ cursor' \in Nat \ {0} /\ preempted' \in BOOLEAN
  <2>1. phase \in {"idle", "step"} /\ plan' = plan
    BY DEF Submit
  <2>2. CASE phase = "idle"
    <3>1. phase' = "running" /\ budget' = TokenBudget /\ cursor' = 1 /\ preempted' = FALSE
      BY <2>2 DEF Submit, BeginSchedule
    <3>2. plan = <<>>
      BY <1>1, <2>2 DEF PlanInv
    <3>3. preempted' \in BOOLEAN
      BY <3>1, Zenon
    <3>4. budget' \in 0..TokenBudget /\ cursor' \in Nat \ {0}
      BY <3>1
    <3> QED
      BY <2>1, <3>1, <3>2, <3>3, <3>4
  <2>3. CASE phase = "step"
    <3>1. phase' = "step" /\ budget' = budget /\ cursor' = cursor /\ preempted' = preempted
      BY <2>3 DEF Submit
    <3> QED
      BY <2>1, <3>1 DEF Inductive, TypeOK
  <2> QED
    BY <2>1, <2>2, <2>3
<1>7. TypeOK'
  BY <1>4, <1>5, <1>6 DEF Submit, Inductive, TypeOK, Phases
<1>8. PoolAccounting' /\ CacheBijection'
  BY DEF Submit, Inductive, PoolAccounting, CacheBijection, Holders
<1>9. QueueInv'
  <2>1. \A q \in Elements(running) \cup Elements(waiting) :
          q \in Requests /\ rank[q] > 0 /\ generated[q] < OutputLen[q]
    <3>1. Elements(running) \subseteq Requests /\ Elements(waiting) \subseteq Requests
      BY <1>1, ListFacts
    <3>2. \A q \in Elements(running) \cup Elements(waiting) : rank[q] > 0 /\ generated[q] < OutputLen[q]
      BY <1>1 DEF QueueInv
    <3> QED
      BY <3>1, <3>2
  <2>2. generated[r] < OutputLen[r] /\ \A q \in Requests : rank[q] = 0 => generated[q] = 0
    BY <1>1 DEF QueueInv
  <2>3. running' = running /\ generated' = generated
    BY DEF Submit
  <2>4. \A q \in Requests : rank'[q] = 0 => rank[q] = 0
    BY <1>1, <1>4
  <2>5. \A q \in Elements(running) \cup Elements(waiting) : q # r
    BY <1>2
  <2> QED
    BY <1>1, <1>2, <1>4, <1>5, <2>1, <2>2, <2>3, <2>4, <2>5 DEF QueueInv
<1>10. TableInv' /\ PlanCovered'
  BY DEF Submit, Inductive, TableInv, PlanCovered, InPlan, Length
<1>11. PlanInv'
  <2>1. running' = running /\ Len(running) \in Nat
    BY <1>1 DEF Submit
  <2>2. phase' # "idle"
    BY <1>6
  <2>3. ASSUME phase' = "running"
        PROVE  /\ plan' = <<>> /\ cursor' = 1 /\ Len(plan') = 0
    BY <1>6, <2>3
  <2>4. ASSUME phase' = "running"
        PROVE  /\ Len(plan') = cursor' - 1 /\ cursor' <= Len(running') + 1
               /\ \A p \in DOMAIN plan' : plan'[p][1] = running'[p]
    BY <2>1, <2>3, <2>4
  <2> QED
    BY <2>2, <2>4 DEF PlanInv
<1> QED
  BY <1>7, <1>8, <1>9, <1>10, <1>11 DEF Inductive

LEMMA LengthType ==
  ASSUME TypeOK, NEW r \in Requests
  PROVE  /\ computed[r] \in Nat /\ generated[r] \in Nat
         /\ Length(r) \in Nat /\ Length(r) >= 1
         /\ InputLen[r] \in Nat /\ OutputLen[r] \in Nat
<1>1. computed[r] \in Nat /\ generated[r] \in Nat
  BY DEF TypeOK
<1>2. InputLen[r] \in Nat \ {0} /\ OutputLen[r] \in Nat \ {0}
  OBVIOUS
<1> QED
  BY <1>1, <1>2 DEF Length

(* What a request at the cursor asks for: at least one token, no more than  *)
(* the budget and its sequence, and a nonnegative number of blocks.         *)
LEMMA CursorFacts ==
  ASSUME Inductive, InRunningLoop, NEW r, r = running[cursor]
  PROVE  /\ r \in Requests /\ r \in Elements(running) /\ r \notin InPlan
         /\ cursor \in DOMAIN running
         /\ computed[r] \in Nat /\ Length(r) \in Nat
         /\ Want(r) \in 1..budget /\ Want(r) \in Nat
         /\ computed[r] + Want(r) <= Length(r)
         /\ Len(table[r]) \in Nat /\ Need(r) \in Nat
         /\ Len(table[r]) + Need(r) = CeilBlocks(computed[r] + Want(r))
<1>1. /\ running \in Seq(Requests) /\ cursor \in Nat \ {0} /\ budget \in 0..TokenBudget
      /\ plan \in Seq(Requests \X Nat)
      /\ QueueInv /\ TableInv /\ PlanInv
      /\ phase = "running" /\ cursor <= Len(running) /\ budget > 0
      /\ DOMAIN running = 1..Len(running) /\ Len(running) \in Nat
      /\ DOMAIN plan = 1..Len(plan) /\ Len(plan) \in Nat
  <2>1. running \in Seq(Requests) /\ plan \in Seq(Requests \X Nat)
    BY DEF Inductive, TypeOK
  <2>2. /\ Len(running) \in Nat /\ DOMAIN running = 1..Len(running)
        /\ Len(plan) \in Nat /\ DOMAIN plan = 1..Len(plan)
    BY <2>1, ListFacts
  <2> QED
    BY <2>1, <2>2 DEF Inductive, TypeOK, InRunningLoop
<1>2. cursor \in DOMAIN running /\ r \in Requests /\ r \in Elements(running)
  <2>1. cursor \in DOMAIN running
    BY <1>1
  <2> QED
    BY <1>1, <2>1, ListFacts
<1>3. r \notin InPlan
  <2> SUFFICES ASSUME NEW p \in DOMAIN plan, plan[p][1] = r PROVE FALSE
    BY DEF InPlan
  <2>0. Len(plan) = cursor - 1 /\ plan[p][1] = running[p]
    BY <1>1 DEF PlanInv
  <2>1. p \in 1..(cursor - 1) /\ running[p] = r
    BY <1>1, <2>0
  <2>2. p \in DOMAIN running /\ p # cursor
    BY <1>1, <2>1
  <2> QED
    BY <1>1, <1>2, <2>1, <2>2 DEF QueueInv, IsInjectiveSeq
<1>4. computed[r] < Length(r) /\ Len(table[r]) = CeilBlocks(computed[r])
  BY <1>1, <1>2, <1>3 DEF TableInv
<1>5. computed[r] \in Nat /\ Length(r) \in Nat
  BY <1>2, LengthType DEF Inductive
<1>6. Want(r) \in 1..budget /\ computed[r] + Want(r) <= Length(r) /\ Want(r) \in Nat
  <2>1. Length(r) - computed[r] \in Nat /\ Length(r) - computed[r] >= 1
    BY <1>4, <1>5
  <2> DEFINE d == Length(r) - computed[r]
  <2>2. Want(r) = IF d <= budget THEN d ELSE budget
    BY DEF Want, LeastOf
  <2>3. budget \in Nat /\ budget > 0 /\ computed[r] + d = Length(r)
    BY <1>1, <1>5
  <2> HIDE DEF d
  <2>4. d \in Nat /\ d >= 1
    BY <2>1 DEF d
  <2>5. Want(r) \in 1..budget /\ Want(r) <= d /\ Want(r) \in Nat
    BY <2>2, <2>3, <2>4
  <2> QED
    BY <1>5, <2>3, <2>4, <2>5
<1>7. /\ CeilBlocks(computed[r]) \in Nat /\ CeilBlocks(computed[r] + Want(r)) \in Nat
      /\ CeilBlocks(computed[r]) <= CeilBlocks(computed[r] + Want(r))
  <2>1. computed[r] + Want(r) \in Nat /\ computed[r] <= computed[r] + Want(r)
    BY <1>5, <1>6
  <2> DEFINE m == computed[r]
             k == computed[r] + Want(r)
  <2> HIDE DEF m, k
  <2>2. m \in Nat /\ k \in Nat /\ m <= k
    BY <1>5, <2>1 DEF m, k
  <2>3. CeilBlocks(m) \in Nat /\ CeilBlocks(k) \in Nat /\ CeilBlocks(m) <= CeilBlocks(k)
    BY <2>2, CeilFacts
  <2> QED
    BY <2>3 DEF m, k
<1>8. Len(table[r]) \in Nat /\ Need(r) \in Nat
      /\ Len(table[r]) + Need(r) = CeilBlocks(computed[r] + Want(r))
  <2> DEFINE a == CeilBlocks(computed[r])
             b == CeilBlocks(computed[r] + Want(r))
  <2>1. a \in Nat /\ b \in Nat /\ a <= b /\ Len(table[r]) = a
    BY <1>4, <1>7
  <2>2. Need(r) = b - Len(table[r])
    BY DEF Need
  <2> HIDE DEF a, b
  <2>3. Len(table[r]) \in Nat /\ Need(r) \in Nat /\ Len(table[r]) + Need(r) = b
    BY <2>1, <2>2
  <2> QED
    BY <2>3 DEF b
<1> QED
  BY <1>2, <1>3, <1>5, <1>6, <1>8

LEMMA PlanRunningStep == Inductive /\ PlanRunning => Inductive'
<1> SUFFICES ASSUME Inductive, PlanRunning PROVE Inductive'
  OBVIOUS
<1> DEFINE r == running[cursor]
           n == Need(r)
           w == Want(r)
           fresh == SubSeq(free, 1, n)
<1>1. /\ InRunningLoop /\ n <= Len(free) /\ TakeFree(free, n)
      /\ ref' = [b \in Blocks |-> IF \E i \in 1..n : free[i] = b THEN 1 ELSE ref[b]]
      /\ table' = [table EXCEPT ![r] = @ \o fresh]
      /\ plan' = Append(plan, <<r, w>>)
      /\ budget' = budget - w
      /\ cursor' = cursor + 1
      /\ UNCHANGED <<rank, computed, generated, engineHit, first, done,
                     waiting, running, phase, preempted>>
  BY DEF PlanRunning
<1>2. /\ r \in Requests /\ r \in Elements(running) /\ r \notin InPlan /\ cursor \in DOMAIN running
      /\ computed[r] \in Nat /\ Length(r) \in Nat
      /\ w \in 1..budget /\ w \in Nat /\ computed[r] + w <= Length(r)
      /\ Len(table[r]) \in Nat /\ n \in Nat
      /\ Len(table[r]) + n = CeilBlocks(computed[r] + w)
  BY <1>1, CursorFacts
<1> HIDE DEF r, n, w
<1>3. /\ TypeOK /\ PoolAccounting /\ CacheBijection /\ QueueInv /\ TableInv /\ PlanCovered /\ PlanInv
  BY DEF Inductive
<1>4. /\ free \in Seq(Blocks) /\ IsInjectiveSeq(free) /\ Len(free) \in Nat
      /\ table \in [Requests -> Seq(Blocks)] /\ table[r] \in Seq(Blocks)
      /\ IsInjectiveSeq(table[r])
      /\ plan \in Seq(Requests \X Nat) /\ Len(plan) \in Nat /\ DOMAIN plan = 1..Len(plan)
      /\ running \in Seq(Requests)
      /\ budget \in Nat /\ budget <= TokenBudget /\ cursor \in Nat /\ cursor # 0
  <2>1. /\ free \in Seq(Blocks) /\ table \in [Requests -> Seq(Blocks)]
        /\ plan \in Seq(Requests \X Nat) /\ running \in Seq(Requests)
        /\ budget \in 0..TokenBudget /\ cursor \in Nat \ {0}
    BY <1>3 DEF TypeOK
  <2>2. IsInjectiveSeq(free) /\ \A q \in Requests : IsInjectiveSeq(table[q])
    BY <1>3 DEF PoolAccounting
  <2>3. budget \in Nat /\ budget <= TokenBudget
    BY <2>1
  <2>4. Len(free) \in Nat /\ Len(plan) \in Nat /\ DOMAIN plan = 1..Len(plan)
    BY <2>1, ListFacts
  <2> QED
    BY <1>2, <2>1, <2>2, <2>3, <2>4
<1>5. n \in 0..Len(free)
  BY <1>1, <1>2, <1>4
<1>6. /\ fresh \in Seq(Blocks) /\ IsInjectiveSeq(fresh) /\ Len(fresh) = n
      /\ Elements(fresh) = {free[i] : i \in 1..n}
  BY <1>4, <1>5, SplitFacts
<1>7. /\ free' \in Seq(Blocks) /\ IsInjectiveSeq(free')
      /\ Elements(free') = Elements(free) \ Elements(fresh)
      /\ blockKey' \in [Blocks -> Keys \cup {NoKey}]
      /\ DOMAIN cached' \subseteq Keys /\ \A k \in DOMAIN cached' : cached'[k] \in Blocks
      /\ CacheBijection'
  BY <1>1, <1>3, <1>4, <1>5, <1>6, TakeFreeFacts
<1> HIDE DEF fresh
<1>8. Elements(fresh) \subseteq Elements(free)
  <2>1. \A i \in 1..n : i \in DOMAIN free
    BY <1>4, <1>5
  <2> QED
    BY <1>6, <2>1 DEF Elements
<1>9. /\ ref' \in [Blocks -> Nat] /\ table' \in [Requests -> Seq(Blocks)] /\ PoolAccounting'
  <2>1. Elements(table[r]) \cap Elements(free) = {}
    BY <1>2, <1>3, OwnedNotFree
  <2>2. Elements(fresh) \subseteq Elements(free) \ Elements(table[r])
    BY <1>8, <2>1
  <2>3. Elements(free') = (Elements(free) \ Elements(table[r])) \ Elements(fresh)
    BY <1>7, <2>1
  <2>4. ref' = [b \in Blocks |-> IF b \in Elements(fresh) THEN 1
                  ELSE IF b \in Elements(table[r]) /\ b \notin Elements(table[r])
                         THEN ref[b] + 1 ELSE ref[b]]
    BY <1>1, <1>6
  <2>5. table' = [table EXCEPT ![r] = table[r] \o fresh]
    BY <1>1
  <2> QED
    BY <1>2, <1>3, <1>4, <1>6, <1>7, <2>2, <2>3, <2>4, <2>5, GrowFacts
<1>10. /\ Len(table'[r]) = CeilBlocks(computed[r] + w)
       /\ \A q \in Requests : q # r => table'[q] = table[q]
  <2>1. table'[r] = table[r] \o fresh /\ \A q \in Requests : q # r => table'[q] = table[q]
    BY <1>1, <1>2, <1>4
  <2>2. Len(table[r] \o fresh) = Len(table[r]) + Len(fresh)
    BY <1>4, <1>6, ConcatFacts
  <2> QED
    BY <1>2, <1>6, <2>1, <2>2
<1>11. /\ plan' \in Seq(Requests \X Nat) /\ Len(plan') = Len(plan) + 1
       /\ DOMAIN plan' = DOMAIN plan \cup {Len(plan) + 1}
       /\ \A p \in DOMAIN plan : plan'[p] = plan[p]
       /\ plan'[Len(plan) + 1] = <<r, w>>
  <2> DEFINE e == <<r, w>>
  <2>1. e \in Requests \X Nat
    BY <1>2
  <2>2. plan' = Append(plan, e)
    BY <1>1
  <2> HIDE DEF e
  <2>3. /\ Append(plan, e) \in Seq(Requests \X Nat) /\ Len(Append(plan, e)) = Len(plan) + 1
        /\ DOMAIN Append(plan, e) = DOMAIN plan \cup {Len(plan) + 1}
        /\ \A p \in DOMAIN plan : Append(plan, e)[p] = plan[p]
        /\ Append(plan, e)[Len(plan) + 1] = e
    BY <1>4, <2>1, AppendFacts
  <2> QED
    BY <2>2, <2>3 DEF e
<1>12. TypeOK'
  <2>1. budget' \in 0..TokenBudget /\ cursor' \in Nat \ {0}
    <3>1. budget' = budget - w /\ cursor' = cursor + 1
      BY <1>1
    <3>2. budget - w \in 0..TokenBudget
      BY <1>2, <1>4
    <3> QED
      BY <1>4, <3>1, <3>2
  <2> QED
    BY <1>1, <1>3, <1>7, <1>9, <1>11, <2>1 DEF TypeOK
<1>13. QueueInv'
  BY <1>1, <1>3 DEF QueueInv
<1>14. InPlan' = InPlan \cup {r}
  <2>1. \A p \in DOMAIN plan : plan'[p][1] = plan[p][1]
    BY <1>11
  <2>2. plan'[Len(plan) + 1][1] = r
    BY <1>11
  <2>3. DOMAIN plan' = DOMAIN plan \cup {Len(plan) + 1}
    BY <1>11
  <2>4. InPlan' = {plan'[p][1] : p \in DOMAIN plan'}
    BY DEF InPlan
  <2> QED
    BY <2>1, <2>2, <2>3, <2>4 DEF InPlan
<1>15. TableInv'
  <2>1. \A q \in Requests \ Elements(running) : q # r
    BY <1>2
  <2>2. Elements(running) \subseteq Requests
    BY <1>4 DEF Elements
  <2>3. \A q \in Elements(running) \ InPlan' : q \in Requests /\ q # r /\ q \notin InPlan
    BY <1>14, <2>2
  <2> QED
    BY <1>1, <1>3, <1>10, <2>1, <2>3 DEF TableInv, Length
<1>16. PlanCovered'
  <2> DEFINE Covered(p) ==
        LET q == plan'[p][1] k == plan'[p][2]
        IN /\ q \in Elements(running)
           /\ \A o \in DOMAIN plan' : plan'[o][1] = q => o = p
           /\ k \in 1..TokenBudget
           /\ computed[q] + k <= Length(q)
           /\ Len(table'[q]) = CeilBlocks(computed[q] + k)
  <2>1. \A p \in DOMAIN plan : plan[p][1] \in Requests /\ plan[p][1] # r
    BY <1>2, <1>4 DEF InPlan
  <2>2. ASSUME NEW p \in DOMAIN plan PROVE Covered(p)
    <3>1. /\ plan'[p] = plan[p] /\ table'[plan[p][1]] = table[plan[p][1]]
          /\ plan[p][1] # plan'[Len(plan) + 1][1]
      BY <1>10, <1>11, <2>1
    <3> QED
      BY <1>3, <1>11, <3>1 DEF PlanCovered
  <2>3. Covered(Len(plan) + 1)
    <3>1. w \in 1..TokenBudget
      BY <1>2, <1>4
    <3>2. \A o \in DOMAIN plan : plan'[o][1] # r
      BY <1>11, <2>1
    <3>3. /\ plan'[Len(plan) + 1][1] = r /\ plan'[Len(plan) + 1][2] = w
          /\ DOMAIN plan' = DOMAIN plan \cup {Len(plan) + 1}
      BY <1>11
    <3>4. \A o \in DOMAIN plan' : plan'[o][1] = r => o = Len(plan) + 1
      BY <3>2, <3>3
    <3>5. r \in Elements(running) /\ computed[r] + w <= Length(r)
      BY <1>2
    <3>6. Len(table'[r]) = CeilBlocks(computed[r] + w)
      BY <1>10
    <3> QED
      BY <3>1, <3>3, <3>4, <3>5, <3>6
  <2>4. \A p \in DOMAIN plan' : Covered(p)
    BY <1>11, <2>2, <2>3
  <2> QED
    BY <1>1, <2>4 DEF PlanCovered, Length
<1>17. PlanInv'
  <2>1. phase = "running" /\ Len(plan) = cursor - 1 /\ cursor <= Len(running)
    BY <1>1, <1>3 DEF InRunningLoop, PlanInv
  <2>2. \A p \in DOMAIN plan' : plan'[p][1] = running[p]
    <3>1. \A p \in DOMAIN plan : plan'[p][1] = running[p]
      BY <1>3, <1>11, <2>1 DEF PlanInv
    <3>2. plan'[Len(plan) + 1][1] = running[Len(plan) + 1]
      <4>1. Len(plan) + 1 = cursor
        BY <1>4, <2>1
      <4> QED
        BY <1>11, <4>1 DEF r
    <3> QED
      BY <1>11, <3>1, <3>2
  <2>3. Len(running) \in Nat
    BY <1>4
  <2>4. phase' = phase /\ running' = running /\ cursor' = cursor + 1
    BY <1>1
  <2>5. Len(plan') = cursor' - 1 /\ cursor' <= Len(running') + 1
    BY <1>4, <1>11, <2>1, <2>3, <2>4
  <2> QED
    BY <2>1, <2>2, <2>4, <2>5 DEF PlanInv
<1> QED
  BY <1>7, <1>9, <1>12, <1>13, <1>15, <1>16, <1>17 DEF Inductive

(* The victim is the last running request, which no plan holds yet. *)
LEMMA PreemptStep == Inductive /\ Preempt => Inductive'
<1> SUFFICES ASSUME Inductive, Preempt PROVE Inductive'
  OBVIOUS
<1> DEFINE n == Len(running)
           v == running[n]
           r == running[cursor]
<1>1. /\ InRunningLoop
      /\ ReleasedPool(v)
      /\ table' = [table EXCEPT ![v] = <<>>]
      /\ computed' = [computed EXCEPT ![v] = 0]
      /\ running' = SubSeq(running, 1, n - 1)
      /\ waiting' = <<v>> \o waiting
      /\ preempted' = TRUE
      /\ IF v = r THEN ReturnPlan ELSE UNCHANGED phase
      /\ UNCHANGED <<blockKey, cached, rank, generated, engineHit, first, done,
                     plan, budget, cursor>>
  BY DEF Preempt, Requeue
<1>2. TypeOK /\ PoolAccounting /\ CacheBijection /\ QueueInv /\ TableInv /\ PlanCovered /\ PlanInv
  BY DEF Inductive
<1>3. /\ running \in Seq(Requests) /\ waiting \in Seq(Requests)
      /\ n \in Nat /\ DOMAIN running = 1..n
      /\ plan \in Seq(Requests \X Nat) /\ Len(plan) \in Nat /\ DOMAIN plan = 1..Len(plan)
      /\ cursor \in Nat /\ cursor # 0
  <2>1. /\ running \in Seq(Requests) /\ waiting \in Seq(Requests)
        /\ plan \in Seq(Requests \X Nat) /\ cursor \in Nat \ {0}
    BY <1>2 DEF TypeOK
  <2> QED
    BY <2>1, ListFacts
<1>4. phase = "running" /\ cursor <= n /\ Len(plan) = cursor - 1
        /\ \A p \in DOMAIN plan : plan[p][1] = running[p]
  BY <1>1, <1>2 DEF InRunningLoop, PlanInv
<1>5. n \in DOMAIN running /\ cursor \in DOMAIN running /\ n - 1 \in 0..n /\ n \in 1..n
  BY <1>3, <1>4
<1>6. v \in Requests /\ v \in Elements(running)
  BY <1>3, <1>5, ListFacts
<1>7. IsInjectiveSeq(running) /\ IsInjectiveSeq(waiting)
        /\ Elements(running) \cap Elements(waiting) = {}
  BY <1>2 DEF QueueInv
<1>8. \A p \in DOMAIN plan : plan[p][1] # v /\ p \in DOMAIN running /\ p < n
  <2>1. \A p \in DOMAIN plan : p \in DOMAIN running /\ p # n /\ p < n
    BY <1>3, <1>4
  <2> QED
    BY <1>4, <1>5, <1>7, <2>1 DEF IsInjectiveSeq
<1>9. /\ running' \in Seq(Requests) /\ IsInjectiveSeq(running') /\ Len(running') = n - 1
      /\ \A i \in 1..(n - 1) : running'[i] = running[i]
      /\ Elements(running') = Elements(running) \ {v}
  <2> DEFINE m == n - 1
             front == SubSeq(running, 1, m)
  <2>1. m \in 0..Len(running) /\ m \in Nat /\ m < n
    BY <1>3, <1>5
  <2>0. running \in Seq(Requests) /\ IsInjectiveSeq(running)
    BY <1>3, <1>7
  <2> HIDE DEF m, n, v, r
  <2>2. /\ front \in Seq(Requests) /\ IsInjectiveSeq(front) /\ Len(front) = m
        /\ Elements(front) = {running[i] : i \in 1..m}
    BY <2>0, <2>1, SplitFacts
  <2>3. \A i \in 1..m : front[i] = running[i]
    BY <2>0, <2>1
  <2> HIDE DEF front
  <2>4. \A i \in 1..m : i \in DOMAIN running /\ i # n
    BY <1>3, <2>1
  <2>5. \A i \in DOMAIN running : i = n \/ i \in 1..m
    BY <1>3, <2>1 DEF m
  <2>6. {running[i] : i \in 1..m} = Elements(running) \ {v}
    <3>1. v = running[n]
      BY DEF v
    <3> QED
      BY <1>5, <1>7, <2>4, <2>5, <3>1 DEF Elements, IsInjectiveSeq
  <2>7. running' = front
    BY <1>1 DEF front, m
  <2> QED
    BY <2>2, <2>3, <2>6, <2>7 DEF m
<1> HIDE DEF n, v, r
<1>10. /\ waiting' \in Seq(Requests) /\ IsInjectiveSeq(waiting')
       /\ Elements(waiting') = {v} \cup Elements(waiting)
  <2> DEFINE one == <<v>>
  <2>1. one \in Seq(Requests) /\ Elements(one) = {v} /\ IsInjectiveSeq(one)
    BY <1>6 DEF Elements, IsInjectiveSeq
  <2>2. waiting' = one \o waiting
    BY <1>1
  <2> HIDE DEF one
  <2>3. Elements(one) \cap Elements(waiting) = {}
    BY <1>6, <1>7, <2>1
  <2>4. /\ one \o waiting \in Seq(Requests) /\ IsInjectiveSeq(one \o waiting)
        /\ Elements(one \o waiting) = Elements(one) \cup Elements(waiting)
    BY <1>3, <1>7, <2>1, <2>3, ConcatFacts
  <2> QED
    BY <2>1, <2>2, <2>4
<1>11. /\ free' \in Seq(Blocks) /\ ref' \in [Blocks -> Nat]
       /\ table' \in [Requests -> Seq(Blocks)] /\ PoolAccounting'
  BY <1>1, <1>2, <1>6, ReleaseFacts
<1>12. /\ table'[v] = <<>>
       /\ \A q \in Requests : q # v => table'[q] = table[q] /\ computed'[q] = computed[q]
       /\ computed' \in [Requests -> Nat]
  BY <1>1, <1>2, <1>6 DEF TypeOK
<1>13. /\ phase' \in Phases
       /\ phase' = "idle" => plan' = <<>>
       /\ phase' = "running" => cursor <= n - 1
  <2>1. CASE v = r
    <3>1. phase' = IF plan = <<>> THEN "idle" ELSE "step"
      BY <1>1, <2>1 DEF ReturnPlan
    <3> QED
      BY <1>1, <3>1 DEF Phases
  <2>2. CASE v # r
    <3>1. phase' = "running"
      BY <1>1, <1>4, <2>2
    <3>2. cursor # n
      BY <2>2 DEF v, r
    <3>3. cursor <= n - 1
      BY <1>3, <1>4, <3>2
    <3> QED
      BY <3>1, <3>3 DEF Phases
  <2> QED
    BY <2>1, <2>2
<1>14. TypeOK'
  <2>1. preempted' \in BOOLEAN
    BY <1>1, Zenon
  <2> QED
    BY <1>1, <1>2, <1>9, <1>10, <1>11, <1>12, <1>13, <2>1 DEF TypeOK
<1>15. CacheBijection'
  BY <1>1, <1>2 DEF CacheBijection
<1>16. QueueInv'
  <2>1. Elements(running') \cap Elements(waiting') = {}
    BY <1>7, <1>9, <1>10
  <2>2. Elements(running') \cup Elements(waiting') = Elements(running) \cup Elements(waiting)
    BY <1>6, <1>9, <1>10
  <2> QED
    BY <1>1, <1>2, <1>9, <1>10, <2>1, <2>2 DEF QueueInv
<1>17. InPlan' = InPlan
  BY <1>1 DEF InPlan
<1>18. TableInv'
  <2>1. \A q \in Requests \ Elements(running') : table'[q] = <<>>
    BY <1>2, <1>9, <1>12 DEF TableInv
  <2>2. \A q \in Elements(running') \ InPlan' : q \in Elements(running) \ InPlan /\ q # v /\ q \in Requests
    BY <1>3, <1>9, <1>17, ListFacts
  <2> QED
    BY <1>1, <1>2, <1>12, <2>1, <2>2 DEF TableInv, Length
<1>19. PlanCovered'
  <2>1. \A p \in DOMAIN plan : /\ plan[p][1] \in Requests /\ plan[p][1] # v
                               /\ plan[p][1] \in Elements(running)
    BY <1>2, <1>3, <1>8 DEF PlanCovered
  <2> QED
    BY <1>1, <1>2, <1>9, <1>12, <2>1 DEF PlanCovered, Length
<1>20. PlanInv'
  <2>1. \A p \in DOMAIN plan : p \in 1..(n - 1)
    BY <1>3, <1>8
  <2>2. \A p \in DOMAIN plan : plan[p][1] = running'[p]
    BY <1>4, <1>9, <2>1
  <2>3. phase' = "idle" => plan' = <<>>
    BY <1>13
  <2>4. plan' = plan /\ cursor' = cursor
    BY <1>1
  <2>5. phase' = "running" => cursor <= Len(running') + 1
    BY <1>3, <1>9, <1>13
  <2> QED
    BY <1>4, <2>2, <2>3, <2>4, <2>5 DEF PlanInv
<1> QED
  BY <1>11, <1>14, <1>15, <1>16, <1>18, <1>19, <1>20 DEF Inductive

-----------------------------------------------------------------------------
(* Admission *)

(* Taking out of a list the elements of another shortens it by no more than *)
(* the places of the other that are in it.                                  *)
LEMMA LeftoverLength ==
  ASSUME NEW T, NEW s \in Seq(T), IsInjectiveSeq(s), NEW h \in Seq(T),
         NEW rest, rest = Elements(s) \ Elements(h),
         NEW left, left = Sublist(s, rest),
         NEW both, \A i : i \in both <=> i \in 1..Len(h) /\ h[i] \in Elements(s)
  PROVE  Cardinality(both) \in Nat /\ Len(s) <= Len(left) + Cardinality(both)
<1> DEFINE S == Elements(s)
           H == Elements(h)
<1>0. rest = S \ H /\ both = {i \in 1..Len(h) : h[i] \in S}
  OBVIOUS
<1>1. IsFiniteSet(S) /\ Cardinality(S) = Len(s)
  BY InjectiveCardinality
<1>2. left \in Seq(T) /\ IsInjectiveSeq(left) /\ Elements(left) = S \cap rest
  BY SublistType, SublistInjective, SublistElements
<1>3. Elements(left) = rest
  BY <1>2
<1>4. Cardinality(rest) = Len(left)
  BY <1>2, <1>3, InjectiveCardinality
<1> HIDE DEF S
<1>5. Cardinality(rest) = Cardinality(S) - Cardinality(S \cap H)
  BY <1>0, <1>1, FS_Difference
<1>6. IsFiniteSet(both) /\ Cardinality(both) \in Nat
  <2>1. IsFiniteSet(1..Len(h)) /\ both \in SUBSET (1..Len(h))
    BY FS_Interval
  <2> QED
    BY <2>1, FS_Subset, FS_CardinalityType
<1>7. Cardinality(S \cap H) <= Cardinality(both)
  <2> DEFINE f == [i \in both |-> h[i]]
  <2>1. \A i \in both : h[i] \in S \cap H
    <3>1. \A i \in both : i \in DOMAIN h /\ h[i] \in S
      BY <1>0
    <3> QED
      BY <3>1 DEF Elements
  <2>2. \A x \in S \cap H : \E i \in both : h[i] = x
    <3>1. DOMAIN h = 1..Len(h)
      OBVIOUS
    <3> QED
      BY <1>0, <3>1 DEF Elements
  <2>3. f \in Surjection(both, S \cap H)
    BY <2>1, <2>2 DEF Surjection
  <2> QED
    BY <1>6, <2>3, FS_Surjection
<1>8. Cardinality(S \cap H) \in Nat
  BY <1>1, FS_Intersection, FS_CardinalityType
<1>9. Len(s) \in Nat /\ Len(left) \in Nat
  BY <1>2
<1>10. Len(s) <= Len(left) + Cardinality(both)
  BY <1>1, <1>4, <1>5, <1>6, <1>7, <1>8, <1>9
<1> QED
  BY <1>6, <1>10

(* What the head of the queue asks for: at least one token past its hits,   *)
(* within the budget and its sequence, and blocks that the free queue holds *)
(* besides the hits themselves, when Fits says so.                          *)
LEMMA AdmitFacts ==
  ASSUME Inductive, InAdmitLoop, NEW r, r = Head(waiting)
  PROVE  /\ r \in Requests /\ r \in Elements(waiting)
         /\ r \notin Elements(running) /\ r \notin InPlan
         /\ Hit(r) \in Nat /\ Hit(r) * Block \in Nat
         /\ Chunk(r) \in 1..budget /\ Chunk(r) \in Nat
         /\ Hit(r) * Block + Chunk(r) <= Length(r)
         /\ ChunkBlocks(r) \in Nat
         /\ Hit(r) + ChunkBlocks(r) = CeilBlocks(Hit(r) * Block + Chunk(r))
<1>1. /\ waiting \in Seq(Requests) /\ waiting # <<>> /\ budget \in Nat /\ budget > 0
      /\ plan \in Seq(Requests \X Nat)
      /\ TypeOK /\ CacheBijection /\ QueueInv /\ PlanCovered
  <2>1. waiting \in Seq(Requests) /\ budget \in 0..TokenBudget /\ plan \in Seq(Requests \X Nat)
    BY DEF Inductive, TypeOK
  <2> QED
    BY <2>1 DEF Inductive, InAdmitLoop
<1>2. r \in Requests /\ r \in Elements(waiting)
  <2>1. r = waiting[1] /\ 1 \in DOMAIN waiting
    BY <1>1, HeadTailFacts
  <2> QED
    BY <1>1, <2>1, ListFacts
<1>3. r \notin Elements(running) /\ generated[r] < OutputLen[r]
  BY <1>1, <1>2 DEF QueueInv
<1>4. r \notin InPlan
  BY <1>1, <1>3 DEF InPlan, PlanCovered
<1> DEFINE h == Hit(r)
           b == h * Block
           L == Length(r)
           c == Chunk(r)
<1>5. h \in Nat /\ b < L /\ L \in Nat
  BY <1>1, <1>2, <1>3, HitFacts
<1>6. c = LeastOf(L - b, budget)
  BY DEF Chunk
<1>7. ChunkBlocks(r) = CeilBlocks(b + c) - h
  BY DEF ChunkBlocks
<1>8. b = h * Block
  OBVIOUS
<1> HIDE DEF h, c, L
<1>9. b \in Nat
  BY <1>5, DivExact
<1> HIDE DEF b
<1>10. c \in 1..budget /\ c \in Nat /\ b + c <= L
  BY <1>1, <1>5, <1>6, <1>9 DEF LeastOf
<1>11. CeilBlocks(b + c) \in Nat /\ h <= CeilBlocks(b + c)
  <2>1. b + c \in Nat /\ b <= b + c
    BY <1>9, <1>10
  <2>2. CeilBlocks(b) <= CeilBlocks(b + c) /\ CeilBlocks(b + c) \in Nat
    BY <1>9, <2>1, CeilFacts
  <2>3. CeilBlocks(b) = h
    BY <1>5, <1>8, CeilFacts
  <2> QED
    BY <2>2, <2>3
<1>12. CeilBlocks(b + c) - h \in Nat /\ h + (CeilBlocks(b + c) - h) = CeilBlocks(b + c)
  BY <1>5, <1>11
<1> QED
  BY <1>2, <1>3, <1>4, <1>5, <1>7, <1>9, <1>10, <1>12 DEF h, b, L, c

(* Room enough: with the hits taken out of the free queue, the blocks that   *)
(* Fits counted on are still there, so _grow does not fail.                *)
LEMMA LeftoverFacts ==
  ASSUME Inductive, InAdmitLoop, NEW r, r = Head(waiting), Fits(r),
         NEW left, left = Sublist(free, Elements(free) \ Elements(HitTable(r)))
  PROVE  /\ left \in Seq(Blocks) /\ IsInjectiveSeq(left) /\ Len(left) \in Nat
         /\ Elements(left) = Elements(free) \ Elements(HitTable(r))
         /\ ChunkBlocks(r) \in Nat /\ ChunkBlocks(r) <= Len(left)
         /\ HitTable(r) \in Seq(Blocks) /\ Len(HitTable(r)) = Hit(r)
<1> DEFINE t == HitTable(r)
           h == Hit(r)
           k == ChunkBlocks(r)
           rest == Elements(free) \ Elements(t)
           both == {i \in 1..Len(t) : t[i] \in Elements(free)}
<1>1. TypeOK /\ PoolAccounting /\ CacheBijection /\ QueueInv
  BY DEF Inductive
<1>2. r \in Requests /\ r \in Elements(waiting) /\ h \in Nat /\ k \in Nat
  BY AdmitFacts
<1>3. t \in Seq(Blocks) /\ Len(t) = h
  BY <1>1, <1>2, HitFacts DEF QueueInv
<1>4. /\ free \in Seq(Blocks) /\ IsInjectiveSeq(free) /\ Len(free) \in Nat
      /\ Elements(free) = {b \in Blocks : ref[b] = 0}
  BY <1>1, ListFacts DEF TypeOK, PoolAccounting
<1>5. k + Cardinality({i \in 1..h : ref[t[i]] = 0}) <= Len(free)
  BY DEF Fits, Evictable
<1>6. left = Sublist(free, rest)
  OBVIOUS
<1> HIDE DEF t, h, k
<1>7. both = {i \in 1..h : ref[t[i]] = 0}
  <2>1. \A i \in 1..h : t[i] \in Blocks
    BY <1>3
  <2> QED
    BY <1>3, <1>4, <2>1
<1>8. /\ rest = Elements(free) \ Elements(t)
      /\ \A i : i \in both <=> i \in 1..Len(t) /\ t[i] \in Elements(free)
  OBVIOUS
<1> HIDE DEF both, rest
<1>9. left \in Seq(Blocks) /\ IsInjectiveSeq(left) /\ Elements(left) = Elements(free) \cap rest
  <2>1. Sublist(free, rest) \in Seq(Blocks)
    BY <1>4, SublistType
  <2>2. IsInjectiveSeq(Sublist(free, rest))
    BY <1>4, SublistInjective
  <2>3. Elements(Sublist(free, rest)) = Elements(free) \cap rest
    BY <1>4, SublistElements
  <2> QED
    BY <1>6, <2>1, <2>2, <2>3
<1>10. Elements(left) = Elements(free) \ Elements(t) /\ Len(left) \in Nat
  <2>1. Elements(left) = Elements(free) \ Elements(t)
    BY <1>8, <1>9
  <2>2. Len(left) \in Nat
    BY <1>9, ListFacts
  <2> QED
    BY <2>1, <2>2
<1>11. Cardinality(both) \in Nat /\ Len(free) <= Len(left) + Cardinality(both)
  BY <1>3, <1>4, <1>6, <1>8, LeftoverLength
<1>12. k <= Len(left)
  BY <1>2, <1>4, <1>5, <1>7, <1>10, <1>11
<1> QED
  BY <1>2, <1>3, <1>9, <1>10, <1>12 DEF t, h, k

(* The head is admitted with a table that covers its first chunk: Fits      *)
(* makes sure that _grow cannot fail.                                       *)
LEMMA AdmitStep == Inductive /\ Admit => Inductive'
<1> SUFFICES ASSUME Inductive, Admit PROVE Inductive'
  OBVIOUS
<1> DEFINE r == Head(waiting)
           h == Hit(r)
           t == HitTable(r)
           k == ChunkBlocks(r)
           c == Chunk(r)
           left == Sublist(free, Elements(free) \ Elements(t))
           got == IF k <= Len(left) THEN k ELSE 0
           fresh == SubSeq(left, 1, got)
<1>1. /\ InAdmitLoop /\ Fits(r) /\ TakeFree(left, got)
      /\ ref' = [b \in Blocks |-> IF b \in {left[i] : i \in 1..got} THEN 1
                                  ELSE IF b \in Elements(t) THEN ref[b] + 1 ELSE ref[b]]
      /\ table' = [table EXCEPT ![r] = t \o fresh]
      /\ computed' = [computed EXCEPT ![r] = h * Block]
      /\ engineHit' = [engineHit EXCEPT ![r] = ReportedHit(r)]
      /\ running' = Append(running, r)
      /\ plan' = Append(plan, <<r, c>>)
      /\ budget' = budget - c
      /\ waiting' = Tail(waiting)
      /\ UNCHANGED <<rank, generated, first, done, phase, cursor, preempted>>
  BY DEF Admit
<1>2. TypeOK /\ PoolAccounting /\ CacheBijection /\ QueueInv /\ TableInv /\ PlanCovered /\ PlanInv
  BY DEF Inductive
<1>3. /\ r \in Requests /\ r \in Elements(waiting)
      /\ r \notin Elements(running) /\ r \notin InPlan
      /\ h \in Nat /\ h * Block \in Nat
      /\ c \in 1..budget /\ c \in Nat
      /\ h * Block + c <= Length(r)
      /\ k \in Nat
      /\ h + k = CeilBlocks(h * Block + c)
  BY <1>1, AdmitFacts
<1>4. generated[r] < OutputLen[r] /\ table[r] = <<>>
  BY <1>2, <1>3 DEF QueueInv, TableInv
<1>5. t \in Seq(Blocks) /\ Len(t) = h /\ IsInjectiveSeq(t)
  BY <1>2, <1>3, <1>4, HitFacts
<1>6. k + Evictable(r) <= Len(free)
  BY <1>1 DEF Fits
<1>7. Evictable(r) = Cardinality({i \in 1..h : ref[t[i]] = 0})
  BY DEF Evictable
<1>8. UNCHANGED <<rank, generated, first, done, phase, cursor, preempted>>
        /\ phase = "admit" /\ waiting # <<>>
  BY <1>1 DEF InAdmitLoop
<1>9. /\ free \in Seq(Blocks) /\ IsInjectiveSeq(free) /\ Len(free) \in Nat
      /\ Elements(free) = {b \in Blocks : ref[b] = 0}
      /\ table \in [Requests -> Seq(Blocks)]
      /\ running \in Seq(Requests) /\ waiting \in Seq(Requests)
      /\ plan \in Seq(Requests \X Nat) /\ Len(plan) \in Nat /\ DOMAIN plan = 1..Len(plan)
      /\ budget \in Nat /\ budget <= TokenBudget
  <2>1. /\ free \in Seq(Blocks) /\ table \in [Requests -> Seq(Blocks)]
        /\ running \in Seq(Requests) /\ waiting \in Seq(Requests)
        /\ plan \in Seq(Requests \X Nat) /\ budget \in 0..TokenBudget
    BY <1>2 DEF TypeOK
  <2>2. IsInjectiveSeq(free) /\ Elements(free) = {b \in Blocks : ref[b] = 0}
    BY <1>2 DEF PoolAccounting
  <2>3. Len(free) \in Nat /\ Len(plan) \in Nat /\ DOMAIN plan = 1..Len(plan)
    BY <2>1, ListFacts
  <2>4. budget \in Nat /\ budget <= TokenBudget
    BY <2>1
  <2> QED
    BY <2>1, <2>2, <2>3, <2>4
<1>10. r = waiting[1]
  BY <1>8, <1>9, HeadTailFacts
<1>11. engineHit' \in [Requests -> Nat \cup {NoHit}]
  <2>1. ReportedHit(r) \in Nat \cup {NoHit}
    BY <1>2, <1>3 DEF ReportedHit, TypeOK
  <2> QED
    BY <1>1, <1>2, <2>1 DEF TypeOK
<1>12. /\ left \in Seq(Blocks) /\ IsInjectiveSeq(left) /\ Len(left) \in Nat
       /\ Elements(left) = Elements(free) \ Elements(t)
       /\ k <= Len(left)
  BY <1>1, LeftoverFacts
<1> HIDE DEF r, h, t, k, c
<1> HIDE DEF left
<1>13. got = k /\ got \in 0..Len(left) /\ got \in Nat
  BY <1>3, <1>12
<1> HIDE DEF got
<1>14. /\ fresh \in Seq(Blocks) /\ IsInjectiveSeq(fresh) /\ Len(fresh) = k
       /\ Elements(fresh) = {left[i] : i \in 1..got}
  <2>1. left \in Seq(Blocks) /\ IsInjectiveSeq(left) /\ got \in 0..Len(left)
    BY <1>12, <1>13
  <2>2. /\ fresh \in Seq(Blocks) /\ IsInjectiveSeq(fresh) /\ Len(fresh) = got
        /\ Elements(fresh) = {left[i] : i \in 1..got}
    BY <2>1, SplitFacts
  <2> QED
    BY <1>13, <2>2
<1>15. /\ free' \in Seq(Blocks) /\ IsInjectiveSeq(free')
       /\ Elements(free') = (Elements(free) \ Elements(t)) \ Elements(fresh)
       /\ blockKey' \in [Blocks -> Keys \cup {NoKey}]
       /\ DOMAIN cached' \subseteq Keys /\ \A b \in DOMAIN cached' : cached'[b] \in Blocks
       /\ CacheBijection'
  <2>1. /\ free' \in Seq(Blocks) /\ IsInjectiveSeq(free')
        /\ Elements(free') = Elements(left) \ {left[i] : i \in 1..got}
        /\ blockKey' \in [Blocks -> Keys \cup {NoKey}]
        /\ DOMAIN cached' \subseteq Keys /\ \A b \in DOMAIN cached' : cached'[b] \in Blocks
        /\ CacheBijection'
    BY <1>1, <1>2, <1>12, <1>13, TakeFreeFacts
  <2> QED
    BY <1>12, <1>14, <2>1
<1>16. Elements(fresh) \subseteq Elements(free) \ Elements(t)
  <2>1. \A i \in 1..got : i \in DOMAIN left
    BY <1>12, <1>13
  <2> QED
    BY <1>12, <1>14, <2>1 DEF Elements
<1> HIDE DEF fresh
<1>17. /\ ref' \in [Blocks -> Nat] /\ table' \in [Requests -> Seq(Blocks)] /\ PoolAccounting'
  <2>1. Elements(table[r]) = {}
    BY <1>4 DEF Elements
  <2>2. ref' = [b \in Blocks |-> IF b \in Elements(fresh) THEN 1
                  ELSE IF b \in Elements(t) /\ b \notin Elements(table[r])
                         THEN ref[b] + 1 ELSE ref[b]]
    BY <1>1, <1>14, <2>1
  <2>3. Elements(table[r]) \subseteq Elements(t)
    BY <2>1
  <2>4. table' = [table EXCEPT ![r] = t \o fresh]
    BY <1>1
  <2> QED
    BY <1>2, <1>3, <1>5, <1>14, <1>15, <1>16, <2>2, <2>3, <2>4, GrowFacts
<1>18. /\ Len(table'[r]) = CeilBlocks(h * Block + c)
       /\ \A q \in Requests : q # r => table'[q] = table[q]
  <2>1. table'[r] = t \o fresh /\ \A q \in Requests : q # r => table'[q] = table[q]
    BY <1>1, <1>3, <1>9
  <2>2. Len(t \o fresh) = Len(t) + Len(fresh)
    BY <1>5, <1>14, ConcatFacts
  <2> QED
    BY <1>3, <1>5, <1>14, <2>1, <2>2
<1>19. /\ plan' \in Seq(Requests \X Nat) /\ Len(plan') = Len(plan) + 1
       /\ DOMAIN plan' = DOMAIN plan \cup {Len(plan) + 1}
       /\ \A p \in DOMAIN plan : plan'[p] = plan[p]
       /\ plan'[Len(plan) + 1] = <<r, c>>
  <2> DEFINE e == <<r, c>>
  <2>1. e \in Requests \X Nat
    BY <1>3
  <2>2. plan' = Append(plan, e)
    BY <1>1
  <2> HIDE DEF e
  <2>3. /\ Append(plan, e) \in Seq(Requests \X Nat) /\ Len(Append(plan, e)) = Len(plan) + 1
        /\ DOMAIN Append(plan, e) = DOMAIN plan \cup {Len(plan) + 1}
        /\ \A p \in DOMAIN plan : Append(plan, e)[p] = plan[p]
        /\ Append(plan, e)[Len(plan) + 1] = e
    BY <1>9, <2>1, AppendFacts
  <2> QED
    BY <2>2, <2>3 DEF e
<1>20. /\ running' \in Seq(Requests) /\ IsInjectiveSeq(running')
       /\ Elements(running') = Elements(running) \cup {r}
  <2>1. IsInjectiveSeq(running)
    BY <1>2 DEF QueueInv
  <2> QED
    BY <1>1, <1>3, <1>9, <2>1, AppendFacts
<1>21. /\ waiting' \in Seq(Requests) /\ IsInjectiveSeq(waiting')
       /\ Elements(waiting) = {r} \cup Elements(waiting') /\ r \notin Elements(waiting')
  <2>1. IsInjectiveSeq(waiting)
    BY <1>2 DEF QueueInv
  <2> QED
    BY <1>1, <1>8, <1>9, <1>10, <2>1, HeadTailFacts
<1>22. /\ computed' \in [Requests -> Nat] /\ computed'[r] = h * Block
       /\ \A q \in Requests : q # r => computed'[q] = computed[q]
  BY <1>1, <1>2, <1>3 DEF TypeOK
<1>23. TypeOK'
  <2>1. budget' \in 0..TokenBudget
    <3>1. budget - c \in 0..TokenBudget
      BY <1>3, <1>9
    <3> QED
      BY <1>1, <3>1
  <2> QED
    BY <1>2, <1>8, <1>11, <1>15, <1>17, <1>19, <1>20, <1>21, <1>22, <2>1 DEF TypeOK
<1>24. QueueInv'
  <2>1. Elements(running') \cap Elements(waiting') = {}
    BY <1>2, <1>20, <1>21 DEF QueueInv
  <2>2. Elements(running') \cup Elements(waiting') = Elements(running) \cup Elements(waiting)
    BY <1>20, <1>21
  <2> QED
    BY <1>2, <1>8, <1>20, <1>21, <2>1, <2>2 DEF QueueInv
<1>25. InPlan' = InPlan \cup {r}
  <2>1. \A p \in DOMAIN plan : plan'[p][1] = plan[p][1]
    BY <1>19
  <2>2. plan'[Len(plan) + 1][1] = r
    BY <1>19
  <2>3. DOMAIN plan' = DOMAIN plan \cup {Len(plan) + 1}
    BY <1>19
  <2>4. InPlan' = {plan'[p][1] : p \in DOMAIN plan'}
    BY DEF InPlan
  <2> QED
    BY <2>1, <2>2, <2>3, <2>4 DEF InPlan
<1>26. TableInv'
  <2>1. \A q \in Requests \ Elements(running') : table'[q] = <<>>
    BY <1>2, <1>18, <1>20 DEF TableInv
  <2>2. Elements(running) \subseteq Requests
    BY <1>9, ListFacts
  <2>3. \A q \in Elements(running') \ InPlan' :
          q \in Elements(running) \ InPlan /\ q # r /\ q \in Requests
    BY <1>20, <1>25, <2>2
  <2> QED
    BY <1>2, <1>8, <1>18, <1>22, <2>1, <2>3 DEF TableInv, Length
<1>27. PlanCovered'
  <2> DEFINE Covered(p) ==
        LET q == plan'[p][1] n == plan'[p][2]
        IN /\ q \in Elements(running')
           /\ \A o \in DOMAIN plan' : plan'[o][1] = q => o = p
           /\ n \in 1..TokenBudget
           /\ computed'[q] + n <= Length(q)
           /\ Len(table'[q]) = CeilBlocks(computed'[q] + n)
  <2>1. \A p \in DOMAIN plan : plan[p][1] \in Requests /\ plan[p][1] # r
    BY <1>3, <1>9, SMTT(30) DEF InPlan
  <2>2. ASSUME NEW p \in DOMAIN plan PROVE Covered(p)
    <3>1. /\ plan'[p] = plan[p] /\ table'[plan[p][1]] = table[plan[p][1]]
          /\ computed'[plan[p][1]] = computed[plan[p][1]]
          /\ plan[p][1] # plan'[Len(plan) + 1][1]
      BY <1>18, <1>19, <1>22, <2>1
    <3> QED
      BY <1>2, <1>19, <1>20, <3>1 DEF PlanCovered
  <2>3. Covered(Len(plan) + 1)
    <3>1. c \in 1..TokenBudget
      BY <1>3, <1>9
    <3>2. \A o \in DOMAIN plan : plan'[o][1] # r
      BY <1>19, <2>1
    <3>3. /\ plan'[Len(plan) + 1][1] = r /\ plan'[Len(plan) + 1][2] = c
          /\ DOMAIN plan' = DOMAIN plan \cup {Len(plan) + 1}
      BY <1>19
    <3>4. \A o \in DOMAIN plan' : plan'[o][1] = r => o = Len(plan) + 1
      BY <3>2, <3>3
    <3>5. r \in Elements(running')
      BY <1>20
    <3>6. computed'[r] = h * Block /\ Len(table'[r]) = CeilBlocks(h * Block + c)
      BY <1>18, <1>22
    <3>7. h * Block + c <= Length(r)
      BY <1>3
    <3> QED
      BY <3>1, <3>3, <3>4, <3>5, <3>6, <3>7
  <2>4. \A p \in DOMAIN plan' : Covered(p)
    BY <1>19, <2>2, <2>3
  <2> QED
    BY <1>8, <2>4 DEF PlanCovered, Length
<1>28. PlanInv'
  BY <1>8 DEF PlanInv
<1> QED
  BY <1>15, <1>17, <1>23, <1>24, <1>26, <1>27, <1>28 DEF Inductive

-----------------------------------------------------------------------------
(* finish_step *)

(* What counting a step's tokens does to one request, and leaves to the     *)
(* rest of the plan.                                                        *)
LEMMA FinishFacts ==
  ASSUME Inductive, InFinishLoop, CountStep, NEW f, f = Finishing
  PROVE  /\ f \in Requests /\ f \in Elements(running)
         /\ computed[f] \in Nat /\ Reached \in Nat /\ Length(f) \in Nat
         /\ computed[f] <= Reached /\ Reached <= Length(f)
         /\ Len(table[f]) = CeilBlocks(Reached)
         /\ generated[f] \in Nat /\ generated[f] < OutputLen[f]
         /\ InPlan = {f} \cup InPlan' /\ f \notin InPlan'
         /\ plan' \in Seq(Requests \X Nat)
         /\ \A p \in DOMAIN plan' : /\ p + 1 \in DOMAIN plan /\ plan'[p] = plan[p + 1]
                                    /\ plan'[p][1] \in Requests /\ plan'[p][1] # f
         /\ computed' \in [Requests -> Nat] /\ computed'[f] = Reached
         /\ \A q \in Requests : q # f => computed'[q] = computed[q]
         /\ blockKey' \in [Blocks -> Keys \cup {NoKey}]
         /\ DOMAIN cached' \subseteq Keys /\ \A k \in DOMAIN cached' : cached'[k] \in Blocks
         /\ CacheBijection'
<1> DEFINE n == plan[1][2]
           R == Reached
<1>1. /\ plan \in Seq(Requests \X Nat) /\ plan # <<>>
      /\ TypeOK /\ PoolAccounting /\ CacheBijection /\ QueueInv /\ PlanCovered
      /\ computed \in [Requests -> Nat]
  BY DEF Inductive, TypeOK, InFinishLoop
<1>2. /\ computed' = [computed EXCEPT ![f] = R]
      /\ plan' = Tail(plan)
      /\ CacheFull(f, R)
      /\ R = computed[f] + n
      /\ f = plan[1][1]
  BY DEF CountStep, Reached, Finishing
<1>3. /\ plan[1] \in Requests \X Nat /\ 1 \in DOMAIN plan
      /\ Tail(plan) \in Seq(Requests \X Nat)
      /\ \A i \in DOMAIN Tail(plan) : i + 1 \in DOMAIN plan /\ Tail(plan)[i] = plan[i + 1]
      /\ \A j \in DOMAIN plan : j # 1 => j - 1 \in DOMAIN Tail(plan) /\ Tail(plan)[j - 1] = plan[j]
  <2> DEFINE P == Requests \X Nat
  <2>1. plan \in Seq(P)
    BY <1>1
  <2> HIDE DEF P
  <2>2. /\ plan[1] \in P /\ 1 \in DOMAIN plan
        /\ Tail(plan) \in Seq(P)
        /\ \A i \in DOMAIN Tail(plan) : i + 1 \in DOMAIN plan /\ Tail(plan)[i] = plan[i + 1]
        /\ \A j \in DOMAIN plan : j # 1 => j - 1 \in DOMAIN Tail(plan) /\ Tail(plan)[j - 1] = plan[j]
    BY <1>1, <2>1, HeadTailFacts
  <2> QED
    BY <2>2 DEF P
<1>4. f \in Requests /\ n \in Nat
  BY <1>2, <1>3
<1> HIDE DEF n, R
<1>5. /\ f \in Elements(running)
      /\ \A q \in DOMAIN plan : plan[q][1] = f => q = 1
      /\ computed[f] + n <= Length(f)
      /\ Len(table[f]) = CeilBlocks(computed[f] + n)
  BY <1>1, <1>2, <1>3 DEF PlanCovered, n
<1>6. computed[f] \in Nat /\ Length(f) \in Nat /\ generated[f] \in Nat
        /\ InputLen[f] \in Nat /\ OutputLen[f] \in Nat
  BY <1>1, <1>4, LengthType
<1>7. R \in Nat /\ computed[f] <= R /\ R <= Length(f)
  BY <1>2, <1>4, <1>5, <1>6
<1>8. generated[f] < OutputLen[f]
  BY <1>1, <1>5 DEF QueueInv
<1>9. \A p \in DOMAIN plan' : /\ p + 1 \in DOMAIN plan /\ plan'[p] = plan[p + 1]
                              /\ plan'[p][1] \in Requests /\ plan'[p][1] # f
  <2>1. \A p \in DOMAIN plan' : p \in Nat /\ p # 0 /\ p + 1 # 1
                                  /\ p + 1 \in DOMAIN plan /\ plan'[p] = plan[p + 1]
    <3> DEFINE rest == Tail(plan)
    <3>1. DOMAIN rest = 1..Len(rest) /\ Len(rest) \in Nat
      BY <1>3
    <3>2. /\ plan' = rest
          /\ \A i \in DOMAIN rest : i + 1 \in DOMAIN plan /\ rest[i] = plan[i + 1]
      BY <1>2, <1>3
    <3> HIDE DEF rest
    <3>3. \A p \in DOMAIN rest : p \in Nat /\ p # 0 /\ p + 1 # 1
      BY <3>1
    <3> QED
      BY <3>2, <3>3
  <2>2. \A p \in DOMAIN plan : plan[p][1] \in Requests
    BY <1>1
  <2> QED
    BY <1>5, <2>1, <2>2
<1>10. InPlan = {f} \cup InPlan' /\ f \notin InPlan'
  <2>1. InPlan' = {plan'[p][1] : p \in DOMAIN plan'}
    BY DEF InPlan
  <2>2. \A j \in DOMAIN plan : j = 1 \/ plan[j][1] \in InPlan'
    BY <1>2, <1>3, <2>1
  <2>3. \A p \in DOMAIN plan' : plan'[p][1] \in InPlan
    BY <1>9 DEF InPlan
  <2>4. plan[1][1] \in InPlan
    BY <1>3 DEF InPlan
  <2> QED
    BY <1>2, <1>9, <2>1, <2>2, <2>3, <2>4 DEF InPlan
<1>11. /\ computed' \in [Requests -> Nat] /\ computed'[f] = R
       /\ \A q \in Requests : q # f => computed'[q] = computed[q]
  BY <1>1, <1>2, <1>4, <1>7
<1>12. /\ blockKey' \in [Blocks -> Keys \cup {NoKey}]
       /\ DOMAIN cached' \subseteq Keys /\ \A k \in DOMAIN cached' : cached'[k] \in Blocks
       /\ CacheBijection'
  <2>1. R \div Block <= Len(table[f])
    <3>1. R <= R /\ R \div Block <= CeilBlocks(R)
      BY <1>7, CeilFacts
    <3> QED
      BY <1>2, <1>5, <3>1
  <2>2. R <= InputLen[f] + OutputLen[f]
    BY <1>6, <1>7, <1>8 DEF Length
  <2>3. IsInjectiveSeq(table[f])
    BY <1>1, <1>4 DEF PoolAccounting
  <2> QED
    BY <1>1, <1>2, <1>4, <1>7, <2>1, <2>2, <2>3, CacheFullFacts
<1> QED
  BY <1>2, <1>3, <1>4, <1>5, <1>6, <1>7, <1>8, <1>9, <1>10, <1>11, <1>12 DEF R

(* What the three ends of a request's step share: the plan loses its head,  *)
(* everyone else is left as they were.                                      *)
LEMMA RestOfPlan ==
  ASSUME Inductive, InFinishLoop, CountStep, NEW f, f = Finishing,
         Elements(running) \ {f} \subseteq Elements(running'),
         \A q \in Requests : q # f => table'[q] = table[q] /\ generated'[q] = generated[q],
         phase' = phase
  PROVE  PlanCovered' /\ PlanInv'
<1>1. PlanCovered /\ phase = "finish" /\ phase' = "finish"
  BY DEF Inductive, InFinishLoop
<1>2. /\ \A p \in DOMAIN plan' : /\ p + 1 \in DOMAIN plan /\ plan'[p] = plan[p + 1]
                                 /\ plan'[p][1] \in Requests /\ plan'[p][1] # f
      /\ \A q \in Requests : q # f => computed'[q] = computed[q]
      /\ plan' \in Seq(Requests \X Nat)
  BY FinishFacts
<1>3. ASSUME NEW p \in DOMAIN plan'
      PROVE  LET q == plan'[p][1] n == plan'[p][2]
             IN /\ q \in Elements(running')
                /\ \A o \in DOMAIN plan' : plan'[o][1] = q => o = p
                /\ n \in 1..TokenBudget
                /\ computed'[q] + n <= InputLen[q] + generated'[q]
                /\ Len(table'[q]) = CeilBlocks(computed'[q] + n)
  <2> DEFINE q == plan'[p][1]
             n == plan'[p][2]
  <2>1. /\ p + 1 \in DOMAIN plan /\ plan'[p] = plan[p + 1] /\ q \in Requests /\ q # f
    BY <1>2
  <2>2. /\ q \in Elements(running)
        /\ \A o \in DOMAIN plan : plan[o][1] = q => o = p + 1
        /\ n \in 1..TokenBudget
        /\ computed[q] + n <= Length(q)
        /\ Len(table[q]) = CeilBlocks(computed[q] + n)
    BY <1>1, <2>1 DEF PlanCovered
  <2>3. \A o \in DOMAIN plan' : plan'[o][1] = q => o = p
    <3>1. Len(plan') \in Nat /\ DOMAIN plan' = 1..Len(plan')
      BY <1>2
    <3>2. \A o \in DOMAIN plan' : plan'[o][1] = q => o + 1 = p + 1
      BY <1>2, <2>2
    <3> QED
      BY <3>1, <3>2
  <2>4. table'[q] = table[q] /\ generated'[q] = generated[q] /\ computed'[q] = computed[q]
    BY <1>2, <2>1
  <2>5. Length(q) = InputLen[q] + generated'[q]
    BY <2>4 DEF Length
  <2>6. q \in Elements(running')
    BY <2>1, <2>2
  <2> QED
    BY <2>2, <2>3, <2>4, <2>5, <2>6
<1>4. PlanCovered'
  BY <1>3 DEF PlanCovered, Length
<1>5. PlanInv'
  BY <1>1 DEF PlanInv
<1> QED
  BY <1>4, <1>5

LEMMA FinishChunkStep == Inductive /\ FinishChunk => Inductive'
<1> SUFFICES ASSUME Inductive, FinishChunk PROVE Inductive'
  OBVIOUS
<1> DEFINE f == Finishing
           R == Reached
<1>1. /\ InFinishLoop /\ R < Length(f) /\ CountStep
      /\ UNCHANGED <<free, ref, rank, generated, table, engineHit, first, done,
                     waiting, running, phase, budget, cursor, preempted>>
  BY DEF FinishChunk
<1>2. TypeOK /\ PoolAccounting /\ QueueInv /\ TableInv
  BY DEF Inductive
<1>3. /\ Len(table[f]) = CeilBlocks(R)
      /\ InPlan = {f} \cup InPlan' /\ f \notin InPlan'
      /\ plan' \in Seq(Requests \X Nat)
      /\ computed' \in [Requests -> Nat] /\ computed'[f] = R
      /\ \A q \in Requests : q # f => computed'[q] = computed[q]
      /\ blockKey' \in [Blocks -> Keys \cup {NoKey}]
      /\ DOMAIN cached' \subseteq Keys /\ \A k \in DOMAIN cached' : cached'[k] \in Blocks
      /\ CacheBijection'
  BY <1>1, FinishFacts
<1>4. PlanCovered' /\ PlanInv'
  BY <1>1, RestOfPlan
<1> HIDE DEF f, R
<1>5. TypeOK'
  BY <1>1, <1>2, <1>3 DEF TypeOK
<1>6. PoolAccounting' /\ QueueInv'
  BY <1>1, <1>2 DEF PoolAccounting, Holders, QueueInv
<1>7. TableInv'
  <2>1. running \in Seq(Requests)
    BY <1>2 DEF TypeOK
  <2>2. Elements(running) \subseteq Requests
    BY <2>1, ListFacts
  <2>3. ASSUME NEW q \in Elements(running) \ InPlan'
        PROVE  computed'[q] < Length(q) /\ Len(table[q]) = CeilBlocks(computed'[q])
    <3>1. CASE q = f
      BY <1>1, <1>3, <3>1
    <3>2. CASE q # f
      <4>1. q \in Elements(running) \ InPlan /\ computed'[q] = computed[q]
        BY <1>3, <2>2, <2>3, <3>2
      <4> QED
        BY <1>2, <4>1 DEF TableInv
    <3> QED
      BY <3>1, <3>2
  <2> QED
    BY <1>1, <1>2, <2>3 DEF TableInv, Length
<1> QED
  BY <1>3, <1>4, <1>5, <1>6, <1>7 DEF Inductive

LEMMA FinishTokenStep == Inductive /\ FinishToken => Inductive'
<1> SUFFICES ASSUME Inductive, FinishToken PROVE Inductive'
  OBVIOUS
<1> DEFINE f == Finishing
           R == Reached
<1>1. /\ InFinishLoop /\ R >= Length(f) /\ CountStep
      /\ generated[f] + 1 < OutputLen[f]
      /\ generated' = [generated EXCEPT ![f] = @ + 1]
      /\ first' = [first EXCEPT ![f] = TRUE]
      /\ UNCHANGED <<free, ref, rank, table, engineHit, done,
                     waiting, running, phase, budget, cursor, preempted>>
  BY DEF FinishToken, EmitToken
<1>2. TypeOK /\ PoolAccounting /\ QueueInv /\ TableInv
  BY DEF Inductive
<1>3. /\ f \in Requests /\ f \in Elements(running)
      /\ R \in Nat /\ Length(f) \in Nat /\ R <= Length(f)
      /\ Len(table[f]) = CeilBlocks(R)
      /\ generated[f] \in Nat
      /\ InPlan = {f} \cup InPlan' /\ f \notin InPlan'
      /\ plan' \in Seq(Requests \X Nat)
      /\ computed' \in [Requests -> Nat] /\ computed'[f] = R
      /\ \A q \in Requests : q # f => computed'[q] = computed[q]
      /\ blockKey' \in [Blocks -> Keys \cup {NoKey}]
      /\ DOMAIN cached' \subseteq Keys /\ \A k \in DOMAIN cached' : cached'[k] \in Blocks
      /\ CacheBijection'
  BY <1>1, FinishFacts
<1>4. /\ generated' \in [Requests -> Nat] /\ generated'[f] = generated[f] + 1
      /\ \A q \in Requests : q # f => generated'[q] = generated[q]
      /\ first' \in [Requests -> BOOLEAN]
  <2>1. generated \in [Requests -> Nat] /\ first \in [Requests -> BOOLEAN]
    BY <1>2 DEF TypeOK
  <2>2. first' \in [Requests -> BOOLEAN]
    BY <1>1, <2>1, Zenon
  <2> HIDE DEF f
  <2> QED
    BY <1>1, <1>3, <2>1, <2>2
<1>5. PlanCovered' /\ PlanInv'
  BY <1>1, <1>4, RestOfPlan
<1>6. R = Length(f) /\ InputLen[f] \in Nat
  BY <1>1, <1>2, <1>3, LengthType
<1> HIDE DEF f, R
<1>7. TypeOK'
  BY <1>1, <1>2, <1>3, <1>4 DEF TypeOK
<1>8. PoolAccounting'
  BY <1>1, <1>2 DEF PoolAccounting, Holders
<1>9. running \in Seq(Requests) /\ waiting \in Seq(Requests)
        /\ Elements(running) \subseteq Requests /\ Elements(waiting) \subseteq Requests
  <2>1. running \in Seq(Requests) /\ waiting \in Seq(Requests)
    BY <1>2 DEF TypeOK
  <2> QED
    BY <2>1, ListFacts
<1>10. QueueInv'
  <2>1. rank[f] > 0
    BY <1>2, <1>3 DEF QueueInv
  <2>2. \A q \in Requests : rank[q] = 0 => generated'[q] = 0
    <3>1. \A q \in Requests : rank[q] = 0 => generated[q] = 0
      BY <1>2 DEF QueueInv
    <3>2. rank[f] # 0
      BY <2>1
    <3> QED
      BY <1>4, <3>1, <3>2
  <2>3. \A q \in Elements(running) \cup Elements(waiting) :
          rank[q] > 0 /\ generated'[q] < OutputLen[q]
    BY <1>1, <1>2, <1>4, <1>9 DEF QueueInv
  <2> QED
    BY <1>1, <1>2, <2>2, <2>3 DEF QueueInv
<1>11. TableInv'
  <2>1. ASSUME NEW q \in Elements(running) \ InPlan'
        PROVE  /\ computed'[q] < InputLen[q] + generated'[q]
               /\ Len(table[q]) = CeilBlocks(computed'[q])
    <3>1. CASE q = f
      <4>1. InputLen[f] + generated'[f] = Length(f) + 1
        <5>1. Length(f) = InputLen[f] + generated[f] /\ generated[f] \in Nat
          BY <1>3 DEF Length
        <5>2. generated'[f] = generated[f] + 1 /\ InputLen[f] \in Nat
          BY <1>4, <1>6
        <5> QED
          BY <5>1, <5>2
      <4> QED
        BY <1>3, <1>6, <3>1, <4>1
    <3>2. CASE q # f
      <4>1. /\ q \in Elements(running) \ InPlan /\ computed'[q] = computed[q]
            /\ generated'[q] = generated[q]
        BY <1>3, <1>4, <1>9, <2>1, <3>2
      <4> QED
        BY <1>2, <4>1 DEF TableInv, Length
    <3> QED
      BY <3>1, <3>2
  <2> QED
    BY <1>1, <1>2, <2>1 DEF TableInv, Length
<1> QED
  BY <1>3, <1>5, <1>7, <1>8, <1>10, <1>11 DEF Inductive

LEMMA FinishRequestStep == Inductive /\ FinishRequest => Inductive'
<1> SUFFICES ASSUME Inductive, FinishRequest PROVE Inductive'
  OBVIOUS
<1> DEFINE f == Finishing
<1>1. /\ InFinishLoop /\ CountStep
      /\ generated' = [generated EXCEPT ![f] = @ + 1]
      /\ first' = [first EXCEPT ![f] = TRUE]
      /\ done' = [done EXCEPT ![f] = TRUE]
      /\ running' = Without(running, f)
      /\ ReleasedPool(f)
      /\ table' = [table EXCEPT ![f] = <<>>]
      /\ UNCHANGED <<rank, engineHit, waiting, phase, budget, cursor, preempted>>
  BY DEF FinishRequest, EmitToken
<1>2. TypeOK /\ PoolAccounting /\ QueueInv /\ TableInv
  BY DEF Inductive
<1>3. /\ f \in Requests /\ f \in Elements(running)
      /\ generated[f] \in Nat
      /\ InPlan = {f} \cup InPlan'
      /\ plan' \in Seq(Requests \X Nat)
      /\ computed' \in [Requests -> Nat]
      /\ \A q \in Requests : q # f => computed'[q] = computed[q]
      /\ blockKey' \in [Blocks -> Keys \cup {NoKey}]
      /\ DOMAIN cached' \subseteq Keys /\ \A k \in DOMAIN cached' : cached'[k] \in Blocks
      /\ CacheBijection'
  BY <1>1, FinishFacts
<1>4. /\ generated' \in [Requests -> Nat]
      /\ \A q \in Requests : q # f => generated'[q] = generated[q]
      /\ first' \in [Requests -> BOOLEAN] /\ done' \in [Requests -> BOOLEAN]
  <2>1. /\ generated \in [Requests -> Nat]
        /\ first \in [Requests -> BOOLEAN] /\ done \in [Requests -> BOOLEAN]
    BY <1>2 DEF TypeOK
  <2>2. first' \in [Requests -> BOOLEAN]
    BY <1>1, <2>1, Zenon
  <2>3. done' \in [Requests -> BOOLEAN]
    BY <1>1, <2>1, Zenon
  <2> HIDE DEF f
  <2> QED
    BY <1>1, <1>3, <2>1, <2>2, <2>3
<1>5. /\ free' \in Seq(Blocks) /\ ref' \in [Blocks -> Nat]
      /\ table' \in [Requests -> Seq(Blocks)] /\ PoolAccounting'
  BY <1>1, <1>2, <1>3, ReleaseFacts
<1>6. table'[f] = <<>> /\ \A q \in Requests : q # f => table'[q] = table[q]
  <2>1. table \in [Requests -> Seq(Blocks)]
    BY <1>2 DEF TypeOK
  <2> HIDE DEF f
  <2> QED
    BY <1>1, <1>3, <2>1
<1>7. /\ running \in Seq(Requests) /\ waiting \in Seq(Requests)
      /\ Elements(running) \subseteq Requests /\ Elements(waiting) \subseteq Requests
      /\ IsInjectiveSeq(running)
  <2>1. running \in Seq(Requests) /\ waiting \in Seq(Requests) /\ IsInjectiveSeq(running)
    BY <1>2 DEF TypeOK, QueueInv
  <2> QED
    BY <2>1, ListFacts
<1>8. /\ running' \in Seq(Requests) /\ IsInjectiveSeq(running')
      /\ Elements(running') = Elements(running) \ {f}
  <2> DEFINE others == Elements(running) \ {f}
  <2>1. running' = Sublist(running, others)
    BY <1>1 DEF Without
  <2>2. Elements(running) \cap others = others
    OBVIOUS
  <2> HIDE DEF others
  <2>3. /\ running' \in Seq(Requests) /\ IsInjectiveSeq(running')
        /\ Elements(running') = Elements(running) \cap others
    BY <1>7, <2>1, SublistType, SublistInjective, SublistElements
  <2> QED
    BY <2>2, <2>3 DEF others
<1>9. PlanCovered' /\ PlanInv'
  BY <1>1, <1>4, <1>6, <1>8, RestOfPlan
<1> HIDE DEF f
<1>10. TypeOK'
  BY <1>1, <1>2, <1>3, <1>4, <1>5, <1>8 DEF TypeOK
<1>11. QueueInv'
  <2>1. rank[f] > 0 /\ Elements(running) \cap Elements(waiting) = {}
    BY <1>2, <1>3 DEF QueueInv
  <2>2. \A q \in Requests : rank[q] = 0 => generated'[q] = 0
    <3>1. \A q \in Requests : rank[q] = 0 => generated[q] = 0
      BY <1>2 DEF QueueInv
    <3>2. rank[f] # 0
      BY <2>1
    <3> QED
      BY <1>4, <3>1, <3>2
  <2>3. Elements(running') \cap Elements(waiting) = {}
    BY <1>8, <2>1
  <2>4. \A q \in Elements(running') \cup Elements(waiting) :
          /\ q \in Elements(running) \cup Elements(waiting)
          /\ q # f /\ q \in Requests
    BY <1>3, <1>7, <1>8, <2>1
  <2>5. \A q \in Elements(running') \cup Elements(waiting) :
          rank[q] > 0 /\ generated'[q] < OutputLen[q]
    BY <1>2, <1>4, <2>4 DEF QueueInv
  <2> QED
    BY <1>1, <1>2, <1>8, <2>2, <2>3, <2>5 DEF QueueInv
<1>12. TableInv'
  <2>1. \A q \in Requests \ Elements(running') : table'[q] = <<>>
    BY <1>2, <1>6, <1>8 DEF TableInv
  <2>2. \A q \in Elements(running') \ InPlan' :
          q \in Elements(running) \ InPlan /\ q # f /\ q \in Requests
    BY <1>3, <1>7, <1>8
  <2> QED
    BY <1>2, <1>3, <1>4, <1>6, <2>1, <2>2 DEF TableInv, Length
<1> QED
  BY <1>3, <1>5, <1>9, <1>10, <1>11, <1>12 DEF Inductive

-----------------------------------------------------------------------------
(* The theorems *)

(* Whatever the trace and the sizes, every reachable state satisfies the    *)
(* inductive invariant: each of the ten steps of the engine and each        *)
(* arrival keeps it.                                                        *)
THEOREM InductiveInvariant == Spec => []Inductive
<1>1. Init => Inductive
  BY InductiveInit
<1>2. Inductive /\ [Next]_vars => Inductive'
  <2> SUFFICES ASSUME Inductive, [Next]_vars PROVE Inductive'
    OBVIOUS
  <2>1. ASSUME NEW r \in Requests, Submit(r) PROVE Inductive'
    BY <2>1, SubmitStep
  <2>2. CASE PlanRunning
    BY <2>2, PlanRunningStep
  <2>3. CASE Preempt
    BY <2>3, PreemptStep
  <2>4. CASE EndRunning
    BY <2>4, EndRunningStep
  <2>5. CASE Admit
    BY <2>5, AdmitStep
  <2>6. CASE EndAdmit
    BY <2>6, EndAdmitStep
  <2>7. CASE StepDue
    BY <2>7, StepDueStep
  <2>8. CASE FinishChunk
    BY <2>8, FinishChunkStep
  <2>9. CASE FinishToken
    BY <2>9, FinishTokenStep
  <2>10. CASE FinishRequest
    BY <2>10, FinishRequestStep
  <2>11. CASE NextStep
    BY <2>11, NextStepStep
  <2>12. CASE Finished \/ UNCHANGED vars
    BY <2>12, StutterStep DEF Finished
  <2> QED
    BY <2>1, <2>2, <2>3, <2>4, <2>5, <2>6, <2>7, <2>8, <2>9, <2>10, <2>11, <2>12
       DEF Next, EngineStep
<1> QED
  BY <1>1, <1>2, PTL DEF Spec

(* Every variable of the engine keeps its type. *)
THEOREM TypeInvariant == Spec => []TypeOK
<1>1. Inductive => TypeOK
  BY DEF Inductive
<1> QED
  BY <1>1, InductiveInvariant, PTL

(* No KV block leaks or is given out twice: _pop_free, _release, the hit    *)
(* path of schedule() and preemption keep every reference count equal to    *)
(* the number of block tables that hold the block, and the free queue equal *)
(* to the blocks of count zero.                                             *)
THEOREM PoolAccounted == Spec => []PoolAccounting
<1>1. Inductive => PoolAccounting
  BY DEF Inductive
<1> QED
  BY <1>1, InductiveInvariant, PTL

(* block_key and cached stay each other's inverse: a lookup never returns a *)
(* block that has been handed out under another key, and no block is cached *)
(* that no lookup finds.                                                    *)
THEOREM CacheConsistent == Spec => []CacheBijection
<1>1. Inductive => CacheBijection
  BY DEF Inductive
<1> QED
  BY <1>1, InductiveInvariant, PTL

(* Every step that is put in flight has the blocks for the tokens it        *)
(* computes, so the answer of _grow that schedule() drops when it admits is *)
(* always "yes".                                                            *)
THEOREM StepsCovered == Spec => []PlanCovered
<1>1. Inductive => PlanCovered
  BY DEF Inductive
<1> QED
  BY <1>1, InductiveInvariant, PTL
=============================================================================
