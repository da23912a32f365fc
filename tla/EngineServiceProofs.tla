------------------------ MODULE EngineServiceProofs ------------------------
(***************************************************************************)
(* What Engine does for its requests: what the blocks they read hold, who   *)
(* is served when, and the safety part of the promise the router relies on. *)
(*                                                                         *)
(* Content.  A block changes its key only while it is free, when it is      *)
(* taken, or when its request fills it.  A block that is being filled has   *)
(* one holder (UnfilledInv): blocks are shared only by being hit in the     *)
(* cache, so a shared one has a key already (SharedInv).  Hence no key is   *)
(* given or taken under a request that reads the block (ContentRight).      *)
(*                                                                         *)
(* Order.  A victim is the youngest running request and goes to the head of *)
(* the queue, so running \o waiting changes only at its two ends and where  *)
(* a request is done.  A request alone on the instance always finds room    *)
(* (FitsAssumption), so the last one is never preempted and the head of the *)
(* queue is admitted when nothing runs.                                     *)
(***************************************************************************)
EXTENDS EngineProofs

-----------------------------------------------------------------------------
(* One request's part of the invariant *)

Content(q) == \A i \in 1..(computed[q] \div Block) : blockKey[table[q][i]] \in {NoKey, Key(q, i - 1)}
Unfilled(q) == \A i \in (computed[q] \div Block + 1)..Len(table[q]) :
                 ref[table[q][i]] = 1 /\ blockKey[table[q][i]] = NoKey

LEMMA ContentByRequest ==
  ContentInv <=> SharedInv /\ \A q \in Elements(running) : Content(q) /\ Unfilled(q)
  BY DEF ContentInv, ContentRight, UnfilledInv, Content, Unfilled

LEMMA RunningFacts ==
  ASSUME Inductive, NEW q \in Elements(running)
  PROVE  /\ q \in Requests /\ table[q] \in Seq(Blocks)
         /\ Len(table[q]) \in Nat /\ DOMAIN table[q] = 1..Len(table[q])
         /\ computed[q] \in Nat /\ computed[q] \div Block \in Nat
         /\ computed[q] \div Block <= Len(table[q])
<1>1. /\ TypeOK /\ TableInv /\ PlanCovered
      /\ running \in Seq(Requests) /\ table \in [Requests -> Seq(Blocks)]
      /\ plan \in Seq(Requests \X Nat)
  BY DEF Inductive, TypeOK
<1>2. q \in Requests
  BY <1>1, ListFacts
<1>3. table[q] \in Seq(Blocks)
  BY <1>1, <1>2
<1>4. Len(table[q]) \in Nat /\ DOMAIN table[q] = 1..Len(table[q])
  BY <1>3, ListFacts
<1>5. computed[q] \in Nat
  BY <1>1, <1>2, LengthType
<1>6. PICK n \in Nat : Len(table[q]) = CeilBlocks(computed[q] + n)
  <2>1. CASE q \in InPlan
    <3>1. PICK p \in DOMAIN plan : plan[p][1] = q
      BY <2>1 DEF InPlan
    <3>2. plan[p][2] \in 1..TokenBudget /\ Len(table[q]) = CeilBlocks(computed[q] + plan[p][2])
      BY <1>1, <3>1 DEF PlanCovered
    <3> QED
      BY <3>2
  <2>2. CASE q \notin InPlan
    <3>1. Len(table[q]) = CeilBlocks(computed[q])
      BY <1>1, <2>2 DEF TableInv
    <3>2. computed[q] + 0 = computed[q]
      BY <1>5
    <3> QED
      BY <3>1, <3>2
  <2> QED
    BY <2>1, <2>2
<1>7. computed[q] + n \in Nat /\ computed[q] <= computed[q] + n
  BY <1>5
<1>8. /\ computed[q] \div Block \in Nat /\ computed[q] \div Block <= CeilBlocks(computed[q])
      /\ CeilBlocks(computed[q]) <= CeilBlocks(computed[q] + n)
      /\ CeilBlocks(computed[q]) \in Nat
  BY <1>5, <1>7, CeilFacts
<1>9. computed[q] \div Block <= Len(table[q])
  BY <1>4, <1>6, <1>8
<1> QED
  BY <1>2, <1>3, <1>4, <1>5, <1>8, <1>9

(* A block in a table is counted, and one with two holders twice. *)
LEMMA HolderCounts ==
  ASSUME Inductive, NEW r \in Requests, NEW b \in Elements(table[r])
  PROVE  /\ b \in Blocks /\ b \notin Elements(free) /\ ref[b] \in Nat /\ ref[b] >= 1
         /\ \A q \in Requests : q # r /\ b \in Elements(table[q]) => ref[b] > 1
<1>1. TypeOK /\ PoolAccounting
  BY DEF Inductive
<1>2. b \in Blocks /\ b \notin Elements(free)
  BY <1>1, OwnedNotFree
<1>3. ref[b] \in Nat /\ ref[b] = Cardinality(Holders(b)) /\ ref[b] # 0
  BY <1>1, <1>2 DEF TypeOK, PoolAccounting
<1>4. ASSUME NEW q \in Requests, q # r, b \in Elements(table[q]) PROVE ref[b] > 1
  <2> DEFINE H == Holders(b)
  <2>1. q \in H /\ r \in H \ {q}
    BY <1>4 DEF Holders
  <2>2. IsFiniteSet(H)
    BY HoldersFinite
  <2> HIDE DEF H
  <2>3. IsFiniteSet(H \ {q}) /\ Cardinality(H \ {q}) = Cardinality(H) - 1
    BY <2>1, <2>2, FS_RemoveElement
  <2>4. Cardinality(H \ {q}) # 0
    BY <2>1, <2>3, FS_EmptySet
  <2>5. ref[b] = Cardinality(H)
    BY <1>3 DEF H
  <2> QED
    BY <1>3, <2>3, <2>4, <2>5
<1> QED
  BY <1>2, <1>3, <1>4

(* A step that leaves a request's table alone, and the keys of its blocks,  *)
(* and takes no second holder for those it is filling.                      *)
LEMMA ReaderKeeps ==
  ASSUME Inductive, NEW q \in Elements(running), Content(q), Unfilled(q),
         table'[q] = table[q], computed'[q] = computed[q],
         \A b \in Elements(table[q]) :
           /\ blockKey'[b] = blockKey[b]
           /\ blockKey[b] = NoKey /\ ref[b] = 1 => ref'[b] = 1
  PROVE  Content(q)' /\ Unfilled(q)'
<1> DEFINE m == computed[q] \div Block
           n == Len(table[q])
<1>1. m \in Nat /\ n \in Nat /\ m <= n /\ DOMAIN table[q] = 1..n
  BY RunningFacts
<1>2. /\ \A i \in 1..m : blockKey[table[q][i]] \in {NoKey, Key(q, i - 1)}
      /\ \A i \in (m + 1)..n : ref[table[q][i]] = 1 /\ blockKey[table[q][i]] = NoKey
  BY DEF Content, Unfilled
<1>3. computed'[q] \div Block = m /\ Len(table'[q]) = n
  OBVIOUS
<1> HIDE DEF m, n
<1>4. \A i \in 1..n : table[q][i] \in Elements(table[q])
  BY <1>1 DEF Elements
<1>5. \A i \in 1..m : blockKey'[table[q][i]] \in {NoKey, Key(q, i - 1)}
  <2>1. \A i \in 1..m : i \in 1..n
    BY <1>1
  <2> QED
    BY <1>2, <1>4, <2>1
<1>6. \A i \in (m + 1)..n : ref'[table[q][i]] = 1 /\ blockKey'[table[q][i]] = NoKey
  <2>1. \A i \in (m + 1)..n : i \in 1..n
    BY <1>1
  <2> QED
    BY <1>2, <1>4, <2>1
<1> QED
  BY <1>3, <1>5, <1>6 DEF Content, Unfilled, Key, OutKey

LEMMA ContentInit == Init => ContentInv
<1> SUFFICES ASSUME Init PROVE ContentInv
  OBVIOUS
<1>1. Elements(running) = {}
  BY DEF Init, Elements
<1>2. SharedInv
  BY DEF Init, SharedInv
<1> QED
  BY <1>1, <1>2, ContentByRequest

LEMMA ConcatAt ==
  ASSUME NEW T, NEW s \in Seq(T), NEW t \in Seq(T), NEW k \in Nat, k = Len(s), NEW n \in Nat, n = Len(t)
  PROVE  /\ Len(s \o t) = k + n
         /\ \A i \in 1..k : (s \o t)[i] = s[i]
         /\ \A i \in (k + 1)..(k + n) : (s \o t)[i] = t[i - k] /\ i - k \in 1..n
<1>1. /\ Len(s \o t) = k + n
      /\ \A i \in 1..(k + n) : (s \o t)[i] = IF i <= k THEN s[i] ELSE t[i - k]
  OBVIOUS
<1>2. /\ \A i \in 1..k : i \in 1..(k + n) /\ i <= k
      /\ \A i \in (k + 1)..(k + n) : i \in 1..(k + n) /\ ~(i <= k) /\ i - k \in 1..n
  OBVIOUS
<1> QED
  BY <1>1, <1>2

(* A step that takes no block and labels none. *)
LEMMA ContentFrame ==
  ASSUME Inductive, ContentInv, UNCHANGED <<blockKey, ref, table, computed, running>>
  PROVE  ContentInv'
  BY DEF ContentInv, ContentRight, UnfilledInv, SharedInv, Key, OutKey

-----------------------------------------------------------------------------
(* schedule() *)

(* Blocks are taken from the free queue, so no one's keys change. *)
LEMMA TakeFreeKeeps ==
  ASSUME Inductive, NEW from \in Seq(Blocks), Elements(from) \subseteq Elements(free),
         NEW n \in 0..Len(from), TakeFree(from, n)
  PROVE  /\ \A q \in Requests : \A b \in Elements(table[q]) : blockKey'[b] = blockKey[b]
         /\ \A i \in 1..n : /\ from[i] \in Elements(free) /\ from[i] \in Blocks
                            /\ blockKey'[from[i]] = NoKey
         /\ \A b \in Blocks : b \notin {from[i] : i \in 1..n} => blockKey'[b] = blockKey[b]
<1> DEFINE taken == {from[i] : i \in 1..n}
<1>1. blockKey' = [b \in Blocks |-> IF b \in taken THEN NoKey ELSE blockKey[b]]
  BY DEF TakeFree
<1>2. \A i \in 1..n : i \in DOMAIN from
  OBVIOUS
<1>3. \A i \in 1..n : from[i] \in Elements(free) /\ from[i] \in Blocks /\ from[i] \in taken
  <2>1. \A i \in 1..n : from[i] \in Elements(from) /\ from[i] \in Blocks
    BY <1>2, ListFacts
  <2> QED
    BY <2>1
<1>4. \A b \in taken : b \in Elements(free)
  BY <1>3
<1> HIDE DEF taken
<1>5. ASSUME NEW q \in Requests, NEW b \in Elements(table[q]) PROVE blockKey'[b] = blockKey[b]
  <2>1. b \in Blocks /\ b \notin Elements(free)
    BY HolderCounts
  <2> QED
    BY <1>1, <1>4, <2>1
<1> QED
  BY <1>1, <1>3, <1>5 DEF taken

LEMMA PlanRunningContent == ASSUME Inductive, ContentInv, PlanRunning PROVE ContentInv'
<1> SUFFICES ASSUME NEW r, r = running[cursor] PROVE ContentInv'
  OBVIOUS
<1> DEFINE n == Need(r)
           fresh == SubSeq(free, 1, n)
<1>1. /\ InRunningLoop /\ n <= Len(free) /\ TakeFree(free, n)
      /\ ref' = [b \in Blocks |-> IF \E i \in 1..n : free[i] = b THEN 1 ELSE ref[b]]
      /\ table' = [table EXCEPT ![r] = @ \o fresh]
      /\ UNCHANGED <<computed, running>>
  BY DEF PlanRunning
<1>2. r \in Requests /\ r \in Elements(running) /\ n \in Nat
  BY <1>1, CursorFacts
<1> HIDE DEF n
<1>3. /\ free \in Seq(Blocks) /\ Len(free) \in Nat /\ DOMAIN free = 1..Len(free)
      /\ IsInjectiveSeq(free) /\ ref \in [Blocks -> Nat]
      /\ table \in [Requests -> Seq(Blocks)] /\ Elements(running) \subseteq Requests
  <2>1. free \in Seq(Blocks) /\ running \in Seq(Requests)
    BY DEF Inductive, TypeOK
  <2>2. Len(free) \in Nat /\ DOMAIN free = 1..Len(free) /\ Elements(running) \subseteq Requests
    BY <2>1, ListFacts
  <2> QED
    BY <2>1, <2>2 DEF Inductive, TypeOK, PoolAccounting
<1>4. n \in 0..Len(free)
  BY <1>1, <1>2, <1>3
<1>5. /\ \A q \in Requests : \A b \in Elements(table[q]) : blockKey'[b] = blockKey[b]
      /\ \A i \in 1..n : /\ free[i] \in Elements(free) /\ free[i] \in Blocks
                         /\ blockKey'[free[i]] = NoKey
      /\ \A b \in Blocks : b \notin {free[i] : i \in 1..n} => blockKey'[b] = blockKey[b]
  BY <1>1, <1>3, <1>4, TakeFreeKeeps
<1>6. ASSUME NEW q \in Requests, NEW b \in Elements(table[q]) PROVE ref'[b] = ref[b]
  <2>1. b \in Blocks /\ b \notin Elements(free)
    BY HolderCounts
  <2> QED
    BY <1>1, <1>5, <2>1
<1>7. SharedInv /\ \A q \in Elements(running) : Content(q) /\ Unfilled(q)
  BY ContentByRequest
<1>8. ASSUME NEW q \in Elements(running), q # r PROVE Content(q)' /\ Unfilled(q)'
  <2>1. q \in Requests /\ table'[q] = table[q] /\ computed'[q] = computed[q]
    BY <1>1, <1>3, <1>8
  <2>2. \A b \in Elements(table[q]) : blockKey'[b] = blockKey[b] /\ ref'[b] = ref[b]
    BY <1>5, <1>6, <2>1
  <2>3. \A b \in Elements(table[q]) : /\ blockKey'[b] = blockKey[b]
                                      /\ blockKey[b] = NoKey /\ ref[b] = 1 => ref'[b] = 1
    BY <2>2
  <2> QED
    BY <1>7, <2>1, <2>3, ReaderKeeps
<1>9. Content(r)' /\ Unfilled(r)'
  <2> DEFINE m == computed[r] \div Block
             k == Len(table[r])
  <2>1. m \in Nat /\ k \in Nat /\ m <= k /\ DOMAIN table[r] = 1..k /\ table[r] \in Seq(Blocks)
    BY <1>2, RunningFacts
  <2>2. /\ \A i \in 1..m : blockKey[table[r][i]] \in {NoKey, Key(r, i - 1)}
        /\ \A i \in (m + 1)..k : ref[table[r][i]] = 1 /\ blockKey[table[r][i]] = NoKey
    BY <1>2, <1>7 DEF Content, Unfilled
  <2>3. table'[r] = table[r] \o fresh /\ computed'[r] = computed[r]
    BY <1>1, <1>2, <1>3
  <2>4. fresh \in Seq(Blocks) /\ Len(fresh) = n /\ \A i \in 1..n : fresh[i] = free[i]
    BY <1>3, <1>4
  <2> HIDE DEF m, k, fresh
  <2>5. /\ Len(table'[r]) = k + n
        /\ \A i \in 1..k : table'[r][i] = table[r][i]
        /\ \A i \in (k + 1)..(k + n) : table'[r][i] = free[i - k] /\ i - k \in 1..n
    <3>1. k = Len(table[r]) /\ n = Len(fresh)
      BY <2>4 DEF k
    <3>2. /\ Len(table[r] \o fresh) = k + n
          /\ \A i \in 1..k : (table[r] \o fresh)[i] = table[r][i]
          /\ \A i \in (k + 1)..(k + n) : (table[r] \o fresh)[i] = fresh[i - k] /\ i - k \in 1..n
      <4>1. table[r] \in Seq(Blocks) /\ fresh \in Seq(Blocks) /\ k \in Nat /\ n \in Nat
        BY <1>2, <2>1, <2>4
      <4> DEFINE t == table[r]
      <4>2. t \in Seq(Blocks) /\ fresh \in Seq(Blocks) /\ k = Len(t) /\ n = Len(fresh)
        BY <3>1, <4>1
      <4> HIDE DEF t
      <4>3. /\ Len(t \o fresh) = k + n
            /\ \A i \in 1..k : (t \o fresh)[i] = t[i]
            /\ \A i \in (k + 1)..(k + n) : (t \o fresh)[i] = fresh[i - k] /\ i - k \in 1..n
        BY <4>1, <4>2, ConcatAt
      <4> QED
        BY <4>3 DEF t
    <3> QED
      BY <2>3, <2>4, <3>2
  <2>6. \A i \in 1..k : table[r][i] \in Elements(table[r])
    BY <2>1 DEF Elements
  <2>7. \A i \in 1..m : blockKey'[table'[r][i]] \in {NoKey, Key(r, i - 1)}
    <3>1. \A i \in 1..m : i \in 1..k
      BY <2>1
    <3> QED
      BY <1>2, <1>5, <2>2, <2>5, <2>6, <3>1
  <2>8. \A i \in (m + 1)..(k + n) : ref'[table'[r][i]] = 1 /\ blockKey'[table'[r][i]] = NoKey
    <3>1. ASSUME NEW i \in (m + 1)..k
          PROVE  ref'[table'[r][i]] = 1 /\ blockKey'[table'[r][i]] = NoKey
      <4>1. i \in 1..k
        BY <2>1
      <4> QED
        BY <1>2, <1>5, <1>6, <2>2, <2>5, <2>6, <4>1
    <3>2. ASSUME NEW i \in (k + 1)..(k + n)
          PROVE  ref'[table'[r][i]] = 1 /\ blockKey'[table'[r][i]] = NoKey
      <4>1. PICK j \in 1..n : table'[r][i] = free[j]
        BY <2>5
      <4> QED
        BY <1>1, <1>5, <4>1
    <3>3. \A i \in (m + 1)..(k + n) : i \in (m + 1)..k \/ i \in (k + 1)..(k + n)
      BY <1>2, <2>1
    <3> QED
      BY <3>1, <3>2, <3>3
  <2>9. computed'[r] \div Block = m
    BY <2>3 DEF m
  <2> QED
    BY <2>5, <2>7, <2>8, <2>9 DEF Content, Unfilled, Key, OutKey
<1>10. SharedInv'
  <2>1. ASSUME NEW b \in Blocks, ref'[b] > 1 PROVE blockKey'[b] # NoKey
    <3>1. ~\E i \in 1..n : free[i] = b
      BY <1>1, <2>1
    <3>2. ref'[b] = ref[b] /\ blockKey'[b] = blockKey[b]
      BY <1>1, <1>5, <3>1
    <3> QED
      BY <1>7, <2>1, <3>2 DEF SharedInv
  <2> QED
    BY <2>1 DEF SharedInv
<1>11. ContentInv'
  <2>1. running' = running
    BY <1>1
  <2>2. \A q \in Elements(running') : Content(q)' /\ Unfilled(q)'
    BY <1>8, <1>9, <2>1
  <2> QED
    BY <1>10, <2>2 DEF ContentInv, ContentRight, UnfilledInv, Content, Unfilled
<1> QED
  BY <1>11

(* The victim's blocks that another request fills are not there. *)
LEMMA ReleaseKeeps ==
  ASSUME Inductive, ContentInv, NEW v \in Requests, ReleasedPool(v),
         NEW q \in Requests, q # v, NEW b \in Elements(table[q]), ref[b] = 1
  PROVE  ref'[b] = 1
<1>1. b \in Blocks /\ b \notin Elements(table[v])
  BY HolderCounts
<1> QED
  BY <1>1 DEF ReleasedPool

LEMMA PreemptContent == ASSUME Inductive, ContentInv, Preempt PROVE ContentInv'
<1> SUFFICES ASSUME NEW v, v = running[Len(running)] PROVE ContentInv'
  OBVIOUS
<1>1. /\ InRunningLoop /\ ReleasedPool(v)
      /\ table' = [table EXCEPT ![v] = <<>>] /\ computed' = [computed EXCEPT ![v] = 0]
      /\ running' = SubSeq(running, 1, Len(running) - 1)
      /\ UNCHANGED blockKey
  BY DEF Preempt
<1>2. /\ running \in Seq(Requests) /\ Len(running) \in Nat /\ DOMAIN running = 1..Len(running)
      /\ IsInjectiveSeq(running) /\ Elements(running) \subseteq Requests
      /\ ref \in [Blocks -> Nat] /\ table \in [Requests -> Seq(Blocks)]
      /\ computed \in [Requests -> Nat]
      /\ Len(running) # 0 /\ Len(running) - 1 \in 0..Len(running)
  <2>1. /\ running \in Seq(Requests) /\ cursor \in Nat \ {0} /\ cursor <= Len(running)
        /\ IsInjectiveSeq(running) /\ ref \in [Blocks -> Nat] /\ table \in [Requests -> Seq(Blocks)]
        /\ computed \in [Requests -> Nat]
    BY <1>1 DEF Inductive, TypeOK, QueueInv, InRunningLoop
  <2>2. /\ Len(running) \in Nat /\ DOMAIN running = 1..Len(running)
        /\ Elements(running) \subseteq Requests
    BY <2>1, ListFacts
  <2> QED
    BY <2>1, <2>2
<1>3. v \in Requests /\ \A q \in Elements(running') : q \in Elements(running) /\ q # v
  <2> DEFINE n == Len(running) - 1
             front == SubSeq(running, 1, n)
  <2>1. Len(running) \in DOMAIN running
    BY <1>2
  <2>2. v \in Requests
    BY <1>2, <2>1
  <2>3. n \in 0..Len(running) /\ n \in Nat /\ n < Len(running)
    BY <1>2
  <2>4. running' = front
    BY <1>1
  <2>5. running \in Seq(Requests) /\ IsInjectiveSeq(running)
    BY <1>2
  <2> HIDE DEF n
  <2>6. Elements(front) = {running[i] : i \in 1..n}
    BY <2>3, <2>5, SplitFacts
  <2> HIDE DEF front
  <2>7. ASSUME NEW i \in 1..n PROVE running[i] \in Elements(running) /\ running[i] # v
    <3>1. i \in DOMAIN running /\ i # Len(running)
      <4>1. i \in Nat /\ 1 <= i /\ i <= n
        BY <2>3
      <4>2. Len(running) \in Nat /\ DOMAIN running = 1..Len(running)
        BY <1>2
      <4> DEFINE k == Len(running)
      <4>3. k \in Nat /\ n \in Nat /\ n < k /\ DOMAIN running = 1..k
        BY <2>3, <4>2
      <4> HIDE DEF k
      <4>4. i \in 1..k /\ i # k
        BY <4>1, <4>3
      <4> QED
        BY Zenon, <4>3, <4>4 DEF k
    <3>2. running[i] \in Elements(running)
      BY <3>1 DEF Elements
    <3>3. running[i] # v
      BY Zenon, <2>1, <2>5, <3>1 DEF IsInjectiveSeq
    <3> QED
      BY <3>2, <3>3
  <2> QED
    BY <2>2, <2>4, <2>6, <2>7
<1>4. SharedInv /\ \A q \in Elements(running) : Content(q) /\ Unfilled(q)
  BY ContentByRequest
<1>5. ASSUME NEW q \in Elements(running') PROVE Content(q)' /\ Unfilled(q)'
  <2>1. q \in Elements(running) /\ q \in Requests /\ q # v
    BY <1>2, <1>3
  <2>2. table'[q] = table[q] /\ computed'[q] = computed[q]
    BY <1>1, <1>2, <2>1
  <2>3. \A b \in Elements(table[q]) : /\ blockKey'[b] = blockKey[b]
                                      /\ blockKey[b] = NoKey /\ ref[b] = 1 => ref'[b] = 1
    BY <1>1, <1>3, <2>1, ReleaseKeeps
  <2> QED
    BY <1>4, <2>1, <2>2, <2>3, ReaderKeeps
<1>6. SharedInv'
  <2>1. ASSUME NEW b \in Blocks, ref'[b] > 1 PROVE blockKey[b] # NoKey
    <3>1. ref[b] > 1
      BY <1>1, <1>2, <2>1 DEF ReleasedPool
    <3> QED
      BY <1>4, <3>1 DEF SharedInv
  <2> QED
    BY <1>1, <2>1 DEF SharedInv
<1> QED
  BY <1>5, <1>6 DEF ContentInv, ContentRight, UnfilledInv, Content, Unfilled

LEMMA DivTimes ==
  ASSUME NEW m \in Nat, NEW d \in Nat \ {0}
  PROVE  (m * d) \div d = m
  BY SMT

(* The newcomer's table is its hits, under their keys, and blocks taken     *)
(* anew; a hit that another request fills would have no key.                *)
LEMMA AdmitContent == ASSUME Inductive, ContentInv, Admit PROVE ContentInv'
<1> SUFFICES ASSUME NEW r, r = Head(waiting) PROVE ContentInv'
  OBVIOUS
<1> SUFFICES ASSUME NEW left, left = Sublist(free, Elements(free) \ Elements(HitTable(r)))
             PROVE  ContentInv'
  OBVIOUS
<1> DEFINE t == HitTable(r)
           h == Hit(r)
           n == ChunkBlocks(r)
           fresh == SubSeq(left, 1, n)
<1>1. InAdmitLoop /\ Fits(r)
  BY DEF Admit
<1>2. /\ left \in Seq(Blocks) /\ IsInjectiveSeq(left) /\ Len(left) \in Nat
      /\ Elements(left) = Elements(free) \ Elements(t)
      /\ n \in Nat /\ n <= Len(left)
      /\ t \in Seq(Blocks) /\ Len(t) = h
  BY <1>1, LeftoverFacts
<1>3. /\ r \in Requests /\ r \in Elements(waiting) /\ r \notin Elements(running) /\ h \in Nat
  BY <1>1, AdmitFacts
<1>4. /\ TakeFree(left, n)
      /\ ref' = [b \in Blocks |-> IF b \in {left[i] : i \in 1..n} THEN 1
                                  ELSE IF b \in Elements(t) THEN ref[b] + 1 ELSE ref[b]]
      /\ table' = [table EXCEPT ![r] = t \o fresh]
      /\ computed' = [computed EXCEPT ![r] = h * Block]
      /\ running' = Append(running, r)
  BY <1>2 DEF Admit
<1>5. \A i \in 1..h : t[i] \in Elements(t) /\ t[i] \in Blocks /\ blockKey[t[i]] = Key(r, i - 1)
                     /\ Key(r, i - 1) \in Keys /\ Key(r, i - 1) # NoKey
  <2>1. TypeOK /\ CacheBijection /\ generated[r] < OutputLen[r]
    BY <1>3 DEF Inductive, QueueInv
  <2>2. \A i \in 1..h : blockKey[t[i]] = Key(r, i - 1) /\ Key(r, i - 1) \in DOMAIN cached
    BY <1>3, <2>1, HitFacts
  <2>3. \A i \in 1..h : i \in DOMAIN t
    BY <1>2, ListFacts
  <2>4. \A i \in 1..h : t[i] \in Elements(t) /\ t[i] \in Blocks
    BY <1>2, <2>3, ListFacts
  <2>5. DOMAIN cached \subseteq Keys /\ NoKey \notin Keys
    BY <2>1, KeysAssumption DEF TypeOK
  <2> QED
    BY <2>2, <2>4, <2>5
<1>6. \A b \in Elements(t) : blockKey[b] # NoKey
  <2> HIDE DEF t, h
  <2>1. DOMAIN t = 1..h
    BY <1>2, ListFacts
  <2>2. \A i \in DOMAIN t : blockKey[t[i]] # NoKey
    BY <1>5, <2>1
  <2>3. Elements(t) = {t[i] : i \in DOMAIN t}
    BY DEF Elements
  <2> QED
    BY <2>2, <2>3
<1> HIDE DEF t, h, n
<1>7. /\ running \in Seq(Requests) /\ Elements(running) \subseteq Requests
      /\ ref \in [Blocks -> Nat] /\ table \in [Requests -> Seq(Blocks)]
      /\ computed \in [Requests -> Nat]
      /\ Elements(running') = Elements(running) \cup {r}
  <2>1. /\ running \in Seq(Requests) /\ ref \in [Blocks -> Nat]
        /\ table \in [Requests -> Seq(Blocks)] /\ computed \in [Requests -> Nat]
    BY DEF Inductive, TypeOK
  <2> QED
    BY <1>3, <1>4, <2>1, ListFacts, AppendFacts
<1>8. /\ \A q \in Requests : \A b \in Elements(table[q]) : blockKey'[b] = blockKey[b]
      /\ \A i \in 1..n : /\ left[i] \in Elements(free) /\ left[i] \in Blocks
                         /\ blockKey'[left[i]] = NoKey
      /\ \A b \in Blocks : b \notin {left[i] : i \in 1..n} => blockKey'[b] = blockKey[b]
  <2>1. Elements(left) \subseteq Elements(free)
    BY <1>2
  <2>2. /\ \A i \in 1..n : /\ left[i] \in Elements(left) /\ left[i] \in Blocks
                           /\ blockKey'[left[i]] = NoKey
        /\ \A b \in Blocks : b \notin {left[i] : i \in 1..n} => blockKey'[b] = blockKey[b]
    <3>1. blockKey' = [b \in Blocks |-> IF b \in {left[i] : i \in 1..n} THEN NoKey ELSE blockKey[b]]
      BY <1>4 DEF TakeFree
    <3>2. \A i \in 1..n : i \in DOMAIN left
      BY <1>2
    <3>3. \A i \in 1..n : left[i] \in Elements(left) /\ left[i] \in Blocks
      BY <1>2, <3>2, ListFacts
    <3> QED
      BY <3>1, <3>3
  <2>3. ASSUME NEW q \in Requests, NEW b \in Elements(table[q]) PROVE blockKey'[b] = blockKey[b]
    <3>1. b \in Blocks /\ b \notin Elements(free)
      BY HolderCounts
    <3> QED
      BY <2>1, <2>2, <3>1
  <2> QED
    BY <2>1, <2>2, <2>3
<1>9. \A i \in 1..n : left[i] \notin Elements(t)
  <2>1. \A i \in 1..n : i \in DOMAIN left
    BY <1>2
  <2>2. \A i \in DOMAIN left : left[i] \in Elements(left)
    BY <1>2, ListFacts
  <2>3. \A b \in Elements(left) : b \notin Elements(t)
    BY <1>2
  <2> QED
    BY <2>1, <2>2, <2>3
<1>10. SharedInv /\ \A q \in Elements(running) : Content(q) /\ Unfilled(q)
  BY ContentByRequest
<1>11. ASSUME NEW q \in Elements(running) PROVE Content(q)' /\ Unfilled(q)'
  <2>1. q \in Requests /\ q # r /\ table'[q] = table[q] /\ computed'[q] = computed[q]
    BY <1>3, <1>4, <1>7
  <2>2. ASSUME NEW b \in Elements(table[q])
        PROVE  /\ blockKey'[b] = blockKey[b]
               /\ blockKey[b] = NoKey /\ ref[b] = 1 => ref'[b] = 1
    <3>1. b \in Blocks /\ b \notin Elements(free)
      BY <2>1, HolderCounts
    <3>2. blockKey[b] = NoKey => b \notin Elements(t)
      BY <1>6
    <3> QED
      BY <1>4, <1>8, <2>1, <3>1, <3>2
  <2> QED
    BY <1>10, <2>1, <2>2, ReaderKeeps
<1>12. Content(r)' /\ Unfilled(r)'
  <2>1. table'[r] = t \o fresh /\ computed'[r] \div Block = h
    <3>1. table'[r] = t \o fresh /\ computed'[r] = h * Block
      BY <1>3, <1>4, <1>7
    <3> QED
      BY <1>3, <3>1, DivTimes, SizesAssumption
  <2>2. fresh \in Seq(Blocks) /\ n = Len(fresh) /\ \A i \in 1..n : fresh[i] = left[i]
    BY <1>2
  <2> HIDE DEF fresh
  <2>3. /\ Len(table'[r]) = h + n
        /\ \A i \in 1..h : table'[r][i] = t[i]
        /\ \A i \in (h + 1)..(h + n) : table'[r][i] = fresh[i - h] /\ i - h \in 1..n
    <3>1. /\ Len(t \o fresh) = h + n
          /\ \A i \in 1..h : (t \o fresh)[i] = t[i]
          /\ \A i \in (h + 1)..(h + n) : (t \o fresh)[i] = fresh[i - h] /\ i - h \in 1..n
      <4>1. t \in Seq(Blocks) /\ fresh \in Seq(Blocks) /\ h = Len(t) /\ h \in Nat
            /\ n = Len(fresh) /\ n \in Nat
        BY <1>2, <1>3, <2>2
      <4> QED
        BY <4>1, ConcatAt
    <3> QED
      BY <2>1, <3>1
  <2>4. ASSUME NEW i \in 1..h PROVE blockKey'[table'[r][i]] \in {NoKey, Key(r, i - 1)}
    <3>1. table'[r][i] = t[i] /\ t[i] \in Elements(t) /\ t[i] \in Blocks /\ blockKey[t[i]] = Key(r, i - 1)
      BY <1>5, <2>3
    <3>2. t[i] \notin {left[j] : j \in 1..n}
      BY <1>9, <3>1
    <3> QED
      BY <1>8, <3>1, <3>2
  <2>5. ASSUME NEW i \in (h + 1)..(h + n)
        PROVE  ref'[table'[r][i]] = 1 /\ blockKey'[table'[r][i]] = NoKey
    <3>1. PICK j \in 1..n : table'[r][i] = left[j]
      BY <2>2, <2>3
    <3> QED
      BY <1>4, <1>8, <3>1
  <2> QED
    BY <2>1, <2>3, <2>4, <2>5 DEF Content, Unfilled, Key, OutKey
<1>13. SharedInv'
  <2>1. ASSUME NEW b \in Blocks, ref'[b] > 1 PROVE blockKey'[b] # NoKey
    <3>1. ASSUME b \in {left[i] : i \in 1..n} PROVE FALSE
      <4>1. ref'[b] = 1
        BY <1>4, <3>1
      <4> QED
        BY <2>1, <4>1
    <3>2. blockKey'[b] = blockKey[b]
      BY <1>8, <3>1
    <3>3. CASE b \in Elements(t)
      BY <1>6, <3>2, <3>3
    <3>4. CASE b \notin Elements(t)
      <4>1. ref'[b] = ref[b]
        BY <1>4, <2>1, <3>1, <3>4
      <4>2. ref[b] > 1
        BY <2>1, <4>1
      <4> QED
        BY <1>10, <3>2, <4>2 DEF SharedInv
    <3> QED
      BY <3>3, <3>4
  <2> QED
    BY <2>1 DEF SharedInv
<1>14. \A q \in Elements(running') : Content(q)' /\ Unfilled(q)'
  BY <1>7, <1>11, <1>12
<1> QED
  BY <1>13, <1>14 DEF ContentInv, ContentRight, UnfilledInv, Content, Unfilled

-----------------------------------------------------------------------------
(* finish_step() *)

(* Counting a step's tokens: every full block of the request is then cached *)
(* under its key, here or elsewhere, and no one else sees a change.         *)
LEMMA CountStepContent ==
  ASSUME Inductive, ContentInv, InFinishLoop, CountStep, NEW f, f = Finishing
  PROVE  /\ \A i \in 1..(Reached \div Block) : blockKey'[table[f][i]] \in {NoKey, Key(f, i - 1)}
         /\ \A i \in 1..(Reached \div Block) : Key(f, i - 1) \in DOMAIN cached'
         /\ \A i \in (Reached \div Block + 1)..Len(table[f]) :
              ref[table[f][i]] = 1 /\ blockKey'[table[f][i]] = NoKey
         /\ \A q \in Elements(running) : q # f =>
              \A b \in Elements(table[q]) : blockKey'[b] = blockKey[b]
         /\ \A b \in Blocks : blockKey[b] # NoKey => blockKey'[b] # NoKey
         /\ Reached \div Block \in Nat
<1> DEFINE t == table[f]
           R == Reached
           n == R \div Block
           m == computed[f] \div Block
           new == NewlyFull(f, R)
           newKeys == {Key(f, i - 1) : i \in new}
           at(b) == CHOOSE i \in new : table[f][i] = b
<1>1. /\ f \in Requests /\ f \in Elements(running) /\ computed[f] \in Nat /\ R \in Nat
      /\ Length(f) \in Nat /\ R <= Length(f) /\ Len(t) = CeilBlocks(R)
      /\ generated[f] \in Nat /\ generated[f] < OutputLen[f]
  BY FinishFacts
<1>2. /\ blockKey' = [b \in Blocks |-> IF \E i \in new : table[f][i] = b
                                         THEN Key(f, at(b) - 1) ELSE blockKey[b]]
      /\ DOMAIN cached' = DOMAIN cached \cup newKeys
  BY DEF CountStep, CacheFull
<1>3. /\ t \in Seq(Blocks) /\ Len(t) \in Nat /\ DOMAIN t = 1..Len(t)
      /\ m \in Nat /\ m <= Len(t) /\ IsInjectiveSeq(t)
  <2>1. IsInjectiveSeq(t)
    BY <1>1 DEF Inductive, PoolAccounting
  <2> QED
    BY <1>1, <2>1, RunningFacts
<1>4. n \in Nat /\ n <= Len(t)
  <2>1. R <= R
    BY <1>1
  <2> QED
    BY <1>1, <2>1, CeilFacts
<1>5. n <= InputLen[f] + OutputLen[f] /\ InputLen[f] + OutputLen[f] \in Nat
  <2>1. R <= InputLen[f] + OutputLen[f] /\ InputLen[f] + OutputLen[f] \in Nat
    BY <1>1, RequestsAssumption DEF Length
  <2>2. n * Block <= R
    BY <1>1, DivBounds, SizesAssumption
  <2>3. n <= R
    BY <1>1, <1>4, <2>2, FactorBelow, SizesAssumption
  <2> HIDE DEF n, R
  <2> QED
    BY <1>1, <1>4, <2>1, <2>3
<1>6. /\ \A i \in 1..m : blockKey[t[i]] \in {NoKey, Key(f, i - 1)}
      /\ \A i \in (m + 1)..Len(t) : ref[t[i]] = 1 /\ blockKey[t[i]] = NoKey
      /\ SharedInv
  BY <1>1, ContentByRequest DEF Content, Unfilled
<1>7. new = {i \in 1..n : blockKey[t[i]] = NoKey /\ Key(f, i - 1) \notin DOMAIN cached}
  BY DEF NewlyFull
<1> HIDE DEF t, n, m, R, new
<1>8. \A i \in 1..Len(t) : t[i] \in Elements(t) /\ t[i] \in Blocks
  BY <1>3, ListFacts
<1>9. ASSUME NEW i \in 1..n
      PROVE  i \in 1..Len(t) /\ Key(f, i - 1) \in Keys /\ Key(f, i - 1) # NoKey
  <2>1. i \in 1..Len(t) /\ i - 1 \in 0..(InputLen[f] + OutputLen[f])
    BY <1>3, <1>4, <1>5
  <2> QED
    BY <1>1, <2>1, KeyType, KeysAssumption
<1>10. ASSUME NEW i \in new PROVE blockKey'[t[i]] = Key(f, i - 1)
  <2>1. i \in 1..n /\ i \in 1..Len(t) /\ t[i] \in Blocks
    BY <1>7, <1>8, <1>9
  <2>2. \A j \in new : t[j] = t[i] => j = i
    BY <1>3, <1>7, <1>9, <2>1 DEF IsInjectiveSeq
  <2>3. at(t[i]) = i
    BY <2>2 DEF t
  <2> HIDE DEF at
  <2> QED
    BY <1>2, <2>1, <2>3 DEF t
<1> HIDE DEF at
<1>11. ASSUME NEW b \in Blocks, \A i \in new : t[i] # b PROVE blockKey'[b] = blockKey[b]
  BY <1>2, <1>11 DEF t
<1>12. ASSUME NEW i \in 1..Len(t), i \notin new PROVE blockKey'[t[i]] = blockKey[t[i]]
  <2>1. \A j \in new : j \in 1..Len(t)
    BY <1>7, <1>9
  <2>2. \A j \in new : t[j] # t[i]
    BY <1>3, <1>12, <2>1 DEF IsInjectiveSeq
  <2> QED
    BY <1>8, <1>11, <2>2
<1>13. ASSUME NEW i \in 1..n PROVE blockKey[t[i]] \in {NoKey, Key(f, i - 1)}
  <2>1. i \in 1..m \/ i \in (m + 1)..Len(t)
    BY <1>3, <1>4
  <2> QED
    BY <1>6, <2>1
<1>14. ASSUME NEW i \in 1..n
       PROVE  blockKey'[t[i]] \in {NoKey, Key(f, i - 1)} /\ Key(f, i - 1) \in DOMAIN cached'
  <2>1. CASE i \in new
    BY <1>2, <1>10, <2>1
  <2>2. CASE i \notin new
    <3>1. blockKey'[t[i]] = blockKey[t[i]] /\ blockKey[t[i]] \in {NoKey, Key(f, i - 1)}
      BY <1>9, <1>12, <1>13, <2>2
    <3>2. Key(f, i - 1) \in DOMAIN cached
      <4>1. CASE blockKey[t[i]] = NoKey
        BY <1>7, <2>2, <4>1
      <4>2. CASE blockKey[t[i]] = Key(f, i - 1)
        BY <1>8, <1>9, <4>2 DEF Inductive, CacheBijection
      <4> QED
        BY <3>1, <4>1, <4>2
    <3> QED
      BY <1>2, <3>1, <3>2
  <2> QED
    BY <2>1, <2>2
<1>15. ASSUME NEW i \in (n + 1)..Len(t) PROVE ref[t[i]] = 1 /\ blockKey'[t[i]] = NoKey
  <2>1. m <= n
    <3>1. computed[f] <= R
      BY FinishFacts DEF R
    <3> QED
      BY <1>1, <3>1, DivMonotonic, SizesAssumption DEF m, n
  <2>2. i \in (m + 1)..Len(t) /\ i \in 1..Len(t) /\ i \notin 1..n
    BY <1>3, <1>4, <2>1
  <2>3. i \notin new
    BY <1>7, <2>2
  <2> QED
    BY <1>6, <1>12, <2>2, <2>3
<1>16. ASSUME NEW q \in Elements(running), q # f, NEW b \in Elements(table[q])
       PROVE  blockKey'[b] = blockKey[b]
  <2>1. q \in Requests /\ b \in Blocks
    <3>1. q \in Requests
      BY RunningFacts
    <3> QED
      BY <3>1, HolderCounts
  <2>2. ASSUME NEW i \in new, t[i] = b PROVE FALSE
    <3>1. i \in 1..Len(t) /\ blockKey[b] = NoKey
      BY <1>7, <1>9, <2>2
    <3>2. b \in Elements(table[f])
      BY <1>8, <2>2, <3>1 DEF t
    <3>3. ref[b] > 1
      BY <1>1, <1>16, <2>1, <3>2, HolderCounts
    <3> QED
      BY <1>6, <2>1, <3>1, <3>3 DEF SharedInv
  <2> QED
    BY <1>11, <2>1, <2>2
<1>17. ASSUME NEW b \in Blocks, blockKey[b] # NoKey PROVE blockKey'[b] # NoKey
  <2>1. \A i \in new : t[i] # b
    BY <1>7, <1>17
  <2> QED
    BY <1>11, <1>17, <2>1
<1> QED
  BY <1>4, <1>14, <1>15, <1>16, <1>17 DEF t, n, R

LEMMA CountedContent ==
  ASSUME Inductive, ContentInv, InFinishLoop, CountStep, UNCHANGED <<ref, table, running>>
  PROVE  ContentInv'
<1> SUFFICES ASSUME NEW f, f = Finishing PROVE ContentInv'
  OBVIOUS
<1> DEFINE R == Reached
<1>1. /\ \A i \in 1..(R \div Block) : blockKey'[table[f][i]] \in {NoKey, Key(f, i - 1)}
      /\ \A i \in (R \div Block + 1)..Len(table[f]) :
           ref[table[f][i]] = 1 /\ blockKey'[table[f][i]] = NoKey
      /\ \A q \in Elements(running) : q # f =>
           \A b \in Elements(table[q]) : blockKey'[b] = blockKey[b]
      /\ \A b \in Blocks : blockKey[b] # NoKey => blockKey'[b] # NoKey
  BY CountStepContent
<1>2. /\ computed'[f] = R /\ Elements(running) \subseteq Requests
      /\ \A q \in Requests : q # f => computed'[q] = computed[q]
  <2>1. running \in Seq(Requests)
    BY DEF Inductive, TypeOK
  <2> QED
    BY <2>1, ListFacts, FinishFacts
<1>3. SharedInv /\ \A q \in Elements(running) : Content(q) /\ Unfilled(q)
  BY ContentByRequest
<1> HIDE DEF R
<1>4. ASSUME NEW q \in Elements(running), q # f PROVE Content(q)' /\ Unfilled(q)'
  <2>1. table'[q] = table[q] /\ computed'[q] = computed[q]
    BY <1>2, <1>4
  <2>2. \A b \in Elements(table[q]) : /\ blockKey'[b] = blockKey[b]
                                      /\ blockKey[b] = NoKey /\ ref[b] = 1 => ref'[b] = 1
    BY <1>1, <1>4
  <2> QED
    BY <1>3, <2>1, <2>2, ReaderKeeps
<1>5. Content(f)' /\ Unfilled(f)'
  <2>1. table' = table /\ ref' = ref
    OBVIOUS
  <2> QED
    <3>1. Content(f)'
      BY <1>1, <1>2, <2>1 DEF Content, Key, OutKey
    <3>2. Unfilled(f)'
      BY <1>1, <1>2, <2>1 DEF Unfilled
    <3> QED
      BY <3>1, <3>2
<1>6. SharedInv'
  BY <1>1, <1>3 DEF SharedInv
<1>7. \A q \in Elements(running') : Content(q)' /\ Unfilled(q)'
  BY <1>4, <1>5
<1> QED
  BY <1>6, <1>7 DEF ContentInv, ContentRight, UnfilledInv, Content, Unfilled

LEMMA FinishRequestContent == ASSUME Inductive, ContentInv, FinishRequest PROVE ContentInv'
<1> SUFFICES ASSUME NEW f, f = Finishing PROVE ContentInv'
  OBVIOUS
<1>1. /\ InFinishLoop /\ CountStep /\ ReleasedPool(f)
      /\ table' = [table EXCEPT ![f] = <<>>]
      /\ running' = Without(running, f)
  BY DEF FinishRequest
<1>2. /\ f \in Requests /\ \A q \in Requests : q # f => computed'[q] = computed[q]
  BY <1>1, FinishFacts
<1>3. /\ \A q \in Elements(running) : q # f =>
           \A b \in Elements(table[q]) : blockKey'[b] = blockKey[b]
      /\ \A b \in Blocks : blockKey[b] # NoKey => blockKey'[b] # NoKey
  BY <1>1, CountStepContent
<1>4. /\ ref \in [Blocks -> Nat] /\ table \in [Requests -> Seq(Blocks)]
      /\ running \in Seq(Requests) /\ IsInjectiveSeq(running)
      /\ Elements(running) \subseteq Requests
  <2>1. running \in Seq(Requests)
    BY DEF Inductive, TypeOK
  <2> QED
    BY <2>1, ListFacts DEF Inductive, TypeOK, QueueInv
<1>5. Elements(running') = Elements(running) \ {f}
  <2> DEFINE others == Elements(running) \ {f}
  <2>1. running' = Sublist(running, others)
    BY <1>1 DEF Without
  <2>2. Elements(running) \cap others = others
    OBVIOUS
  <2> HIDE DEF others
  <2>3. Elements(running') = others
    BY <1>4, <2>1, <2>2, SublistElements
  <2> QED
    BY <2>3 DEF others
<1>6. SharedInv /\ \A q \in Elements(running) : Content(q) /\ Unfilled(q)
  BY ContentByRequest
<1>7. ASSUME NEW q \in Elements(running') PROVE Content(q)' /\ Unfilled(q)'
  <2>1. q \in Elements(running) /\ q \in Requests /\ q # f
    BY <1>4, <1>5
  <2>2. table'[q] = table[q] /\ computed'[q] = computed[q]
    BY <1>1, <1>2, <1>4, <2>1
  <2>3. \A b \in Elements(table[q]) : /\ blockKey'[b] = blockKey[b]
                                      /\ blockKey[b] = NoKey /\ ref[b] = 1 => ref'[b] = 1
    BY <1>1, <1>2, <1>3, <2>1, ReleaseKeeps
  <2> QED
    BY <1>6, <2>1, <2>2, <2>3, ReaderKeeps
<1>8. SharedInv'
  <2>1. ASSUME NEW b \in Blocks, ref'[b] > 1 PROVE blockKey'[b] # NoKey
    <3>1. ref[b] > 1
      BY <1>1, <1>4, <2>1 DEF ReleasedPool
    <3> QED
      BY <1>3, <1>6, <3>1 DEF SharedInv
  <2> QED
    BY <2>1 DEF SharedInv
<1> QED
  BY <1>7, <1>8 DEF ContentInv, ContentRight, UnfilledInv, Content, Unfilled

-----------------------------------------------------------------------------
(* The invariant *)

(* What every block holds is right: a cached block of a running request is  *)
(* cached under that request's key, a block still being filled has one      *)
(* holder and no cache entry, and a shared block has an entry.              *)
THEOREM ContentInvariant == Spec => [](Inductive /\ ContentInv)
<1>1. Init => Inductive /\ ContentInv
  BY InductiveInit, ContentInit
<1>2. Inductive /\ ContentInv /\ [Next]_vars => ContentInv'
  <2> SUFFICES ASSUME Inductive, ContentInv, [Next]_vars PROVE ContentInv'
    OBVIOUS
  <2>1. CASE PlanRunning
    BY <2>1, PlanRunningContent
  <2>2. CASE Preempt
    BY <2>2, PreemptContent
  <2>3. CASE Admit
    BY <2>3, AdmitContent
  <2>4. CASE FinishChunk
    BY <2>4, CountedContent DEF FinishChunk
  <2>5. CASE FinishToken
    BY <2>5, CountedContent DEF FinishToken
  <2>6. CASE FinishRequest
    BY <2>6, FinishRequestContent
  <2>7. CASE UNCHANGED <<blockKey, ref, table, computed, running>>
    BY <2>7, ContentFrame
  <2>8. CASE EndRunning \/ EndAdmit \/ StepDue \/ NextStep
    BY <2>7, <2>8 DEF EndRunning, EndAdmit, StepDue, NextStep, pool, requests
  <2>9. ASSUME NEW r \in Requests, Submit(r) PROVE ContentInv'
    BY <2>7, <2>9 DEF Submit, pool
  <2>10. CASE Finished \/ UNCHANGED vars
    BY <2>7, <2>10 DEF Finished, vars, pool, requests, scheduler
  <2> QED
    BY <2>1, <2>2, <2>3, <2>4, <2>5, <2>6, <2>8, <2>9, <2>10 DEF Next, EngineStep
<1>3. Spec => []Inductive
  BY InductiveInvariant
<1> QED
  BY <1>1, <1>2, <1>3, PTL DEF Spec

(* A cached prefix is the right one: no block is relabelled or evicted      *)
(* under a running request that reads it, whatever the others are given,    *)
(* complete or lose (_pop_free, _cache_full, _release).                     *)
THEOREM PrefixRight == Spec => []ContentRight
<1>1. Inductive /\ ContentInv => ContentRight
  BY DEF ContentInv
<1> QED
  BY <1>1, ContentInvariant, PTL

(* What a step in flight writes is its own: a block that a planned request  *)
(* is about to fill has no second holder and no cache entry.                *)
THEOREM WritesExclusive == Spec => []WriteExclusive
<1>1. Inductive /\ ContentInv => WriteExclusive
  <2> SUFFICES ASSUME Inductive, ContentInv, NEW p \in DOMAIN plan,
                      NEW i \in (computed[plan[p][1]] \div Block + 1)
                                 ..CeilBlocks(computed[plan[p][1]] + plan[p][2])
               PROVE  /\ ref[table[plan[p][1]][i]] = 1
                      /\ blockKey[table[plan[p][1]][i]] = NoKey
    BY DEF WriteExclusive
  <2>1. /\ plan[p][1] \in Elements(running)
        /\ Len(table[plan[p][1]]) = CeilBlocks(computed[plan[p][1]] + plan[p][2])
    BY DEF Inductive, PlanCovered
  <2> QED
    BY <2>1 DEF ContentInv, UnfilledInv
<1> QED
  BY <1>1, ContentInvariant, PTL

LEMMA PromptCached ==
  ASSUME Inductive, ContentInv, InFinishLoop, CountStep, Reached >= Length(Finishing),
         NEW i \in 0..(Len(PromptKeys[Finishing]) - 1)
  PROVE  Key(Finishing, i) \in DOMAIN cached'
<1> SUFFICES ASSUME NEW f, f = Finishing, NEW R, R = Reached PROVE Key(f, i) \in DOMAIN cached'
  OBVIOUS
<1>1. /\ \A j \in 1..(R \div Block) : Key(f, j - 1) \in DOMAIN cached'
      /\ R \div Block \in Nat
  BY CountStepContent
<1>2. /\ f \in Requests /\ R \in Nat /\ Length(f) \in Nat /\ R >= Length(f)
      /\ generated[f] \in Nat
  BY FinishFacts
<1>3. InputLen[f] \in Nat /\ InputLen[f] <= R /\ Len(PromptKeys[f]) = InputLen[f] \div Block
  BY <1>2, RequestsAssumption DEF Length
<1> DEFINE n == R \div Block
           p == InputLen[f] \div Block
<1>4. p <= n /\ p \in Nat /\ n \in Nat
  BY <1>2, <1>3, DivMonotonic, DivBounds, SizesAssumption
<1>5. i \in 0..(p - 1)
  BY <1>3
<1> HIDE DEF n, p
<1>6. i + 1 \in 1..n /\ (i + 1) - 1 = i
  BY <1>4, <1>5
<1>7. \A j \in 1..n : Key(f, j - 1) \in DOMAIN cached'
  BY <1>1 DEF n
<1> QED
  BY <1>6, <1>7

(* When finish_step() reports a first token, and the router takes the       *)
(* prompt off its in-flight index, every full block of the prompt is in the *)
(* cache, this copy or another.                                             *)
THEOREM PromptThenCached == Spec => FirstTokenCached
<1> DEFINE A == \A r \in Requests : first'[r] /\ ~first[r] =>
                  \A i \in 0..(Len(PromptKeys[r]) - 1) : Key(r, i) \in DOMAIN cached'
<1>1. Inductive /\ ContentInv /\ [Next]_vars => [A]_vars
  <2> SUFFICES ASSUME Inductive, ContentInv, [Next]_vars,
                      NEW r \in Requests, first'[r], ~first[r],
                      NEW i \in 0..(Len(PromptKeys[r]) - 1)
               PROVE  Key(r, i) \in DOMAIN cached'
    OBVIOUS
  <2>1. FinishToken \/ FinishRequest
    <3>1. first' # first
      OBVIOUS
    <3> QED
      BY <3>1 DEF Next, EngineStep, Submit, PlanRunning, Preempt, EndRunning, Admit, EndAdmit,
                  StepDue, FinishChunk, NextStep, Finished, vars, requests
  <2>2. /\ InFinishLoop /\ CountStep /\ Reached >= Length(Finishing)
        /\ first' = [first EXCEPT ![Finishing] = TRUE]
    BY <2>1 DEF FinishToken, FinishRequest, EmitToken
  <2>3. r = Finishing
    <3>1. first \in [Requests -> BOOLEAN]
      BY DEF Inductive, TypeOK
    <3> QED
      BY <2>2, <3>1
  <2> QED
    BY <2>2, <2>3, PromptCached
<1> QED
  BY <1>1, ContentInvariant, PTL DEF Spec, FirstTokenCached

-----------------------------------------------------------------------------
(* Lists in ascending order of something *)

Ascending(s, at) == \A i, j \in DOMAIN s : i < j => at[s[i]] < at[s[j]]
Precedes(s, t, at) == \A x \in Elements(s), y \in Elements(t) : at[x] < at[y]

LEMMA AscendingConcat ==
  ASSUME NEW T, NEW s \in Seq(T), NEW t \in Seq(T), NEW at
  PROVE  Ascending(s \o t, at) <=> Ascending(s, at) /\ Ascending(t, at) /\ Precedes(s, t, at)
<1> DEFINE u == s \o t
           k == Len(s)
           n == Len(t)
<1>1. /\ k \in Nat /\ n \in Nat /\ DOMAIN u = 1..(k + n)
      /\ DOMAIN s = 1..k /\ DOMAIN t = 1..n
      /\ \A i \in 1..k : u[i] = s[i]
      /\ \A i \in 1..n : u[k + i] = t[i]
  OBVIOUS
<1> HIDE DEF u, k, n
<1>2. /\ \A i \in 1..k : i \in 1..(k + n)
      /\ \A i \in 1..n : k + i \in 1..(k + n)
      /\ \A i \in 1..k, j \in 1..n : i < k + j
      /\ \A i, j \in 1..n : i < j => k + i < k + j
  BY <1>1
<1>3. ASSUME Ascending(u, at) PROVE Ascending(s, at) /\ Ascending(t, at) /\ Precedes(s, t, at)
  <2>1. Ascending(s, at)
    BY <1>1, <1>2, <1>3 DEF Ascending
  <2>2. ASSUME NEW i \in 1..n, NEW j \in 1..n, i < j PROVE at[t[i]] < at[t[j]]
    <3>1. k + i \in DOMAIN u /\ k + j \in DOMAIN u /\ k + i < k + j
      BY <1>1, <1>2, <2>2
    <3> QED
      BY <1>1, <1>3, <3>1 DEF Ascending
  <2>3. ASSUME NEW i \in 1..k, NEW j \in 1..n PROVE at[s[i]] < at[t[j]]
    <3>1. i \in DOMAIN u /\ k + j \in DOMAIN u /\ i < k + j
      BY <1>1, <1>2
    <3> QED
      BY <1>1, <1>3, <3>1 DEF Ascending
  <2> QED
    BY <1>1, <2>1, <2>2, <2>3 DEF Ascending, Precedes, Elements
<1>4. ASSUME Ascending(s, at), Ascending(t, at), Precedes(s, t, at) PROVE Ascending(u, at)
  <2> SUFFICES ASSUME NEW i \in 1..(k + n), NEW j \in 1..(k + n), i < j PROVE at[u[i]] < at[u[j]]
    BY <1>1 DEF Ascending
  <2>1. CASE j \in 1..k
    <3>1. i \in 1..k
      BY <1>1, <2>1
    <3> QED
      BY <1>1, <1>4, <2>1, <3>1 DEF Ascending
  <2>2. CASE i \notin 1..k
    <3>1. i - k \in 1..n /\ j - k \in 1..n /\ i - k < j - k /\ k + (i - k) = i /\ k + (j - k) = j
      BY <1>1, <2>2
    <3>2. u[i] = t[i - k] /\ u[j] = t[j - k]
      BY <1>1, <3>1
    <3>3. at[t[i - k]] < at[t[j - k]]
      BY Zenon, <1>1, <1>4, <3>1 DEF Ascending
    <3> QED
      BY <3>2, <3>3
  <2>3. CASE i \in 1..k /\ j \notin 1..k
    <3>1. j - k \in 1..n /\ k + (j - k) = j
      BY <1>1, <2>3
    <3>2. u[i] = s[i] /\ u[j] = t[j - k] /\ s[i] \in Elements(s) /\ t[j - k] \in Elements(t)
      BY <1>1, <2>3, <3>1 DEF Elements
    <3> QED
      BY <1>4, <3>2 DEF Precedes
  <2> QED
    BY <2>1, <2>2, <2>3
<1> QED
  BY <1>3, <1>4 DEF u

LEMMA AscendingSublist ==
  ASSUME NEW T, NEW s \in Seq(T), NEW S, NEW at, Ascending(s, at)
  PROVE  Ascending(Sublist(s, S), at)
<1> SUFFICES ASSUME NEW i \in DOMAIN Sublist(s, S), NEW j \in DOMAIN Sublist(s, S), i < j
             PROVE  at[Sublist(s, S)[i]] < at[Sublist(s, S)[j]]
  BY DEF Ascending
<1>1. PICK a, b \in DOMAIN s : a < b /\ Sublist(s, S)[i] = s[a] /\ Sublist(s, S)[j] = s[b]
  BY SublistOrder
<1> QED
  BY <1>1 DEF Ascending

LEMMA Singleton ==
  ASSUME NEW T, NEW x \in T, NEW at
  PROVE  <<x>> \in Seq(T) /\ Elements(<<x>>) = {x} /\ Ascending(<<x>>, at)
BY DEF Elements, Ascending

-----------------------------------------------------------------------------
(* First come, first served *)

ArrivalOrder == NoOvertaking /\ ArrivalInv

Open == {r \in Arrived : ~done[r]}
InOrder == /\ Elements(running) \cup Elements(waiting) = Open
           /\ Ascending(running, rank) /\ Ascending(waiting, rank)
           /\ Precedes(running, waiting, rank)

LEMMA OrderByParts == ASSUME Inductive PROVE NoOvertaking <=> InOrder
<1>1. running \in Seq(Requests) /\ waiting \in Seq(Requests)
  BY DEF Inductive, TypeOK
<1>2. Elements(Queue) = Elements(running) \cup Elements(waiting)
  BY <1>1, ConcatFacts DEF Queue
<1>3. Ascending(Queue, rank) <=>
        Ascending(running, rank) /\ Ascending(waiting, rank) /\ Precedes(running, waiting, rank)
  BY <1>1, AscendingConcat DEF Queue
<1>4. NoOvertaking <=> Elements(Queue) = Open /\ Ascending(Queue, rank)
  BY DEF NoOvertaking, Ascending, Open
<1> QED
  BY <1>2, <1>3, <1>4 DEF InOrder

(* The primed counterpart. *)
LEMMA OrderFromParts ==
  ASSUME Inductive', InOrder' PROVE NoOvertaking'
<1>1. running' \in Seq(Requests) /\ waiting' \in Seq(Requests)
  BY DEF Inductive, TypeOK
<1>2. Elements(running' \o waiting') = Elements(running') \cup Elements(waiting')
  BY <1>1, ConcatFacts
<1>3. Ascending(running' \o waiting', rank')
  BY <1>1, AscendingConcat DEF InOrder
<1> QED
  BY <1>2, <1>3 DEF NoOvertaking, Queue, Ascending, Open, InOrder

LEMMA ArrivalOrderInit == Init => ArrivalOrder
<1> SUFFICES ASSUME Init PROVE ArrivalOrder
  OBVIOUS
<1>1. Arrived = {} /\ Cardinality(Arrived) = 0
  BY FS_EmptySet DEF Init, Arrived
<1>2. Queue = <<>>
  BY DEF Init, Queue
<1>3. Elements(Queue) = {} /\ DOMAIN Queue = {}
  BY <1>2 DEF Elements
<1> QED
  BY <1>1, <1>3 DEF Init, ArrivalOrder, NoOvertaking, ArrivalInv

LEMMA ArrivalOrderFrame ==
  ASSUME ArrivalOrder, UNCHANGED <<rank, generated, done, running, waiting>>
  PROVE  ArrivalOrder'
  BY DEF ArrivalOrder, NoOvertaking, ArrivalInv, Queue, Arrived

(* A newcomer's rank is above every other. *)
LEMMA SubmitOrder ==
  ASSUME Inductive, Inductive', ArrivalOrder, NEW r \in Requests, Submit(r)
  PROVE  ArrivalOrder'
<1> DEFINE n == Cardinality(Arrived)
           one == <<r>>
<1>1. /\ rank[r] = 0 /\ rank' = [rank EXCEPT ![r] = n + 1] /\ waiting' = Append(waiting, r)
      /\ UNCHANGED <<generated, done, running>>
  BY DEF Submit
<1>2. /\ running \in Seq(Requests) /\ waiting \in Seq(Requests)
      /\ Elements(running) \subseteq Requests /\ Elements(waiting) \subseteq Requests
      /\ rank \in [Requests -> Nat] /\ InOrder /\ ArrivalInv /\ QueueInv
  <2>1. running \in Seq(Requests) /\ waiting \in Seq(Requests)
    BY DEF Inductive, TypeOK
  <2> QED
    BY <2>1, ListFacts, OrderByParts DEF ArrivalOrder, Inductive, TypeOK
<1>3. IsFiniteSet(Arrived) /\ n \in Nat /\ r \notin Arrived
  <2>1. Arrived \in SUBSET Requests
    BY DEF Arrived
  <2> QED
    BY <1>1, <2>1, RequestsAssumption, FS_Subset, FS_CardinalityType DEF Arrived
<1>4. /\ rank'[r] = n + 1 /\ \A q \in Requests : q # r => rank'[q] = rank[q]
      /\ Arrived' = Arrived \cup {r}
  <2>1. rank'[r] = n + 1 /\ \A q \in Requests : q # r => rank'[q] = rank[q]
    BY <1>1, <1>2
  <2> HIDE DEF n
  <2> QED
    BY <1>3, <2>1 DEF Arrived
<1>5. Cardinality(Arrived') = n + 1
  BY <1>3, <1>4, FS_AddElement
<1> HIDE DEF n
<1>6. \A q \in Requests : rank[q] \in Nat /\ rank[q] <= n
  BY <1>2 DEF ArrivalInv, n
<1>7. r \notin Elements(running) /\ r \notin Elements(waiting)
  BY <1>1, <1>2 DEF QueueInv
<1>8. /\ waiting' = waiting \o one /\ one \in Seq(Requests) /\ Elements(one) = {r}
      /\ Ascending(one, rank')
  <2>1. waiting' = waiting \o one
    BY <1>1, <1>2
  <2>2. one \in Seq(Requests) /\ Elements(one) = {r}
    BY Singleton
  <2>3. Ascending(one, rank')
    BY Singleton
  <2> QED
    BY <2>1, <2>2, <2>3
<1> HIDE DEF one
<1>9. /\ \A q \in Elements(running) : rank'[q] = rank[q] /\ rank'[q] < n + 1
      /\ \A q \in Elements(waiting) : rank'[q] = rank[q] /\ rank'[q] < n + 1
  <2>1. \A q \in Requests : rank[q] < n + 1
    BY <1>3, <1>6
  <2> QED
    BY <1>2, <1>4, <1>7, <2>1
<1>10. Ascending(running, rank') /\ Ascending(waiting, rank')
  <2>1. /\ \A i \in DOMAIN running : running[i] \in Elements(running)
        /\ \A i \in DOMAIN waiting : waiting[i] \in Elements(waiting)
    BY DEF Elements
  <2> QED
    BY <1>2, <1>9, <2>1 DEF InOrder, Ascending
<1>11. Precedes(waiting, one, rank')
  BY <1>4, <1>8, <1>9 DEF Precedes
<1>12. Ascending(waiting', rank')
  BY <1>2, <1>8, <1>10, <1>11, AscendingConcat
<1>13. Elements(waiting') = Elements(waiting) \cup {r}
  BY <1>2, <1>8, ConcatFacts
<1>14. Precedes(running', waiting', rank')
  <2>1. \A x \in Elements(running), y \in Elements(waiting) : rank'[x] < rank'[y]
    BY <1>2, <1>9 DEF InOrder, Precedes
  <2>2. \A x \in Elements(running) : rank'[x] < rank'[r]
    BY <1>4, <1>9
  <2> QED
    BY <1>1, <1>13, <2>1, <2>2 DEF Precedes
<1>15. ~done[r]
  <2>1. generated[r] = 0 /\ OutputLen[r] \in Nat /\ OutputLen[r] # 0
    BY <1>1, <1>2, RequestsAssumption DEF QueueInv
  <2> QED
    BY <1>2, <2>1 DEF ArrivalInv
<1>16. InOrder'
  <2>1. Elements(running') \cup Elements(waiting') = Open'
    BY <1>1, <1>2, <1>4, <1>13, <1>15 DEF InOrder, Open
  <2> QED
    BY Zenon, <1>1, <1>10, <1>12, <1>14, <2>1 DEF InOrder
<1>17. ArrivalInv'
  <2>1. \A q \in Requests : rank'[q] <= n + 1
    BY <1>3, <1>4, <1>6
  <2> QED
    BY <1>1, <1>2, <1>5, <2>1 DEF ArrivalInv
<1> QED
  BY <1>16, <1>17, OrderFromParts DEF ArrivalOrder

LEMMA FrontAndLast ==
  ASSUME NEW T, NEW s \in Seq(T), s # <<>>
  PROVE  LET front == SubSeq(s, 1, Len(s) - 1)
         IN /\ front \in Seq(T) /\ s[Len(s)] \in T
            /\ s = front \o <<s[Len(s)]>>
<1> DEFINE n == Len(s)
           front == SubSeq(s, 1, n - 1)
           last == s[n]
           u == front \o <<last>>
<1>1. n \in Nat /\ n >= 1 /\ n - 1 \in Nat /\ DOMAIN s = 1..n /\ last \in T
  OBVIOUS
<1>2. front \in Seq(T) /\ Len(front) = n - 1 /\ \A i \in 1..(n - 1) : front[i] = s[i]
  BY <1>1
<1> HIDE DEF front, last
<1>3. u \in Seq(T) /\ Len(u) = n /\ \A i \in 1..n : u[i] = IF i <= n - 1 THEN front[i] ELSE last
  <2> DEFINE m == n - 1
  <2>1. m \in Nat /\ n = m + 1 /\ Len(front) = m
    BY <1>1, <1>2
  <2> HIDE DEF n, m
  <2>2. u \in Seq(T) /\ Len(u) = m + 1 /\ \A i \in 1..(m + 1) : u[i] = IF i <= m THEN front[i] ELSE last
    BY <1>1, <1>2, <2>1
  <2> QED
    BY <2>1, <2>2 DEF m
<1> HIDE DEF u, n
<1>4. \A i \in 1..n : u[i] = s[i]
  <2> SUFFICES ASSUME NEW i \in 1..n PROVE u[i] = s[i]
    OBVIOUS
  <2>1. CASE i <= n - 1
    <3>1. i \in 1..(n - 1) /\ u[i] = front[i]
      BY <1>1, <1>3, <2>1
    <3> QED
      BY <1>2, <3>1
  <2>2. CASE ~(i <= n - 1)
    <3>1. i = n
      BY <1>1, <2>2
    <3>2. u[i] = last
      BY <1>3, <2>2
    <3> QED
      BY <3>1, <3>2 DEF last
  <2> QED
    BY <2>1, <2>2
<1>5. u = s
  BY <1>1, <1>3, <1>4 DEF n
<1> QED
  BY Zenon, <1>1, <1>2, <1>5 DEF u, front, last, n

LEMMA HeadThenTail ==
  ASSUME NEW T, NEW s \in Seq(T), s # <<>>
  PROVE  Head(s) \in T /\ Tail(s) \in Seq(T) /\ s = <<Head(s)>> \o Tail(s)
OBVIOUS

(* The victim leaves the end of one list for the head of the other. *)
LEMMA PreemptOrder ==
  ASSUME Inductive, Inductive', ArrivalOrder, Preempt
  PROVE  ArrivalOrder'
<1> DEFINE v == running[Len(running)]
           front == SubSeq(running, 1, Len(running) - 1)
           one == <<v>>
<1>1. /\ running' = front /\ waiting' = one \o waiting /\ running # <<>>
      /\ UNCHANGED <<rank, generated, done>>
  <2>1. InRunningLoop /\ running \in Seq(Requests) /\ cursor \in Nat \ {0}
    BY DEF Preempt, Inductive, TypeOK
  <2>2. running # <<>>
    BY <2>1 DEF InRunningLoop
  <2> QED
    BY <2>2 DEF Preempt, Requeue
<1>2. running \in Seq(Requests) /\ waiting \in Seq(Requests) /\ InOrder /\ ArrivalInv
  BY OrderByParts DEF ArrivalOrder, Inductive, TypeOK
<1>3. front \in Seq(Requests) /\ v \in Requests /\ running = front \o one
  BY <1>1, <1>2, FrontAndLast
<1>4. one \in Seq(Requests) /\ Elements(one) = {v} /\ Ascending(one, rank)
  BY <1>3, Singleton
<1> HIDE DEF v, front, one
<1>5. Ascending(front, rank) /\ Precedes(front, one, rank)
  BY <1>2, <1>3, <1>4, AscendingConcat DEF InOrder
<1>6. /\ Elements(running) = Elements(front) \cup {v}
      /\ Elements(waiting') = {v} \cup Elements(waiting)
  BY <1>1, <1>2, <1>3, <1>4, ConcatFacts
<1>7. Precedes(one, waiting, rank) /\ Precedes(front, waiting, rank)
  BY <1>2, <1>4, <1>6 DEF InOrder, Precedes
<1>8. Ascending(waiting', rank)
  BY <1>1, <1>2, <1>4, <1>7, AscendingConcat DEF InOrder
<1>9. Precedes(running', waiting', rank)
  BY <1>1, <1>4, <1>5, <1>6, <1>7 DEF Precedes
<1>10. InOrder'
  BY <1>1, <1>2, <1>5, <1>6, <1>8, <1>9 DEF InOrder, Open, Arrived
<1>11. ArrivalInv'
  BY <1>1, <1>2 DEF ArrivalInv, Arrived
<1> QED
  BY <1>10, <1>11, OrderFromParts DEF ArrivalOrder

(* The head of the queue becomes the last of the running requests. *)
LEMMA AdmitOrder ==
  ASSUME Inductive, Inductive', ArrivalOrder, Admit
  PROVE  ArrivalOrder'
<1> DEFINE r == Head(waiting)
           rest == Tail(waiting)
           one == <<r>>
<1>1. /\ running' = Append(running, r) /\ waiting' = rest /\ waiting # <<>>
      /\ UNCHANGED <<rank, generated, done>>
  BY DEF Admit, InAdmitLoop
<1>2. running \in Seq(Requests) /\ waiting \in Seq(Requests) /\ InOrder /\ ArrivalInv
  BY OrderByParts DEF ArrivalOrder, Inductive, TypeOK
<1>3. rest \in Seq(Requests) /\ r \in Requests /\ waiting = one \o rest
  BY <1>1, <1>2, HeadThenTail
<1>4. /\ one \in Seq(Requests) /\ Elements(one) = {r} /\ Ascending(one, rank)
      /\ running' = running \o one
  <2>1. running' = running \o one
    BY <1>1, <1>2, <1>3
  <2>2. one \in Seq(Requests) /\ Elements(one) = {r}
    BY <1>3, Singleton
  <2>3. Ascending(one, rank)
    BY Zenon, <1>3, Singleton
  <2> QED
    BY <2>1, <2>2, <2>3
<1> HIDE DEF r, rest, one
<1>5. Ascending(rest, rank) /\ Precedes(one, rest, rank)
  BY <1>2, <1>3, <1>4, AscendingConcat DEF InOrder
<1>6. /\ Elements(waiting) = {r} \cup Elements(rest)
      /\ Elements(running') = Elements(running) \cup {r}
  BY <1>1, <1>2, <1>3, <1>4, ConcatFacts
<1>7. Precedes(running, one, rank) /\ Precedes(running, rest, rank)
  BY <1>2, <1>4, <1>6 DEF InOrder, Precedes
<1>8. Ascending(running', rank)
  BY <1>2, <1>4, <1>7, AscendingConcat DEF InOrder
<1>9. Precedes(running', waiting', rank)
  BY <1>1, <1>4, <1>5, <1>6, <1>7 DEF Precedes
<1>10. InOrder'
  BY <1>1, <1>2, <1>5, <1>6, <1>8, <1>9 DEF InOrder, Open, Arrived
<1>11. ArrivalInv'
  BY <1>1, <1>2 DEF ArrivalInv, Arrived
<1> QED
  BY <1>10, <1>11, OrderFromParts DEF ArrivalOrder

(* A request that is answered leaves; those left keep their order. *)
LEMMA FinishRequestOrder ==
  ASSUME Inductive, Inductive', ArrivalOrder, FinishRequest
  PROVE  ArrivalOrder'
<1> SUFFICES ASSUME NEW f, f = Finishing PROVE ArrivalOrder'
  OBVIOUS
<1>1. /\ InFinishLoop /\ CountStep
      /\ generated[f] + 1 >= OutputLen[f]
      /\ generated' = [generated EXCEPT ![f] = @ + 1]
      /\ done' = [done EXCEPT ![f] = TRUE]
      /\ running' = Sublist(running, Elements(running) \ {f})
      /\ UNCHANGED <<rank, waiting>>
  BY DEF FinishRequest, EmitToken, Without
<1>2. f \in Requests /\ f \in Elements(running) /\ generated[f] \in Nat
  BY <1>1, FinishFacts
<1>3. /\ running \in Seq(Requests) /\ waiting \in Seq(Requests) /\ InOrder /\ ArrivalInv
      /\ Elements(running) \cap Elements(waiting) = {}
      /\ generated \in [Requests -> Nat] /\ done \in [Requests -> BOOLEAN]
  BY OrderByParts DEF ArrivalOrder, Inductive, TypeOK, QueueInv
<1>4. Elements(running') = Elements(running) \ {f} /\ Ascending(running', rank)
  BY <1>1, <1>3, SublistElements, AscendingSublist DEF InOrder
<1>5. done'[f] /\ \A q \in Requests : q # f => done'[q] = done[q]
  BY <1>1, <1>2, <1>3
<1>6. Arrived' = Arrived /\ Open' = Open \ {f}
  <2>1. Arrived' = Arrived /\ Arrived \subseteq Requests
    BY <1>1 DEF Arrived
  <2> QED
    BY <1>5, <2>1 DEF Open
<1>7. Elements(running') \cup Elements(waiting') = Open'
  BY <1>1, <1>2, <1>3, <1>4, <1>6 DEF InOrder
<1>8. Precedes(running', waiting', rank')
  BY <1>1, <1>3, <1>4 DEF InOrder, Precedes
<1>9. InOrder'
  BY <1>1, <1>3, <1>4, <1>7, <1>8 DEF InOrder
<1>10. ArrivalInv'
  <2>1. ASSUME NEW q \in Requests, done'[q] PROVE generated'[q] >= OutputLen[q]
    <3>1. CASE q = f
      BY <1>1, <1>2, <1>3, <3>1
    <3>2. CASE q # f
      BY <1>1, <1>3, <1>5, <2>1, <3>2 DEF ArrivalInv
    <3> QED
      BY <3>1, <3>2
  <2>2. \A q \in Requests : rank'[q] <= Cardinality(Arrived')
    BY <1>1, <1>3, <1>6 DEF ArrivalInv
  <2> QED
    BY <2>1, <2>2 DEF ArrivalInv
<1> QED
  BY <1>9, <1>10, OrderFromParts DEF ArrivalOrder

LEMMA FinishTokenOrder ==
  ASSUME Inductive, ArrivalOrder, FinishToken
  PROVE  ArrivalOrder'
<1>1. /\ generated' = [generated EXCEPT ![Finishing] = @ + 1]
      /\ UNCHANGED <<rank, done, running, waiting>>
  BY DEF FinishToken, EmitToken
<1>2. generated \in [Requests -> Nat] /\ OutputLen \in [Requests -> Nat \ {0}]
  BY RequestsAssumption DEF Inductive, TypeOK
<1>3. \A q \in Requests : /\ generated[q] \in Nat /\ generated'[q] \in Nat
                          /\ generated'[q] >= generated[q] /\ OutputLen[q] \in Nat
  BY <1>1, <1>2
<1>4. ArrivalInv'
  BY <1>1, <1>3 DEF ArrivalOrder, ArrivalInv, Arrived
<1> QED
  BY <1>1, <1>4 DEF ArrivalOrder, NoOvertaking, Queue, Arrived

THEOREM ArrivalOrderInvariant == Spec => []ArrivalOrder
<1>1. Init => ArrivalOrder
  BY ArrivalOrderInit
<1>2. Inductive /\ Inductive' /\ ArrivalOrder /\ [Next]_vars => ArrivalOrder'
  <2> SUFFICES ASSUME Inductive, Inductive', ArrivalOrder, [Next]_vars PROVE ArrivalOrder'
    OBVIOUS
  <2>1. ASSUME NEW r \in Requests, Submit(r) PROVE ArrivalOrder'
    BY <2>1, SubmitOrder
  <2>2. CASE Preempt
    BY <2>2, PreemptOrder
  <2>3. CASE Admit
    BY <2>3, AdmitOrder
  <2>4. CASE FinishRequest
    BY <2>4, FinishRequestOrder
  <2>5. CASE FinishToken
    BY <2>5, FinishTokenOrder
  <2>6. CASE UNCHANGED <<rank, generated, done, running, waiting>>
    BY <2>6, ArrivalOrderFrame
  <2>7. CASE PlanRunning \/ FinishChunk
    BY <2>6, <2>7 DEF PlanRunning, FinishChunk
  <2>8. CASE EndRunning \/ EndAdmit \/ StepDue \/ NextStep
    BY <2>6, <2>8 DEF EndRunning, EndAdmit, StepDue, NextStep, requests
  <2>9. CASE Finished \/ UNCHANGED vars
    BY <2>6, <2>9 DEF Finished, vars, requests, scheduler
  <2> QED
    BY <2>1, <2>2, <2>3, <2>4, <2>5, <2>7, <2>8, <2>9 DEF Next, EngineStep
<1>3. Spec => []Inductive
  BY InductiveInvariant
<1> QED
  BY <1>1, <1>2, <1>3, PTL DEF Spec

(* First come, first served, and nobody lost: running \o waiting is exactly *)
(* the arrived and unanswered requests, each once, in the order they came,  *)
(* however often some of them were preempted.                               *)
THEOREM FirstComeFirstServed == Spec => []NoOvertaking
<1>1. ArrivalOrder => NoOvertaking
  BY DEF ArrivalOrder
<1> QED
  BY <1>1, ArrivalOrderInvariant, PTL

-----------------------------------------------------------------------------
(* A request alone on the instance finds room *)

LEMMA LoneFree ==
  ASSUME Inductive, NEW r \in Requests, \A q \in Requests : q # r => table[q] = <<>>
  PROVE  /\ Len(free) \in Nat /\ Len(table[r]) \in Nat
         /\ Len(free) + Len(table[r]) = NumBlocks
<1>1. /\ TypeOK /\ PoolAccounting /\ free \in Seq(Blocks) /\ table[r] \in Seq(Blocks)
      /\ IsInjectiveSeq(free) /\ IsInjectiveSeq(table[r])
  BY DEF Inductive, TypeOK, PoolAccounting
<1>2. ASSUME NEW b \in Blocks, b \notin Elements(table[r]) PROVE b \in Elements(free)
  <2>1. \A q \in Requests : b \notin Elements(table[q])
    <3>1. Elements(<<>>) = {}
      BY DEF Elements
    <3> QED
      BY <1>2, <3>1
  <2>2. Holders(b) = {}
    BY <2>1 DEF Holders
  <2>3. ref[b] = 0
    BY <1>1, <2>2, FS_EmptySet DEF PoolAccounting
  <2> QED
    BY <1>1, <2>3 DEF PoolAccounting
<1>3. /\ Elements(table[r]) \cap Elements(free) = {} /\ Elements(table[r]) \subseteq Blocks
      /\ Elements(free) \subseteq Blocks
  BY <1>1, OwnedNotFree, ListFacts
<1> DEFINE F == Elements(free)
           H == Elements(table[r])
<1>4. F \cup H = Blocks /\ F \cap H = {}
  BY <1>2, <1>3
<1>5. /\ IsFiniteSet(F) /\ Cardinality(F) = Len(free)
      /\ IsFiniteSet(H) /\ Cardinality(H) = Len(table[r])
  BY <1>1, InjectiveCardinality
<1>6. Cardinality(Blocks) = NumBlocks /\ NumBlocks \in Nat
  <2>1. NumBlocks \in Nat /\ NumBlocks # 0
    BY SizesAssumption
  <2>2. Cardinality(1..NumBlocks) = IF 1 > NumBlocks THEN 0 ELSE NumBlocks - 1 + 1
    BY <2>1, FS_Interval
  <2> QED
    BY <2>1, <2>2 DEF Blocks
<1>7. Len(free) \in Nat /\ Len(table[r]) \in Nat
  BY <1>1, ListFacts
<1> HIDE DEF F, H
<1>8. Cardinality(F \cup H) = Cardinality(F) + Cardinality(H) - Cardinality(F \cap H)
  BY <1>5, FS_Union
<1>9. Cardinality(F \cap H) = 0
  BY <1>4, FS_EmptySet
<1> DEFINE x == Len(free)
           y == Len(table[r])
<1>10. /\ Cardinality(Blocks) = Cardinality(F) + Cardinality(H) - 0
       /\ Cardinality(F) = x /\ Cardinality(H) = y /\ x \in Nat /\ y \in Nat
  BY <1>4, <1>5, <1>7, <1>8, <1>9
<1> HIDE DEF x, y
<1>11. x + y = NumBlocks
  BY <1>6, <1>10
<1> QED
  BY <1>7, <1>11 DEF x, y

(* No prefix of an unanswered request needs more blocks than there are. *)
LEMMA PrefixFits ==
  ASSUME TypeOK, NEW r \in Requests, generated[r] < OutputLen[r],
         NEW n \in Nat, n <= Length(r)
  PROVE  CeilBlocks(n) \in Nat /\ CeilBlocks(n) <= NumBlocks
<1> DEFINE most == InputLen[r] + OutputLen[r] - 1
<1>1. /\ generated[r] \in Nat /\ InputLen[r] \in Nat /\ OutputLen[r] \in Nat
      /\ Length(r) = InputLen[r] + generated[r]
  BY LengthType DEF Length
<1>2. most \in Nat /\ n <= most
  BY <1>1
<1>3. CeilBlocks(most) <= NumBlocks
  BY FitsAssumption DEF FitsAlone
<1> HIDE DEF most
<1>4. CeilBlocks(n) \in Nat /\ CeilBlocks(n) <= CeilBlocks(most) /\ CeilBlocks(most) \in Nat
  <2>1. most <= most
    BY <1>2
  <2> QED
    BY <1>2, <2>1, CeilFacts
<1>5. NumBlocks \in Nat
  BY SizesAssumption
<1> QED
  BY <1>3, <1>4, <1>5

LEMMA LoneRunningFits ==
  ASSUME Inductive, InRunningLoop, NEW r, r = running[cursor], Len(running) = 1
  PROVE  Need(r) <= Len(free)
<1>1. /\ r \in Requests /\ r \in Elements(running) /\ cursor \in DOMAIN running
      /\ computed[r] + Want(r) <= Length(r) /\ computed[r] \in Nat /\ Want(r) \in Nat
      /\ Need(r) \in Nat
      /\ Len(table[r]) + Need(r) = CeilBlocks(computed[r] + Want(r))
  BY CursorFacts
<1>2. TypeOK /\ TableInv /\ generated[r] < OutputLen[r] /\ running \in Seq(Requests)
  BY <1>1 DEF Inductive, QueueInv, TypeOK
<1>3. Elements(running) = {r}
  <2>1. DOMAIN running = 1..1
    BY <1>2
  <2>2. DOMAIN running = {1} /\ cursor = 1
    BY <1>1, <2>1
  <2> QED
    BY <2>2 DEF Elements
<1>4. \A q \in Requests : q # r => table[q] = <<>>
  BY <1>2, <1>3 DEF TableInv
<1>5. /\ Len(free) \in Nat /\ Len(table[r]) \in Nat
      /\ Len(free) + Len(table[r]) = NumBlocks
  BY <1>1, <1>4, LoneFree
<1> DEFINE n == computed[r] + Want(r)
           need == Need(r)
<1>6. n \in Nat /\ n <= Length(r)
  BY <1>1
<1> HIDE DEF n
<1>7. CeilBlocks(n) \in Nat /\ CeilBlocks(n) <= NumBlocks
  BY <1>1, <1>2, <1>6, PrefixFits
<1>8. need \in Nat /\ Len(table[r]) + need = CeilBlocks(n)
  BY <1>1 DEF n
<1> HIDE DEF need
<1>9. NumBlocks \in Nat
  BY SizesAssumption
<1>10. need <= Len(free)
  <2> DEFINE x == Len(free)
             y == Len(table[r])
             z == CeilBlocks(n)
  <2>1. x \in Nat /\ y \in Nat /\ x + y = NumBlocks /\ y + need = z /\ z <= NumBlocks /\ z \in Nat
    BY <1>5, <1>7, <1>8
  <2> HIDE DEF x, y, z
  <2>2. need <= x
    BY <1>8, <1>9, <2>1
  <2> QED
    BY <2>2 DEF x
<1> QED
  BY <1>10 DEF need

LEMMA LoneWaitingFits ==
  ASSUME Inductive, InAdmitLoop, NEW r, r = Head(waiting), running = <<>>
  PROVE  Fits(r)
<1>1. /\ r \in Requests /\ r \in Elements(waiting) /\ Hit(r) \in Nat /\ Hit(r) * Block \in Nat
      /\ Chunk(r) \in Nat /\ Hit(r) * Block + Chunk(r) <= Length(r)
      /\ ChunkBlocks(r) \in Nat
      /\ Hit(r) + ChunkBlocks(r) = CeilBlocks(Hit(r) * Block + Chunk(r))
  BY AdmitFacts
<1>2. TypeOK /\ TableInv /\ generated[r] < OutputLen[r]
  BY <1>1 DEF Inductive, QueueInv
<1>3. \A q \in Requests : table[q] = <<>>
  <2>1. Elements(running) = {}
    BY DEF Elements
  <2> QED
    BY <1>2, <2>1 DEF TableInv
<1>4. Len(free) = NumBlocks
  <2>1. Len(free) \in Nat /\ Len(free) + Len(table[r]) = NumBlocks
    BY <1>1, <1>3, LoneFree
  <2>2. Len(table[r]) = 0
    BY <1>1, <1>3
  <2> QED
    BY <2>1, <2>2
<1>5. Evictable(r) \in Nat /\ Evictable(r) <= Hit(r)
  <2> DEFINE h == Hit(r)
             evicted == {i \in 1..h : ref[HitTable(r)[i]] = 0}
  <2>1. evicted \in SUBSET (1..h) /\ Evictable(r) = Cardinality(evicted) /\ h \in Nat
    BY <1>1 DEF Evictable
  <2> HIDE DEF evicted, h
  <2>2. IsFiniteSet(1..h) /\ Cardinality(1..h) = h
    <3>1. h \in Int /\ 1 \in Int
      BY <2>1
    <3>2. IsFiniteSet(1..h) /\ Cardinality(1..h) = IF 1 > h THEN 0 ELSE h - 1 + 1
      BY <3>1, FS_Interval
    <3> QED
      BY <2>1, <3>2
  <2>3. IsFiniteSet(evicted) /\ Cardinality(evicted) <= Cardinality(1..h)
    BY <2>1, <2>2, FS_Subset
  <2> QED
    BY <2>1, <2>2, <2>3, FS_CardinalityType DEF h
<1> DEFINE n == Hit(r) * Block + Chunk(r)
           e == Evictable(r)
           h == Hit(r)
           c == ChunkBlocks(r)
<1>6. n \in Nat /\ n <= Length(r) /\ h + c = CeilBlocks(n)
  BY <1>1
<1> HIDE DEF n
<1>7. CeilBlocks(n) \in Nat /\ CeilBlocks(n) <= NumBlocks
  BY <1>1, <1>2, <1>6, PrefixFits
<1>8. h \in Nat /\ c \in Nat /\ e \in Nat /\ e <= h /\ NumBlocks \in Nat
  BY <1>1, <1>5, SizesAssumption
<1> HIDE DEF e, h, c
<1>9. c + e <= NumBlocks
  BY <1>6, <1>7, <1>8
<1> QED
  BY <1>4, <1>9 DEF Fits, c, e

-----------------------------------------------------------------------------
(* No lost wakeup *)

Wakeful == WakeInv /\ IdleMeansEmpty

(* The facts about schedule()'s first loop that the steps below share. *)
LEMMA LoopFacts ==
  ASSUME Inductive, phase = "running"
  PROVE  /\ running \in Seq(Requests) /\ Len(running) \in Nat
         /\ DOMAIN running = 1..Len(running) /\ IsInjectiveSeq(running)
         /\ cursor \in Nat /\ cursor >= 1 /\ budget \in Nat
         /\ plan = <<>> => cursor = 1
         /\ running = <<>> <=> Len(running) = 0
<1>1. /\ running \in Seq(Requests) /\ IsInjectiveSeq(running) /\ cursor \in Nat \ {0}
      /\ budget \in 0..TokenBudget /\ TokenBudget \in Nat /\ Len(plan) = cursor - 1
  BY SizesAssumption DEF Inductive, TypeOK, QueueInv, PlanInv
<1>2. Len(running) \in Nat /\ DOMAIN running = 1..Len(running)
  BY <1>1, ListFacts
<1>3. plan = <<>> => cursor = 1
  <2> SUFFICES ASSUME plan = <<>> PROVE cursor = 1
    OBVIOUS
  <2>1. Len(plan) = 0
    OBVIOUS
  <2>2. cursor - 1 = 0 /\ cursor \in Nat
    BY <1>1, <2>1
  <2> QED
    BY <2>2
<1>4. running = <<>> <=> Len(running) = 0
  BY <1>1
<1>5. cursor \in Nat /\ cursor >= 1 /\ budget \in Nat
  BY <1>1
<1> QED
  BY <1>1, <1>2, <1>3, <1>4, <1>5

(* A preemption leaves the oldest request running. *)
LEMMA PreemptLeaves ==
  ASSUME Inductive, Preempt
  PROVE  running' # <<>> /\ running'[1] = running[1]
<1> SUFFICES ASSUME NEW r, r = running[cursor], NEW n, n = Len(running)
             PROVE  running' # <<>> /\ running'[1] = running[1]
  OBVIOUS
<1>1. /\ InRunningLoop /\ phase = "running" /\ cursor <= n
      /\ running' = SubSeq(running, 1, n - 1)
      /\ Need(r) > Len(free)
  BY DEF Preempt, InRunningLoop
<1>2. running \in Seq(Requests) /\ n \in Nat /\ cursor \in Nat /\ cursor >= 1
  BY <1>1, LoopFacts
<1>3. n # 1
  <2> SUFFICES ASSUME n = 1 PROVE FALSE
    OBVIOUS
  <2>1. Need(r) <= Len(free) /\ Need(r) \in Nat
    BY <1>1, LoneRunningFits, CursorFacts
  <2>2. Len(free) \in Nat
    <3>1. free \in Seq(Blocks)
      BY DEF Inductive, TypeOK
    <3> QED
      BY <3>1, ListFacts
  <2> DEFINE x == Need(r)
             y == Len(free)
  <2>3. x \in Nat /\ y \in Nat /\ x <= y /\ x > y
    BY <1>1, <2>1, <2>2
  <2> HIDE DEF x, y
  <2> QED
    BY <2>3
<1>4. n >= 2
  BY <1>1, <1>2, <1>3
<1> DEFINE front == SubSeq(running, 1, n - 1)
<1>5. Len(front) = n - 1 /\ front[1] = running[1]
  BY <1>2, <1>4
<1> HIDE DEF front
<1>6. front # <<>>
  <2>1. Len(front) # 0
    BY <1>2, <1>4, <1>5
  <2>2. Len(<<>>) = 0
    OBVIOUS
  <2> QED
    BY <2>1, <2>2
<1> QED
  BY <1>1, <1>5, <1>6 DEF front

LEMMA WakefulInit == Init => Wakeful
  BY DEF Init, Wakeful, WakeInv, IdleMeansEmpty, Queue

LEMMA PreemptWakeful == ASSUME Inductive, Wakeful, Preempt PROVE Wakeful'
<1> SUFFICES ASSUME NEW r, r = running[cursor], NEW v, v = running[Len(running)] PROVE Wakeful'
  OBVIOUS
<1>1. /\ InRunningLoop /\ phase = "running" /\ cursor <= Len(running)
      /\ IF v = r THEN ReturnPlan ELSE UNCHANGED phase
      /\ UNCHANGED <<plan, budget>>
  BY DEF Preempt, InRunningLoop
<1>2. running' # <<>> /\ running'[1] = running[1]
  BY PreemptLeaves
<1>3. ASSUME plan = <<>>, v = r PROVE FALSE
  <2>1. /\ running \in Seq(Requests) /\ Len(running) \in Nat /\ DOMAIN running = 1..Len(running)
        /\ IsInjectiveSeq(running) /\ cursor = 1
    BY <1>1, <1>3, LoopFacts
  <2>2. 1 \in DOMAIN running /\ Len(running) \in DOMAIN running
    BY <1>1, <2>1
  <2>3. Len(running) = 1
    BY <1>3, <2>1, <2>2 DEF IsInjectiveSeq
  <2>4. running' = <<>>
    BY <2>1, <2>3 DEF Preempt
  <2> QED
    BY <1>2, <2>4
<1>4. phase' = "running" \/ phase' = "step"
  BY <1>1, <1>3 DEF ReturnPlan
<1>5. WakeInv'
  BY <1>1, <1>2, <1>4 DEF Wakeful, WakeInv
<1> QED
  BY <1>4, <1>5 DEF Wakeful, IdleMeansEmpty

LEMMA EndRunningWakeful == ASSUME Inductive, Wakeful, EndRunning PROVE Wakeful'
<1>1. /\ phase = "running" /\ ~InRunningLoop
      /\ IF preempted THEN ReturnPlan ELSE phase' = "admit"
      /\ UNCHANGED <<running, plan, budget, preempted>>
  BY DEF EndRunning
<1>2. ASSUME plan = <<>> PROVE budget = TokenBudget /\ running = <<>> /\ ~preempted
  <2>1. budget = TokenBudget
    BY <1>1, <1>2 DEF Wakeful, WakeInv
  <2>2. cursor = 1 /\ Len(running) \in Nat /\ (running = <<>> <=> Len(running) = 0)
    BY <1>1, <1>2, LoopFacts
  <2>3. TokenBudget \in Nat /\ TokenBudget # 0
    BY SizesAssumption
  <2>4. ~(1 <= Len(running))
    <3>1. ~(cursor <= Len(running) /\ budget > 0)
      BY <1>1 DEF InRunningLoop
    <3>2. budget > 0
      BY <2>1, <2>3
    <3>3. ~(cursor <= Len(running))
      BY <3>1, <3>2
    <3>4. cursor = 1
      BY <2>2
    <3> QED
      BY <3>3, <3>4
  <2>5. running = <<>>
    <3> DEFINE n == Len(running)
    <3>1. n \in Nat /\ ~(1 <= n)
      BY <2>2, <2>4
    <3> HIDE DEF n
    <3>2. n = 0
      BY <3>1
    <3> QED
      BY <2>2, <3>2 DEF n
  <2> QED
    BY <1>1, <2>1, <2>5 DEF Wakeful, WakeInv
<1>3. phase' = "admit" \/ (phase' = "step" /\ plan # <<>>)
  BY <1>1, <1>2 DEF ReturnPlan
<1>4. WakeInv'
  BY <1>1, <1>2, <1>3 DEF WakeInv
<1> QED
  BY <1>3, <1>4 DEF Wakeful, IdleMeansEmpty

LEMMA EndAdmitWakeful == ASSUME Inductive, Wakeful, EndAdmit PROVE Wakeful'
<1>1. /\ phase = "admit" /\ ~(InAdmitLoop /\ Fits(Head(waiting)))
      /\ phase' = IF plan = <<>> THEN "idle" ELSE "step"
      /\ UNCHANGED <<running, waiting, plan, budget>>
  BY DEF EndAdmit, ReturnPlan
<1>2. ASSUME plan = <<>> PROVE running = <<>> /\ waiting = <<>>
  <2>1. budget = TokenBudget /\ running = <<>>
    BY <1>1, <1>2 DEF Wakeful, WakeInv
  <2>2. budget > 0 /\ Len(running) < MaxSeqs
    <3>1. TokenBudget \in Nat /\ TokenBudget # 0 /\ MaxSeqs \in Nat /\ MaxSeqs # 0
      BY SizesAssumption
    <3>2. Len(running) = 0
      BY <2>1
    <3> QED
      BY <2>1, <3>1, <3>2
  <2>3. ASSUME waiting # <<>> PROVE FALSE
    <3>1. InAdmitLoop
      BY <1>1, <2>2, <2>3 DEF InAdmitLoop
    <3>2. Fits(Head(waiting))
      BY <2>1, <3>1, LoneWaitingFits
    <3> QED
      BY <1>1, <3>1, <3>2
  <2> QED
    BY <2>1, <2>3
<1>3. WakeInv'
  BY <1>1 DEF WakeInv
<1>4. IdleMeansEmpty'
  <2> SUFFICES ASSUME phase' = "idle" PROVE running' \o waiting' = <<>>
    BY DEF IdleMeansEmpty, Queue
  <2>1. running' = <<>> /\ waiting' = <<>>
    BY <1>1, <1>2
  <2> QED
    BY <2>1
<1> QED
  BY <1>3, <1>4 DEF Wakeful

LEMMA SubmitWakeful == ASSUME Inductive, Wakeful, NEW r \in Requests, Submit(r) PROVE Wakeful'
<1>1. /\ phase \in {"idle", "step"} /\ plan' = plan
      /\ IF phase = "idle" THEN BeginSchedule ELSE UNCHANGED <<phase, budget, cursor, preempted>>
  BY DEF Submit
<1>2. \/ phase' = "step"
      \/ phase' = "running" /\ budget' = TokenBudget /\ preempted' = FALSE
  BY <1>1 DEF BeginSchedule
<1> QED
  BY <1>2 DEF Wakeful, WakeInv, IdleMeansEmpty

(* A step that extends the plan. *)
LEMMA PlanningWakeful ==
  ASSUME Inductive, Wakeful, PlanRunning \/ Admit
  PROVE  Wakeful'
<1>1. plan' # <<>>
  <2>1. plan \in Seq(Requests \X Nat)
    BY DEF Inductive, TypeOK
  <2>2. \E x : plan' = Append(plan, x)
    BY DEF PlanRunning, Admit
  <2> QED
    BY <2>1, <2>2
<1>2. CASE PlanRunning
  <2>1. phase' = "running" /\ UNCHANGED <<phase, running, preempted>>
    BY <1>2 DEF PlanRunning, InRunningLoop
  <2> QED
    BY <1>1, <2>1 DEF Wakeful, WakeInv, IdleMeansEmpty
<1>3. CASE Admit
  <2>1. phase' = "admit"
    BY <1>3 DEF Admit, InAdmitLoop
  <2> QED
    BY <1>1, <2>1 DEF Wakeful, WakeInv, IdleMeansEmpty
<1> QED
  BY <1>2, <1>3

THEOREM WakefulInvariant == Spec => []Wakeful
<1>1. Init => Wakeful
  BY WakefulInit
<1>2. Inductive /\ Wakeful /\ [Next]_vars => Wakeful'
  <2> SUFFICES ASSUME Inductive, Wakeful, [Next]_vars PROVE Wakeful'
    OBVIOUS
  <2>1. ASSUME NEW r \in Requests, Submit(r) PROVE Wakeful'
    BY <2>1, SubmitWakeful
  <2>2. CASE PlanRunning \/ Admit
    BY <2>2, PlanningWakeful
  <2>3. CASE Preempt
    BY <2>3, PreemptWakeful
  <2>4. CASE EndRunning
    BY <2>4, EndRunningWakeful
  <2>5. CASE EndAdmit
    BY <2>5, EndAdmitWakeful
  <2>6. CASE StepDue \/ FinishChunk \/ FinishToken \/ FinishRequest
    <3>1. phase' = "finish"
      BY <2>6 DEF StepDue, FinishChunk, FinishToken, FinishRequest, InFinishLoop
    <3> QED
      BY <3>1 DEF Wakeful, WakeInv, IdleMeansEmpty
  <2>7. CASE NextStep
    <3>1. phase' = "running" /\ budget' = TokenBudget /\ preempted' = FALSE
      BY <2>7 DEF NextStep, BeginSchedule
    <3> QED
      BY <3>1 DEF Wakeful, WakeInv, IdleMeansEmpty
  <2>8. CASE Finished \/ UNCHANGED vars
    BY <2>8 DEF Finished, vars, scheduler, Wakeful, WakeInv, IdleMeansEmpty, Queue
  <2> QED
    BY <2>1, <2>2, <2>3, <2>4, <2>5, <2>6, <2>7, <2>8 DEF Next, EngineStep
<1>3. Spec => []Inductive
  BY InductiveInvariant
<1> QED
  BY <1>1, <1>2, <1>3, PTL DEF Spec

(* No lost wakeup: when schedule() returns an empty plan and simulate()     *)
(* clears `busy`, nothing runs and nothing waits, so only an arrival need   *)
(* start the instance again.  It rests on FitsAssumption.                   *)
THEOREM NoLostWakeup == Spec => []IdleMeansEmpty
<1>1. Wakeful => IdleMeansEmpty
  BY DEF Wakeful
<1> QED
  BY <1>1, WakefulInvariant, PTL

-----------------------------------------------------------------------------
(* The reported hit *)

Reporting == HitIsPrompt /\ HitInv

LEMMA ReportingInit == Init => Reporting
<1> SUFFICES ASSUME Init PROVE Reporting
  OBVIOUS
<1>1. \A r \in Requests : engineHit[r] = NoHit /\ generated[r] = 0
  BY DEF Init
<1>2. \A r \in Requests : engineHit[r] < InputLen[r]
  BY <1>1, RequestsAssumption DEF NoHit
<1>3. Elements(running) = {}
  BY DEF Init, Elements
<1> QED
  BY <1>1, <1>2, <1>3 DEF Reporting, HitIsPrompt, HitInv

LEMMA AdmitReporting == ASSUME Inductive, Reporting, Admit PROVE Reporting'
<1> SUFFICES ASSUME NEW r, r = Head(waiting) PROVE Reporting'
  OBVIOUS
<1>1. /\ InAdmitLoop
      /\ engineHit' = [engineHit EXCEPT ![r] = ReportedHit(r)]
      /\ running' = Append(running, r)
      /\ UNCHANGED generated
  BY DEF Admit
<1>2. /\ r \in Requests /\ r \in Elements(waiting)
  BY <1>1, AdmitFacts
<1>3. /\ TypeOK /\ CacheBijection /\ generated[r] < OutputLen[r]
      /\ running \in Seq(Requests) /\ engineHit \in [Requests -> Nat \cup {NoHit}]
      /\ Elements(running) \subseteq Requests
  <2>1. running \in Seq(Requests)
    BY DEF Inductive, TypeOK
  <2> QED
    BY <1>2, <2>1, ListFacts DEF Inductive, TypeOK, QueueInv
<1>4. Hit(r) \in Nat /\ Hit(r) * Block < Length(r) /\ Hit(r) * Block \in Nat
  BY <1>1, <1>2, <1>3, HitFacts, AdmitFacts
<1>5. ReportedHit(r) < InputLen[r] /\ ReportedHit(r) # NoHit
  <2>1. CASE engineHit[r] = NoHit
    <3>1. generated[r] = 0
      BY <1>2, <2>1 DEF Reporting, HitInv
    <3>2. Length(r) = InputLen[r]
      BY <1>2, <3>1, RequestsAssumption DEF Length
    <3>3. ReportedHit(r) = Hit(r) * Block
      BY <2>1 DEF ReportedHit
    <3> DEFINE x == Hit(r) * Block
    <3>4. x \in Nat /\ x < InputLen[r] /\ ReportedHit(r) = x
      BY <1>4, <3>2, <3>3
    <3> HIDE DEF x
    <3> QED
      BY <3>4 DEF NoHit
  <2>2. CASE engineHit[r] # NoHit
    BY <1>2, <2>2 DEF ReportedHit, Reporting, HitIsPrompt
  <2> QED
    BY <2>1, <2>2
<1>6. engineHit'[r] = ReportedHit(r) /\ \A q \in Requests : q # r => engineHit'[q] = engineHit[q]
  BY <1>1, <1>2, <1>3
<1>7. Elements(running') = Elements(running) \cup {r}
  BY <1>1, <1>2, <1>3, AppendFacts
<1>8. HitIsPrompt'
  BY <1>5, <1>6 DEF Reporting, HitIsPrompt
<1>9. HitInv'
  <2>1. \A q \in Elements(running') : engineHit'[q] # NoHit
    BY <1>3, <1>5, <1>6, <1>7 DEF Reporting, HitInv
  <2>2. \A q \in Requests : engineHit'[q] = NoHit => generated'[q] = 0
    BY <1>1, <1>5, <1>6 DEF Reporting, HitInv
  <2> QED
    BY <2>1, <2>2 DEF HitInv
<1> QED
  BY <1>8, <1>9 DEF Reporting

LEMMA ReportingFrame ==
  ASSUME Reporting, UNCHANGED engineHit, Elements(running') \subseteq Elements(running),
         \A q \in Requests : generated'[q] = generated[q] \/ q \in Elements(running)
  PROVE  Reporting'
  BY DEF Reporting, HitIsPrompt, HitInv

LEMMA FinishReporting ==
  ASSUME Inductive, Reporting, FinishToken \/ FinishRequest
  PROVE  Reporting'
<1> SUFFICES ASSUME NEW f, f = Finishing PROVE Reporting'
  OBVIOUS
<1>1. /\ InFinishLoop /\ CountStep
      /\ generated' = [generated EXCEPT ![f] = @ + 1]
      /\ UNCHANGED engineHit
      /\ running' = running \/ running' = Sublist(running, Elements(running) \ {f})
  BY DEF FinishToken, FinishRequest, EmitToken, Without
<1>2. f \in Elements(running)
  BY <1>1, FinishFacts
<1>3. generated \in [Requests -> Nat] /\ running \in Seq(Requests)
  BY DEF Inductive, TypeOK
<1>4. \A q \in Requests : generated'[q] = generated[q] \/ q \in Elements(running)
  BY <1>1, <1>2, <1>3
<1>5. Elements(running') \subseteq Elements(running)
  BY <1>1, <1>3, SublistElements
<1> QED
  BY <1>1, <1>4, <1>5, ReportingFrame

LEMMA PreemptReporting == ASSUME Inductive, Reporting, Preempt PROVE Reporting'
<1>1. /\ running' = SubSeq(running, 1, Len(running) - 1) /\ running # <<>>
      /\ running \in Seq(Requests)
      /\ UNCHANGED <<generated, engineHit>>
  <2>1. InRunningLoop /\ running \in Seq(Requests) /\ cursor \in Nat \ {0}
    BY DEF Preempt, Inductive, TypeOK
  <2>2. running # <<>>
    BY <2>1 DEF InRunningLoop
  <2> QED
    BY <2>1, <2>2 DEF Preempt
<1>2. Elements(running') \subseteq Elements(running)
  <2> DEFINE front == SubSeq(running, 1, Len(running) - 1)
             one == <<running[Len(running)]>>
  <2>1. front \in Seq(Requests) /\ one \in Seq(Requests) /\ running = front \o one
    BY <1>1, FrontAndLast, Singleton
  <2> HIDE DEF front, one
  <2>2. Elements(front \o one) = Elements(front) \cup Elements(one)
    BY <2>1, ConcatFacts
  <2> QED
    BY <1>1, <2>1, <2>2 DEF front
<1> QED
  BY <1>1, <1>2, ReportingFrame

THEOREM ReportingInvariant == Spec => []Reporting
<1>1. Init => Reporting
  BY ReportingInit
<1>2. Inductive /\ Reporting /\ [Next]_vars => Reporting'
  <2> SUFFICES ASSUME Inductive, Reporting, [Next]_vars PROVE Reporting'
    OBVIOUS
  <2>1. CASE Admit
    BY <2>1, AdmitReporting
  <2>2. CASE FinishToken \/ FinishRequest
    BY <2>2, FinishReporting
  <2>3. CASE Preempt
    BY <2>3, PreemptReporting
  <2>4. CASE UNCHANGED <<generated, engineHit, running>>
    BY <2>4, ReportingFrame
  <2>5. CASE PlanRunning \/ FinishChunk \/ EndRunning \/ EndAdmit \/ StepDue \/ NextStep
    BY <2>4, <2>5 DEF PlanRunning, FinishChunk, EndRunning, EndAdmit, StepDue, NextStep, requests
  <2>6. ASSUME NEW r \in Requests, Submit(r) PROVE Reporting'
    BY <2>4, <2>6 DEF Submit
  <2>7. CASE Finished \/ UNCHANGED vars
    BY <2>4, <2>7 DEF Finished, vars, requests, scheduler
  <2> QED
    BY <2>1, <2>2, <2>3, <2>5, <2>6, <2>7 DEF Next, EngineStep
<1>3. Spec => []Inductive
  BY InductiveInvariant
<1> QED
  BY <1>1, <1>2, <1>3, PTL DEF Spec

(* The reported hit counts prompt tokens only, and never the last of them:  *)
(* `if req.engine_hit is None` keeps that of the first admission, which     *)
(* comes before any output.                                                 *)
THEOREM HitWithinPrompt == Spec => []HitIsPrompt
<1>1. Reporting => HitIsPrompt
  BY DEF Reporting
<1> QED
  BY <1>1, ReportingInvariant, PTL

-----------------------------------------------------------------------------
(* No livelock of preemptions *)

(* Taking another request out of a list leaves its first where it is. *)
LEMMA FirstStays ==
  ASSUME NEW T, NEW s \in Seq(T), s # <<>>, NEW S, s[1] \in S
  PROVE  Sublist(s, S) # <<>> /\ Sublist(s, S)[1] = s[1]
<1> DEFINE u == Sublist(s, S)
           n == MetBy(s, S, Len(s))
<1>1. Len(s) \in Nat /\ Len(s) >= 1 /\ DOMAIN s = 1..Len(s)
  OBVIOUS
<1>2. /\ MetBy(s, S, 0) = 0 /\ MetBy(s, S, 1) \in Nat /\ n \in Nat
      /\ MetBy(s, S, 0) < MetBy(s, S, 1) /\ MetBy(s, S, 1) <= n
  BY <1>1, MetByStep, MetByStrict, MetByMonotonic
<1>3. 1 \in 1..n
  BY <1>2
<1>4. PICK j \in DOMAIN s : s[j] \in S /\ MetBy(s, S, j) = 1 /\ u[1] = s[j]
  BY <1>3, SublistAt
<1>5. j = 1
  <2> SUFFICES ASSUME j # 1 PROVE FALSE
    OBVIOUS
  <2>1. j \in Nat /\ 1 < j /\ j <= Len(s)
    BY <1>1, <1>4
  <2>2. MetBy(s, S, 1) < MetBy(s, S, j)
    BY <1>1, <1>4, <2>1, MetByStrict
  <2> QED
    BY <1>2, <1>4, <2>2
<1>6. u # <<>>
  <2>1. Len(u) = n /\ Len(<<>>) = 0
    BY SublistLen
  <2> QED
    BY <1>3, <2>1
<1> QED
  BY <1>4, <1>5, <1>6

(* The oldest running request is never preempted: it stays at the head of   *)
(* the running requests, with its blocks, until it is answered.             *)
THEOREM OldestStays == Spec => OldestKeepsRunning
<1>1. Inductive /\ [Next]_vars =>
        [running # <<>> /\ ~done'[running[1]] => running' # <<>> /\ running'[1] = running[1]]_vars
  <2> SUFFICES ASSUME Inductive, [Next]_vars, running # <<>>, ~done'[running[1]]
               PROVE  running' # <<>> /\ running'[1] = running[1]
    OBVIOUS
  <2>1. /\ running \in Seq(Requests) /\ waiting \in Seq(Requests)
        /\ done \in [Requests -> BOOLEAN]
    BY DEF Inductive, TypeOK
  <2>2. CASE Preempt
    BY <2>2, PreemptLeaves
  <2>3. CASE Admit
    <3> DEFINE r == Head(waiting)
    <3>1. running' = Append(running, r) /\ r \in Requests
      BY <2>1, <2>3 DEF Admit, InAdmitLoop
    <3> HIDE DEF r
    <3> QED
      BY <2>1, <3>1
  <2>4. CASE FinishRequest
    <3> SUFFICES ASSUME NEW f, f = Finishing
                 PROVE  running' # <<>> /\ running'[1] = running[1]
      OBVIOUS
    <3>1. /\ InFinishLoop /\ CountStep /\ done' = [done EXCEPT ![f] = TRUE]
          /\ running' = Sublist(running, Elements(running) \ {f})
      BY <2>4 DEF FinishRequest, Without
    <3>2. f \in Requests
      BY <3>1, FinishFacts
    <3>3. running[1] # f
      BY <2>1, <3>1, <3>2
    <3>4. running[1] \in Elements(running) \ {f}
      BY <2>1, <3>3, HeadTailFacts
    <3> DEFINE others == Elements(running) \ {f}
    <3>5. running[1] \in others /\ running' = Sublist(running, others)
      BY <3>1, <3>4
    <3> HIDE DEF others
    <3> QED
      BY <2>1, <3>5, FirstStays
  <2>5. CASE UNCHANGED running
    BY <2>5
  <2>6. CASE \/ PlanRunning \/ FinishChunk \/ FinishToken
             \/ EndRunning \/ EndAdmit \/ StepDue \/ NextStep
    BY <2>5, <2>6 DEF PlanRunning, FinishChunk, FinishToken, EndRunning, EndAdmit, StepDue, NextStep
  <2>7. ASSUME NEW r \in Requests, Submit(r)
        PROVE  running' # <<>> /\ running'[1] = running[1]
    BY <2>5, <2>7 DEF Submit
  <2>8. CASE Finished \/ UNCHANGED vars
    BY <2>5, <2>8 DEF Finished, vars, scheduler
  <2> QED
    BY <2>2, <2>3, <2>4, <2>6, <2>7, <2>8 DEF Next, EngineStep
<1> QED
  BY <1>1, InductiveInvariant, PTL DEF Spec, OldestKeepsRunning

-----------------------------------------------------------------------------
(* The promise *)

(* One step of the instance is one step of the promise, or none.            *)
LEMMA PromiseStep == ASSUME Inductive, [Next]_vars PROVE [Promise!Next]_(Promise!vars)
<1>1. CASE FinishToken \/ FinishRequest
  <2> SUFFICES ASSUME NEW f, f = Finishing PROVE Promise!Next
    OBVIOUS
  <2>1. /\ InFinishLoop /\ CountStep
        /\ generated' = [generated EXCEPT ![f] = @ + 1] /\ UNCHANGED rank
    BY <1>1 DEF FinishToken, FinishRequest, EmitToken
  <2>2. f \in Requests /\ f \in Elements(running) /\ generated[f] < OutputLen[f]
    BY <2>1, FinishFacts
  <2>3. f \in Arrived /\ Arrived' = Arrived
    BY <2>1, <2>2 DEF Inductive, QueueInv, Arrived
  <2>4. Promise!Emit(f)
    BY <2>1, <2>2, <2>3 DEF Promise!Emit
  <2> QED
    BY <2>2, <2>4 DEF Promise!Next
<1>2. ASSUME NEW r \in Requests, Submit(r) PROVE Promise!Next
  <2>1. /\ rank[r] = 0 /\ rank' = [rank EXCEPT ![r] = Cardinality(Arrived) + 1]
        /\ UNCHANGED generated /\ rank \in [Requests -> Nat]
    BY <1>2 DEF Submit, Inductive, TypeOK
  <2>2. Cardinality(Arrived) \in Nat
    <3>1. Arrived \in SUBSET Requests
      BY DEF Arrived
    <3> QED
      BY <3>1, RequestsAssumption, FS_Subset, FS_CardinalityType
  <2>3. rank'[r] > 0 /\ \A q \in Requests : q # r => rank'[q] = rank[q]
    BY <2>1, <2>2
  <2>4. r \notin Arrived /\ Arrived' = Arrived \cup {r}
    BY <2>1, <2>3 DEF Arrived
  <2>5. Promise!Submit(r)
    BY <2>1, <2>4 DEF Promise!Submit
  <2> QED
    BY <2>5 DEF Promise!Next
<1>3. CASE UNCHANGED <<rank, generated>>
  BY <1>3 DEF Promise!vars, Arrived
<1>4. CASE \/ PlanRunning \/ Preempt \/ Admit \/ FinishChunk
           \/ EndRunning \/ EndAdmit \/ StepDue \/ NextStep
  BY <1>3, <1>4 DEF PlanRunning, Preempt, Admit, FinishChunk, EndRunning, EndAdmit, StepDue,
                    NextStep, requests
<1>5. CASE Finished \/ UNCHANGED vars
  BY <1>3, <1>5 DEF Finished, vars, requests
<1> QED
  BY <1>1, <1>2, <1>4, <1>5 DEF Next, EngineStep

(* The instance implements the safety part of what the router is promised:  *)
(* one token at a time to a submitted request, never taken back, and no     *)
(* more than its output length.                                             *)
THEOREM PromiseKept == Spec => Promise!Safe
<1>1. Init => Promise!Init
  BY DEF Init, Promise!Init, Arrived
<1>2. Inductive /\ [Next]_vars => [Promise!Next]_(Promise!vars)
  BY PromiseStep
<1> QED
  BY <1>1, <1>2, InductiveInvariant, PTL DEF Spec, Promise!Safe

-----------------------------------------------------------------------------
(* All of it *)

(* Everything the safety properties rest on, of all that schedule, _grow,   *)
(* _release, _cache_full and finish_step keep up: the pool and its tables,  *)
(* what blocks hold, the order of arrivals, the wakeups and the hits.       *)
THEOREM StrengthenedInvariant == Spec => []Strengthened
<1>1. Inductive /\ ContentInv /\ ArrivalOrder /\ Wakeful /\ Reporting => Strengthened
  BY DEF Strengthened, OrderInv, ArrivalOrder, Wakeful, Reporting
<1> QED
  BY <1>1, ContentInvariant, ArrivalOrderInvariant, WakefulInvariant, ReportingInvariant, PTL
=============================================================================
