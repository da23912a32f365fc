-------------------------- MODULE ToyOracleProofs ---------------------------
(***************************************************************************)
(* Proofs about ToyOracle, for every workload and pool, and whatever order  *)
(* the search takes.                                                        *)
(*                                                                         *)
(* The argument.  Inductive is an invariant: what check_state asserts, kept *)
(* at every action of an iteration and not only at its end, and what that   *)
(* needs.  A block that is not computed yet belongs to one request (RefsOK),*)
(* because only computed ones are hit; so a batch computes a block for one  *)
(* request only, and changes nothing that another reads.  No two blocks     *)
(* were touched at the same time (PoolOK), so what an admission evicts is   *)
(* well defined, and fits leaves it enough that is neither used nor hit.    *)
(* Each iteration does a unit of work, or waits until another request has   *)
(* arrived (WorkOK), which bounds their number.                             *)
(***************************************************************************)
EXTENDS ToyOracle, SublistProofs

-----------------------------------------------------------------------------
(* The inductive invariant *)

BlockType ==
  [identity : Seq(Int) \cup {None}, computed : BOOLEAN, refs : SUBSET Requests, touched : Nat]
ProgressType ==
  [admittedAt : Nat \cup {None}, prefillDone : Nat, blockIds : Seq(Nat), outputTimes : Seq(Nat)]
ServiceType == [index : Requests, kind : {"prefill", "decode"}, count : 1..TokenBudget]

TypeOK ==
  /\ time \in Nat /\ touchClock \in Nat /\ nextBlockId \in Nat
  /\ progress \in [Requests -> ProgressType]
  /\ running \in Seq(Requests) /\ order \in Seq(Requests) /\ todo \in Seq(Requests)
  /\ IsFiniteSet(Ids) /\ Ids \subseteq Nat /\ blocks \in [Ids -> BlockType]
  /\ phase \in {"choose", "plan", "leaving", "pruned", "finished"}
  /\ budget \in 0..TokenBudget /\ services \in Seq(ServiceType)
  /\ mode \in {"baseline", "search"} /\ events \in Nat /\ stock \in BOOLEAN

\* The pool: no two blocks were touched at the same time, so the least
\* recently touched ones are well defined.
PoolOK ==
  /\ Cardinality(Ids) <= KvBlocks
  /\ \A b \in Ids : b < nextBlockId /\ blocks[b].touched <= touchClock
  /\ \A b, c \in Ids : blocks[b].touched = blocks[c].touched => b = c

\* Where a request is.
QueuesOK ==
  /\ IsInjectiveSeq(running) /\ Len(running) <= MaxSequences
  /\ \A i \in Requests : progress[i].admittedAt = None => progress[i] = NoProgress
  /\ \A i \in Elements(running) : progress[i].admittedAt # None
  /\ \A i \in Requests :
       progress[i].admittedAt # None =>
         /\ Arrival[i] <= progress[i].admittedAt
         /\ Completed(i) \/ i \in Elements(running)
  /\ phase # "leaving" => \A i \in Elements(running) : ~Completed(i)

\* How far a request is: its prompt comes before its answers.
ProgressOK ==
  \A i \in Requests :
    LET p == progress[i]
    IN /\ p.prefillDone <= Len(Prompt[i]) /\ Len(p.outputTimes) <= Len(Output[i])
       /\ p.outputTimes # <<>> => p.prefillDone = Len(Prompt[i])
       /\ \A k \in 1..(Len(p.outputTimes) - 1) : p.outputTimes[k] < p.outputTimes[k + 1]
       /\ \A k \in DOMAIN p.outputTimes : p.outputTimes[k] <= time

\* The n-th token of i is computed; what its block is then, or before.
Written(i, n) == n <= progress[i].prefillDone \/ n \in (Len(Prompt[i]) + 1)..Made(i)
Identity(i, n) ==
  IF Written(i, n) \/ n <= Len(Prompt[i]) THEN SubSeq(Tokens(i), 1, n) ELSE None

\* A running request's table.
TableOK ==
  \A i \in Elements(running) :
    LET ids == progress[i].blockIds
    IN /\ Len(ids) = Len(Tokens(i)) /\ IsInjectiveSeq(ids)
       /\ \A n \in DOMAIN ids :
            /\ ids[n] \in Ids /\ i \in blocks[ids[n]].refs
            /\ blocks[ids[n]].computed = Written(i, n)
            /\ blocks[ids[n]].identity = Identity(i, n)

\* References; a block that is not computed has one.
RefsOK ==
  \A b \in Ids :
    /\ \A i \in blocks[b].refs : i \in Elements(running) /\ b \in Elements(progress[i].blockIds)
    /\ ~blocks[b].computed => \E i \in Requests : blocks[b].refs = {i}

\* A service fits what its request lacks.
ServiceOK(service) ==
  LET p == progress[service.index]
  IN IF service.kind = "prefill" THEN p.prefillDone + service.count <= Len(Prompt[service.index])
     ELSE p.prefillDone = Len(Prompt[service.index]) /\ service.count = 1

\* How far an iteration is.
PlanOK ==
  /\ IsInjectiveSeq(todo) /\ Elements(todo) \subseteq Elements(running)
  /\ phase = "plan" =>
       /\ ~Finished
       /\ Elements(order) = Eligible /\ IsInjectiveSeq(order)
       /\ \A k \in DOMAIN services :
            /\ services[k].index \in Elements(running) \ Elements(todo)
            /\ ServiceOK(services[k])
       /\ \A j, k \in DOMAIN services : services[j].index = services[k].index => j = k
       /\ budget + Cardinality(Batch) = TokenBudget
       /\ services = <<>> => todo = running /\ budget = TokenBudget
  /\ phase = "leaving" => Elements(todo) = {i \in Elements(running) : Completed(i)}
  /\ phase # "plan" => services = <<>>
  /\ phase \notin {"plan", "leaving"} => todo = <<>>

\* An iteration does a unit of work, or waits for an arrival.
Done == UNION {{i} \X (1..(progress[i].prefillDone + Len(progress[i].outputTimes))) : i \in Requests}
Arrived == {i \in Requests : Arrival[i] <= time}
WorkOK == events + (IF phase = "leaving" THEN 1 ELSE 0) <= Cardinality(Done) + Cardinality(Arrived)

Inductive ==
  /\ TypeOK /\ PoolOK /\ QueuesOK /\ ProgressOK
  /\ TableOK /\ RefsOK /\ PlanOK /\ WorkOK

-----------------------------------------------------------------------------
(* The constants, and arithmetic *)

LEMMA Sizes ==
  /\ N \in Nat \ {0} /\ KvBlocks \in Nat \ {0} /\ MaxSequences \in Nat \ {0}
  /\ TokenBudget \in Nat \ {0} /\ PrefillChunk \in Nat \ {0} /\ OverheadTicks \in Nat \ {0}
  /\ PrefillTokenTicks \in Nat \ {0} /\ DecodeTokenTicks \in Nat \ {0}
  BY ValidAssumption

LEMMA Demands ==
  ASSUME NEW i \in Requests
  PROVE  /\ Arrival[i] \in Nat
         /\ Prompt[i] \in Seq(Int) /\ Output[i] \in Seq(Int)
         /\ Len(Prompt[i]) \in Nat \ {0} /\ Len(Output[i]) \in Nat \ {0}
         /\ Tokens(i) \in Seq(Int) /\ Len(Tokens(i)) = Len(Prompt[i]) + Len(Output[i])
         /\ DOMAIN Tokens(i) = 1..Len(Tokens(i)) /\ Len(Tokens(i)) <= KvBlocks
<1>1. /\ Arrival[i] \in Nat /\ Prompt[i] \in Seq(Int) /\ Output[i] \in Seq(Int)
      /\ Prompt[i] # <<>> /\ Output[i] # <<>> /\ Len(Tokens(i)) <= KvBlocks
  BY ValidAssumption
<1>2. Len(Prompt[i]) \in Nat \ {0} /\ Len(Output[i]) \in Nat \ {0}
  BY <1>1
<1>3. Tokens(i) \in Seq(Int) /\ Len(Tokens(i)) = Len(Prompt[i]) + Len(Output[i])
  BY <1>1 DEF Tokens
<1>4. DOMAIN Tokens(i) = 1..Len(Tokens(i))
  BY <1>3
<1> QED
  BY <1>1, <1>2, <1>3, <1>4

(* A prefix of the tokens is as long as it is, and one of the prompt as long *)
(* as it lies within it.                                                    *)
LEMMA PrefixFacts ==
  ASSUME NEW i \in Requests, NEW n \in 1..Len(Tokens(i))
  PROVE  /\ SubSeq(Tokens(i), 1, n) \in Seq(Int) /\ Len(SubSeq(Tokens(i), 1, n)) = n
         /\ n <= Len(Prompt[i]) => SubSeq(Prompt[i], 1, n) = SubSeq(Tokens(i), 1, n)
<1> DEFINE s == Prompt[i]
           t == Tokens(i)
<1>1. /\ s \in Seq(Int) /\ t \in Seq(Int) /\ Len(s) \in Nat /\ Len(t) \in Nat
      /\ n \in 1..Len(t) /\ Len(s) <= Len(t)
  <2> DEFINE k == Len(Output[i])
  <2>1. /\ s \in Seq(Int) /\ t \in Seq(Int) /\ Len(s) \in Nat /\ k \in Nat
        /\ Len(t) = Len(s) + k
    BY Demands
  <2> HIDE DEF k, s
  <2> QED
    BY <2>1
<1>2. \A k \in 1..Len(s) : t[k] = s[k]
  <2> DEFINE u == Output[i]
  <2>1. u \in Seq(Int) /\ t = s \o u
    BY Demands DEF Tokens
  <2> HIDE DEF s, t, u
  <2> QED
    BY <1>1, <2>1
<1> HIDE DEF s, t
<1>3. SubSeq(t, 1, n) \in Seq(Int) /\ Len(SubSeq(t, 1, n)) = n
  BY <1>1
<1>4. ASSUME n <= Len(s) PROVE SubSeq(s, 1, n) = SubSeq(t, 1, n)
  <2>1. /\ SubSeq(s, 1, n) \in Seq(Int) /\ Len(SubSeq(s, 1, n)) = n
        /\ \A k \in 1..n : SubSeq(s, 1, n)[k] = s[k]
    BY <1>1, <1>4
  <2>2. \A k \in 1..n : SubSeq(t, 1, n)[k] = t[k]
    BY <1>1
  <2>3. \A k \in 1..n : t[k] = s[k]
    BY <1>1, <1>2, <1>4
  <2> QED
    BY <1>3, <2>1, <2>2, <2>3
<1> QED
  BY <1>3, <1>4 DEF s, t

(* The least of some natural numbers, and the greatest of some below n. *)
LEMMA MinFacts ==
  ASSUME NEW S \in SUBSET Nat, S # {}
  PROVE  Min(S) \in S /\ \A x \in S : Min(S) <= x
  BY LeastNat DEF Min

LEMMA MaxFacts ==
  ASSUME NEW n \in Nat, NEW S \in SUBSET (0..n), S # {}
  PROVE  Max(S) \in S /\ \A x \in S : Max(S) >= x
<1> DEFINE T == {n - x : x \in S}
<1>1. T \in SUBSET Nat /\ T # {}
  <2>1. \A x \in S : n - x \in Nat
    OBVIOUS
  <2> QED
    BY <2>1
<1>2. PICK y \in T : \A z \in T : y <= z
  BY <1>1, LeastNat
<1>3. PICK x \in S : y = n - x
  BY <1>2
<1>4. \A z \in S : x >= z
  BY <1>2, <1>3
<1> QED
  BY <1>3, <1>4 DEF Max

LEMMA RequestsFinite == IsFiniteSet(Requests) /\ Cardinality(Requests) = N
  BY Sizes, FS_Interval DEF Requests

(* The n elements of a finite set with the least ranks. *)
LEMMA LeastOnes ==
  ASSUME NEW S, IsFiniteSet(S), NEW f, \A x \in S : f[x] \in Nat,
         \A x, y \in S : f[x] = f[y] => x = y, NEW n \in 0..Cardinality(S)
  PROVE  \E V \in SUBSET S : Cardinality(V) = n /\ \A v \in V, b \in S \ V : f[v] < f[b]
<1> DEFINE Least(V, m) == Cardinality(V) = m /\ \A v \in V, b \in S \ V : f[v] < f[b]
           U == {m \in Nat : m <= Cardinality(S) /\ ~\E V \in SUBSET S : Least(V, m)}
<1>1. Cardinality(S) \in Nat
  BY FS_CardinalityType
<1>2. CASE U = {}
  BY <1>1, <1>2
<1>3. CASE U # {}
  <2>1. PICK m \in U : \A k \in U : m <= k
    BY <1>3, LeastNat
  <2>2. m # 0
    <3>1. Least({}, 0)
      BY FS_EmptySet
    <3> QED
      BY <2>1, <3>1
  <2>3. m \in Nat /\ m - 1 \in Nat /\ m - 1 \notin U /\ m <= Cardinality(S)
    BY <2>1, <2>2
  <2>4. PICK V \in SUBSET S : Least(V, m - 1)
    BY <1>1, <2>3
  <2>5. IsFiniteSet(V) /\ V # S
    BY <1>1, <2>3, <2>4, FS_Subset
  <2>6. PICK x \in S \ V : \A b \in S \ V : f[x] <= f[b]
    BY <2>5, LeastOver
  <2>7. Cardinality(V \cup {x}) = m
    <3>1. Cardinality(V) = m - 1 /\ x \notin V
      BY <2>4, <2>6
    <3>2. Cardinality(V \cup {x}) = Cardinality(V) + 1
      BY <2>5, <3>1, FS_AddElement
    <3> QED
      BY <2>3, <3>1, <3>2
  <2>8. \A v \in V \cup {x}, b \in S \ (V \cup {x}) : f[v] < f[b]
    BY <2>4, <2>6
  <2> QED
    BY <2>1, <2>6, <2>7, <2>8
<1> QED
  BY <1>2, <1>3

(* The greater of two numbers, one of them zero.                            *)
LEMMA MaxOfTwo ==
  ASSUME NEW x \in Int
  PROVE  Max({0, x}) = IF x > 0 THEN x ELSE 0
<1>1. CASE x > 0
  BY <1>1 DEF Max
<1>2. CASE ~(x > 0)
  BY <1>2 DEF Max
<1> QED
  BY <1>1, <1>2

-----------------------------------------------------------------------------
(* Hits, victims and room *)

(* The hits: computed blocks of the pool, of the prompt's first prefixes.   *)
LEMMA HitsFacts ==
  ASSUME TypeOK, NEW i \in Requests
  PROVE  LET hits == PrefixBlocks(i)
             h == Len(hits)
         IN /\ hits \in Seq(Nat) /\ h \in Nat /\ h <= Len(Prompt[i]) /\ IsInjectiveSeq(hits)
            /\ Elements(hits) \subseteq Ids
            /\ \A n \in 1..h : /\ hits[n] \in Ids /\ blocks[hits[n]].computed
                               /\ blocks[hits[n]].identity = SubSeq(Tokens(i), 1, n)
<1> DEFINE top == Len(Prompt[i])
           held(n) == Holding(SubSeq(Prompt[i], 1, n))
           S == {n \in 0..top : \A m \in 1..n : held(m) # {}}
           h == Max(S)
           hits == [n \in 1..h |-> Min(held(n))]
<1>1. top \in Nat /\ top <= Len(Tokens(i)) /\ Len(Tokens(i)) \in Nat
  <2> DEFINE k == Len(Output[i])
  <2>1. top \in Nat /\ k \in Nat /\ Len(Tokens(i)) = top + k
    BY Demands
  <2> HIDE DEF top, k
  <2> QED
    BY <2>1
<1>2. h \in S
  <2>1. S \in SUBSET (0..top) /\ 0 \in S
    BY <1>1
  <2> HIDE DEF S, top
  <2> QED
    BY <1>1, <2>1, MaxFacts
<1>3. h \in 0..top /\ h \in Nat /\ \A n \in 1..h : held(n) # {}
  <2>1. ASSUME NEW n \in S PROVE n \in 0..top /\ \A m \in 1..n : held(m) # {}
    <3> HIDE DEF h, top, held
    <3> QED
      OBVIOUS
  <2> HIDE DEF S, h, top, held
  <2> QED
    BY <1>1, <1>2, <2>1
<1> HIDE DEF h, top
<1>4. ASSUME NEW n \in 1..h
      PROVE  /\ hits[n] \in Ids /\ hits[n] \in Nat /\ blocks[hits[n]].computed
             /\ blocks[hits[n]].identity = SubSeq(Tokens(i), 1, n)
             /\ Len(SubSeq(Tokens(i), 1, n)) = n
  <2>1. held(n) \in SUBSET Nat /\ held(n) # {}
    BY <1>3 DEF Holding, TypeOK
  <2>2. Min(held(n)) \in held(n)
    <3> HIDE DEF held
    <3> QED
      BY <2>1, MinFacts
  <2>3. hits[n] = Min(held(n))
    OBVIOUS
  <2>4. n \in 1..Len(Tokens(i)) /\ n <= top
    BY <1>1, <1>3
  <2>5. SubSeq(Prompt[i], 1, n) = SubSeq(Tokens(i), 1, n) /\ Len(SubSeq(Tokens(i), 1, n)) = n
    BY <2>4, PrefixFacts DEF top
  <2>6. hits[n] \in Holding(SubSeq(Tokens(i), 1, n))
    BY <2>2, <2>3, <2>5
  <2>7. Ids \subseteq Nat
    BY DEF TypeOK
  <2> QED
    BY <2>5, <2>6, <2>7 DEF Holding
<1>5. DOMAIN hits = 1..h /\ hits = [n \in 1..h |-> hits[n]]
  OBVIOUS
<1>6. PrefixBlocks(i) = hits
  BY DEF PrefixBlocks, h, S, top
<1> HIDE DEF hits
<1>7. hits \in Seq(Nat) /\ Len(hits) = h
  <2>1. \A n \in 1..h : hits[n] \in Nat
    BY <1>4
  <2> QED
    BY <1>3, <1>5, <2>1
<1>8. IsInjectiveSeq(hits)
  <2> SUFFICES ASSUME NEW m \in 1..h, NEW n \in 1..h, hits[m] = hits[n] PROVE m = n
    BY <1>5 DEF IsInjectiveSeq
  <2>1. SubSeq(Tokens(i), 1, m) = SubSeq(Tokens(i), 1, n)
    BY <1>4
  <2> QED
    BY <1>4, <2>1
<1>9. Elements(hits) \subseteq Ids
  BY <1>4, <1>5 DEF Elements
<1> QED
  BY <1>1, <1>3, <1>4, <1>6, <1>7, <1>8, <1>9 DEF top

(* What is neither used nor hit, counted.                                   *)
LEMMA FreeFacts ==
  ASSUME TypeOK, NEW i \in Requests
  PROVE  LET free == (Ids \ Active) \ Elements(PrefixBlocks(i))
             H == Elements(PrefixBlocks(i))
         IN /\ IsFiniteSet(free) /\ Cardinality(free) \in Nat
            /\ Cardinality(Ids) \in Nat /\ Cardinality(Active) \in Nat
            /\ Cardinality(H \ Active) \in Nat
            /\ Cardinality(free) = Cardinality(Ids) - Cardinality(Active) - Cardinality(H \ Active)
<1> DEFINE H == Elements(PrefixBlocks(i))
           R == Ids \ Active
<1>1. IsFiniteSet(Ids) /\ Active \in SUBSET Ids /\ H \subseteq Ids
  BY HitsFacts DEF TypeOK, Active
<1>2. /\ IsFiniteSet(R) /\ Cardinality(R) = Cardinality(Ids) - Cardinality(Active)
  BY <1>1, CountRemoved
<1>3. H \ Active \in SUBSET R
  BY <1>1
<1>4. R \ H = R \ (H \ Active)
  BY <1>1
<1> HIDE DEF R, H
<1>5. /\ IsFiniteSet(R \ (H \ Active))
      /\ Cardinality(R \ (H \ Active)) = Cardinality(R) - Cardinality(H \ Active)
  BY <1>2, <1>3, CountRemoved
<1>6. IsFiniteSet(Active) /\ IsFiniteSet(H \ Active)
  BY <1>1, <1>2, <1>3, FS_Subset
<1>7. /\ Cardinality(Ids) \in Nat /\ Cardinality(Active) \in Nat /\ Cardinality(H \ Active) \in Nat
      /\ Cardinality(R \ H) \in Nat
  BY <1>1, <1>4, <1>5, <1>6, FS_CardinalityType
<1> QED
  BY <1>2, <1>4, <1>5, <1>7 DEF R, H

(* A request that fits can evict what it must, and ends within the pool.    *)
LEMMA RoomFacts ==
  ASSUME TypeOK, PoolOK, NEW i \in Requests, Fits(i)
  PROVE  LET n == Max({0, Needed(i) - (KvBlocks - Cardinality(Ids))})
             free == (Ids \ Active) \ Elements(PrefixBlocks(i))
         IN /\ Needed(i) \in Nat /\ n \in 0..Cardinality(free)
            /\ Cardinality(Ids) - n + Needed(i) <= KvBlocks
<1> DEFINE x == Needed(i) - (KvBlocks - Cardinality(Ids))
           free == (Ids \ Active) \ Elements(PrefixBlocks(i))
           a == Cardinality(Active)
           c == Cardinality(Ids)
           u == Cardinality(Elements(PrefixBlocks(i)) \ Active)
           f == Cardinality(free)
<1>1. f \in Nat /\ c \in Nat /\ a \in Nat /\ u \in Nat /\ f = c - a - u
  BY FreeFacts
<1>2. Needed(i) \in Nat
  <2> DEFINE p == Len(Prompt[i])
             o == Len(Output[i])
             h == Len(PrefixBlocks(i))
  <2>1. h \in Nat /\ h <= p
    BY HitsFacts
  <2>2. p \in Nat /\ o \in Nat /\ Len(Tokens(i)) = p + o
    BY Demands
  <2>3. Needed(i) = Len(Tokens(i)) - h
    BY DEF Needed
  <2> HIDE DEF p, o, h
  <2> QED
    BY <2>1, <2>2, <2>3
<1>3. Needed(i) <= KvBlocks - a - u
  BY DEF Fits, Available
<1>4. c <= KvBlocks /\ KvBlocks \in Nat
  BY Sizes DEF PoolOK
<1> HIDE DEF a, c, u, f
<1>5. x = Needed(i) - (KvBlocks - c) /\ x \in Int
  BY <1>1, <1>2, <1>4 DEF c
<1> HIDE DEF x
<1>6. Max({0, x}) = IF x > 0 THEN x ELSE 0
  BY <1>5, MaxOfTwo
<1> DEFINE n == Max({0, x})
<1>7. n \in 0..f /\ c - n + Needed(i) <= KvBlocks
  BY <1>1, <1>2, <1>3, <1>4, <1>5, <1>6
<1> QED
  BY <1>2, <1>7 DEF x, f, c

(* The victims are as many as asked for.                                    *)
LEMMA VictimsFacts ==
  ASSUME TypeOK, PoolOK, NEW i \in Requests,
         NEW n \in 0..Cardinality((Ids \ Active) \ Elements(PrefixBlocks(i)))
  PROVE  /\ Victims(i, n) \subseteq (Ids \ Active) \ Elements(PrefixBlocks(i))
         /\ Cardinality(Victims(i, n)) = n
<1> DEFINE free == (Ids \ Active) \ Elements(PrefixBlocks(i))
           f == [b \in Ids |-> blocks[b].touched]
<1>1. IsFiniteSet(free)
  BY FreeFacts
<1>2. \A b \in free : f[b] \in Nat
  BY DEF TypeOK, BlockType
<1>3. \A b, c \in free : f[b] = f[c] => b = c
  BY DEF PoolOK
<1>4. free \subseteq Ids
  OBVIOUS
<1>5. \A b \in Ids : f[b] = blocks[b].touched
  OBVIOUS
<1> HIDE DEF free, f
<1>6. PICK V \in SUBSET free : Cardinality(V) = n /\ \A v \in V, b \in free \ V : f[v] < f[b]
  BY <1>1, <1>2, <1>3, LeastOnes DEF free
<1>7. \A v \in V, b \in free \ V : blocks[v].touched < blocks[b].touched
  BY <1>4, <1>5, <1>6
<1> QED
  BY <1>6, <1>7 DEF Victims, free

-----------------------------------------------------------------------------
(* The batch *)

(* What is planned for a request is in the budget, and fits what it lacks.  *)
LEMMA PlanFacts ==
  ASSUME NEW i \in Requests, budget \in 1..TokenBudget,
         NEW done \in Nat, done <= Len(Prompt[i])
  PROVE  LET s == Plan(i, done)
         IN /\ s \in ServiceType /\ s.index = i /\ s.count \in 1..budget
            /\ IF s.kind = "prefill" THEN done + s.count <= Len(Prompt[i])
               ELSE done = Len(Prompt[i]) /\ s.count = 1
<1> DEFINE left == Len(Prompt[i]) - done
           s == Plan(i, done)
           m == Min({PrefillChunk, budget, left})
<1>1. /\ left \in Nat /\ PrefillChunk \in Nat \ {0} /\ TokenBudget \in Nat /\ budget \in Nat \ {0}
      /\ budget <= TokenBudget /\ Len(Prompt[i]) \in Nat /\ Len(Prompt[i]) = done + left
  BY Demands, Sizes
<1>2. s = IF left > 0 THEN [index |-> i, kind |-> "prefill", count |-> m]
          ELSE [index |-> i, kind |-> "decode", count |-> 1]
  BY DEF Plan
<1> HIDE DEF s, left
<1>3. CASE left > 0
  <2>1. m \in {PrefillChunk, budget, left} /\ \A x \in {PrefillChunk, budget, left} : m <= x
    <3>1. {PrefillChunk, budget, left} \in SUBSET Nat
      BY <1>1
    <3> QED
      BY <3>1, MinFacts
  <2>2. m \in Nat \ {0}
    BY <1>1, <1>3, <2>1
  <2>3. m <= budget /\ m <= left
    BY <2>1
  <2> HIDE DEF m
  <2>4. m \in 1..TokenBudget /\ m \in 1..budget /\ done + m <= Len(Prompt[i])
    BY <1>1, <2>2, <2>3
  <2>5. s = [index |-> i, kind |-> "prefill", count |-> m]
    BY <1>2, <1>3
  <2> QED
    BY <2>4, <2>5 DEF ServiceType, s
<1>4. CASE ~(left > 0)
  <2>1. done = Len(Prompt[i]) /\ 1 \in 1..TokenBudget /\ 1 \in 1..budget
    BY <1>1, <1>4
  <2>2. s = [index |-> i, kind |-> "decode", count |-> 1]
    BY <1>2, <1>4
  <2> QED
    BY <2>1, <2>2 DEF ServiceType, s
<1> QED
  BY <1>3, <1>4

(* The tokens of a batch, as it grows.                                      *)
LEMMA BatchFinite ==
  ASSUME services \in Seq(ServiceType)
  PROVE  IsFiniteSet(Batch) /\ Cardinality(Batch) \in Nat
<1> DEFINE all == (1..Len(services)) \X (1..TokenBudget)
<1>1. Len(services) \in Nat /\ TokenBudget \in Nat /\ DOMAIN services = 1..Len(services)
  BY Sizes
<1>2. IsFiniteSet(all)
  <2>1. IsFiniteSet(1..Len(services)) /\ IsFiniteSet(1..TokenBudget)
    BY <1>1, FS_Interval
  <2> QED
    BY <2>1, FS_Product
<1>3. Batch \in SUBSET all
  <2> SUFFICES ASSUME NEW k \in DOMAIN services
               PROVE  {k} \X (1..services[k].count) \subseteq all
    BY DEF Batch
  <2>1. services[k] \in ServiceType /\ k \in 1..Len(services)
    BY <1>1, ListFacts
  <2>2. services[k].count \in 1..TokenBudget
    BY <2>1 DEF ServiceType
  <2>3. 1..services[k].count \subseteq 1..TokenBudget
    BY <1>1, <2>2
  <2> QED
    BY <2>1, <2>3
<1>4. IsFiniteSet(Batch)
  BY <1>2, <1>3, FS_Subset
<1> QED
  BY <1>4, FS_CardinalityType

LEMMA BatchAppend ==
  ASSUME services \in Seq(ServiceType), NEW s \in ServiceType, services' = Append(services, s)
  PROVE  Cardinality(Batch') = Cardinality(Batch) + s.count
<1> DEFINE z == Len(services) + 1
           new == {z} \X (1..s.count)
<1>1. Len(services) \in Nat /\ DOMAIN services = 1..Len(services) /\ s.count \in Nat
  BY Sizes DEF ServiceType
<1>2. /\ DOMAIN services' = DOMAIN services \cup {z} /\ z \notin DOMAIN services
      /\ \A k \in DOMAIN services : services'[k] = services[k]
      /\ services'[z] = s
  BY <1>1
<1>3. Batch' = Batch \cup new
  <2>1. Batch' = UNION {{k} \X (1..services'[k].count) : k \in DOMAIN services'}
    BY DEF Batch
  <2>2. \A k \in DOMAIN services : {k} \X (1..services'[k].count) = {k} \X (1..services[k].count)
    BY <1>2
  <2>3. {z} \X (1..services'[z].count) = new
    BY <1>2
  <2> HIDE DEF z, new
  <2> QED
    BY <1>2, <2>1, <2>2, <2>3 DEF Batch
<1>4. Batch \cap new = {}
  <2> SUFFICES ASSUME NEW x \in Batch, x \in new PROVE FALSE
    OBVIOUS
  <2>1. x[1] \in DOMAIN services
    BY DEF Batch
  <2>2. x[1] = z
    OBVIOUS
  <2> QED
    BY <1>2, <2>1, <2>2
<1>5. IsFiniteSet(new) /\ Cardinality(new) = s.count
  BY <1>1, RowFacts
<1>6. IsFiniteSet(Batch)
  BY BatchFinite
<1> HIDE DEF new
<1> QED
  BY <1>3, <1>4, <1>5, <1>6, CountAdded

(* A batch takes a time.                                                    *)
LEMMA DurationFacts ==
  ASSUME services \in Seq(ServiceType), services # <<>>
  PROVE  Duration \in Nat \ {0}
<1> DEFINE cost(k) == IF services[k].kind = "prefill" THEN services[k].count * PrefillTokenTicks
                      ELSE DecodeTokenTicks
           S == {cost(k) : k \in DOMAIN services}
           top == TokenBudget * PrefillTokenTicks + DecodeTokenTicks
<1>1. /\ TokenBudget \in Nat /\ PrefillTokenTicks \in Nat /\ DecodeTokenTicks \in Nat
      /\ OverheadTicks \in Nat \ {0}
  BY Sizes
<1>2. TokenBudget * PrefillTokenTicks \in Nat /\ top \in Nat
  BY <1>1
<1>3. ASSUME NEW k \in DOMAIN services PROVE cost(k) \in 0..top
  <2>1. services[k].count \in 1..TokenBudget
    <3>1. services[k] \in ServiceType
      BY ListFacts
    <3> QED
      BY <3>1 DEF ServiceType
  <2> DEFINE c == services[k].count
  <2>2. c \in Nat /\ c <= TokenBudget
    BY <1>1, <2>1
  <2> HIDE DEF c
  <2>3. c * PrefillTokenTicks \in Nat /\ c * PrefillTokenTicks <= TokenBudget * PrefillTokenTicks
    BY <1>1, <2>2, TimesMonotonic
  <2> QED
    BY <1>1, <1>2, <2>3 DEF c
<1>4. S \in SUBSET (0..top) /\ S # {}
  <2>1. 1 \in DOMAIN services
    OBVIOUS
  <2> HIDE DEF top, cost
  <2> QED
    BY <1>3, <2>1
<1> HIDE DEF S, top
<1>5. Max(S) \in 0..top
  BY <1>2, <1>4, MaxFacts
<1>6. Duration = OverheadTicks + Max(S)
  BY DEF Duration, S
<1> QED
  BY <1>1, <1>2, <1>5, <1>6

(* A request is served once in a batch, or not at all.                      *)
LEMMA ServedNone ==
  ASSUME NEW i, \A k \in DOMAIN services : services[k].index # i, NEW kind
  PROVE  Served(i, kind) = 0
  BY DEF Served

LEMMA ServedOnce ==
  ASSUME \A j, k \in DOMAIN services : services[j].index = services[k].index => j = k,
         NEW k \in DOMAIN services, NEW kind
  PROVE  Served(services[k].index, kind) = IF services[k].kind = kind THEN services[k].count ELSE 0
<1> DEFINE i == services[k].index
           visits == {j \in DOMAIN services : services[j].index = i /\ services[j].kind = kind}
<1>1. CASE services[k].kind = kind
  <2>1. visits = {k}
    BY <1>1
  <2>2. (CHOOSE j \in visits : TRUE) = k
    BY <2>1
  <2> QED
    BY <1>1, <2>1, <2>2 DEF Served
<1>2. CASE services[k].kind # kind
  <2>1. visits = {}
    BY <1>2
  <2> QED
    BY <1>2, <2>1 DEF Served
<1> QED
  BY <1>1, <1>2

-----------------------------------------------------------------------------
(* What a batch makes of a request *)

LEMMA ProgressFacts ==
  ASSUME TypeOK, NEW i \in Requests
  PROVE  /\ progress[i] \in ProgressType
         /\ progress[i].prefillDone \in Nat /\ progress[i].blockIds \in Seq(Nat)
         /\ progress[i].outputTimes \in Seq(Nat) /\ Len(progress[i].outputTimes) \in Nat
         /\ Made(i) \in Nat /\ Made(i) = Len(Prompt[i]) + Len(progress[i].outputTimes)
<1>1. progress[i] \in ProgressType
  BY DEF TypeOK
<1>2. progress[i].outputTimes \in Seq(Nat)
  BY <1>1 DEF ProgressType
<1>3. Len(progress[i].outputTimes) \in Nat
  BY <1>2
<1>4. progress[i].prefillDone \in Nat /\ progress[i].blockIds \in Seq(Nat)
  BY <1>1 DEF ProgressType
<1>5. Made(i) = Len(Prompt[i]) + Len(progress[i].outputTimes)
  BY DEF Made
<1>6. Made(i) \in Nat
  <2> DEFINE l == Len(Prompt[i])
             m == Len(progress[i].outputTimes)
  <2>1. l \in Nat /\ m \in Nat /\ Made(i) = l + m
    BY <1>3, <1>5, Demands
  <2> HIDE DEF l, m
  <2> QED
    BY <2>1
<1> QED
  BY <1>1, <1>2, <1>3, <1>4, <1>5, <1>6

(* It gets further in its prompt, or by an answer, or not at all.           *)
LEMMA AdvanceFacts ==
  ASSUME Inductive, phase = "plan", NEW i \in Requests
  PROVE  LET p == progress[i]
         IN /\ Prefilled(i) \in Nat
            /\ \/ Prefilled(i) = p.prefillDone /\ Outputs(i) = p.outputTimes
               \/ /\ i \in Elements(running)
                  /\ Prefilled(i) > p.prefillDone /\ Prefilled(i) <= Len(Prompt[i])
                  /\ Outputs(i) = p.outputTimes
               \/ /\ i \in Elements(running)
                  /\ Prefilled(i) = p.prefillDone /\ p.prefillDone = Len(Prompt[i])
                  /\ services # <<>> /\ Outputs(i) = Append(p.outputTimes, time + Duration)
            /\ \A k \in DOMAIN services :
                 services[k].index = i => Prefilled(i) > p.prefillDone \/ Outputs(i) # p.outputTimes
<1> DEFINE p == progress[i]
           done == p.prefillDone
<1>1. TypeOK /\ PlanOK
  BY DEF Inductive
<1>2. /\ services \in Seq(ServiceType)
      /\ \A k \in DOMAIN services : services[k].index \in Elements(running) /\ ServiceOK(services[k])
      /\ \A j, k \in DOMAIN services : services[j].index = services[k].index => j = k
  BY <1>1 DEF TypeOK, PlanOK
<1>3. done \in Nat /\ p.outputTimes \in Seq(Nat)
  BY <1>1, ProgressFacts
<1>4. Prefilled(i) = done + Served(i, "prefill")
  BY DEF Prefilled
<1>5. Outputs(i) = IF Served(i, "decode") = 0 THEN p.outputTimes
                   ELSE Append(p.outputTimes, time + Duration)
  BY DEF Outputs
<1>6. CASE \A k \in DOMAIN services : services[k].index # i
  <2>1. Served(i, "prefill") = 0 /\ Served(i, "decode") = 0
    BY <1>6, ServedNone
  <2> QED
    BY <1>3, <1>4, <1>5, <1>6, <2>1
<1>7. CASE \E k \in DOMAIN services : services[k].index = i
  <2>1. PICK k \in DOMAIN services : services[k].index = i
    BY <1>7
  <2>2. services[k].kind \in {"prefill", "decode"} /\ services[k].count \in Nat \ {0}
    <3>1. services[k] \in ServiceType
      BY <1>2, ListFacts
    <3> QED
      BY <3>1, Sizes DEF ServiceType
  <2>3. \A kind : Served(i, kind) = IF services[k].kind = kind THEN services[k].count ELSE 0
    BY <1>2, <2>1, ServedOnce
  <2>4. ServiceOK(services[k]) /\ i \in Elements(running) /\ services # <<>>
    BY <1>2, <2>1
  <2>5. CASE services[k].kind = "prefill"
    <3>1. Served(i, "prefill") = services[k].count /\ Served(i, "decode") = 0
      BY <2>3, <2>5
    <3>2. done + services[k].count <= Len(Prompt[i])
      BY <2>1, <2>4, <2>5 DEF ServiceOK
    <3> HIDE DEF done
    <3>3. /\ Prefilled(i) \in Nat /\ Prefilled(i) > done /\ Prefilled(i) <= Len(Prompt[i])
      BY <1>3, <1>4, <2>2, <3>1, <3>2
    <3>4. Outputs(i) = p.outputTimes
      BY <1>5, <3>1
    <3> QED
      BY <2>4, <3>3, <3>4 DEF done
  <2>6. CASE services[k].kind = "decode"
    <3>1. Served(i, "decode") = services[k].count /\ Served(i, "prefill") = 0
      BY <2>3, <2>6
    <3>2. done = Len(Prompt[i])
      BY <2>1, <2>4, <2>6 DEF ServiceOK
    <3>3. Prefilled(i) = done /\ Prefilled(i) \in Nat
      BY <1>3, <1>4, <3>1
    <3>4. Outputs(i) = Append(p.outputTimes, time + Duration)
      BY <1>5, <2>2, <3>1
    <3>5. Outputs(i) # p.outputTimes
      <4> DEFINE o == p.outputTimes
                 u == Append(o, time + Duration)
      <4>1. o \in Seq(Nat)
        BY <1>3
      <4> HIDE DEF o
      <4>2. Len(u) = Len(o) + 1 /\ Len(o) \in Nat
        BY <4>1
      <4>3. u # o
        BY <4>2
      <4> QED
        BY <3>4, <4>3 DEF o
    <3> QED
      BY <2>4, <3>2, <3>3, <3>4, <3>5
  <2> QED
    BY <2>2, <2>5, <2>6
<1> QED
  BY <1>6, <1>7

(* What it computes are places of its table not written before, and all     *)
(* that is written then and was not before.                                 *)
LEMMA ComputedFacts ==
  ASSUME Inductive, phase = "plan", NEW i \in Requests
  PROVE  /\ Prefilled(i) <= Len(Prompt[i]) /\ Len(Outputs(i)) <= Len(Output[i])
         /\ Outputs(i) \in Seq(Nat) /\ Len(Outputs(i)) \in Nat
         /\ \A n \in Nat : n \in Computed(i) =>
              i \in Elements(running) /\ n \in 1..Len(Tokens(i)) /\ ~Written(i, n)
         /\ \A n \in Nat : (n <= Prefilled(i) \/ n \in (Len(Prompt[i]) + 1)..(Len(Prompt[i]) + Len(Outputs(i))))
                             <=> (Written(i, n) \/ (n \in Computed(i) /\ n > 0))
         /\ \A n \in Nat : n \in Computed(i) /\ n \notin Answered(i) => n <= Len(Prompt[i])
         /\ \A n \in Answered(i) : n > Len(Prompt[i]) /\ n \in Nat
         /\ Computed(i) \subseteq Nat /\ Answered(i) \subseteq Computed(i)
<1> DEFINE l == Len(Prompt[i])
           k == Len(Output[i])
           d == progress[i].prefillDone
           o == progress[i].outputTimes
           m == Len(o)
           e == Prefilled(i)
           v == Len(Outputs(i))
<1>1. TypeOK /\ ProgressOK /\ QueuesOK
  BY DEF Inductive
<1>2. /\ l \in Nat \ {0} /\ k \in Nat \ {0} /\ Len(Tokens(i)) = l + k
  BY Demands
<1>3. /\ d \in Nat /\ o \in Seq(Nat) /\ m \in Nat /\ e \in Nat /\ Made(i) = l + m
  BY <1>1, ProgressFacts, AdvanceFacts
<1>4. /\ d <= l /\ m <= k /\ (o # <<>> => d = l)
  BY <1>1 DEF ProgressOK
<1>5. i \in Elements(running) => m < k
  <2>1. i \in Elements(running) => m # k
    BY <1>1 DEF QueuesOK, Completed
  <2> HIDE DEF m, k
  <2> QED
    BY <1>2, <1>3, <1>4, <2>1
<1>6. /\ Written(i, 1) \in BOOLEAN
      /\ \A n \in Nat : Written(i, n) <=> (n <= d \/ n \in (l + 1)..(l + m))
  BY <1>3 DEF Written
<1>7. Answered(i) = (l + m + 1)..(l + v) /\ Computed(i) = ((d + 1)..e) \cup Answered(i)
  BY <1>3 DEF Answered, Computed
<1>8. \/ e = d /\ Outputs(i) = o /\ v = m
      \/ i \in Elements(running) /\ e > d /\ e <= l /\ Outputs(i) = o /\ v = m
      \/ i \in Elements(running) /\ e = d /\ d = l /\ v = m + 1 /\ Outputs(i) \in Seq(Nat)
  <2>1. \/ e = d /\ Outputs(i) = o
        \/ i \in Elements(running) /\ e > d /\ e <= l /\ Outputs(i) = o
        \/ /\ i \in Elements(running) /\ e = d /\ d = l
           /\ services # <<>> /\ Outputs(i) = Append(o, time + Duration)
    BY AdvanceFacts
  <2>2. ASSUME services # <<>> PROVE time + Duration \in Nat
    <3>1. services \in Seq(ServiceType) /\ time \in Nat
      BY <1>1 DEF TypeOK
    <3>2. Duration \in Nat
      BY <2>2, <3>1, DurationFacts
    <3> QED
      BY <3>1, <3>2
  <2>3. ASSUME Outputs(i) = Append(o, time + Duration), services # <<>>
        PROVE v = m + 1 /\ Outputs(i) \in Seq(Nat)
    <3>1. time + Duration \in Nat
      BY <2>2, <2>3
    <3> HIDE DEF o
    <3> QED
      BY <1>3, <2>3, <3>1
  <2>4. Outputs(i) = o => v = m
    OBVIOUS
  <2> HIDE DEF e, d, l, v, m, o
  <2> QED
    BY <2>1, <2>3, <2>4
<1>9. Outputs(i) \in Seq(Nat) /\ v \in Nat
  <2>1. Outputs(i) \in Seq(Nat)
    BY <1>3, <1>8
  <2> QED
    BY <2>1
<1>10. o = <<>> <=> m = 0
  BY <1>3
<1> HIDE DEF e, d, l, v, m, o, k
<1>11. e <= l /\ v <= k
  BY <1>2, <1>3, <1>4, <1>5, <1>8
<1>12. ASSUME NEW n \in Nat, n \in Computed(i)
       PROVE  i \in Elements(running) /\ n \in 1..Len(Tokens(i)) /\ ~Written(i, n)
  BY <1>2, <1>3, <1>4, <1>5, <1>6, <1>7, <1>8, <1>9, <1>10, <1>11, <1>12
<1>13. ASSUME NEW n \in Nat
       PROVE  (n <= e \/ n \in (l + 1)..(l + v)) <=> (Written(i, n) \/ (n \in Computed(i) /\ n > 0))
  BY <1>2, <1>3, <1>4, <1>6, <1>7, <1>8, <1>9, <1>11
<1>14. Computed(i) \subseteq Nat /\ Answered(i) \subseteq Computed(i)
  BY <1>2, <1>3, <1>7, <1>9
<1>15. \A n \in Answered(i) : n > l /\ n \in Nat
  BY <1>2, <1>3, <1>7, <1>9
<1>16. \A n \in Nat : n \in Computed(i) /\ n \notin Answered(i) => n <= l
  BY <1>2, <1>3, <1>7, <1>11
<1> QED
  BY <1>9, <1>11, <1>12, <1>13, <1>14, <1>15, <1>16 DEF l, k, v, e

(* A batch computes a block of a table for that place of that table only,   *)
(* and only if it was not computed.                                         *)
LEMMA CellFacts ==
  ASSUME Inductive, phase = "plan",
         NEW i \in Elements(running), NEW n \in DOMAIN progress[i].blockIds,
         NEW j \in Requests, NEW m \in Computed(j), progress[j].blockIds[m] = progress[i].blockIds[n]
  PROVE  j = i /\ m = n /\ ~Written(i, n)
<1> DEFINE b == progress[i].blockIds[n]
<1>1. TypeOK /\ TableOK /\ RefsOK
  BY DEF Inductive
<1>2. j \in Elements(running) /\ m \in 1..Len(Tokens(j)) /\ ~Written(j, m)
  BY ComputedFacts
<1>3. m \in DOMAIN progress[j].blockIds
  <2> DEFINE ids == progress[j].blockIds
  <2>1. ids \in Seq(Nat)
    BY <1>1, ProgressFacts
  <2>2. Len(ids) = Len(Tokens(j))
    BY <1>1, <1>2 DEF TableOK
  <2> HIDE DEF ids
  <2>3. DOMAIN ids = 1..Len(ids)
    BY <2>1
  <2> QED
    BY <1>2, <2>2, <2>3 DEF ids
<1>4. /\ b \in Ids /\ i \in blocks[b].refs /\ blocks[b].computed = Written(i, n)
      /\ j \in blocks[b].refs /\ blocks[b].computed = Written(j, m)
  BY <1>1, <1>2, <1>3 DEF TableOK
<1>5. ~blocks[b].computed /\ ~Written(i, n)
  BY <1>2, <1>4
<1>6. j = i
  BY <1>1, <1>4, <1>5 DEF RefsOK
<1>7. m = n
  BY <1>1, <1>3, <1>6 DEF TableOK, IsInjectiveSeq
<1> QED
  BY <1>5, <1>6, <1>7

-----------------------------------------------------------------------------
(* Work, in units *)

Work == UNION {{i} \X DOMAIN Tokens(i) : i \in Requests}
Units(i) == progress[i].prefillDone + Len(progress[i].outputTimes)
DoneWithin == Done \subseteq Work

LEMMA WorkFinite == IsFiniteSet(Work) /\ Cardinality(Work) \in Nat
<1>1. IsFiniteSet(Requests) /\ IsFiniteSet(1..KvBlocks) /\ KvBlocks \in Nat
  BY Sizes, RequestsFinite, FS_Interval
<1>2. IsFiniteSet(Requests \X (1..KvBlocks))
  BY <1>1, FS_Product
<1>3. Work \in SUBSET (Requests \X (1..KvBlocks))
  <2>1. ASSUME NEW i \in Requests PROVE DOMAIN Tokens(i) \subseteq 1..KvBlocks
    <3>1. /\ DOMAIN Tokens(i) = 1..Len(Tokens(i)) /\ Len(Tokens(i)) <= KvBlocks
          /\ Tokens(i) \in Seq(Int)
      BY Demands
    <3>2. Len(Tokens(i)) \in Nat
      BY <3>1
    <3> QED
      BY <1>1, <3>1, <3>2
  <2> QED
    BY <2>1 DEF Work
<1>4. IsFiniteSet(Work)
  BY <1>2, <1>3, FS_Subset
<1> QED
  BY <1>4, FS_CardinalityType

LEMMA UnitsFacts ==
  ASSUME TypeOK, ProgressOK, NEW i \in Requests
  PROVE  Units(i) \in Nat /\ 1..Units(i) \subseteq DOMAIN Tokens(i)
<1> DEFINE l == Len(Prompt[i])
           k == Len(Output[i])
           d == progress[i].prefillDone
           m == Len(progress[i].outputTimes)
<1>1. l \in Nat /\ k \in Nat /\ DOMAIN Tokens(i) = 1..Len(Tokens(i)) /\ Len(Tokens(i)) = l + k
  BY Demands
<1>2. d \in Nat /\ m \in Nat /\ Units(i) = d + m
  BY ProgressFacts DEF Units
<1>3. d <= l /\ m <= k
  BY DEF ProgressOK
<1> HIDE DEF l, k, d, m
<1> QED
  BY <1>1, <1>2, <1>3

LEMMA DoneFits == TypeOK /\ ProgressOK => DoneWithin
<1> SUFFICES ASSUME TypeOK, ProgressOK PROVE DoneWithin
  OBVIOUS
<1>1. Done = UNION {{i} \X (1..Units(i)) : i \in Requests}
  BY DEF Done, Units
<1>2. \A i \in Requests : 1..Units(i) \subseteq DOMAIN Tokens(i)
  BY UnitsFacts
<1> QED
  BY <1>1, <1>2 DEF DoneWithin, Work

LEMMA Counts ==
  /\ IsFiniteSet(Arrived) /\ Cardinality(Arrived) \in Nat /\ Cardinality(Arrived) <= N
  /\ DoneWithin => IsFiniteSet(Done) /\ Cardinality(Done) \in Nat /\ Cardinality(Done) <= Cardinality(Work)
<1>1. IsFiniteSet(Requests) /\ Cardinality(Requests) = N /\ Arrived \in SUBSET Requests
  BY RequestsFinite DEF Arrived
<1>2. IsFiniteSet(Arrived) /\ Cardinality(Arrived) <= N
  BY <1>1, FS_Subset
<1>3. ASSUME DoneWithin PROVE IsFiniteSet(Done) /\ Cardinality(Done) <= Cardinality(Work)
  <2>1. Done \in SUBSET Work
    BY <1>3 DEF DoneWithin
  <2> QED
    BY <2>1, WorkFinite, FS_Subset
<1> QED
  BY <1>2, <1>3, FS_CardinalityType

(* A step that does more than it counts keeps the count.                    *)
LEMMA WorkKept ==
  ASSUME TypeOK, ProgressOK, WorkOK, DoneWithin',
         \A i \in Requests : Units(i) \in Nat /\ Units(i)' \in Nat /\ Units(i)' >= Units(i),
         time \in Nat, time' \in Nat, time' >= time, events \in Nat, events' = events,
         \/ phase' # "leaving"
         \/ \E i \in Requests : Units(i)' > Units(i)
         \/ \E i \in Requests : Arrival[i] > time /\ Arrival[i] <= time',
         phase # "leaving"
  PROVE  WorkOK'
<1> DEFINE D == Done
           E == Done'
           A == Arrived
           B == Arrived'
<1>1. DoneWithin
  BY DoneFits
<1>2. IsFiniteSet(D) /\ Cardinality(D) \in Nat /\ IsFiniteSet(A) /\ Cardinality(A) \in Nat
  BY <1>1, Counts
<1>3. IsFiniteSet(E) /\ Cardinality(E) \in Nat
  <2>1. E \in SUBSET Work
    BY DEF DoneWithin, Work
  <2> QED
    BY <2>1, WorkFinite, FS_Subset, FS_CardinalityType
<1>4. IsFiniteSet(B) /\ Cardinality(B) \in Nat
  <2>1. B \in SUBSET Requests
    BY DEF Arrived
  <2> QED
    BY <2>1, RequestsFinite, FS_Subset, FS_CardinalityType
<1>5. /\ D = UNION {{i} \X (1..Units(i)) : i \in Requests}
      /\ E = UNION {{i} \X (1..Units(i)') : i \in Requests}
  BY DEF Done, Units
<1>6. D \subseteq E
  <2>1. \A i \in Requests : 1..Units(i) \subseteq 1..Units(i)'
    OBVIOUS
  <2> HIDE DEF D, E
  <2> QED
    BY <1>5, <2>1
<1>7. A \subseteq B
  <2> SUFFICES ASSUME NEW i \in A PROVE i \in B
    OBVIOUS
  <2>1. i \in Requests /\ Arrival[i] <= time /\ Arrival[i] \in Nat
    BY Demands DEF Arrived
  <2>2. Arrival[i] <= time'
    BY <2>1
  <2> QED
    BY <2>1, <2>2 DEF Arrived
<1>8. ASSUME NEW i \in Requests, Units(i)' > Units(i) PROVE D # E
  <2>1. Units(i)' \in 1..Units(i)' /\ Units(i)' \notin 1..Units(i)
    BY <1>8
  <2> HIDE DEF D, E
  <2>2. <<i, Units(i)'>> \in E
    BY <1>5, <2>1
  <2>3. <<i, Units(i)'>> \notin D
    BY <1>5, <2>1
  <2> QED
    BY <2>2, <2>3
<1>9. ASSUME NEW i \in Requests, Arrival[i] > time, Arrival[i] <= time' PROVE A # B
  <2>1. Arrival[i] \in Nat
    BY Demands
  <2>2. ~(Arrival[i] <= time)
    BY <1>9, <2>1
  <2> QED
    BY <1>9, <2>2 DEF Arrived
<1>10. WorkOK' <=> events' + (IF phase' = "leaving" THEN 1 ELSE 0) <= Cardinality(E) + Cardinality(B)
  BY DEF WorkOK
<1>11. events <= Cardinality(D) + Cardinality(A)
  BY DEF WorkOK
<1> HIDE DEF D, E, A, B
<1>12. /\ Cardinality(D) <= Cardinality(E) /\ (Cardinality(D) = Cardinality(E) => D = E)
       /\ Cardinality(A) <= Cardinality(B) /\ (Cardinality(A) = Cardinality(B) => A = B)
  BY <1>3, <1>4, <1>6, <1>7, FS_Subset
<1>13. phase' # "leaving" \/ D # E \/ A # B
  BY <1>8, <1>9
<1> QED
  BY <1>2, <1>3, <1>4, <1>10, <1>11, <1>12, <1>13

-----------------------------------------------------------------------------
(* The start of a replay, and the steps that leave the pool alone *)

Fresh ==
  /\ time = 0 /\ touchClock = 0 /\ nextBlockId = 0
  /\ progress = [i \in Requests |-> NoProgress]
  /\ running = <<>> /\ blocks = <<>>
  /\ phase = "choose" /\ order \in Seq(Requests) /\ todo = <<>>
  /\ budget \in 0..TokenBudget /\ services = <<>>
  /\ mode \in {"baseline", "search"} /\ events = 0 /\ stock \in BOOLEAN

LEMMA FreshInductive == Fresh => Inductive
<1> SUFFICES ASSUME Fresh PROVE Inductive
  OBVIOUS
<1>1. Ids = {} /\ Elements(running) = {} /\ Elements(todo) = {}
  BY DEF Fresh, Ids, Elements
<1>2. \A i \in Requests : progress[i] = NoProgress
  BY DEF Fresh
<1>3. NoProgress \in ProgressType
  BY DEF NoProgress, ProgressType
<1>4. TypeOK
  <2>1. progress \in [Requests -> ProgressType]
    BY <1>3 DEF Fresh
  <2>2. IsFiniteSet(Ids) /\ Ids \subseteq Nat
    BY <1>1, FS_EmptySet
  <2>3. blocks \in [Ids -> BlockType]
    <3>1. blocks = [b \in Ids |-> blocks[b]]
      BY DEF Fresh, Ids
    <3> QED
      BY <1>1, <3>1
  <2>4. /\ running \in Seq(Requests) /\ todo \in Seq(Requests) /\ services \in Seq(ServiceType)
        /\ time \in Nat /\ touchClock \in Nat /\ nextBlockId \in Nat /\ events \in Nat
    BY DEF Fresh
  <2> QED
    BY <2>1, <2>2, <2>3, <2>4 DEF TypeOK, Fresh
<1>5. PoolOK
  BY <1>1, FS_EmptySet, Sizes DEF PoolOK
<1>6. \A i \in Requests :
        /\ progress[i].admittedAt = None /\ progress[i].prefillDone = 0
        /\ progress[i].outputTimes = <<>>
  BY <1>2 DEF NoProgress
<1>7. QueuesOK
  <2>1. IsInjectiveSeq(running) /\ Len(running) <= MaxSequences
    BY Sizes DEF Fresh, IsInjectiveSeq
  <2> QED
    BY <1>1, <1>2, <1>6, <2>1 DEF QueuesOK
<1>8. ProgressOK
  <2> SUFFICES ASSUME NEW i \in Requests
      PROVE LET p == progress[i]
            IN /\ p.prefillDone <= Len(Prompt[i]) /\ Len(p.outputTimes) <= Len(Output[i])
               /\ p.outputTimes # <<>> => p.prefillDone = Len(Prompt[i])
               /\ \A k \in 1..(Len(p.outputTimes) - 1) : p.outputTimes[k] < p.outputTimes[k + 1]
               /\ \A k \in DOMAIN p.outputTimes : p.outputTimes[k] <= time
    BY DEF ProgressOK
  <2>1. progress[i].prefillDone = 0 /\ progress[i].outputTimes = <<>>
    BY <1>6
  <2>2. 0 <= Len(Prompt[i]) /\ 0 <= Len(Output[i])
    BY Demands
  <2>3. Len(progress[i].outputTimes) = 0 /\ DOMAIN progress[i].outputTimes = {}
          /\ 1..(Len(progress[i].outputTimes) - 1) = {}
    BY <2>1
  <2> QED
    BY <2>1, <2>2, <2>3
<1>9. TableOK /\ RefsOK
  BY <1>1 DEF TableOK, RefsOK
<1>10. PlanOK
  BY <1>1 DEF PlanOK, Fresh, IsInjectiveSeq
<1>11. WorkOK
  <2>1. DoneWithin
    BY <1>4, <1>8, DoneFits
  <2>2. Cardinality(Done) \in Nat /\ Cardinality(Arrived) \in Nat
    BY <2>1, Counts
  <2> QED
    BY <2>2 DEF WorkOK, Fresh
<1> QED
  BY <1>4, <1>5, <1>7, <1>8, <1>9, <1>10, <1>11 DEF Inductive

LEMMA InitFresh == Init => Fresh
<1> SUFFICES ASSUME Init PROVE Fresh
  OBVIOUS
<1>1. budget \in 0..TokenBudget /\ order \in Seq(Requests)
  BY Sizes DEF Init
<1> QED
  BY <1>1 DEF Init, Fresh

LEMMA SearchFresh == Inductive /\ Search => Fresh'
<1> SUFFICES ASSUME Inductive, Search PROVE Fresh'
  OBVIOUS
<1>1. /\ budget \in 0..TokenBudget /\ services = <<>> /\ todo = <<>> /\ order \in Seq(Requests)
  BY DEF Inductive, TypeOK, PlanOK, Search
<1> QED
  BY <1>1 DEF Fresh, Search, batch

LEMMA SearchStep == Inductive /\ Search => Inductive'
<1>1. Fresh' => Inductive'
  BY FreshInductive, PTL
<1> QED
  BY <1>1, SearchFresh

(* What a step that leaves the requests and the pool alone keeps.           *)
LEMMA SameState ==
  ASSUME Inductive, UNCHANGED <<progress, running, blocks, touchClock, nextBlockId>>
  PROVE  /\ PoolOK' /\ TableOK' /\ RefsOK'
         /\ \A i \in Requests : /\ Units(i)' = Units(i) /\ Units(i) \in Nat
                                /\ Completed(i)' <=> Completed(i)
<1>1. PoolOK /\ TableOK /\ RefsOK /\ TypeOK /\ ProgressOK
  BY DEF Inductive
<1>2. PoolOK'
  BY <1>1 DEF PoolOK, Ids
<1>3. \A i, n : Written(i, n)' = Written(i, n)
  BY DEF Written, Made
<1>4. \A i, n : Identity(i, n)' = Identity(i, n)
  BY <1>3 DEF Identity
<1>5. TableOK'
  BY <1>1, <1>3, <1>4 DEF TableOK, Ids
<1>6. RefsOK'
  BY <1>1 DEF RefsOK, Ids
<1>7. \A i \in Requests : Units(i)' = Units(i) /\ Units(i) \in Nat
  BY <1>1, UnitsFacts DEF Units
<1>8. \A i \in Requests : Completed(i)' <=> Completed(i)
  BY DEF Completed
<1> QED
  BY <1>2, <1>5, <1>6, <1>7, <1>8

LEMMA SameProgress ==
  ASSUME Inductive, UNCHANGED progress, time' \in Nat, time' >= time
  PROVE  ProgressOK' /\ DoneWithin'
<1>1. ProgressOK /\ TypeOK
  BY DEF Inductive
<1>2. DoneWithin'
  <2>1. DoneWithin
    BY <1>1, DoneFits
  <2> QED
    BY <2>1 DEF DoneWithin, Work, Done
<1>3. ASSUME NEW i \in Requests, NEW k \in DOMAIN progress[i].outputTimes
      PROVE  progress[i].outputTimes[k] <= time'
  <2>1. progress[i].outputTimes[k] \in Nat /\ time \in Nat
    BY <1>1, ProgressFacts, ListFacts DEF TypeOK
  <2>2. progress[i].outputTimes[k] <= time
    BY <1>1 DEF ProgressOK
  <2> QED
    BY <2>1, <2>2
<1>4. ProgressOK'
  BY <1>1, <1>3 DEF ProgressOK
<1> QED
  BY <1>2, <1>4

LEMMA SameWork ==
  ASSUME Inductive, UNCHANGED <<progress, running, blocks, touchClock, nextBlockId, time, events>>,
         phase # "leaving", phase' # "leaving"
  PROVE  WorkOK'
  BY DEF Inductive, WorkOK, Done, Arrived

LEMMA StutterStep == Inductive /\ UNCHANGED vars => Inductive'
<1> SUFFICES ASSUME Inductive, UNCHANGED vars PROVE Inductive'
  OBVIOUS
<1>1. /\ TypeOK /\ QueuesOK /\ PlanOK /\ WorkOK
      /\ UNCHANGED <<time, progress, running, blocks, touchClock, nextBlockId>>
      /\ UNCHANGED <<phase, order, todo, budget, services, mode, events, stock>>
  BY DEF Inductive, vars, state, batch
<1>2. TypeOK'
  BY <1>1 DEF TypeOK, Ids
<1>3. PoolOK' /\ TableOK' /\ RefsOK'
  BY <1>1, SameState
<1>4. QueuesOK'
  BY <1>1 DEF QueuesOK, Completed
<1>5. ProgressOK'
  BY <1>1 DEF Inductive, ProgressOK
<1>6. PlanOK'
  BY <1>1 DEF PlanOK, Completed, Finished, Eligible, ServiceOK, Batch
<1>7. WorkOK'
  BY <1>1 DEF WorkOK, Done, Arrived
<1> QED
  BY <1>2, <1>3, <1>4, <1>5, <1>6, <1>7 DEF Inductive

(* An order of the waiting requests lists each once.                        *)
LEMMA OrderFacts ==
  ASSUME NEW o \in Orders
  PROVE  o \in Seq(Requests) /\ IsInjectiveSeq(o) /\ Elements(o) = Eligible
<1> DEFINE n == Cardinality(Eligible)
           S == 1..n
<1>1. IsFiniteSet(Eligible) /\ n \in Nat
  <2>1. Eligible \in SUBSET Requests
    BY DEF Eligible
  <2> QED
    BY <2>1, RequestsFinite, FS_Subset, FS_CardinalityType
<1>2. o \in [S -> Eligible] /\ Elements(o) = Eligible
  BY DEF Orders
<1>3. IsFiniteSet(S) /\ Cardinality(S) = n
  BY <1>1, FS_Interval
<1>4. o \in Seq(Requests)
  <2>1. Eligible \subseteq Requests
    BY DEF Eligible
  <2> QED
    BY <1>1, <1>2, <2>1
<1>5. DOMAIN o = S
  BY <1>2
<1> HIDE DEF S
<1>6. o \in Surjection(S, Eligible)
  BY <1>2, <1>5 DEF Surjection, Elements
<1>7. o \in Injection(S, Eligible)
  BY <1>3, <1>6, FS_Surjection
<1>8. IsInjectiveSeq(o)
  BY <1>5, <1>7 DEF IsInjectiveSeq, Injection, IsInjective
<1> QED
  BY <1>2, <1>4, <1>8

LEMMA ChooseStep == Inductive /\ Choose => Inductive'
<1> SUFFICES ASSUME Inductive, Choose PROVE Inductive'
  OBVIOUS
<1>1. TypeOK /\ QueuesOK /\ PlanOK
  BY DEF Inductive
<1>2. PICK o \in Orders : order' = o /\ stock' = (stock /\ o = ArrivalOrder)
  BY DEF Choose
<1>3. /\ phase = "choose" /\ ~Finished /\ phase' = "plan"
      /\ todo' = running /\ budget' = TokenBudget /\ services' = <<>>
      /\ UNCHANGED <<time, progress, running, blocks, touchClock, nextBlockId, mode, events>>
  BY DEF Choose, state
<1>4. order' \in Seq(Requests) /\ IsInjectiveSeq(order') /\ Elements(order') = Eligible
  BY <1>2, OrderFacts
<1>5. TypeOK'
  <2>1. budget' \in 0..TokenBudget /\ services' \in Seq(ServiceType) /\ stock' \in BOOLEAN
    BY <1>1, <1>2, <1>3, Sizes DEF TypeOK
  <2> QED
    BY <1>1, <1>3, <1>4, <2>1 DEF TypeOK, Ids
<1>6. PoolOK' /\ TableOK' /\ RefsOK' /\ \A i \in Requests : Completed(i)' <=> Completed(i)
  BY <1>3, SameState
<1>7. QueuesOK'
  BY <1>1, <1>3 DEF QueuesOK, Completed
<1>8. ProgressOK'
  BY <1>3 DEF Inductive, ProgressOK
<1>9. PlanOK'
  <2>1. ~Finished' /\ Eligible' = Eligible
    BY <1>3 DEF Finished, Completed, Eligible
  <2>2. Batch' = {} /\ DOMAIN services' = {}
    BY <1>3 DEF Batch
  <2>3. budget' + Cardinality(Batch') = TokenBudget
    BY <1>3, <2>2, Sizes, FS_EmptySet
  <2>4. IsInjectiveSeq(todo') /\ Elements(todo') \subseteq Elements(running')
    BY <1>1, <1>3 DEF QueuesOK
  <2> QED
    BY <1>3, <1>4, <2>1, <2>2, <2>3, <2>4 DEF PlanOK
<1>10. WorkOK'
  BY <1>3, SameWork
<1> QED
  BY <1>5, <1>6, <1>7, <1>8, <1>9, <1>10 DEF Inductive

(* One more service in the batch, of a request not in it yet.               *)
LEMMA ServiceAdded ==
  ASSUME PlanOK, phase = "plan", services \in Seq(ServiceType), budget \in 0..TokenBudget,
         NEW s \in ServiceType, s.count \in 1..budget,
         services' = Append(services, s), budget' = budget - s.count,
         \A k \in DOMAIN services : services[k].index # s.index
  PROVE  /\ services' \in Seq(ServiceType) /\ services' # <<>>
         /\ budget' \in 0..TokenBudget /\ budget' + Cardinality(Batch') = TokenBudget
         /\ \A k \in DOMAIN services' : \/ k \in DOMAIN services /\ services'[k] = services[k]
                                        \/ services'[k] = s
         /\ \A j, k \in DOMAIN services' : services'[j].index = services'[k].index => j = k
<1>1. /\ services' \in Seq(ServiceType) /\ Len(services) \in Nat
      /\ DOMAIN services' = DOMAIN services \cup {Len(services) + 1}
      /\ \A k \in DOMAIN services : services'[k] = services[k]
      /\ services'[Len(services) + 1] = s /\ services' # <<>>
  BY AppendFacts
<1>2. \A j, k \in DOMAIN services : services[j].index = services[k].index => j = k
  BY DEF PlanOK
<1>3. \A j, k \in DOMAIN services' : services'[j].index = services'[k].index => j = k
  <2> SUFFICES ASSUME NEW j \in DOMAIN services', NEW k \in DOMAIN services',
                      services'[j].index = services'[k].index
               PROVE  j = k
    OBVIOUS
  <2>1. CASE j \in DOMAIN services /\ k \in DOMAIN services
    BY <1>1, <1>2, <2>1
  <2>2. CASE j \in DOMAIN services /\ k \notin DOMAIN services
    BY <1>1, <2>2
  <2>3. CASE j \notin DOMAIN services /\ k \in DOMAIN services
    BY <1>1, <2>3
  <2>4. CASE j \notin DOMAIN services /\ k \notin DOMAIN services
    BY <1>1, <2>4
  <2> QED
    BY <2>1, <2>2, <2>3, <2>4
<1>4. Cardinality(Batch') = Cardinality(Batch) + s.count /\ Cardinality(Batch) \in Nat
  BY BatchAppend, BatchFinite
<1>5. budget + Cardinality(Batch) = TokenBudget /\ TokenBudget \in Nat
  BY Sizes DEF PlanOK
<1>6. budget' \in 0..TokenBudget /\ budget' + Cardinality(Batch') = TokenBudget
  BY <1>4, <1>5
<1> QED
  BY <1>1, <1>3, <1>6

LEMMA RunStep == Inductive /\ Run => Inductive'
<1> SUFFICES ASSUME Inductive, Run PROVE Inductive'
  OBVIOUS
<1>1. TypeOK /\ QueuesOK /\ PlanOK /\ ProgressOK
  BY DEF Inductive
<1>2. /\ phase = "plan" /\ todo # <<>> /\ budget # 0 /\ todo' = Tail(todo)
      /\ UNCHANGED <<time, progress, running, blocks, touchClock, nextBlockId>>
      /\ UNCHANGED <<phase, order, mode, events, stock>>
  BY DEF Run, Planned, state
<1>3. todo \in Seq(Requests) /\ IsInjectiveSeq(todo) /\ Elements(todo) \subseteq Elements(running)
  BY <1>1 DEF TypeOK, PlanOK
<1>4. PICK i \in Requests : i = Head(todo)
  BY <1>2, <1>3, HeadTailFacts
<1>5. /\ todo' \in Seq(Requests) /\ IsInjectiveSeq(todo')
      /\ Elements(todo') \subseteq Elements(todo) /\ i \in Elements(todo) /\ i \notin Elements(todo')
  BY <1>2, <1>3, <1>4, HeadTailFacts
<1> DEFINE d == progress[i].prefillDone
           s == Plan(i, d)
<1>6. services' = Append(services, s) /\ budget' = budget - s.count
  BY <1>4 DEF Run
<1>7. /\ s \in ServiceType /\ s.index = i /\ s.count \in 1..budget
      /\ IF s.kind = "prefill" THEN d + s.count <= Len(Prompt[i])
         ELSE d = Len(Prompt[i]) /\ s.count = 1
  <2>1. budget \in 1..TokenBudget
    <3>1. budget \in 0..TokenBudget /\ TokenBudget \in Nat
      BY <1>1, Sizes DEF TypeOK
    <3> QED
      BY <1>2, <3>1
  <2>2. d \in Nat /\ d <= Len(Prompt[i])
    BY <1>1, ProgressFacts DEF ProgressOK
  <2> HIDE DEF d
  <2> QED
    BY <2>1, <2>2, PlanFacts
<1>8. ServiceOK(s)
  BY <1>7 DEF ServiceOK
<1> HIDE DEF s, d
<1>9. /\ services' \in Seq(ServiceType) /\ services' # <<>>
      /\ budget' \in 0..TokenBudget /\ budget' + Cardinality(Batch') = TokenBudget
      /\ \A k \in DOMAIN services' : \/ k \in DOMAIN services /\ services'[k] = services[k]
                                     \/ services'[k] = s
      /\ \A j, k \in DOMAIN services' : services'[j].index = services'[k].index => j = k
  <2>1. \A k \in DOMAIN services : services[k].index # s.index
    BY <1>1, <1>2, <1>5, <1>7 DEF PlanOK
  <2>2. services \in Seq(ServiceType) /\ budget \in 0..TokenBudget
    BY <1>1 DEF TypeOK
  <2> QED
    BY <1>1, <1>2, <1>6, <1>7, <2>1, <2>2, ServiceAdded
<1>10. TypeOK'
  BY <1>1, <1>2, <1>5, <1>9 DEF TypeOK, Ids
<1>11. PoolOK' /\ TableOK' /\ RefsOK'
  BY <1>2, SameState
<1>12. QueuesOK'
  BY <1>1, <1>2 DEF QueuesOK, Completed
<1>13. ProgressOK'
  BY <1>1, <1>2 DEF ProgressOK
<1>14. PlanOK'
  <2>1. Finished' = Finished /\ Eligible' = Eligible
    BY <1>2 DEF Finished, Completed, Eligible
  <2>2. ASSUME NEW k \in DOMAIN services'
        PROVE  services'[k].index \in Elements(running) \ Elements(todo') /\ ServiceOK(services'[k])
    <3>1. CASE k \in DOMAIN services /\ services'[k] = services[k]
      BY <1>1, <1>2, <1>5, <3>1 DEF PlanOK
    <3>2. CASE services'[k] = s
      BY <1>3, <1>5, <1>7, <1>8, <3>2
    <3> QED
      BY <1>9, <3>1, <3>2
  <2>3. /\ IsInjectiveSeq(todo') /\ Elements(todo') \subseteq Elements(running')
        /\ \A k \in DOMAIN services' :
             services'[k].index \in Elements(running') \ Elements(todo')
    BY <1>2, <1>3, <1>5, <2>2
  <2>4. ~Finished /\ Elements(order) = Eligible /\ IsInjectiveSeq(order)
    BY <1>1, <1>2 DEF PlanOK
  <2> QED
    BY <1>2, <1>9, <2>1, <2>2, <2>3, <2>4 DEF PlanOK, ServiceOK
<1>15. WorkOK'
  BY <1>2, SameWork
<1> QED
  BY <1>10, <1>11, <1>12, <1>13, <1>14, <1>15 DEF Inductive

LEMMA FinishStep == Inductive /\ Finish => Inductive'
<1> SUFFICES ASSUME Inductive, Finish PROVE Inductive'
  OBVIOUS
<1>1. TypeOK /\ QueuesOK /\ PlanOK /\ WorkOK /\ ProgressOK
  BY DEF Inductive
<1>2. /\ phase = "leaving" /\ todo = <<>> /\ phase' \in {"choose", "pruned", "finished"}
      /\ events' = events + 1
      /\ UNCHANGED <<time, progress, running, blocks, touchClock, nextBlockId>>
      /\ UNCHANGED <<order, todo, budget, services, mode, stock>>
  BY DEF Finish, state, batch
<1>3. TypeOK'
  BY <1>1, <1>2 DEF TypeOK, Ids
<1>4. PoolOK' /\ TableOK' /\ RefsOK' /\ \A i \in Requests : Completed(i)' <=> Completed(i)
  BY <1>2, SameState
<1>5. QueuesOK'
  <2>1. Elements(todo) = {} /\ Elements(todo) = {i \in Elements(running) : Completed(i)}
    BY <1>1, <1>2 DEF PlanOK, Elements
  <2>2. \A i \in Elements(running) : ~Completed(i)'
    <3>1. Elements(running) \subseteq Requests
      BY <1>1, ListFacts DEF TypeOK
    <3> QED
      BY <1>4, <2>1, <3>1
  <2> QED
    BY <1>1, <1>2, <1>4, <2>2 DEF QueuesOK
<1>6. ProgressOK'
  BY <1>1, <1>2 DEF ProgressOK
<1>7. PlanOK'
  BY <1>1, <1>2 DEF PlanOK
<1>8. WorkOK'
  <2>1. events + 1 <= Cardinality(Done) + Cardinality(Arrived) /\ events \in Nat
    BY <1>1, <1>2 DEF WorkOK, TypeOK
  <2>2. Done' = Done /\ Arrived' = Arrived
    BY <1>2 DEF Done, Arrived
  <2>3. Cardinality(Done) + Cardinality(Arrived) \in Nat
    <3>1. DoneWithin
      BY <1>1, DoneFits
    <3> QED
      BY <3>1, Counts
  <2> QED
    BY <1>2, <2>1, <2>2, <2>3 DEF WorkOK
<1> QED
  BY <1>3, <1>4, <1>5, <1>6, <1>7, <1>8 DEF Inductive

LEMMA IdleStep == Inductive /\ Idle => Inductive'
<1> SUFFICES ASSUME Inductive, Idle PROVE Inductive'
  OBVIOUS
<1>1. TypeOK /\ QueuesOK /\ PlanOK /\ WorkOK /\ ProgressOK
  BY DEF Inductive
<1>2. /\ phase = "plan" /\ services = <<>> /\ running = <<>> /\ Future # {}
      /\ time' = Min(Future) /\ phase' = "leaving"
      /\ order' = <<>> /\ todo' = <<>> /\ budget' = 0
      /\ UNCHANGED <<progress, running, blocks, touchClock, nextBlockId>>
      /\ UNCHANGED <<services, mode, events, stock>>
  BY DEF Idle, Planned
<1>3. PICK i \in Requests : progress[i].admittedAt = None /\ Arrival[i] > time /\ time' = Arrival[i]
  <2>1. Future \in SUBSET Nat
    BY Demands DEF Future
  <2>2. time' \in Future
    BY <1>2, <2>1, MinFacts
  <2> QED
    BY <2>2 DEF Future
<1>4. time \in Nat /\ time' \in Nat /\ time' >= time
  <2>1. time \in Nat
    BY <1>1 DEF TypeOK
  <2>2. Arrival[i] \in Nat
    BY Demands
  <2> QED
    BY <1>3, <2>1, <2>2
<1>5. TypeOK'
  <2>1. phase' \in {"choose", "plan", "leaving", "pruned", "finished"} /\ budget' \in 0..TokenBudget
    BY <1>2, Sizes
  <2>2. order' \in Seq(Requests) /\ todo' \in Seq(Requests) /\ services' \in Seq(ServiceType)
    BY <1>2
  <2> QED
    BY <1>1, <1>2, <1>4, <2>1, <2>2 DEF TypeOK, Ids
<1>6. /\ PoolOK' /\ TableOK' /\ RefsOK'
      /\ \A j \in Requests : /\ Units(j)' = Units(j) /\ Units(j) \in Nat
                             /\ Completed(j)' <=> Completed(j)
  BY <1>2, SameState
<1>7. QueuesOK'
  BY <1>1, <1>2 DEF QueuesOK, Completed, Elements
<1>8. ProgressOK' /\ DoneWithin'
  BY <1>2, <1>4, SameProgress
<1>9. PlanOK'
  BY <1>2 DEF PlanOK, Elements, IsInjectiveSeq
<1>10. WorkOK'
  <2>1. Arrival[i] <= time'
    BY <1>3, <1>4
  <2>2. \A j \in Requests : Units(j) \in Nat /\ Units(j)' \in Nat /\ Units(j)' >= Units(j)
    BY <1>6
  <2>3. events \in Nat
    BY <1>1 DEF TypeOK
  <2> QED
    BY <1>1, <1>2, <1>3, <1>4, <1>8, <2>1, <2>2, <2>3, WorkKept
<1> QED
  BY <1>5, <1>6, <1>7, <1>8, <1>9, <1>10 DEF Inductive

-----------------------------------------------------------------------------
(* Serve *)

(* The batch leaves of a request what it was, further on.                   *)
LEMMA ServeProgress ==
  ASSUME Inductive, Serve, NEW i \in Requests
  PROVE  /\ progress'[i] = [progress[i] EXCEPT !.prefillDone = Prefilled(i), !.outputTimes = Outputs(i)]
         /\ progress'[i] \in ProgressType
         /\ progress'[i].prefillDone = Prefilled(i) /\ progress'[i].outputTimes = Outputs(i)
         /\ progress'[i].blockIds = progress[i].blockIds
         /\ progress'[i].admittedAt = progress[i].admittedAt
         /\ i \notin Elements(running) => progress'[i] = progress[i]
<1>1. TypeOK /\ phase = "plan"
  BY DEF Inductive, Serve, Planned
<1>2. progress'[i] = [progress[i] EXCEPT !.prefillDone = Prefilled(i), !.outputTimes = Outputs(i)]
  BY DEF Serve
<1>3. progress[i] \in ProgressType
  BY <1>1, ProgressFacts
<1>4. Prefilled(i) \in Nat /\ Outputs(i) \in Seq(Nat)
  BY <1>1, AdvanceFacts, ComputedFacts
<1>5. progress[i] = [admittedAt |-> progress[i].admittedAt, prefillDone |-> progress[i].prefillDone,
                     blockIds |-> progress[i].blockIds, outputTimes |-> progress[i].outputTimes]
  BY <1>3 DEF ProgressType
<1>6. progress'[i] = [admittedAt |-> progress[i].admittedAt, prefillDone |-> Prefilled(i),
                      blockIds |-> progress[i].blockIds, outputTimes |-> Outputs(i)]
  BY <1>2, <1>5
<1>7. progress'[i] \in ProgressType
  BY <1>3, <1>4, <1>6 DEF ProgressType
<1>8. ASSUME i \notin Elements(running) PROVE progress'[i] = progress[i]
  <2>1. Prefilled(i) = progress[i].prefillDone /\ Outputs(i) = progress[i].outputTimes
    BY <1>1, <1>8, AdvanceFacts
  <2> QED
    BY <1>5, <1>6, <2>1
<1> QED
  BY <1>2, <1>6, <1>7, <1>8

(* And of a place of its table what is written there then.                  *)
LEMMA ServeCell ==
  ASSUME Inductive, Serve, NEW i \in Elements(running), NEW n \in DOMAIN progress[i].blockIds
  PROVE  LET b == progress[i].blockIds[n]
         IN blocks'[b].computed = Written(i, n)' /\ blocks'[b].identity = Identity(i, n)'
<1> DEFINE b == progress[i].blockIds[n]
           answers == UNION {Content(b, j, Answered(j)) : j \in Requests}
           computes == \E j \in Requests : Content(b, j, Computed(j)) # {}
<1>1. TypeOK /\ TableOK /\ phase = "plan" /\ i \in Requests
  <2>1. running \in Seq(Requests)
    BY DEF Inductive, TypeOK
  <2> QED
    BY <2>1, ListFacts DEF Inductive, Serve, Planned
<1>2. /\ b \in Ids /\ blocks[b].computed = Written(i, n) /\ blocks[b].identity = Identity(i, n)
  BY <1>1 DEF TableOK
<1>3. blocks'[b] = [blocks[b] EXCEPT !.computed = @ \/ computes,
                      !.identity = IF answers = {} THEN @ ELSE CHOOSE identity \in answers : TRUE]
  BY <1>2 DEF Serve
<1>4. blocks[b] \in BlockType
  BY <1>1, <1>2 DEF TypeOK
<1> HIDE DEF answers, computes
<1>5. /\ blocks'[b].computed = (blocks[b].computed \/ computes)
      /\ blocks'[b].identity = IF answers = {} THEN blocks[b].identity
                               ELSE CHOOSE identity \in answers : TRUE
  BY <1>3, <1>4 DEF BlockType
<1>6. n \in Nat /\ n > 0
  <2>1. progress[i].blockIds \in Seq(Nat)
    BY <1>1, ProgressFacts
  <2> QED
    BY <2>1
<1>7. ASSUME NEW j \in Requests, NEW m \in Computed(j), progress[j].blockIds[m] = b
      PROVE  j = i /\ m = n /\ ~Written(i, n)
  BY <1>1, <1>7, CellFacts
<1>8. computes <=> n \in Computed(i)
  <2>1. ASSUME computes PROVE n \in Computed(i)
    <3>1. PICK j \in Requests : Content(b, j, Computed(j)) # {}
      BY <2>1 DEF computes
    <3>2. PICK m \in Computed(j) : progress[j].blockIds[m] = b
      BY <3>1 DEF Content
    <3> QED
      BY <1>7, <3>2
  <2>2. ASSUME n \in Computed(i) PROVE computes
    <3>1. SubSeq(Tokens(i), 1, n) \in Content(b, i, Computed(i))
      BY <2>2 DEF Content
    <3> QED
      BY <1>1, <3>1 DEF computes
  <2> QED
    BY <2>1, <2>2
<1>9. /\ \A x \in answers : x = SubSeq(Tokens(i), 1, n) /\ n \in Answered(i)
      /\ n \in Answered(i) => SubSeq(Tokens(i), 1, n) \in answers
  <2>1. ASSUME NEW x \in answers PROVE x = SubSeq(Tokens(i), 1, n) /\ n \in Answered(i)
    <3>1. PICK j \in Requests : x \in Content(b, j, Answered(j))
      BY <2>1 DEF answers
    <3>2. PICK m \in Answered(j) : progress[j].blockIds[m] = b /\ x = SubSeq(Tokens(j), 1, m)
      BY <3>1 DEF Content
    <3>3. m \in Computed(j)
      BY <1>1, <3>2, ComputedFacts
    <3> QED
      BY <1>7, <3>2, <3>3
  <2>2. ASSUME n \in Answered(i) PROVE SubSeq(Tokens(i), 1, n) \in answers
    <3>1. SubSeq(Tokens(i), 1, n) \in Content(b, i, Answered(i))
      BY <2>2 DEF Content
    <3> QED
      BY <1>1, <3>1 DEF answers
  <2> QED
    BY <2>1, <2>2
<1>10. Written(i, n)' <=> (Written(i, n) \/ n \in Computed(i))
  <2>1. /\ progress'[i].prefillDone = Prefilled(i)
        /\ Made(i)' = Len(Prompt[i]) + Len(Outputs(i))
    BY <1>1, ServeProgress DEF Made
  <2>2. Written(i, n)' <=> (n <= Prefilled(i) \/ n \in (Len(Prompt[i]) + 1)..(Len(Prompt[i]) + Len(Outputs(i))))
    BY <2>1 DEF Written
  <2> QED
    BY <1>1, <1>6, <2>2, ComputedFacts
<1>11. blocks'[b].computed = Written(i, n)'
  <2>1. Written(i, n)' = (Written(i, n) \/ n \in Computed(i))
    BY <1>10 DEF Written
  <2> QED
    BY <1>2, <1>5, <1>8, <2>1
<1>12. CASE n \in Answered(i)
  <2>1. answers = {SubSeq(Tokens(i), 1, n)}
    BY <1>9, <1>12
  <2>2. blocks'[b].identity = SubSeq(Tokens(i), 1, n)
    BY <1>5, <2>1
  <2>3. Written(i, n)'
    BY <1>1, <1>10, <1>12, ComputedFacts
  <2> QED
    BY <1>11, <2>2, <2>3 DEF Identity
<1>13. CASE n \notin Answered(i)
  <2>1. answers = {}
    BY <1>9, <1>13
  <2>2. blocks'[b].identity = Identity(i, n)
    BY <1>2, <1>5, <2>1
  <2>3. n \in Computed(i) => n <= Len(Prompt[i])
    BY <1>1, <1>6, <1>13, ComputedFacts
  <2>4. (Written(i, n) \/ n <= Len(Prompt[i])) <=> (Written(i, n)' \/ n <= Len(Prompt[i]))
    BY <1>10, <2>3
  <2>5. Identity(i, n)' = Identity(i, n)
    BY <2>4 DEF Identity
  <2> QED
    BY <1>11, <2>2, <2>5
<1> QED
  BY <1>12, <1>13

LEMMA ServeStep == Inductive /\ Serve => Inductive'
<1> SUFFICES ASSUME Inductive, Serve PROVE Inductive'
  OBVIOUS
<1>1. /\ TypeOK /\ PoolOK /\ QueuesOK /\ ProgressOK /\ TableOK /\ RefsOK /\ PlanOK /\ WorkOK
  BY DEF Inductive
<1>2. /\ phase = "plan" /\ services # <<>> /\ time' = time + Duration /\ phase' = "leaving"
      /\ todo' = Sublist(running, {i \in Requests : Completed(i)'})
      /\ order' = <<>> /\ budget' = 0 /\ services' = <<>>
      /\ UNCHANGED <<running, touchClock, nextBlockId, mode, events, stock>>
  BY DEF Serve, Planned
<1>3. running \in Seq(Requests) /\ services \in Seq(ServiceType) /\ Elements(running) \subseteq Requests
  <2>1. running \in Seq(Requests) /\ services \in Seq(ServiceType)
    BY <1>1 DEF TypeOK
  <2> QED
    BY <2>1, ListFacts
<1>4. time \in Nat /\ time' \in Nat /\ time' > time
  <2>1. Duration \in Nat \ {0} /\ time \in Nat
    BY <1>1, <1>2, <1>3, DurationFacts DEF TypeOK
  <2> QED
    BY <1>2, <2>1
<1>5. ASSUME NEW i \in Requests
      PROVE  /\ progress'[i] \in ProgressType
             /\ progress'[i].prefillDone = Prefilled(i) /\ progress'[i].outputTimes = Outputs(i)
             /\ progress'[i].blockIds = progress[i].blockIds
             /\ progress'[i].admittedAt = progress[i].admittedAt
             /\ i \notin Elements(running) => progress'[i] = progress[i]
  BY ServeProgress
<1>6. progress' \in [Requests -> ProgressType]
  <2>1. DOMAIN progress' = Requests /\ progress' = [i \in Requests |-> progress'[i]]
    BY DEF Serve
  <2> QED
    BY <1>5, <2>1
<1>7. ASSUME NEW b \in Ids
      PROVE  /\ blocks'[b] \in BlockType
             /\ blocks'[b].refs = blocks[b].refs /\ blocks'[b].touched = blocks[b].touched
             /\ blocks[b].computed => blocks'[b].computed
  <2> DEFINE answers == UNION {Content(b, j, Answered(j)) : j \in Requests}
             computes == \E j \in Requests : Content(b, j, Computed(j)) # {}
  <2>1. blocks'[b] = [blocks[b] EXCEPT !.computed = @ \/ computes,
                        !.identity = IF answers = {} THEN @ ELSE CHOOSE identity \in answers : TRUE]
    BY DEF Serve
  <2>2. answers \subseteq Seq(Int)
    <3> SUFFICES ASSUME NEW x \in answers PROVE x \in Seq(Int)
      OBVIOUS
    <3>1. PICK j \in Requests : x \in Content(b, j, Answered(j))
      OBVIOUS
    <3>2. PICK m \in Answered(j) : x = SubSeq(Tokens(j), 1, m)
      BY <3>1 DEF Content
    <3>3. m \in 1..Len(Tokens(j))
      BY <1>2, <3>2, ComputedFacts
    <3> QED
      BY <3>2, <3>3, PrefixFacts
  <2>3. blocks[b] \in BlockType
    BY <1>1 DEF TypeOK
  <2>4. (IF answers = {} THEN blocks[b].identity ELSE CHOOSE identity \in answers : TRUE)
          \in Seq(Int) \cup {None}
    <3> HIDE DEF answers
    <3>1. answers # {} => (CHOOSE identity \in answers : TRUE) \in answers
      OBVIOUS
    <3>2. blocks[b].identity \in Seq(Int) \cup {None}
      BY <2>3 DEF BlockType
    <3> QED
      BY <2>2, <3>1, <3>2
  <2> HIDE DEF answers, computes
  <2>5. /\ blocks'[b].computed = (blocks[b].computed \/ computes)
        /\ blocks'[b].identity = IF answers = {} THEN blocks[b].identity
                                 ELSE CHOOSE identity \in answers : TRUE
        /\ blocks'[b].refs = blocks[b].refs /\ blocks'[b].touched = blocks[b].touched
        /\ DOMAIN blocks'[b] = {"identity", "computed", "refs", "touched"}
    BY <2>1, <2>3 DEF BlockType
  <2>6. blocks'[b] = [identity |-> blocks'[b].identity, computed |-> blocks'[b].computed,
                      refs |-> blocks[b].refs, touched |-> blocks[b].touched]
    BY <2>1, <2>3, <2>5 DEF BlockType
  <2>7. blocks'[b].computed \in BOOLEAN
    BY <2>5
  <2>8. blocks[b].refs \in SUBSET Requests /\ blocks[b].touched \in Nat
    BY <2>3 DEF BlockType
  <2>9. blocks'[b].identity \in Seq(Int) \cup {None}
    BY <2>4, <2>5
  <2>10. blocks'[b] \in BlockType
    BY <2>6, <2>7, <2>8, <2>9 DEF BlockType
  <2> QED
    BY <2>5, <2>10
<1>8. Ids' = Ids /\ blocks' \in [Ids -> BlockType]
  <2>1. DOMAIN blocks' = Ids /\ blocks' = [b \in Ids |-> blocks'[b]]
    BY DEF Serve
  <2> QED
    BY <1>7, <2>1 DEF Ids
<1>9. /\ todo' \in Seq(Requests) /\ IsInjectiveSeq(todo')
      /\ Elements(todo') = {i \in Elements(running) : Completed(i)'}
  <2>1. Elements(todo') = Elements(running) \cap {i \in Requests : Completed(i)'}
    BY <1>2, <1>3, SublistElements
  <2>2. todo' \in Seq(Requests) /\ IsInjectiveSeq(todo')
    BY <1>1, <1>2, <1>3, SublistType, SublistInjective DEF QueuesOK
  <2> QED
    BY <1>3, <2>1, <2>2
<1>10. TypeOK'
  <2>1. order' \in Seq(Requests) /\ services' \in Seq(ServiceType) /\ budget' \in 0..TokenBudget
    BY <1>2, Sizes
  <2>2. IsFiniteSet(Ids') /\ Ids' \subseteq Nat /\ blocks' \in [Ids' -> BlockType]
    BY <1>1, <1>8 DEF TypeOK
  <2> QED
    BY <1>1, <1>2, <1>4, <1>6, <1>9, <2>1, <2>2 DEF TypeOK
<1>11. PoolOK'
  BY <1>1, <1>2, <1>7, <1>8 DEF PoolOK
<1>12. QueuesOK'
  <2>1. ASSUME NEW i \in Requests, progress'[i].admittedAt = None PROVE progress'[i] = NoProgress
    <3>1. progress[i].admittedAt = None
      BY <1>5, <2>1
    <3>2. progress[i] = NoProgress /\ i \notin Elements(running)
      BY <1>1, <3>1 DEF QueuesOK
    <3> QED
      BY <1>5, <3>2
  <2>2. \A i \in Elements(running) : progress'[i].admittedAt # None
    BY <1>1, <1>3, <1>5 DEF QueuesOK
  <2>3. ASSUME NEW i \in Requests, progress'[i].admittedAt # None
        PROVE  /\ Arrival[i] <= progress'[i].admittedAt
               /\ Completed(i)' \/ i \in Elements(running)
    <3>1. /\ progress[i].admittedAt # None /\ Arrival[i] <= progress[i].admittedAt
          /\ Completed(i) \/ i \in Elements(running)
      BY <1>1, <1>5, <2>3 DEF QueuesOK
    <3>2. CASE i \notin Elements(running)
      BY <1>5, <3>1, <3>2 DEF Completed
    <3> QED
      BY <1>5, <3>1, <3>2
  <2>4. IsInjectiveSeq(running') /\ Len(running') <= MaxSequences /\ running' = running
    BY <1>1, <1>2 DEF QueuesOK
  <2> QED
    BY <1>2, <2>1, <2>2, <2>3, <2>4 DEF QueuesOK
<1>13. ASSUME NEW i \in Requests
       PROVE  /\ Prefilled(i) <= Len(Prompt[i]) /\ Len(Outputs(i)) <= Len(Output[i])
              /\ Outputs(i) # <<>> => Prefilled(i) = Len(Prompt[i])
              /\ \A k \in 1..(Len(Outputs(i)) - 1) : Outputs(i)[k] < Outputs(i)[k + 1]
              /\ \A k \in DOMAIN Outputs(i) : Outputs(i)[k] <= time'
  <2> DEFINE o == progress[i].outputTimes
             d == progress[i].prefillDone
  <2>1. o \in Seq(Nat) /\ Len(o) \in Nat /\ d \in Nat /\ DOMAIN o = 1..Len(o)
    <3>1. o \in Seq(Nat) /\ d \in Nat
      BY <1>1, ProgressFacts
    <3> QED
      BY <3>1
  <2>2. /\ o # <<>> => d = Len(Prompt[i])
        /\ \A k \in 1..(Len(o) - 1) : o[k] < o[k + 1]
        /\ \A k \in DOMAIN o : o[k] <= time
    BY <1>1 DEF ProgressOK
  <2>3. Prefilled(i) <= Len(Prompt[i]) /\ Len(Outputs(i)) <= Len(Output[i])
    BY <1>2, ComputedFacts
  <2>4. \/ Prefilled(i) = d /\ Outputs(i) = o
        \/ Prefilled(i) > d /\ Prefilled(i) <= Len(Prompt[i]) /\ Outputs(i) = o
        \/ Prefilled(i) = d /\ d = Len(Prompt[i]) /\ Outputs(i) = Append(o, time')
    BY <1>2, AdvanceFacts
  <2>5. Prefilled(i) > d /\ Prefilled(i) <= Len(Prompt[i]) => d # Len(Prompt[i])
    <3>1. Len(Prompt[i]) \in Nat /\ Prefilled(i) \in Nat
      BY <1>2, AdvanceFacts, Demands
    <3> HIDE DEF d
    <3> QED
      BY <2>1, <3>1
  <2> HIDE DEF o, d
  <2>6. \A k \in DOMAIN o : o[k] \in Nat /\ o[k] <= time'
    <3>1. \A k \in DOMAIN o : o[k] \in Nat
      BY <2>1
    <3> QED
      BY <1>4, <2>2, <3>1
  <2>7. CASE Outputs(i) = o
    BY <2>2, <2>3, <2>4, <2>5, <2>6, <2>7
  <2>8. CASE Prefilled(i) = d /\ d = Len(Prompt[i]) /\ Outputs(i) = Append(o, time')
    <3> DEFINE u == Append(o, time')
    <3>1. /\ Len(u) = Len(o) + 1 /\ DOMAIN u = 1..(Len(o) + 1)
          /\ \A k \in 1..Len(o) : u[k] = o[k]
          /\ u[Len(o) + 1] = time'
      BY <1>4, <2>1
    <3> HIDE DEF u
    <3>2. \A k \in 1..(Len(u) - 1) : u[k] < u[k + 1]
      <4> SUFFICES ASSUME NEW k \in 1..Len(o) PROVE u[k] < u[k + 1]
        BY <2>1, <3>1
      <4>1. CASE k = Len(o)
        <5>1. o[k] \in Nat /\ o[k] <= time
          BY Zenon, <2>1, <2>2, <2>6
        <5> QED
          BY <1>4, <3>1, <4>1, <5>1
      <4>2. CASE k # Len(o)
        <5>1. k \in 1..(Len(o) - 1) /\ k + 1 \in 1..Len(o)
          <6> DEFINE z == Len(o)
          <6>1. z \in Nat /\ k \in 1..z /\ k # z
            BY Zenon, <2>1, <4>2
          <6> HIDE DEF z
          <6>2. k \in 1..(z - 1) /\ k + 1 \in 1..z
            BY <6>1
          <6> QED
            BY <6>2 DEF z
        <5> QED
          BY <2>2, <3>1, <5>1
      <4> QED
        BY <4>1, <4>2
    <3>3. \A k \in DOMAIN u : u[k] <= time'
      <4> SUFFICES ASSUME NEW k \in 1..(Len(o) + 1) PROVE u[k] <= time'
        BY <3>1
      <4>1. CASE k = Len(o) + 1
        BY <1>4, <3>1, <4>1
      <4>2. CASE k # Len(o) + 1
        <5>1. k \in 1..Len(o)
          BY <2>1, <4>2
        <5> QED
          BY <2>1, <2>6, <3>1, <5>1
      <4> QED
        BY <4>1, <4>2
    <3> QED
      BY <2>3, <2>8, <3>2, <3>3 DEF u
  <2> QED
    BY <2>4, <2>7, <2>8
<1>14. ProgressOK'
  BY <1>5, <1>13 DEF ProgressOK
<1>15. TableOK'
  <2>1. ASSUME NEW i \in Elements(running)
        PROVE  /\ Len(progress[i].blockIds) = Len(Tokens(i)) /\ IsInjectiveSeq(progress[i].blockIds)
               /\ progress'[i].blockIds = progress[i].blockIds
    BY <1>1, <1>3, <1>5 DEF TableOK
  <2>2. ASSUME NEW i \in Elements(running), NEW n \in DOMAIN progress[i].blockIds
        PROVE  LET b == progress[i].blockIds[n]
               IN /\ b \in Ids /\ i \in blocks'[b].refs
                  /\ blocks'[b].computed = Written(i, n)' /\ blocks'[b].identity = Identity(i, n)'
    <3>1. progress[i].blockIds[n] \in Ids /\ i \in blocks[progress[i].blockIds[n]].refs
      BY <1>1 DEF TableOK
    <3> QED
      BY <1>7, <3>1, ServeCell
  <2> QED
    BY <1>2, <1>8, <2>1, <2>2 DEF TableOK
<1>16. RefsOK'
  <2>1. ASSUME NEW b \in Ids
        PROVE  /\ \A i \in blocks'[b].refs :
                    i \in Elements(running) /\ b \in Elements(progress'[i].blockIds)
               /\ ~blocks'[b].computed => \E i \in Requests : blocks'[b].refs = {i}
    <3>1. \A i \in blocks[b].refs : i \in Elements(running) /\ b \in Elements(progress[i].blockIds)
      BY <1>1 DEF RefsOK
    <3>2. ~blocks[b].computed => \E i \in Requests : blocks[b].refs = {i}
      BY <1>1 DEF RefsOK
    <3>3. \A i \in Elements(running) : progress'[i].blockIds = progress[i].blockIds
      BY <1>3, <1>5
    <3> QED
      BY <1>7, <3>1, <3>2, <3>3
  <2> QED
    BY <1>2, <1>8, <2>1 DEF RefsOK
<1>17. PlanOK'
  <2>1. Elements(todo') \subseteq Elements(running') /\ running' = running
    BY <1>2, <1>9
  <2> QED
    BY <1>2, <1>9, <2>1 DEF PlanOK
<1>18. WorkOK'
  <2>1. ASSUME NEW i \in Requests
        PROVE  /\ Units(i) \in Nat /\ Units(i)' \in Nat /\ Units(i)' >= Units(i)
               /\ \A k \in DOMAIN services : services[k].index = i => Units(i)' > Units(i)
    <3> DEFINE o == progress[i].outputTimes
               d == progress[i].prefillDone
               e == Prefilled(i)
               m == Len(o)
               v == Len(Outputs(i))
    <3>1. o \in Seq(Nat) /\ m \in Nat /\ d \in Nat /\ e \in Nat
      BY <1>1, <1>2, ProgressFacts, AdvanceFacts
    <3>2. Units(i) = d + m /\ Units(i)' = e + v
      BY <1>5 DEF Units
    <3>3. \/ e >= d /\ v = m /\ Outputs(i) = o
          \/ e = d /\ v = m + 1
      <4>1. \/ e = d /\ Outputs(i) = o
            \/ e > d /\ Outputs(i) = o
            \/ e = d /\ Outputs(i) = Append(o, time')
        BY <1>2, AdvanceFacts
      <4>2. Outputs(i) = o => v = m
        OBVIOUS
      <4>3. Outputs(i) = Append(o, time') => v = m + 1
        <5> HIDE DEF o
        <5> QED
          BY <1>4, <3>1
      <4> HIDE DEF e, d, v, m, o
      <4> QED
        BY <3>1, <4>1, <4>2, <4>3
    <3>4. \A k \in DOMAIN services : services[k].index = i => e > d \/ Outputs(i) # o
      BY <1>2, AdvanceFacts
    <3> HIDE DEF e, d, v, m, o
    <3> QED
      BY <3>1, <3>2, <3>3, <3>4
  <2>2. \E i \in Requests : Units(i)' > Units(i)
    <3>1. 1 \in DOMAIN services /\ services[1] \in ServiceType
      BY <1>2, <1>3
    <3>2. services[1].index \in Requests
      BY <3>1 DEF ServiceType
    <3> QED
      BY <2>1, <3>1, <3>2
  <2>3. DoneWithin'
    <3>1. TypeOK' /\ ProgressOK' => DoneWithin'
      BY DoneFits, PTL
    <3> QED
      BY <1>10, <1>14, <3>1
  <2>4. events \in Nat
    BY <1>1 DEF TypeOK
  <2>5. \A i \in Requests : Units(i) \in Nat /\ Units(i)' \in Nat /\ Units(i)' >= Units(i)
    BY <2>1
  <2>6. time' >= time
    BY <1>4
  <2> QED
    BY <1>1, <1>2, <1>4, <2>2, <2>3, <2>4, <2>5, <2>6, WorkKept
<1> QED
  BY <1>10, <1>11, <1>12, <1>14, <1>15, <1>16, <1>17, <1>18 DEF Inductive

-----------------------------------------------------------------------------
(* Leave *)

(* Blocks touched one after another, later than any other.                  *)
LEMMA Touched ==
  ASSUME NEW S, NEW H, NEW t, NEW u, NEW p, NEW c \in Nat, NEW k \in Nat,
         \A b \in S \ H : t[b] \in Nat /\ t[b] <= c,
         \A b, d \in S \ H : t[b] = t[d] => b = d,
         \A b \in H : p[b] \in 1..k,
         \A b, d \in H : p[b] = p[d] => b = d,
         \A b \in S : u[b] = IF b \in H THEN c + p[b] ELSE t[b]
  PROVE  /\ \A b \in S : u[b] <= c + k
         /\ \A b, d \in S : u[b] = u[d] => b = d
<1>1. ASSUME NEW b \in S PROVE u[b] <= c + k
  BY <1>1
<1>2. ASSUME NEW b \in S, NEW d \in S, u[b] = u[d] PROVE b = d
  <2>1. CASE b \in H /\ d \in H
    BY <1>2, <2>1
  <2>2. CASE b \in H /\ d \notin H
    BY <1>2, <2>2
  <2>3. CASE b \notin H /\ d \in H
    BY <1>2, <2>3
  <2>4. CASE b \notin H /\ d \notin H
    BY <1>2, <2>4
  <2> QED
    BY <2>1, <2>2, <2>3, <2>4
<1> QED
  BY <1>1, <1>2

LEMMA LeaveStep == Inductive /\ Leave => Inductive'
<1> SUFFICES ASSUME Inductive, Leave PROVE Inductive'
  OBVIOUS
<1>1. /\ TypeOK /\ PoolOK /\ QueuesOK /\ ProgressOK /\ TableOK /\ RefsOK /\ PlanOK /\ WorkOK
  BY DEF Inductive
<1>2. /\ phase = "leaving" /\ todo # <<>> /\ todo' = Tail(todo)
      /\ UNCHANGED <<time, progress, nextBlockId, phase, order, budget, services, mode, events, stock>>
  BY DEF Leave
<1>3. todo \in Seq(Requests) /\ running \in Seq(Requests) /\ IsInjectiveSeq(todo) /\ IsInjectiveSeq(running)
  BY <1>1 DEF TypeOK, PlanOK, QueuesOK
<1> DEFINE i == Head(todo)
           ids == progress[i].blockIds
           place(b) == CHOOSE n \in DOMAIN ids : ids[n] = b
<1>4. /\ running' = Without(running, i) /\ touchClock' = touchClock + Len(ids)
  BY DEF Leave
<1>5. blocks' = [b \in Ids |->
           IF b \in Elements(ids)
             THEN [blocks[b] EXCEPT !.refs = @ \ {i}, !.touched = touchClock + place(b)]
           ELSE blocks[b]]
  BY DEF Leave
<1>6. /\ todo' \in Seq(Requests) /\ IsInjectiveSeq(todo') /\ i \in Requests
      /\ Elements(todo) = {i} \cup Elements(todo') /\ i \notin Elements(todo')
  BY <1>2, <1>3, HeadTailFacts
<1> HIDE DEF i
<1>7. /\ running' \in Seq(Requests) /\ IsInjectiveSeq(running')
      /\ Elements(running') = Elements(running) \ {i} /\ Len(running') <= Len(running)
  <2>1. /\ Without(running, i) \in Seq(Requests) /\ IsInjectiveSeq(Without(running, i))
        /\ Elements(Without(running, i)) = Elements(running) \ {i}
    BY <1>3, WithoutFacts
  <2> DEFINE r == Without(running, i)
  <2> HIDE DEF r
  <2>2. r \in Seq(Requests) /\ IsInjectiveSeq(r) /\ Elements(r) = Elements(running) \ {i}
    BY <2>1 DEF r
  <2>3. /\ Cardinality(Elements(r)) = Len(r)
        /\ IsFiniteSet(Elements(running)) /\ Cardinality(Elements(running)) = Len(running)
    BY <1>3, <2>2, InjectiveCardinality
  <2>4. Cardinality(Elements(r)) <= Cardinality(Elements(running))
    BY <2>2, <2>3, FS_Subset
  <2> QED
    BY <1>4, <2>2, <2>3, <2>4 DEF r
<1>8. /\ Elements(running) \subseteq Requests /\ i \in Elements(running) /\ Completed(i)
      /\ services = <<>>
  <2>1. Elements(todo) = {j \in Elements(running) : Completed(j)} /\ services = <<>>
    BY <1>1, <1>2 DEF PlanOK
  <2> QED
    BY <1>3, <1>6, <2>1, ListFacts
<1>9. ids \in Seq(Nat) /\ Len(ids) \in Nat /\ DOMAIN ids = 1..Len(ids) /\ IsInjectiveSeq(ids)
  <2>1. ids \in Seq(Nat) /\ IsInjectiveSeq(ids)
    BY <1>1, <1>8, ProgressFacts DEF TableOK
  <2> HIDE DEF ids
  <2> QED
    BY <2>1
<1>10. ASSUME NEW b \in Elements(ids)
       PROVE  place(b) \in 1..Len(ids) /\ place(b) \in Nat /\ place(b) > 0 /\ ids[place(b)] = b
  <2> HIDE DEF ids
  <2>1. \E n \in DOMAIN ids : ids[n] = b
    BY DEF Elements
  <2>2. place(b) \in DOMAIN ids /\ ids[place(b)] = b
    BY <2>1
  <2> HIDE DEF place
  <2> QED
    BY <1>9, <2>2
<1>11. ASSUME NEW b \in Elements(ids) PROVE b \in Ids /\ blocks[b].computed
  <2>1. PICK n \in DOMAIN ids : b = ids[n]
    BY DEF Elements
  <2>2. b \in Ids /\ blocks[b].computed = Written(i, n) /\ Len(ids) = Len(Tokens(i))
    BY <1>1, <1>8, <2>1 DEF TableOK
  <2>3. Written(i, n)
    <3> DEFINE l == Len(Prompt[i])
               k == Len(Output[i])
               o == progress[i].outputTimes
               d == progress[i].prefillDone
    <3>1. l \in Nat /\ k \in Nat \ {0} /\ Len(Tokens(i)) = l + k
      BY <1>6, Demands
    <3>2. o \in Seq(Nat) /\ Len(o) = k /\ Made(i) = l + Len(o)
      BY <1>1, <1>8, ProgressFacts DEF Completed
    <3>3. o # <<>> => d = l
      BY <1>1, <1>6 DEF ProgressOK
    <3>4. n \in 1..(l + k)
      BY <1>9, <2>1, <2>2, <3>1
    <3>5. Written(i, n) <=> (n <= d \/ n \in (l + 1)..(l + k))
      BY <3>2 DEF Written
    <3> HIDE DEF l, k, d, o
    <3>6. o # <<>>
      BY <3>1, <3>2
    <3> QED
      BY <3>1, <3>3, <3>4, <3>5, <3>6
  <2> QED
    BY <2>2, <2>3
<1> HIDE DEF ids, place
<1>12. ASSUME NEW b \in Ids
       PROVE  /\ blocks'[b] \in BlockType
              /\ blocks'[b].identity = blocks[b].identity /\ blocks'[b].computed = blocks[b].computed
              /\ blocks'[b].refs = IF b \in Elements(ids) THEN blocks[b].refs \ {i} ELSE blocks[b].refs
              /\ blocks'[b].touched = IF b \in Elements(ids) THEN touchClock + place(b)
                                      ELSE blocks[b].touched
  <2>1. blocks[b] \in BlockType /\ touchClock \in Nat
    BY <1>1 DEF TypeOK
  <2>2. CASE b \in Elements(ids)
    <3>1. blocks'[b] = [blocks[b] EXCEPT !.refs = @ \ {i}, !.touched = touchClock + place(b)]
      BY <1>5, <2>2
    <3>2. touchClock + place(b) \in Nat
      BY <1>10, <2>1, <2>2
    <3> DEFINE t == touchClock + place(b)
    <3> HIDE DEF t
    <3>3. blocks'[b] = [blocks[b] EXCEPT !.refs = @ \ {i}, !.touched = t] /\ t \in Nat
      BY <3>1, <3>2 DEF t
    <3> QED
      BY <2>1, <2>2, <3>3 DEF BlockType, t
  <2>3. CASE b \notin Elements(ids)
    BY <1>5, <2>1, <2>3
  <2> QED
    BY <2>2, <2>3
<1>13. Ids' = Ids /\ blocks' \in [Ids -> BlockType]
  <2>1. DOMAIN blocks' = Ids /\ blocks' = [b \in Ids |-> blocks'[b]]
    BY <1>5
  <2> QED
    BY <1>12, <2>1 DEF Ids
<1>14. touchClock \in Nat /\ touchClock' \in Nat /\ touchClock <= touchClock'
  <2>1. touchClock \in Nat
    BY <1>1 DEF TypeOK
  <2> QED
    BY <1>4, <1>9, <2>1
<1>15. TypeOK'
  <2>1. IsFiniteSet(Ids') /\ Ids' \subseteq Nat /\ blocks' \in [Ids' -> BlockType]
    BY <1>1, <1>13 DEF TypeOK
  <2> QED
    BY <1>1, <1>2, <1>6, <1>7, <1>14, <2>1 DEF TypeOK
<1>16. PoolOK'
  <2>1. \A b \in Ids : blocks[b].touched \in Nat /\ blocks[b].touched <= touchClock /\ b < nextBlockId
    BY <1>1 DEF TypeOK, BlockType, PoolOK
  <2>2. \A b \in Ids : blocks'[b].touched = IF b \in Elements(ids) THEN touchClock + place(b)
                                           ELSE blocks[b].touched
    BY <1>12
  <2>3. \A b \in Elements(ids) : place(b) \in 1..Len(ids) /\ ids[place(b)] = b
    BY <1>10
  <2> DEFINE t == [b \in Ids |-> blocks[b].touched]
             u == [b \in Ids |-> blocks'[b].touched]
             p == [b \in Elements(ids) |-> place(b)]
  <2>4. /\ \A b \in Ids \ Elements(ids) : t[b] \in Nat /\ t[b] <= touchClock
        /\ \A b, c \in Ids \ Elements(ids) : t[b] = t[c] => b = c
    BY <1>1, <2>1 DEF PoolOK
  <2>5. \A b \in Ids : u[b] = IF b \in Elements(ids) THEN touchClock + p[b] ELSE t[b]
    BY <2>2
  <2>6. /\ \A b \in Elements(ids) : p[b] \in 1..Len(ids)
        /\ \A b, c \in Elements(ids) : p[b] = p[c] => b = c
    BY <2>3
  <2>7. \A b \in Ids : u[b] = blocks'[b].touched
    OBVIOUS
  <2> HIDE DEF t, u, p
  <2>8. /\ \A b \in Ids : u[b] <= touchClock + Len(ids)
        /\ \A b, c \in Ids : u[b] = u[c] => b = c
    BY SMTT(20), <1>9, <1>14, <2>4, <2>5, <2>6, Touched
  <2>9. /\ Cardinality(Ids) <= KvBlocks
        /\ \A b \in Ids : b < nextBlockId' /\ blocks'[b].touched <= touchClock'
        /\ \A b, c \in Ids : blocks'[b].touched = blocks'[c].touched => b = c
    BY <1>1, <1>2, <1>4, <2>1, <2>7, <2>8 DEF PoolOK
  <2> QED
    BY <1>13, <2>9 DEF PoolOK
<1>17. \A j \in Requests : Completed(j)' <=> Completed(j)
  BY <1>2 DEF Completed
<1>18. QueuesOK'
  <2>1. Len(running') <= MaxSequences
    <3>1. Len(running) <= MaxSequences /\ Len(running) \in Nat /\ Len(running') \in Nat
      BY <1>1, <1>3, <1>7 DEF QueuesOK
    <3> QED
      BY <1>7, <3>1, Sizes
  <2>2. \A j \in Requests : progress[j].admittedAt # None =>
          Arrival[j] <= progress[j].admittedAt /\ (Completed(j)' \/ j \in Elements(running'))
    BY <1>1, <1>7, <1>8, <1>17 DEF QueuesOK
  <2>3. \A j \in Elements(running') : progress[j].admittedAt # None
    BY <1>1, <1>7 DEF QueuesOK
  <2> QED
    BY <1>1, <1>2, <1>7, <2>1, <2>2, <2>3 DEF QueuesOK
<1>19. ProgressOK'
  BY <1>1, <1>2 DEF ProgressOK
<1>20. TableOK'
  <2>1. \A j, n : Written(j, n)' = Written(j, n)
    BY <1>2 DEF Written, Made
  <2>2. \A j, n : Identity(j, n)' = Identity(j, n)
    BY <2>1 DEF Identity
  <2>3. ASSUME NEW j \in Elements(running'), NEW n \in DOMAIN progress[j].blockIds
        PROVE  LET b == progress[j].blockIds[n]
               IN /\ b \in Ids /\ j \in blocks'[b].refs
                  /\ blocks'[b].computed = Written(j, n) /\ blocks'[b].identity = Identity(j, n)
    <3> DEFINE b == progress[j].blockIds[n]
    <3>1. j \in Elements(running) /\ j # i
      BY <1>7
    <3>2. /\ b \in Ids /\ j \in blocks[b].refs
          /\ blocks[b].computed = Written(j, n) /\ blocks[b].identity = Identity(j, n)
      BY <1>1, <3>1 DEF TableOK
    <3> HIDE DEF b
    <3>3. j \in blocks'[b].refs
      BY <1>12, <3>1, <3>2
    <3> QED
      BY <1>12, <3>2, <3>3 DEF b
  <2>4. \A j \in Elements(running') :
          Len(progress[j].blockIds) = Len(Tokens(j)) /\ IsInjectiveSeq(progress[j].blockIds)
    BY <1>1, <1>7 DEF TableOK
  <2> QED
    BY <1>2, <1>13, <2>1, <2>2, <2>3, <2>4 DEF TableOK
<1>21. RefsOK'
  <2>1. ASSUME NEW b \in Ids, NEW j \in blocks'[b].refs
        PROVE  j \in Elements(running') /\ b \in Elements(progress[j].blockIds)
    <3>1. j \in blocks[b].refs
      BY <1>12, <2>1
    <3>2. j \in Elements(running) /\ b \in Elements(progress[j].blockIds)
      BY <1>1, <3>1 DEF RefsOK
    <3>3. j # i
      BY <1>12, <2>1, <3>2 DEF ids
    <3> QED
      BY <1>7, <3>2, <3>3
  <2>2. ASSUME NEW b \in Ids, ~blocks'[b].computed PROVE \E j \in Requests : blocks'[b].refs = {j}
    <3>1. ~blocks[b].computed
      BY <1>12, <2>2
    <3>2. b \notin Elements(ids)
      BY <1>11, <3>1
    <3>3. blocks'[b].refs = blocks[b].refs
      BY <1>12, <3>2
    <3> QED
      BY <1>1, <3>1, <3>3 DEF RefsOK
  <2> QED
    BY <1>2, <1>13, <2>1, <2>2 DEF RefsOK
<1>22. PlanOK'
  <2>1. Elements(todo) = {j \in Elements(running) : Completed(j)}
    BY <1>1, <1>2 DEF PlanOK
  <2>2. Elements(todo') = {j \in Elements(running') : Completed(j)'}
    BY <1>6, <1>7, <1>8, <1>17, <2>1
  <2> QED
    BY <1>2, <1>6, <1>8, <2>2 DEF PlanOK
<1>23. WorkOK'
  BY <1>1, <1>2 DEF WorkOK, Done, Arrived
<1> QED
  BY <1>15, <1>16, <1>18, <1>19, <1>20, <1>21, <1>22, <1>23 DEF Inductive

-----------------------------------------------------------------------------
(* Admit *)

(* The ids of new blocks. *)
LEMMA NewIds ==
  ASSUME NEW k \in Nat, NEW m \in Nat
  PROVE  LET f == [n \in 1..m |-> k + n - 1]
         IN /\ f \in Seq(Nat) /\ Len(f) = m /\ IsInjectiveSeq(f)
            /\ \A b \in Elements(f) : b \in Nat /\ k <= b /\ b < k + m
            /\ IsFiniteSet(Elements(f)) /\ Cardinality(Elements(f)) = m
<1> DEFINE f == [n \in 1..m |-> k + n - 1]
<1>1. DOMAIN f = 1..m /\ \A n \in 1..m : f[n] = k + n - 1 /\ f[n] \in Nat /\ k <= f[n] /\ f[n] < k + m
  OBVIOUS
<1>2. f = [n \in 1..m |-> f[n]]
  OBVIOUS
<1> HIDE DEF f
<1>3. f \in Seq(Nat) /\ Len(f) = m
  BY <1>1, <1>2
<1>4. IsInjectiveSeq(f)
  BY <1>1 DEF IsInjectiveSeq
<1>5. \A b \in Elements(f) : b \in Nat /\ k <= b /\ b < k + m
  BY <1>1 DEF Elements
<1>6. IsFiniteSet(Elements(f)) /\ Cardinality(Elements(f)) = m
  BY <1>3, <1>4, InjectiveCardinality
<1> QED
  BY <1>3, <1>4, <1>5, <1>6 DEF f

(* The head of the order, and what admitting it makes of its progress. *)
LEMMA AdmitProgress ==
  ASSUME Inductive, Admit
  PROVE  LET i == Head(order)
             hits == PrefixBlocks(i)
             fresh == [n \in 1..Needed(i) |-> nextBlockId + n - 1]
         IN /\ i \in Requests /\ Fits(i)
            /\ i \in Eligible /\ i \notin Elements(running)
            /\ progress[i] = NoProgress
            /\ progress' \in [Requests -> ProgressType]
            /\ progress'[i].admittedAt = time /\ progress'[i].prefillDone = Len(hits)
            /\ progress'[i].blockIds = hits \o fresh /\ progress'[i].outputTimes = <<>>
            /\ \A j \in Requests \ {i} : progress'[j] = progress[j]
            /\ hits \o fresh \in Seq(Nat) /\ IsInjectiveSeq(hits \o fresh)
            /\ Len(hits \o fresh) = Len(Tokens(i)) /\ Len(Tokens(i)) = Len(hits) + Needed(i)
            /\ Elements(hits \o fresh) = Elements(hits) \cup Elements(fresh)
            /\ Elements(hits) \cap Elements(fresh) = {} /\ Ids \cap Elements(fresh) = {}
            /\ \A n \in DOMAIN (hits \o fresh) :
                 IF n <= Len(hits) THEN n \in 1..Len(hits) /\ (hits \o fresh)[n] = hits[n]
                 ELSE (hits \o fresh)[n] \in Elements(fresh)
<1> DEFINE i == Head(order)
           hits == PrefixBlocks(i)
           h == Len(hits)
           m == Needed(i)
           fresh == [n \in 1..m |-> nextBlockId + n - 1]
           ids == hits \o fresh
<1>1. /\ TypeOK /\ PoolOK /\ QueuesOK /\ PlanOK
  BY DEF Inductive
<1>2. /\ phase = "plan" /\ order # <<>> /\ order \in Seq(Requests) /\ Elements(order) = Eligible
      /\ Fits(i)
  BY <1>1 DEF Admit, CanAdmit, Planned, PlanOK, TypeOK
<1>3. i \in Requests /\ i \in Eligible
  BY <1>2, HeadTailFacts
<1>4. progress' = [progress EXCEPT ![i] =
         [admittedAt |-> time, prefillDone |-> h, blockIds |-> ids, outputTimes |-> <<>>]]
  BY DEF Admit
<1> HIDE DEF i
<1>5. progress[i] = NoProgress /\ i \notin Elements(running)
  BY <1>1, <1>3 DEF Eligible, QueuesOK
<1>6. /\ hits \in Seq(Nat) /\ h \in Nat /\ IsInjectiveSeq(hits) /\ Elements(hits) \subseteq Ids
  BY <1>1, <1>3, HitsFacts
<1>7. m \in Nat /\ Len(Tokens(i)) = h + m
  <2>1. m \in Nat
    BY <1>1, <1>2, <1>3, RoomFacts
  <2>2. m = Len(Tokens(i)) - h
    BY DEF Needed
  <2>3. Len(Tokens(i)) \in Nat
    BY <1>3, Demands
  <2> HIDE DEF h, m
  <2> QED
    BY <1>6, <2>1, <2>2, <2>3
<1>8. nextBlockId \in Nat /\ time \in Nat
  BY <1>1 DEF TypeOK
<1> HIDE DEF m
<1>9. /\ fresh \in Seq(Nat) /\ Len(fresh) = m /\ IsInjectiveSeq(fresh)
      /\ \A b \in Elements(fresh) : nextBlockId <= b /\ b \in Nat
  BY <1>7, <1>8, NewIds
<1>10. Ids \cap Elements(fresh) = {}
  <2>1. \A b \in Ids : b \in Nat /\ b < nextBlockId
    BY <1>1 DEF TypeOK, PoolOK
  <2> HIDE DEF fresh
  <2> QED
    BY <1>8, <1>9, <2>1
<1> HIDE DEF hits, fresh
<1>11. Elements(hits) \cap Elements(fresh) = {}
  BY <1>6, <1>10
<1>12. /\ ids \in Seq(Nat) /\ IsInjectiveSeq(ids) /\ Len(ids) = h + m
       /\ Elements(ids) = Elements(hits) \cup Elements(fresh)
  <2>1. hits \in Seq(Nat) /\ fresh \in Seq(Nat) /\ IsInjectiveSeq(hits) /\ IsInjectiveSeq(fresh)
    BY <1>6, <1>9
  <2>2. /\ ids \in Seq(Nat) /\ IsInjectiveSeq(ids) /\ Len(ids) = Len(hits) + Len(fresh)
        /\ Elements(ids) = Elements(hits) \cup Elements(fresh)
    BY <1>11, <2>1, ConcatInjective
  <2>3. Len(fresh) = m
    BY <1>9
  <2> HIDE DEF ids
  <2> QED
    BY <2>2, <2>3
<1>13. ASSUME NEW n \in DOMAIN ids
       PROVE  IF n <= h THEN n \in 1..h /\ ids[n] = hits[n] ELSE ids[n] \in Elements(fresh)
  <2>1. n \in 1..(h + m)
    BY <1>6, <1>7, <1>12
  <2>2. CASE n <= h
    BY <1>6, <1>9, <2>1, <2>2
  <2>3. CASE ~(n <= h)
    <3>1. n - h \in DOMAIN fresh /\ ids[n] = fresh[n - h]
      BY <1>6, <1>7, <1>9, <2>1, <2>3
    <3> QED
      BY <2>3, <3>1 DEF Elements
  <2> QED
    BY <2>2, <2>3
<1> HIDE DEF ids, h
<1>14. /\ progress'[i] = [admittedAt |-> time, prefillDone |-> h, blockIds |-> ids, outputTimes |-> <<>>]
       /\ \A j \in Requests \ {i} : progress'[j] = progress[j]
  BY <1>1, <1>3, <1>4 DEF TypeOK
<1>15. progress'[i] \in ProgressType
  BY <1>6, <1>8, <1>12, <1>14 DEF ProgressType
<1>16. progress' \in [Requests -> ProgressType]
  BY <1>1, <1>4, <1>14, <1>15 DEF TypeOK
<1>17. /\ progress'[i].admittedAt = time /\ progress'[i].prefillDone = h
       /\ progress'[i].blockIds = ids /\ progress'[i].outputTimes = <<>>
  BY <1>14
<1>18. Fits(i)
  BY <1>2 DEF i
<1> QED
  BY <1>3, <1>5, <1>7, <1>10, <1>11, <1>12, <1>13, <1>14, <1>16, <1>17, <1>18
     DEF i, h, hits, m, fresh, ids

(* What it makes of the pool: some blocks that are neither used nor hit go,  *)
(* the others are kept, and those it takes are touched.                     *)
LEMMA AdmitBlocks ==
  ASSUME Inductive, Admit
  PROVE  LET i == Head(order)
             hits == PrefixBlocks(i)
             fresh == [n \in 1..Needed(i) |-> nextBlockId + n - 1]
             ids == hits \o fresh
         IN /\ \E evicted \in SUBSET (Ids \ (Active \cup Elements(hits))) :
                 /\ Ids' = (Ids \ evicted) \cup Elements(fresh)
                 /\ Cardinality(Ids') <= KvBlocks /\ IsFiniteSet(Ids')
            /\ \A b \in Ids \cap Ids' :
                 /\ blocks'[b] \in BlockType
                 /\ blocks'[b].identity = blocks[b].identity /\ blocks'[b].computed = blocks[b].computed
                 /\ blocks'[b].refs = IF b \in Elements(ids) THEN blocks[b].refs \cup {i} ELSE blocks[b].refs
            /\ \A n \in DOMAIN ids : ids[n] \in Elements(fresh) =>
                 /\ blocks'[ids[n]] \in BlockType
                 /\ blocks'[ids[n]].computed = FALSE /\ blocks'[ids[n]].refs = {i}
                 /\ blocks'[ids[n]].identity = IF n <= Len(Prompt[i]) THEN SubSeq(Tokens(i), 1, n) ELSE None
            /\ \E p : /\ \A b \in Elements(ids) : p[b] \in 1..Len(ids)
                      /\ \A b, c \in Elements(ids) : p[b] = p[c] => b = c
                      /\ \A b \in Ids' : blocks'[b].touched = IF b \in Elements(ids) THEN touchClock + p[b]
                                                              ELSE blocks[b].touched
            /\ blocks' \in [Ids' -> BlockType]
<1> DEFINE i == Head(order)
           hits == PrefixBlocks(i)
           m == Needed(i)
           fresh == [n \in 1..m |-> nextBlockId + n - 1]
           ids == hits \o fresh
           x == Max({0, m - (KvBlocks - Cardinality(Ids))})
           evicted == Victims(i, x)
           place(b) == CHOOSE n \in DOMAIN ids : ids[n] = b
           new(n) == [identity |-> IF n <= Len(Prompt[i]) THEN SubSeq(Prompt[i], 1, n) ELSE None,
                      computed |-> FALSE, refs |-> {i}, touched |-> touchClock + n]
<1>1. blocks' = [b \in (Ids \ evicted) \cup Elements(fresh) |->
                   IF b \in Elements(fresh) THEN new(place(b))
                   ELSE IF b \in Elements(hits)
                     THEN [blocks[b] EXCEPT !.refs = @ \cup {i}, !.touched = touchClock + place(b)]
                   ELSE blocks[b]]
  BY DEF Admit
<1>2. TypeOK /\ PoolOK
  BY DEF Inductive
<1>3. /\ i \in Requests /\ Fits(i)
      /\ ids \in Seq(Nat) /\ IsInjectiveSeq(ids)
      /\ Len(ids) = Len(Tokens(i))
      /\ Elements(ids) = Elements(hits) \cup Elements(fresh)
      /\ Elements(hits) \cap Elements(fresh) = {} /\ Ids \cap Elements(fresh) = {}
  BY AdmitProgress
<1>4. m \in Nat /\ x \in 0..Cardinality((Ids \ Active) \ Elements(hits))
      /\ Cardinality(Ids) - x + m <= KvBlocks
  <2> HIDE DEF i
  <2> QED
    BY <1>2, <1>3, RoomFacts
<1>5. /\ evicted \subseteq (Ids \ Active) \ Elements(hits) /\ Cardinality(evicted) = x
  <2> HIDE DEF i, x
  <2> QED
    BY <1>2, <1>3, <1>4, VictimsFacts
<1>6. /\ IsFiniteSet(Elements(fresh)) /\ Cardinality(Elements(fresh)) = m
      /\ Elements(fresh) \subseteq Nat
  <2>1. nextBlockId \in Nat
    BY <1>2 DEF TypeOK
  <2> HIDE DEF m
  <2> QED
    BY <1>4, <2>1, NewIds
<1>7. Elements(hits) \subseteq Ids
  <2> HIDE DEF i
  <2> QED
    BY <1>2, <1>3, HitsFacts
<1>8. Len(ids) \in Nat /\ DOMAIN ids = 1..Len(ids)
  <2> HIDE DEF ids
  <2> QED
    BY <1>3
<1> HIDE DEF i, ids, m, x, hits, fresh, evicted
<1>9. Ids' = (Ids \ evicted) \cup Elements(fresh)
  BY <1>1 DEF Ids
<1>10. IsFiniteSet(Ids') /\ Cardinality(Ids') <= KvBlocks
  <2>1. IsFiniteSet(Ids) /\ evicted \in SUBSET Ids
    BY <1>2, <1>5 DEF TypeOK
  <2> DEFINE R == Ids \ evicted
  <2>2. IsFiniteSet(R) /\ Cardinality(R) = Cardinality(Ids) - x
    BY <1>5, <2>1, CountRemoved
  <2>3. R \cap Elements(fresh) = {}
    BY <1>3
  <2> HIDE DEF R
  <2>4. /\ IsFiniteSet(R \cup Elements(fresh))
        /\ Cardinality(R \cup Elements(fresh)) = Cardinality(R) + Cardinality(Elements(fresh))
    BY <1>6, <2>2, <2>3, CountAdded
  <2>5. Ids' = R \cup Elements(fresh)
    BY <1>9 DEF R
  <2> QED
    BY <1>4, <1>6, <2>2, <2>4, <2>5
<1>11. ASSUME NEW n \in DOMAIN ids PROVE place(ids[n]) = n
  <2>1. \A k \in DOMAIN ids : ids[k] = ids[n] => k = n
    BY <1>3 DEF IsInjectiveSeq
  <2> QED
    BY <2>1
<1>12. ASSUME NEW b \in Elements(ids) PROVE place(b) \in DOMAIN ids /\ ids[place(b)] = b
  <2>1. PICK n \in DOMAIN ids : b = ids[n]
    BY DEF Elements
  <2> QED
    BY <1>11, <2>1
<1>13. touchClock \in Nat
  BY <1>2 DEF TypeOK
<1>14. ASSUME NEW n \in DOMAIN ids
       PROVE  /\ new(n) \in BlockType
              /\ new(n).computed = FALSE /\ new(n).refs = {i} /\ new(n).touched = touchClock + n
              /\ new(n).identity = IF n <= Len(Prompt[i]) THEN SubSeq(Tokens(i), 1, n) ELSE None
  <2>1. n \in 1..Len(Tokens(i)) /\ n \in Nat
    BY <1>3, <1>8
  <2>2. SubSeq(Tokens(i), 1, n) \in Seq(Int)
        /\ (n <= Len(Prompt[i]) => SubSeq(Prompt[i], 1, n) = SubSeq(Tokens(i), 1, n))
    BY <1>3, <2>1, PrefixFacts
  <2> DEFINE y == IF n <= Len(Prompt[i]) THEN SubSeq(Prompt[i], 1, n) ELSE None
             z == IF n <= Len(Prompt[i]) THEN SubSeq(Tokens(i), 1, n) ELSE None
             t == touchClock + n
  <2>3. y = z /\ z \in Seq(Int) \cup {None} /\ t \in Nat
    <3>1. t \in Nat
      BY <1>13, <2>1
    <3>2. CASE n <= Len(Prompt[i])
      BY <2>2, <3>1, <3>2, Zenon
    <3>3. CASE ~(n <= Len(Prompt[i]))
      BY <3>1, <3>3, Zenon
    <3> QED
      BY <3>2, <3>3
  <2>4. new(n) = [identity |-> y, computed |-> FALSE, refs |-> {i}, touched |-> t]
    OBVIOUS
  <2> HIDE DEF y, z, t, new
  <2>5. new(n) \in BlockType
    BY <1>3, <2>3, <2>4 DEF BlockType
  <2>6. /\ new(n).computed = FALSE /\ new(n).refs = {i} /\ new(n).touched = t /\ new(n).identity = z
    BY <2>3, <2>4
  <2> QED
    BY <2>5, <2>6 DEF t, z
<1> HIDE DEF new, place
<1>15. ASSUME NEW n \in DOMAIN ids, ids[n] \in Elements(fresh)
       PROVE  blocks'[ids[n]] = new(n)
  BY <1>1, <1>11, <1>15
<1>16. ASSUME NEW b \in Ids \cap Ids'
       PROVE  /\ blocks'[b] \in BlockType
              /\ blocks'[b].identity = blocks[b].identity /\ blocks'[b].computed = blocks[b].computed
              /\ blocks'[b].refs = IF b \in Elements(ids) THEN blocks[b].refs \cup {i} ELSE blocks[b].refs
              /\ blocks'[b].touched = IF b \in Elements(ids) THEN touchClock + place(b) ELSE blocks[b].touched
  <2>1. b \notin Elements(fresh) /\ b \in Ids \ evicted /\ blocks[b] \in BlockType
    BY <1>2, <1>3, <1>9 DEF TypeOK
  <2>2. CASE b \in Elements(hits)
    <3>1. blocks'[b] = [blocks[b] EXCEPT !.refs = @ \cup {i}, !.touched = touchClock + place(b)]
      BY <1>1, <2>1, <2>2
    <3> DEFINE t == touchClock + place(b)
    <3>2. b \in Elements(ids) /\ t \in Nat
      <4>1. b \in Elements(ids)
        BY <1>3, <2>2
      <4>2. place(b) \in Nat
        BY <1>8, <1>12, <4>1
      <4> QED
        BY <1>13, <4>1, <4>2
    <3> HIDE DEF t
    <3>3. blocks'[b] = [blocks[b] EXCEPT !.refs = @ \cup {i}, !.touched = t]
      BY <3>1 DEF t
    <3>4. /\ blocks'[b] \in BlockType
          /\ blocks'[b].identity = blocks[b].identity /\ blocks'[b].computed = blocks[b].computed
          /\ blocks'[b].refs = blocks[b].refs \cup {i} /\ blocks'[b].touched = t
      BY Zenon, <1>3, <2>1, <3>2, <3>3 DEF BlockType
    <3> QED
      BY <3>2, <3>4 DEF t
  <2>3. CASE b \notin Elements(hits)
    <3>1. blocks'[b] = blocks[b] /\ b \notin Elements(ids)
      BY <1>1, <1>3, <2>1, <2>3
    <3> QED
      BY <2>1, <3>1
  <2> QED
    BY <2>2, <2>3
<1>17. ASSUME NEW b \in Elements(fresh)
       PROVE  /\ blocks'[b] \in BlockType
              /\ b \in Elements(ids) /\ blocks'[b].touched = touchClock + place(b)
  <2>1. b \in Elements(ids)
    BY <1>3
  <2>2. blocks'[b] = new(place(b)) /\ place(b) \in DOMAIN ids
    BY <1>12, <1>15, <2>1
  <2> QED
    BY <1>14, <2>1, <2>2
<1>18. blocks' \in [Ids' -> BlockType]
  <2>1. blocks' = [b \in Ids' |-> blocks'[b]]
    BY <1>1, <1>9
  <2>2. \A b \in Ids' : blocks'[b] \in BlockType
    BY <1>9, <1>16, <1>17
  <2> QED
    BY <2>1, <2>2
<1>19. \A n \in DOMAIN ids : ids[n] \in Elements(fresh) =>
         /\ blocks'[ids[n]] \in BlockType
         /\ blocks'[ids[n]].computed = FALSE /\ blocks'[ids[n]].refs = {i}
         /\ blocks'[ids[n]].identity = IF n <= Len(Prompt[i]) THEN SubSeq(Tokens(i), 1, n) ELSE None
  BY <1>14, <1>15
<1>20. \E p : /\ \A b \in Elements(ids) : p[b] \in 1..Len(ids)
              /\ \A b, c \in Elements(ids) : p[b] = p[c] => b = c
              /\ \A b \in Ids' : blocks'[b].touched = IF b \in Elements(ids) THEN touchClock + p[b]
                                                      ELSE blocks[b].touched
  <2> DEFINE p == [b \in Elements(ids) |-> place(b)]
  <2>1. \A b \in Elements(ids) : p[b] = place(b)
    OBVIOUS
  <2> HIDE DEF p
  <2>2. /\ \A b \in Elements(ids) : p[b] \in 1..Len(ids) /\ ids[p[b]] = b
    BY <1>8, <1>12, <2>1
  <2>3. \A b \in Ids' : blocks'[b].touched = IF b \in Elements(ids) THEN touchClock + p[b]
                                             ELSE blocks[b].touched
    <3>1. \A b \in Ids \cap Ids' : blocks'[b].touched = IF b \in Elements(ids) THEN touchClock + place(b)
                                                        ELSE blocks[b].touched
      BY <1>16
    <3>2. \A b \in Elements(fresh) : b \in Elements(ids) /\ blocks'[b].touched = touchClock + place(b)
      BY <1>17
    <3>3. \A b \in Ids' : b \in Ids \cap Ids' \/ b \in Elements(fresh)
      BY <1>9
    <3> QED
      BY <2>1, <3>1, <3>2, <3>3
  <2> QED
    BY <2>2, <2>3
<1>21. \E e \in SUBSET (Ids \ (Active \cup Elements(hits))) :
         Ids' = (Ids \ e) \cup Elements(fresh) /\ Cardinality(Ids') <= KvBlocks /\ IsFiniteSet(Ids')
  <2>1. evicted \in SUBSET (Ids \ (Active \cup Elements(hits)))
    BY <1>5
  <2> QED
    BY <1>9, <1>10, <2>1
<1>22. \A b \in Ids \cap Ids' :
                 /\ blocks'[b] \in BlockType
                 /\ blocks'[b].identity = blocks[b].identity /\ blocks'[b].computed = blocks[b].computed
                 /\ blocks'[b].refs = IF b \in Elements(ids) THEN blocks[b].refs \cup {i} ELSE blocks[b].refs
  BY <1>16
<1> QED
  BY <1>18, <1>19, <1>20, <1>21, <1>22 DEF i, hits, fresh, ids, m

LEMMA AdmitStep == Inductive /\ Admit => Inductive'
<1> SUFFICES ASSUME Inductive, Admit, NEW i \in Requests, i = Head(order) PROVE Inductive'
  BY AdmitProgress
<1>1. /\ TypeOK /\ PoolOK /\ QueuesOK /\ ProgressOK /\ TableOK /\ RefsOK /\ PlanOK /\ WorkOK
  BY DEF Inductive
<1> DEFINE hits == PrefixBlocks(Head(order))
           h == Len(hits)
           fresh == [n \in 1..Needed(Head(order)) |-> nextBlockId + n - 1]
           ids == hits \o fresh
           s == Plan(Head(order), h)
<1>2. /\ phase = "plan" /\ order # <<>> /\ budget > 0 /\ Len(running) < MaxSequences
      /\ todo = <<>> /\ Planned
  <2>1. /\ Planned /\ order # <<>> /\ budget > 0 /\ Len(running) < MaxSequences
    BY Zenon DEF Admit, CanAdmit
  <2> QED
    BY <2>1 DEF Planned
<1>3. /\ touchClock' = touchClock + Len(ids) /\ nextBlockId' = nextBlockId + Len(fresh)
      /\ running' = Append(running, i) /\ order' = Tail(order)
      /\ services' = Append(services, s) /\ budget' = budget - s.count
      /\ UNCHANGED <<time, phase, todo, mode, events, stock>>
  BY DEF Admit
<1>4. /\ i \in Requests /\ i \in Eligible /\ i \notin Elements(running)
      /\ progress[i] = NoProgress
      /\ progress' \in [Requests -> ProgressType]
      /\ progress'[i].admittedAt = time /\ progress'[i].prefillDone = h
      /\ progress'[i].blockIds = ids /\ progress'[i].outputTimes = <<>>
      /\ \A j \in Requests \ {i} : progress'[j] = progress[j]
  BY AdmitProgress
<1>5. /\ ids \in Seq(Nat) /\ IsInjectiveSeq(ids)
      /\ Len(ids) = Len(Tokens(i)) /\ Len(Tokens(i)) = h + Needed(i)
      /\ Elements(ids) = Elements(hits) \cup Elements(fresh)
      /\ Elements(hits) \cap Elements(fresh) = {} /\ Ids \cap Elements(fresh) = {}
      /\ \A n \in DOMAIN ids : IF n <= h THEN n \in 1..h /\ ids[n] = hits[n]
                               ELSE ids[n] \in Elements(fresh)
  BY AdmitProgress
<1>6. /\ order \in Seq(Requests) /\ IsInjectiveSeq(order) /\ Elements(order) = Eligible
      /\ running \in Seq(Requests) /\ IsInjectiveSeq(running)
      /\ Elements(running) \subseteq Requests
      /\ budget \in 0..TokenBudget /\ services \in Seq(ServiceType) /\ time \in Nat
  <2>1. order \in Seq(Requests) /\ IsInjectiveSeq(order) /\ Elements(order) = Eligible
    BY <1>1, <1>2 DEF TypeOK, PlanOK
  <2>2. running \in Seq(Requests) /\ IsInjectiveSeq(running) /\ budget \in 0..TokenBudget
        /\ services \in Seq(ServiceType) /\ time \in Nat
    BY <1>1 DEF TypeOK, QueuesOK
  <2> QED
    BY <2>1, <2>2, ListFacts
<1>7. /\ order' \in Seq(Requests) /\ IsInjectiveSeq(order')
      /\ Elements(order') = Eligible \ {i}
  BY <1>2, <1>3, <1>6, HeadTailFacts
<1>8. /\ \E evicted \in SUBSET (Ids \ (Active \cup Elements(hits))) :
           /\ Ids' = (Ids \ evicted) \cup Elements(fresh)
           /\ Cardinality(Ids') <= KvBlocks /\ IsFiniteSet(Ids')
      /\ blocks' \in [Ids' -> BlockType]
  BY AdmitBlocks
<1>9. \A b \in Ids \cap Ids' :
        /\ blocks'[b].identity = blocks[b].identity /\ blocks'[b].computed = blocks[b].computed
        /\ blocks'[b].refs = IF b \in Elements(ids) THEN blocks[b].refs \cup {i} ELSE blocks[b].refs
  BY AdmitBlocks
<1>10. \A n \in DOMAIN ids : ids[n] \in Elements(fresh) =>
         /\ blocks'[ids[n]].computed = FALSE /\ blocks'[ids[n]].refs = {i}
         /\ blocks'[ids[n]].identity = IF n <= Len(Prompt[i]) THEN SubSeq(Tokens(i), 1, n) ELSE None
  BY AdmitBlocks
<1>11. PICK p : /\ \A b \in Elements(ids) : p[b] \in 1..Len(ids)
                /\ \A b, c \in Elements(ids) : p[b] = p[c] => b = c
                /\ \A b \in Ids' : blocks'[b].touched = IF b \in Elements(ids) THEN touchClock + p[b]
                                                        ELSE blocks[b].touched
  BY AdmitBlocks
<1>12. /\ hits \in Seq(Nat) /\ h \in Nat /\ h <= Len(Prompt[i]) /\ IsInjectiveSeq(hits)
       /\ Elements(hits) \subseteq Ids
       /\ \A n \in 1..h : /\ hits[n] \in Ids /\ blocks[hits[n]].computed
                          /\ blocks[hits[n]].identity = SubSeq(Tokens(i), 1, n)
  BY <1>1, <1>4, HitsFacts
<1>13. /\ s \in ServiceType /\ s.index = i /\ s.count \in 1..budget
       /\ IF s.kind = "prefill" THEN h + s.count <= Len(Prompt[i])
          ELSE h = Len(Prompt[i]) /\ s.count = 1
  <2>1. budget \in 1..TokenBudget
    <3>1. TokenBudget \in Nat
      BY Sizes
    <3> QED
      BY <1>2, <1>6, <3>1
  <2> HIDE DEF h
  <2> QED
    BY <1>4, <1>12, <2>1, PlanFacts
<1>14. /\ nextBlockId \in Nat /\ touchClock \in Nat /\ Len(fresh) \in Nat /\ Len(ids) \in Nat
       /\ DOMAIN ids = 1..Len(ids)
       /\ \A b \in Elements(fresh) : b \in Nat /\ b < nextBlockId + Len(fresh)
  <2>1. nextBlockId \in Nat /\ touchClock \in Nat
    BY <1>1 DEF TypeOK
  <2>2. Needed(i) \in Nat
    <3>1. Fits(i)
      BY AdmitProgress
    <3> QED
      BY <1>1, <1>4, <3>1, RoomFacts
  <2>3. Len(fresh) = Needed(i) /\ \A b \in Elements(fresh) : b \in Nat /\ b < nextBlockId + Needed(i)
    BY <2>1, <2>2, NewIds
  <2> HIDE DEF ids, fresh
  <2> QED
    BY <1>5, <2>1, <2>2, <2>3
<1> HIDE DEF hits, h, fresh, ids, s
<1>15. PICK evicted \in SUBSET (Ids \ (Active \cup Elements(hits))) :
         /\ Ids' = (Ids \ evicted) \cup Elements(fresh)
         /\ Cardinality(Ids') <= KvBlocks /\ IsFiniteSet(Ids')
  BY <1>8
<1>16. /\ running' \in Seq(Requests) /\ IsInjectiveSeq(running') /\ Len(running') = Len(running) + 1
       /\ Elements(running') = Elements(running) \cup {i}
  BY <1>3, <1>4, <1>6, AppendFacts
<1>17. /\ services' \in Seq(ServiceType) /\ services' # <<>>
       /\ budget' \in 0..TokenBudget /\ budget' + Cardinality(Batch') = TokenBudget
       /\ \A k \in DOMAIN services' : \/ k \in DOMAIN services /\ services'[k] = services[k]
                                      \/ services'[k] = s
       /\ \A j, k \in DOMAIN services' : services'[j].index = services'[k].index => j = k
  <2>1. \A k \in DOMAIN services : services[k].index # s.index
    BY <1>1, <1>2, <1>4, <1>13 DEF PlanOK
  <2> QED
    BY <1>1, <1>2, <1>3, <1>6, <1>13, <2>1, ServiceAdded
<1>18. TypeOK'
  <2>1. Ids' \subseteq Nat
    <3>1. Ids \subseteq Nat
      BY <1>1 DEF TypeOK
    <3> QED
      BY <1>14, <1>15, <3>1
  <2>2. touchClock' \in Nat /\ nextBlockId' \in Nat
    BY <1>3, <1>14
  <2> QED
    BY <1>1, <1>3, <1>4, <1>7, <1>8, <1>15, <1>16, <1>17, <2>1, <2>2 DEF TypeOK
<1>19. PoolOK'
  <2>1. \A b \in Ids : blocks[b].touched \in Nat /\ blocks[b].touched <= touchClock /\ b < nextBlockId
                       /\ b \in Nat
    BY <1>1 DEF TypeOK, BlockType, PoolOK
  <2> DEFINE t == [b \in Ids |-> blocks[b].touched]
             u == [b \in Ids' |-> blocks'[b].touched]
  <2>2. \A b \in Ids' \ Elements(ids) : b \in Ids
    BY <1>5, <1>15
  <2>3. /\ \A b \in Ids' \ Elements(ids) : t[b] \in Nat /\ t[b] <= touchClock
        /\ \A b, c \in Ids' \ Elements(ids) : t[b] = t[c] => b = c
    BY <1>1, <2>1, <2>2 DEF PoolOK
  <2>4. \A b \in Ids' : u[b] = IF b \in Elements(ids) THEN touchClock + p[b] ELSE t[b]
    BY <1>11, <2>2
  <2>5. \A b \in Ids' : u[b] = blocks'[b].touched
    OBVIOUS
  <2> HIDE DEF t, u
  <2>6. /\ \A b \in Ids' : u[b] <= touchClock + Len(ids)
        /\ \A b, c \in Ids' : u[b] = u[c] => b = c
    BY <1>11, <1>14, <2>3, <2>4, Touched
  <2>7. \A b \in Ids' : b < nextBlockId'
    <3> SUFFICES ASSUME NEW b \in Ids' PROVE b < nextBlockId + Len(fresh)
      BY <1>3
    <3>1. CASE b \in Ids
      BY <1>14, <2>1, <3>1
    <3>2. CASE b \in Elements(fresh)
      BY <1>14, <3>2
    <3> QED
      BY <1>15, <3>1, <3>2
  <2>8. /\ \A b \in Ids' : blocks'[b].touched <= touchClock'
        /\ \A b, c \in Ids' : blocks'[b].touched = blocks'[c].touched => b = c
    BY <1>3, <2>5, <2>6
  <2> QED
    BY <1>15, <2>7, <2>8 DEF PoolOK
<1>20. time # None
  BY <1>6, NoneAssumption
<1>21. Len(Output[i]) \in Nat \ {0} /\ Len(Prompt[i]) \in Nat /\ Arrival[i] <= time
  BY <1>4, Demands DEF Eligible
<1>22. /\ ~Completed(i)'
       /\ \A j \in Requests \ {i} : Completed(j)' <=> Completed(j)
  <2>1. Len(progress'[i].outputTimes) = 0
    BY <1>4
  <2>2. Len(Output[i]) # 0
    BY <1>21
  <2>3. ~Completed(i)'
    BY <2>1, <2>2 DEF Completed
  <2>4. \A j \in Requests \ {i} : progress'[j] = progress[j]
    BY <1>4
  <2> QED
    BY <2>3, <2>4 DEF Completed
<1>23. QueuesOK'
  <2>1. Len(running') <= MaxSequences
    <3>1. Len(running) \in Nat
      BY <1>6
    <3> QED
      BY <1>2, <1>16, <3>1, Sizes
  <2>2. \A j \in Requests : progress'[j].admittedAt = None => progress'[j] = NoProgress
    BY <1>1, <1>4, <1>20 DEF QueuesOK
  <2>3. \A j \in Elements(running') : progress'[j].admittedAt # None
    BY <1>1, <1>4, <1>6, <1>16, <1>20 DEF QueuesOK
  <2>4. \A j \in Requests : progress'[j].admittedAt # None =>
          Arrival[j] <= progress'[j].admittedAt /\ (Completed(j)' \/ j \in Elements(running'))
    <3> SUFFICES ASSUME NEW j \in Requests, progress'[j].admittedAt # None
                 PROVE  Arrival[j] <= progress'[j].admittedAt
                        /\ (Completed(j)' \/ j \in Elements(running'))
      OBVIOUS
    <3>1. CASE j = i
      BY <1>4, <1>16, <1>21, <3>1
    <3>2. CASE j # i
      BY <1>1, <1>4, <1>16, <1>22, <3>2 DEF QueuesOK
    <3> QED
      BY <3>1, <3>2
  <2>5. ASSUME NEW j \in Elements(running') PROVE ~Completed(j)'
    <3>1. CASE j = i
      BY <1>22, <3>1
    <3>2. CASE j # i
      <4>1. j \in Elements(running) /\ j \in Requests \ {i}
        BY <1>6, <1>16, <3>2
      <4>2. ~Completed(j)
        BY <1>1, <1>2, <4>1 DEF QueuesOK
      <4> QED
        BY <1>22, <4>1, <4>2
    <3> QED
      BY <3>1, <3>2
  <2> QED
    BY <1>16, <2>1, <2>2, <2>3, <2>4, <2>5 DEF QueuesOK
<1>24. ProgressOK'
  <2>1. ASSUME NEW j \in Requests, j # i
        PROVE  LET q == progress'[j]
               IN /\ q.prefillDone <= Len(Prompt[j]) /\ Len(q.outputTimes) <= Len(Output[j])
                  /\ q.outputTimes # <<>> => q.prefillDone = Len(Prompt[j])
                  /\ \A k \in 1..(Len(q.outputTimes) - 1) : q.outputTimes[k] < q.outputTimes[k + 1]
                  /\ \A k \in DOMAIN q.outputTimes : q.outputTimes[k] <= time
    <3>1. progress'[j] = progress[j]
      BY <1>4, <2>1
    <3> QED
      BY <1>1, <3>1 DEF ProgressOK
  <2>2. LET q == progress'[i]
        IN /\ q.prefillDone <= Len(Prompt[i]) /\ Len(q.outputTimes) <= Len(Output[i])
           /\ q.outputTimes # <<>> => q.prefillDone = Len(Prompt[i])
           /\ \A k \in 1..(Len(q.outputTimes) - 1) : q.outputTimes[k] < q.outputTimes[k + 1]
           /\ \A k \in DOMAIN q.outputTimes : q.outputTimes[k] <= time
    <3>1. progress'[i].prefillDone = h /\ progress'[i].outputTimes = <<>>
      BY <1>4
    <3>2. Len(progress'[i].outputTimes) = 0 /\ DOMAIN progress'[i].outputTimes = {}
          /\ 1..(Len(progress'[i].outputTimes) - 1) = {}
      BY <3>1
    <3> QED
      BY <1>12, <1>21, <3>1, <3>2
  <2> QED
    BY <1>3, <2>1, <2>2 DEF ProgressOK
<1>25. \A n \in Nat : Written(i, n)' <=> n <= h
  <2>1. Made(i)' = Len(Prompt[i]) /\ progress'[i].prefillDone = h
    <3>1. progress'[i].outputTimes = <<>> /\ progress'[i].prefillDone = h
      BY <1>4
    <3>2. Len(progress'[i].outputTimes) = 0
      BY <3>1
    <3> QED
      BY <1>21, <3>1, <3>2 DEF Made
  <2> QED
    BY <1>21, <2>1 DEF Written
<1>26. ASSUME NEW j \in Elements(running)
       PROVE  /\ progress'[j] = progress[j]
              /\ \A n : Written(j, n)' = Written(j, n) /\ Identity(j, n)' = Identity(j, n)
  <2>1. progress'[j] = progress[j]
    BY <1>4, <1>6
  <2>2. \A n : Written(j, n)' = Written(j, n)
    BY <2>1 DEF Written, Made
  <2> QED
    BY <2>1, <2>2 DEF Identity
<1>27. \A b \in Ids : blocks[b].refs # {} => b \in Ids'
  BY <1>15 DEF Active
<1>28. Elements(ids) \subseteq Ids' /\ Elements(hits) \subseteq Ids \cap Ids'
  BY <1>5, <1>12, <1>15
<1>29. TableOK'
  <2>1. ASSUME NEW n \in DOMAIN ids
        PROVE  /\ ids[n] \in Ids' /\ i \in blocks'[ids[n]].refs
               /\ blocks'[ids[n]].computed = Written(i, n)'
               /\ blocks'[ids[n]].identity = Identity(i, n)'
    <3>1. n \in Nat /\ n \in 1..Len(Tokens(i)) /\ ids[n] \in Elements(ids)
      BY <1>5, <1>14 DEF Elements
    <3>2. CASE n <= h
      <4>1. n \in 1..h /\ ids[n] = hits[n]
        BY <1>5, <3>2
      <4>2. /\ hits[n] \in Ids \cap Ids' /\ blocks[hits[n]].computed
            /\ blocks[hits[n]].identity = SubSeq(Tokens(i), 1, n)
        BY <1>12, <1>15, <1>28, <4>1 DEF Elements
      <4>3. /\ i \in blocks'[ids[n]].refs /\ blocks'[ids[n]].computed
            /\ blocks'[ids[n]].identity = SubSeq(Tokens(i), 1, n)
        BY <1>9, <3>1, <4>1, <4>2
      <4>4. Written(i, n)' = TRUE
        BY <1>25, <3>1, <3>2 DEF Written
      <4>5. blocks'[ids[n]].computed = TRUE
        <5>1. blocks'[ids[n]] \in BlockType
          BY <1>8, <1>28, <3>1
        <5>2. blocks'[ids[n]].computed \in BOOLEAN
          BY <5>1 DEF BlockType
        <5> QED
          BY <4>3, <5>2
      <4>6. Identity(i, n)' = SubSeq(Tokens(i), 1, n)
        BY <4>4 DEF Identity
      <4> QED
        BY <1>28, <3>1, <4>3, <4>4, <4>5, <4>6
    <3>3. CASE ~(n <= h)
      <4>1. ids[n] \in Elements(fresh)
        BY <1>5, <3>3
      <4>2. Written(i, n)' = FALSE
        BY <1>25, <3>1, <3>3 DEF Written
      <4>3. Identity(i, n)' = IF n <= Len(Prompt[i]) THEN SubSeq(Tokens(i), 1, n) ELSE None
        BY <4>2 DEF Identity
      <4> QED
        BY <1>10, <1>28, <3>1, <4>1, <4>2, <4>3
    <3> QED
      BY <3>2, <3>3
  <2>2. ASSUME NEW j \in Elements(running), NEW n \in DOMAIN progress[j].blockIds
        PROVE  LET b == progress[j].blockIds[n]
               IN /\ b \in Ids' /\ j \in blocks'[b].refs
                  /\ blocks'[b].computed = Written(j, n)' /\ blocks'[b].identity = Identity(j, n)'
    <3> DEFINE b == progress[j].blockIds[n]
    <3>1. /\ b \in Ids /\ j \in blocks[b].refs
          /\ blocks[b].computed = Written(j, n) /\ blocks[b].identity = Identity(j, n)
      BY <1>1 DEF TableOK
    <3> HIDE DEF b
    <3>2. b \in Ids \cap Ids'
      BY <1>27, <3>1
    <3>3. j \in blocks'[b].refs /\ blocks'[b].computed = blocks[b].computed
          /\ blocks'[b].identity = blocks[b].identity
      BY <1>9, <3>1, <3>2
    <3> QED
      BY <1>26, <3>1, <3>2, <3>3 DEF b
  <2>3. ASSUME NEW j \in Elements(running')
        PROVE  LET q == progress'[j].blockIds
               IN /\ Len(q) = Len(Tokens(j)) /\ IsInjectiveSeq(q)
                  /\ \A n \in DOMAIN q :
                       /\ q[n] \in Ids' /\ j \in blocks'[q[n]].refs
                       /\ blocks'[q[n]].computed = Written(j, n)'
                       /\ blocks'[q[n]].identity = Identity(j, n)'
    <3>1. CASE j = i
      BY <1>4, <1>5, <2>1, <3>1
    <3>2. CASE j \in Elements(running)
      <4>1. progress'[j].blockIds = progress[j].blockIds
        BY <1>26, <3>2
      <4>2. Len(progress[j].blockIds) = Len(Tokens(j)) /\ IsInjectiveSeq(progress[j].blockIds)
        BY <1>1, <3>2 DEF TableOK
      <4> QED
        BY <2>2, <3>2, <4>1, <4>2
    <3> QED
      BY <1>16, <3>1, <3>2
  <2> QED
    BY <2>3 DEF TableOK
<1>30. RefsOK'
  <2>1. ASSUME NEW b \in Ids \cap Ids'
        PROVE  /\ \A j \in blocks'[b].refs : j \in Elements(running') /\ b \in Elements(progress'[j].blockIds)
               /\ ~blocks'[b].computed => \E j \in Requests : blocks'[b].refs = {j}
    <3>1. /\ \A j \in blocks[b].refs : j \in Elements(running) /\ b \in Elements(progress[j].blockIds)
          /\ ~blocks[b].computed => \E j \in Requests : blocks[b].refs = {j}
      BY <1>1 DEF RefsOK
    <3>2. /\ blocks'[b].computed = blocks[b].computed
          /\ blocks'[b].refs = IF b \in Elements(ids) THEN blocks[b].refs \cup {i} ELSE blocks[b].refs
      BY <1>9
    <3>3. \A j \in blocks[b].refs : j \in Elements(running') /\ b \in Elements(progress'[j].blockIds)
      BY <1>16, <1>26, <3>1
    <3>4. b \in Elements(ids) => blocks[b].computed
      <4> SUFFICES ASSUME b \in Elements(ids) PROVE blocks[b].computed
        OBVIOUS
      <4>1. b \in Elements(hits)
        BY <1>5
      <4>2. PICK n \in DOMAIN hits : b = hits[n]
        BY <4>1 DEF Elements
      <4>3. DOMAIN hits = 1..h
        BY <1>12 DEF h
      <4> QED
        BY <1>12, <4>2, <4>3
    <3>5. CASE b \in Elements(ids)
      <4>1. i \in Elements(running') /\ b \in Elements(progress'[i].blockIds)
        BY <1>4, <1>16, <3>5
      <4> QED
        BY <3>2, <3>3, <3>4, <3>5, <4>1
    <3>6. CASE b \notin Elements(ids)
      BY <3>1, <3>2, <3>3, <3>6
    <3> QED
      BY <3>5, <3>6
  <2>2. ASSUME NEW b \in Elements(fresh)
        PROVE  /\ \A j \in blocks'[b].refs : j \in Elements(running') /\ b \in Elements(progress'[j].blockIds)
               /\ \E j \in Requests : blocks'[b].refs = {j}
    <3>1. b \in Elements(ids)
      BY <1>5
    <3>2. PICK n \in DOMAIN ids : b = ids[n]
      BY <3>1 DEF Elements
    <3>3. blocks'[b].refs = {i}
      BY <1>10, <3>2
    <3> QED
      BY <1>4, <1>16, <3>1, <3>3
  <2>3. \A b \in Ids' : b \in Ids \cap Ids' \/ b \in Elements(fresh)
    BY <1>15
  <2> QED
    BY <2>1, <2>2, <2>3 DEF RefsOK
<1>31. PlanOK'
  <2>1. Eligible' = Eligible \ {i}
    <3>1. ASSUME NEW j \in Requests, j # i PROVE j \in Eligible' <=> j \in Eligible
      BY <1>3, <1>4, <3>1 DEF Eligible
    <3>2. i \notin Eligible'
      BY <1>4, <1>20 DEF Eligible
    <3>3. Eligible \subseteq Requests /\ Eligible' \subseteq Requests
      BY DEF Eligible
    <3> QED
      BY <3>1, <3>2, <3>3
  <2>2. ~Finished'
    BY <1>4, <1>22 DEF Finished
  <2>3. ASSUME NEW k \in DOMAIN services'
        PROVE  services'[k].index \in Elements(running') \ Elements(todo')
    <3>1. Elements(todo') = {}
      BY <1>2, <1>3 DEF Elements
    <3>2. CASE k \in DOMAIN services /\ services'[k] = services[k]
      BY <1>1, <1>2, <1>16, <3>1, <3>2 DEF PlanOK
    <3>3. CASE services'[k] = s
      BY <1>13, <1>16, <3>1, <3>3
    <3> QED
      BY <1>17, <3>2, <3>3
  <2>4. ASSUME NEW k \in DOMAIN services' PROVE ServiceOK(services[k])'
    <3>1. CASE k \in DOMAIN services /\ services'[k] = services[k]
      <4>1. services[k].index \in Elements(running) /\ ServiceOK(services[k])
        BY <1>1, <1>2, <3>1 DEF PlanOK
      <4>2. progress'[services[k].index] = progress[services[k].index]
        BY <1>26, <4>1
      <4> QED
        BY <3>1, <4>1, <4>2 DEF ServiceOK
    <3>2. CASE services'[k] = s
      BY <1>4, <1>13, <3>2 DEF ServiceOK
    <3> QED
      BY <1>17, <3>1, <3>2
  <2>5. IsInjectiveSeq(todo') /\ Elements(todo') \subseteq Elements(running') /\ phase' = "plan"
    BY <1>2, <1>3 DEF IsInjectiveSeq, Elements
  <2> QED
    BY <1>7, <1>17, <2>1, <2>2, <2>3, <2>4, <2>5 DEF PlanOK
<1>32. WorkOK'
  <2>1. ASSUME NEW j \in Requests
        PROVE  Units(j) \in Nat /\ Units(j)' \in Nat /\ Units(j)' >= Units(j)
    <3>1. Units(j) \in Nat
      BY <1>1, UnitsFacts
    <3>2. CASE j = i
      <4>1. Units(i) = 0
        <5>1. progress[i].prefillDone = 0 /\ progress[i].outputTimes = <<>>
          BY <1>4 DEF NoProgress
        <5> QED
          BY <5>1 DEF Units
      <4>2. Units(i)' = h
        <5>1. progress'[i].prefillDone = h /\ Len(progress'[i].outputTimes) = 0
          BY <1>4
        <5> QED
          BY <1>12, <5>1 DEF Units
      <4> QED
        BY <1>12, <3>2, <4>1, <4>2
    <3>3. CASE j # i
      BY <1>4, <3>1, <3>3 DEF Units
    <3> QED
      BY <3>2, <3>3
  <2>2. DoneWithin'
    <3>1. TypeOK' /\ ProgressOK' => DoneWithin'
      BY DoneFits, PTL
    <3> QED
      BY <1>18, <1>24, <3>1
  <2>3. events \in Nat /\ phase' # "leaving" /\ phase # "leaving"
    BY <1>1, <1>2, <1>3 DEF TypeOK
  <2> QED
    BY <1>1, <1>3, <1>6, <2>1, <2>2, <2>3, WorkKept
<1> QED
  BY <1>18, <1>19, <1>23, <1>24, <1>29, <1>30, <1>31, <1>32 DEF Inductive

-----------------------------------------------------------------------------
(* The theorems *)

(* Inductive is an invariant: every action of an iteration, the idle jump,  *)
(* and the start of the search keep it.                                     *)
THEOREM InductiveInvariant == Spec => []Inductive
<1>1. Init => Inductive
  BY InitFresh, FreshInductive
<1>2. Inductive /\ [Next]_vars => Inductive'
  <2> SUFFICES ASSUME Inductive, [Next]_vars PROVE Inductive'
    OBVIOUS
  <2> QED
    BY ChooseStep, RunStep, AdmitStep, ServeStep, LeaveStep, IdleStep, FinishStep, SearchStep,
       StutterStep DEF Next
<1> QED
  BY <1>1, <1>2, PTL DEF Spec

(* check_state() never fails, whatever order the search takes: after every  *)
(* iteration each running request owns one block for each of its tokens,    *)
(* with what it is computed to hold, references and owners agree, and what  *)
(* nobody uses is whole.                                                    *)
THEOREM StateIsChecked == Spec => []CheckState
<1>1. Inductive => CheckState
  <2> SUFFICES ASSUME Inductive, phase \in {"choose", "pruned", "finished"} PROVE CheckState
    BY DEF CheckState
  <2>1. TypeOK /\ PoolOK /\ QueuesOK /\ ProgressOK /\ TableOK /\ RefsOK
    BY DEF Inductive
  <2>2. ASSUME NEW i \in Requests
        PROVE  i \in Elements(running) <=> progress[i].admittedAt # None /\ ~Completed(i)
    BY <2>1 DEF QueuesOK
  <2>3. ASSUME NEW i \in Requests, i \in Elements(running)
        PROVE  progress[i].admittedAt >= Arrival[i]
    <3>1. progress[i].admittedAt # None /\ Arrival[i] <= progress[i].admittedAt
      BY <2>1, <2>3 DEF QueuesOK
    <3>2. Arrival[i] \in Nat /\ progress[i].admittedAt \in Nat
      BY <2>1, <3>1, Demands DEF TypeOK, ProgressType
    <3> QED
      BY <3>1, <3>2
  <2>4. ASSUME NEW i \in Requests, i \in Elements(running)
        PROVE  LET p == progress[i] made == Len(p.outputTimes)
               IN /\ Len(p.blockIds) = Len(Tokens(i)) /\ IsInjectiveSeq(p.blockIds)
                  /\ \A n \in DOMAIN p.blockIds :
                       LET b == p.blockIds[n]
                           written == n <= p.prefillDone \/ n \in (Len(Prompt[i]) + 1)..(Len(Prompt[i]) + made)
                       IN /\ b \in Ids /\ i \in blocks[b].refs
                          /\ blocks[b].computed = written
                          /\ blocks[b].identity = IF written \/ n <= Len(Prompt[i])
                                                    THEN SubSeq(Tokens(i), 1, n) ELSE None
    BY <2>1, <2>4 DEF TableOK, Written, Identity, Made
  <2>5. ASSUME NEW i \in Requests
        PROVE  LET p == progress[i]
               IN \A k \in 1..(Len(p.outputTimes) - 1) : p.outputTimes[k] < p.outputTimes[k + 1]
    BY <2>1 DEF ProgressOK
  <2>6. ASSUME NEW b \in Ids
        PROVE  /\ \A i \in blocks[b].refs : i \in Elements(running) /\ b \in Elements(progress[i].blockIds)
               /\ blocks[b].refs = {} => blocks[b].computed
    BY <2>1 DEF RefsOK
  <2>7. Cardinality(Ids) <= KvBlocks /\ Len(running) <= MaxSequences /\ IsInjectiveSeq(running)
    BY <2>1 DEF PoolOK, QueuesOK
  <2> QED
    BY <2>2, <2>3, <2>4, <2>5, <2>6, <2>7 DEF CheckState
<1> QED
  BY <1>1, InductiveInvariant, PTL

(* What an iteration may still do is less than what there is in all.        *)
LEMMA WorkLeft ==
  ASSUME Inductive, ~Finished
  PROVE  Cardinality(Done) + Cardinality(Arrived) < WorkBound
<1>1. TypeOK /\ ProgressOK
  BY DEF Inductive
<1>2. PICK i \in Requests : ~Completed(i)
  BY DEF Finished
<1> DEFINE u == Units(i)
           t == Len(Tokens(i))
<1>3. u \in Nat /\ t \in Nat /\ u < t
  <2> DEFINE l == Len(Prompt[i])
             k == Len(Output[i])
             d == progress[i].prefillDone
             m == Len(progress[i].outputTimes)
  <2>1. l \in Nat /\ k \in Nat /\ t = l + k
    BY Demands
  <2>2. d \in Nat /\ m \in Nat /\ u = d + m
    BY <1>1, ProgressFacts DEF Units
  <2>3. d <= l /\ m <= k /\ m # k
    BY <1>1, <1>2 DEF ProgressOK, Completed
  <2> HIDE DEF l, k, d, m, u, t
  <2> QED
    BY <2>1, <2>2, <2>3
<1> HIDE DEF u, t
<1>4. <<i, t>> \in Work
  <2>1. t \in 1..t /\ DOMAIN Tokens(i) = 1..t
    BY <1>3, Demands DEF t
  <2> QED
    BY <2>1 DEF Work
<1>5. <<i, t>> \notin Done
  <2>1. Done = UNION {{j} \X (1..Units(j)) : j \in Requests}
    BY DEF Done, Units
  <2>2. t \notin 1..Units(i)
    BY <1>3 DEF u
  <2> QED
    BY <2>1, <2>2
<1>6. DoneWithin
  BY <1>1, DoneFits
<1>7. Done \in SUBSET Work /\ Done # Work
  BY <1>4, <1>5, <1>6 DEF DoneWithin
<1>8. Cardinality(Done) <= Cardinality(Work) /\ Cardinality(Done) # Cardinality(Work)
  BY <1>7, WorkFinite, FS_Subset
<1>9. /\ Cardinality(Done) \in Nat /\ Cardinality(Work) \in Nat /\ N \in Nat
      /\ Cardinality(Arrived) \in Nat /\ Cardinality(Arrived) <= N
  BY <1>6, Counts, WorkFinite, Sizes
<1>10. WorkBound = Cardinality(Work) + N
  BY DEF WorkBound, Work
<1> QED
  BY <1>8, <1>9, <1>10

(* In an empty engine there is room for any request.                        *)
LEMMA EmptyFits ==
  ASSUME Inductive, running = <<>>, NEW i \in Requests
  PROVE  Fits(i)
<1>1. TypeOK /\ RefsOK
  BY DEF Inductive
<1>2. Active = {}
  <2>1. Elements(running) = {}
    BY DEF Elements
  <2>2. \A b \in Ids : blocks[b].refs = {}
    <3> SUFFICES ASSUME NEW b \in Ids, NEW j \in blocks[b].refs PROVE FALSE
      OBVIOUS
    <3> QED
      BY <1>1, <2>1 DEF RefsOK
  <2> QED
    BY <2>2 DEF Active
<1> DEFINE hits == PrefixBlocks(i)
           h == Len(hits)
           t == Len(Tokens(i))
<1>3. hits \in Seq(Nat) /\ IsInjectiveSeq(hits) /\ h \in Nat
  BY <1>1, HitsFacts
<1>4. Cardinality(Elements(hits)) = h
  BY <1>3, InjectiveCardinality
<1>5. t \in Int /\ t <= KvBlocks /\ KvBlocks \in Nat
  <2>1. Tokens(i) \in Seq(Int) /\ t <= KvBlocks
    BY Demands
  <2> QED
    BY <2>1, Sizes
<1>6. Needed(i) = t - h
  BY DEF Needed
<1>7. Available(i) = KvBlocks - h
  <2> DEFINE a == Cardinality(Active)
             u == Cardinality(Elements(hits) \ Active)
  <2>1. a = 0 /\ u = h
    <3>1. Elements(hits) \ Active = Elements(hits)
      BY <1>2
    <3> QED
      BY <1>2, <1>4, <3>1, FS_EmptySet
  <2>2. Available(i) = KvBlocks - a - u
    BY DEF Available
  <2> HIDE DEF h, a, u
  <2> QED
    BY <1>3, <1>5, <2>1, <2>2
<1> HIDE DEF h, t
<1> QED
  BY <1>3, <1>5, <1>6, <1>7 DEF Fits

(* transition() never finds itself with nobody to serve and nothing to wait *)
(* for, a batch keeps to its budget, and replay's bound on iterations is    *)
(* one that a replay, finished or not, does not reach.                      *)
THEOREM IterationsServe == Spec => []AlwaysServes
<1>1. Inductive => AlwaysServes
  <2> SUFFICES ASSUME Inductive PROVE AlwaysServes
    OBVIOUS
  <2>1. TypeOK /\ QueuesOK /\ ProgressOK /\ PlanOK /\ WorkOK
    BY DEF Inductive
  <2>2. ASSUME phase = "choose", ~Finished PROVE events < WorkBound
    <3>1. Cardinality(Done) + Cardinality(Arrived) < WorkBound
      BY <2>2, WorkLeft
    <3>2. events \in Nat /\ events <= Cardinality(Done) + Cardinality(Arrived)
      BY <2>1, <2>2 DEF TypeOK, WorkOK
    <3>3. /\ Cardinality(Done) \in Nat /\ Cardinality(Arrived) \in Nat /\ WorkBound \in Nat
      BY <2>1, DoneFits, Counts, WorkFinite, Sizes DEF WorkBound, Work
    <3> QED
      BY <3>1, <3>2, <3>3
  <2>3. ASSUME Planned, ~CanAdmit, services = <<>>
        PROVE  running = <<>> /\ Eligible = {} /\ Future # {}
    <3>1. /\ phase = "plan" /\ (todo = <<>> \/ budget = 0)
          /\ ~Finished /\ Elements(order) = Eligible
          /\ todo = running /\ budget = TokenBudget
      BY <2>1, <2>3 DEF Planned, PlanOK
    <3>2. running = <<>> /\ budget > 0
      BY <3>1, Sizes
    <3>3. Eligible = {}
      <4> SUFFICES ASSUME Eligible # {} PROVE FALSE
        OBVIOUS
      <4>1. order \in Seq(Requests) /\ order # <<>>
        BY <2>1, <3>1 DEF TypeOK, Elements
      <4>2. Head(order) \in Requests
        BY <4>1
      <4>3. Fits(Head(order))
        BY <3>2, <4>2, EmptyFits
      <4>4. Len(running) < MaxSequences
        BY <3>2, Sizes
      <4> QED
        BY <2>3, <3>2, <4>1, <4>3, <4>4 DEF CanAdmit
    <3>4. PICK i \in Requests : ~Completed(i)
      BY <3>1 DEF Finished
    <3>5. progress[i].admittedAt = None
      BY <2>1, <3>2, <3>4 DEF QueuesOK, Elements
    <3>6. Arrival[i] > time
      <4>1. Arrival[i] \in Nat /\ time \in Nat
        BY <2>1, Demands DEF TypeOK
      <4>2. ~(Arrival[i] <= time)
        BY <3>3, <3>5 DEF Eligible
      <4> QED
        BY <4>1, <4>2
    <3>7. Arrival[i] \in Future
      BY <3>5, <3>6 DEF Future
    <3> QED
      BY <3>2, <3>3, <3>7
  <2>4. ASSUME phase = "plan" PROVE budget >= 0 /\ budget + Cardinality(Batch) = TokenBudget
    BY <2>1, <2>4 DEF TypeOK, PlanOK
  <2> QED
    BY <2>2, <2>3, <2>4 DEF AlwaysServes
<1> QED
  BY <1>1, InductiveInvariant, PTL
=============================================================================
