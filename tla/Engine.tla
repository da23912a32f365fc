------------------------------- MODULE Engine -------------------------------
(***************************************************************************)
(* One serving instance of the routing simulator: class Engine of           *)
(* routing_sim.py, and the part of simulate() that drives it.               *)
(*                                                                         *)
(* The code runs in one thread.  A call of schedule() or finish_step() is   *)
(* a loop; here each iteration is one action and `phase` forces the order   *)
(* of the code.  Only a request's arrival comes at a time of its own, and   *)
(* only between two events of the simulator's heap: while the instance is   *)
(* idle or while a step is in flight, never inside schedule/finish_step.    *)
(*                                                                         *)
(* Left out: the clock and the cost model (the order of events is left      *)
(* open instead), and the counter `preempted`, which nothing reads.         *)
(*                                                                         *)
(* A definition whose name begins with Faulty is a variant of the one after *)
(* it with a bug in it.  No action uses it: it is there to show that the    *)
(* properties notice such a bug (see "mutants" in PROJECT.json).            *)
(***************************************************************************)
EXTENDS Integers, Sequences, FiniteSets, Sublists

CONSTANTS
  Requests,      \* the requests of the trace
  InputLen,      \* prompt tokens of each
  OutputLen,     \* output tokens of each
  PromptKeys,    \* SimRequest.keys: the keys of the full prompt blocks, in order
  Block,         \* BLOCK: tokens in a cache block
  NumBlocks,     \* EngineConfig.num_blocks
  TokenBudget,   \* EngineConfig.token_budget
  MaxSeqs,       \* EngineConfig.max_seqs
  NoKey          \* block_key of a block that caches nothing

Blocks == 1..NumBlocks
NoHit == -1      \* engine_hit before the first admission

CeilBlocks(tokens) == (tokens + Block - 1) \div Block

LeastOf(a, b) == IF a <= b THEN a ELSE b

(* SimRequest.key(i): the prompt's keys, then keys no other request has. *)
OutKey(r, j) == <<r, j>>
Key(r, i) == IF i < Len(PromptKeys[r])
               THEN PromptKeys[r][i + 1]
               ELSE OutKey(r, i - Len(PromptKeys[r]))

KeysOf(r) == {Key(r, i) : i \in 0..(InputLen[r] + OutputLen[r])}
Keys == UNION {KeysOf(r) : r \in Requests}

ASSUME SizesAssumption ==
  /\ Block \in Nat \ {0}
  /\ NumBlocks \in Nat \ {0}
  /\ TokenBudget \in Nat \ {0}
  /\ MaxSeqs \in Nat \ {0}

(* load_trace never yields an empty output and keys one per full block.  An *)
(* empty prompt is not in the traces.                                       *)
ASSUME RequestsAssumption ==
  /\ IsFiniteSet(Requests)
  /\ InputLen \in [Requests -> Nat \ {0}]
  /\ OutputLen \in [Requests -> Nat \ {0}]
  /\ \A r \in Requests : Len(PromptKeys[r]) = InputLen[r] \div Block

(* A block's key stands for the whole prefix up to it, so a request never   *)
(* has one twice, and a key of a full prompt block is no one's output key.  *)
ASSUME KeysAssumption ==
  /\ NoKey \notin Keys
  /\ \A r \in Requests : PromptKeys[r] \in Seq(Keys)
  /\ \A r \in Requests : \A i, j \in 0..(InputLen[r] + OutputLen[r]) :
       Key(r, i) = Key(r, j) => i = j

(* Each request fits the pool alone: the last token's key-value pairs are   *)
(* never computed.  The code does not check it: with a larger request at    *)
(* its head the queue never moves again (see the README).                   *)
FitsAlone == \A r \in Requests : CeilBlocks(InputLen[r] + OutputLen[r] - 1) <= NumBlocks
ASSUME FitsAssumption == FitsAlone

VARIABLES
  \* the block pool
  free,          \* OrderedDict of unreferenced blocks, next to evict first
  blockKey,      \* block -> the key it caches, or NoKey
  ref,           \* block -> how many block tables hold it
  cached,        \* dict key -> block
  \* the requests
  rank,          \* 0, or the position of the request among the arrivals
  computed,      \* tokens whose key-value pairs are in the table's blocks
  generated,     \* output tokens so far
  table,         \* block table
  engineHit,     \* tokens found cached at the first admission, or NoHit
  first,         \* first_ms is set
  done,          \* done_ms is set
  \* the scheduler
  waiting,       \* deque of requests to admit
  running,       \* admitted requests
  phase,         \* where the simulator is; "idle" is busy = False
  plan,          \* what the step computes: <<request, new tokens>>, in order
  budget, cursor, preempted   \* the locals of schedule()

pool == <<free, blockKey, ref, cached>>
requests == <<rank, computed, generated, table, engineHit, first, done>>
scheduler == <<waiting, running, phase, plan, budget, cursor, preempted>>
vars == <<pool, requests, scheduler>>

Phases == {"idle", "running", "admit", "step", "finish"}

Length(r) == InputLen[r] + generated[r]
Arrived == {r \in Requests : rank[r] > 0}

Init ==
  /\ free = [b \in Blocks |-> b]
  /\ blockKey = [b \in Blocks |-> NoKey]
  /\ ref = [b \in Blocks |-> 0]
  /\ cached = [k \in {} |-> NoKey]
  /\ rank = [r \in Requests |-> 0]
  /\ computed = [r \in Requests |-> 0]
  /\ generated = [r \in Requests |-> 0]
  /\ table = [r \in Requests |-> <<>>]
  /\ engineHit = [r \in Requests |-> NoHit]
  /\ first = [r \in Requests |-> FALSE]
  /\ done = [r \in Requests |-> FALSE]
  /\ waiting = <<>>
  /\ running = <<>>
  /\ phase = "idle"
  /\ plan = <<>>
  /\ budget = 0
  /\ cursor = 1
  /\ preempted = FALSE

-----------------------------------------------------------------------------
(* The block pool *)

FaultyTakeFreeKeepsKeys(from, n) ==
  LET taken == {from[i] : i \in 1..n}
  IN /\ free' = SubSeq(from, n + 1, Len(from))
     /\ blockKey' = blockKey
     /\ cached' = [k \in {x \in DOMAIN cached : x \notin {blockKey[b] : b \in taken}}
                     |-> cached[k]]
FaultyTakeFreeKeepsCached(from, n) ==
  LET taken == {from[i] : i \in 1..n}
  IN /\ free' = SubSeq(from, n + 1, Len(from))
     /\ blockKey' = [b \in Blocks |-> IF b \in taken THEN NoKey ELSE blockKey[b]]
     /\ cached' = cached

(* _pop_free, n times: the first n free blocks, each leaving the cache.     *)
TakeFree(from, n) ==
  LET taken == {from[i] : i \in 1..n}
  IN /\ free' = SubSeq(from, n + 1, Len(from))
     /\ blockKey' = [b \in Blocks |-> IF b \in taken THEN NoKey ELSE blockKey[b]]
     /\ cached' = [k \in {x \in DOMAIN cached : x \notin {blockKey[b] : b \in taken}}
                     |-> cached[k]]

FaultyReleasesShared(r) ==
  /\ free' = free \o Backwards(table[r])
  /\ ref' = [b \in Blocks |-> IF b \in Elements(table[r]) THEN ref[b] - 1 ELSE ref[b]]

(* _release: the table's blocks, last first, each freed at its last holder. *)
ReleasedPool(r) ==
  LET last == {b \in Elements(table[r]) : ref[b] = 1}
  IN /\ free' = free \o Sublist(Backwards(table[r]), last)
     /\ ref' = [b \in Blocks |-> IF b \in Elements(table[r]) THEN ref[b] - 1 ELSE ref[b]]

(* hit_blocks, for the first n keys of r: the longest cached prefix. *)
HitBlocks(r, n) ==
  CHOOSE h \in 0..n : /\ \A i \in 0..(h - 1) : Key(r, i) \in DOMAIN cached
                      /\ h = n \/ Key(r, h) \notin DOMAIN cached

FaultyCachesPartialBlock(r, tokens) ==
  {i \in 1..CeilBlocks(tokens) : /\ blockKey[table[r][i]] = NoKey
                                 /\ Key(r, i - 1) \notin DOMAIN cached}

FaultyCachesBeforeCounting(r, tokens) ==
  {i \in 1..(computed[r] \div Block) : /\ blockKey[table[r][i]] = NoKey
                                       /\ Key(r, i - 1) \notin DOMAIN cached}

(* _cache_full: every full block of r that caches nothing, and whose key no *)
(* other block has, becomes that key's block.                               *)
NewlyFull(r, tokens) ==
  {i \in 1..(tokens \div Block) : /\ blockKey[table[r][i]] = NoKey
                                  /\ Key(r, i - 1) \notin DOMAIN cached}
CacheFull(r, tokens) ==
  LET new == NewlyFull(r, tokens)
      newKeys == {Key(r, i - 1) : i \in new}
  IN /\ blockKey' = [b \in Blocks |->
           IF \E i \in new : table[r][i] = b
             THEN Key(r, (CHOOSE i \in new : table[r][i] = b) - 1)
             ELSE blockKey[b]]
     /\ cached' = [k \in DOMAIN cached \cup newKeys |->
           IF k \in newKeys THEN table[r][CHOOSE i \in new : Key(r, i - 1) = k]
                            ELSE cached[k]]

-----------------------------------------------------------------------------
(* schedule() *)

(* start() calls schedule(): its locals are set and the first loop begins. *)
BeginSchedule ==
  /\ phase' = "running"
  /\ budget' = TokenBudget
  /\ cursor' = 1
  /\ preempted' = FALSE

(* The plan is returned: a step goes in flight, or the instance goes idle.  *)
ReturnPlan == phase' = IF plan = <<>> THEN "idle" ELSE "step"

(* A request arrives (simulate, event kind 0).  An idle instance starts.    *)
Submit(r) ==
  /\ phase \in {"idle", "step"}
  /\ rank[r] = 0
  /\ rank' = [rank EXCEPT ![r] = Cardinality(Arrived) + 1]
  /\ waiting' = Append(waiting, r)
  /\ IF phase = "idle" THEN BeginSchedule
                       ELSE UNCHANGED <<phase, budget, cursor, preempted>>
  /\ UNCHANGED <<pool, computed, generated, table, engineHit, first, done, running, plan>>

InRunningLoop == phase = "running" /\ cursor <= Len(running) /\ budget > 0
Want(r) == LeastOf(Length(r) - computed[r], budget)
FaultyNeedsSpareBlock(r) == CeilBlocks(computed[r] + Want(r)) + 1 - Len(table[r])
Need(r) == CeilBlocks(computed[r] + Want(r)) - Len(table[r])

(* The running request at the cursor gets the blocks it needs. *)
PlanRunning ==
  /\ InRunningLoop
  /\ LET r == running[cursor]
     IN /\ Need(r) <= Len(free)
        /\ TakeFree(free, Need(r))
        /\ ref' = [b \in Blocks |-> IF \E i \in 1..Need(r) : free[i] = b THEN 1 ELSE ref[b]]
        /\ table' = [table EXCEPT ![r] = @ \o SubSeq(free, 1, Need(r))]
        /\ plan' = Append(plan, <<r, Want(r)>>)
        /\ budget' = budget - Want(r)
  /\ cursor' = cursor + 1
  /\ UNCHANGED <<rank, computed, generated, engineHit, first, done,
                 waiting, running, phase, preempted>>

FaultyRequeueLast(victim) == Append(waiting, victim)
FaultyRequeueNever(victim) == waiting

Requeue(victim) == <<victim>> \o waiting

(* Out of blocks: the last running request gives up its own and goes to the *)
(* head of the queue, to be recomputed.  If that is the request at the      *)
(* cursor, scheduling ends there.                                           *)
Preempt ==
  /\ InRunningLoop
  /\ LET r == running[cursor]
         victim == running[Len(running)]
     IN /\ Need(r) > Len(free)
        /\ ReleasedPool(victim)
        /\ table' = [table EXCEPT ![victim] = <<>>]
        /\ computed' = [computed EXCEPT ![victim] = 0]
        /\ running' = SubSeq(running, 1, Len(running) - 1)
        /\ waiting' = Requeue(victim)
        /\ preempted' = TRUE
        /\ IF victim = r THEN ReturnPlan ELSE UNCHANGED phase
  /\ UNCHANGED <<blockKey, cached, rank, generated, engineHit, first, done,
                 plan, budget, cursor>>

(* The first loop is over; nothing is admitted after a preemption. *)
EndRunning ==
  /\ phase = "running"
  /\ ~InRunningLoop
  /\ IF preempted THEN ReturnPlan ELSE phase' = "admit"
  /\ UNCHANGED <<pool, requests, waiting, running, plan, budget, cursor, preempted>>

(* What admitting the head of the queue would take: its prefix hit, short   *)
(* of the last prompt token, and blocks for the chunk that follows.         *)
InAdmitLoop == phase = "admit" /\ waiting # <<>> /\ budget > 0 /\ Len(running) < MaxSeqs
Hit(r) == LeastOf(HitBlocks(r, Length(r) \div Block), (Length(r) - 1) \div Block)
HitTable(r) == [i \in 1..Hit(r) |-> cached[Key(r, i - 1)]]
FaultyChunkUnbounded(r) == Length(r) - Hit(r) * Block
Chunk(r) == LeastOf(Length(r) - Hit(r) * Block, budget)
ChunkBlocks(r) == CeilBlocks(Hit(r) * Block + Chunk(r)) - Hit(r)
FaultyEvictableIgnored(r) == 0
Evictable(r) == Cardinality({i \in 1..Hit(r) : ref[HitTable(r)[i]] = 0})
Fits(r) == ChunkBlocks(r) + Evictable(r) <= Len(free)
FaultyHitLatest(r) == Hit(r) * Block
ReportedHit(r) == IF engineHit[r] = NoHit THEN Hit(r) * Block ELSE engineHit[r]

(* The head of the queue is admitted.  _grow may still fail: the code       *)
(* ignores its answer, and the table would then be too short.               *)
Admit ==
  /\ InAdmitLoop
  /\ LET r == Head(waiting)
         hits == Elements(HitTable(r))
         left == Sublist(free, Elements(free) \ hits)
         got == IF ChunkBlocks(r) <= Len(left) THEN ChunkBlocks(r) ELSE 0
         fresh == {left[i] : i \in 1..got}
     IN /\ Fits(r)
        /\ TakeFree(left, got)
        /\ ref' = [b \in Blocks |-> IF b \in fresh THEN 1
                                    ELSE IF b \in hits THEN ref[b] + 1 ELSE ref[b]]
        /\ table' = [table EXCEPT ![r] = HitTable(r) \o SubSeq(left, 1, got)]
        /\ computed' = [computed EXCEPT ![r] = Hit(r) * Block]
        /\ engineHit' = [engineHit EXCEPT ![r] = ReportedHit(r)]
        /\ running' = Append(running, r)
        /\ plan' = Append(plan, <<r, Chunk(r)>>)
        /\ budget' = budget - Chunk(r)
  /\ waiting' = Tail(waiting)
  /\ UNCHANGED <<rank, generated, first, done, phase, cursor, preempted>>

(* Nothing waits, or the head does not fit: those behind it wait with it.   *)
EndAdmit ==
  /\ phase = "admit"
  /\ ~(InAdmitLoop /\ Fits(Head(waiting)))
  /\ ReturnPlan
  /\ UNCHANGED <<pool, requests, waiting, running, plan, budget, cursor, preempted>>

-----------------------------------------------------------------------------
(* finish_step(), over the requests of the plan *)

(* The step's event is taken from the heap (simulate, event kind 1). *)
StepDue ==
  /\ phase = "step"
  /\ phase' = "finish"
  /\ UNCHANGED <<pool, requests, waiting, running, plan, budget, cursor, preempted>>

InFinishLoop == phase = "finish" /\ plan # <<>>
Finishing == plan[1][1]
Reached == computed[Finishing] + plan[1][2]
CountStep ==
  /\ computed' = [computed EXCEPT ![Finishing] = Reached]
  /\ plan' = Tail(plan)
  /\ CacheFull(Finishing, Reached)
EmitToken ==
  /\ generated' = [generated EXCEPT ![Finishing] = @ + 1]
  /\ first' = [first EXCEPT ![Finishing] = TRUE]

(* A prefill chunk, with more of the sequence to compute. *)
FinishChunk ==
  /\ InFinishLoop
  /\ Reached < Length(Finishing)
  /\ CountStep
  /\ UNCHANGED <<free, ref, rank, generated, table, engineHit, first, done,
                 waiting, running, phase, budget, cursor, preempted>>

(* The sequence is computed: one more token, not the last. *)
FinishToken ==
  /\ InFinishLoop
  /\ Reached >= Length(Finishing)
  /\ generated[Finishing] + 1 < OutputLen[Finishing]
  /\ CountStep
  /\ EmitToken
  /\ UNCHANGED <<free, ref, rank, table, engineHit, done,
                 waiting, running, phase, budget, cursor, preempted>>

(* The last token: the request leaves and its blocks return to the pool,    *)
(* still cached.                                                            *)
FinishRequest ==
  /\ InFinishLoop
  /\ Reached >= Length(Finishing)
  /\ generated[Finishing] + 1 >= OutputLen[Finishing]
  /\ CountStep
  /\ EmitToken
  /\ done' = [done EXCEPT ![Finishing] = TRUE]
  /\ running' = Without(running, Finishing)
  /\ ReleasedPool(Finishing)
  /\ table' = [table EXCEPT ![Finishing] = <<>>]
  /\ UNCHANGED <<rank, engineHit, waiting, phase, budget, cursor, preempted>>

FaultyRestartsOnlyRunning ==
  /\ phase = "finish"
  /\ plan = <<>>
  /\ IF running # <<>> THEN BeginSchedule
                       ELSE phase' = "idle" /\ UNCHANGED <<budget, cursor, preempted>>
  /\ UNCHANGED <<pool, requests, waiting, running, plan>>

(* finish_step returns, and start() schedules the next step at once. *)
NextStep ==
  /\ phase = "finish"
  /\ plan = <<>>
  /\ BeginSchedule
  /\ UNCHANGED <<pool, requests, waiting, running, plan>>

(* The heap is empty and every request of the trace has been answered. *)
Finished ==
  /\ \A r \in Requests : done[r]
  /\ phase = "idle"
  /\ UNCHANGED vars

EngineStep ==
  \/ PlanRunning \/ Preempt \/ EndRunning \/ Admit \/ EndAdmit
  \/ StepDue \/ FinishChunk \/ FinishToken \/ FinishRequest \/ NextStep

Next == (\E r \in Requests : Submit(r)) \/ EngineStep \/ Finished

Spec == Init /\ [][Next]_vars

(* Events in the heap are taken in time order, and every step ends at a     *)
(* finite time, so a step in flight is taken.  Arrivals are owed nothing.   *)
FairSpec == Spec /\ WF_vars(EngineStep)

-----------------------------------------------------------------------------
(* Properties *)

Holders(b) == {r \in Requests : b \in Elements(table[r])}
InPlan == {plan[p][1] : p \in DOMAIN plan}
Queue == running \o waiting

(* Every variable keeps its type. *)
TypeOK ==
  /\ free \in Seq(Blocks)
  /\ blockKey \in [Blocks -> Keys \cup {NoKey}]
  /\ ref \in [Blocks -> Nat]
  /\ DOMAIN cached \subseteq Keys /\ \A k \in DOMAIN cached : cached[k] \in Blocks
  /\ rank \in [Requests -> Nat]
  /\ computed \in [Requests -> Nat]
  /\ generated \in [Requests -> Nat]
  /\ table \in [Requests -> Seq(Blocks)]
  /\ engineHit \in [Requests -> Nat \cup {NoHit}]
  /\ first \in [Requests -> BOOLEAN]
  /\ done \in [Requests -> BOOLEAN]
  /\ waiting \in Seq(Requests)
  /\ running \in Seq(Requests)
  /\ phase \in Phases
  /\ plan \in Seq(Requests \X Nat)
  /\ budget \in 0..TokenBudget
  /\ cursor \in Nat \ {0}
  /\ preempted \in BOOLEAN

(* No block leaks and none is given out twice: a block's count is the       *)
(* number of tables that hold it, and the free queue holds exactly the      *)
(* blocks of count zero, each once, across shared prefixes, preemptions and *)
(* completions.                                                             *)
PoolAccounting ==
  /\ \A b \in Blocks : ref[b] = Cardinality(Holders(b))
  /\ \A r \in Requests : IsInjectiveSeq(table[r])
  /\ IsInjectiveSeq(free)
  /\ Elements(free) = {b \in Blocks : ref[b] = 0}

(* The two maps of the prefix cache, kept apart in the code, agree. *)
CacheBijection ==
  \A b \in Blocks, k \in Keys : blockKey[b] = k <=> (k \in DOMAIN cached /\ cached[k] = b)

(* A cached prefix is the right one: a full block of a running request that *)
(* is in the cache is there under the key of its place in that request, so  *)
(* a block is never relabelled or evicted under a request that reads it.    *)
ContentRight ==
  \A r \in Elements(running) : \A i \in 1..(computed[r] \div Block) :
    blockKey[table[r][i]] \in {NoKey, Key(r, i - 1)}

(* The table of a planned request covers the tokens the step computes (the  *)
(* code drops the answer of _grow when it admits), at least one and never   *)
(* past the end of the sequence, within the step's budget.                  *)
PlanCovered ==
  \A p \in DOMAIN plan :
    LET r == plan[p][1] n == plan[p][2]
    IN /\ r \in Elements(running)
       /\ \A q \in DOMAIN plan : plan[q][1] = r => q = p
       /\ n \in 1..TokenBudget
       /\ computed[r] + n <= Length(r)
       /\ Len(table[r]) = CeilBlocks(computed[r] + n)

(* What a step in flight writes is its own: a block that a planned request  *)
(* is about to fill has no second holder and no cache entry.                *)
WriteExclusive ==
  phase \in {"step", "finish"} =>
    \A p \in DOMAIN plan :
      LET r == plan[p][1]
      IN \A i \in (computed[r] \div Block + 1)..CeilBlocks(computed[r] + plan[p][2]) :
           ref[table[r][i]] = 1 /\ blockKey[table[r][i]] = NoKey

(* First come, first served, and nobody lost: the running requests followed *)
(* by the waiting ones are exactly the arrived and unanswered, each once,   *)
(* in the order they came, however often some of them were preempted.       *)
NoOvertaking ==
  /\ Elements(Queue) = {r \in Arrived : ~done[r]}
  /\ \A i, j \in DOMAIN Queue : i < j => rank[Queue[i]] < rank[Queue[j]]

(* No lost wakeup: the instance is idle only when it has nothing to do, so  *)
(* an arrival is the only thing that need start it.                         *)
IdleMeansEmpty == phase = "idle" => Queue = <<>>

(* The reported hit counts prompt tokens only: it is taken at the first     *)
(* admission, so a recomputed request's own output never adds to it, and    *)
(* the last prompt token is always computed.                                *)
HitIsPrompt == \A r \in Requests : engineHit[r] < InputLen[r]

(* The oldest running request is never preempted: it stays at the head,     *)
(* with its blocks, until it is answered, so preemption cannot livelock.    *)
OldestKeepsRunning ==
  [][running # <<>> /\ ~done'[running[1]]
       => running' # <<>> /\ running'[1] = running[1]]_vars

(* When the router hears of a first token, and takes the prompt off its     *)
(* in-flight index, the prompt's full blocks are all in the cache, even one *)
(* whose earlier copy, by another request, was evicted in the meantime.     *)
FirstTokenCached ==
  [][\A r \in Requests : first'[r] /\ ~first[r] =>
       \A i \in 0..(Len(PromptKeys[r]) - 1) : Key(r, i) \in DOMAIN cached']_vars

(* The instance keeps the promise the router relies on. *)
Promise == INSTANCE EnginePromise
  WITH submitted <- Arrived, emitted <- generated, cancelled <- {}
KeepsPromise == Promise!Spec
-----------------------------------------------------------------------------
(* What the safety invariants rest on, beyond themselves *)

(* A request is in at most one queue, once, and only while it is unanswered; *)
(* before it arrives it has produced nothing.                               *)
QueueInv ==
  /\ IsInjectiveSeq(running) /\ IsInjectiveSeq(waiting)
  /\ Elements(running) \cap Elements(waiting) = {}
  /\ \A r \in Elements(running) \cup Elements(waiting) :
       rank[r] > 0 /\ generated[r] < OutputLen[r]
  /\ \A r \in Requests : rank[r] = 0 => generated[r] = 0

(* Only running requests own blocks, and between steps exactly those their  *)
(* computed tokens fill; each has more of its sequence to compute.          *)
TableInv ==
  /\ \A r \in Requests \ Elements(running) : table[r] = <<>>
  /\ \A r \in Elements(running) \ InPlan :
       computed[r] < Length(r) /\ Len(table[r]) = CeilBlocks(computed[r])

(* While schedule() walks the running requests, it has planned exactly the  *)
(* ones before its cursor, so the victim at the tail is never among them.   *)
PlanInv ==
  /\ phase = "idle" => plan = <<>>
  /\ phase = "running" =>
       /\ Len(plan) = cursor - 1 /\ cursor <= Len(running) + 1
       /\ \A p \in DOMAIN plan : plan[p][1] = running[p]

Inductive ==
  /\ TypeOK /\ PoolAccounting /\ CacheBijection
  /\ QueueInv /\ TableInv /\ PlanCovered /\ PlanInv

(* A block that its request has not filled is that request's alone, and a   *)
(* block that two requests hold came out of the cache and is still in it.   *)
UnfilledInv ==
  \A r \in Elements(running) : \A i \in (computed[r] \div Block + 1)..Len(table[r]) :
    ref[table[r][i]] = 1 /\ blockKey[table[r][i]] = NoKey
SharedInv == \A b \in Blocks : ref[b] > 1 => blockKey[b] # NoKey
ContentInv == ContentRight /\ UnfilledInv /\ SharedInv

(* Ranks count the arrivals; a request is done once its output is complete. *)
ArrivalInv ==
  \A r \in Requests : /\ rank[r] <= Cardinality(Arrived)
                      /\ done[r] => generated[r] >= OutputLen[r]

(* While nothing is planned no budget is spent; and then the first loop     *)
(* ends only if nothing runs, which a preemption excludes.                  *)
WakeInv ==
  /\ plan = <<>> /\ phase \in {"running", "admit"} => budget = TokenBudget
  /\ plan = <<>> /\ phase = "admit" => running = <<>>
  /\ phase = "running" /\ preempted => running # <<>>

(* The hit is reported before the first token. *)
HitInv ==
  /\ \A r \in Elements(running) : engineHit[r] # NoHit
  /\ \A r \in Requests : engineHit[r] = NoHit => generated[r] = 0
OrderInv == NoOvertaking /\ ArrivalInv /\ IdleMeansEmpty /\ WakeInv /\ HitIsPrompt /\ HitInv

Strengthened == Inductive /\ ContentInv /\ OrderInv
=============================================================================
