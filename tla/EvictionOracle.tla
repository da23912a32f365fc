--------------------------- MODULE EvictionOracle ---------------------------
(***************************************************************************)
(* The eviction oracle of eviction_oracle.py: replay(), a fixed scheduler   *)
(* (first come first served, running first, chunked prefill, growth by      *)
(* decoding, preemption of the tail) whose only freedom is which cached     *)
(* blocks an allocation evicts, and solve(), which replays the stock queue, *)
(* derives deadlines from it, and searches every choice that keeps them.    *)
(*                                                                         *)
(* An iteration of replay()'s loop is split: Start, then Preempt and Run    *)
(* for the running requests, Admit for the waiting ones, and Idle, or       *)
(* Execute, Leave for each completed request, and Finish.  solve() replays  *)
(* each prefix of choices from the start; here a choice is a branch.  Left  *)
(* out: node and iteration limits, the calibrated cost table, the events.   *)
(* Definitions named Faulty... are variants with a bug, which no action     *)
(* uses.                                                                    *)
(***************************************************************************)
EXTENDS Deadlines, FiniteSets, Sublists

CONSTANTS
  N, Arrival, Input, Output,  \* requests, and of each: arrival, tokens
  Hashes,                     \* and the contents of its input's blocks
  Capacity, BlockSize, MaxSequences, TokenBudget, PrefillChunk,
  Overhead, PrefillTokenCost, DecodeTokenCost,
  SlackPercent, Epsilon,
  None

Requests == 1..N
Blocks == 1..Capacity
Ceil(tokens) == (tokens + BlockSize - 1) \div BlockSize

\* The identity of the n-th block of i's input: its content and all before it.
Prefix(i, n) == SubSeq(Hashes[i], 1, n)

\* validate()
ASSUME ValidAssumption ==
  /\ {N, Capacity, BlockSize, MaxSequences, TokenBudget, PrefillChunk, Overhead,
      PrefillTokenCost, DecodeTokenCost} \subseteq Nat \ {0}
  /\ {SlackPercent, Epsilon} \subseteq Nat
  /\ \A i \in Requests : /\ Arrival[i] \in Nat
                         /\ {Input[i], Output[i]} \subseteq Nat \ {0}
                         /\ Hashes[i] \in Seq(Int) /\ Len(Hashes[i]) = Ceil(Input[i])
                         /\ Ceil(Input[i] + Output[i] - 1) <= Capacity

\* A block with no identity can be told from one that has one.
ASSUME NoneAssumption ==
  \A i \in Requests : \A n \in DOMAIN Hashes[i] : Prefix(i, n) # None

VARIABLES
  \* the locals of replay()
  blocks,     \* block -> [identity, refs]
  free,       \* unreferenced blocks: the next to be taken first
  progress,   \* request -> [computed, blocks, outputs]
  running, waiting, released, time,
  phase,      \* "start", "running", "leaving", "infeasible" or "done"
  todo,       \* the running requests this iteration has still to visit or release
  budget, services, hadPreemption,
  \* solve()
  mode,       \* "baseline" or "search"
  limits,
  \* history, for the properties only
  stock       \* every choice so far was the stock queue's

queues == <<running, waiting, released>>
cache == <<blocks, free>>
batch == <<todo, budget, services, hadPreemption>>
vars == <<cache, progress, queues, time, phase, batch, mode, limits, stock>>

FreshBlocks == [b \in Blocks |-> [identity |-> None, refs |-> 0]]
FreshProgress == [i \in Requests |-> [computed |-> 0, blocks |-> <<>>, outputs |-> <<>>]]
FreeOrder == [b \in Blocks |-> b]

Init ==
  /\ blocks = FreshBlocks /\ free = FreeOrder
  /\ progress = FreshProgress
  /\ running = <<>> /\ waiting = <<>> /\ released = {}
  /\ time = 0
  /\ phase = "start"
  /\ todo = <<>> /\ budget = 0 /\ services = <<>> /\ hadPreemption = FALSE
  /\ mode = "baseline" /\ limits = <<>>
  /\ stock = TRUE

-----------------------------------------------------------------------------
(* Reading the state *)

Completed(i) == Len(progress[i].outputs) = Output[i]
Cached(b) == blocks[b].identity # None
Target(i) == Input[i] + Len(progress[i].outputs)

\* The requests in the order they arrive, by index if at the same time.
Before(i, j) == Arrival[i] < Arrival[j] \/ (Arrival[i] = Arrival[j] /\ i < j)
ByArrival ==
  [k \in Requests |-> CHOOSE i \in Requests : Cardinality({j \in Requests : Before(j, i)}) = k - 1]

\* Tokens that i is served next, having computed as many.
Grant(i, computed) ==
  Min({budget, Target(i) - computed, IF computed < Input[i] THEN PrefillChunk ELSE 1})

\* hits: the first block of each prefix but that of the last prompt token.
Holding(identity) == {b \in Blocks : blocks[b].identity = identity}

FaultyHits(i) ==
  LET h == Max({n \in 0..(Input[i] \div BlockSize) :
                  \A m \in 1..n : Holding(Prefix(i, m)) # {}})
  IN [n \in 1..h |-> Min(Holding(Prefix(i, n)))]

Hits(i) ==
  LET h == Max({n \in 0..((Input[i] - 1) \div BlockSize) :
                  \A m \in 1..n : Holding(Prefix(i, m)) # {}})
  IN [n \in 1..h |-> Min(Holding(Prefix(i, n)))]

-----------------------------------------------------------------------------
(* release and allocate *)

\* The blocks in ids lose a reference: uncached ones are taken first, cached
\* ones last, of each the tail of the request before its head.
Release(ids) ==
  LET left == {b \in Elements(ids) : blocks[b].refs = 1}
      cached == {b \in left : Cached(b)}
  IN /\ blocks' = [b \in Blocks |->
          IF b \in Elements(ids) THEN [blocks[b] EXCEPT !.refs = @ - 1] ELSE blocks[b]]
     /\ free' = Sublist(Backwards(ids), left \ cached) \o free \o Sublist(Backwards(ids), cached)

\* What allocate may take: of the stock, the head of the free queue, cached
\* blocks may be replaced by any others, in any order.
Stock(queue, count) == SubSeq(queue, 1, count)
Takes(queue, count) ==
  LET stocked == Stock(queue, count)
  IN IF mode = "baseline" THEN {stocked}
     ELSE {s \in [1..count -> Elements(queue)] :
             /\ IsInjectiveSeq(s)
             /\ \A k \in 1..count : IF Cached(stocked[k]) THEN Cached(s[k]) ELSE s[k] = stocked[k]}

FaultyHold(hits, taken) ==
  /\ blocks' = [b \in Blocks |->
       IF b \in Elements(taken) THEN [identity |-> blocks[b].identity, refs |-> 1]
       ELSE IF b \in Elements(hits) THEN [blocks[b] EXCEPT !.refs = @ + 1] ELSE blocks[b]]
  /\ free' = Sublist(free, Blocks \ (Elements(taken) \cup Elements(hits)))

\* A request shares hits and takes blocks for new content.
Hold(hits, taken) ==
  /\ blocks' = [b \in Blocks |->
       IF b \in Elements(taken) THEN [identity |-> None, refs |-> 1]
       ELSE IF b \in Elements(hits) THEN [blocks[b] EXCEPT !.refs = @ + 1] ELSE blocks[b]]
  /\ free' = Sublist(free, Blocks \ (Elements(taken) \cup Elements(hits)))

Service(i, n, context) ==
  [index |-> i, tokens |-> n, kind |-> IF context < Input[i] THEN "prefill" ELSE "decode"]

-----------------------------------------------------------------------------
(* One iteration of replay() *)

Start ==
  /\ phase = "start" /\ \E i \in Requests : ~Completed(i)
  /\ LET due == {i \in Requests \ released : Arrival[i] <= time}
     IN /\ released' = released \cup due
        /\ waiting' = waiting \o Sublist(ByArrival, due)
  /\ todo' = running /\ budget' = TokenBudget /\ services' = <<>> /\ hadPreemption' = FALSE
  /\ phase' = "running"
  /\ UNCHANGED <<cache, progress, running, time, mode, limits, stock>>

Visited == phase = "running" /\ (todo = <<>> \/ budget = 0)
Need(i) ==
  LET p == progress[i] IN Ceil(p.computed + Grant(i, p.computed)) - Len(p.blocks)

\* The next running request lacks blocks: the tail of the batch gives up its
\* own.  It was not served yet: either it is that request, or it is behind it.
Preempt ==
  /\ phase = "running" /\ ~Visited
  /\ Need(Head(todo)) > Len(free)
  /\ LET victim == running[Len(running)]
     IN /\ Release(progress[victim].blocks)
        /\ progress' = [progress EXCEPT ![victim].computed = 0, ![victim].blocks = <<>>]
        /\ running' = Without(running, victim)
        /\ waiting' = <<victim>> \o waiting
        /\ todo' = Without(todo, victim)
  /\ hadPreemption' = TRUE
  /\ UNCHANGED <<released, time, phase, budget, services, mode, limits, stock>>

\* The next running request has the blocks it needs.
Run ==
  /\ phase = "running" /\ ~Visited
  /\ LET i == Head(todo)
         p == progress[i]
         n == Grant(i, p.computed)
     IN /\ Need(i) <= Len(free)
        /\ \E taken \in Takes(free, Need(i)) :
             /\ Hold(<<>>, taken)
             /\ progress' = [progress EXCEPT ![i].blocks = @ \o taken]
             /\ stock' = (stock /\ taken = Stock(free, Need(i)))
        /\ services' = Append(services, Service(i, n, p.computed))
        /\ budget' = budget - n
  /\ todo' = Tail(todo)
  /\ UNCHANGED <<queues, time, phase, hadPreemption, mode, limits>>

Protected(hits) == {b \in Elements(hits) : blocks[b].refs = 0}

CanAdmit ==
  /\ Visited /\ ~hadPreemption
  /\ waiting # <<>> /\ budget > 0 /\ Len(running) < MaxSequences
  /\ LET i == Head(waiting) hits == Hits(i)
     IN Ceil(Target(i)) - Len(hits) + Cardinality(Protected(hits)) <= Len(free)

\* The head of the queue fits with all of its prompt, and takes the blocks of
\* its first chunk.
Admit ==
  /\ CanAdmit
  /\ LET i == Head(waiting)
         hits == Hits(i)
         computed == Len(hits) * BlockSize
         n == Min({budget, PrefillChunk, Target(i) - computed})
         count == Ceil(computed + n) - Len(hits)
         queue == Sublist(free, Blocks \ Elements(hits))
     IN /\ \E taken \in Takes(queue, count) :
             /\ Hold(hits, taken)
             /\ progress' = [progress EXCEPT ![i].blocks = hits \o taken, ![i].computed = computed]
             /\ stock' = (stock /\ taken = Stock(queue, count))
        /\ running' = Append(running, i)
        /\ waiting' = Tail(waiting)
        /\ services' = Append(services, Service(i, n, computed))
        /\ budget' = budget - n
  /\ UNCHANGED <<released, time, phase, todo, hadPreemption, mode, limits>>

\* The tokens of the batch that are of one kind, each a member of a set.
Batch(kind) ==
  UNION {{k} \X (1..services[k].tokens) : k \in {j \in DOMAIN services : services[j].kind = kind}}
Duration == Overhead + PrefillTokenCost * Cardinality(Batch("prefill"))
                     + DecodeTokenCost * Cardinality(Batch("decode"))

\* Tokens that the batch serves i, what i has computed with them, and whether
\* it answers.
Served(i) ==
  LET visits == {k \in DOMAIN services : services[k].index = i}
  IN IF visits = {} THEN 0 ELSE services[CHOOSE k \in visits : TRUE].tokens
Computed(i) == progress[i].computed + Served(i)
Answers(i) == Served(i) > 0 /\ Computed(i) >= Target(i)

\* The blocks of i's prompt that are full, and what the batch makes of a block.
Full(i) == Min({Computed(i), Input[i]}) \div BlockSize
Written(b) ==
  UNION {{Prefix(i, n) : n \in {m \in 1..Full(i) : progress[i].blocks[m] = b}}
         : i \in {j \in Requests : Served(j) > 0}}

\* The batch runs: full blocks of a prompt become cached, and a request that
\* has caught up with its target answers.
Execute ==
  /\ Visited /\ ~CanAdmit /\ services # <<>>
  /\ time' = time + Duration
  /\ blocks' = [b \in Blocks |->
       IF Written(b) = {} THEN blocks[b]
       ELSE [blocks[b] EXCEPT !.identity = CHOOSE identity \in Written(b) : TRUE]]
  /\ progress' = [i \in Requests |->
       [progress[i] EXCEPT !.computed = Computed(i),
                           !.outputs = IF Answers(i) THEN Append(@, time') ELSE @]]
  /\ todo' = Sublist(running, {i \in Requests : Completed(i)'})
  /\ phase' = "leaving"
  /\ budget' = 0 /\ services' = <<>> /\ hadPreemption' = FALSE
  /\ UNCHANGED <<free, queues, mode, limits, stock>>

\* A completed request gives up its blocks.
Leave ==
  /\ phase = "leaving" /\ todo # <<>>
  /\ LET i == Head(todo)
     IN /\ Release(progress[i].blocks)
        /\ progress' = [progress EXCEPT ![i].blocks = <<>>]
        /\ running' = Without(running, i)
  /\ todo' = Tail(todo)
  /\ UNCHANGED <<waiting, released, time, phase, budget, services, hadPreemption,
                 mode, limits, stock>>

Infeasible == mode = "search" /\
  \E i \in Requests : Breaks(limits[i], Output[i], progress[i].outputs, time)

\* The end of an iteration: the deadlines are looked at.
Finish ==
  /\ phase = "leaving" /\ todo = <<>>
  /\ phase' = IF Infeasible THEN "infeasible"
              ELSE IF \A i \in Requests : Completed(i) THEN "done" ELSE "start"
  /\ UNCHANGED <<cache, progress, queues, time, batch, mode, limits, stock>>

\* Nothing to do before the next arrival.
Future == {Arrival[i] : i \in Requests \ released}
Idle ==
  /\ Visited /\ ~CanAdmit /\ services = <<>>
  /\ running = <<>> /\ waiting = <<>> /\ Future # {}
  /\ time' = Min(Future)
  /\ phase' = "start"
  /\ UNCHANGED <<cache, progress, queues, batch, mode, limits, stock>>

\* The baseline is over: limits_for, and the search begins.
Search ==
  /\ phase = "done" /\ mode = "baseline"
  /\ mode' = "search"
  /\ limits' = [i \in Requests |-> LimitsOf(Arrival[i], progress[i].outputs, SlackPercent, Epsilon)]
  /\ blocks' = FreshBlocks /\ free' = FreeOrder
  /\ progress' = FreshProgress
  /\ running' = <<>> /\ waiting' = <<>> /\ released' = {}
  /\ time' = 0 /\ phase' = "start" /\ stock' = TRUE
  /\ UNCHANGED batch

Over == phase = "infeasible" \/ (phase = "done" /\ mode = "search")

Next ==
  \/ Start \/ Preempt \/ Run \/ Admit \/ Execute \/ Leave \/ Finish \/ Idle \/ Search
  \/ (Over /\ UNCHANGED vars)

Spec == Init /\ [][Next]_vars

-----------------------------------------------------------------------------
(* Properties *)

(* validate_state, and what it leaves unsaid: references are the requests   *)
(* that list a block, the free queue holds just the unreferenced ones, each *)
(* once, a request lists a block for each token computed, and the full      *)
(* blocks of its prompt hold its own content still -- however blocks were   *)
(* shared, evicted and given back by preemptions in between.                *)
ValidState ==
  /\ \A b \in Blocks :
       /\ blocks[b].refs = Cardinality({i \in Requests : b \in Elements(progress[i].blocks)})
       /\ blocks[b].refs = 0 <=> b \in Elements(free)
  /\ IsInjectiveSeq(free)
  /\ \A i \in Requests :
       LET p == progress[i]
       IN /\ IsInjectiveSeq(p.blocks)
          /\ p.blocks # <<>> => i \in Elements(running)
          /\ phase = "start" /\ i \in Elements(running) => Len(p.blocks) = Ceil(p.computed)
          /\ i \in Elements(running) => \A n \in 1..(Min({p.computed, Input[i]}) \div BlockSize) :
               blocks[p.blocks[n]].identity = Prefix(i, n)

(* The ways out of an iteration that serves nobody are never taken: not     *)
(* "zero-service preemption cycle", nor "Fixed scheduler cannot make        *)
(* progress", nor "No future work".  The head of the running requests, or   *)
(* failing that of the waiting ones, is served.                             *)
NeverStuck ==
  /\ Visited /\ ~CanAdmit /\ services = <<>> =>
       running = <<>> /\ waiting = <<>> /\ ~hadPreemption /\ Future # {}
  /\ \A k \in DOMAIN services : services[k].tokens > 0

(* solve()'s comment, "the exact baseline action script remains a feasible  *)
(* policy": a search that chooses as the stock queue does is not dropped.   *)
BaselineKept == mode = "search" /\ stock => phase # "infeasible"
=============================================================================
