----------------------------- MODULE ToyOracle ------------------------------
(***************************************************************************)
(* The waiting-order oracle of toy_oracle.py: transition(), one iteration   *)
(* of a toy engine whose only freedom is the order of the waiting requests, *)
(* and solve(), which replays first come first served, derives deadlines    *)
(* from it, and then searches every order that keeps them.                  *)
(*                                                                         *)
(* An iteration is split: Choose takes an order, Run plans a running         *)
(* request, Admit is one turn of the admission loop, Serve the batch, Leave *)
(* a completed request's, Finish what visit() makes of it.  The search is   *)
(* TLC's own: visit() tries every permutation, and its set of seen states   *)
(* is TLC's.  Left out: max_states, which gives a search up, the records    *)
(* kept as evidence, and the reports.  Definitions named Faulty... are      *)
(* variants with a bug, which no action uses.                               *)
(***************************************************************************)
EXTENDS Deadlines, FiniteSets, Sublists

CONSTANTS
  N,                       \* requests, by index
  Prompt, Output, Arrival, \* of each: its tokens, its arrival
  KvBlocks, MaxSequences, TokenBudget, PrefillChunk,
  OverheadTicks, PrefillTokenTicks, DecodeTokenTicks,
  SlackPercent, EpsilonTicks,
  None

Requests == 1..N
Tokens(i) == Prompt[i] \o Output[i]

\* validate()
ASSUME ValidAssumption ==
  /\ {N, KvBlocks, MaxSequences, TokenBudget, PrefillChunk, OverheadTicks,
      PrefillTokenTicks, DecodeTokenTicks} \subseteq Nat \ {0}
  /\ {SlackPercent, EpsilonTicks} \subseteq Nat
  /\ \A i \in Requests : /\ Arrival[i] \in Nat
                         /\ {Prompt[i], Output[i]} \subseteq Seq(Int)
                         /\ Prompt[i] # <<>> /\ Output[i] # <<>>
                         /\ Len(Tokens(i)) <= KvBlocks

\* A request not yet admitted can be told from one admitted at some time.
ASSUME NoneAssumption == None \notin Nat

VARIABLES
  \* State
  time, progress, running, blocks, touchClock, nextBlockId,
  \* the locals of transition()
  phase,      \* "choose", "plan", "leaving", "pruned" or "finished"
  order,      \* what is left of it
  todo,       \* the running requests still to be planned, or to leave
  budget,
  services,   \* [index, kind, count], in order
  \* solve()
  mode,       \* "baseline" or "search"
  limits,
  \* history, for the properties only
  events,     \* iterations so far
  stock       \* every order so far was first come, first served

state == <<time, progress, running, blocks, touchClock, nextBlockId>>
batch == <<order, todo, budget, services>>
vars == <<state, phase, batch, mode, limits, events, stock>>

NoProgress == [admittedAt |-> None, prefillDone |-> 0, blockIds |-> <<>>, outputTimes |-> <<>>]

\* blocks maps the id of a physical block to its record.
Init ==
  /\ time = 0 /\ touchClock = 0 /\ nextBlockId = 0
  /\ progress = [i \in Requests |-> NoProgress]
  /\ running = <<>> /\ blocks = <<>>
  /\ phase = "choose" /\ order = <<>> /\ todo = <<>> /\ budget = 0 /\ services = <<>>
  /\ mode = "baseline" /\ limits = <<>>
  /\ events = 0 /\ stock = TRUE

-----------------------------------------------------------------------------
(* Reading the state *)

Completed(i) == Len(progress[i].outputTimes) = Len(Output[i])
Finished == \A i \in Requests : Completed(i)
Eligible == {i \in Requests : Arrival[i] <= time /\ progress[i].admittedAt = None}

\* Their orders, and the one of eligible(): by arrival, then by index.
Before(i, j) == Arrival[i] < Arrival[j] \/ (Arrival[i] = Arrival[j] /\ i < j)
Orders == {o \in [1..Cardinality(Eligible) -> Eligible] : Elements(o) = Eligible}
ArrivalOrder == CHOOSE o \in Orders : \A j, k \in DOMAIN o : j < k => Before(o[j], o[k])

Ids == DOMAIN blocks
Active == {b \in Ids : blocks[b].refs # {}}
Holding(identity) == {b \in Ids : blocks[b].computed /\ blocks[b].identity = identity}

\* prefix_blocks: the oldest block of each prefix of the prompt, as far as
\* there is one.
PrefixBlocks(i) ==
  LET held(n) == Holding(SubSeq(Prompt[i], 1, n))
      h == Max({n \in 0..Len(Prompt[i]) : \A m \in 1..n : held(m) # {}})
  IN [n \in 1..h |-> Min(held(n))]

\* fit_snapshot
Needed(i) == Len(Tokens(i)) - Len(PrefixBlocks(i))

Available(i) == KvBlocks - Cardinality(Active) - Cardinality(Elements(PrefixBlocks(i)) \ Active)
Fits(i) == Needed(i) <= Available(i)

-----------------------------------------------------------------------------
(* transition() *)

FaultyPlan(i, prefillDone) ==
  LET left == Len(Prompt[i]) - prefillDone
  IN IF left > 0 THEN [index |-> i, kind |-> "prefill", count |-> Min({PrefillChunk, left})]
                 ELSE [index |-> i, kind |-> "decode", count |-> 1]

\* plan: what i is served of what is left of the budget, if anything is.
Plan(i, prefillDone) ==
  LET left == Len(Prompt[i]) - prefillDone
  IN IF left > 0 THEN [index |-> i, kind |-> "prefill", count |-> Min({PrefillChunk, budget, left})]
                 ELSE [index |-> i, kind |-> "decode", count |-> 1]

Choose ==
  /\ phase = "choose" /\ ~Finished
  /\ \E o \in Orders :
       /\ mode = "baseline" => o = ArrivalOrder
       /\ order' = o
       /\ stock' = (stock /\ o = ArrivalOrder)
  /\ todo' = running /\ budget' = TokenBudget /\ services' = <<>>
  /\ phase' = "plan"
  /\ UNCHANGED <<state, mode, limits, events>>

\* The running requests are served first.
Planned == phase = "plan" /\ (todo = <<>> \/ budget = 0)
Run ==
  /\ phase = "plan" /\ ~Planned
  /\ LET service == Plan(Head(todo), progress[Head(todo)].prefillDone)
     IN services' = Append(services, service) /\ budget' = budget - service.count
  /\ todo' = Tail(todo)
  /\ UNCHANGED <<state, phase, order, mode, limits, events, stock>>

CanAdmit ==
  Planned /\ order # <<>> /\ Len(running) < MaxSequences /\ budget > 0 /\ Fits(Head(order))

FaultyVictims(i, n) ==
  CHOOSE V \in SUBSET (Ids \ Active) :
    /\ Cardinality(V) = n
    /\ \A v \in V, b \in (Ids \ Active) \ V : blocks[v].touched < blocks[b].touched

\* The n blocks evicted for i: unreferenced, not its hits, least recently
\* touched.
Victims(i, n) ==
  LET free == (Ids \ Active) \ Elements(PrefixBlocks(i))
  IN CHOOSE V \in SUBSET free :
       /\ Cardinality(V) = n
       /\ \A v \in V, b \in free \ V : blocks[v].touched < blocks[b].touched

\* The head of the order takes its hits and reserves all the rest, evicting
\* what it must.
Admit ==
  /\ CanAdmit
  /\ LET i == Head(order)
         hits == PrefixBlocks(i)
         fresh == [n \in 1..Needed(i) |-> nextBlockId + n - 1]
         ids == hits \o fresh
         evicted == Victims(i, Max({0, Needed(i) - (KvBlocks - Cardinality(Ids))}))
         place(b) == CHOOSE n \in DOMAIN ids : ids[n] = b
         new(n) == [identity |-> IF n <= Len(Prompt[i]) THEN SubSeq(Prompt[i], 1, n) ELSE None,
                    computed |-> FALSE, refs |-> {i}, touched |-> touchClock + n]
         service == Plan(i, Len(hits))
     IN /\ blocks' = [b \in (Ids \ evicted) \cup Elements(fresh) |->
                        IF b \in Elements(fresh) THEN new(place(b))
                        ELSE IF b \in Elements(hits)
                          THEN [blocks[b] EXCEPT !.refs = @ \cup {i}, !.touched = touchClock + place(b)]
                        ELSE blocks[b]]
        /\ touchClock' = touchClock + Len(ids)
        /\ nextBlockId' = nextBlockId + Len(fresh)
        /\ progress' = [progress EXCEPT ![i] =
             [admittedAt |-> time, prefillDone |-> Len(hits), blockIds |-> ids, outputTimes |-> <<>>]]
        /\ running' = Append(running, i)
        /\ order' = Tail(order)
        /\ services' = Append(services, service) /\ budget' = budget - service.count
  /\ UNCHANGED <<time, phase, todo, mode, limits, events, stock>>

Duration == OverheadTicks + Max({IF services[k].kind = "prefill"
                                   THEN services[k].count * PrefillTokenTicks
                                   ELSE DecodeTokenTicks : k \in DOMAIN services})

\* What the batch serves i of a kind; its prompt tokens and outputs after it;
\* and the places of its table that it computes.
Served(i, kind) ==
  LET visits == {k \in DOMAIN services : services[k].index = i /\ services[k].kind = kind}
  IN IF visits = {} THEN 0 ELSE services[CHOOSE k \in visits : TRUE].count
Prefilled(i) == progress[i].prefillDone + Served(i, "prefill")
Outputs(i) ==
  IF Served(i, "decode") = 0 THEN progress[i].outputTimes
  ELSE Append(progress[i].outputTimes, time + Duration)
Made(i) == Len(Prompt[i]) + Len(progress[i].outputTimes)
Answered(i) == (Made(i) + 1)..(Len(Prompt[i]) + Len(Outputs(i)))
Computed(i) == ((progress[i].prefillDone + 1)..Prefilled(i)) \cup Answered(i)

\* What a block is for i at the places ns.
Content(b, i, ns) == {SubSeq(Tokens(i), 1, n) : n \in {m \in ns : progress[i].blockIds[m] = b}}

\* The batch runs.  The block of an answer is told by it from now on.
Serve ==
  /\ Planned /\ ~CanAdmit /\ services # <<>>
  /\ time' = time + Duration
  /\ progress' = [i \in Requests |->
       [progress[i] EXCEPT !.prefillDone = Prefilled(i), !.outputTimes = Outputs(i)]]
  /\ blocks' = [b \in Ids |->
       LET answers == UNION {Content(b, i, Answered(i)) : i \in Requests}
       IN [blocks[b] EXCEPT
             !.computed = @ \/ \E i \in Requests : Content(b, i, Computed(i)) # {},
             !.identity = IF answers = {} THEN @ ELSE CHOOSE identity \in answers : TRUE]]
  /\ todo' = Sublist(running, {i \in Requests : Completed(i)'})
  /\ phase' = "leaving"
  /\ order' = <<>> /\ budget' = 0 /\ services' = <<>>
  /\ UNCHANGED <<running, touchClock, nextBlockId, mode, limits, events, stock>>

\* A completed request gives up its blocks, which are touched.
Leave ==
  /\ phase = "leaving" /\ todo # <<>>
  /\ LET i == Head(todo)
         ids == progress[i].blockIds
         place(b) == CHOOSE n \in DOMAIN ids : ids[n] = b
     IN /\ running' = Without(running, i)
        /\ blocks' = [b \in Ids |->
             IF b \in Elements(ids)
               THEN [blocks[b] EXCEPT !.refs = @ \ {i}, !.touched = touchClock + place(b)]
             ELSE blocks[b]]
        /\ touchClock' = touchClock + Len(ids)
  /\ todo' = Tail(todo)
  /\ UNCHANGED <<time, progress, nextBlockId, phase, order, budget, services,
                 mode, limits, events, stock>>

\* Nothing runs, nothing waits: on to the next arrival.
Future == {Arrival[i] : i \in {j \in Requests : progress[j].admittedAt = None /\ Arrival[j] > time}}
Idle ==
  /\ Planned /\ ~CanAdmit /\ services = <<>>
  /\ running = <<>> /\ Eligible = {} /\ Future # {}
  /\ time' = Min(Future)
  /\ phase' = "leaving"
  /\ order' = <<>> /\ todo' = <<>> /\ budget' = 0
  /\ UNCHANGED <<progress, running, blocks, touchClock, nextBlockId, services,
                 mode, limits, events, stock>>

Broken == mode = "search" /\
  \E i \in Requests : Breaks(limits[i], Len(Output[i]), progress[i].outputTimes, time)

\* The end of an iteration: visit() looks at violations before anything.
Finish ==
  /\ phase = "leaving" /\ todo = <<>>
  /\ phase' = IF Broken THEN "pruned" ELSE IF Finished THEN "finished" ELSE "choose"
  /\ events' = events + 1
  /\ UNCHANGED <<state, batch, mode, limits, stock>>

\* The baseline is over: progress_limits, and the search begins.
Search ==
  /\ phase = "finished" /\ mode = "baseline"
  /\ mode' = "search"
  /\ limits' = [i \in Requests |->
       LimitsOf(Arrival[i], progress[i].outputTimes, SlackPercent, EpsilonTicks)]
  /\ time' = 0 /\ touchClock' = 0 /\ nextBlockId' = 0
  /\ progress' = [i \in Requests |-> NoProgress]
  /\ running' = <<>> /\ blocks' = <<>>
  /\ phase' = "choose"
  /\ UNCHANGED batch
  /\ events' = 0 /\ stock' = TRUE

Over == phase = "pruned" \/ (phase = "finished" /\ mode = "search")

Next ==
  \/ Choose \/ Run \/ Admit \/ Serve \/ Leave \/ Idle \/ Finish \/ Search
  \/ (Over /\ UNCHANGED vars)

Spec == Init /\ [][Next]_vars

-----------------------------------------------------------------------------
(* Properties *)

(* The assertions of check_state, after every iteration: blocks do not      *)
(* exceed the pool; a running request owns a block for each token of its    *)
(* prompt and its whole answer, each with the right content as far as it is *)
(* computed; references and owners agree; an unreferenced block is whole.   *)
CheckState ==
  phase \in {"choose", "pruned", "finished"} =>
    /\ Cardinality(Ids) <= KvBlocks
    /\ Len(running) <= MaxSequences
    /\ IsInjectiveSeq(running)
    /\ \A i \in Requests :
         LET p == progress[i] made == Len(p.outputTimes)
         IN /\ \A k \in 1..(made - 1) : p.outputTimes[k] < p.outputTimes[k + 1]
            /\ i \in Elements(running) <=> p.admittedAt # None /\ ~Completed(i)
            /\ i \in Elements(running) =>
                 /\ p.admittedAt >= Arrival[i]
                 /\ Len(p.blockIds) = Len(Tokens(i)) /\ IsInjectiveSeq(p.blockIds)
                 /\ \A n \in DOMAIN p.blockIds :
                      LET b == p.blockIds[n]
                          written == n <= p.prefillDone \/ n \in (Len(Prompt[i]) + 1)..(Len(Prompt[i]) + made)
                      IN /\ b \in Ids /\ i \in blocks[b].refs
                         /\ blocks[b].computed = written
                         /\ blocks[b].identity = IF written \/ n <= Len(Prompt[i])
                                                   THEN SubSeq(Tokens(i), 1, n) ELSE None
    /\ \A b \in Ids :
         /\ \A i \in blocks[b].refs : i \in Elements(running) /\ b \in Elements(progress[i].blockIds)
         /\ blocks[b].refs = {} => blocks[b].computed

(* The assertions of transition and replay: an iteration always serves a    *)
(* request or has an arrival to wait for; what is not done after one        *)
(* iteration for each token and one wait for each request never will be;    *)
(* and a batch keeps to the budget.                                         *)
WorkBound == Cardinality(UNION {{i} \X DOMAIN Tokens(i) : i \in Requests}) + N
Batch == UNION {{k} \X (1..services[k].count) : k \in DOMAIN services}
AlwaysServes ==
  /\ phase = "choose" /\ ~Finished => events < WorkBound
  /\ Planned /\ ~CanAdmit /\ services = <<>> => running = <<>> /\ Eligible = {} /\ Future # {}
  /\ phase = "plan" => budget >= 0 /\ budget + Cardinality(Batch) = TokenBudget

(* The search never drops the baseline: an order that is first come, first  *)
(* served throughout keeps the deadlines derived from it at every iteration *)
(* of the search, not only at its end, where solve() asserts it.            *)
BaselineKept == mode = "search" /\ stock => phase # "pruned"
=============================================================================
