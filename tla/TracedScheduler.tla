-------------------------- MODULE TracedScheduler --------------------------
(***************************************************************************)
(* The scheduler of the recorded vLLM build with its telemetry hooks:       *)
(* scheduler.py and kv_cache_manager.py under                               *)
(* results/eviction-telemetry-cpu-2026-09-29/patched/vllm/v1/core, over the *)
(* pool of TracedPool, with the hooks' module state of                      *)
(* admission_telemetry.py and the log read as it is written (PoolLog).      *)
(*                                                                         *)
(* One thread: schedule(), the model's forward pass and update_from_output  *)
(* follow one another, and each iteration of their loops is an action here. *)
(* A request comes between two steps; a client can abort one between two    *)
(* steps or while the model runs.                                           *)
(*                                                                         *)
(* What is modelled is class Scheduler itself, which runs when asynchronous *)
(* scheduling is off (the subclass for it is not in the repository), with   *)
(* the project's server options and the defaults of config/scheduler.py:    *)
(* one full-attention group, prefix caching, chunked prefill, no watermark, *)
(* one token sampled per step, no LoRA, connector, encoder, speculation,    *)
(* streaming input or pause.  So skipped_waiting stays empty and the two    *)
(* budgets are one.  The policy is FCFS.  ByPriority takes the other branch, *)
(* which the run traced_priority checks with a cap on long prefills.        *)
(***************************************************************************)
EXTENDS PoolLog

CONSTANTS
  NumRequests,    \* requests are numbered in the order they arrive
  Prompt,         \* request -> its prompt tokens
  Answer,         \* request -> the tokens sampled for it, to its stop
  Priority,       \* request -> its priority, small first
  ByPriority,     \* the policy is PRIORITY
  BlockSize,
  TokenBudget,    \* max_num_scheduled_tokens
  LongPrefill,    \* long_prefill_token_threshold, 0 for none
  MaxRunning,     \* max_num_running_reqs
  ReserveFull,    \* scheduler_reserve_full_isl
  MaxAborts, MaxResets   \* bounds: how often a client aborts, an operator resets

Requests == 1..NumRequests
Text(r) == Prompt[r] \o Answer[r]
Ceil(tokens) == (tokens + BlockSize - 1) \div BlockSize
LeastOf(a, b) == IF a <= b THEN a ELSE b

ASSUME SizesAssumption ==
  /\ NumRequests \in Nat /\ {BlockSize, TokenBudget, MaxRunning} \subseteq Nat \ {0}
  /\ {ByPriority, ReserveFull} \subseteq BOOLEAN
  /\ {LongPrefill, MaxAborts, MaxResets} \subseteq Nat

(* The server refuses a request the pool could not hold alone.              *)
ASSUME FitsAssumption == \A r \in Requests :
  /\ Len(Prompt[r]) > 0 /\ Len(Answer[r]) > 0
  /\ Ceil(Len(Text(r))) <= NumBlocks

VARIABLES
  pool, reader,     \* the block pool, and what the log so far says
  status, computed, outputs, table,   \* of each request
  running, waiting,
  phase,            \* "idle", then the parts of a step in order
  cursor, budget, plan, preempted,    \* the locals of schedule(),
  chunk,            \* and num_new_tokens while an allocation is tried again, else 0
  hooks,            \* the hooks' _state: attempted, stopGate, lastFailed, reason
  written,          \* block -> the prefix whose last tokens it holds
  aborts, resets

requests == <<status, computed, outputs, table>>
locals == <<cursor, budget, plan, preempted, chunk>>
vars == <<pool, reader, requests, running, waiting, phase, locals, hooks, written,
          aborts, resets>>

Length(r) == Len(Prompt[r]) + outputs[r]     \* num_tokens
Prefix(r, n) == SubSeq(Text(r), 1, n)
\* request.block_hashes
HashesOf(r) == [k \in 1..(Length(r) \div BlockSize) |-> Prefix(r, k * BlockSize)]

NoHooks == [attempted |-> {}, stopGate |-> "none", lastFailed |-> 0, reason |-> "none"]

Init ==
  /\ pool = FreshPool /\ reader = FreshReader
  /\ status = [r \in Requests |-> "new"]
  /\ computed = [r \in Requests |-> 0] /\ outputs = [r \in Requests |-> 0]
  /\ table = [r \in Requests |-> <<>>]
  /\ running = <<>> /\ waiting = <<>>
  /\ phase = "idle"
  /\ cursor = 1 /\ budget = 0 /\ plan = <<>> /\ preempted = FALSE /\ chunk = 0
  /\ hooks = NoHooks
  /\ written = [b \in Blocks |-> <<>>]
  /\ aborts = 0 /\ resets = 0

(* The pool after an operation; its events are read at once.                *)
SetPool(p) ==
  /\ pool' = [p EXCEPT !.log = <<>>]
  /\ reader' = FoldLeft(Read, reader, p.log)
------------------------------------------------------------------------------
(* The waiting queue *)

Before(q, r) == Priority[q] < Priority[r] \/ (Priority[q] = Priority[r] /\ q <= r)
InOrder(queue, r) == SelectSeq(queue, LAMBDA q : Before(q, r)) \o <<r>>
                       \o SelectSeq(queue, LAMBDA q : ~Before(q, r))
Enqueue(queue, r) == IF ByPriority THEN InOrder(queue, r) ELSE Append(queue, r)
Prepend(queue, r) == IF ByPriority THEN InOrder(queue, r) ELSE <<r>> \o queue
------------------------------------------------------------------------------
(* kv_cache_manager *)

\* request_scope
Scope(p, r) == Note(p, [type |-> "request_prefixes", hashes |-> ToSet(HashesOf(r))])

(* get_computed_blocks: the last token is always computed again.            *)
Wanted(r) == SubSeq(HashesOf(r), 1, (Length(r) - 1) \div BlockSize)
ComputedBlocks(r) == Hits(pool, Wanted(r))
LookedUp(r) == Lookup(Scope(pool, r), Wanted(r))

(* get_num_blocks_to_allocate: a hit that nobody holds leaves the free queue *)
(* as a new block does.                                                     *)
Needed(r, tokens, hits) ==
  Ceil(tokens) - Len(hits) - Len(table[r])
    + Cardinality({k \in DOMAIN hits : pool.refs[hits[k]] = 0})
Fits(r, tokens, hits) == Needed(r, tokens, hits) <= Len(pool.free)

(* allocate_slots, once its checks have passed: the blocks of the tokens up *)
(* to `upto`, of which the first `start` are computed, and the full ones of *)
(* them cached under their hashes.                                          *)
GrownTable(r, hits, upto) ==
  LET held == table[r] \o hits
  IN held \o SubSeq(Touch(pool, hits).free, 1, Ceil(upto) - Len(held))
FaultyAllocateSlots(p, r, hits, start, upto) ==   \* caches by the request's length, not the step's
  LET new == Ceil(upto) - Len(table[r] \o hits)
      held == Touch(p, hits)
      taken == IF new > 0 THEN GetNewBlocks(held, new) ELSE held
  IN CacheFullBlocks(taken, GrownTable(r, hits, upto), HashesOf(r),
                     start \div BlockSize, LeastOf(Ceil(upto), Length(r) \div BlockSize))
AllocateSlots(p, r, hits, start, upto) ==
  LET new == Ceil(upto) - Len(table[r] \o hits)
      held == Touch(p, hits)
      taken == IF new > 0 THEN GetNewBlocks(held, new) ELSE held
  IN CacheFullBlocks(taken, GrownTable(r, hits, upto), HashesOf(r),
                     start \div BlockSize, upto \div BlockSize)

(* free: the tail of the table is evicted first.                            *)
Free(p, r) == FreeBlocks(p, Reverse(table[r]))
------------------------------------------------------------------------------
(* schedule() *)

StepStart ==
  /\ phase = "idle" /\ running \o waiting # <<>>
  /\ phase' = "running"
  /\ cursor' = 1 /\ budget' = TokenBudget /\ plan' = <<>> /\ preempted' = FALSE /\ chunk' = 0
  /\ hooks' = NoHooks
  /\ UNCHANGED <<pool, reader, requests, running, waiting, written, aborts, resets>>

(* allocation_check, for a check that fails                                 *)
FaultyFailed(r, reason) ==   \* only a waiting request's failure is remembered
  IF r \in hooks.attempted
    THEN [hooks EXCEPT !.lastFailed = r, !.stopGate = reason] ELSE hooks
Failed(r, reason) ==
  [hooks EXCEPT !.lastFailed = r,
                !.stopGate = IF r \in hooks.attempted THEN reason ELSE @]

(* The loop over the running requests *)
InRunning == phase = "running" /\ cursor <= Len(running) /\ budget > 0
Capped(tokens) ==
  LeastOf(IF LongPrefill > 0 THEN LeastOf(tokens, LongPrefill) ELSE tokens, budget)
Chunk(r) == IF chunk > 0 THEN chunk ELSE Capped(Length(r) - computed[r])

ScheduleRunning ==
  /\ InRunning
  /\ LET r == running[cursor]
         upto == computed[r] + Chunk(r)
     IN /\ Fits(r, upto, <<>>)
        /\ SetPool(AllocateSlots(Scope(pool, r), r, <<>>, computed[r], upto))
        /\ table' = [table EXCEPT ![r] = GrownTable(r, <<>>, upto)]
        /\ plan' = Append(plan, [req |-> r, tokens |-> Chunk(r)])
        /\ budget' = budget - Chunk(r)
  /\ cursor' = cursor + 1 /\ chunk' = 0
  /\ UNCHANGED <<status, computed, outputs, running, waiting, phase, preempted, hooks,
                 written, aborts, resets>>

(* Nothing left for it: the request with the least claim is preempted, and  *)
(* the allocation is tried again unless it was that request.  Under FCFS    *)
(* it is the last of `running`, which this step has not scheduled yet.      *)
Victim == IF ByPriority
            THEN CHOOSE v \in ToSet(running) : \A q \in ToSet(running) : Before(q, v)
            ELSE Last(running)
PlannedFor(r) ==
  FoldLeft(LAMBDA sum, entry : IF entry.req = r THEN sum + entry.tokens ELSE sum, 0, plan)

\* _preempt_request, of request v
FaultyPreempted(v, gone) ==   \* the request is not queued again
  /\ table' = [table EXCEPT ![v] = <<>>]
  /\ status' = [status EXCEPT ![v] = "preempted"]
  /\ computed' = [computed EXCEPT ![v] = 0]
  /\ running' = gone
  /\ UNCHANGED waiting
Preempted(v, gone) ==
  /\ table' = [table EXCEPT ![v] = <<>>]
  /\ status' = [status EXCEPT ![v] = "preempted"]
  /\ computed' = [computed EXCEPT ![v] = 0]
  /\ running' = gone
  /\ waiting' = Prepend(waiting, v)

Preempt ==
  /\ InRunning
  /\ LET r == running[cursor]
         left == Remove(running, Victim)
     IN /\ ~Fits(r, computed[r] + Chunk(r), <<>>)
        /\ hooks' = Failed(r, "chunk_kv_allocation_failed")
        /\ SetPool(Free(Scope(pool, r), Victim))
        /\ Preempted(Victim, left)
        /\ cursor' = IF Victim = r THEN Len(left) + 1      \* the loop is left
                     ELSE SelectInSeq(left, LAMBDA q : q = r)
        /\ budget' = budget + PlannedFor(Victim)
        /\ plan' = SelectSeq(plan, LAMBDA entry : entry.req # Victim)
        /\ chunk' = IF Victim = r THEN 0 ELSE Chunk(r)
  /\ preempted' = TRUE
  /\ UNCHANGED <<outputs, phase, written, aborts, resets>>

RunningDone ==
  /\ phase = "running" /\ (cursor > Len(running) \/ budget = 0)
  /\ phase' = "waiting"
  /\ hooks' = [hooks EXCEPT !.stopGate = "none"]
  /\ UNCHANGED <<pool, reader, requests, running, waiting, locals, written, aborts, resets>>

(* The loop over the waiting ones *)
InWaiting == phase = "waiting" /\ ~preempted /\ waiting # <<>> /\ budget > 0
Attempted == [hooks EXCEPT !.attempted = @ \cup {Head(waiting)}]

RunningFull ==
  /\ InWaiting /\ Len(running) >= MaxRunning
  /\ hooks' = [hooks EXCEPT !.stopGate = "max_running_requests"]
  /\ phase' = "end"
  /\ UNCHANGED <<pool, reader, requests, running, waiting, locals, written, aborts, resets>>

Admit ==
  /\ InWaiting /\ Len(running) < MaxRunning
  /\ LET r == Head(waiting)
         hits == ComputedBlocks(r)
         local == Len(hits) * BlockSize
         new == Capped(Length(r) - local)
     IN /\ ReserveFull => Fits(r, Length(r), hits)
        /\ Fits(r, local + new, hits)
        /\ SetPool(AllocateSlots(Scope(LookedUp(r), r), r, hits, local, local + new))
        /\ table' = [table EXCEPT ![r] = GrownTable(r, hits, local + new)]
        /\ status' = [status EXCEPT ![r] = "running"]
        /\ computed' = [computed EXCEPT ![r] = local]
        /\ running' = Append(running, r)
        /\ plan' = Append(plan, [req |-> r, tokens |-> new])
        /\ budget' = budget - new
  /\ waiting' = Tail(waiting)
  /\ hooks' = Attempted
  /\ UNCHANGED <<outputs, phase, cursor, preempted, chunk, written, aborts, resets>>

Refuse ==
  /\ InWaiting /\ Len(running) < MaxRunning
  /\ LET r == Head(waiting)
         hits == ComputedBlocks(r)
         local == Len(hits) * BlockSize
         whole == ReserveFull /\ ~Fits(r, Length(r), hits)
     IN /\ whole \/ ~Fits(r, local + Capped(Length(r) - local), hits)
        /\ hooks' = [Attempted EXCEPT !.lastFailed = r,
                       !.stopGate = IF whole THEN "full_sequence_kv_fit_failed"
                                             ELSE "chunk_kv_allocation_failed"]
        /\ SetPool(Scope(LookedUp(r), r))
  /\ phase' = "end"
  /\ UNCHANGED <<requests, running, waiting, locals, written, aborts, resets>>

(* waiting_end, then _update_after_schedule *)
StopReason ==
  IF preempted THEN "preemption_this_step"
  ELSE IF budget = 0 THEN "token_budget_exhausted" ELSE hooks.stopGate

StepEnd ==
  /\ phase = "end" \/ (phase = "waiting" /\ ~InWaiting)
  /\ hooks' = [hooks EXCEPT !.reason = StopReason]
  /\ computed' = [r \in Requests |-> computed[r] + PlannedFor(r)]
  /\ phase' = "step"
  /\ UNCHANGED <<pool, reader, status, outputs, table, running, waiting, locals, written,
                 aborts, resets>>
------------------------------------------------------------------------------
(* The forward pass and update_from_output() *)

(* It writes the tokens of the plan into the blocks of the tables; a block  *)
(* then holds the last tokens of the prefix it was written for.             *)
Holds(k, r, upto) == Prefix(r, LeastOf(k * BlockSize, upto))
Writes(b) ==
  {<<r, k>> \in Requests \X (1..NumBlocks) :
     /\ k \in DOMAIN table[r] /\ table[r][k] = b
     /\ PlannedFor(r) > 0
     /\ k * BlockSize > computed[r] - PlannedFor(r)}
Execute ==
  /\ phase = "step"
  /\ written' = [b \in Blocks |->
       IF Writes(b) = {} THEN written[b]
       ELSE LET w == CHOOSE w \in Writes(b) : TRUE IN Holds(w[2], w[1], computed[w[1]])]
  /\ phase' = IF plan = <<>> THEN "idle" ELSE "executed"
  /\ UNCHANGED <<pool, reader, requests, running, waiting, locals, hooks, aborts, resets>>

(* A request whose prompt is complete gets a token; its last one finishes   *)
(* it.  One aborted meanwhile is passed over.                               *)
Sampled(r) == status[r] = "running" /\ computed[r] = Length(r)
Stops(r) == Sampled(r) /\ outputs[r] + 1 = Len(Answer[r])
Output ==
  /\ phase \in {"executed", "update"}
  /\ LET r == Head(plan).req IN
       /\ outputs' = IF Sampled(r) THEN [outputs EXCEPT ![r] = @ + 1] ELSE outputs
       /\ IF Stops(r)
            THEN /\ status' = [status EXCEPT ![r] = "finished"]
                 /\ SetPool(Free(pool, r))
                 /\ table' = [table EXCEPT ![r] = <<>>]
                 /\ running' = Remove(running, r)
            ELSE UNCHANGED <<status, pool, reader, table, running>>
  /\ plan' = Tail(plan)
  /\ phase' = IF Len(plan) > 1 THEN "update" ELSE "idle"
  /\ UNCHANGED <<computed, waiting, cursor, budget, preempted, chunk, hooks, written, aborts,
                 resets>>
------------------------------------------------------------------------------
(* From outside *)

AddRequest(r) ==
  /\ phase = "idle" /\ status[r] = "new" /\ \A q \in 1..(r - 1) : status[q] # "new"
  /\ status' = [status EXCEPT ![r] = "waiting"]
  /\ waiting' = Enqueue(waiting, r)
  /\ UNCHANGED <<pool, reader, computed, outputs, table, running, phase, locals, hooks,
                 written, aborts, resets>>

\* finish_requests
Abort(r) ==
  /\ phase \in {"idle", "executed"} /\ aborts < MaxAborts
  /\ status[r] \in {"waiting", "preempted", "running"}
  /\ running' = Remove(running, r) /\ waiting' = Remove(waiting, r)
  /\ status' = [status EXCEPT ![r] = "aborted"]
  /\ SetPool(Free(pool, r))
  /\ table' = [table EXCEPT ![r] = <<>>]
  /\ aborts' = aborts + 1
  /\ UNCHANGED <<computed, outputs, phase, locals, hooks, written, resets>>

(* reset_prefix_cache; with reset_running_requests every running request is *)
(* preempted first, the last one first.  The preemption hook then names     *)
(* whatever request failed last in the step before.                         *)
Reset(runningToo) ==
  /\ phase = "idle" /\ resets < MaxResets
  /\ resets' = resets + 1
  /\ IF runningToo
       THEN /\ SetPool(ResetCache(FoldLeft(Free, pool, Reverse(running))))
            /\ table' = [r \in Requests |-> <<>>]
            /\ status' = [r \in Requests |->
                 IF r \in ToSet(running) THEN "preempted" ELSE status[r]]
            /\ computed' = [r \in Requests |->
                 IF r \in ToSet(running) THEN 0 ELSE computed[r]]
            /\ waiting' = FoldLeft(Prepend, waiting, Reverse(running))
            /\ running' = <<>>
       ELSE /\ SetPool(ResetCache(pool))
            /\ UNCHANGED <<table, status, computed, waiting, running>>
  /\ UNCHANGED <<outputs, phase, locals, hooks, written, aborts>>

Engine ==
  \/ StepStart
  \/ ScheduleRunning \/ Preempt \/ RunningDone
  \/ RunningFull \/ Admit \/ Refuse \/ StepEnd
  \/ Execute \/ Output

Outside ==
  \/ \E r \in Requests : AddRequest(r) \/ Abort(r)
  \/ \E runningToo \in BOOLEAN : Reset(runningToo)

Next == Engine \/ Outside

Spec == Init /\ [][Next]_vars

(* The engine's loop runs as long as a request is unfinished; clients may   *)
(* stop.  This is WF_vars(Engine) with ENABLED <<Engine>>_vars written out,  *)
(* which TLC cannot evaluate through the pool's folds in reasonable time.   *)
Busy == phase # "idle" \/ running \o waiting # <<>>
FairSpec == Spec /\ (<>[]Busy => []<><<Engine>>_vars)
------------------------------------------------------------------------------
(* Properties *)

(* The pool's books agree with the block tables and with one another: a     *)
(* block's count is the number of tables that hold it, the free queue has   *)
(* exactly the blocks with none, the hash map exactly the blocks with that  *)
(* hash, and between steps each running request's table holds the prefix it *)
(* has computed, whatever was preempted, aborted, evicted or shared.        *)
PoolBalance ==
  /\ \A b \in Blocks : pool.refs[b] = Cardinality({r \in Requests : b \in ToSet(table[r])})
  /\ IsInjective(pool.free) /\ ToSet(pool.free) = {b \in Blocks : pool.refs[b] = 0}
  /\ \A h \in Hashes : ToSet(pool.index[h]) = {b \in Blocks : pool.hash[b] = h}
  /\ \A r \in Requests : status[r] # "running" => table[r] = <<>>
  /\ phase = "idle" => \A r \in ToSet(running) :
       /\ Len(table[r]) = Ceil(computed[r])
       /\ \A k \in DOMAIN table[r] : written[table[r][k]] = Holds(k, r, computed[r])

(* get_computed_blocks returns "a list of blocks that are computed for the  *)
(* request": allocate_slots enters a block under its hash before the step   *)
(* computes it, so once the step is over every block with a hash must hold  *)
(* what the hash says.                                                      *)
CachedIsComputed ==
  phase = "idle" => \A b \in Blocks : pool.hash[b] # NoHash => written[b] = pool.hash[b]

(* The same for one caller: the blocks get_computed_blocks would hand a     *)
(* waiting request before the next step hold the prefix they are handed for. *)
HitsComputed ==
  phase = "idle" => \A r \in ToSet(waiting) : \A b \in ToSet(ComputedBlocks(r)) :
    written[b] = pool.hash[b]

(* The event log is enough: who replays it has the references and hashes of *)
(* every block, and the audit has accepted every allocation in it.          *)
LogTellsPool ==
  /\ reader.refs = pool.refs /\ reader.hash = pool.hash
  /\ reader.valid /\ reader.open = Nothing

(* reuse_report: an evicted hash is reported used again only after a lookup *)
(* of it, and looked up only after a request that wants it was seen.        *)
ReuseInOrder == \A row \in reader.rows :
  /\ row.touch => row.lookup # "none"
  /\ row.lookup # "none" => row.demand

(* The hooks share one module-level record, reset at step_start.  A request *)
(* preempted within a step is put down to the request that then lacked      *)
(* blocks, and the reason the step gives for leaving requests waiting is    *)
(* one that holds of the queues, the budget and the pool as they are.       *)
TriggerRight ==
  \A v \in Requests : phase = "running" /\ status[v] = "running" /\ status'[v] = "preempted" =>
    hooks'.lastFailed = running[cursor]
Short(r) ==
  LET local == Len(ComputedBlocks(r)) * BlockSize
      tokens == IF hooks.stopGate = "full_sequence_kv_fit_failed" THEN Length(r)
                ELSE local + Capped(Length(r) - local)
  IN ~Fits(r, tokens, ComputedBlocks(r))
ReasonHolds(reason) ==
  CASE reason = "preemption_this_step" -> \E r \in ToSet(waiting) : status[r] = "preempted"
    [] reason = "token_budget_exhausted" -> budget = 0
    [] reason = "max_running_requests" -> waiting # <<>> /\ Len(running) = MaxRunning
    [] reason = "none" -> waiting = <<>>
    [] OTHER -> /\ waiting # <<>> /\ Short(Head(waiting))
                /\ ToSet(waiting) \cap hooks.attempted = {Head(waiting)}
ReasonsRight ==
  [][TriggerRight /\ (phase' = "step" => ReasonHolds(hooks'.reason))]_vars

(* The recorded scheduler keeps the promise of the simulated instance.      *)
Promise == INSTANCE EnginePromise WITH
  OutputLen <- [r \in Requests |-> Len(Answer[r])],
  submitted <- {r \in Requests : status[r] # "new"},
  emitted <- outputs,
  cancelled <- {r \in Requests : status[r] = "aborted"}
KeepsPromise == Promise!Spec
=============================================================================
