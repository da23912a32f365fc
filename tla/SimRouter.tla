------------------------------ MODULE SimRouter ------------------------------
(***************************************************************************)
(* The router of the simulator: simulate(), RouterIndex, choose, SMetric    *)
(* and HotspotDetector of routing_sim.py, over several instances.           *)
(*                                                                         *)
(* An instance is reduced to what the router reads of it: the keys in its   *)
(* cache, and its callbacks at a request's first and last token.  That each *)
(* request gets both is EnginePromise, which Engine implements; that its    *)
(* full prompt blocks are cached at the first token is                      *)
(* Engine!FirstTokenCached.  Blocks are evicted at any time.                *)
(*                                                                         *)
(* Arrivals come in the order of the trace.  When a callback or a trim      *)
(* comes between them is left open, so the step costs are left out; the     *)
(* times of the arrivals matter to the detector's window only.  Costs are   *)
(* integers.  Left out: the per-request fields written for later analysis.  *)
(* Definitions named Faulty... are variants with a bug, which no action     *)
(* uses.                                                                    *)
(***************************************************************************)
EXTENDS Integers, Sequences, FiniteSets, FiniteSetsExt, Sublists

CONSTANTS
  Trace,         \* the requests, in the order they arrive
  FullKeys,      \* the keys of each prompt's full blocks
  InputLen, Arrival, Class, Parent, EstHit,   \* of each request
  None,          \* no instance, no parent
  NumInstances, Block,
  ClassBlocks, WindowMs, MinCount,            \* HotspotDetector
  Cap,           \* num_blocks, the size of the lru index
  TieOffset,     \* tie_offset
  TrimBlocks,    \* size of the sglang index after a trim
  PerToken, PrefillPair, SloBase, SloPerToken,   \* SMetric's cost and SLO
  BalanceAbs,    \* sglang_ca: imbalance that turns it to load
  MaxEvict       \* bound: evictions

Requests == {Trace[k] : k \in DOMAIN Trace}
Instances == 0..(NumInstances - 1)
KeysOf(r) == {FullKeys[r][k] : k \in DOMAIN FullKeys[r]}
Keys == UNION {KeysOf(r) : r \in Requests}
Classes == {Class[r] : r \in Requests}
Policies == {"load", "lmetric", "lmetric_detector", "affinity", "sglang_ca", "pin", "smetric"}
IndexModes == {"exact", "inflight", "dispatch", "lru", "sglang"}

ASSUME TraceAssumption ==
  /\ Trace \in Seq(Requests)
  /\ NumInstances \in Nat \ {0} /\ None \notin Instances
  /\ \A j, k \in DOMAIN Trace : j < k => /\ Trace[j] # Trace[k]
                                         /\ Arrival[Trace[j]] <= Arrival[Trace[k]]
  /\ \A r \in Requests : /\ InputLen[r] \in Nat /\ Arrival[r] \in Int
                         /\ Parent[r] \in Requests \cup {None}
                         /\ FullKeys[r] \in Seq(Keys)
                         /\ Len(FullKeys[r]) = InputLen[r] \div Block
                         /\ IsInjectiveSeq(FullKeys[r])   \* a key hashes its prefix

ASSUME SizeAssumption ==
  /\ Block \in Nat \ {0} /\ ClassBlocks \in Nat \ {0}
  /\ WindowMs \in Nat \ {0} /\ MinCount \in Nat
  /\ Cap \in Nat /\ TrimBlocks \in Nat /\ TieOffset \in Nat
  /\ PerToken \in Nat /\ PrefillPair \in Nat /\ PrefillPair % 2 = 0
  /\ MaxEvict \in Nat

VARIABLES
  policy, index,        \* parameters of simulate()
  turn,                 \* arrivals so far
  \* the books
  bs, queued, qcost,    \* per instance
  placed, newTokens, newCost,   \* per request
  \* each RouterIndex
  lru,                  \* OrderedDict of keys, oldest first
  pending,              \* key -> requests being prefilled with it
  \* the detector
  arrivals, counts, streak, filtering,
  \* the instances, as the router sees them
  state,                \* of a request: "ahead", "prefill", "decode", "done"
  cached,               \* instance -> keys
  evictions,
  \* history, for the properties only
  touched,              \* per instance, key -> when it was last dispatched
  verdicts              \* what the detector found, request by request

books == <<bs, queued, qcost, placed, newTokens, newCost>>
detector == <<arrivals, counts, streak, filtering, verdicts>>
vars == <<policy, index, turn, books, lru, pending, touched, detector, state, cached, evictions>>

Init ==
  /\ policy \in Policies
  /\ index \in IndexModes
  /\ turn = 0
  /\ bs = [i \in Instances |-> 0]
  /\ queued = [i \in Instances |-> 0]
  /\ qcost = [i \in Instances |-> 0]
  /\ placed = [r \in Requests |-> None]
  /\ newTokens = [r \in Requests |-> 0]
  /\ newCost = [r \in Requests |-> 0]
  /\ lru = [i \in Instances |-> <<>>]
  /\ pending = [i \in Instances |-> [k \in Keys |-> 0]]
  /\ arrivals = <<>>
  /\ counts = [c \in Classes |-> 0]
  /\ streak = [c \in Classes |-> 0]
  /\ filtering = {}
  /\ state = [r \in Requests |-> "ahead"]
  /\ cached = [i \in Instances |-> {}]
  /\ evictions = 0
  /\ touched = [i \in Instances |-> [k \in Keys |-> <<0, 0>>]]
  /\ verdicts = <<>>

-----------------------------------------------------------------------------
(* RouterIndex *)

InLru(i) == {lru[i][n] : n \in DOMAIN lru[i]}

Believed(i) ==
  CASE index = "exact" -> cached[i]
    [] index = "inflight" -> cached[i] \cup {k \in Keys : pending[i][k] # 0}
    [] OTHER -> InLru(i)

\* hits: the longest prefix of r's full keys that the index of i holds.
Hits(i, r) ==
  CHOOSE h \in 0..Len(FullKeys[r]) :
    /\ \A k \in 1..h : FullKeys[r][k] \in Believed(i)
    /\ h = Len(FullKeys[r]) \/ FullKeys[r][h + 1] \notin Believed(i)

Newest(s, n) == IF Len(s) > n THEN SubSeq(s, Len(s) - n + 1, Len(s)) ELSE s

FaultyTouch(i, r) ==
  lru[i] \o Sublist(FullKeys[r], KeysOf(r) \ InLru(i))

\* The keys of r become the newest, in order.
Touch(i, r) == Sublist(lru[i], InLru(i) \ KeysOf(r)) \o FullKeys[r]

(* dispatched, at instance i. *)
Dispatched(i, r) ==
  /\ pending' = IF index = "inflight"
                  THEN [pending EXCEPT ![i] = [k \in Keys |-> @[k] + (IF k \in KeysOf(r) THEN 1 ELSE 0)]]
                  ELSE pending
  /\ lru' = CASE index \in {"exact", "inflight"} -> lru
              [] index = "lru" -> [lru EXCEPT ![i] = Newest(Touch(i, r), Cap)]
              [] OTHER -> [lru EXCEPT ![i] = Touch(i, r)]
  /\ touched' = [touched EXCEPT ![i] = [k \in Keys |->
                   IF k \in KeysOf(r)
                     THEN <<turn + 1, CHOOSE n \in DOMAIN FullKeys[r] : FullKeys[r][n] = k>>
                     ELSE @[k]]]

FaultyPrefilled(i, r) == pending[i]

FaultyPrefilledAlways(i, r) == [k \in Keys |-> pending[i][k] - (IF k \in KeysOf(r) THEN 1 ELSE 0)]

\* prefilled
Prefilled(i, r) ==
  IF index = "inflight"
    THEN [k \in Keys |-> pending[i][k] - (IF k \in KeysOf(r) THEN 1 ELSE 0)]
    ELSE pending[i]

-----------------------------------------------------------------------------
(* Scores.  h is the list of hits, one per instance. *)

LMetric(i, h, r) == (queued[i] + InputLen[r] - h[i] * Block) * (bs[i] + 1)

\* c_lin * n + c_att * n * (L - n / 2), for an even c_att.
PrefillCost(length, hit) ==
  LET n == length - hit
  IN PerToken * n + (PrefillPair * n * (2 * length - n)) \div 2

Load(i, h, r) == qcost[i] + PrefillCost(InputLen[r], h[i] * Block)

Unbalanced == LET lo == Min({bs[i] : i \in Instances})
                  hi == Max({bs[i] : i \in Instances})
              IN hi - lo > BalanceAbs /\ 2 * hi > 3 * lo

\* A hit rate over 0.3, at the best instance.
GoodRate(h, r) == \E i \in Instances : 10 * h[i] * Block > 3 * Max({1, InputLen[r]})

Score(i, h, r) ==
  CASE policy = "load" -> <<bs[i], queued[i]>>
    [] policy \in {"lmetric", "lmetric_detector", "pin"} -> <<LMetric(i, h, r), 0>>
    [] policy = "affinity" -> <<-h[i], bs[i]>>
    [] policy = "sglang_ca" -> IF Unbalanced THEN <<bs[i], 0>>
                               ELSE IF GoodRate(h, r) THEN <<-h[i], bs[i]>>
                               ELSE <<Len(lru[i]), bs[i]>>
    [] policy = "smetric" -> <<Load(i, h, r) * (bs[i] + 1), 0>>

NoWorse(s, t) == s[1] < t[1] \/ (s[1] = t[1] /\ s[2] <= t[2])

FaultyBest(h, r, candidates) ==
  {i \in Instances : \A j \in Instances : NoWorse(Score(i, h, r), Score(j, h, r))}

Best(h, r, candidates) ==
  {i \in candidates : \A j \in candidates : NoWorse(Score(i, h, r), Score(j, h, r))}

\* tied[turn % len(tied)], where the code's turn starts at tie_offset.
TakeTurn(tied) ==
  CHOOSE i \in tied : Cardinality({j \in tied : j < i}) = (turn + TieOffset) % Cardinality(tied)

(* SMetric.choose, first half: the instance with the longest hit, if the    *)
(* session is still there and it is not too slow.                           *)
Longest(h, r) ==
  CHOOSE i \in Instances : \A j \in Instances \ {i} :
    \/ h[i] > h[j]
    \/ h[i] = h[j] /\ Load(i, h, r) < Load(j, h, r)
    \/ h[i] = h[j] /\ Load(i, h, r) = Load(j, h, r) /\ i < j
Sticks(h, r) ==
  LET i == Longest(h, r)
  IN /\ Parent[r] # None
     /\ 2 * h[i] * Block > EstHit[r]
     /\ Load(i, h, r) <= SloBase + SloPerToken * InputLen[r]

Choose(h, r, candidates) ==
  IF policy = "smetric" /\ Sticks(h, r) THEN Longest(h, r)
  ELSE IF policy = "pin" /\ Parent[r] # None /\ placed[Parent[r]] # None THEN placed[Parent[r]]
  ELSE TakeTurn(Best(h, r, candidates))

-----------------------------------------------------------------------------
(* HotspotDetector *)

FaultyExpired(all, now) ==
  Max({n \in 0..Len(all) : \A m \in 1..n : all[m][1] < now - WindowMs})

\* How many arrivals at the head of the deque have left the window.
Expired(all, now) ==
  Max({n \in 0..Len(all) : \A m \in 1..n : all[m][1] <= now - WindowMs})

\* observe
Observed(r) ==
  LET all == Append(arrivals, <<Arrival[r], Class[r]>>)
      n == Expired(all, Arrival[r])
  IN [arrivals |-> SubSeq(all, n + 1, Len(all)),
      counts |-> [c \in Classes |-> counts[c] + (IF c = Class[r] THEN 1 ELSE 0)
                                    - Cardinality({m \in 1..n : all[m][2] = c})]]

HasClass(r) == Len(FullKeys[r]) >= ClassBlocks
Holders(h) == {i \in Instances : h[i] >= ClassBlocks}

\* Equation 2 fails: phase 1.
Alarm(seen, h, r) ==
  LET m == Cardinality(Holders(h)) count == seen.counts[Class[r]]
  IN /\ 0 < m /\ m < NumInstances
     /\ count >= MinCount
     /\ count * NumInstances > m * Len(seen.arrivals)

\* LMetric's best score on the holders is no worse than off them: phase 2.
HotspotWins(h, r) ==
  Min({LMetric(i, h, r) : i \in Holders(h)}) <= Min({LMetric(i, h, r) : i \in Instances \ Holders(h)})

FaultyNextStreak(seen, h, r) ==
  IF ~Alarm(seen, h, r) THEN 0
  ELSE IF Class[r] \in filtering \/ ~HotspotWins(h, r) THEN streak[Class[r]]
  ELSE streak[Class[r]] + 1

NextStreak(seen, h, r) ==
  IF ~Alarm(seen, h, r) THEN 0
  ELSE IF Class[r] \in filtering THEN streak[Class[r]]
  ELSE IF HotspotWins(h, r) THEN streak[Class[r]] + 1 ELSE 0

Filters(seen, h, r) ==
  /\ HasClass(r)
  /\ Alarm(seen, h, r)
  /\ Class[r] \in filtering \/ NextStreak(seen, h, r) >= 2 * Cardinality(Holders(h))

(* observe and allowed, for a request with hits h. *)
Judge(seen, h, r) ==
  /\ arrivals' = seen.arrivals
  /\ counts' = seen.counts
  /\ IF HasClass(r)
       THEN /\ streak' = [streak EXCEPT ![Class[r]] = NextStreak(seen, h, r)]
            /\ filtering' = IF Filters(seen, h, r) THEN filtering \cup {Class[r]}
                                                   ELSE filtering \ {Class[r]}
            /\ verdicts' = Append(verdicts,
                 [class |-> Class[r], holders |-> Cardinality(Holders(h)),
                  alarm |-> Alarm(seen, h, r),
                  counts |-> Alarm(seen, h, r) /\ HotspotWins(h, r)])
       ELSE UNCHANGED <<streak, filtering, verdicts>>

-----------------------------------------------------------------------------
(* simulate() *)

(* Event kind 0: a request arrives and is routed. *)
Arrive ==
  /\ turn < Len(Trace)
  /\ LET r == Trace[turn + 1]
         h == [i \in Instances |-> Hits(i, r)]
         seen == Observed(r)
         detects == policy = "lmetric_detector"
         candidates == IF detects /\ Filters(seen, h, r) THEN Instances \ Holders(h) ELSE Instances
         i == Choose(h, r, candidates)
         new == InputLen[r] - h[i] * Block
         cost == PrefillCost(InputLen[r], h[i] * Block)
     IN /\ IF detects THEN Judge(seen, h, r) ELSE UNCHANGED detector
        /\ placed' = [placed EXCEPT ![r] = i]
        /\ newTokens' = [newTokens EXCEPT ![r] = new]
        /\ newCost' = [newCost EXCEPT ![r] = cost]
        /\ bs' = [bs EXCEPT ![i] = @ + 1]
        /\ queued' = [queued EXCEPT ![i] = @ + new]
        /\ qcost' = [qcost EXCEPT ![i] = @ + cost]
        /\ Dispatched(i, r)
        /\ state' = [state EXCEPT ![r] = "prefill"]
  /\ turn' = turn + 1
  /\ UNCHANGED <<policy, index, cached, evictions>>

(* Event kind 1, the callback `first`: r's prompt is computed and cached. *)
First(r) ==
  /\ state[r] = "prefill"
  /\ LET i == placed[r]
     IN /\ state' = [state EXCEPT ![r] = "decode"]
        /\ cached' = [cached EXCEPT ![i] = @ \cup KeysOf(r)]
        /\ queued' = [queued EXCEPT ![i] = @ - newTokens[r]]
        /\ qcost' = [qcost EXCEPT ![i] = @ - newCost[r]]
        /\ pending' = [pending EXCEPT ![i] = Prefilled(i, r)]
  /\ UNCHANGED <<policy, index, turn, bs, placed, newTokens, newCost, lru, touched, detector, evictions>>

FaultyLeaves(r) == newTokens[r] > 0

\* Whose end takes a request off the batch: every request's.
Leaves(r) == TRUE

(* The callback `done`. *)
Done(r) ==
  /\ state[r] = "decode"
  /\ state' = [state EXCEPT ![r] = "done"]
  /\ bs' = IF Leaves(r) THEN [bs EXCEPT ![placed[r]] = @ - 1] ELSE bs
  /\ UNCHANGED <<policy, index, turn, queued, qcost, placed, newTokens, newCost, lru, pending,
                 touched, detector, cached, evictions>>

(* Event kind 2, before the last arrival: every sglang index is trimmed. *)
Trim ==
  /\ index = "sglang"
  /\ turn < Len(Trace)
  /\ lru' = [i \in Instances |-> Newest(lru[i], TrimBlocks)]
  /\ UNCHANGED <<policy, index, turn, books, pending, touched, detector, state, cached, evictions>>

(* An instance caches some of a prompt before its first token, or again      *)
(* after a preemption; it evicts.                                           *)
CacheChunk(r, n) ==
  /\ state[r] \in {"prefill", "decode"}
  /\ cached' = [cached EXCEPT ![placed[r]] = @ \cup {FullKeys[r][k] : k \in 1..n}]
  /\ UNCHANGED <<policy, index, turn, books, lru, pending, touched, detector, state, evictions>>
Evict(i, k) ==
  /\ k \in cached[i]
  /\ evictions < MaxEvict
  /\ evictions' = evictions + 1
  /\ cached' = [cached EXCEPT ![i] = @ \ {k}]
  /\ UNCHANGED <<policy, index, turn, books, lru, pending, touched, detector, state>>

Finished == (\A r \in Requests : state[r] = "done") /\ UNCHANGED vars

Next ==
  \/ Arrive
  \/ \E r \in Requests : First(r) \/ Done(r)
  \/ \E r \in Requests : \E n \in DOMAIN FullKeys[r] : CacheChunk(r, n)
  \/ \E i \in Instances, k \in Keys : Evict(i, k)
  \/ Trim
  \/ Finished

Spec == Init /\ [][Next]_vars

-----------------------------------------------------------------------------
(* Properties *)

Verdicts == [class : Classes, holders : Nat, alarm : BOOLEAN, counts : BOOLEAN]

TypeOK ==
  /\ policy \in Policies /\ index \in IndexModes /\ turn \in 0..Len(Trace)
  /\ bs \in [Instances -> Nat] /\ queued \in [Instances -> Nat] /\ qcost \in [Instances -> Nat]
  /\ placed \in [Requests -> Instances \cup {None}]
  /\ newTokens \in [Requests -> Nat] /\ newCost \in [Requests -> Nat]
  /\ lru \in [Instances -> Seq(Keys)] /\ touched \in [Instances -> [Keys -> Nat \X Nat]]
  /\ pending \in [Instances -> [Keys -> Nat]]
  /\ arrivals \in Seq(Int \X Classes) /\ verdicts \in Seq(Verdicts)
  /\ counts \in [Classes -> Nat] /\ streak \in [Classes -> Nat] /\ filtering \subseteq Classes
  /\ state \in [Requests -> {"ahead", "prefill", "decode", "done"}]
  /\ cached \in [Instances -> SUBSET Keys] /\ evictions \in 0..MaxEvict

At(i, states) == {r \in Requests : placed[r] = i /\ state[r] \in states}

\* Amounts, unit by unit: <<request, number of the unit>>.
Units(amount, S) == UNION {{r} \X (1..amount[r]) : r \in S}

(* The load indicators are true whatever the order of the callbacks: bs is  *)
(* the number of unanswered requests, queued and qcost what those still in  *)
(* prefill were charged when they were routed.                              *)
BooksBalance ==
  \A i \in Instances :
    /\ bs[i] = Cardinality(At(i, {"prefill", "decode"}))
    /\ queued[i] = Cardinality(Units(newTokens, At(i, {"prefill"})))
    /\ qcost[i] = Cardinality(Units(newCost, At(i, {"prefill"})))

(* The in-flight index predicts a key only while it is cached or some       *)
(* request is computing it, however many share it.                          *)
PendingCounts ==
  \A i \in Instances, k \in Keys :
    pending[i][k] = IF index = "inflight"
                      THEN Cardinality({r \in At(i, {"prefill"}) : k \in KeysOf(r)})
                      ELSE 0

(* The dispatch, lru and sglang indexes hold the most recently routed keys, *)
(* ordered by when they were last routed; nothing newer is dropped before   *)
(* something older.  Only the lru index is bounded at all times.            *)
Earlier(s, t) == s[1] < t[1] \/ (s[1] = t[1] /\ s[2] < t[2])
LruRecent ==
  index \notin {"exact", "inflight"} =>
    \A i \in Instances :
      LET used == {k \in Keys : touched[i][k][1] > 0}
      IN /\ \A m, n \in DOMAIN lru[i] : m < n => Earlier(touched[i][lru[i][m]], touched[i][lru[i][n]])
         /\ \A k \in used \ InLru(i), b \in InLru(i) : Earlier(touched[i][k], touched[i][b])
         /\ index = "dispatch" => InLru(i) = used
         /\ index = "lru" => Len(lru[i]) = Min({Cap, Cardinality(used)})

(* The detector's incremental counts are the class's arrivals in the        *)
(* trailing window, as its docstring defines x.                             *)
WindowCounts ==
  policy = "lmetric_detector" /\ turn > 0 =>
    LET inside == {n \in 1..turn : Arrival[Trace[n]] > Arrival[Trace[turn]] - WindowMs}
    IN /\ Len(arrivals) = Cardinality(inside)
       /\ \A c \in Classes : counts[c] = Cardinality({n \in inside : Class[Trace[n]] = c})

(* Filtering is what the docstring of HotspotDetector says, told over the   *)
(* whole history of a class: it stands if and only if all its requests from *)
(* some point on raised the alarm, and among these were 2|M| in a row that  *)
(* a hotspot would have won, |M| being the holders at the last of them.     *)
Own(c) == Sublist(verdicts, {v \in Verdicts : v.class = c})
FilteringMeans ==
  \A c \in Classes :
    LET own == Own(c)
    IN c \in filtering <=>
         \E n \in DOMAIN own :
           LET from == n - 2 * own[n].holders + 1
           IN /\ own[n].alarm /\ from >= 1
              /\ \A m \in from..n : own[m].counts
              /\ \A m \in n..Len(own) : own[m].alarm

(* A request of a filtered class never goes to an instance that holds its   *)
(* prefix, and there is always another instance for it.                     *)
AvoidsHolders ==
  [][turn' = turn + 1 /\ policy = "lmetric_detector" =>
       LET r == Trace[turn']
       IN HasClass(r) /\ Class[r] \in filtering' => Hits(placed'[r], r) < ClassBlocks]_vars

-----------------------------------------------------------------------------
(* What the safety invariants rest on, beyond themselves *)

(* The requests routed so far are those before turn, and they have a place. *)
StateInv ==
  /\ \A n \in DOMAIN Trace : state[Trace[n]] = "ahead" <=> n > turn
  /\ \A r \in Requests : state[r] # "ahead" => placed[r] \in Instances

(* No key twice in an index, and none that was not dispatched.              *)
LruInv ==
  \A i \in Instances :
    /\ IsInjectiveSeq(lru[i])
    /\ \A k \in Keys : touched[i][k][1] \in 0..turn
    /\ \A k \in InLru(i) : touched[i][k][1] > 0

(* The deque is the end of the trace so far: what is inside the window.     *)
WindowInv ==
  policy = "lmetric_detector" =>
    \E d \in 0..turn :
      /\ Len(arrivals) = turn - d
      /\ \A m \in 1..(turn - d) : arrivals[m] = <<Arrival[Trace[m + d]], Class[Trace[m + d]]>>
      /\ \A n \in 1..turn : n <= d <=> Arrival[Trace[n]] <= Arrival[Trace[turn]] - WindowMs
      /\ \A c \in Classes : counts[c] = Cardinality({n \in (d + 1)..turn : Class[Trace[n]] = c})

(* The streak of a class that is not filtered is as long as the run of      *)
(* counting requests it ends with.                                          *)
StreakInv ==
  /\ \A c \in Classes \ filtering :
       LET own == Own(c)
           s == streak[c]
       IN /\ s <= Len(own)
          /\ \A m \in (Len(own) - s + 1)..Len(own) : own[m].counts
          /\ s = Len(own) \/ ~own[Len(own) - s].counts
  /\ \A v \in Elements(verdicts) : /\ v.counts => v.alarm
                                   /\ v.alarm => v.holders > 0

Inductive ==
  /\ TypeOK /\ StateInv /\ BooksBalance /\ PendingCounts
  /\ LruInv /\ LruRecent /\ WindowInv /\ StreakInv /\ FilteringMeans
=============================================================================
