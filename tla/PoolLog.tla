------------------------------ MODULE PoolLog ------------------------------
(***************************************************************************)
(* What is made of the event log of TracedPool afterwards:                  *)
(*   - the audit of analyze() in scripts/analyze_eviction_telemetry.py,     *)
(*     which rejects a log whose allocations do not add up;                 *)
(*   - the rows of reuse_report in admission_telemetry.py, which follow an  *)
(*     evicted hash until it is wanted, looked up and used again;           *)
(*   - a replay, which is not in the code: the references and hashes a      *)
(*     reader can rebuild from the log alone.  LogTellsPool compares it     *)
(*     with the pool.                                                       *)
(* Each is a function of the log, folded here one event at a time.          *)
(***************************************************************************)
EXTENDS TracedPool

Nothing == [selected |-> <<>>, eligible |-> {}, removed |-> {}]

FreshReader == [
  refs |-> FreshPool.refs, hash |-> FreshPool.hash,   \* the replay
  open |-> Nothing, valid |-> TRUE,                   \* the audit
  rows |-> {}]                                        \* the reuse rows

(* analyze: an allocation takes the head of the recorded queue, evicts the  *)
(* cached blocks among them, each unreferenced, and gets what it selected.  *)
Legal(open, e) ==
  CASE e.type = "allocation_begin" ->
         /\ \A k \in DOMAIN e.free : e.free[k].hash # NoHash => e.free[k].refs = 0
         /\ e.selected = [k \in DOMAIN e.selected |-> e.free[k].block]
         /\ e.victims = Cardinality({k \in DOMAIN e.selected : e.free[k].hash # NoHash})
    [] e.type = "cache_remove" ->
         e.refs = 0 /\ e.block \in open.eligible
    [] e.type = "allocation_end" ->
         e.blocks = open.selected /\ open.removed = open.eligible
    [] OTHER -> TRUE

Open(open, e) ==
  CASE e.type = "allocation_begin" ->
         [selected |-> e.selected, removed |-> {},
          eligible |-> {e.free[k].block : k \in
                          {i \in DOMAIN e.selected : e.free[i].hash # NoHash}}]
    [] e.type = "cache_remove" -> [open EXCEPT !.removed = @ \cup {e.block}]
    [] e.type = "allocation_end" -> Nothing
    [] OTHER -> open

(* reuse_report: one row per removed hash.  Rows of one hash that have seen *)
(* the same events are one row here.                                        *)
Row(h) == [hash |-> h, demand |-> FALSE, lookup |-> "none", touch |-> FALSE]
Follow(rows, e) ==
  CASE e.type = "cache_remove" -> rows \cup {Row(e.hash)}
    [] e.type = "request_prefixes" ->
         {[row EXCEPT !.demand = @ \/ row.hash \in e.hashes] : row \in rows}
    [] e.type = "cache_lookup" ->
         {[row EXCEPT !.lookup = IF row.hash = e.hash /\ @ = "none"
                                   THEN IF e.hit THEN "hit" ELSE "miss" ELSE @] : row \in rows}
    [] e.type = "cache_touch" ->
         {[row EXCEPT !.touch = @ \/ row.hash = e.hash] : row \in rows}
    [] OTHER -> rows

(* The replay: a touch is written before the increment, a release after the *)
(* decrement, an insertion with the record that has the new hash.           *)
Refs(refs, e) ==
  CASE e.type = "cache_touch" -> [refs EXCEPT ![e.block] = @ + 1]
    [] e.type = "cache_release" -> [refs EXCEPT ![e.block] = @ - 1]
    [] e.type = "allocation_end" ->
         [b \in Blocks |-> IF b \in ToSet(e.blocks) THEN 1 ELSE refs[b]]
    [] OTHER -> refs
Hash(hash, e) ==
  CASE e.type = "cache_insert" -> [hash EXCEPT ![e.block] = e.hash]
    [] e.type = "cache_remove" -> [hash EXCEPT ![e.block] = NoHash]
    [] e.type = "cache_reset" -> FreshPool.hash
    [] OTHER -> hash

Read(reader, e) == [
  refs |-> Refs(reader.refs, e), hash |-> Hash(reader.hash, e),
  open |-> Open(reader.open, e), valid |-> reader.valid /\ Legal(reader.open, e),
  rows |-> Follow(reader.rows, e)]
=============================================================================
