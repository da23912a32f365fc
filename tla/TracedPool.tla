----------------------------- MODULE TracedPool -----------------------------
(***************************************************************************)
(* The block pool of the recorded vLLM build, with the hooks that           *)
(* prepare_vllm_telemetry.py adds to it: class BlockPool of block_pool.py   *)
(* under results/eviction-telemetry-cpu-2026-09-29/patched, its free queue  *)
(* and block metadata, and the events admission_telemetry.py writes.        *)
(*                                                                         *)
(* A pool is a record; an operation takes one and returns the next, with    *)
(* the events the operation wrote appended to `log`.  A hash stands for the *)
(* prefix it is computed from, and is that prefix.  The null block is never *)
(* allocated and is left out, and so are the aliases of a partial block     *)
(* (only hybrid models have them) and the clocks and ids of an event.       *)
(*                                                                         *)
(* The Faulty definitions are explained in Engine.tla.                      *)
(***************************************************************************)
EXTENDS Integers, Sequences, SequencesExt

CONSTANTS
  NumBlocks,   \* usable blocks: num_gpu_blocks without the null block
  Hashes,      \* the hashes of the full blocks of every request
  NoHash       \* block_hash is None

Blocks == 1..NumBlocks

ASSUME PoolAssumption == NumBlocks \in Nat \ {0} /\ NoHash \notin Hashes

FreshPool == [
  hash |-> [b \in Blocks |-> NoHash],
  refs |-> [b \in Blocks |-> 0],
  free |-> [b \in Blocks |-> b],
  index |-> [h \in Hashes |-> <<>>],   \* the owners of a hash, the oldest first
  log |-> <<>>]

Note(p, event) == [p EXCEPT !.log = Append(@, event)]

(* block_record *)
BlockRecord(p, b) == [block |-> b, refs |-> p.refs[b], hash |-> p.hash[b]]
NoteBlock(p, b, type) == Note(p, [type |-> type] @@ BlockRecord(p, b))

(* find_longest_cache_hit asks get_cached_block for one hash after another, *)
(* up to the first that has no owner.                                       *)
HitCount(p, hashes) ==
  Cardinality({k \in DOMAIN hashes : \A i \in 1..k : p.index[hashes[i]] # <<>>})
Hits(p, hashes) == [k \in 1..HitCount(p, hashes) |-> p.index[hashes[k]][1]]
FaultyLookup(p, hashes) ==   \* the hook sits where a miss returns
  LET k == HitCount(p, hashes) + 1
  IN IF k > Len(hashes) THEN p
     ELSE Note(p, [type |-> "cache_lookup", hash |-> hashes[k], hit |-> FALSE])
Lookup(p, hashes) ==
  LET asked == IF HitCount(p, hashes) < Len(hashes) THEN HitCount(p, hashes) + 1
                                                    ELSE Len(hashes)
  IN [p EXCEPT !.log = @ \o [k \in 1..asked |->
        [type |-> "cache_lookup", hash |-> hashes[k], hit |-> p.index[hashes[k]] # <<>>]]]

(* touch: a block nobody holds leaves the free queue.                       *)
TouchBlock(p, b) ==
  [NoteBlock(p, b, "cache_touch") EXCEPT
     !.free = IF p.refs[b] = 0 THEN SelectSeq(@, LAMBDA c : c # b) ELSE @,
     !.refs[b] = @ + 1]
FaultyTouch(p, blocks) ==   \* the hook is called only for a block taken off the free queue
  FoldLeft(LAMBDA q, b : IF q.refs[b] = 0 THEN TouchBlock(q, b)
                                          ELSE [q EXCEPT !.refs[b] = @ + 1], p, blocks)
Touch(p, blocks) == FoldLeft(TouchBlock, p, blocks)

(* _remove_cached_block_hashes *)
Unhash(p, b) ==
  IF p.hash[b] = NoHash THEN p
  ELSE [NoteBlock(p, b, "cache_remove") EXCEPT
          !.hash[b] = NoHash,
          !.index[p.hash[b]] = SelectSeq(@, LAMBDA c : c # b)]

(* allocation_begin and allocation_end.  The free queue is written out in   *)
(* full: the candidates are the records in it that have a hash.             *)
AllocationBegin(p, n) ==
  Note(p, [type |-> "allocation_begin",
           free |-> [k \in DOMAIN p.free |-> BlockRecord(p, p.free[k])],
           selected |-> SubSeq(p.free, 1, n),
           victims |-> Cardinality({k \in 1..n : p.hash[p.free[k]] # NoHash})])
AllocationEnd(p, blocks) == Note(p, [type |-> "allocation_end", blocks |-> blocks])

(* get_new_blocks: the head of the queue, whatever it caches.               *)
TakeBlock(p, b) == [Unhash(p, b) EXCEPT !.refs[b] = @ + 1]
GetNewBlocks(p, n) ==
  LET blocks == SubSeq(p.free, 1, n)
      begun == [AllocationBegin(p, n) EXCEPT !.free = SubSeq(@, n + 1, Len(@))]
  IN AllocationEnd(FoldLeft(TakeBlock, begun, blocks), blocks)

(* _insert_block_hash *)
InsertHash(p, b, h) ==
  IF p.hash[b] = h THEN p
  ELSE NoteBlock([p EXCEPT !.hash[b] = h, !.index[h] = Append(@, b)], b, "cache_insert")

(* cache_full_blocks: the blocks of a table after the first `done` ones.    *)
CacheFullBlocks(p, blocks, hashes, done, full) ==
  FoldLeft(LAMBDA q, k : InsertHash(q, blocks[k], hashes[k]), p,
           [k \in 1..(IF done < full THEN full - done ELSE 0) |-> done + k])

(* free_blocks: uncached blocks to the front of the queue, cached ones to   *)
(* its end, each in the order given.                                        *)
ReleaseBlock(p, b) == NoteBlock([p EXCEPT !.refs[b] = @ - 1], b, "cache_release")
FaultyFreeBlocks(p, blocks) ==   \* the whole table goes back, shared blocks too
  LET q == FoldLeft(ReleaseBlock, p, blocks)
  IN [q EXCEPT !.free = SelectSeq(blocks, LAMBDA b : q.hash[b] = NoHash) \o @
                        \o SelectSeq(blocks, LAMBDA b : q.hash[b] # NoHash)]
FreeBlocks(p, blocks) ==
  LET q == FoldLeft(ReleaseBlock, p, blocks)
      idle == SelectSeq(blocks, LAMBDA b : q.refs[b] = 0)
  IN [q EXCEPT !.free = SelectSeq(idle, LAMBDA b : q.hash[b] = NoHash) \o @
                        \o SelectSeq(idle, LAMBDA b : q.hash[b] # NoHash)]

(* reset_prefix_cache: only when every block is free.                       *)
ResetCache(p) ==
  IF Len(p.free) < NumBlocks THEN p
  ELSE [Note(p, [type |-> "cache_reset"]) EXCEPT !.hash = FreshPool.hash,
                                                 !.index = FreshPool.index]
=============================================================================
