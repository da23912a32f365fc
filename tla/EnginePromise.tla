---------------------------- MODULE EnginePromise ----------------------------
(***************************************************************************)
(* What one serving instance promises to whoever sends it requests, with    *)
(* batching, the block pool, prefix reuse and preemption left out:          *)
(*   - a request that was never submitted produces nothing;                 *)
(*   - a submitted request is answered one token at a time, never takes a   *)
(*     token back, and stops at exactly its output length;                  *)
(*   - every submitted request is answered in full, whatever else arrives,  *)
(*     unless its client cancels it; after that it gets nothing more.       *)
(* The simulator's router (simulate in routing_sim.py) reads only this: its *)
(* `first` callback is the first token, its `done` callback the last.  The  *)
(* simulated instance (Engine, which nobody cancels) and the recorded vLLM  *)
(* scheduler it stands for (TracedScheduler) both keep it.                  *)
(***************************************************************************)
EXTENDS Integers

CONSTANTS Requests, OutputLen

VARIABLES
  submitted,   \* the requests the instance has been handed
  emitted,     \* tokens answered so far, per request
  cancelled    \* the requests their client gave up

vars == <<submitted, emitted, cancelled>>

Init ==
  /\ submitted = {}
  /\ emitted = [r \in Requests |-> 0]
  /\ cancelled = {}

Submit(r) ==
  /\ r \notin submitted
  /\ submitted' = submitted \cup {r}
  /\ UNCHANGED <<emitted, cancelled>>

Emit(r) ==
  /\ r \in submitted \ cancelled
  /\ emitted[r] < OutputLen[r]
  /\ emitted' = [emitted EXCEPT ![r] = @ + 1]
  /\ UNCHANGED <<submitted, cancelled>>

Cancel(r) ==
  /\ r \in submitted \ cancelled
  /\ emitted[r] < OutputLen[r]
  /\ cancelled' = cancelled \cup {r}
  /\ UNCHANGED <<submitted, emitted>>

Next == \E r \in Requests : Submit(r) \/ Emit(r) \/ Cancel(r)

Safe == Init /\ [][Next]_vars

\* Submitting and cancelling are the client's choice; only answering is promised.
Spec == Safe /\ \A r \in Requests : WF_vars(Emit(r))
=============================================================================
