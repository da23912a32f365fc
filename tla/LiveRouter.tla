----------------------------- MODULE LiveRouter -----------------------------
(***************************************************************************)
(* The live client-side router: routing.py, replay() and InstanceView.      *)
(*                                                                         *)
(* The client is one asyncio loop.  A task per request (send) and a task    *)
(* per instance (subscribe) run between awaits without interruption, so     *)
(* each action below is what happens from one await to the next.  The       *)
(* servers run on their own: what they do is known only from the stream of  *)
(* each response and from block events published over ZeroMQ, which keeps   *)
(* the order and may lose messages.  The last part is the servers, as far   *)
(* as the router relies on them: admission, the prefix cache, its events.   *)
(*                                                                         *)
(* Left out: the snapshots task, which only reads; the contents of the log; *)
(* blocks of generated output, which the index ignores.  A block and its    *)
(* engine hash are one value here: the trace's block ids stand for whole    *)
(* prefixes, as the hashes do.  Definitions named Faulty... are variants    *)
(* with a bug, which no action uses.                                        *)
(***************************************************************************)
EXTENDS Integers, Sequences, FiniteSets, FiniteSetsExt

CONSTANTS
  Requests,      \* the requests of the workload
  NumViews,      \* instances
  FullBlocks,    \* Request.full_blocks: the full blocks of each prompt
  InputLen,      \* prompt tokens of each
  Block,         \* BLOCK: tokens in a block
  Leftovers,     \* what a server may hold before a run that does not reset
                 \* it: block -> physical blocks that cache it
  MaxEvict,      \* bound: evictions, over all servers
  MaxLost        \* bound: messages lost, over all servers

Views == 0..(NumViews - 1)   \* one InstanceView each
Policies == {"load", "lmetric", "affinity"}
IndexModes == {"events", "dispatch"}

PromptBlocks(r) == {FullBlocks[r][k] : k \in DOMAIN FullBlocks[r]}
BlockIds == UNION {PromptBlocks(r) : r \in Requests}

ASSUME WorkloadAssumption ==
  /\ IsFiniteSet(Requests)
  /\ Block \in Nat \ {0}
  /\ NumViews \in Nat \ {0}
  /\ MaxEvict \in Nat
  /\ Leftovers \subseteq [BlockIds -> Nat]
  /\ \A r \in Requests : /\ InputLen[r] \in Nat \ {0}
                         /\ FullBlocks[r] \in Seq(BlockIds)
                         /\ Len(FullBlocks[r]) = InputLen[r] \div Block
                         /\ \A j, k \in DOMAIN FullBlocks[r] :
                              FullBlocks[r][j] = FullBlocks[r][k] => j = k

VARIABLES
  policy, indexMode,   \* parameters of replay()
  left,                \* what each server holds when the run begins
  \* each InstanceView
  bs, queued,    \* requests in the batch, and prefill tokens they still owe
  resident,      \* block -> how many stored copies the router believes in
  engineHash,    \* the hashes (blocks) it can map
  lastSeq,       \* the last sequence number seen, or None
  seqGaps,
  subscribed,    \* the subscribe task runs
  \* each send task
  task,          \* where it is
  chosen, newTokens, pending,
  \* the rest of replay()
  turn, stop,
  \* the servers
  copies,        \* block -> physical blocks that cache it
  served,        \* how far the server is with a request
  prefix,        \* leading blocks of a request in the cache: those found
                 \* at its admission, and those it has put there
  channel,       \* published messages not received yet
  published,     \* messages published so far
  lost,          \* sequence numbers of the lost ones
  evictions

view == <<bs, queued, resident, engineHash, lastSeq, seqGaps, subscribed>>
tasks == <<task, chosen, newTokens, pending>>
cache == <<copies, evictions>>
wire == <<channel, published, lost>>
vars == <<policy, indexMode, left, view, tasks, turn, stop, cache, served, prefix, wire>>

None == -1
TaskStates == {"sleeping", "open", "ended"}
ServedStates == {"none", "admitted", "computed"}

EventTypes == {"BlockStored", "BlockRemoved", "AllBlocksCleared"}
Messages == [seq : Nat, type : EventTypes, blocks : Seq(BlockIds)]
Message(seq, type, blocks) == [seq |-> seq, type |-> type, blocks |-> blocks]
Named(event) == {event.blocks[k] : k \in DOMAIN event.blocks}

NoCopies == [b \in BlockIds |-> 0]

(* replay() has reset the engines, unless it was told not to, and connected *)
(* its subscribers.  The event of the reset may have gone out before, or    *)
(* come with the first ones.  Messages are numbered from here on.           *)
Connected ==
  \/ /\ left = [i \in Views |-> NoCopies]
     /\ indexMode = "events"
     /\ channel = [i \in Views |-> <<Message(0, "AllBlocksCleared", <<>>)>>]
     /\ published = [i \in Views |-> 1]
  \/ /\ left = [i \in Views |-> NoCopies] \/ left \in [Views -> Leftovers]
     /\ channel = [i \in Views |-> <<>>]
     /\ published = [i \in Views |-> 0]

Init ==
  /\ policy \in Policies
  /\ indexMode \in IndexModes
  /\ Connected
  /\ bs = [i \in Views |-> 0]
  /\ queued = [i \in Views |-> 0]
  /\ resident = [i \in Views |-> NoCopies]
  /\ engineHash = [i \in Views |-> {}]
  /\ lastSeq = [i \in Views |-> None]
  /\ seqGaps = [i \in Views |-> 0]
  /\ subscribed = [i \in Views |-> indexMode = "events"]
  /\ task = [r \in Requests |-> "sleeping"]
  /\ chosen = [r \in Requests |-> None]
  /\ newTokens = [r \in Requests |-> 0]
  /\ pending = [r \in Requests |-> FALSE]
  /\ turn = 0
  /\ stop = FALSE
  /\ copies = left
  /\ evictions = 0
  /\ served = [r \in Requests |-> "none"]
  /\ prefix = [r \in Requests |-> 0]
  /\ lost = [i \in Views |-> {}]

-----------------------------------------------------------------------------
(* choose() *)

Smaller(m, n) == IF m <= n THEN m ELSE n

\* The longest prefix of r's full blocks that is in S.
LeadingIn(r, S) ==
  CHOOSE h \in 0..Len(FullBlocks[r]) :
    /\ \A k \in 1..h : FullBlocks[r][k] \in S
    /\ h = Len(FullBlocks[r]) \/ FullBlocks[r][h + 1] \notin S

Believed(i) == {b \in BlockIds : resident[i][b] > 0}
HitBlocks(i, r) == LeadingIn(r, Believed(i))

Uncached(i, r) == InputLen[r] - HitBlocks(i, r) * Block

FaultyPrefer(i, j, r) ==
  CASE policy = "load" -> queued[i] <= queued[j]
    [] policy = "lmetric" -> queued[i] + Uncached(i, r) <= queued[j] + Uncached(j, r)
    [] policy = "affinity" -> HitBlocks(i, r) >= HitBlocks(j, r)

\* The score of i is no worse than the score of j.
Prefer(i, j, r) ==
  CASE policy = "load" ->
         bs[i] < bs[j] \/ (bs[i] = bs[j] /\ queued[i] <= queued[j])
    [] policy = "lmetric" ->
         (queued[i] + Uncached(i, r)) * (bs[i] + 1) <= (queued[j] + Uncached(j, r)) * (bs[j] + 1)
    [] policy = "affinity" ->
         \/ HitBlocks(i, r) > HitBlocks(j, r)
         \/ HitBlocks(i, r) = HitBlocks(j, r) /\ bs[i] <= bs[j]

Tied(r) == {i \in Views : \A j \in Views : Prefer(i, j, r)}

\* tied[turn % len(tied)], with the instances in order.
Choose(r) ==
  CHOOSE i \in Tied(r) : Cardinality({j \in Tied(r) : j < i}) = turn % Cardinality(Tied(r))

-----------------------------------------------------------------------------
(* send() *)

FaultyAssume(r) == {FullBlocks[r][k] : k \in 1..HitBlocks(Choose(r), r)}

\* Dispatch mode: what the index takes to be cached from now on.
Assume(r) == PromptBlocks(r)

(* The arrival time is reached: choose, count, and open the stream. *)
Dispatch(r) ==
  /\ task[r] = "sleeping"
  /\ LET i == Choose(r)
     IN /\ chosen' = [chosen EXCEPT ![r] = i]
        /\ newTokens' = [newTokens EXCEPT ![r] = Uncached(i, r)]
        /\ bs' = [bs EXCEPT ![i] = @ + 1]
        /\ queued' = [queued EXCEPT ![i] = @ + Uncached(i, r)]
        /\ resident' = IF indexMode = "dispatch"
                         THEN [resident EXCEPT ![i] =
                                [b \in BlockIds |-> IF b \in Assume(r) /\ @[b] < 1 THEN 1 ELSE @[b]]]
                         ELSE resident
  /\ task' = [task EXCEPT ![r] = "open"]
  /\ pending' = [pending EXCEPT ![r] = TRUE]
  /\ turn' = turn + 1
  /\ UNCHANGED <<policy, indexMode, left, engineHash, lastSeq, seqGaps, subscribed, stop,
                 cache, served, prefix, wire>>

(* The first chunk with a token: first_token(). *)
FirstToken(r) ==
  /\ task[r] = "open"
  /\ pending[r]
  /\ served[r] = "computed"
  /\ pending' = [pending EXCEPT ![r] = FALSE]
  /\ queued' = [queued EXCEPT ![chosen[r]] = @ - newTokens[r]]
  /\ UNCHANGED <<policy, indexMode, left, bs, resident, engineHash, lastSeq, seqGaps, subscribed,
                 task, chosen, newTokens, turn, stop, cache, served, prefix, wire>>

FaultySettle(r) == queued[chosen[r]] - newTokens[r]
FaultySettleNever(r) == queued[chosen[r]]

\* What the view owes after the finally of r.
Settle(r) == IF pending[r] THEN queued[chosen[r]] - newTokens[r] ELSE queued[chosen[r]]

(* The stream ends, and the finally runs: complete, which needs a first     *)
(* token, or failed at any point (HTTP status, error event, cut short,      *)
(* wrong length, timeout).                                                  *)
End(r) ==
  /\ task[r] = "open"
  /\ task' = [task EXCEPT ![r] = "ended"]
  /\ queued' = [queued EXCEPT ![chosen[r]] = Settle(r)]
  /\ bs' = [bs EXCEPT ![chosen[r]] = @ - 1]
  /\ UNCHANGED <<policy, indexMode, left, resident, engineHash, lastSeq, seqGaps, subscribed,
                 chosen, newTokens, pending, turn, stop, cache, served, prefix, wire>>

(* gather() returns: the subscribers are told to stop. *)
AllReturned ==
  /\ \A r \in Requests : task[r] = "ended"
  /\ ~stop
  /\ stop' = TRUE
  /\ UNCHANGED <<policy, indexMode, left, view, tasks, turn, cache, served, prefix, wire>>

-----------------------------------------------------------------------------
(* subscribe() *)

FaultyApply(i, event) ==
  LET named == Named(event)
      known == named \cap engineHash[i]
  IN \/ /\ event.type = "BlockStored"
        /\ resident' = [resident EXCEPT ![i] =
             [b \in BlockIds |-> IF b \in named \ known THEN @[b] + 1 ELSE @[b]]]
        /\ engineHash' = [engineHash EXCEPT ![i] = @ \cup named]
     \/ /\ event.type = "BlockRemoved"
        /\ resident' = [resident EXCEPT ![i] =
             [b \in BlockIds |-> IF b \in known THEN @[b] - 1 ELSE @[b]]]
        /\ engineHash' = [engineHash EXCEPT ![i] = @ \ named]
     \/ /\ event.type = "AllBlocksCleared"
        /\ resident' = [resident EXCEPT ![i] = NoCopies]
        /\ engineHash' = [engineHash EXCEPT ![i] = {}]

(* InstanceView.apply, over all the blocks of an event. *)
Apply(i, event) ==
  LET named == Named(event)
      known == named \cap engineHash[i]
  IN \/ /\ event.type = "BlockStored"
        /\ resident' = [resident EXCEPT ![i] =
             [b \in BlockIds |-> IF b \in named THEN @[b] + 1 ELSE @[b]]]
        /\ engineHash' = [engineHash EXCEPT ![i] = @ \cup named]
     \/ /\ event.type = "BlockRemoved"
        /\ resident' = [resident EXCEPT ![i] =
             [b \in BlockIds |-> IF b \in known THEN @[b] - 1 ELSE @[b]]]
        /\ engineHash' = [engineHash EXCEPT ![i] = @ \ named]
     \/ /\ event.type = "AllBlocksCleared"
        /\ resident' = [resident EXCEPT ![i] = NoCopies]
        /\ engineHash' = [engineHash EXCEPT ![i] = {}]

FaultyGap(i, seq) == lastSeq[i] # None /\ seq < lastSeq[i] + 1
Gap(i, seq) == lastSeq[i] # None /\ seq # lastSeq[i] + 1

(* A message is received and its events applied. *)
Receive(i) ==
  /\ subscribed[i]
  /\ channel[i] # <<>>
  /\ LET message == Head(channel[i])
     IN /\ seqGaps' = [seqGaps EXCEPT ![i] = IF Gap(i, message.seq) THEN @ + 1 ELSE @]
        /\ lastSeq' = [lastSeq EXCEPT ![i] = message.seq]
        /\ Apply(i, message)
  /\ channel' = [channel EXCEPT ![i] = Tail(@)]
  /\ UNCHANGED <<policy, indexMode, left, bs, queued, subscribed, tasks, turn, stop,
                 cache, served, prefix, published, lost>>

(* The loop sees stop: what is still in the channel is never read. *)
Unsubscribe(i) ==
  /\ subscribed[i]
  /\ stop
  /\ subscribed' = [subscribed EXCEPT ![i] = FALSE]
  /\ UNCHANGED <<policy, indexMode, left, bs, queued, resident, engineHash, lastSeq, seqGaps,
                 tasks, turn, stop, cache, served, prefix, wire>>

-----------------------------------------------------------------------------
(* The servers *)

LostSoFar == MapThenSumSet(LAMBDA i : Cardinality(lost[i]), Views)

\* A message is published: if anyone listens, it is on its way, or lost.
Publish(i, type, blocks) ==
  LET message == Message(published[i], type, blocks)
  IN IF ~subscribed[i] THEN UNCHANGED wire ELSE
     /\ published' = [published EXCEPT ![i] = @ + 1]
     /\ \/ /\ channel' = [channel EXCEPT ![i] = Append(@, message)]
           /\ UNCHANGED lost
        \/ /\ LostSoFar < MaxLost
           /\ lost' = [lost EXCEPT ![i] = @ \cup {published[i]}]
           /\ UNCHANGED channel

Held(i) == {b \in BlockIds : copies[i][b] > 0}

\* A hit leaves at least the last token of the prompt to compute.
MaxHit(r) == (InputLen[r] - 1) \div Block
ServerHit(r) == Smaller(LeadingIn(r, Held(chosen[r])), MaxHit(r))

(* The engine admits a request: the prefix it finds cached is settled here. *)
ServerAdmit(r) ==
  /\ task[r] = "open"
  /\ served[r] = "none"
  /\ served' = [served EXCEPT ![r] = "admitted"]
  /\ prefix' = [prefix EXCEPT ![r] = ServerHit(r)]
  /\ UNCHANGED <<policy, indexMode, left, view, tasks, turn, stop, cache, wire>>

(* A part of its prompt is scheduled: the full blocks past the prefix are   *)
(* cached, each in a block of its own even if another request has cached    *)
(* the same one meanwhile.  An abandoned request may get this far too.      *)
ServerCache(r) ==
  /\ served[r] = "admitted"
  /\ \E n \in (prefix[r] + 1)..Len(FullBlocks[r]) :
       LET i == chosen[r]
           new == SubSeq(FullBlocks[r], prefix[r] + 1, n)
       IN /\ copies' = [copies EXCEPT ![i] = [b \in BlockIds |->
                          IF \E k \in DOMAIN new : new[k] = b THEN @[b] + 1 ELSE @[b]]]
          /\ prefix' = [prefix EXCEPT ![r] = n]
          /\ Publish(i, "BlockStored", new)
  /\ UNCHANGED <<policy, indexMode, left, view, tasks, turn, stop, evictions, served>>

(* The last part of its prompt is computed.                                 *)
ServerCompute(r) ==
  /\ served[r] = "admitted"
  /\ prefix[r] = Len(FullBlocks[r])
  /\ served' = [served EXCEPT ![r] = "computed"]
  /\ UNCHANGED <<policy, indexMode, left, view, tasks, turn, stop, cache, prefix, wire>>

\* Requests the server is working on that read or fill block b.
Users(i, b) == {r \in Requests : /\ chosen[r] = i /\ task[r] = "open" /\ served[r] # "none"
                                 /\ b \in PromptBlocks(r)}

(* A cached block is taken for something else. *)
ServerEvict(i, b) ==
  /\ copies[i][b] > 1 \/ (copies[i][b] = 1 /\ Users(i, b) = {})
  /\ evictions < MaxEvict
  /\ copies' = [copies EXCEPT ![i][b] = @ - 1]
  /\ evictions' = evictions + 1
  /\ Publish(i, "BlockRemoved", <<b>>)
  /\ UNCHANGED <<policy, indexMode, left, view, tasks, turn, stop, served, prefix>>

-----------------------------------------------------------------------------
(* replay() has returned. *)
Returned == stop /\ \A i \in Views : ~subscribed[i]
Finished == Returned /\ UNCHANGED vars

Client ==
  \/ \E r \in Requests : Dispatch(r) \/ FirstToken(r) \/ End(r)
  \/ AllReturned
  \/ \E i \in Views : Receive(i) \/ Unsubscribe(i)
Servers ==
  /\ ~Returned
  /\ \/ \E r \in Requests : ServerAdmit(r) \/ ServerCache(r) \/ ServerCompute(r)
     \/ \E i \in Views, b \in BlockIds : ServerEvict(i, b)
Next == Client \/ Servers \/ Finished

Spec == Init /\ [][Next]_vars

(* The loop runs every task that is ready; a sleep ends; a stream ends, at  *)
(* the latest when its timeout fires; a subscriber polls every 100 ms and   *)
(* sees stop.  The servers owe nothing.                                     *)
FairSpec ==
  /\ Spec
  /\ \A r \in Requests : WF_vars(Dispatch(r)) /\ WF_vars(End(r))
  /\ WF_vars(AllReturned)
  /\ \A i \in Views : WF_vars(Unsubscribe(i))

-----------------------------------------------------------------------------
(* Properties *)

TypeOK ==
  /\ policy \in Policies /\ indexMode \in IndexModes
  /\ left \in [Views -> [BlockIds -> Nat]]
  /\ bs \in [Views -> Nat] /\ queued \in [Views -> Nat]
  /\ resident \in [Views -> [BlockIds -> Nat]]
  /\ engineHash \in [Views -> SUBSET BlockIds]
  /\ lastSeq \in [Views -> Nat \cup {None}] /\ seqGaps \in [Views -> Nat]
  /\ subscribed \in [Views -> BOOLEAN]
  /\ task \in [Requests -> TaskStates]
  /\ chosen \in [Requests -> Views \cup {None}]
  /\ newTokens \in [Requests -> Nat] /\ pending \in [Requests -> BOOLEAN]
  /\ turn \in Nat /\ stop \in BOOLEAN
  /\ copies \in [Views -> [BlockIds -> Nat]] /\ evictions \in 0..MaxEvict
  /\ served \in [Requests -> ServedStates] /\ prefix \in [Requests -> Nat]
  /\ published \in [Views -> Nat] /\ lost \in [Views -> SUBSET Nat]
  /\ channel \in [Views -> Seq(Messages)]

At(i) == {r \in Requests : task[r] = "open" /\ chosen[r] = i}

\* The prefill tokens owed at i, one by one: <<request, number of its token>>.
Tokens(r) == {r} \X (1..newTokens[r])
Owed(i) == UNION {Tokens(r) : r \in {q \in At(i) : pending[q]}}

(* LMetric's indicators are true at every moment, however the streams end:  *)
(* bs counts the requests open at the instance, queued the prefill tokens   *)
(* of those that have seen no token.  Both return to zero.                  *)
BooksBalance ==
  \A i \in Views :
    /\ bs[i] = Cardinality(At(i))
    /\ queued[i] = Cardinality(Owed(i))

\* Events for b on their way to i, of one type.
Coming(i, b, type) ==
  Cardinality({k \in DOMAIN channel[i] : channel[i][k].type = type /\ b \in Named(channel[i][k])})

(* The index is behind a server by no more than what that held before the   *)
(* run: in dispatch mode it has every block with a copy beyond those; in    *)
(* events mode, as long as no message is lost and once those on the way are *)
(* applied, it counts at least the copies that the engine has, less as many *)
(* as it had before.  After a reset, that is every cached block.            *)
IndexCovers ==
  \A i \in Views, b \in BlockIds :
    IF indexMode = "dispatch"
      THEN copies[i][b] > left[i][b] => resident[i][b] > 0
      ELSE subscribed[i] /\ lost[i] = {} =>
             resident[i][b] + Coming(i, b, "BlockStored") - Coming(i, b, "BlockRemoved")
               >= copies[i][b] - left[i][b]

(* A lost message is noticed as soon as a later one is received, if an      *)
(* earlier one was: the run's event_seq_gaps is zero only if nothing was    *)
(* lost between the first and the last message received.                    *)
GapsTell ==
  \A i \in Views :
    (\E n \in lost[i] : n < lastSeq[i] /\ \E m \in 0..(n - 1) : m \notin lost[i])
      <=> seqGaps[i] > 0

(* LMetric and load never pile a request on a busy instance while one that  *)
(* holds as much of its prefix is idle; the score is zero everywhere, and   *)
(* says nothing, only for a prompt that is wholly cached.                   *)
Idle(i) == bs[i] = 0
IdleFirst ==
  [][\A r \in Requests : task[r] = "sleeping" /\ task'[r] = "open" /\ policy # "affinity" =>
       LET i == chosen'[r]
       IN \/ Idle(i)
          \/ policy = "lmetric" /\ Uncached(i, r) = 0
          \/ \A j \in Views : Idle(j) => policy = "lmetric" /\ HitBlocks(j, r) < HitBlocks(i, r)]_vars

(* replay() returns, with every view's books closed. *)
Terminates == <>(Returned /\ \A i \in Views : bs[i] = 0 /\ queued[i] = 0)

(* README.md:18 calls the events index exact.  When the run began with a    *)
(* reset, nothing was lost and nothing is on its way, the blocks in the     *)
(* index are the engine's.                                                  *)
IndexExact ==
  \A i \in Views :
    left[i] = NoCopies /\ indexMode = "events" /\ subscribed[i] /\ lost[i] = {} /\ channel[i] = <<>>
      => Believed(i) = Held(i)

-----------------------------------------------------------------------------
(* What the safety invariants rest on, beyond themselves *)

(* A request has an instance from its dispatch on, and the servers know it  *)
(* only then.                                                               *)
TaskInv ==
  /\ \A r \in Requests :
       /\ task[r] = "sleeping" => served[r] = "none"
       /\ task[r] # "sleeping" => chosen[r] \in Views
       /\ prefix[r] <= Len(FullBlocks[r])
  /\ indexMode = "dispatch" => \A i \in Views : ~subscribed[i]

(* The messages on the way are those published after the last one received  *)
(* and not lost, in order.                                                  *)
WireInv ==
  \A i \in Views :
    /\ lost[i] \subseteq 0..(published[i] - 1)
    /\ lastSeq[i] < published[i] /\ lastSeq[i] \notin lost[i]
    /\ {channel[i][k].seq : k \in DOMAIN channel[i]}
         = {n \in 0..(published[i] - 1) : n > lastSeq[i] /\ n \notin lost[i]}
    /\ \A j, k \in DOMAIN channel[i] : j < k => channel[i][j].seq < channel[i][k].seq

(* A block whose hash can be mapped is counted; in dispatch mode, so is     *)
(* every block sent; and only the first message can be that of the reset,   *)
(* which then finds nothing to clear.                                       *)
IndexInv ==
  /\ \A i \in Views : \A b \in engineHash[i] : resident[i][b] > 0
  /\ indexMode = "dispatch" =>
       \A r \in Requests : task[r] # "sleeping" =>
         \A b \in PromptBlocks(r) : resident[chosen[r]][b] > 0
  /\ \A i \in Views :
       /\ subscribed[i] /\ lastSeq[i] = None => \A b \in BlockIds : resident[i][b] = 0
       /\ \A k \in DOMAIN channel[i] :
            channel[i][k].type = "AllBlocksCleared" => channel[i][k].seq = 0

Inductive ==
  /\ TypeOK /\ TaskInv /\ BooksBalance /\ \A i \in Views : IsFiniteSet(Owed(i))
  /\ WireInv /\ GapsTell /\ IndexInv /\ IndexCovers
=============================================================================
