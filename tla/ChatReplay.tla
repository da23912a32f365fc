----------------------------- MODULE ChatReplay -----------------------------
(***************************************************************************)
(* replay_sessions of chat_replay.py: conversations that run side by side,  *)
(* the turns of one in sequence, each waiting for the answer before it.     *)
(*                                                                         *)
(* The client is one asyncio loop: an action is what one task does from one *)
(* await to the next.  The server is external: it answers a request with a  *)
(* stream of events, of any content.  The stream may break or time out at   *)
(* any point, and the run may be interrupted.                               *)
(*                                                                         *)
(* A prompt is the list of messages it renders, an answer the number of     *)
(* tokens kept.  Clock readings are left out, and with them late_dispatches *)
(* and the think delay; so is a disk that fails.  Definitions named         *)
(* Faulty... are variants with a bug, which no action uses.                 *)
(***************************************************************************)
EXTENDS Integers, Sequences, FiniteSets

CONSTANTS
  Sessions,
  Turns,          \* session -> how many user messages its script has
  MaxTokens,      \* max_tokens
  Burst,          \* bound: tokens of one stream event
  MaxInterrupts,  \* bound: how often the run is cancelled
  None

ASSUME ScriptAssumption ==
  Turns \in [Sessions -> Nat \ {0}] /\ MaxTokens \in Nat \ {0} /\ {Burst, MaxInterrupts} \subseteq Nat
  /\ None \notin Int

Failures == {"error", "context_overflow", "cancelled"}

VARIABLES
  main,         \* replay_sessions: "gather", "settle", "returned" or "raised"
  interrupted,
  interrupts,   \* how often it was cancelled
  at,           \* where run_session waits: "created", "sleep", "render",
                \* "stream", "ended", or "dropped" before it began
  cancelling,   \* a CancelledError waits to be thrown into the task
  turn,         \* the turn a session is at
  history,      \* the messages of a session: <<role, turn>>
  stream,       \* the state of stream_completion
  row,          \* results: session -> turn -> the rows recorded for it
  \* history, for the properties only
  prompt,       \* what was sent for a turn
  arrived       \* tokens of a turn that came in events the client accepted

tasks == <<at, turn, history, stream, row, prompt, arrived>>
vars == <<main, interrupted, interrupts, cancelling, tasks>>

NewStream == [ids |-> 0, finish |-> FALSE, usage |-> None]

Init ==
  /\ main = "gather" /\ interrupted = FALSE /\ interrupts = 0
  /\ at = [s \in Sessions |-> "created"]
  /\ cancelling = [s \in Sessions |-> FALSE]
  /\ turn = [s \in Sessions |-> 1]
  /\ history = [s \in Sessions |-> <<>>]
  /\ stream = [s \in Sessions |-> NewStream]
  /\ row = [s \in Sessions |-> [n \in 1..Turns[s] |-> <<>>]]
  /\ prompt = [s \in Sessions |-> [n \in 1..Turns[s] |-> <<>>]]
  /\ arrived = [s \in Sessions |-> [n \in 1..Turns[s] |-> 0]]

-----------------------------------------------------------------------------
(* finish, and the rows of one turn's end *)

Row(status, tokens, blockedBy) == [status |-> status, tokens |-> tokens, blockedBy |-> blockedBy]

FaultyEnds(s, status, tokens) ==
  [n \in 1..Turns[s] |->
     IF n < turn[s] THEN row[s][n]
     ELSE IF n = turn[s] THEN Append(row[s][n], Row(status, tokens, None))
     ELSE IF status = "context_overflow" THEN row[s][n]
     ELSE Append(row[s][n], Row("blocked", 0, turn[s]))]

FaultyBlames(s, status, tokens) ==
  [n \in 1..Turns[s] |->
     IF n < turn[s] THEN row[s][n]
     ELSE IF n = turn[s] THEN Append(row[s][n], Row(status, tokens, None))
     ELSE Append(row[s][n], Row("blocked", 0, n - 1))]

\* The rows of s once its turn has failed: its own, and those it blocks.
Ends(s, status, tokens) ==
  [n \in 1..Turns[s] |->
     IF n < turn[s] THEN row[s][n]
     ELSE IF n = turn[s] THEN Append(row[s][n], Row(status, tokens, None))
     ELSE Append(row[s][n], Row("blocked", 0, turn[s]))]

(* A turn fails.  Nothing is awaited until the session has ended: the next  *)
(* turns are blocked in the same step.                                      *)
Fail(s, status, tokens) ==
  /\ row' = [row EXCEPT ![s] = Ends(s, status, tokens)]
  /\ at' = [at EXCEPT ![s] = "ended"]

Ended == {"ended", "dropped"}
Runs(s, where) == at[s] = where /\ ~cancelling[s]

-----------------------------------------------------------------------------
(* run_session *)

\* The task's first step: to the sleep of its first turn.
Start(s) ==
  /\ Runs(s, "created")
  /\ at' = [at EXCEPT ![s] = "sleep"]
  /\ UNCHANGED <<main, interrupted, interrupts, cancelling, turn, history, stream, row, prompt, arrived>>

\* Released: the user's message joins the history, a thread renders it.
Wake(s) ==
  /\ Runs(s, "sleep")
  /\ history' = [history EXCEPT ![s] = Append(@, <<"user", turn[s]>>)]
  /\ at' = [at EXCEPT ![s] = "render"]
  /\ UNCHANGED <<main, interrupted, interrupts, cancelling, turn, stream, row, prompt, arrived>>

Dispatch(s) ==
  /\ Runs(s, "render")
  /\ prompt' = [prompt EXCEPT ![s][turn[s]] = history[s]]
  /\ stream' = [stream EXCEPT ![s] = NewStream]
  /\ at' = [at EXCEPT ![s] = "stream"]
  /\ UNCHANGED <<main, interrupted, interrupts, cancelling, turn, history, row, arrived>>

\* The builder fails, or the prompt leaves no room for the answer.
NotSent(s) ==
  /\ Runs(s, "render")
  /\ \E status \in {"error", "context_overflow"} : Fail(s, status, 0)
  /\ UNCHANGED <<main, interrupted, interrupts, cancelling, turn, history, stream, prompt, arrived>>

-----------------------------------------------------------------------------
(* stream_completion *)

\* One event of the stream.  usage is the completion_tokens of its usage
\* field, if it has one; a usage that is wrong about the prompt is -1.
Events == [ids : 0..Burst, finish : BOOLEAN, usage : (-1..MaxTokens) \cup {None}]

After(st, e) ==
  [ids |-> st.ids + e.ids,
   finish |-> st.finish \/ e.finish,
   usage |-> IF e.usage = None THEN st.usage ELSE e.usage]

\* An event that changes nothing is a stutter.
StreamEvent(s) ==
  /\ Runs(s, "stream")
  /\ \E e \in Events :
       LET st == stream[s] after == After(st, e)
       IN IF e.ids > 0 /\ st.finish
            THEN /\ Fail(s, "error", st.ids)   \* tokens after a finished choice
                 /\ UNCHANGED <<stream, arrived>>
            ELSE /\ stream' = [stream EXCEPT ![s] = after]
                 /\ arrived' = [arrived EXCEPT ![s][turn[s]] = @ + e.ids]
                 /\ IF after.ids > MaxTokens
                      THEN Fail(s, "error", after.ids)   \* over the declared cap
                      ELSE UNCHANGED <<at, row>>
  /\ UNCHANGED <<main, interrupted, interrupts, cancelling, turn, history, prompt>>

\* The checks at the end of a stream that said [DONE].
Whole(st) == st.ids > 0 /\ st.finish /\ st.usage = st.ids

\* The stream says [DONE] and the answer is taken, or it is not whole, or
\* cannot be decoded.
StreamDone(s) ==
  /\ Runs(s, "stream")
  /\ \/ /\ Whole(stream[s])
        /\ row' = [row EXCEPT ![s][turn[s]] = Append(@, Row("ok", stream[s].ids, None))]
        /\ history' = [history EXCEPT ![s] = Append(@, <<"assistant", turn[s]>>)]
        /\ IF turn[s] = Turns[s]
             THEN at' = [at EXCEPT ![s] = "ended"] /\ UNCHANGED turn
             ELSE /\ at' = [at EXCEPT ![s] = "sleep"]
                  /\ turn' = [turn EXCEPT ![s] = @ + 1]
     \/ Fail(s, "error", stream[s].ids) /\ UNCHANGED <<turn, history>>
  /\ UNCHANGED <<main, interrupted, interrupts, cancelling, stream, prompt, arrived>>

\* A timeout for the connection only.
FaultyStreamBreaks(s) ==
  /\ Runs(s, "stream") /\ stream[s] = NewStream
  /\ Fail(s, "error", stream[s].ids)
  /\ UNCHANGED <<main, interrupted, interrupts, cancelling, turn, history, stream, prompt, arrived>>

\* No answer, an HTTP status, a malformed event, an end without [DONE], or
\* the client's timeout.
StreamBreaks(s) ==
  /\ Runs(s, "stream")
  /\ Fail(s, "error", stream[s].ids)
  /\ UNCHANGED <<main, interrupted, interrupts, cancelling, turn, history, stream, prompt, arrived>>

-----------------------------------------------------------------------------
(* Cancellation *)

FaultyPartial(s) == 0

\* The tokens that a cancelled turn keeps: exc.partial, if it was streaming.
Partial(s) == IF at[s] = "stream" THEN stream[s].ids ELSE 0

\* CancelledError is thrown at the await.  A task that has not begun is
\* never entered, and has no handler.
Cancelled(s) ==
  /\ cancelling[s] /\ at[s] \notin Ended
  /\ IF at[s] = "created"
       THEN at' = [at EXCEPT ![s] = "dropped"] /\ UNCHANGED row
       ELSE Fail(s, "cancelled", Partial(s))
  /\ UNCHANGED <<main, interrupted, interrupts, cancelling, turn, history, stream, prompt, arrived>>

(* The run is cancelled while it awaits its tasks: gather cancels each that *)
(* has not ended, and goes on waiting.                                      *)
Interrupt ==
  /\ interrupts < MaxInterrupts
  /\ main \in {"gather", "settle"}
  /\ interrupts' = interrupts + 1
  /\ interrupted' = TRUE
  /\ cancelling' = [s \in Sessions |-> TRUE]
  /\ UNCHANGED <<main, tasks>>

AllEnded == \A s \in Sessions : at[s] \in Ended

\* A task ended by its cancellation, which it raises again.
TaskCancelled(s) ==
  at[s] = "dropped" \/ (at[s] = "ended" /\ row[s][turn[s]][1].status = "cancelled")

(* The first gather is over: all tasks have ended, or one was cancelled,    *)
(* which it raises at once while others may still run.  The handler cancels *)
(* all that remain and gathers them again.                                  *)
Gathered ==
  /\ main = "gather"
  /\ AllEnded \/ \E s \in Sessions : TaskCancelled(s)
  /\ IF interrupted
       THEN main' = "settle" /\ cancelling' = [s \in Sessions |-> TRUE]
       ELSE main' = "returned" /\ UNCHANGED cancelling
  /\ UNCHANGED <<interrupted, interrupts, tasks>>

(* The second gather, which returns the exceptions, waits for every task.   *)
(* Then the run raises, past the summary if it was cancelled meanwhile.     *)
Settled ==
  /\ main = "settle"
  /\ AllEnded
  /\ main' = "raised"
  /\ UNCHANGED <<interrupted, interrupts, cancelling, tasks>>

Over == main \in {"returned", "raised"}

Step(s) == Start(s) \/ Wake(s) \/ Dispatch(s) \/ NotSent(s) \/ StreamEvent(s)
           \/ StreamDone(s) \/ StreamBreaks(s) \/ Cancelled(s)

Next ==
  \/ \E s \in Sessions : Step(s)
  \/ Interrupt \/ Gathered \/ Settled
  \/ Over /\ UNCHANGED vars

Spec == Init /\ [][Next]_vars

\* A ready task runs, a sleep and a render end, and a stream ends at the
\* latest at the client's timeout.
Fairness ==
  /\ \A s \in Sessions : /\ WF_vars(Start(s)) /\ WF_vars(Wake(s)) /\ WF_vars(Cancelled(s))
                         /\ WF_vars(Dispatch(s) \/ NotSent(s)) /\ WF_vars(StreamBreaks(s))
  /\ WF_vars(Gathered) /\ WF_vars(Settled)

FairSpec == Spec /\ Fairness

-----------------------------------------------------------------------------
(* Properties *)

(* Every turn is recorded at most once, in order; and once a session that   *)
(* began has ended, by success, failure, overflow or cancellation, all its  *)
(* planned turns are recorded, descendants of failures included.            *)
RecordedOnce ==
  \A s \in Sessions :
    /\ \A n \in 1..Turns[s] : /\ Len(row[s][n]) <= 1
                              /\ n > 1 /\ row[s][n] # <<>> => row[s][n - 1] # <<>>
    /\ at[s] = "ended" => \A n \in 1..Turns[s] : row[s][n] # <<>>

(* A turn is blocked only by a failed turn of its own session, which it     *)
(* names, and then it is never sent; whatever fails in one session touches  *)
(* no other.  A turn that was sent carried the whole conversation before    *)
(* it: every user message, every answer, in order, and no failed turn.      *)
Message(j) == IF j % 2 = 1 THEN <<"user", (j + 1) \div 2>> ELSE <<"assistant", j \div 2>>
Messages(k) == [j \in 1..k |-> Message(j)]
Conversation(n) == Messages(2 * n - 1)
BlockedByFailure ==
  \A s \in Sessions : \A n \in 1..Turns[s] :
    /\ row[s][n] # <<>> /\ row[s][n][1].status = "blocked" =>
         LET b == row[s][n][1].blockedBy
         IN /\ b # None /\ b < n
            /\ row[s][b] # <<>> /\ row[s][b][1].status \in Failures
            /\ prompt[s][n] = <<>>
    /\ prompt[s][n] # <<>> =>
         /\ prompt[s][n] = Conversation(n)
         /\ \A m \in 1..(n - 1) : row[s][m] # <<>> /\ row[s][m][1].status = "ok"

(* A row keeps every token the client accepted, whatever ended the turn;    *)
(* and an answer counts as ok only if its stream finished, with as many     *)
(* tokens as the server says it made.                                       *)
Latest(s, n) == prompt[s][n] # <<>> /\ (n < Turns[s] => prompt[s][n + 1] = <<>>)
AnswersKept ==
  \A s \in Sessions : \A n \in 1..Turns[s] :
    row[s][n] # <<>> =>
      LET r == row[s][n][1]
      IN /\ r.tokens = arrived[s][n]
         /\ r.status = "ok" => r.tokens \in 1..MaxTokens
         /\ r.status = "ok" /\ Latest(s, n) => stream[s].finish /\ stream[s].usage = r.tokens

(* The docstring of replay_sessions: all planned turns receive a final      *)
(* status, here once the run is over.                                       *)
EveryTurnRecorded ==
  Over => \A s \in Sessions : \A n \in 1..Turns[s] : row[s][n] # <<>>

(* replay_sessions returns, or raises after an interruption.                *)
Returns == <>Over

-----------------------------------------------------------------------------
(* What the safety properties rest on, beyond themselves *)

TypeOK ==
  /\ main \in {"gather", "settle", "returned", "raised"}
  /\ interrupted \in BOOLEAN /\ interrupts \in 0..MaxInterrupts
  /\ at \in [Sessions -> {"created", "sleep", "render", "stream"} \cup Ended]
  /\ cancelling \in [Sessions -> BOOLEAN]
  /\ turn \in [Sessions -> Nat]
  /\ stream \in [Sessions -> [ids : Nat, finish : BOOLEAN, usage : Int \cup {None}]]
  /\ DOMAIN history = Sessions
  /\ DOMAIN row = Sessions /\ DOMAIN prompt = Sessions /\ DOMAIN arrived = Sessions
  /\ \A s \in Sessions : /\ DOMAIN row[s] = 1..Turns[s] /\ DOMAIN prompt[s] = 1..Turns[s]
                         /\ arrived[s] \in [1..Turns[s] -> Nat]

(* The turns before the current one were answered. *)
BeforeTurn(s) ==
  \A n \in 1..(turn[s] - 1) :
    /\ row[s][n] = <<Row("ok", arrived[s][n], None)>>
    /\ arrived[s][n] \in 1..MaxTokens
    /\ prompt[s][n] = Conversation(n)

(* Those after it were never sent; they are recorded when the session ends. *)
AfterTurn(s) ==
  \A n \in (turn[s] + 1)..Turns[s] :
    /\ row[s][n] = IF at[s] = "ended" THEN <<Row("blocked", 0, turn[s])>> ELSE <<>>
    /\ prompt[s][n] = <<>> /\ arrived[s][n] = 0

(* The current turn, by the await the session is at. *)
AtTurn(s) ==
  LET t == turn[s]
      tokens == arrived[s][t]
  IN /\ t \in 1..Turns[s]
     /\ prompt[s][t] \in {<<>>, Conversation(t)}
     /\ at[s] # "ended" => row[s][t] = <<>>
     /\ at[s] \in {"created", "sleep", "dropped"} => history[s] = Messages(2 * t - 2)
     /\ at[s] \in {"render", "stream"} => history[s] = Conversation(t)
     /\ at[s] \in {"created", "sleep", "render", "dropped"} => prompt[s][t] = <<>> /\ tokens = 0
     /\ at[s] = "stream" => /\ prompt[s][t] = Conversation(t)
                            /\ tokens = stream[s].ids /\ tokens <= MaxTokens
     /\ at[s] = "ended" =>
          \/ /\ t = Turns[s] /\ row[s][t] = <<Row("ok", tokens, None)>>
             /\ Whole(stream[s]) /\ tokens = stream[s].ids /\ tokens <= MaxTokens
          \/ \E status \in Failures : row[s][t] = <<Row(status, tokens, None)>>

(* Until the next turn is sent, the stream is that of the last answer. *)
StreamIsLast(s) ==
  turn[s] > 1 /\ prompt[s][turn[s]] = <<>> =>
    Whole(stream[s]) /\ stream[s].ids = arrived[s][turn[s] - 1]

SessionInv(s) == BeforeTurn(s) /\ AfterTurn(s) /\ AtTurn(s) /\ StreamIsLast(s)

Inductive == TypeOK /\ \A s \in Sessions : SessionInv(s)
=============================================================================
