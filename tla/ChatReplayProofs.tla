-------------------------- MODULE ChatReplayProofs --------------------------
(***************************************************************************)
(* Proofs about ChatReplay, for any number of sessions and turns, any cap   *)
(* on the answers and any bound on interruptions.                           *)
(*                                                                         *)
(* The argument.  Sessions share nothing but the cancellation of the run,   *)
(* so the inductive invariant says of each session alone what its rows,     *)
(* prompts and tokens are before, at and after the current turn             *)
(* (SessionInv).  A step of one session disturbs only its own part.         *)
(***************************************************************************)
EXTENDS ChatReplay, TLAPS

USE ScriptAssumption

-----------------------------------------------------------------------------
(* Conversations *)

LEMMA MessagesFacts ==
  ASSUME NEW k \in Nat
  PROVE  /\ Len(Messages(k)) = k /\ (Messages(k) = <<>>) = (k = 0)
         /\ Append(Messages(k), Message(k + 1)) = Messages(k + 1)
  BY DEF Messages

LEMMA FirstRow == ASSUME NEW x PROVE Append(<<>>, x) = <<x>>
  OBVIOUS

(* A user's message opens a turn of the conversation, an answer closes it.  *)
LEMMA ConversationGrows ==
  ASSUME NEW t \in Nat \ {0}
  PROVE  /\ Append(Messages(2 * t - 2), <<"user", t>>) = Conversation(t)
         /\ Append(Conversation(t), <<"assistant", t>>) = Messages(2 * (t + 1) - 2)
         /\ Conversation(t) # <<>>
<1>1. Message(2 * t - 1) = <<"user", t>> /\ Message(2 * t) = <<"assistant", t>>
  BY DEF Message
<1>2. 2 * t - 2 \in Nat /\ 2 * t - 1 \in Nat /\ 2 * t - 1 # 0
      /\ (2 * t - 2) + 1 = 2 * t - 1 /\ (2 * t - 1) + 1 = 2 * t /\ 2 * (t + 1) - 2 = 2 * t
  OBVIOUS
<1>3. /\ Append(Messages(2 * t - 2), Message(2 * t - 1)) = Messages(2 * t - 1)
      /\ Append(Messages(2 * t - 1), Message(2 * t)) = Messages(2 * t)
      /\ Messages(2 * t - 1) # <<>>
  BY <1>2, MessagesFacts
<1> QED
  BY <1>1, <1>2, <1>3 DEF Conversation

-----------------------------------------------------------------------------
(* Frames *)

(* A step that leaves a session's part alone keeps what holds of it.        *)
LEMMA OtherSession ==
  ASSUME NEW q \in Sessions, SessionInv(q),
         at'[q] = at[q], turn'[q] = turn[q], history'[q] = history[q], stream'[q] = stream[q],
         row'[q] = row[q], prompt'[q] = prompt[q], arrived'[q] = arrived[q]
  PROVE  SessionInv(q)'
<1>1. BeforeTurn(q)' /\ AfterTurn(q)'
  BY DEF SessionInv, BeforeTurn, AfterTurn
<1>2. AtTurn(q)' /\ StreamIsLast(q)'
  BY DEF SessionInv, AtTurn, StreamIsLast
<1> QED
  BY <1>1, <1>2 DEF SessionInv

(* A turn fails, in any way: it keeps the tokens that came, and all the     *)
(* turns after it are blocked.                                              *)
LEMMA FailKeeps ==
  ASSUME TypeOK, NEW s \in Sessions, SessionInv(s), at[s] # "ended",
         NEW status \in Failures, NEW tokens, Fail(s, status, tokens),
         UNCHANGED <<turn, prompt>>,
         tokens = arrived'[s][turn[s]],
         \A n \in 1..Turns[s] : n # turn[s] => arrived'[s][n] = arrived[s][n],
         stream'[s] = stream[s] \/ prompt[s][turn[s]] # <<>>
  PROVE  SessionInv(s)'
<1> DEFINE t == turn[s]
<1>1. /\ row' = [row EXCEPT ![s] = Ends(s, status, tokens)] /\ at' = [at EXCEPT ![s] = "ended"]
      /\ at'[s] = "ended" /\ row'[s] = Ends(s, status, tokens)
  BY DEF Fail, TypeOK
<1>2. t \in 1..Turns[s] /\ t \in Nat /\ Turns[s] \in Nat /\ row[s][t] = <<>>
  BY DEF SessionInv, AtTurn, TypeOK
<1>3. \A n \in 1..(t - 1) : n \in 1..Turns[s] /\ n # t /\ row'[s][n] = row[s][n]
  BY <1>1, <1>2 DEF Ends
<1>4. row'[s][t] = <<Row(status, tokens, None)>>
  <2>1. t \in 1..Turns[s] /\ ~(t < t)
    BY <1>2
  <2>2. Ends(s, status, tokens)[t] = Append(row[s][t], Row(status, tokens, None))
    BY <2>1 DEF Ends
  <2> QED
    BY <1>1, <1>2, <2>2, FirstRow
<1>5. \A n \in (t + 1)..Turns[s] :
        n \in 1..Turns[s] /\ n # t /\ row[s][n] = <<>> /\ row'[s][n] = <<Row("blocked", 0, t)>>
  <2> SUFFICES ASSUME NEW n \in (t + 1)..Turns[s]
               PROVE  /\ n \in 1..Turns[s] /\ n # t /\ row[s][n] = <<>>
                      /\ row'[s][n] = <<Row("blocked", 0, t)>>
    OBVIOUS
  <2>1. n \in 1..Turns[s] /\ n # t /\ ~(n < t)
    BY <1>2
  <2>2. row[s][n] = <<>>
    BY DEF SessionInv, AfterTurn
  <2>3. row'[s][n] = Append(row[s][n], Row("blocked", 0, t))
    BY <1>1, <2>1 DEF Ends
  <2> QED
    BY <2>1, <2>2, <2>3, FirstRow
<1>6. BeforeTurn(s)'
  <2> SUFFICES ASSUME NEW n \in 1..(t - 1)
               PROVE  /\ row'[s][n] = <<Row("ok", arrived'[s][n], None)>>
                      /\ arrived'[s][n] \in 1..MaxTokens
                      /\ prompt'[s][n] = Conversation(n)
    BY DEF BeforeTurn
  <2>1. arrived'[s][n] = arrived[s][n] /\ row'[s][n] = row[s][n]
    BY <1>3
  <2> QED
    BY <2>1 DEF SessionInv, BeforeTurn
<1>7. AfterTurn(s)'
  <2> SUFFICES ASSUME NEW n \in (t + 1)..Turns[s]
               PROVE  /\ row'[s][n] = <<Row("blocked", 0, t)>>
                      /\ prompt'[s][n] = <<>> /\ arrived'[s][n] = 0
    BY <1>1 DEF AfterTurn
  <2>1. arrived'[s][n] = arrived[s][n] /\ row'[s][n] = <<Row("blocked", 0, t)>>
    BY <1>5
  <2> QED
    BY <2>1 DEF SessionInv, AfterTurn
<1>8. AtTurn(s)'
  BY <1>1, <1>2, <1>4 DEF SessionInv, AtTurn
<1>9. StreamIsLast(s)'
  <2>1. t > 1 => t - 1 \in 1..(t - 1)
    BY <1>2
  <2> QED
    BY <1>3, <2>1 DEF SessionInv, StreamIsLast
<1> QED
  BY <1>6, <1>7, <1>8, <1>9 DEF SessionInv

(* A step of session s that keeps the types keeps the invariant if it keeps *)
(* what holds of s and leaves the parts of the others alone.                *)
LEMMA OneSession ==
  ASSUME Inductive, NEW s \in Sessions, TypeOK', SessionInv(s)',
         \A q \in Sessions : q # s =>
           /\ at'[q] = at[q] /\ turn'[q] = turn[q] /\ history'[q] = history[q]
           /\ stream'[q] = stream[q] /\ row'[q] = row[q] /\ prompt'[q] = prompt[q]
           /\ arrived'[q] = arrived[q]
  PROVE  Inductive'
<1>1. ASSUME NEW q \in Sessions, q # s PROVE SessionInv(q)'
  BY <1>1, OtherSession DEF Inductive
<1> QED
  BY <1>1 DEF Inductive

-----------------------------------------------------------------------------
(* Each step keeps the invariant *)

LEMMA InductiveInit == Init => Inductive
<1> SUFFICES ASSUME Init PROVE Inductive
  OBVIOUS
<1>1. TypeOK
  <2>1. /\ main \in {"gather", "settle", "returned", "raised"} /\ interrupts \in 0..MaxInterrupts
        /\ at \in [Sessions -> {"created", "sleep", "render", "stream"} \cup Ended]
        /\ turn \in [Sessions -> Nat]
    BY DEF Init
  <2>2. interrupted \in BOOLEAN /\ cancelling \in [Sessions -> BOOLEAN]
    BY Zenon DEF Init
  <2>3. stream \in [Sessions -> [ids : Nat, finish : BOOLEAN, usage : Int \cup {None}]]
    <3>1. NewStream \in [ids : Nat, finish : BOOLEAN, usage : Int \cup {None}]
      BY DEF NewStream
    <3> QED
      BY <3>1 DEF Init
  <2>4. /\ DOMAIN history = Sessions /\ DOMAIN row = Sessions /\ DOMAIN prompt = Sessions
        /\ DOMAIN arrived = Sessions
        /\ \A s \in Sessions : /\ DOMAIN row[s] = 1..Turns[s] /\ DOMAIN prompt[s] = 1..Turns[s]
                               /\ arrived[s] \in [1..Turns[s] -> Nat]
    BY DEF Init
  <2> QED
    BY <2>1, <2>2, <2>3, <2>4 DEF TypeOK
<1>2. ASSUME NEW s \in Sessions PROVE SessionInv(s)
  <2>1. turn[s] = 1 /\ at[s] = "created" /\ Turns[s] \in Nat \ {0} /\ history[s] = <<>>
    BY DEF Init
  <2>2. \A n \in 1..Turns[s] : row[s][n] = <<>> /\ prompt[s][n] = <<>> /\ arrived[s][n] = 0
    BY DEF Init
  <2>3. Messages(2 * 1 - 2) = <<>>
    BY MessagesFacts
  <2>4. BeforeTurn(s) /\ AfterTurn(s)
    BY <2>1, <2>2 DEF BeforeTurn, AfterTurn
  <2>5. AtTurn(s) /\ StreamIsLast(s)
    BY <2>1, <2>2, <2>3 DEF AtTurn, StreamIsLast
  <2> QED
    BY <2>4, <2>5 DEF SessionInv
<1> QED
  BY <1>1, <1>2 DEF Inductive

LEMMA StartStep == ASSUME Inductive, NEW s \in Sessions, Start(s) PROVE Inductive'
<1>1. at' = [at EXCEPT ![s] = "sleep"] /\ at[s] = "created" /\ at'[s] = "sleep"
  BY DEF Start, Runs, Inductive, TypeOK
<1>2. TypeOK'
  BY <1>1 DEF Start, Inductive, TypeOK
<1>3. SessionInv(s)'
  BY <1>1 DEF Start, Inductive, SessionInv, BeforeTurn, AfterTurn, AtTurn, StreamIsLast
<1> QED
  BY <1>1, <1>2, <1>3, OneSession DEF Start, Inductive, TypeOK

LEMMA WakeStep == ASSUME Inductive, NEW s \in Sessions, Wake(s) PROVE Inductive'
<1> DEFINE t == turn[s]
<1>1. /\ at' = [at EXCEPT ![s] = "render"] /\ at[s] = "sleep" /\ at'[s] = "render"
      /\ history' = [history EXCEPT ![s] = Append(@, <<"user", t>>)]
      /\ history'[s] = Append(history[s], <<"user", t>>)
  BY DEF Wake, Runs, Inductive, TypeOK
<1>2. TypeOK'
  BY <1>1 DEF Wake, Inductive, TypeOK
<1>3. history'[s] = Conversation(t)
  <2>1. t \in Nat \ {0} /\ history[s] = Messages(2 * t - 2)
    BY <1>1 DEF Inductive, TypeOK, SessionInv, AtTurn
  <2> QED
    BY <1>1, <2>1, ConversationGrows
<1>4. BeforeTurn(s)' /\ AfterTurn(s)' /\ StreamIsLast(s)'
  BY <1>1 DEF Wake, Inductive, SessionInv, BeforeTurn, AfterTurn, StreamIsLast
<1>5. AtTurn(s)'
  BY <1>1, <1>3 DEF Wake, Inductive, SessionInv, AtTurn
<1>6. SessionInv(s)'
  BY <1>4, <1>5 DEF SessionInv
<1> QED
  BY <1>1, <1>2, <1>6, OneSession DEF Wake, Inductive, TypeOK

LEMMA DispatchStep == ASSUME Inductive, NEW s \in Sessions, Dispatch(s) PROVE Inductive'
<1> DEFINE t == turn[s]
<1>1. /\ at' = [at EXCEPT ![s] = "stream"] /\ at[s] = "render" /\ at'[s] = "stream"
      /\ stream' = [stream EXCEPT ![s] = NewStream] /\ stream'[s] = NewStream
      /\ t \in 1..Turns[s] /\ t \in Nat /\ Turns[s] \in Nat
  BY DEF Dispatch, Runs, Inductive, TypeOK, SessionInv, AtTurn
<1>2. /\ DOMAIN prompt' = Sessions /\ DOMAIN prompt'[s] = 1..Turns[s]
      /\ prompt'[s][t] = history[s]
      /\ \A n \in 1..Turns[s] : n # t => prompt'[s][n] = prompt[s][n]
      /\ \A q \in Sessions : q # s => prompt'[q] = prompt[q]
  BY <1>1 DEF Dispatch, Inductive, TypeOK
<1>3. NewStream \in [ids : Nat, finish : BOOLEAN, usage : Int \cup {None}] /\ NewStream.ids = 0
  BY DEF NewStream
<1>4. TypeOK'
  BY <1>1, <1>2, <1>3 DEF Dispatch, Inductive, TypeOK
<1>5. history[s] = Conversation(t) /\ Conversation(t) # <<>> /\ arrived[s][t] = 0
  <2>1. t \in Nat \ {0}
    BY <1>1
  <2>2. history[s] = Conversation(t) /\ arrived[s][t] = 0
    BY <1>1 DEF Inductive, SessionInv, AtTurn
  <2> QED
    BY <2>1, <2>2, ConversationGrows
<1>6. BeforeTurn(s)'
  <2> SUFFICES ASSUME NEW n \in 1..(t - 1)
               PROVE  /\ row[s][n] = <<Row("ok", arrived[s][n], None)>>
                      /\ arrived[s][n] \in 1..MaxTokens
                      /\ prompt'[s][n] = Conversation(n)
    BY DEF Dispatch, BeforeTurn
  <2>1. n \in 1..Turns[s] /\ n # t
    BY <1>1
  <2> QED
    BY <1>2, <2>1 DEF Inductive, SessionInv, BeforeTurn
<1>7. AfterTurn(s)'
  <2> SUFFICES ASSUME NEW n \in (t + 1)..Turns[s]
               PROVE  row[s][n] = <<>> /\ prompt'[s][n] = <<>> /\ arrived[s][n] = 0
    BY <1>1 DEF Dispatch, AfterTurn
  <2>1. n \in 1..Turns[s] /\ n # t
    BY <1>1
  <2> QED
    BY <1>1, <1>2, <2>1 DEF Inductive, SessionInv, AfterTurn
<1>8. AtTurn(s)' /\ StreamIsLast(s)'
  BY <1>1, <1>2, <1>3, <1>5 DEF Dispatch, Inductive, SessionInv, AtTurn, StreamIsLast
<1>9. SessionInv(s)'
  BY <1>6, <1>7, <1>8 DEF SessionInv
<1> QED
  BY <1>1, <1>2, <1>4, <1>9, OneSession DEF Dispatch, Inductive, TypeOK

(* All steps that end a turn in failure; of the variables that Fail leaves  *)
(* alone, at most the stream and the tokens of this turn have moved.        *)
LEMMA FailStep ==
  ASSUME Inductive, NEW s \in Sessions, at[s] # "ended",
         NEW status \in Failures, NEW tokens, Fail(s, status, tokens),
         UNCHANGED <<main, interrupted, interrupts, cancelling, turn, history, prompt>>,
         stream' \in [Sessions -> [ids : Nat, finish : BOOLEAN, usage : Int \cup {None}]],
         DOMAIN arrived' = Sessions, arrived'[s] \in [1..Turns[s] -> Nat],
         \A q \in Sessions : q # s => stream'[q] = stream[q] /\ arrived'[q] = arrived[q],
         tokens = arrived'[s][turn[s]],
         \A n \in 1..Turns[s] : n # turn[s] => arrived'[s][n] = arrived[s][n],
         stream'[s] = stream[s] \/ prompt[s][turn[s]] # <<>>
  PROVE  Inductive'
<1>1. TypeOK /\ SessionInv(s) /\ UNCHANGED <<turn, prompt>>
  BY DEF Inductive
<1>2. /\ DOMAIN row' = Sessions /\ DOMAIN row'[s] = 1..Turns[s]
      /\ \A q \in Sessions : q # s => row'[q] = row[q] /\ at'[q] = at[q]
  BY <1>1 DEF Fail, Ends, TypeOK
<1>3. at' \in [Sessions -> {"created", "sleep", "render", "stream"} \cup Ended]
  BY <1>1 DEF Fail, TypeOK, Ended
<1>4. \A q \in Sessions : /\ DOMAIN row'[q] = 1..Turns[q] /\ DOMAIN prompt'[q] = 1..Turns[q]
                          /\ arrived'[q] \in [1..Turns[q] -> Nat]
  BY <1>1, <1>2 DEF TypeOK
<1>5. TypeOK'
  BY <1>1, <1>2, <1>3, <1>4 DEF TypeOK
<1>6. SessionInv(s)'
  BY <1>1, FailKeeps
<1> QED
  BY <1>2, <1>5, <1>6, OneSession

LEMMA NotSentStep == ASSUME Inductive, NEW s \in Sessions, NotSent(s) PROVE Inductive'
<1>1. PICK status \in {"error", "context_overflow"} : Fail(s, status, 0)
  BY DEF NotSent
<1>2. /\ at[s] = "render" /\ arrived[s][turn[s]] = 0 /\ status \in Failures
      /\ stream \in [Sessions -> [ids : Nat, finish : BOOLEAN, usage : Int \cup {None}]]
      /\ DOMAIN arrived = Sessions /\ arrived[s] \in [1..Turns[s] -> Nat]
  BY DEF NotSent, Runs, Inductive, SessionInv, AtTurn, TypeOK, Failures
<1> QED
  BY <1>1, <1>2, FailStep DEF NotSent

LEMMA StreamBreaksStep == ASSUME Inductive, NEW s \in Sessions, StreamBreaks(s) PROVE Inductive'
<1>1. /\ at[s] = "stream" /\ arrived[s][turn[s]] = stream[s].ids /\ "error" \in Failures
      /\ stream \in [Sessions -> [ids : Nat, finish : BOOLEAN, usage : Int \cup {None}]]
      /\ DOMAIN arrived = Sessions /\ arrived[s] \in [1..Turns[s] -> Nat]
  BY DEF StreamBreaks, Runs, Inductive, SessionInv, AtTurn, TypeOK, Failures
<1> QED
  BY <1>1, FailStep DEF StreamBreaks

LEMMA CancelledStep == ASSUME Inductive, NEW s \in Sessions, Cancelled(s) PROVE Inductive'
<1>1. /\ at[s] \notin Ended
      /\ stream \in [Sessions -> [ids : Nat, finish : BOOLEAN, usage : Int \cup {None}]]
      /\ DOMAIN arrived = Sessions /\ arrived[s] \in [1..Turns[s] -> Nat]
  BY DEF Cancelled, Inductive, TypeOK
<1>2. CASE at[s] = "created"
  <2>1. at' = [at EXCEPT ![s] = "dropped"] /\ at'[s] = "dropped" /\ UNCHANGED row
    BY <1>2 DEF Cancelled, Inductive, TypeOK
  <2>2. TypeOK'
    BY <2>1 DEF Cancelled, Inductive, TypeOK, Ended
  <2>3. SessionInv(s)'
    BY <1>2, <2>1 DEF Cancelled, Inductive, SessionInv, BeforeTurn, AfterTurn, AtTurn, StreamIsLast
  <2> QED
    BY <2>1, <2>2, <2>3, OneSession DEF Cancelled, Inductive, TypeOK
<1>3. CASE at[s] # "created"
  <2>1. arrived[s][turn[s]] = Partial(s)
    BY <1>1, <1>3 DEF Inductive, TypeOK, SessionInv, AtTurn, Partial, Ended
  <2>2. Fail(s, "cancelled", Partial(s)) /\ "cancelled" \in Failures /\ at[s] # "ended"
    BY <1>1, <1>3 DEF Cancelled, Failures, Ended
  <2> QED
    BY <1>1, <2>1, <2>2, FailStep DEF Cancelled
<1> QED
  BY <1>2, <1>3

LEMMA StreamEventStep == ASSUME Inductive, NEW s \in Sessions, StreamEvent(s) PROVE Inductive'
<1> DEFINE t == turn[s]
<1>1. /\ at[s] = "stream" /\ t \in 1..Turns[s] /\ t \in Nat /\ Turns[s] \in Nat
      /\ arrived[s][t] = stream[s].ids /\ prompt[s][t] = Conversation(t)
      /\ stream \in [Sessions -> [ids : Nat, finish : BOOLEAN, usage : Int \cup {None}]]
      /\ DOMAIN arrived = Sessions /\ arrived[s] \in [1..Turns[s] -> Nat]
  BY DEF StreamEvent, Runs, Inductive, SessionInv, AtTurn, TypeOK
<1>2. Conversation(t) # <<>>
  <2>1. t \in Nat \ {0}
    BY <1>1
  <2> QED
    BY <2>1, ConversationGrows
<1>3. PICK e \in Events :
        LET st == stream[s] after == After(st, e)
        IN IF e.ids > 0 /\ st.finish
             THEN Fail(s, "error", st.ids) /\ UNCHANGED <<stream, arrived>>
             ELSE /\ stream' = [stream EXCEPT ![s] = after]
                  /\ arrived' = [arrived EXCEPT ![s][t] = @ + e.ids]
                  /\ IF after.ids > MaxTokens THEN Fail(s, "error", after.ids)
                                              ELSE UNCHANGED <<at, row>>
  BY DEF StreamEvent
<1> DEFINE after == After(stream[s], e)
<1>4. CASE e.ids > 0 /\ stream[s].finish
  <2>1. Fail(s, "error", stream[s].ids) /\ UNCHANGED <<stream, arrived>> /\ "error" \in Failures
    BY <1>3, <1>4 DEF Failures
  <2> QED
    BY <1>1, <2>1, FailStep DEF StreamEvent
<1>5. CASE ~(e.ids > 0 /\ stream[s].finish)
  <2>1. /\ stream' = [stream EXCEPT ![s] = after]
        /\ arrived' = [arrived EXCEPT ![s][t] = @ + e.ids]
        /\ IF after.ids > MaxTokens THEN Fail(s, "error", after.ids) ELSE UNCHANGED <<at, row>>
    BY <1>3, <1>5
  <2>2. e.ids \in Nat /\ e.finish \in BOOLEAN /\ e.usage \in Int \cup {None}
    BY DEF Events
  <2>3. /\ after \in [ids : Nat, finish : BOOLEAN, usage : Int \cup {None}]
        /\ after.ids = stream[s].ids + e.ids
    <3>1. stream[s].ids \in Nat /\ stream[s].usage \in Int \cup {None}
      BY <1>1
    <3>2. (stream[s].finish \/ e.finish) \in BOOLEAN
      BY <2>2, <1>1, Zenon
    <3>3. stream[s].ids + e.ids \in Nat
      BY <2>2, <3>1
    <3>4. (IF e.usage = None THEN stream[s].usage ELSE e.usage) \in Int \cup {None}
      BY <2>2, <3>1
    <3> QED
      BY <3>2, <3>3, <3>4 DEF After
  <2>4. /\ stream' \in [Sessions -> [ids : Nat, finish : BOOLEAN, usage : Int \cup {None}]]
        /\ stream'[s] = after /\ \A q \in Sessions : q # s => stream'[q] = stream[q]
    BY <1>1, <2>1, <2>3
  <2>5. /\ DOMAIN arrived' = Sessions /\ arrived'[s] = [arrived[s] EXCEPT ![t] = @ + e.ids]
        /\ \A q \in Sessions : q # s => arrived'[q] = arrived[q]
    BY <1>1, <2>1
  <2>6. /\ arrived'[s] \in [1..Turns[s] -> Nat] /\ arrived'[s][t] = after.ids
        /\ \A n \in 1..Turns[s] : n # t => arrived'[s][n] = arrived[s][n]
    BY <1>1, <2>2, <2>3, <2>5
  <2>7. CASE after.ids > MaxTokens
    <3>1. Fail(s, "error", after.ids) /\ "error" \in Failures
      BY <2>1, <2>7 DEF Failures
    <3> QED
      BY <1>1, <1>2, <2>4, <2>5, <2>6, <3>1, FailStep DEF StreamEvent
  <2>8. CASE ~(after.ids > MaxTokens)
    <3>1. UNCHANGED <<main, interrupted, interrupts, at, cancelling, turn, history, row, prompt>>
      BY <2>1, <2>8 DEF StreamEvent
    <3>2. TypeOK'
      BY <2>4, <2>5, <2>6, <3>1 DEF Inductive, TypeOK
    <3>3. BeforeTurn(s)'
      <4> SUFFICES ASSUME NEW n \in 1..(t - 1)
                   PROVE  /\ row[s][n] = <<Row("ok", arrived'[s][n], None)>>
                          /\ arrived'[s][n] \in 1..MaxTokens
                          /\ prompt[s][n] = Conversation(n)
        BY <3>1 DEF BeforeTurn
      <4>1. n \in 1..Turns[s] /\ n # t
        BY <1>1
      <4> QED
        BY <2>6, <4>1 DEF Inductive, SessionInv, BeforeTurn
    <3>4. AfterTurn(s)'
      <4> SUFFICES ASSUME NEW n \in (t + 1)..Turns[s]
                   PROVE  row[s][n] = <<>> /\ prompt[s][n] = <<>> /\ arrived'[s][n] = 0
        BY <1>1, <3>1 DEF AfterTurn
      <4>1. n \in 1..Turns[s] /\ n # t
        BY <1>1
      <4> QED
        BY <1>1, <2>6, <4>1 DEF Inductive, SessionInv, AfterTurn
    <3>5. AtTurn(s)'
      <4>1. after.ids <= MaxTokens
        BY <2>3, <2>8, <1>1, <2>2
      <4> QED
        BY <1>1, <2>4, <2>6, <3>1, <4>1 DEF Inductive, SessionInv, AtTurn
    <3>6. StreamIsLast(s)'
      BY <1>1, <1>2, <3>1 DEF StreamIsLast
    <3>7. SessionInv(s)'
      BY <3>3, <3>4, <3>5, <3>6 DEF SessionInv
    <3> QED
      BY <2>4, <2>5, <3>1, <3>2, <3>7, OneSession
  <2> QED
    BY <2>7, <2>8
<1> QED
  BY <1>4, <1>5

LEMMA StreamDoneStep == ASSUME Inductive, NEW s \in Sessions, StreamDone(s) PROVE Inductive'
<1> DEFINE t == turn[s]
           k == stream[s].ids
<1>1. /\ at[s] = "stream" /\ t \in 1..Turns[s] /\ t \in Nat \ {0} /\ Turns[s] \in Nat
      /\ arrived[s][t] = k /\ k <= MaxTokens /\ k \in Nat
      /\ prompt[s][t] = Conversation(t) /\ history[s] = Conversation(t) /\ row[s][t] = <<>>
      /\ stream \in [Sessions -> [ids : Nat, finish : BOOLEAN, usage : Int \cup {None}]]
      /\ DOMAIN arrived = Sessions /\ arrived[s] \in [1..Turns[s] -> Nat]
  BY DEF StreamDone, Runs, Inductive, SessionInv, AtTurn, TypeOK
<1>2. UNCHANGED <<main, interrupted, interrupts, cancelling, stream, prompt, arrived>>
  BY DEF StreamDone
<1>3. CASE Fail(s, "error", k) /\ UNCHANGED <<turn, history>>
  <2>1. "error" \in Failures
    BY DEF Failures
  <2> QED
    BY <1>1, <1>2, <1>3, <2>1, FailStep
<1>4. CASE /\ Whole(stream[s])
           /\ row' = [row EXCEPT ![s][t] = Append(@, Row("ok", k, None))]
           /\ history' = [history EXCEPT ![s] = Append(@, <<"assistant", t>>)]
           /\ IF t = Turns[s]
                THEN at' = [at EXCEPT ![s] = "ended"] /\ UNCHANGED turn
                ELSE /\ at' = [at EXCEPT ![s] = "sleep"]
                     /\ turn' = [turn EXCEPT ![s] = @ + 1]
  <2>1. /\ DOMAIN row' = Sessions /\ row'[s] = [row[s] EXCEPT ![t] = Append(@, Row("ok", k, None))]
        /\ \A q \in Sessions : q # s => row'[q] = row[q]
    BY <1>4 DEF Inductive, TypeOK
  <2>2. /\ DOMAIN row'[s] = 1..Turns[s] /\ row'[s][t] = Append(row[s][t], Row("ok", k, None))
        /\ \A n \in 1..Turns[s] : n # t => row'[s][n] = row[s][n]
    BY <1>1, <2>1 DEF Inductive, TypeOK
  <2>3. row'[s][t] = <<Row("ok", k, None)>>
    BY <1>1, <2>2, FirstRow
  <2>4. /\ DOMAIN history' = Sessions /\ history'[s] = Messages(2 * (t + 1) - 2)
        /\ \A q \in Sessions : q # s => history'[q] = history[q]
    <3>1. history'[s] = Append(history[s], <<"assistant", t>>)
      BY <1>4 DEF Inductive, TypeOK
    <3>2. Append(Conversation(t), <<"assistant", t>>) = Messages(2 * (t + 1) - 2)
      BY <1>1, ConversationGrows
    <3> QED
      BY <1>1, <1>4, <3>1, <3>2 DEF Inductive, TypeOK
  <2>5. k >= 1
    BY <1>1, <1>4 DEF Whole
  <2>6. \A n \in 1..(t - 1) : n \in 1..Turns[s] /\ n # t
    BY <1>1
  <2>8. \A n \in 1..t :
          /\ row'[s][n] = <<Row("ok", arrived[s][n], None)>>
          /\ arrived[s][n] \in 1..MaxTokens /\ prompt[s][n] = Conversation(n)
    <3> SUFFICES ASSUME NEW n \in 1..t
                 PROVE  /\ row'[s][n] = <<Row("ok", arrived[s][n], None)>>
                        /\ arrived[s][n] \in 1..MaxTokens /\ prompt[s][n] = Conversation(n)
      OBVIOUS
    <3>1. CASE n = t
      BY <1>1, <2>3, <2>5, <3>1
    <3>2. CASE n # t
      <4>1. n \in 1..(t - 1) /\ row'[s][n] = row[s][n]
        BY <1>1, <2>2, <2>6, <3>2
      <4> QED
        BY <4>1 DEF Inductive, SessionInv, BeforeTurn
    <3> QED
      BY <3>1, <3>2
  <2>9. \A n \in (t + 1)..Turns[s] :
          row'[s][n] = <<>> /\ prompt[s][n] = <<>> /\ arrived[s][n] = 0
    <3> SUFFICES ASSUME NEW n \in (t + 1)..Turns[s]
                 PROVE  row'[s][n] = <<>> /\ prompt[s][n] = <<>> /\ arrived[s][n] = 0
      OBVIOUS
    <3>1. n \in 1..Turns[s] /\ n # t
      BY <1>1
    <3>2. row'[s][n] = row[s][n]
      BY <2>2, <3>1
    <3> QED
      BY <1>1, <3>2 DEF Inductive, SessionInv, AfterTurn
  <2>10. CASE t = Turns[s]
    <3>1. at' = [at EXCEPT ![s] = "ended"] /\ at'[s] = "ended" /\ turn' = turn
      BY <1>4, <2>10 DEF Inductive, TypeOK
    <3>2. TypeOK'
      BY <1>2, <2>1, <2>2, <2>4, <3>1 DEF Inductive, TypeOK, Ended
    <3>3. BeforeTurn(s)'
      BY <1>1, <1>2, <2>8, <3>1 DEF BeforeTurn
    <3>4. AfterTurn(s)'
      BY <1>1, <2>10, <3>1 DEF AfterTurn
    <3>5. AtTurn(s)' /\ StreamIsLast(s)'
      BY <1>1, <1>2, <1>4, <2>3, <2>10, <3>1 DEF Inductive, SessionInv, AtTurn, StreamIsLast
    <3>6. SessionInv(s)'
      BY <3>3, <3>4, <3>5 DEF SessionInv
    <3> QED
      BY <1>2, <2>1, <2>4, <3>1, <3>2, <3>6, OneSession DEF Inductive, TypeOK
  <2>11. CASE t # Turns[s]
    <3>1. /\ at' = [at EXCEPT ![s] = "sleep"] /\ at'[s] = "sleep"
          /\ turn' = [turn EXCEPT ![s] = t + 1] /\ turn'[s] = t + 1
          /\ t + 1 \in 1..Turns[s] /\ (t + 1) - 1 = t /\ t + 1 \in Nat
      BY <1>1, <1>4, <2>11 DEF Inductive, TypeOK
    <3>2. TypeOK'
      BY <1>2, <2>1, <2>2, <2>4, <3>1 DEF Inductive, TypeOK, Ended
    <3>3. BeforeTurn(s)'
      BY <1>2, <2>8, <3>1 DEF BeforeTurn
    <3>4. AfterTurn(s)'
      <4> SUFFICES ASSUME NEW n \in (t + 2)..Turns[s]
                   PROVE  row'[s][n] = <<>> /\ prompt[s][n] = <<>> /\ arrived[s][n] = 0
        BY <1>2, <3>1 DEF AfterTurn
      <4>1. n \in (t + 1)..Turns[s]
        BY <1>1
      <4> QED
        BY <2>9, <4>1
    <3>5. t + 1 \in (t + 1)..Turns[s]
      BY <1>1, <3>1
    <3>6. AtTurn(s)' /\ StreamIsLast(s)'
      BY <1>1, <1>2, <1>4, <2>4, <2>9, <3>1, <3>5 DEF AtTurn, StreamIsLast
    <3>7. SessionInv(s)'
      BY <3>3, <3>4, <3>6 DEF SessionInv
    <3> QED
      BY <1>2, <2>1, <2>4, <3>1, <3>2, <3>7, OneSession DEF Inductive, TypeOK
  <2> QED
    BY <2>10, <2>11
<1> QED
  BY <1>3, <1>4 DEF StreamDone

(* What the run itself does moves nothing that a session's part speaks of.  *)
LEMMA MainStep ==
  ASSUME Inductive, UNCHANGED tasks, TypeOK'
  PROVE  Inductive'
<1>1. ASSUME NEW q \in Sessions PROVE SessionInv(q)'
  BY OtherSession DEF Inductive, tasks
<1> QED
  BY <1>1 DEF Inductive

LEMMA NextStep == Inductive /\ [Next]_vars => Inductive'
<1> SUFFICES ASSUME Inductive, [Next]_vars PROVE Inductive'
  OBVIOUS
<1>1. ASSUME NEW s \in Sessions, Step(s) PROVE Inductive'
  BY <1>1, StartStep, WakeStep, DispatchStep, NotSentStep, StreamEventStep, StreamDoneStep,
     StreamBreaksStep, CancelledStep DEF Step
<1>2. CASE Interrupt
  <2>1. interrupts' \in 0..MaxInterrupts
    BY <1>2 DEF Interrupt, Inductive, TypeOK
  <2>2. interrupted' \in BOOLEAN /\ cancelling' \in [Sessions -> BOOLEAN]
    BY <1>2, Zenon DEF Interrupt, Inductive, TypeOK
  <2>3. UNCHANGED tasks /\ main' \in {"gather", "settle", "returned", "raised"}
    BY <1>2 DEF Interrupt, Inductive, TypeOK
  <2> QED
    BY <2>1, <2>2, <2>3, MainStep DEF Inductive, TypeOK, tasks
<1>3. CASE Gathered
  <2>1. main' \in {"gather", "settle", "returned", "raised"}
    BY <1>3 DEF Gathered
  <2>2. cancelling' \in [Sessions -> BOOLEAN]
    BY <1>3, Zenon DEF Gathered, Inductive, TypeOK
  <2>3. UNCHANGED <<interrupted, interrupts, tasks>>
    BY <1>3 DEF Gathered
  <2> QED
    BY <2>1, <2>2, <2>3, MainStep DEF Inductive, TypeOK, tasks
<1>4. CASE Settled
  BY <1>4, MainStep DEF Settled, Inductive, TypeOK, tasks
<1>5. CASE UNCHANGED vars
  BY <1>5, MainStep DEF vars, Inductive, TypeOK, tasks
<1> QED
  BY <1>1, <1>2, <1>3, <1>4, <1>5 DEF Next

-----------------------------------------------------------------------------
(* The theorems *)

(* Every session's rows, prompts and tokens are, before, at and after its   *)
(* current turn, what run_session has done so far.                          *)
THEOREM SessionsAsExecuted == Spec => []Inductive
<1> QED
  BY InductiveInit, NextStep, PTL DEF Spec

(* A turn is recorded at most once and in order; when a session has ended,  *)
(* however it ended, finish was called for each of its planned turns.       *)
THEOREM EachTurnOnce == Spec => []RecordedOnce
<1>1. ASSUME Inductive, NEW s \in Sessions, NEW n \in 1..Turns[s]
      PROVE  /\ Len(row[s][n]) <= 1
             /\ n > 1 /\ row[s][n] # <<>> => row[s][n - 1] # <<>>
             /\ at[s] = "ended" => row[s][n] # <<>>
  <2> DEFINE t == turn[s]
  <2>1. t \in 1..Turns[s] /\ t \in Nat /\ Turns[s] \in Nat
    BY <1>1 DEF Inductive, TypeOK, SessionInv, AtTurn
  <2>2. ASSUME NEW x PROVE Len(<<x>>) = 1 /\ <<x>> # <<>>
    OBVIOUS
  <2>3. ASSUME NEW m \in 1..(t - 1) PROVE Len(row[s][m]) = 1 /\ row[s][m] # <<>>
    <3>1. row[s][m] = <<Row("ok", arrived[s][m], None)>>
      BY <1>1 DEF Inductive, SessionInv, BeforeTurn
    <3> QED
      BY <3>1, <2>2
  <2>4. /\ Len(row[s][t]) <= 1
        /\ at[s] = "ended" => row[s][t] # <<>>
    <3>1. CASE at[s] = "ended"
      <4>1. PICK x : row[s][t] = <<x>>
        BY <1>1, <3>1 DEF Inductive, SessionInv, AtTurn
      <4> QED
        BY <4>1, <2>2
    <3>2. CASE at[s] # "ended"
      <4>1. row[s][t] = <<>> /\ Len(<<>>) = 0
        BY <1>1, <3>2 DEF Inductive, SessionInv, AtTurn
      <4> QED
        BY <3>2, <4>1
    <3> QED
      BY <3>1, <3>2
  <2>5. ASSUME NEW m \in (t + 1)..Turns[s]
        PROVE  /\ at[s] = "ended" => Len(row[s][m]) = 1 /\ row[s][m] # <<>>
               /\ at[s] # "ended" => row[s][m] = <<>>
    <3>1. row[s][m] = IF at[s] = "ended" THEN <<Row("blocked", 0, t)>> ELSE <<>>
      BY <1>1 DEF Inductive, SessionInv, AfterTurn
    <3> QED
      BY <3>1, <2>2
  <2>6. CASE n < t
    <3>1. n \in 1..(t - 1) /\ (n > 1 => n - 1 \in 1..(t - 1))
      BY <2>1, <2>6
    <3>2. Len(row[s][n]) = 1 /\ row[s][n] # <<>>
      BY <2>3, <3>1
    <3>3. n > 1 => row[s][n - 1] # <<>>
      BY <2>3, <3>1
    <3> QED
      BY <3>2, <3>3
  <2>7. CASE n = t
    <3>1. n > 1 => n - 1 \in 1..(t - 1)
      BY <2>1, <2>7
    <3> QED
      BY <2>3, <2>4, <2>7, <3>1
  <2>8. CASE n > t
    <3>1. n \in (t + 1)..Turns[s] /\ (n - 1 = t \/ n - 1 \in (t + 1)..Turns[s]) /\ Len(<<>>) = 0
      BY <2>1, <2>8
    <3>2. /\ at[s] = "ended" => Len(row[s][n]) = 1 /\ row[s][n] # <<>>
          /\ at[s] # "ended" => row[s][n] = <<>>
      BY <2>5, <3>1
    <3>3. at[s] = "ended" => row[s][n - 1] # <<>>
      BY <2>4, <2>5, <3>1
    <3>4. Len(row[s][n]) <= 1
      <4>1. CASE at[s] = "ended"
        <5>1. Len(row[s][n]) = 1
          BY <3>2, <4>1
        <5> QED
          BY <5>1
      <4>2. CASE at[s] # "ended"
        <5>1. Len(row[s][n]) = 0
          BY <3>1, <3>2, <4>2
        <5> QED
          BY <5>1
      <4> QED
        BY <4>1, <4>2
    <3> QED
      BY <3>2, <3>3, <3>4
  <2> QED
    BY <2>1, <2>6, <2>7, <2>8
<1>2. Inductive => RecordedOnce
  BY <1>1, Zenon DEF RecordedOnce
<1> QED
  BY <1>2, SessionsAsExecuted, PTL

(* Only a failed turn of the same session blocks a turn, which is then      *)
(* never sent; and what is sent is the whole conversation so far.           *)
THEOREM FailureBlocks == Spec => []BlockedByFailure
<1>1. Inductive => BlockedByFailure
  <2> SUFFICES ASSUME Inductive, NEW s \in Sessions, NEW n \in 1..Turns[s]
               PROVE  /\ row[s][n] # <<>> /\ row[s][n][1].status = "blocked" =>
                           LET b == row[s][n][1].blockedBy
                           IN /\ b # None /\ b < n
                              /\ row[s][b] # <<>> /\ row[s][b][1].status \in Failures
                              /\ prompt[s][n] = <<>>
                      /\ prompt[s][n] # <<>> =>
                           /\ prompt[s][n] = Conversation(n)
                           /\ \A m \in 1..(n - 1) : row[s][m] # <<>> /\ row[s][m][1].status = "ok"
    BY DEF BlockedByFailure
  <2> DEFINE t == turn[s]
  <2>1. t \in 1..Turns[s] /\ t \in Nat /\ Turns[s] \in Nat
    BY DEF Inductive, TypeOK, SessionInv, AtTurn
  <2>2. \A m \in 1..(t - 1) : /\ row[s][m] # <<>> /\ row[s][m][1].status = "ok"
                              /\ prompt[s][m] = Conversation(m)
    <3> SUFFICES ASSUME NEW m \in 1..(t - 1)
                 PROVE  /\ row[s][m] # <<>> /\ row[s][m][1].status = "ok"
                        /\ prompt[s][m] = Conversation(m)
      OBVIOUS
    <3>1. row[s][m] = <<Row("ok", arrived[s][m], None)>> /\ prompt[s][m] = Conversation(m)
      BY DEF Inductive, SessionInv, BeforeTurn
    <3> QED
      BY <3>1 DEF Row
  <2>3. row[s][t] # <<>> => \/ t = Turns[s] /\ row[s][t][1].status = "ok"
                            \/ row[s][t][1].status \in Failures
    <3> SUFFICES ASSUME row[s][t] # <<>>
                 PROVE  \/ t = Turns[s] /\ row[s][t][1].status = "ok"
                        \/ row[s][t][1].status \in Failures
      OBVIOUS
    <3>1. CASE t = Turns[s] /\ row[s][t] = <<Row("ok", arrived[s][t], None)>>
      BY <3>1 DEF Row
    <3>2. CASE \E status \in Failures : row[s][t] = <<Row(status, arrived[s][t], None)>>
      <4>1. PICK status \in Failures : row[s][t] = <<Row(status, arrived[s][t], None)>>
        BY <3>2
      <4> QED
        BY <4>1 DEF Row
    <3> QED
      BY <3>1, <3>2 DEF Inductive, SessionInv, AtTurn
  <2>4. CASE n < t
    BY <2>1, <2>2, <2>4
  <2>5. CASE n = t
    BY <2>1, <2>2, <2>3, <2>5 DEF Failures, Inductive, SessionInv, AtTurn
  <2>6. CASE n > t
    <3>0. n \in (t + 1)..Turns[s] /\ t # Turns[s] /\ t # None
      BY <2>1, <2>6
    <3>1. prompt[s][n] = <<>>
      BY <3>0 DEF Inductive, SessionInv, AfterTurn
    <3>2. CASE at[s] = "ended"
      <4>1. row[s][n] = <<Row("blocked", 0, t)>>
        BY <3>0, <3>2 DEF Inductive, SessionInv, AfterTurn
      <4>2. row[s][t] # <<>>
        <5>1. \E x : row[s][t] = <<x>>
          BY <3>2 DEF Inductive, SessionInv, AtTurn
        <5> QED
          BY <5>1
      <4> QED
        BY <2>3, <2>6, <3>0, <3>1, <4>1, <4>2 DEF Row
    <3>3. CASE at[s] # "ended"
      BY <3>0, <3>1, <3>3 DEF Inductive, SessionInv, AfterTurn
    <3> QED
      BY <3>2, <3>3
  <2> QED
    BY <2>1, <2>4, <2>5, <2>6
<1> QED
  BY <1>1, SessionsAsExecuted, PTL

(* No accepted token is lost, whatever ends the turn; and ok means that the *)
(* stream finished with as many tokens as the server counted.               *)
THEOREM TokensKept == Spec => []AnswersKept
<1>1. Inductive => AnswersKept
  <2> SUFFICES ASSUME Inductive, NEW s \in Sessions, NEW n \in 1..Turns[s], row[s][n] # <<>>
               PROVE  LET r == row[s][n][1]
                      IN /\ r.tokens = arrived[s][n]
                         /\ r.status = "ok" => r.tokens \in 1..MaxTokens
                         /\ r.status = "ok" /\ Latest(s, n) =>
                              stream[s].finish /\ stream[s].usage = r.tokens
    BY DEF AnswersKept
  <2> DEFINE t == turn[s]
  <2>1. t \in 1..Turns[s] /\ t \in Nat /\ Turns[s] \in Nat
    BY DEF Inductive, TypeOK, SessionInv, AtTurn
  <2>2. CASE n < t
    <3>1. n \in 1..(t - 1) /\ n + 1 \in 1..t
      BY <2>1, <2>2
    <3>2. row[s][n] = <<Row("ok", arrived[s][n], None)>> /\ arrived[s][n] \in 1..MaxTokens
      BY <3>1 DEF Inductive, SessionInv, BeforeTurn
    <3>3. ASSUME Latest(s, n)
          PROVE  stream[s].finish /\ stream[s].usage = arrived[s][n]
      <4>1. prompt[s][n + 1] = <<>>
        BY <2>1, <2>2, <3>3 DEF Latest
      <4>2. n + 1 = t
        <5>1. n + 1 \in 1..(t - 1) => prompt[s][n + 1] = Conversation(n + 1) /\ n + 1 \in Nat \ {0}
          BY DEF Inductive, SessionInv, BeforeTurn
        <5>2. n + 1 \in 1..(t - 1) => prompt[s][n + 1] # <<>>
          BY <5>1, ConversationGrows
        <5> QED
          BY <2>1, <3>1, <4>1, <5>2
      <4>3. t > 1 /\ t - 1 = n
        BY <2>1, <3>1, <4>2
      <4> QED
        BY <4>1, <4>2, <4>3 DEF Inductive, SessionInv, StreamIsLast, Whole
    <3> QED
      BY <3>2, <3>3 DEF Row
  <2>3. CASE n = t
    <3>1. at[s] = "ended"
      BY <2>3 DEF Inductive, SessionInv, AtTurn
    <3>2. arrived[s][t] \in Nat
      BY <2>1 DEF Inductive, TypeOK
    <3>3. \/ /\ row[s][t] = <<Row("ok", arrived[s][t], None)>> /\ Whole(stream[s])
             /\ arrived[s][t] = stream[s].ids /\ arrived[s][t] <= MaxTokens
          \/ \E status \in Failures : row[s][t] = <<Row(status, arrived[s][t], None)>>
      BY <3>1 DEF Inductive, SessionInv, AtTurn
    <3>4. CASE \E status \in Failures : row[s][t] = <<Row(status, arrived[s][t], None)>>
      BY <2>3, <3>4 DEF Row, Failures
    <3>5. CASE /\ row[s][t] = <<Row("ok", arrived[s][t], None)>> /\ Whole(stream[s])
               /\ arrived[s][t] = stream[s].ids /\ arrived[s][t] <= MaxTokens
      BY <2>3, <3>2, <3>5 DEF Row, Whole
    <3> QED
      BY <3>3, <3>4, <3>5
  <2>4. CASE n > t
    <3>1. n \in (t + 1)..Turns[s]
      BY <2>1, <2>4
    <3>2. row[s][n] = <<Row("blocked", 0, t)>> /\ arrived[s][n] = 0
      BY <3>1 DEF Inductive, SessionInv, AfterTurn
    <3> QED
      BY <3>2 DEF Row
  <2> QED
    BY <2>1, <2>2, <2>3, <2>4
<1> QED
  BY <1>1, SessionsAsExecuted, PTL
=============================================================================
