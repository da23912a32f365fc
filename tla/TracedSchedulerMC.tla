------------------------- MODULE TracedSchedulerMC -------------------------
(***************************************************************************)
(* TracedScheduler for TLC: five requests over five blocks of two tokens.   *)
(* 1 and 3 have the same prompt of two blocks and get the same first answer *)
(* token, and 4 and 5 begin with these blocks or the first.  2 shares       *)
(* nothing, needs the whole pool, and comes between them, so that what 1    *)
(* cached is evicted, computed again and found again.                       *)
(***************************************************************************)
EXTENDS TracedScheduler

MCPrompt == <<<<1, 1, 2, 2>>, <<8, 8, 8, 8, 8, 8>>, <<1, 1, 2, 2>>, <<1, 1, 2, 2, 3>>, <<1, 1, 3>>>>
MCAnswer == <<<<4, 5, 6>>, <<9, 9, 9>>, <<4, 5>>, <<7, 7>>, <<7, 7, 7>>>>
MCPriority == <<0, 0, 0, 0, 0>>

\* For the policy of priorities: a long prompt, then a short one before it in rank.
LongPrompt == <<<<1, 1, 2, 2, 3, 3, 4, 4, 5, 5, 6, 6>>, <<7, 7, 8, 8>>>>
LongAnswer == <<<<9>>, <<9, 9, 9>>>>
LongPriority == <<1, 0>>

HashesIn(prompt, answer) ==
  UNION {{SubSeq(prompt[r] \o answer[r], 1, k * BlockSize) :
            k \in 1..(Len(prompt[r] \o answer[r]) \div BlockSize)} : r \in DOMAIN prompt}
MCHashes == HashesIn(MCPrompt, MCAnswer)
LongHashes == HashesIn(LongPrompt, LongAnswer)
=============================================================================
