----------------------------- MODULE Deadlines ------------------------------
(***************************************************************************)
(* The deadlines of the two oracles: progress_limits and violations of      *)
(* toy_oracle.py, limits_for and the checks of replay in                    *)
(* eviction_oracle.py.  A schedule may answer a request later than the      *)
(* baseline did, but only within a slack, in percent, or epsilon ticks.     *)
(***************************************************************************)
EXTENDS Integers, Sequences, FiniteSetsExt

\* eviction_oracle.py rounds the slack down; toy_oracle.py compares fractions,
\* which for whole ticks is the same (EvictionOracleProofs!RoundingDown).
Allowed(n, slack, epsilon) ==
  LET late == (n * slack) \div 100 IN n + (IF late > epsilon THEN late ELSE epsilon)

LongestGap(outputs) ==
  Max({0} \cup {outputs[k + 1] - outputs[k] : k \in 1..(Len(outputs) - 1)})

\* A bug: the arrival is forgotten.
FaultyLimitsOf(arrival, outputs, slack, epsilon) ==
  LET completed == outputs[Len(outputs)]
  IN [completion |-> Allowed(completed - arrival, slack, epsilon),
      duration |-> Allowed(completed - outputs[1], slack, epsilon),
      gap |-> Allowed(LongestGap(outputs), slack, epsilon)]

\* The limits that the baseline's outputs give a request.
LimitsOf(arrival, outputs, slack, epsilon) ==
  LET completed == outputs[Len(outputs)]
  IN [completion |-> arrival + Allowed(completed - arrival, slack, epsilon),
      duration |-> Allowed(completed - outputs[1], slack, epsilon),
      gap |-> Allowed(LongestGap(outputs), slack, epsilon)]

\* Two answers, or the last one and now, are further apart than gap.
GapBroken(gap, outputs) ==
  \E k \in 1..(Len(outputs) - 1) : outputs[k + 1] - outputs[k] > gap

\* A bug: the clock runs on for a request that is complete.
FaultyBreaks(limit, length, outputs, now) ==
  \/ now > limit.completion
  \/ /\ length > 1 /\ outputs # <<>>
     /\ now - outputs[1] > limit.duration \/ GapBroken(limit.gap, Append(outputs, now))

\* A request breaks its limits at time now: of its length outputs, those at
\* the times outputs are made.
Breaks(limit, length, outputs, now) ==
  LET done == Len(outputs) = length
      completion == IF done THEN outputs[length] ELSE now
  IN \/ completion > limit.completion
     \/ /\ length > 1 /\ outputs # <<>>
        /\ \/ completion - outputs[1] > limit.duration
           \/ GapBroken(limit.gap, IF done THEN outputs ELSE Append(outputs, now))
=============================================================================
