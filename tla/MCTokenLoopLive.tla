-------------------------- MODULE MCTokenLoopLive --------------------------
(* TokenLoop with a network that fails, or with one that does not: an      *)
(* instance for the liveness properties of both.                           *)
EXTENDS TokenLoop

CONSTANTS r1, r2

VARIABLE calm  \* chosen at the start: nothing goes wrong

FailFaults == {"loss", "error", "forward"}

Calm == INSTANCE TokenLoop WITH Faults <- {}

\* The fairness of TokenLoop serves both: a step that may fail is enabled only
\* together with the same step that does not.
LiveSpec ==
  /\ Init /\ calm \in BOOLEAN
  /\ [][(IF calm THEN Calm!Next ELSE Next) /\ UNCHANGED calm]_<<vars, calm>>
  /\ Fairness

\* When nothing goes wrong every generation is completed.
CalmGenerationsSucceed ==
  \A r \in Requests : calm /\ pc[r] = "forward" ~> pc[r] = "done"

\* When nothing goes wrong the exit worker forgets every finished generation:
\* the control frame reaches exit_loop after the last hidden frame.
CalmCachesAreDropped ==
  \A r \in Requests :
    calm /\ pc[r] = "done" /\ maxTokens[r] > 0 ~> [](r \notin caches)
=============================================================================
