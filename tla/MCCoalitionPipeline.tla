------------------------ MODULE MCCoalitionPipeline ------------------------
(* Instances of CoalitionPipeline for TLC.                                 *)
EXTENDS CoalitionPipeline

\* Bounds: behaviours are followed until a second kind of disturbance.  Two
\* sessions are in progress together only once a pool has been created, and
\* from a disturbance on one fan-out runs at a time.  One webhook is delivered,
\* in behaviours with one session.
OneKind    == Cardinality(disturbed) <= 1
Running    == {j.s : j \in jobs} \cup {c.s : c \in calls}
LateOverlap == Cardinality(Running) > 1 => units # <<>>
FewCalls   == disturbed # {} => Cardinality(calls) <= 2
OneWebhook ==
  /\ Cardinality(delivered) <= 1
  /\ delivered # {} => Cardinality({s \in Sessions : row[s] # "none"}) = 1
=============================================================================
