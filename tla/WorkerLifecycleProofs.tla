----------------------- MODULE WorkerLifecycleProofs -----------------------
(***************************************************************************)
(* Proofs about WorkerLifecycle, for any number of calls and generations.  *)
(***************************************************************************)
EXTENDS WorkerLifecycle, TLAPS

\* While no /unload overlaps with a generation, gen_in_flight is held exactly
\* by the one generation that is in flight, or by one that was abandoned.
FlagHeld ==
  /\ \A g \in Gens : gen[g] \in InFlight => flag
  /\ \A g, h \in Gens : gen[g] \in InFlight /\ gen[h] \in InFlight => g = h
  /\ NoUnload \/ NoGeneration

FlagInv ==
  /\ flag \in BOOLEAN
  /\ call \in [Calls -> {"idle", "returned"} \cup InCall]
  /\ gen \in [Gens -> {"idle", "ended"} \cup InFlight]
  /\ "generation" \notin overlapped => FlagHeld

USE DEF InFlight, InCall, Unloading

LEMMA FlagInit == Init => FlagInv
<1> SUFFICES ASSUME Init PROVE FlagInv
  OBVIOUS
<1>1. /\ \A c \in Calls : call[c] = "idle"
      /\ \A g \in Gens : gen[g] = "idle"
      /\ flag = FALSE
  BY DEF Init
<1> QED
  BY <1>1 DEF Init, FlagInv, FlagHeld, NoUnload, NoGeneration

LEMMA FlagStep ==
  ASSUME FlagInv, [Next]_vars
  PROVE  FlagInv'
<1> USE DEF FlagInv, FlagHeld, NoUnload, NoGeneration
<1>1. ASSUME NEW cfg \in Configs, Configure(cfg) PROVE FlagInv'
  BY <1>1 DEF Configure, Record, callVars, genVars
<1>2. ASSUME NEW c \in Calls, Load(c) PROVE FlagInv'
  BY <1>2 DEF Load, Record, sharedVars, genVars
<1>3. ASSUME NEW c \in Calls, LoadFails(c) PROVE FlagInv'
  BY <1>3 DEF LoadFails, sharedVars, genVars
<1>4. ASSUME NEW c \in Calls, LoadReturns(c) PROVE FlagInv'
  BY <1>4 DEF LoadReturns, genVars
<1>5. ASSUME NEW c \in Calls, Unload(c) PROVE FlagInv'
  <2>1. UNCHANGED gen /\ ("generation" \notin overlapped' => NoGeneration /\ "generation" \notin overlapped)
    BY <1>5 DEF Unload, RecordUnload, genVars
  <2>2. call' \in [Calls -> {"idle", "returned"} \cup InCall] /\ flag' \in BOOLEAN
    BY <1>5 DEF Unload, FreeModel
  <2> QED BY <2>1, <2>2
<1>6. ASSUME NEW c \in Calls, LoopEnds(c) PROVE FlagInv'
  BY <1>6 DEF LoopEnds, sharedVars, genVars
<1>7. ASSUME NEW c \in Calls, UnloadJoined(c) PROVE FlagInv'
  <2>1. UNCHANGED <<gen, overlapped>> /\ ("generation" \notin overlapped => NoGeneration)
    BY <1>7 DEF UnloadJoined, genVars
  <2>2. call' \in [Calls -> {"idle", "returned"} \cup InCall] /\ flag' \in BOOLEAN
    BY <1>7 DEF UnloadJoined, FreeModel
  <2> QED BY <2>1, <2>2
<1>8. ASSUME NEW c \in Calls, ModelFreed(c) PROVE FlagInv'
  BY <1>8 DEF ModelFreed, sharedVars, genVars
<1>9. ASSUME NEW c \in Calls, UnloadReturns(c) PROVE FlagInv'
  BY <1>9 DEF UnloadReturns, genVars
<1>10. ASSUME NEW g \in Gens, Generate(g) PROVE FlagInv'
  BY <1>10 DEF Generate, Record, Accepts, callVars
<1>11. ASSUME NEW g \in Gens, GenerateStream(g) PROVE FlagInv'
  BY <1>11 DEF GenerateStream, Record, Accepts, callVars
<1>12. ASSUME NEW g \in Gens, StreamStarts(g) PROVE FlagInv'
  BY <1>12 DEF StreamStarts, callVars
<1>13. ASSUME NEW g \in Gens, StreamAbandoned(g) PROVE FlagInv'
  BY <1>13 DEF StreamAbandoned, Record, sharedVars, callVars
<1>14. ASSUME NEW g \in Gens, GenerationEnds(g) PROVE FlagInv'
  BY <1>14 DEF GenerationEnds, callVars
<1>15. CASE UNCHANGED vars
  BY <1>15 DEF vars, sharedVars, callVars, genVars
<1> QED
  BY <1>1, <1>2, <1>3, <1>4, <1>5, <1>6, <1>7, <1>8, <1>9, <1>10, <1>11,
     <1>12, <1>13, <1>14, <1>15 DEF Next

\* As long as no /unload has overlapped with a generation, gen_in_flight keeps
\* generations apart, whatever else overlaps and even if streams are abandoned.
THEOREM OneGenerationAtATime == Spec => []SingleUnlessUnloaded
<1>1. FlagInv /\ [Next]_vars => FlagInv'
  BY FlagStep
<1>2. FlagInv => SingleUnlessUnloaded
  BY DEF FlagInv, FlagHeld, SingleUnlessUnloaded, SingleInFlight, Served
<1> QED BY FlagInit, <1>1, <1>2, PTL DEF Spec

-----------------------------------------------------------------------------
(* What a loaded worker serves, under every overlap.                       *)

\* The call that created the model has returned: no handler touches what the
\* call is the name of any more.
ModelReturned == model # None => call[model] = "returned"

\* A generation runs on a model.
RunsOnModel == \A g \in Gens : gen[g] = "running" => ranOn[g] # None

TypeInv  == TypeOK /\ ModelReturned /\ RunsOnModel
ServeInv == TypeInv /\ LoadedServes

LEMMA ServeInit == Init => ServeInv
<1> SUFFICES ASSUME Init PROVE ServeInv
  OBVIOUS
<1>1. TypeOK
  BY LifecycleAssumption DEF Init, TypeOK
<1>2. ModelReturned /\ RunsOnModel /\ LoadedServes
  BY DEF Init, ModelReturned, RunsOnModel, LoadedServes, Loaded
<1> QED
  BY <1>1, <1>2 DEF ServeInv, TypeInv

\* An /unload that goes on to free the model leaves a worker that is not
\* loaded, or one on which it is still at work.
LEMMA FreeServes ==
  ASSUME ServeInv, NEW c \in Calls, FreeModel(c), call[c] \in {"idle", "joining"},
         UNCHANGED <<config, model, built, usable, loop, gen, ranOn>>,
         overlapped' \subseteq OverlapKinds
  PROVE  ServeInv'
<1> USE LifecycleAssumption
    DEF ServeInv, TypeInv, TypeOK, ModelReturned, RunsOnModel, LoadedServes, Loaded, NoUnload
<1>1. CASE model # None
  <2>1. /\ recvTask' = None /\ dispatcher' = None /\ flag' = flag
        /\ call' = [call EXCEPT ![c] = "freeing"] /\ target' = [target EXCEPT ![c] = model]
    BY <1>1 DEF FreeModel
  <2>2. TypeOK' /\ ~NoUnload'
    BY <1>1, <2>1
  <2> QED
    BY <2>1, <2>2
<1>2. CASE model = None
  <2>1. /\ recvTask' = None /\ dispatcher' = None /\ flag' = FALSE /\ target' = target
        /\ call' = [call EXCEPT ![c] = "returned"]
    BY <1>2 DEF FreeModel
  <2>2. TypeOK'
    BY <2>1
  <2> QED
    BY <1>2, <2>1, <2>2
<1> QED
  BY <1>1, <1>2

LEMMA ServeStep ==
  ASSUME ServeInv, [Next]_vars
  PROVE  ServeInv'
<1> USE LifecycleAssumption
    DEF ServeInv, TypeInv, TypeOK, ModelReturned, RunsOnModel, LoadedServes, Loaded, NoUnload,
        OverlapKinds, Record, sharedVars, callVars, genVars
<1>1. ASSUME NEW cfg \in Configs, Configure(cfg) PROVE ServeInv'
  BY <1>1 DEF Configure
<1>2. ASSUME NEW c \in Calls, Load(c) PROVE ServeInv'
  BY <1>2 DEF Load
<1>3. ASSUME NEW c \in Calls, LoadFails(c) PROVE ServeInv'
  BY <1>3 DEF LoadFails
<1>4. ASSUME NEW c \in Calls, LoadReturns(c) PROVE ServeInv'
  BY <1>4 DEF LoadReturns
<1>5. ASSUME NEW c \in Calls, Unload(c) PROVE ServeInv'
  <2>1. overlapped' \subseteq OverlapKinds
    BY <1>5 DEF Unload, RecordUnload
  <2>2. CASE recvTask # None /\ loop[recvTask] # "ended" /\ call' = [call EXCEPT ![c] = "joining"]
             /\ loop' = [loop EXCEPT ![recvTask] = "cancelled"]
             /\ target' = [target EXCEPT ![c] = recvTask] /\ UNCHANGED <<recvTask, dispatcher, flag>>
    BY <1>5, <2>1, <2>2 DEF Unload
  <2>3. CASE FreeModel(c) /\ UNCHANGED loop
    BY <1>5, <2>1, <2>3, FreeServes DEF Unload
  <2> QED
    BY <1>5, <2>2, <2>3 DEF Unload
<1>6. ASSUME NEW c \in Calls, LoopEnds(c) PROVE ServeInv'
  BY <1>6 DEF LoopEnds
<1>7. ASSUME NEW c \in Calls, UnloadJoined(c) PROVE ServeInv'
  BY <1>7, FreeServes DEF UnloadJoined
<1>8. ASSUME NEW c \in Calls, ModelFreed(c) PROVE ServeInv'
  BY <1>8 DEF ModelFreed
<1>9. ASSUME NEW c \in Calls, UnloadReturns(c) PROVE ServeInv'
  <2>1. call' \in [Calls -> {"idle", "returned"} \cup InCall]
    BY <1>9 DEF UnloadReturns
  <2>2. /\ model' = None /\ flag' = FALSE
        /\ UNCHANGED <<config, recvTask, dispatcher, target, built, usable, loop, genVars, overlapped>>
    BY <1>9 DEF UnloadReturns
  <2>3. {model', recvTask', dispatcher'} \subseteq Calls \cup {None} /\ flag' \in BOOLEAN
    BY <2>2
  <2>4. /\ config' \in Configs \cup {None} /\ target' \in [Calls -> Calls \cup {None}]
        /\ built' \in [Calls -> Configs \cup {None}] /\ usable' \subseteq Calls
        /\ loop' \in [Calls -> {"none", "running", "cancelled", "ended"}]
        /\ gen' \in [Gens -> {"idle", "ended"} \cup InFlight]
        /\ ranOn' \in [Gens -> Calls \cup {None}] /\ overlapped' \subseteq OverlapKinds
    BY <2>2, Zenon
  <2>5. TypeOK'
    BY <2>1, <2>3, <2>4, Zenon
  <2> QED
    BY <2>2, <2>5
<1>10. ASSUME NEW g \in Gens, Generate(g) PROVE ServeInv'
  BY <1>10 DEF Generate, Accepts
<1>11. ASSUME NEW g \in Gens, GenerateStream(g) PROVE ServeInv'
  BY <1>11 DEF GenerateStream
<1>12. ASSUME NEW g \in Gens, StreamStarts(g) PROVE ServeInv'
  <2>1. CASE CanRun /\ gen' = [gen EXCEPT ![g] = "running"] /\ ranOn' = [ranOn EXCEPT ![g] = model]
             /\ UNCHANGED flag
    BY <1>12, <2>1 DEF StreamStarts, CanRun
  <2>2. CASE gen' = [gen EXCEPT ![g] = "ended"] /\ flag' = FALSE /\ UNCHANGED ranOn
    BY <1>12, <2>2 DEF StreamStarts
  <2> QED
    BY <1>12, <2>1, <2>2 DEF StreamStarts
<1>13. ASSUME NEW g \in Gens, StreamAbandoned(g) PROVE ServeInv'
  BY <1>13 DEF StreamAbandoned
<1>14. ASSUME NEW g \in Gens, GenerationEnds(g) PROVE ServeInv'
  BY <1>14 DEF GenerationEnds
<1>15. CASE UNCHANGED vars
  BY <1>15 DEF vars
<1> QED
  BY <1>1, <1>2, <1>3, <1>4, <1>5, <1>6, <1>7, <1>8, <1>9, <1>10, <1>11,
     <1>12, <1>13, <1>14, <1>15 DEF Next

\* Type correctness of the handlers' shared state.
THEOREM TypeCorrect == Spec => []TypeOK
<1>1. ServeInv => TypeOK
  BY DEF ServeInv, TypeInv
<1> QED BY ServeInit, ServeStep, <1>1, PTL DEF Spec

\* A loaded worker that no /unload is at work on can serve, however /load,
\* /unload and /configure have overlapped before.
THEOREM LoadedWorkersServe == Spec => []LoadedServes
<1>1. ServeInv => LoadedServes
  BY DEF ServeInv
<1> QED BY ServeInit, ServeStep, <1>1, PTL DEF Spec

-----------------------------------------------------------------------------
(* Lifecycle calls that come one at a time.                                *)

OneCall == \A c, d \in Calls : call[c] \in InCall /\ call[d] \in InCall => c = d

\* A model is there when none is being loaded, and is whole between the calls.
ModelWhole ==
  /\ \A c \in Calls : call[c] = "loading" => model = None /\ config = built[c]
  /\ NoCall /\ model # None => model \in usable
  /\ model # None => config = built[model]

\* The one receive loop belongs to the model, until an /unload has stopped it.
OneLoop ==
  /\ recvTask # None => recvTask = model
  /\ \A l \in Calls : loop[l] = "running" => l = recvTask
  /\ \A c \in Calls :
       /\ call[c] = "joining" => \A l \in Calls : loop[l] # "running"
       /\ call[c] \in {"freeing", "freed"} => recvTask = None

SerialInv == TypeInv /\ (Serial => OneCall /\ ModelWhole /\ OneLoop)

LEMMA SerialStep ==
  ASSUME SerialInv, TypeInv', [Next]_vars, Serial'
  PROVE  OneCall' /\ ModelWhole' /\ OneLoop'
<1> USE LifecycleAssumption
    DEF SerialInv, TypeInv, TypeOK, ModelReturned, Serial, OneCall, ModelWhole, OneLoop, Record,
        sharedVars, callVars, genVars, NoCall
<1>1. ASSUME NEW cfg \in Configs, Configure(cfg) PROVE OneCall' /\ ModelWhole' /\ OneLoop'
  BY <1>1 DEF Configure
<1>2. ASSUME NEW c \in Calls, Load(c) PROVE OneCall' /\ ModelWhole' /\ OneLoop'
  BY <1>2 DEF Load, Loaded
<1>3. ASSUME NEW c \in Calls, LoadFails(c) PROVE OneCall' /\ ModelWhole' /\ OneLoop'
  BY <1>3 DEF LoadFails
<1>4. ASSUME NEW c \in Calls, LoadReturns(c) PROVE OneCall' /\ ModelWhole' /\ OneLoop'
  BY <1>4 DEF LoadReturns
<1>5. ASSUME NEW c \in Calls, Unload(c) PROVE OneCall' /\ ModelWhole' /\ OneLoop'
  <2>1. NoCall /\ Serial /\ call[c] = "idle"
    BY <1>5 DEF Unload, RecordUnload
  <2>2. CASE recvTask # None /\ loop[recvTask] # "ended" /\ call' = [call EXCEPT ![c] = "joining"]
             /\ loop' = [loop EXCEPT ![recvTask] = "cancelled"] /\ UNCHANGED recvTask
    BY <1>5, <2>1, <2>2 DEF Unload
  <2>3. CASE (recvTask # None => loop[recvTask] = "ended") /\ FreeModel(c) /\ UNCHANGED loop
    BY <1>5, <2>1, <2>3 DEF Unload, FreeModel
  <2> QED
    BY <1>5, <2>2, <2>3 DEF Unload
<1>6. ASSUME NEW c \in Calls, LoopEnds(c) PROVE OneCall' /\ ModelWhole' /\ OneLoop'
  BY <1>6 DEF LoopEnds
<1>7. ASSUME NEW c \in Calls, UnloadJoined(c) PROVE OneCall' /\ ModelWhole' /\ OneLoop'
  BY <1>7 DEF UnloadJoined, FreeModel
<1>8. ASSUME NEW c \in Calls, ModelFreed(c) PROVE OneCall' /\ ModelWhole' /\ OneLoop'
  BY <1>8 DEF ModelFreed
<1>9. ASSUME NEW c \in Calls, UnloadReturns(c) PROVE OneCall' /\ ModelWhole' /\ OneLoop'
  BY <1>9 DEF UnloadReturns
<1>10. ASSUME UNCHANGED <<config, model, recvTask, callVars>>, Serial
       PROVE  OneCall' /\ ModelWhole' /\ OneLoop'
  BY <1>10
<1>11. ASSUME NEW g \in Gens, \/ Generate(g) \/ GenerateStream(g) \/ StreamStarts(g)
                              \/ StreamAbandoned(g) \/ GenerationEnds(g)
       PROVE  UNCHANGED <<config, model, recvTask, callVars>> /\ Serial
  BY <1>11 DEF Generate, GenerateStream, StreamStarts, StreamAbandoned, GenerationEnds
<1>12. CASE UNCHANGED vars
  BY <1>12 DEF vars
<1> QED
  BY <1>1, <1>2, <1>3, <1>4, <1>5, <1>6, <1>7, <1>8, <1>9, <1>10, <1>11, <1>12 DEF Next

LEMMA SerialInit == Init => SerialInv
BY LifecycleAssumption, ServeInit
   DEF Init, SerialInv, ServeInv, OneCall, ModelWhole, OneLoop, NoCall

LEMMA SerialAlways == Spec => [](SerialInv /\ ServeInv)
<1>1. SerialInv /\ ServeInv /\ [Next]_vars => SerialInv' /\ ServeInv'
  BY ServeStep, SerialStep DEF SerialInv, ServeInv
<1> QED BY SerialInit, ServeInit, <1>1, PTL DEF Spec

\* Between lifecycle calls made one at a time, only the loop that the next
\* /unload will stop polls AXL.
THEOREM SerialCallsLeaveNoLoop == Spec => []NoStrayLoop
<1>1. SerialInv => NoStrayLoop
  BY DEF SerialInv, OneLoop, NoStrayLoop
<1> QED BY SerialAlways, <1>1, PTL

\* The caches are gone when the last /unload has returned.
THEOREM SerialUnloadsDropCaches == Spec => []UnloadDropsCaches
<1>1. SerialInv => UnloadDropsCaches
  BY LifecycleAssumption DEF SerialInv, OneLoop, UnloadDropsCaches
<1> QED BY SerialAlways, <1>1, PTL

\* A loaded worker runs the configuration it reports.
THEOREM SerialConfigurationsAreLoaded == Spec => []ConfiguredAsLoaded
<1>1. SerialInv => ConfiguredAsLoaded
  BY DEF SerialInv, ModelWhole, ConfiguredAsLoaded
<1> QED BY SerialAlways, <1>1, PTL

\* No model takes the place of another under a generation.
THEOREM SerialModelsAreNotReplaced == Spec => ModelNotReplaced
<1>1. SerialInv /\ [Next]_vars =>
        [Serial' => \A g \in Gens :
           gen[g] = "running" /\ ranOn[g] = model => model' \in {model, None}]_vars
  <2> SUFFICES ASSUME SerialInv, [Next]_vars, Serial', NEW g \in Gens,
                      gen[g] = "running", ranOn[g] = model
               PROVE  model' \in {model, None}
    OBVIOUS
  <2> USE DEF Record, sharedVars, callVars, genVars
  <2>1. ASSUME NEW c \in Calls, LoadReturns(c) PROVE model' \in {model, None}
    BY <2>1 DEF LoadReturns, SerialInv, TypeInv, RunsOnModel, ModelWhole, Serial
  <2>2. ASSUME NEW c \in Calls,
               \/ Load(c) \/ LoadFails(c) \/ Unload(c) \/ LoopEnds(c) \/ UnloadJoined(c)
               \/ ModelFreed(c) \/ UnloadReturns(c)
        PROVE  model' \in {model, None}
    BY <2>2 DEF Load, LoadFails, Unload, LoopEnds, UnloadJoined, ModelFreed, UnloadReturns
  <2>3. ASSUME NEW cfg \in Configs, Configure(cfg) PROVE model' \in {model, None}
    BY <2>3 DEF Configure
  <2>4. ASSUME NEW h \in Gens, \/ Generate(h) \/ GenerateStream(h) \/ StreamStarts(h)
                               \/ StreamAbandoned(h) \/ GenerationEnds(h)
        PROVE  model' \in {model, None}
    BY <2>4 DEF Generate, GenerateStream, StreamStarts, StreamAbandoned, GenerationEnds
  <2>5. CASE UNCHANGED vars
    BY <2>5 DEF vars
  <2> QED
    BY <2>1, <2>2, <2>3, <2>4, <2>5 DEF Next
<1> QED BY SerialAlways, <1>1, PTL DEF Spec, ModelNotReplaced
=============================================================================
