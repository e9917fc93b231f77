-------------------------- MODULE WorkerLifecycle --------------------------
(***************************************************************************)
(* The HTTP handlers of worker/app.py that own the worker's shared state:  *)
(* /configure, /load, /unload, /generate and /generate/stream.             *)
(*                                                                         *)
(* One event loop runs them, so a handler is atomic between two awaits;    *)
(* /load awaits the thread that loads the model, /unload awaits the        *)
(* receive loop it has cancelled and then the thread that frees the model, *)
(* a generation awaits all the time.  Nothing serialises the handlers:     *)
(* the orchestrator sends them when its users ask, and a call goes on when *)
(* the orchestrator has stopped waiting for it.                            *)
(*                                                                         *)
(* A model, the receive loop started for it and its EntryDispatcher are    *)
(* named by the /load call that creates them.  What a generation does with *)
(* the model is in TokenLoop.                                              *)
(***************************************************************************)
EXTENDS Integers, FiniteSets

CONSTANTS
  Calls,        \* /load and /unload requests; each is made at most once
  Gens,         \* /generate and /generate/stream requests
  EntryConfigs, \* /configure bodies that ask for the entry role
  ExitConfigs,  \* /configure bodies that ask for the exit role
  None

Configs == EntryConfigs \cup ExitConfigs

ASSUME LifecycleAssumption ==
  /\ EntryConfigs \cap ExitConfigs = {}
  /\ None \notin Configs
  /\ None \notin Calls

VARIABLES
  config,      \* s.config
  model,       \* s.model
  recvTask,    \* s.recv_task
  dispatcher,  \* s.dispatcher
  flag,        \* s.gen_in_flight
  call,        \* where each /load or /unload is
  target,      \* the receive loop an /unload joins, then the model it frees
  built,       \* the configuration a model was created with
  usable,      \* the models whose `loaded` is true
  loop,        \* the receive loop of each model
  gen,         \* where each generation is
  ranOn,       \* the model each generation was started with
  overlapped   \* history: which requests have overlapped so far

sharedVars == <<config, model, recvTask, dispatcher, flag>>
callVars   == <<call, target, built, usable, loop>>
genVars    == <<gen, ranOn>>
vars       == <<sharedVars, callVars, genVars, overlapped>>

OverlapKinds ==
  { "lifecycle",   \* /configure, /load and /unload with each other
    "generation",  \* /unload with a generation
    "abandon" }    \* a streaming client left before the stream had started

Unloading == {"joining", "freeing", "freed"}
InCall    == {"loading"} \cup Unloading
InFlight  == {"created", "running"}

TypeOK ==
  /\ config \in Configs \cup {None}
  /\ {model, recvTask, dispatcher} \subseteq Calls \cup {None}
  /\ flag \in BOOLEAN
  /\ call \in [Calls -> {"idle", "returned"} \cup InCall]
  /\ target \in [Calls -> Calls \cup {None}]
  /\ built \in [Calls -> Configs \cup {None}]
  /\ usable \subseteq Calls
  /\ loop \in [Calls -> {"none", "running", "cancelled", "ended"}]
  /\ gen \in [Gens -> {"idle", "ended"} \cup InFlight]
  /\ ranOn \in [Gens -> Calls \cup {None}]
  /\ overlapped \subseteq OverlapKinds

Init ==
  /\ config = None
  /\ model = None
  /\ recvTask = None
  /\ dispatcher = None
  /\ flag = FALSE
  /\ call = [c \in Calls |-> "idle"]
  /\ target = [c \in Calls |-> None]
  /\ built = [c \in Calls |-> None]
  /\ usable = {}
  /\ loop = [c \in Calls |-> "none"]
  /\ gen = [g \in Gens |-> "idle"]
  /\ ranOn = [g \in Gens |-> None]
  /\ overlapped = {}

NoCall       == \A c \in Calls : call[c] \notin InCall
NoUnload     == \A c \in Calls : call[c] \notin Unloading
NoGeneration == \A g \in Gens : gen[g] \notin InFlight

\* The model is there and its `loaded` property holds.
Loaded == model # None /\ model \in usable

-----------------------------------------------------------------------------
(* /configure, /load and /unload.                                          *)

Record(kind, overlaps) ==
  overlapped' = IF overlaps THEN overlapped \cup {kind} ELSE overlapped

RecordUnload ==
  overlapped' = overlapped \cup (IF NoCall THEN {} ELSE {"lifecycle"})
                           \cup (IF NoGeneration THEN {} ELSE {"generation"})

\* Mutant: /configure without the check that no model is loaded.
ConfigureAnytime(cfg) ==
  /\ Record("lifecycle", ~NoCall)
  /\ config' = cfg
  /\ UNCHANGED <<model, recvTask, dispatcher, flag, callVars, genVars>>

Configure(cfg) ==
  /\ Record("lifecycle", ~NoCall)
  /\ model = None
  /\ config' = cfg
  /\ UNCHANGED <<model, recvTask, dispatcher, flag, callVars, genVars>>

\* Mutant: /load without the already_loaded return.
LoadAgain(c) ==
  /\ Record("lifecycle", ~NoCall)
  /\ call[c] = "idle"
  /\ config # None
  /\ call' = [call EXCEPT ![c] = "loading"]
  /\ built' = [built EXCEPT ![c] = config]
  /\ UNCHANGED <<sharedVars, target, usable, loop, genVars>>

Load(c) ==
  /\ Record("lifecycle", ~NoCall)
  /\ call[c] = "idle"
  /\ config # None
  /\ ~Loaded
  /\ call' = [call EXCEPT ![c] = "loading"]
  /\ built' = [built EXCEPT ![c] = config]
  /\ UNCHANGED <<sharedVars, target, usable, loop, genVars>>

LoadFails(c) ==
  /\ call[c] = "loading"
  /\ call' = [call EXCEPT ![c] = "returned"]
  /\ UNCHANGED <<sharedVars, target, built, usable, loop, genVars, overlapped>>

LoadReturns(c) ==
  /\ call[c] = "loading"
  /\ call' = [call EXCEPT ![c] = "returned"]
  /\ usable' = usable \cup {c}
  /\ loop' = [loop EXCEPT ![c] = "running"]
  /\ model' = c
  /\ recvTask' = c
  /\ dispatcher' = IF built[c] \in EntryConfigs THEN c ELSE None
  /\ UNCHANGED <<config, flag, target, built, genVars, overlapped>>

\* From the join of the receive loop to the next await, or to the end.
FreeModel(c) ==
  /\ recvTask' = None
  /\ dispatcher' = None
  /\ \/ /\ model # None
        /\ call' = [call EXCEPT ![c] = "freeing"]
        /\ target' = [target EXCEPT ![c] = model]
        /\ UNCHANGED flag
     \/ /\ model = None
        /\ call' = [call EXCEPT ![c] = "returned"]
        /\ flag' = FALSE
        /\ UNCHANGED target

\* Mutant: /unload without cancelling the receive loop.
UnloadOnlyModel(c) ==
  /\ RecordUnload
  /\ call[c] = "idle"
  /\ FreeModel(c)
  /\ UNCHANGED <<config, model, built, usable, loop, genVars>>

\* Awaiting a task that has ended does not suspend the handler.
Unload(c) ==
  /\ RecordUnload
  /\ call[c] = "idle"
  /\ \/ /\ recvTask # None
        /\ loop[recvTask] # "ended"
        /\ loop' = [loop EXCEPT ![recvTask] = "cancelled"]
        /\ call' = [call EXCEPT ![c] = "joining"]
        /\ target' = [target EXCEPT ![c] = recvTask]
        /\ UNCHANGED <<recvTask, dispatcher, flag>>
     \/ /\ recvTask # None => loop[recvTask] = "ended"
        /\ FreeModel(c)
        /\ UNCHANGED loop
  /\ UNCHANGED <<config, model, built, usable, genVars>>

\* The cancelled loop handles its CancelledError; exit_loop clears its caches.
LoopEnds(l) ==
  /\ loop[l] = "cancelled"
  /\ loop' = [loop EXCEPT ![l] = "ended"]
  /\ UNCHANGED <<sharedVars, call, target, built, usable, genVars, overlapped>>

UnloadJoined(c) ==
  /\ call[c] = "joining"
  /\ loop[target[c]] = "ended"
  /\ FreeModel(c)
  /\ UNCHANGED <<config, model, built, usable, loop, genVars, overlapped>>

\* SplitModel.unload in its thread; an exception in it is logged only.
ModelFreed(c) ==
  /\ call[c] = "freeing"
  /\ call' = [call EXCEPT ![c] = "freed"]
  /\ usable' \in {usable, usable \ {target[c]}}
  /\ UNCHANGED <<sharedVars, target, built, loop, genVars, overlapped>>

\* Mutant: s.model is cleared only when the model could be freed.
UnloadKeepsModel(c) ==
  /\ call[c] = "freed"
  /\ call' = [call EXCEPT ![c] = "returned"]
  /\ model' = IF target[c] \in usable THEN model ELSE None
  /\ flag' = FALSE
  /\ UNCHANGED <<config, recvTask, dispatcher, target, built, usable, loop, genVars, overlapped>>

UnloadReturns(c) ==
  /\ call[c] = "freed"
  /\ call' = [call EXCEPT ![c] = "returned"]
  /\ model' = None
  /\ flag' = FALSE
  /\ UNCHANGED <<config, recvTask, dispatcher, target, built, usable, loop, genVars, overlapped>>

-----------------------------------------------------------------------------
(* /generate and /generate/stream.                                         *)

\* Mutant: the handlers do not look at gen_in_flight.
AcceptsBusy == Loaded /\ config \in EntryConfigs /\ dispatcher # None

\* The checks both handlers make before they set the flag.
Accepts ==
  /\ Loaded
  /\ config \in EntryConfigs
  /\ dispatcher # None
  /\ ~flag

\* entry_generate_iter refuses a model that is not a loaded entry model, and
\* fails without a dispatcher.
CanRun == Loaded /\ built[model] \in EntryConfigs /\ dispatcher # None

Generate(g) ==
  /\ Record("generation", ~NoUnload)
  /\ gen[g] = "idle"
  /\ Accepts
  /\ CanRun
  /\ flag' = TRUE
  /\ gen' = [gen EXCEPT ![g] = "running"]
  /\ ranOn' = [ranOn EXCEPT ![g] = model]
  /\ UNCHANGED <<config, model, recvTask, dispatcher, callVars>>

\* The response object exists; its body has not been iterated yet.
GenerateStream(g) ==
  /\ Record("generation", ~NoUnload)
  /\ gen[g] = "idle"
  /\ Accepts
  /\ flag' = TRUE
  /\ gen' = [gen EXCEPT ![g] = "created"]
  /\ UNCHANGED <<config, model, recvTask, dispatcher, callVars, ranOn>>

\* event_stream looks s.model and s.dispatcher up again when it starts.
StreamStarts(g) ==
  /\ gen[g] = "created"
  /\ \/ /\ CanRun
        /\ gen' = [gen EXCEPT ![g] = "running"]
        /\ ranOn' = [ranOn EXCEPT ![g] = model]
        /\ UNCHANGED flag
     \/ /\ ~CanRun
        /\ gen' = [gen EXCEPT ![g] = "ended"]
        /\ flag' = FALSE
        /\ UNCHANGED ranOn
  /\ UNCHANGED <<config, model, recvTask, dispatcher, callVars, overlapped>>

\* A generator that was never started does not run its finally block.
StreamAbandoned(g) ==
  /\ Record("abandon", TRUE)
  /\ gen[g] = "created"
  /\ gen' = [gen EXCEPT ![g] = "ended"]
  /\ UNCHANGED <<sharedVars, callVars, ranOn>>

\* Mutant: a generation without the finally block.
GenerationEndsBusy(g) ==
  /\ gen[g] = "running"
  /\ gen' = [gen EXCEPT ![g] = "ended"]
  /\ UNCHANGED <<sharedVars, callVars, ranOn, overlapped>>

\* Success, failure, timeout and cancellation all run the finally block.
GenerationEnds(g) ==
  /\ gen[g] = "running"
  /\ gen' = [gen EXCEPT ![g] = "ended"]
  /\ flag' = FALSE
  /\ UNCHANGED <<config, model, recvTask, dispatcher, callVars, ranOn, overlapped>>

-----------------------------------------------------------------------------
Next ==
  \/ \E cfg \in Configs : Configure(cfg)
  \/ \E c \in Calls :
       \/ Load(c)
       \/ LoadFails(c)
       \/ LoadReturns(c)
       \/ Unload(c)
       \/ LoopEnds(c)
       \/ UnloadJoined(c)
       \/ ModelFreed(c)
       \/ UnloadReturns(c)
  \/ \E g \in Gens :
       \/ Generate(g)
       \/ GenerateStream(g)
       \/ StreamStarts(g)
       \/ StreamAbandoned(g)
       \/ GenerationEnds(g)

Spec == Init /\ [][Next]_vars

\* A handler that was started goes on: threads return, a cancelled task runs
\* its handler, a response is streamed, and a generation ends (TokenLoop).
Fairness ==
  /\ \A c \in Calls :
       /\ WF_vars(LoadReturns(c))
       /\ WF_vars(LoopEnds(c))
       /\ WF_vars(UnloadJoined(c) \/ ModelFreed(c) \/ UnloadReturns(c))
  /\ \A g \in Gens : WF_vars(StreamStarts(g) \/ GenerationEnds(g))

FairSpec == Spec /\ Fairness
-----------------------------------------------------------------------------
(* What must hold.                                                         *)

\* A generation that the loaded model is serving.
Served(g) == gen[g] = "running" /\ ranOn[g] = model

\* README.md, "Honest limits": a single generation is in flight per pool.
\* gen_in_flight, checked and set before the first await, is what ensures it.
SingleInFlight == \A g, h \in Gens : Served(g) /\ Served(h) => g = h

\* It does as long as no /unload has overlapped with a generation.
SingleUnlessUnloaded == "generation" \notin overlapped => SingleInFlight

\* Whether lifecycle calls have been made one at a time so far, as the handlers
\* of one pool in the orchestrator make them when they are not called at once.
Serial == "lifecycle" \notin overlapped

\* However calls overlap, a worker that says it is loaded while no /unload is
\* under way can serve: the receive loop of this very model runs and is the
\* one the next /unload will stop, and an entry model has its dispatcher.
LoadedServes ==
  Loaded /\ NoUnload =>
    /\ recvTask = model
    /\ loop[model] = "running"
    /\ dispatcher = IF built[model] \in EntryConfigs THEN model ELSE None

\* At most one receive loop polls AXL, and it is the one /unload will stop: a
\* second one would take frames away from the first.
NoStrayLoop ==
  Serial => \A l \in Calls : loop[l] = "running" => l = recvTask

\* README.md: the KV caches are dropped on unload.  They live in exit_loop, so
\* a worker at rest without a model must have no exit_loop either.
UnloadDropsCaches ==
  Serial /\ NoCall /\ model = None =>
    \A l \in Calls : loop[l] = "running" => built[l] \notin ExitConfigs

\* "model already loaded; unload before reconfiguring" (configure): what /info
\* reports of a loaded worker is what its model was built with.
ConfiguredAsLoaded == Serial /\ model # None => config = built[model]

\* A generation runs on the model that was loaded when it was accepted, or
\* that model has been unloaded since: no other model replaces it under it.
ModelNotReplaced ==
  [][Serial' => \A g \in Gens :
       gen[g] = "running" /\ ranOn[g] = model => model' \in {model, None}]_vars

\* The worker does not stay busy: gen_in_flight is cleared again, unless a
\* client was gone before its stream had started.
BusyEnds == flag ~> (~flag \/ "abandon" \in overlapped)
=============================================================================
