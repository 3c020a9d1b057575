------------------------------- MODULE Router -------------------------------
(***************************************************************************)
(* The router (cmd/router, internal/router): workload classification and   *)
(* the selection of a worker with its 30 second cache, over the            *)
(* orchestrator's registry, which others change meanwhile.                 *)
(*                                                                         *)
(* Handlers of concurrent requests interleave; one step is one call to     *)
(* the orchestrator or one operation on the cache.  The age of a cache     *)
(* entry is counted in ticks.                                              *)
(***************************************************************************)
EXTENDS WorkerRegistry, Naturals, FiniteSets

CONSTANTS
  Request,    \* requests in flight at the same time
  Tenant,     \* tenants
  EngineOf,   \* EngineOf[w]: the engine inferred from the id of w
  TTL         \* ticks a selection stays in the cache

GPUProfile == {GPUType[w] : w \in WorkerID}

ASSUME RouterAssumption ==
  /\ IsFiniteSet(Request) /\ TTL \in Nat \ {0} /\ Tenant # {} /\ WorkerID # {}
  /\ EngineOf \in [WorkerID -> {"vllm", "sglang", "tensorrt", "llamacpp"}]

VARIABLES
  cache,      \* cache[n][g]: the selection cached for tenant n and profile g
  req         \* the requests

routerVars == <<cache, req>>
vars == <<registryVars, routerVars>>

None == [none |-> TRUE]
Key  == Tenant \X GPUProfile

Selection == [worker : WorkerID, fallback : BOOLEAN]

NoRequest == [pc |-> "free", key |-> CHOOSE k \in Key : TRUE, engine |-> "vllm", idle |-> {},
              answer |-> None, hit |-> FALSE]

TypeOK ==
  /\ RegistryTypeOK
  /\ cache \in [Key -> [selection : Selection, age : 0..(TTL - 1)] \cup {None}]
  /\ req \in [Request -> [pc : {"free", "fetch", "select", "pick", "done"}, key : Key,
                          engine : {"vllm", "sglang"}, idle : SUBSET WorkerID,
                          answer : Selection \cup {None}, hit : BOOLEAN]]

Init ==
  /\ NewWorkerRegistry
  /\ cache = [k \in Key |-> None]
  /\ req = [r \in Request |-> NoRequest]

-----------------------------------------------------------------------------
(* Classification.                                                         *)

\* Workloads on both sides of every threshold; the ratio is in percent.
Input == [toolCalls : BOOLEAN, structuredOutput : BOOLEAN, sharedPrefixRatio : {40, 41},
          promptTokens : {1024, 1025}, outputTokens : {512, 513}, concurrency : {50, 51}]

Classify(i) ==
  CASE i.toolCalls \/ i.structuredOutput -> [type |-> "agent", engine |-> "sglang"]
    [] ~(i.toolCalls \/ i.structuredOutput) /\ i.sharedPrefixRatio > 40 ->
         [type |-> "rag", engine |-> "sglang"]
    [] OTHER ->
         [type   |-> IF i.promptTokens > 1024 \/ i.outputTokens > 512 \/ i.concurrency > 50
                     THEN "batch" ELSE "chat",
          engine |-> "vllm"]

-----------------------------------------------------------------------------
(* The registry, as the orchestrator and the workers change it.            *)

RegistryStep ==
  /\ \E w \in WorkerID :
       \/ Register(w)
       \/ Heartbeat(w)
       \/ \E j \in Job : status[w] = "idle" /\ MarkBusy(w, j)
       \/ status[w] = "busy" /\ MarkIdle(w)
       \/ EvictStale({w})
  /\ UNCHANGED routerVars

-----------------------------------------------------------------------------
(* routeHandler.                                                           *)

\* The request is decoded and classified.
Receive(r, k, i) ==
  /\ req[r].pc = "free"
  /\ req' = [req EXCEPT ![r] = [NoRequest EXCEPT !.pc = "fetch", !.key = k,
                                                 !.engine = Classify(i).engine]]
  /\ UNCHANGED <<registryVars, cache>>

\* fetchWorkerStatus: the orchestrator lists its workers.
Fetch(r) ==
  /\ req[r].pc = "fetch"
  /\ req' = [req EXCEPT ![r].pc = "select", ![r].idle = {w \in WorkerID : status[w] = "idle"}]
  /\ UNCHANGED <<registryVars, cache>>

\* It fails, or times out after 10 seconds: 500.
FetchFails(r) ==
  /\ req[r].pc = "fetch"
  /\ req' = [req EXCEPT ![r] = NoRequest]
  /\ UNCHANGED <<registryVars, cache>>

\* The key of the cache: tenant and GPU profile.
CacheKey(k) == k

\* Mutant: a hit is a use, and keeps the entry.
SelectCachedSliding(r) ==
  LET k == CacheKey(req[r].key) IN
  /\ req[r].pc = "select" /\ cache[k] # None
  /\ req' = [req EXCEPT ![r].pc = "done", ![r].answer = cache[k].selection, ![r].hit = TRUE,
                        ![r].idle = {}]
  /\ cache' = [cache EXCEPT ![k].age = 0]
  /\ UNCHANGED registryVars

\* Select finds the key in the cache: the selection is the answer as it is.
SelectCached(r) ==
  LET k == CacheKey(req[r].key) IN
  /\ req[r].pc = "select" /\ cache[k] # None
  /\ req' = [req EXCEPT ![r].pc = "done", ![r].answer = cache[k].selection, ![r].hit = TRUE,
                        ![r].idle = {}]
  /\ UNCHANGED <<registryVars, cache>>

\* The idle workers of the profile, and those among them with the recommended engine.
Fitting(r)     == {w \in req[r].idle : GPUType[w] = req[r].key[2]}
Recommended(r) == {w \in Fitting(r) : EngineOf[w] = req[r].engine}

\* Mutant: the first idle worker of the profile is taken.
CandidatesAny(r) == Fitting(r)

\* The workers Select may take: the order of the list is random.
Candidates(r) == IF Recommended(r) # {} THEN Recommended(r) ELSE Fitting(r)

\* Select does not find it.  A miss is always possible: ristretto applies a Set some time later.
SelectMisses(r) ==
  /\ req[r].pc = "select"
  /\ req' = [req EXCEPT ![r].pc = "pick"]
  /\ UNCHANGED <<registryVars, cache>>

\* Select looks through the list it was given, and caches what it finds over what another request
\* may have cached meanwhile; the cache may drop it.
SelectFresh(r) ==
  LET k == CacheKey(req[r].key) IN
  /\ req[r].pc = "pick"
  /\ \E w \in Candidates(r) :
       LET s == [worker |-> w, fallback |-> EngineOf[w] # req[r].engine] IN
       /\ req' = [req EXCEPT ![r].pc = "done", ![r].answer = s]
       /\ cache' \in {cache, [cache EXCEPT ![k] = [selection |-> s, age |-> 0]]}
  /\ UNCHANGED registryVars

\* ErrNoWorkerAvailable: 503.
SelectNone(r) ==
  /\ req[r].pc = "pick" /\ Candidates(r) = {}
  /\ req' = [req EXCEPT ![r] = NoRequest]
  /\ UNCHANGED <<registryVars, cache>>

Respond(r) ==
  /\ req[r].pc = "done"
  /\ req' = [req EXCEPT ![r] = NoRequest]
  /\ UNCHANGED <<registryVars, cache>>

\* Time passes: entries that reach the TTL leave the cache.
Tick ==
  /\ \E k \in Key : cache[k] # None
  /\ cache' = [k \in Key |->
                 IF cache[k] = None \/ cache[k].age = TTL - 1 THEN None
                 ELSE [cache[k] EXCEPT !.age = @ + 1]]
  /\ UNCHANGED <<registryVars, req>>

-----------------------------------------------------------------------------
Handle(r) == \/ Fetch(r) \/ FetchFails(r) \/ SelectCached(r) \/ SelectMisses(r)
             \/ SelectFresh(r) \/ SelectNone(r) \/ Respond(r)

Next ==
  \/ RegistryStep \/ Tick
  \/ \E r \in Request : Handle(r) \/ \E k \in Key, i \in Input : Receive(r, k, i)

Spec == Init /\ [][Next]_vars

\* Time passes and handlers run to their end.
FairSpec == Spec /\ WF_vars(Tick) /\ \A r \in Request : WF_vars(Handle(r))

-----------------------------------------------------------------------------
\* Whatever is cached for others, a request is answered with a worker of its own GPU profile.
\* And a fallback is a last resort: a worker with another engine than the recommended one is
\* selected, and said to be a fallback, only if no idle worker had that engine when the
\* orchestrator was asked.  (A cached answer may have been right for another workload.)
AnswerIsRight ==
  \A r \in Request : req[r].pc = "done" =>
    LET w == req[r].answer.worker
        g == req[r].key[2]
        best == {v \in req[r].idle : EngineOf[v] = req[r].engine /\ GPUType[v] = g}
    IN  /\ GPUType[w] = g
        /\ ~req[r].hit => /\ w \in req[r].idle
                          /\ req[r].answer.fallback <=> (best = {})
                          /\ best # {} => w \in best

\* A worker that is never idle again is not selected for ever: neither an outdated list nor the
\* cache keeps it alive, however many requests hit it.
GoneWorkerIsForgotten ==
  \A w \in WorkerID :
    <>[](status[w] # "idle") =>
      <>[](\A r \in Request : req[r].pc = "done" => req[r].answer.worker # w)

-----------------------------------------------------------------------------
(* The inductive invariant behind the theorems of RouterProofs.            *)

\* A cached selection is a worker of the profile it is cached for.
CacheFits == \A k \in Key : cache[k] # None => GPUType[cache[k].selection.worker] = k[2]

RouterInv == TypeOK /\ CacheFits /\ AnswerIsRight
=============================================================================
