---------------------------- MODULE RouterProofs ----------------------------
(***************************************************************************)
(* Proofs, for any number of requests, tenants and workers and any TTL,    *)
(* that the router answers with a worker of the profile it was asked for   *)
(* and falls back to another engine only as a last resort.                 *)
(*                                                                         *)
(* RouterInv is inductive.  An answer from the cache was computed for      *)
(* another request, so the cache has to be right by itself: CacheFits.     *)
(***************************************************************************)
EXTENDS Router, TLAPS

\* What a request is, as TypeOK has it.
RequestRecord ==
  [pc : {"free", "fetch", "select", "pick", "done"}, key : Key, engine : {"vllm", "sglang"},
   idle : SUBSET WorkerID, answer : Selection \cup {None}, hit : BOOLEAN]

Entry == [selection : Selection, age : 0..(TTL - 1)]

LEMMA NoRequestType == NoRequest \in RequestRecord
<1>1. PICK n \in Tenant, w \in WorkerID : TRUE
  BY RouterAssumption
<1>2. <<n, GPUType[w]>> \in Key
  BY DEF Key, GPUProfile
<1>3. (CHOOSE k \in Key : TRUE) \in Key
  BY <1>2
<1> QED
  BY <1>3 DEF NoRequest, RequestRecord

\* None is not an entry of the cache.
LEMMA NoneIsNoEntry == None \notin Entry
BY DEF None, Entry

\* The recommended engine is one of the two that Classify knows.
LEMMA ClassifyEngine ==
  ASSUME NEW i \in Input
  PROVE  Classify(i).engine \in {"vllm", "sglang"}
BY DEF Classify, Input

\* What is right about one answer.
Right(q) ==
  LET w == q.answer.worker
      g == q.key[2]
      best == {v \in q.idle : EngineOf[v] = q.engine /\ GPUType[v] = g}
  IN  /\ GPUType[w] = g
      /\ ~q.hit => /\ w \in q.idle
                   /\ q.answer.fallback <=> (best = {})
                   /\ best # {} => w \in best

\* The answers stay right when one request changes and its answer, if it has one, is right.
LEMMA AnswersFrame ==
  ASSUME AnswerIsRight, NEW r \in Request, NEW q, q.pc = "done" => Right(q),
         \A x \in Request : req'[x] = IF x = r THEN q ELSE req[x]
  PROVE  AnswerIsRight'
BY DEF AnswerIsRight, Right

\* A step of the handler of r: the invariant is kept if the new record of r is typed and right.
LEMMA HandlerFrame ==
  ASSUME RouterInv, UNCHANGED <<registryVars, cache>>, NEW r \in Request,
         NEW q \in RequestRecord, req' = [req EXCEPT ![r] = q], q.pc = "done" => Right(q)
  PROVE  RouterInv'
<1> USE DEF RouterInv
<1>1. TypeOK'
  BY DEF TypeOK, RegistryTypeOK, registryVars, RequestRecord
<1>2. \A s \in Request : req'[s] = IF s = r THEN q ELSE req[s]
  BY DEF TypeOK
<1>3. AnswerIsRight'
  BY <1>2, AnswersFrame
<1> QED
  BY <1>1, <1>3 DEF CacheFits

\* The request comes in, is refused or is answered.
LEMMA ReceivePreserves ==
  ASSUME RouterInv, NEW r \in Request, NEW k \in Key, NEW i \in Input, Receive(r, k, i)
  PROVE  RouterInv'
<1> DEFINE q == [NoRequest EXCEPT !.pc = "fetch", !.key = k, !.engine = Classify(i).engine]
<1>1. q \in RequestRecord /\ q.pc = "fetch"
  BY NoRequestType, ClassifyEngine DEF RequestRecord
<1> QED
  BY <1>1, HandlerFrame DEF Receive

LEMMA ReleasePreserves ==
  ASSUME RouterInv, NEW r \in Request, FetchFails(r) \/ SelectNone(r) \/ Respond(r)
  PROVE  RouterInv'
<1>1. req' = [req EXCEPT ![r] = NoRequest] /\ UNCHANGED <<registryVars, cache>>
  BY DEF FetchFails, SelectNone, Respond
<1>2. NoRequest.pc # "done"
  BY DEF NoRequest
<1> QED
  BY <1>1, <1>2, NoRequestType, HandlerFrame

LEMMA FetchPreserves ==
  ASSUME RouterInv, NEW r \in Request, Fetch(r)
  PROVE  RouterInv'
<1> DEFINE q == [req[r] EXCEPT !.pc = "select", !.idle = {w \in WorkerID : status[w] = "idle"}]
<1>1. q \in RequestRecord /\ q.pc = "select"
  BY DEF RouterInv, TypeOK, RequestRecord
<1>2. req' = [req EXCEPT ![r] = q]
  BY DEF Fetch, RouterInv, TypeOK
<1> QED
  BY <1>1, <1>2, HandlerFrame DEF Fetch

LEMMA SelectMissesPreserves ==
  ASSUME RouterInv, NEW r \in Request, SelectMisses(r)
  PROVE  RouterInv'
<1> DEFINE q == [req[r] EXCEPT !.pc = "pick"]
<1>1. q \in RequestRecord /\ q.pc = "pick"
  BY DEF RouterInv, TypeOK, RequestRecord
<1>2. req' = [req EXCEPT ![r] = q]
  BY DEF SelectMisses, RouterInv, TypeOK
<1> QED
  BY <1>1, <1>2, HandlerFrame DEF SelectMisses

\* A hit: the entry fits, whoever put it there.
LEMMA SelectCachedPreserves ==
  ASSUME RouterInv, NEW r \in Request, SelectCached(r)
  PROVE  RouterInv'
<1> USE DEF RouterInv, CacheKey
<1> DEFINE k == req[r].key
           q == [req[r] EXCEPT !.pc = "done", !.answer = cache[k].selection, !.hit = TRUE,
                               !.idle = {}]
<1>1. k \in Key /\ req[r] \in RequestRecord
  BY DEF TypeOK, RequestRecord
<1>2. cache[k] \in Entry /\ GPUType[cache[k].selection.worker] = k[2]
  BY <1>1 DEF TypeOK, SelectCached, CacheFits, Entry
<1>3. q \in RequestRecord /\ q.answer = cache[k].selection /\ q.hit = TRUE /\ q.key = k
  BY <1>1, <1>2 DEF RequestRecord, Entry
<1>4. req' = [req EXCEPT ![r] = q]
  BY DEF SelectCached, TypeOK
<1> QED
  <2>1. Right(q)
    BY <1>2, <1>3 DEF Right
  <2> HIDE DEF q
  <2> QED
    BY <1>3, <1>4, <2>1, HandlerFrame DEF SelectCached

\* A selection from the list: it is among the recommended ones if there are any.
LEMMA CandidateIsRight ==
  ASSUME RouterInv, NEW r \in Request, NEW w \in Candidates(r)
  PROVE  /\ w \in req[r].idle /\ GPUType[w] = req[r].key[2]
         /\ EngineOf[w] # req[r].engine <=> Recommended(r) = {}
         /\ Recommended(r) # {} => w \in Recommended(r)
BY DEF Candidates, Recommended, Fitting

LEMMA SelectFreshPreserves ==
  ASSUME RouterInv, NEW r \in Request, SelectFresh(r)
  PROVE  RouterInv'
<1> USE DEF RouterInv, CacheKey
<1>1. PICK w \in Candidates(r) :
        LET s == [worker |-> w, fallback |-> EngineOf[w] # req[r].engine] IN
        /\ req' = [req EXCEPT ![r].pc = "done", ![r].answer = s]
        /\ cache' \in {cache, [cache EXCEPT ![req[r].key] = [selection |-> s, age |-> 0]]}
  BY DEF SelectFresh
<1> DEFINE k == req[r].key
           s == [worker |-> w, fallback |-> EngineOf[w] # req[r].engine]
           q == [req[r] EXCEPT !.pc = "done", !.answer = s]
           e == [selection |-> s, age |-> 0]
<1>2. k \in Key /\ req[r] \in RequestRecord /\ req[r].idle \subseteq WorkerID
  BY DEF TypeOK, RequestRecord
<1>3. /\ w \in req[r].idle /\ GPUType[w] = k[2]
      /\ EngineOf[w] # req[r].engine <=> Recommended(r) = {}
      /\ Recommended(r) # {} => w \in Recommended(r)
  BY CandidateIsRight
<1>4. s \in Selection
  BY <1>2, <1>3 DEF Selection
<1>5. q \in RequestRecord
  BY <1>2, <1>4 DEF RequestRecord
<1>6. /\ q.key = k /\ q.answer = s /\ q.idle = req[r].idle /\ q.engine = req[r].engine
  BY <1>2 DEF RequestRecord
<1>7. Right(q)
  <2>1. {v \in q.idle : EngineOf[v] = q.engine /\ GPUType[v] = q.key[2]} = Recommended(r)
    BY <1>6 DEF Recommended, Fitting
  <2>2. q.answer.worker = w /\ q.answer.fallback = (EngineOf[w] # req[r].engine)
    BY <1>6
  <2> QED
    BY <1>3, <1>6, <2>1, <2>2 DEF Right
<1>8. req' = [req EXCEPT ![r] = q]
  BY <1>1 DEF TypeOK
<1>9. e \in Entry /\ e.selection.worker = w
  BY <1>4, RouterAssumption DEF Entry
<1>10. \A n \in Key : cache'[n] = cache[n] \/ (n = k /\ cache'[n] = e)
  BY <1>1, <1>2 DEF TypeOK
<1>11. cache' \in [Key -> Entry \cup {None}]
  BY <1>1, <1>2, <1>9 DEF TypeOK, Entry
<1>12. CacheFits'
  BY <1>3, <1>9, <1>10 DEF CacheFits
<1>13. \A x \in Request : req'[x] = IF x = r THEN q ELSE req[x]
  BY <1>8 DEF TypeOK
<1>14. AnswerIsRight'
  <2> HIDE DEF q
  <2> QED
    BY <1>7, <1>13, AnswersFrame
<1>15. TypeOK'
  BY <1>5, <1>8, <1>11 DEF TypeOK, RegistryTypeOK, registryVars, SelectFresh, RequestRecord, Entry
<1> QED
  BY <1>12, <1>14, <1>15

\* Entries only grow older or leave.
LEMMA TickPreserves ==
  ASSUME RouterInv, Tick
  PROVE  RouterInv'
<1> USE DEF RouterInv
<1>1. \A k \in Key : \/ cache'[k] = None
                     \/ /\ cache[k] \in Entry /\ cache'[k] \in Entry
                        /\ cache'[k].selection = cache[k].selection
  <2> SUFFICES ASSUME NEW k \in Key, cache'[k] # None
               PROVE  /\ cache[k] \in Entry /\ cache'[k] \in Entry
                      /\ cache'[k].selection = cache[k].selection
    OBVIOUS
  <2>1. cache[k] # None /\ cache[k].age # TTL - 1 /\ cache'[k] = [cache[k] EXCEPT !.age = @ + 1]
    BY DEF Tick
  <2>2. cache[k] \in Entry
    BY <2>1 DEF TypeOK, Entry
  <2> QED
    BY <2>1, <2>2, RouterAssumption DEF Entry
<1>2. cache' \in [Key -> Entry \cup {None}]
  BY <1>1 DEF Tick
<1>3. CacheFits'
  BY <1>1, NoneIsNoEntry DEF CacheFits
<1>4. TypeOK'
  BY <1>2 DEF Tick, TypeOK, RegistryTypeOK, registryVars, Entry
<1>5. AnswerIsRight'
  BY DEF Tick, AnswerIsRight
<1> QED
  BY <1>3, <1>4, <1>5

\* The registry moves by itself: an answer is about the list that was fetched.
LEMMA RegistryPreserves ==
  ASSUME RouterInv, RegistryStep
  PROVE  RouterInv'
<1> USE DEF RouterInv
<1>1. PICK w \in WorkerID :
        \/ Register(w) \/ Heartbeat(w)
        \/ \E j \in Job : status[w] = "idle" /\ MarkBusy(w, j)
        \/ status[w] = "busy" /\ MarkIdle(w)
        \/ EvictStale({w})
  BY DEF RegistryStep
<1>2. UNCHANGED routerVars
  BY DEF RegistryStep
<1>3. RegistryTypeOK'
  BY <1>1 DEF TypeOK, RegistryTypeOK, WorkerStatus, Register, Heartbeat, MarkBusy, MarkIdle,
              EvictStale, registryVars
<1> QED
  BY <1>2, <1>3 DEF TypeOK, CacheFits, AnswerIsRight, routerVars

-----------------------------------------------------------------------------
\* RouterInv is an invariant, whatever the registry does meanwhile.
THEOREM RouterInvariance == Spec => []RouterInv
<1>1. Init => RouterInv
  <2> SUFFICES ASSUME Init PROVE RouterInv
    OBVIOUS
  <2>1. RegistryTypeOK
    BY DEF Init, NewWorkerRegistry, RegistryTypeOK, WorkerStatus
  <2>2. TypeOK
    BY <2>1, NoRequestType DEF Init, TypeOK, RequestRecord
  <2>3. \A r \in Request : req[r].pc = "free"
    BY DEF Init, NoRequest
  <2> QED
    BY <2>2, <2>3 DEF Init, RouterInv, CacheFits, AnswerIsRight
<1>2. RouterInv /\ [Next]_vars => RouterInv'
  <2> SUFFICES ASSUME RouterInv, [Next]_vars PROVE RouterInv'
    OBVIOUS
  <2>1. CASE RegistryStep
    BY <2>1, RegistryPreserves
  <2>2. CASE Tick
    BY <2>2, TickPreserves
  <2>3. ASSUME NEW r \in Request, Handle(r) PROVE RouterInv'
    BY <2>3, FetchPreserves, ReleasePreserves, SelectCachedPreserves,
       SelectMissesPreserves, SelectFreshPreserves
       DEF Handle
  <2>4. ASSUME NEW r \in Request, NEW k \in Key, NEW i \in Input, Receive(r, k, i)
        PROVE  RouterInv'
    BY <2>4, ReceivePreserves
  <2>5. CASE UNCHANGED vars
    BY <2>5 DEF vars, registryVars, routerVars, RouterInv, TypeOK, RegistryTypeOK, CacheFits,
                AnswerIsRight
  <2> QED
    BY <2>1, <2>2, <2>3, <2>4, <2>5 DEF Next
<1> QED
  BY <1>1, <1>2, PTL DEF Spec

\* Select: the worker of an answer has the profile that was asked for, and a fallback is given
\* only if the orchestrator listed no idle worker with the recommended engine.
THEOREM AnswersAreRight == Spec => []AnswerIsRight
<1>1. RouterInv => AnswerIsRight
  BY DEF RouterInv
<1> QED
  BY <1>1, RouterInvariance, PTL
=============================================================================
