--------------------------- MODULE OperatorProofs ---------------------------
(***************************************************************************)
(* Proofs, for any number of edits, jobs and restarts, that Operator       *)
(* shows the phases of InferencePhases, loses no edit and declares Running *)
(* only what it has deployed, whatever calls fail.                         *)
(*                                                                         *)
(* The argument is optimistic concurrency: a write succeeds only if the    *)
(* copy it was computed from is of the current version.  OperatorInv says  *)
(* that such a copy is the object itself, but for what Reconcile has made  *)
(* of it; once the object has moved on, it says nothing more of the copy.  *)
(***************************************************************************)
EXTENDS Operator, TLAPS

PC    == {"idle", "submit", "check", "results", "update", "deploy", "status"}
Again == {"always", "onError", "never"}

\* OperatorInv in three parts: the API server and the informer cache ...
ServerPart ==
  /\ obj \in Object /\ cache \in Object /\ feed \in Seq(Object)
  /\ CopiesAreVersions

\* ... the work queue, the Deployment and the counters ...
OtherPart ==
  /\ queued \in BOOLEAN
  /\ jobs \in 0..MaxJobs
  /\ deployment \in Deployment \cup {None} /\ dcache \in Deployment \cup {None}
  /\ restarts \in 0..MaxRestarts

\* ... and Reconcile with its copy.
ReconcilePart ==
  /\ mem \in Object \cup {None} /\ pc \in PC /\ again \in Again
  /\ (pc = "idle") <=> (mem = None)
  /\ pc # "idle" => mem.rv <= obj.rv
  /\ CurrentCopyIsSound /\ StepIsDue /\ RunningIsDeployed

LEMMA Parts == OperatorInv <=> ServerPart /\ OtherPart /\ ReconcilePart
BY DEF OperatorInv, TypeOK, ServerPart, OtherPart, ReconcilePart, PC, Again

LEMMA PartsAfter ==
  ASSUME ServerPart', OtherPart', ReconcilePart'
  PROVE  OperatorInv'
BY Parts, PTL

LEMMA NoneIsNoObject == None \notin Object
<1> SUFFICES ASSUME None \in Object PROVE FALSE
  OBVIOUS
<1>1. DOMAIN None = {"none"}
  BY DEF None
<1>2. "phase" \in DOMAIN None
  BY DEF Object
<1> QED
  BY <1>1, <1>2

-----------------------------------------------------------------------------
(* The API server.                                                         *)

\* Jobs are only added, so that what was an object stays one.
LEMMA ObjectsStay ==
  ASSUME jobs \in Nat, jobs' \in Nat, jobs <= jobs'
  PROVE  Object \subseteq Object'
<1>1. 0..jobs \subseteq 0..jobs'
  OBVIOUS
<1> QED
  BY <1>1 DEF Object

\* A server that is left alone.
LEMMA ServerIdle ==
  ASSUME ServerPart, OtherPart, UNCHANGED <<serverVars, cache>>,
         jobs' \in Nat, jobs <= jobs'
  PROVE  ServerPart'
<1>1. Object \subseteq Object'
  BY ObjectsStay DEF OtherPart
<1>2. Seq(Object) \subseteq Seq(Object')
  BY <1>1
<1> QED
  BY <1>1, <1>2 DEF ServerPart, CopiesAreVersions, IsVersion, serverVars

\* What a write makes of the object.
Written(o) ==
  \/ obj' = obj
  \/ /\ obj'.rv = obj.rv + 1
     /\ obj'.phase = o.phase /\ obj'.job = o.job
     /\ obj'.edition = o.edition /\ obj'.auto = o.auto /\ obj'.tuned = o.tuned

LEMMA NextVersion ==
  ASSUME NEW o \in Object
  PROVE  /\ o.rv \in Nat
         /\ [o EXCEPT !.rv = @ + 1] \in Object
<1>1. o.rv \in Nat /\ o.rv + 1 \in Nat
  BY DEF Object
<1>2. \A n \in Nat : [o EXCEPT !.rv = n] \in Object
  BY DEF Object
<1> QED
  BY <1>1, <1>2

\* A write of an object of the current version leaves it or makes one new version.
LEMMA ApplyEffect ==
  ASSUME ServerPart, NEW o \in Object, o.rv = obj.rv, Apply(o), UNCHANGED <<cache, jobs>>
  PROVE  /\ ServerPart'
         /\ Written(o)
         /\ o = obj => obj' = obj
         /\ o # obj => obj'.rv = obj.rv + 1
<1> USE DEF ServerPart
<1>0. Object' = Object
  BY DEF Object
<1>1. CASE o = obj
  <2>1. UNCHANGED serverVars
    BY <1>1 DEF Apply
  <2> QED
    BY <1>0, <1>1, <2>1 DEF serverVars, Written, CopiesAreVersions, IsVersion
<1>2. CASE o # obj
  <2>1. obj' = [o EXCEPT !.rv = @ + 1] /\ feed' = Append(feed, obj')
    BY <1>2 DEF Apply
  <2>2. /\ obj'.rv = obj.rv + 1
        /\ obj'.phase = o.phase /\ obj'.job = o.job
        /\ obj'.edition = o.edition /\ obj'.auto = o.auto /\ obj'.tuned = o.tuned
    BY <2>1 DEF Object
  <2>3. obj.rv \in Nat /\ obj' \in Object
    BY <2>1, NextVersion, Zenon
  <2>4. feed' \in Seq(Object) /\ Len(feed') = Len(feed) + 1
    BY <2>1, <2>3
  <2>5. \A i \in DOMAIN feed' : feed'[i] = obj' \/ (i \in DOMAIN feed /\ feed'[i] = feed[i])
    BY <2>1, <2>3
  <2>6. \A x \in Object : IsVersion(x) => x.rv < obj'.rv
    BY <2>2, <2>3 DEF IsVersion, Object
  <2>7. \A x \in Object : x.rv < obj'.rv => x.rv <= obj'.rv /\ x.rv # obj'.rv
    BY <2>3 DEF Object
  <2>8. cache.rv < obj'.rv /\ \A i \in DOMAIN feed : feed[i].rv < obj'.rv
    BY <2>6 DEF CopiesAreVersions
  <2>9. \A i \in DOMAIN feed' : feed'[i].rv <= obj'.rv /\ (feed'[i].rv = obj'.rv => feed'[i] = obj')
    <3> SUFFICES ASSUME NEW i \in DOMAIN feed', feed'[i] # obj'
                 PROVE  feed'[i].rv <= obj'.rv /\ feed'[i].rv # obj'.rv
      BY <2>3 DEF Object
    <3>1. i \in DOMAIN feed /\ feed'[i] = feed[i]
      BY <2>5
    <3>2. feed[i] \in Object /\ feed[i].rv < obj'.rv
      BY <3>1, <2>8
    <3> QED
      BY <3>1, <3>2, <2>7
  <2>10. CopiesAreVersions'
    <3>1. cache'.rv <= obj'.rv /\ (cache'.rv = obj'.rv => cache' = obj')
      BY <2>7, <2>8
    <3> QED
      BY <3>1, <2>9 DEF CopiesAreVersions, IsVersion
  <2>11. ServerPart'
    BY <1>0, <2>3, <2>4, <2>10
  <2> QED
    BY <1>2, <2>2, <2>11 DEF Written
<1> QED
  BY <1>1, <1>2

-----------------------------------------------------------------------------
(* Reconcile and its copy.                                                 *)

\* Nothing that concerns it happens.
LEMMA CopyLeftAlone ==
  ASSUME ReconcilePart, UNCHANGED <<obj, reconcileVars, deployment>>, Object \subseteq Object'
  PROVE  ReconcilePart'
<1>1. mem' \in Object' \cup {None}
  BY DEF ReconcilePart, reconcileVars, None
<1> QED
  BY <1>1 DEF ReconcilePart, reconcileVars, CurrentCopyIsSound, MayBecome, StepIsDue,
              RunningIsDeployed, Rendered, None

\* Somebody else writes the object: the copy is outdated for good.
LEMMA CopyOvertaken ==
  ASSUME ReconcilePart, obj.rv \in Nat, obj'.rv = obj.rv + 1,
         UNCHANGED <<reconcileVars, jobs, deployment>>
  PROVE  ReconcilePart'
<1>1. Object' = Object
  BY DEF Object
<1>2. mem' \in Object' \cup {None} /\ pc' \in PC /\ again' \in Again
      /\ ((pc' = "idle") <=> (mem' = None))
  BY <1>1 DEF ReconcilePart, reconcileVars, None
<1>3. pc # "idle" => mem.rv \in Nat /\ mem.rv < obj'.rv
  BY DEF ReconcilePart, Object
<1>4. pc' # "idle" => mem'.rv <= obj'.rv /\ mem'.rv # obj'.rv
  BY <1>3 DEF reconcileVars
<1>5. StepIsDue' /\ RunningIsDeployed'
  BY DEF ReconcilePart, StepIsDue, RunningIsDeployed, reconcileVars, Rendered
<1> QED
  BY <1>2, <1>4, <1>5 DEF ReconcilePart, CurrentCopyIsSound

LEMMA Returned ==
  ASSUME pc' = "idle", mem' = None, again' = "always"
  PROVE  ReconcilePart'
BY DEF ReconcilePart, PC, Again, None, CurrentCopyIsSound, StepIsDue, RunningIsDeployed

\* What the copy o must be when Reconcile comes to its status update.
StatusReady(o) ==
  /\ o.rv <= obj.rv
  /\ o.rv = obj.rv => /\ o.edition = obj.edition /\ o.auto = obj.auto /\ o.tuned = obj.tuned
                      /\ MayBecome(obj, o)
  /\ o.phase = "Running" => deployment = Rendered(o)

LEMMA AtStatus ==
  ASSUME mem' \in Object', pc' = "status", again' \in Again, StatusReady(mem)'
  PROVE  ReconcilePart'
<1>1. None \notin Object'
  <2>1. (None \notin Object)'
    BY NoneIsNoObject, PTL
  <2> QED
    BY <2>1 DEF None
<1>2. mem' # None
  BY <1>1
<1> QED
  BY <1>2 DEF ReconcilePart, PC, StatusReady, CurrentCopyIsSound, StepIsDue, RunningIsDeployed

-----------------------------------------------------------------------------
(* The API server, the watches and the user.                               *)

LEMMA EditPreserves ==
  ASSUME OperatorInv, NEW a \in BOOLEAN, Edit(a)
  PROVE  OperatorInv' /\ obj'.edition = obj.edition + 1 /\ obj'.phase = obj.phase /\ obj'.job = obj.job
<1> USE Parts
<1> DEFINE o == [obj EXCEPT !.edition = @ + 1, !.auto = a]
<1>1. /\ obj \in Object /\ obj.edition \in 0..MaxEdits /\ obj.edition < MaxEdits
      /\ obj.rv \in Nat
  BY DEF Edit, ServerPart, Object
<1>2. obj.edition + 1 \in 0..MaxEdits
  BY <1>1, OperatorAssumption
<1>3. /\ o \in Object /\ o.rv = obj.rv /\ o.edition = obj.edition + 1
      /\ o.phase = obj.phase /\ o.job = obj.job
  BY <1>1, <1>2 DEF Object
<1>4. Apply(o) /\ UNCHANGED <<cache, queued, reconcileVars, jobs, deployment, dcache, restarts>>
  BY DEF Edit
<1> HIDE DEF o
<1>5. o # obj
  BY <1>1, <1>3
<1>6. ServerPart' /\ Written(o) /\ obj'.rv = obj.rv + 1
  BY <1>3, <1>4, <1>5, ApplyEffect
<1>7. obj' # obj
  BY <1>1, <1>6
<1>8. ReconcilePart'
  BY <1>1, <1>4, <1>6, CopyOvertaken
<1>9. OtherPart'
  BY <1>4 DEF OtherPart
<1>10. OperatorInv'
  BY <1>6, <1>8, <1>9, PartsAfter
<1> QED
  BY <1>3, <1>6, <1>7, <1>10 DEF Written

LEMMA WatchPreserves ==
  ASSUME OperatorInv, Watch
  PROVE  OperatorInv'
<1> USE Parts
<1>1. /\ feed # << >> /\ cache' = Head(feed) /\ feed' = Tail(feed) /\ queued' = TRUE
      /\ UNCHANGED <<obj, reconcileVars, jobs, deployment, dcache, restarts>>
  BY DEF Watch
<1>2. Object' = Object
  BY <1>1 DEF Object
<1>3. feed \in Seq(Object) /\ 1 \in DOMAIN feed /\ cache' = feed[1]
  BY <1>1 DEF ServerPart
<1>4. \A i \in DOMAIN feed' : i + 1 \in DOMAIN feed /\ feed'[i] = feed[i + 1]
  BY <1>1, <1>3
<1>5. \A i \in DOMAIN feed : IsVersion(feed[i])
  BY DEF ServerPart, CopiesAreVersions
<1>6. CopiesAreVersions'
  BY <1>1, <1>3, <1>4, <1>5 DEF CopiesAreVersions, IsVersion
<1>7. ServerPart'
  BY <1>1, <1>2, <1>3, <1>6 DEF ServerPart
<1>8. OtherPart'
  BY <1>1 DEF OtherPart
<1>9. ReconcilePart'
  BY <1>1, <1>2, CopyLeftAlone
<1> QED
  BY <1>7, <1>8, <1>9, PartsAfter

LEMMA WatchDeploymentPreserves ==
  ASSUME OperatorInv, WatchDeployment \/ Resync
  PROVE  OperatorInv'
<1> USE Parts
<1>1. /\ UNCHANGED <<obj, feed, cache, reconcileVars, jobs, deployment, restarts>>
      /\ queued' = TRUE /\ dcache' \in {deployment, dcache}
  BY DEF WatchDeployment, Resync, serverVars
<1>2. Object' = Object
  BY <1>1 DEF Object
<1>3. OtherPart'
  BY <1>1 DEF OtherPart
<1>4. ServerPart'
  BY <1>1, <1>3, ServerIdle DEF OtherPart, serverVars
<1>5. ReconcilePart'
  BY <1>1, <1>2, CopyLeftAlone
<1> QED
  BY <1>3, <1>4, <1>5, PartsAfter

LEMMA RestartPreserves ==
  ASSUME OperatorInv, Restart
  PROVE  OperatorInv'
<1> USE Parts
<1>1. /\ restarts < MaxRestarts /\ restarts' = restarts + 1
      /\ pc' = "idle" /\ mem' = None /\ again' = "always"
      /\ cache' = obj /\ feed' = << >> /\ dcache' = deployment /\ queued' = TRUE
      /\ UNCHANGED <<obj, jobs, deployment>>
  BY DEF Restart
<1>2. Object' = Object
  BY <1>1 DEF Object
<1>3. obj.rv \in Nat
  BY DEF ServerPart, Object
<1>4. ServerPart'
  BY <1>1, <1>2, <1>3 DEF ServerPart, CopiesAreVersions, IsVersion
<1>5. OtherPart'
  BY <1>1, OperatorAssumption DEF OtherPart
<1>6. ReconcilePart'
  BY <1>1, Returned
<1> QED
  BY <1>4, <1>5, <1>6, PartsAfter

-----------------------------------------------------------------------------
(* Reconcile up to its status update.                                      *)

LEMMA CopyIsObject ==
  ASSUME OperatorInv, pc # "idle"
  PROVE  /\ mem \in Object /\ mem.rv \in Nat /\ mem.rv <= obj.rv
         /\ pc \in {"submit", "check", "results", "deploy"} /\ mem.rv = obj.rv => mem = obj
<1>1. mem \in Object /\ mem.rv <= obj.rv
  BY Parts DEF ReconcilePart
<1>2. mem.rv \in Nat
  BY <1>1, NextVersion
<1>3. pc \in {"submit", "check", "results", "deploy"} /\ mem.rv = obj.rv => mem = obj
  BY Parts DEF ReconcilePart, CurrentCopyIsSound
<1> QED
  BY <1>1, <1>2, <1>3

\* Reconcile computes a new status, and leaves the spec of its copy alone.
LEMMA NewStatus ==
  ASSUME OperatorInv, pc \in {"submit", "check", "deploy"}, UNCHANGED obj,
         mem' \in Object', pc' = "status", again' \in Again,
         mem'.rv = mem.rv, mem'.edition = mem.edition, mem'.auto = mem.auto,
         mem'.tuned = mem.tuned, MayBecome(mem, mem'),
         mem'.phase = "Running" => deployment' = Rendered(mem)
  PROVE  ReconcilePart'
<1>1. /\ mem.rv <= obj.rv
      /\ mem.rv = obj.rv => mem = obj
  BY CopyIsObject
<1>2. Rendered(mem') = Rendered(mem)
  BY DEF Rendered
<1>3. mem'.rv = obj'.rv => MayBecome(obj', mem')
  BY <1>1
<1>4. StatusReady(mem)'
  BY <1>1, <1>2, <1>3 DEF StatusReady, MayBecome, Rendered
<1> QED
  BY <1>4, AtStatus

LEMMA WithPhase ==
  ASSUME NEW o \in Object, NEW p \in Phase
  PROVE  /\ [o EXCEPT !.phase = p] \in Object
         /\ [o EXCEPT !.phase = p].phase = p /\ [o EXCEPT !.phase = p].job = o.job
         /\ [o EXCEPT !.phase = p].edition = o.edition /\ [o EXCEPT !.phase = p].auto = o.auto
         /\ [o EXCEPT !.phase = p].tuned = o.tuned /\ [o EXCEPT !.phase = p].rv = o.rv
BY DEF Object

\* The conditions under which Reconcile takes a step that calls a server.
LEMMA StepConditions ==
  ASSUME NEW o, Step(o) \notin {"init", "done"}
  PROVE  \/ Step(o) = "submit" /\ o.phase # "" /\ o.job = 0
         \/ Step(o) = "check" /\ o.phase = "Optimizing"
         \/ Step(o) = "deploy" /\ o.phase \in {"Pending", "Deploying"}
<1>1. CASE o.phase = ""
  BY <1>1 DEF Step
<1>2. CASE o.phase # "" /\ o.auto /\ o.job = 0
  BY <1>2 DEF Step
<1>3. CASE o.phase # "" /\ ~(o.auto /\ o.job = 0) /\ o.phase = "Optimizing"
  BY <1>3 DEF Step
<1>4. CASE /\ o.phase # "" /\ ~(o.auto /\ o.job = 0) /\ o.phase # "Optimizing"
           /\ o.phase \in {"Deploying", "Pending"}
  BY <1>4 DEF Step
<1>5. CASE /\ o.phase # "" /\ ~(o.auto /\ o.job = 0) /\ o.phase # "Optimizing"
           /\ o.phase \notin {"Deploying", "Pending"}
  BY <1>5 DEF Step
<1> QED
  BY <1>1, <1>2, <1>3, <1>4, <1>5

LEMMA GetPreserves ==
  ASSUME OperatorInv, Get
  PROVE  OperatorInv'
<1> USE Parts
<1>1. queued' = FALSE /\ pc = "idle" /\ UNCHANGED <<obj, feed, cache, jobs, deployment, dcache, restarts>>
  BY DEF Get, serverVars
<1>2. Object' = Object
  BY <1>1 DEF Object
<1>3. OtherPart'
  BY <1>1 DEF OtherPart
<1>4. ServerPart'
  BY <1>1, <1>3, ServerIdle DEF OtherPart, serverVars
<1>5. cache \in Object /\ cache.rv <= obj.rv /\ (cache.rv = obj.rv => cache = obj)
  BY DEF ServerPart, CopiesAreVersions, IsVersion
<1>6. CASE Step(cache) = "init"
  <2>1. ThenStatus([cache EXCEPT !.phase = "Pending"], "always")
    BY <1>6 DEF Get
  <2>2. cache.phase = ""
    BY <1>6 DEF Step
  <2>3. "Pending" \in Phase
    BY DEF Phase
  <2>4. /\ mem' \in Object /\ mem'.phase = "Pending" /\ mem'.job = cache.job
        /\ mem'.edition = cache.edition /\ mem'.auto = cache.auto /\ mem'.tuned = cache.tuned
        /\ mem'.rv = cache.rv
    BY <2>1, <2>3, <1>5, WithPhase DEF ThenStatus
  <2>5. StatusReady(mem)'
    BY <1>1, <1>5, <2>2, <2>4 DEF StatusReady, MayBecome
  <2>6. pc' = "status" /\ again' \in Again
    BY <2>1 DEF ThenStatus, Again
  <2>7. ReconcilePart'
    BY <1>2, <2>4, <2>5, <2>6, AtStatus
  <2> QED
    BY <1>3, <1>4, <2>7, PartsAfter
<1>7. CASE Step(cache) = "done"
  <2>1. UNCHANGED reconcileVars
    BY <1>7 DEF Get
  <2>2. ReconcilePart'
    BY <1>1, <1>2, <2>1, CopyLeftAlone
  <2> QED
    BY <1>3, <1>4, <2>2, PartsAfter
<1>8. CASE Step(cache) \notin {"init", "done"}
  <2>1. pc' = Step(cache) /\ mem' = cache /\ again' = again
    BY <1>8 DEF Get
  <2>2. \/ pc' = "submit" /\ cache.phase # "" /\ cache.job = 0
        \/ pc' = "check" /\ cache.phase = "Optimizing"
        \/ pc' = "deploy" /\ cache.phase \in {"Pending", "Deploying"}
    BY <1>8, <2>1, StepConditions
  <2>3. mem' # None /\ mem' \in Object'
    BY <1>2, <1>5, <2>1, NoneIsNoObject
  <2>4. CurrentCopyIsSound'
    BY <1>1, <1>5, <2>1, <2>2 DEF CurrentCopyIsSound
  <2>5. StepIsDue' /\ RunningIsDeployed'
    BY <2>1, <2>2 DEF StepIsDue, RunningIsDeployed
  <2>6. again' \in Again /\ pc' \in PC /\ pc' # "idle" /\ mem'.rv <= obj'.rv
    BY <1>1, <1>5, <2>1, <2>2 DEF ReconcilePart, PC
  <2>7. ReconcilePart'
    BY <2>3, <2>4, <2>5, <2>6 DEF ReconcilePart
  <2> QED
    BY <1>3, <1>4, <2>7, PartsAfter
<1> QED
  BY <1>6, <1>7, <1>8

LEMMA SubmitPreserves ==
  ASSUME OperatorInv, Submit \/ SubmitFails
  PROVE  OperatorInv'
<1> USE Parts
<1>1. /\ pc = "submit" /\ pc' = "status" /\ again' = "always"
      /\ UNCHANGED <<obj, feed, cache, queued, deployment, dcache, restarts>>
  BY DEF Submit, SubmitFails, ThenStatus, serverVars
<1>2. jobs' = jobs \/ (jobs < MaxJobs /\ jobs' = jobs + 1)
  BY DEF Submit, SubmitFails
<1>3. jobs \in 0..MaxJobs /\ jobs \in Nat
  BY OperatorAssumption DEF OtherPart
<1>4. jobs' \in 0..MaxJobs /\ jobs' \in Nat /\ jobs <= jobs'
  BY <1>2, <1>3, OperatorAssumption
<1>5. OtherPart'
  BY <1>1, <1>4 DEF OtherPart
<1>6. ServerPart'
  BY <1>1, <1>4, ServerIdle DEF serverVars
<1>7. Object \subseteq Object'
  BY <1>3, <1>4, ObjectsStay
<1>8. mem \in Object /\ mem.phase # "" /\ mem.job = 0
  BY <1>1, CopyIsObject DEF ReconcilePart, StepIsDue
<1>9. CASE Submit
  <2>1. PICK id \in {0, jobs + 1} : mem' = [mem EXCEPT !.phase = "Optimizing", !.job = id]
    BY <1>9 DEF Submit, ThenStatus
  <2>2. id \in 0..jobs'
    BY <1>3, <1>4, <1>9 DEF Submit
  <2>3. mem \in Object' /\ "Optimizing" \in Phase
    BY <1>7, <1>8 DEF Phase
  <2>4. mem' \in Object'
    BY <2>1, <2>2, <2>3 DEF Object
  <2>5. /\ mem'.phase = "Optimizing" /\ mem'.job = id
        /\ mem'.edition = mem.edition /\ mem'.auto = mem.auto /\ mem'.tuned = mem.tuned
        /\ mem'.rv = mem.rv
    BY <2>1, <1>8 DEF Object
  <2>6. MayBecome(mem, mem')
    BY <1>8, <2>5 DEF MayBecome
  <2> QED
    BY <1>1, <1>5, <1>6, <2>4, <2>5, <2>6, NewStatus, PartsAfter DEF Again
<1>10. CASE SubmitFails
  <2>1. mem' = [mem EXCEPT !.phase = "Failed"] /\ "Failed" \in Phase
    BY <1>10 DEF SubmitFails, ThenStatus, Phase
  <2>2. /\ mem' \in Object /\ mem'.phase = "Failed" /\ mem'.job = mem.job
        /\ mem'.edition = mem.edition /\ mem'.auto = mem.auto /\ mem'.tuned = mem.tuned
        /\ mem'.rv = mem.rv
    BY <2>1, <1>8, WithPhase
  <2>3. MayBecome(mem, mem') /\ mem' \in Object'
    BY <1>7, <1>8, <2>2 DEF MayBecome
  <2> QED
    BY <1>1, <1>5, <1>6, <2>2, <2>3, NewStatus, PartsAfter DEF Again
<1> QED
  BY <1>9, <1>10

\* A call of Reconcile that ends without a write to the API server.
LEMMA ReturnPreserves ==
  ASSUME OperatorInv, NEW r \in BOOLEAN, Return(r),
         UNCHANGED <<serverVars, cache, jobs, deployment, dcache, restarts>>
  PROVE  OperatorInv'
<1> USE Parts
<1>1. OtherPart'
  BY DEF OtherPart, Return
<1>2. ServerPart'
  BY <1>1, ServerIdle DEF OtherPart
<1>3. ReconcilePart'
  BY Returned DEF Return
<1> QED
  BY <1>1, <1>2, <1>3, PartsAfter

LEMMA CheckPreserves ==
  ASSUME OperatorInv, Check
  PROVE  OperatorInv'
<1> USE Parts
<1>1. pc = "check" /\ UNCHANGED <<serverVars, cache, jobs, deployment, dcache, restarts>>
  BY DEF Check
<1>2. \/ Return(TRUE)
      \/ pc' = "results" /\ UNCHANGED <<queued, mem, again>>
      \/ ThenStatus([mem EXCEPT !.phase = "Failed"], "never") /\ UNCHANGED queued
  BY DEF Check
<1>3. CASE Return(TRUE)
  BY <1>1, <1>3, ReturnPreserves
<1>4. CASE ~Return(TRUE)
  <2>0. UNCHANGED queued
    BY <1>2, <1>4
  <2>1. OtherPart'
    BY <1>1, <2>0 DEF OtherPart
  <2>2. ServerPart'
    BY <1>1, <2>1, ServerIdle DEF OtherPart
  <2>3. Object' = Object /\ obj' = obj /\ deployment' = deployment
    BY <1>1 DEF Object, serverVars
  <2>4. mem \in Object /\ mem.phase = "Optimizing" /\ mem.rv <= obj.rv /\ (mem.rv = obj.rv => mem = obj)
    BY <1>1, CopyIsObject DEF ReconcilePart, StepIsDue
  <2>5. CASE pc' = "results" /\ UNCHANGED <<queued, mem, again>>
    <3>1. mem' \in Object' /\ mem' # None
      BY <2>3, <2>4, <2>5, NoneIsNoObject
    <3>2. CurrentCopyIsSound' /\ StepIsDue' /\ RunningIsDeployed'
      BY <2>3, <2>4, <2>5 DEF CurrentCopyIsSound, StepIsDue, RunningIsDeployed
    <3>3. ReconcilePart'
      BY <2>3, <2>4, <2>5, <3>1, <3>2 DEF ReconcilePart, PC
    <3> QED
      BY <2>1, <2>2, <3>3, PartsAfter
  <2>6. CASE ThenStatus([mem EXCEPT !.phase = "Failed"], "never")
    <3>1. mem' = [mem EXCEPT !.phase = "Failed"] /\ "Failed" \in Phase
      BY <2>6 DEF ThenStatus, Phase
    <3>2. /\ mem' \in Object /\ mem'.phase = "Failed" /\ mem'.job = mem.job
          /\ mem'.edition = mem.edition /\ mem'.auto = mem.auto /\ mem'.tuned = mem.tuned
          /\ mem'.rv = mem.rv
      BY <3>1, <2>4, WithPhase
    <3>3. MayBecome(mem, mem')
      BY <2>4, <3>2 DEF MayBecome
    <3>4. pc' = "status" /\ again' \in Again
      BY <2>6 DEF ThenStatus, Again
    <3>5. ReconcilePart'
      BY <1>1, <2>3, <3>2, <3>3, <3>4, NewStatus
    <3> QED
      BY <2>1, <2>2, <3>5, PartsAfter
  <2> QED
    BY <1>2, <1>4, <2>5, <2>6
<1> QED
  BY <1>3, <1>4

LEMMA ApplyOptimizationPreserves ==
  ASSUME OperatorInv, ApplyOptimization
  PROVE  OperatorInv'
<1> USE Parts
<1>1. /\ pc = "results" /\ pc' = "update"
      /\ UNCHANGED <<serverVars, cache, queued, again, jobs, deployment, dcache, restarts>>
      /\ \/ mem' = [mem EXCEPT !.phase = "Deploying", !.tuned = TRUE]
         \/ mem' = [mem EXCEPT !.phase = "Failed"]
  BY DEF ApplyOptimization
<1>2. OtherPart'
  BY <1>1 DEF OtherPart
<1>3. ServerPart'
  BY <1>1, <1>2, ServerIdle DEF OtherPart
<1>4. Object' = Object /\ obj' = obj
  BY <1>1 DEF Object, serverVars
<1>5. mem \in Object /\ mem.phase = "Optimizing" /\ mem.rv <= obj.rv /\ (mem.rv = obj.rv => mem = obj)
  BY <1>1, CopyIsObject DEF ReconcilePart, StepIsDue
<1>6. "Deploying" \in Phase /\ "Failed" \in Phase
  BY DEF Phase
<1>7. /\ mem' \in Object
      /\ mem'.edition = mem.edition /\ mem'.auto = mem.auto /\ mem'.rv = mem.rv
  <2>1. CASE mem' = [mem EXCEPT !.phase = "Deploying", !.tuned = TRUE]
    BY <2>1, <1>5, <1>6 DEF Object
  <2>2. CASE mem' = [mem EXCEPT !.phase = "Failed"]
    BY <2>2, <1>5, <1>6, WithPhase
  <2> QED
    BY <1>1, <2>1, <2>2
<1> HIDE DEF Object
<1>8. mem' # None
  BY <1>7, NoneIsNoObject
<1>9. CurrentCopyIsSound' /\ StepIsDue' /\ RunningIsDeployed'
  <2>1. pc' = "update" /\ (mem'.rv = obj'.rv => mem = obj)
    BY <1>1, <1>4, <1>5, <1>7
  <2> QED
    BY <2>1, <1>4, <1>5, <1>7 DEF CurrentCopyIsSound, StepIsDue, RunningIsDeployed
<1>10. ReconcilePart'
  BY <1>1, <1>4, <1>5, <1>7, <1>8, <1>9 DEF ReconcilePart, PC
<1> QED
  BY <1>2, <1>3, <1>10, PartsAfter

LEMMA DeployPreserves ==
  ASSUME OperatorInv, Deploy \/ DeployFails
  PROVE  OperatorInv'
<1> USE Parts
<1>1. /\ pc = "deploy" /\ pc' = "status" /\ again' \in Again
      /\ UNCHANGED <<obj, feed, cache, queued, jobs, dcache, restarts>>
      /\ deployment' \in {deployment, Rendered(mem)}
  BY DEF Deploy, DeployFails, ThenStatus, serverVars, Again
<1>2. /\ mem \in Object /\ mem.phase \in {"Pending", "Deploying"}
  BY <1>1, CopyIsObject DEF ReconcilePart, StepIsDue
<1>3. Rendered(mem) \in Deployment
  BY <1>2 DEF Rendered, Deployment, Object
<1>4. OtherPart'
  BY <1>1, <1>3 DEF OtherPart
<1>5. ServerPart'
  BY <1>1, <1>4, ServerIdle DEF OtherPart, serverVars
<1>6. Object' = Object
  BY <1>1 DEF Object
<1>7. PICK p \in {"Running", "Failed"} :
        mem' = [mem EXCEPT !.phase = p] /\ (p = "Running" => deployment' = Rendered(mem))
  BY DEF Deploy, DeployFails, ThenStatus
<1>8. p \in Phase
  BY DEF Phase
<1>9. /\ mem' \in Object /\ mem'.phase = p /\ mem'.job = mem.job
      /\ mem'.edition = mem.edition /\ mem'.auto = mem.auto /\ mem'.tuned = mem.tuned
      /\ mem'.rv = mem.rv
  BY <1>2, <1>7, <1>8, WithPhase
<1>10. MayBecome(mem, mem')
  BY <1>2, <1>9 DEF MayBecome
<1>11. ReconcilePart'
  BY <1>1, <1>6, <1>7, <1>9, <1>10, NewStatus
<1> QED
  BY <1>4, <1>5, <1>11, PartsAfter

-----------------------------------------------------------------------------
(* The writes of Reconcile.                                                *)

\* A write of Reconcile changes the object as Apply does, and nothing else outside Reconcile.
LEMMA WriteKeepsParts ==
  ASSUME OperatorInv, NEW o \in Object, o.rv = obj.rv, Apply(o), queued' \in BOOLEAN,
         UNCHANGED <<cache, jobs, deployment, dcache, restarts>>
  PROVE  ServerPart' /\ OtherPart' /\ Written(o)
<1>1. ServerPart' /\ Written(o)
  BY Parts, ApplyEffect
<1>2. OtherPart'
  BY Parts DEF OtherPart
<1> QED
  BY <1>1, <1>2

\* The spec that Update writes.
WithSpec(o, m) == [o EXCEPT !.edition = m.edition, !.auto = m.auto, !.tuned = m.tuned]

LEMMA WithSpecIsObject ==
  ASSUME NEW o \in Object, NEW m \in Object
  PROVE  /\ WithSpec(o, m) \in Object /\ WithSpec(o, m).rv = o.rv
         /\ WithSpec(o, m).phase = o.phase /\ WithSpec(o, m).job = o.job
         /\ WithSpec(o, m).edition = m.edition
BY DEF Object, WithSpec

LEMMA UpdatePreserves ==
  ASSUME OperatorInv, Update
  PROVE  /\ OperatorInv'
         /\ obj'.edition = obj.edition /\ obj'.phase = obj.phase /\ obj'.job = obj.job
<1> USE Parts
<1>1. /\ pc = "update" /\ mem.rv = obj.rv /\ Apply(WithSpec(obj, mem))
      /\ pc' = "status" /\ mem' = obj' /\ again' = "always"
      /\ UNCHANGED <<cache, queued, jobs, deployment, dcache, restarts>>
  BY DEF Update, ThenStatus, WithSpec
<1>2. obj \in Object /\ mem \in Object /\ mem.edition = obj.edition /\ obj.phase = "Optimizing"
  BY <1>1, CopyIsObject DEF ServerPart, ReconcilePart, CurrentCopyIsSound
<1>3. WithSpec(obj, mem) \in Object /\ WithSpec(obj, mem).rv = obj.rv
  BY <1>2, WithSpecIsObject
<1>4. ServerPart' /\ OtherPart' /\ Written(WithSpec(obj, mem))
  BY <1>1, <1>3, WriteKeepsParts DEF OtherPart
<1>5. obj'.edition = obj.edition /\ obj'.phase = obj.phase /\ obj'.job = obj.job
  BY <1>2, <1>4, WithSpecIsObject DEF Written
<1>6. obj' \in Object' /\ obj'.rv <= obj'.rv
  <2>1. obj' \in Object'
    BY <1>4 DEF ServerPart
  <2>2. obj'.rv \in Nat
    BY <2>1 DEF Object
  <2> QED
    BY <2>1, <2>2
<1>7. StatusReady(mem)'
  BY <1>1, <1>2, <1>5, <1>6 DEF StatusReady, MayBecome
<1>8. ReconcilePart'
  BY <1>1, <1>6, <1>7, AtStatus DEF Again
<1> QED
  BY <1>4, <1>5, <1>8, PartsAfter

LEMMA UpdateFailsPreserves ==
  ASSUME OperatorInv, UpdateFails
  PROVE  /\ OperatorInv'
         /\ obj'.edition = obj.edition /\ obj'.phase = obj.phase /\ obj'.job = obj.job
<1> USE Parts
<1>1. /\ pc = "update" /\ Return(TRUE)
      /\ UNCHANGED <<cache, jobs, deployment, dcache, restarts>>
      /\ UNCHANGED serverVars \/ Apply([obj EXCEPT !.tuned = mem.tuned])
  BY DEF UpdateFails
<1>2. obj \in Object /\ mem \in Object
  BY <1>1, CopyIsObject DEF ServerPart
<1>3. CASE UNCHANGED serverVars
  BY <1>1, <1>3, ReturnPreserves DEF serverVars
<1>4. CASE Apply([obj EXCEPT !.tuned = mem.tuned])
  <2> DEFINE o == [obj EXCEPT !.tuned = mem.tuned]
  <2>1. /\ o \in Object /\ o.rv = obj.rv /\ o.edition = obj.edition
        /\ o.phase = obj.phase /\ o.job = obj.job
    BY <1>2 DEF Object
  <2>2. Apply(o) /\ queued' \in BOOLEAN
    BY <1>1, <1>4 DEF Return, OtherPart
  <2> HIDE DEF o
  <2>3. ServerPart' /\ OtherPart' /\ Written(o)
    BY <1>1, <2>1, <2>2, WriteKeepsParts
  <2>4. ReconcilePart'
    BY <1>1, Returned DEF Return
  <2>5. obj'.edition = obj.edition /\ obj'.phase = obj.phase /\ obj'.job = obj.job
    BY <2>1, <2>3 DEF Written
  <2> QED
    BY <2>3, <2>4, <2>5, PartsAfter
<1> QED
  BY <1>1, <1>3, <1>4

LEMMA WithStatusIsObject ==
  ASSUME NEW o \in Object, NEW m \in Object
  PROVE  /\ WithStatus(o, m) \in Object /\ WithStatus(o, m).rv = o.rv
         /\ WithStatus(o, m).phase = m.phase /\ WithStatus(o, m).job = m.job
         /\ WithStatus(o, m).edition = o.edition
BY DEF Object, WithStatus

\* The status update that reaches the object is computed from its current version.
StatusWritten ==
  /\ pc = "status" /\ mem.rv = obj.rv
  /\ obj'.phase = mem.phase /\ obj'.job = mem.job /\ obj'.edition = obj.edition

LEMMA StatusUpdatePreserves ==
  ASSUME OperatorInv, StatusUpdate \/ StatusUpdateFails
  PROVE  OperatorInv' /\ (obj' = obj \/ StatusWritten)
<1> USE Parts
<1>1. PICK r \in BOOLEAN : Return(r)
  BY DEF StatusUpdate, StatusUpdateFails
<1>2. /\ pc = "status"
      /\ UNCHANGED <<cache, jobs, deployment, dcache, restarts>>
      /\ UNCHANGED serverVars \/ (mem.rv = obj.rv /\ Apply(WithStatus(obj, mem)))
  BY DEF StatusUpdate, StatusUpdateFails
<1>3. obj \in Object /\ mem \in Object
  BY <1>2, CopyIsObject DEF ServerPart
<1>4. CASE UNCHANGED serverVars
  BY <1>1, <1>2, <1>4, ReturnPreserves DEF serverVars
<1>5. CASE mem.rv = obj.rv /\ Apply(WithStatus(obj, mem))
  <2>1. WithStatus(obj, mem) \in Object /\ WithStatus(obj, mem).rv = obj.rv
    BY <1>3, WithStatusIsObject
  <2>2. queued' \in BOOLEAN
    BY <1>1 DEF Return, OtherPart
  <2>3. ServerPart' /\ OtherPart' /\ Written(WithStatus(obj, mem))
    BY <1>2, <1>5, <2>1, <2>2, WriteKeepsParts
  <2>4. ReconcilePart'
    BY <1>1, Returned DEF Return
  <2>5. obj' = obj \/ StatusWritten
    BY <1>2, <1>3, <1>5, <2>3, WithStatusIsObject DEF Written, StatusWritten
  <2> QED
    BY <2>3, <2>4, <2>5, PartsAfter
<1> QED
  BY <1>2, <1>4, <1>5

-----------------------------------------------------------------------------
(* The theorems.                                                           *)

LEMMA InitEstablishes == Init => OperatorInv
<1> SUFFICES ASSUME Init PROVE OperatorInv
  OBVIOUS
<1>1. /\ jobs = 0 /\ feed = << >> /\ cache = obj /\ queued = TRUE
      /\ deployment = None /\ dcache = None /\ restarts = 0
  BY DEF Init
<1>2. PICK a \in BOOLEAN :
        obj = [phase |-> "", job |-> 0, edition |-> 0, auto |-> a, tuned |-> FALSE, rv |-> 0]
  BY DEF Init
<1>3. obj \in Object /\ obj.rv = 0
  <2>1. 0 \in 0..jobs /\ 0 \in 0..MaxEdits /\ "" \in Phase
    BY <1>1, OperatorAssumption DEF Phase
  <2> QED
    BY <1>2, <2>1 DEF Object
<1>4. ServerPart
  BY <1>1, <1>3 DEF ServerPart, CopiesAreVersions, IsVersion
<1>5. OtherPart
  BY <1>1, OperatorAssumption DEF OtherPart
<1>6. ReconcilePart
  BY DEF Init, ReconcilePart, PC, Again, None, CurrentCopyIsSound, StepIsDue, RunningIsDeployed
<1> QED
  BY <1>4, <1>5, <1>6, Parts

\* What any step does to the object: an edit counts up, a status update from the current version
\* sets the status, and everything else leaves both alone.
LEMMA StepEffect ==
  ASSUME OperatorInv, [Next]_vars
  PROVE  /\ OperatorInv'
         /\ \/ obj'.phase = obj.phase /\ obj'.job = obj.job /\ obj'.edition >= obj.edition
            \/ StatusWritten
<1>0. obj.edition \in Nat /\ obj.edition >= obj.edition /\ obj.edition + 1 >= obj.edition
  BY Parts, OperatorAssumption DEF ServerPart, Object
<1>1. ASSUME NEW a \in BOOLEAN, Edit(a)
      PROVE  /\ OperatorInv'
             /\ obj'.phase = obj.phase /\ obj'.job = obj.job /\ obj'.edition >= obj.edition
  BY <1>0, <1>1, EditPreserves
<1>2. CASE Watch
  BY <1>0, <1>2, WatchPreserves DEF Watch
<1>3. CASE WatchDeployment \/ Resync
  BY <1>0, <1>3, WatchDeploymentPreserves DEF WatchDeployment, Resync, serverVars
<1>5. CASE Get
  BY <1>0, <1>5, GetPreserves DEF Get, serverVars
<1>6. CASE Submit \/ SubmitFails
  BY <1>0, <1>6, SubmitPreserves DEF Submit, SubmitFails, serverVars
<1>7. CASE Check
  BY <1>0, <1>7, CheckPreserves DEF Check, serverVars
<1>8. CASE ApplyOptimization
  BY <1>0, <1>8, ApplyOptimizationPreserves DEF ApplyOptimization, serverVars
<1>9. CASE Update
  BY <1>0, <1>9, UpdatePreserves
<1>10. CASE UpdateFails
  BY <1>0, <1>10, UpdateFailsPreserves
<1>11. CASE Deploy \/ DeployFails
  BY <1>0, <1>11, DeployPreserves DEF Deploy, DeployFails, serverVars
<1>12. CASE StatusUpdate \/ StatusUpdateFails
  BY <1>0, <1>12, StatusUpdatePreserves
<1>13. CASE Restart
  BY <1>0, <1>13, RestartPreserves DEF Restart
<1>14. CASE UNCHANGED vars
  <2>1. /\ UNCHANGED <<serverVars, cache, queued, reconcileVars, jobs, deployment, dcache, restarts>>
        /\ obj' = obj /\ Object' = Object
    BY <1>14 DEF vars, serverVars, Object
  <2>2. OtherPart'
    BY <2>1, Parts DEF OtherPart
  <2>3. ServerPart' /\ ReconcilePart'
    BY <2>1, <2>2, Parts, ServerIdle, CopyLeftAlone DEF OtherPart
  <2> QED
    BY <1>0, <2>1, <2>2, <2>3, PartsAfter
<1> QED
  BY <1>0, <1>1, <1>2, <1>3, <1>5, <1>6, <1>7, <1>8, <1>9, <1>10, <1>11, <1>12, <1>13, <1>14
     DEF Next

\* Every state satisfies OperatorInv: it is typed, every cached version is a past or the present
\* object, and the copy Reconcile works on, unless overtaken, is the object but for the step taken.
THEOREM OperatorInvariance == Spec => []OperatorInv
<1>1. OperatorInv /\ [Next]_vars => OperatorInv'
  BY StepEffect
<1> QED
  BY <1>1, InitEstablishes, PTL DEF Spec

\* No edit of the user is lost: Update writes the whole spec of its copy, but only while that
\* copy is of the current version.
THEOREM EditsSurvive == Spec => NoEditIsLost
<1>1. OperatorInv /\ [Next]_vars => [obj'.edition >= obj.edition]_vars
  <2> SUFFICES ASSUME OperatorInv, [Next]_vars PROVE obj'.edition >= obj.edition
    OBVIOUS
  <2>1. obj.edition \in Nat
    BY Parts, OperatorAssumption DEF ServerPart, Object
  <2> QED
    BY <2>1, StepEffect DEF StatusWritten
<1> QED
  BY <1>1, OperatorInvariance, PTL DEF Spec, NoEditIsLost

\* The resource becomes Running when the Deployment is the one for the spec it then has: the
\* status update would have met a conflict after an edit.
THEOREM RunningIsDeployedAsAsked == Spec => RunningIsWhatWasAsked
<1>1. OperatorInv /\ [Next]_vars
        => [obj.phase # "Running" /\ obj'.phase = "Running" => deployment = Rendered(obj)]_vars
  <2> SUFFICES ASSUME OperatorInv, [Next]_vars, obj.phase # "Running", obj'.phase = "Running"
               PROVE  deployment = Rendered(obj)
    OBVIOUS
  <2>1. pc = "status" /\ mem.rv = obj.rv /\ mem.phase = "Running"
    BY StepEffect DEF StatusWritten
  <2>2. mem.edition = obj.edition /\ mem.tuned = obj.tuned /\ deployment = Rendered(mem)
    BY <2>1 DEF OperatorInv, CurrentCopyIsSound, RunningIsDeployed
  <2> QED
    BY <2>2 DEF Rendered
<1> QED
  BY <1>1, OperatorInvariance, PTL DEF Spec, RunningIsWhatWasAsked

\* The operator implements InferencePhases: whatever copies Reconcile computes from, the status
\* takes only the steps that specification allows.
THEOREM StatusRefinesPhases == Spec => RefinesPhases
<1>1. Init => Phases!Init
  <2> SUFFICES ASSUME Init PROVE obj.phase = "" /\ obj.job = 0
    BY DEF Phases!Init
  <2>1. PICK a \in BOOLEAN :
          obj = [phase |-> "", job |-> 0, edition |-> 0, auto |-> a, tuned |-> FALSE, rv |-> 0]
    BY DEF Init
  <2> QED
    BY <2>1
<1>2. OperatorInv /\ [Next]_vars => [Phases!Next]_(Phases!seen)
  <2> SUFFICES ASSUME OperatorInv, [Next]_vars,
                      obj'.phase # obj.phase \/ obj'.job # obj.job
               PROVE  Phases!Next
    BY DEF Phases!seen
  <2>1. StatusWritten
    BY StepEffect
  <2>2. MayBecome(obj, mem) /\ mem \in Object
    BY <2>1, CopyIsObject DEF StatusWritten, OperatorInv, CurrentCopyIsSound
  <2>3. mem.job \in Nat
    BY <2>2, Parts DEF OtherPart, Object
  <2> QED
    BY <2>1, <2>2, <2>3 DEF StatusWritten, MayBecome, Phases!Next, Phases!Accept, Phases!Submit,
       Phases!SubmitFails, Phases!BenchmarkEnds, Phases!Deploy
<1> QED
  BY <1>1, <1>2, OperatorInvariance, PTL DEF Spec, RefinesPhases, Phases!Spec
=============================================================================
