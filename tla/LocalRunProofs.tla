--------------------------- MODULE LocalRunProofs ---------------------------
(***************************************************************************)
(* Proofs, for any number of concurrent commands and tokens, that no       *)
(* command leaves a process behind and that the key a gateway bootstraps   *)
(* is one it accepts.                                                      *)
(*                                                                         *)
(* LocalRunInv is inductive.  Its parts are independent but for one link:  *)
(* a command begins to wait for a token when the gateway listens, so that  *)
(* AwaitedTokenWorks takes over from DevTokenWorks and survives the stops  *)
(* and starts of the gateway from then on.                                 *)
(***************************************************************************)
EXTENDS LocalRun, TLAPS

PC == {"new", "load", "health", "healthy", "token", "worker", "grace", "await", "submit", "poll",
       "summary", "follow", "results", "cleanup", "reap", "end", "killed"}

Command == [pc : PC, flag : Flag, key : Key, late : BOOLEAN]

ProcState == {"none", "alive", "held", "exited", "sent", "taken"}

\* ProcessHasItsCommand for one command q with the process p.
Belongs(q, p) ==
  /\ p # "none" => q.pc \in WithProcess \cup {"reap", "end", "killed"}
  /\ p \in {"alive", "held"} =>
       \/ q.pc \in WithProcess \cup {"killed"} \/ (q.pc = "end" /\ q.flag.keepWorker)
       \/ p = "held" /\ q.pc = "reap"

\* What a step of c or of its process does: c becomes q with the process p; it waits for a token
\* only if it did before or the gateway listens; the gateway is at most started.
CommandStep(c) ==
  /\ \E q \in Command, p \in ProcState :
       /\ cmd' = [cmd EXCEPT ![c] = q] /\ proc' = [proc EXCEPT ![c] = p] /\ Belongs(q, p)
       /\ q.pc = "token" => At(c, "token") \/ gateway = "up"
  /\ gateway' = gateway \/ (gateway = "down" /\ gateway' = "check")
  /\ config' \in Key
  /\ UNCHANGED <<issuing, file, rows, fresh, expired, lapsed, aged, failed>>

LEMMA CommandStepPreserves ==
  ASSUME LocalRunInv, NEW c \in Cmd, CommandStep(c)
  PROVE  LocalRunInv'
<1> USE DEF LocalRunInv
<1>1. PICK q \in Command, p \in ProcState :
        /\ cmd' = [cmd EXCEPT ![c] = q] /\ proc' = [proc EXCEPT ![c] = p] /\ Belongs(q, p)
        /\ q.pc = "token" => At(c, "token") \/ gateway = "up"
  BY DEF CommandStep
<1>2. /\ gateway' = gateway \/ (gateway = "down" /\ gateway' = "check")
      /\ config' \in Key
      /\ UNCHANGED <<issuing, file, rows, fresh, expired, lapsed, aged, failed>>
  BY DEF CommandStep
<1>3. TypeOK'
  <2>1. cmd' \in [Cmd -> Command] /\ proc' \in [Cmd -> ProcState]
    BY <1>1 DEF TypeOK, Command, ProcState, PC
  <2> QED
    BY <1>2, <2>1 DEF TypeOK, Command, ProcState, PC
<1>4. \A d \in Cmd : /\ cmd'[d] = IF d = c THEN q ELSE cmd[d]
                     /\ proc'[d] = IF d = c THEN p ELSE proc[d]
  BY <1>1 DEF TypeOK
<1>5. ProcessHasItsCommand'
  BY <1>1, <1>4 DEF ProcessHasItsCommand, Belongs, At
<1>6. IssuedIsStored' /\ DevTokenWorks'
  BY <1>2 DEF IssuedIsStored, DevTokenWorks, Works, Accepts
<1>7. AwaitedTokenWorks'
  <2> SUFFICES ASSUME NEW d \in Cmd, cmd'[d].pc = "token", file \in Token
               PROVE  Works(file) \/ failed
    BY <1>2 DEF AwaitedTokenWorks, At, Works, Accepts
  <2>1. (\E x \in Cmd : At(x, "token")) \/ gateway = "up"
    BY <1>1, <1>4 DEF At
  <2> QED
    BY <2>1 DEF AwaitedTokenWorks, DevTokenWorks
<1> QED
  BY <1>3, <1>5, <1>6, <1>7

-----------------------------------------------------------------------------
(* The steps of a command, and what happens to it.                         *)

\* c only goes on: its process and its belonging stay what they are.
LEMMA MovesOn ==
  ASSUME LocalRunInv, NEW c \in Cmd, NEW q \in Command, cmd' = [cmd EXCEPT ![c] = q],
         Belongs(q, proc[c]), q.pc = "token" => At(c, "token") \/ gateway = "up",
         UNCHANGED proc,
         gateway' = gateway \/ (gateway = "down" /\ gateway' = "check"), config' \in Key,
         UNCHANGED <<issuing, file, rows, fresh, expired, lapsed, aged, failed>>
  PROVE  CommandStep(c)
<1>1. proc[c] \in ProcState /\ proc' = [proc EXCEPT ![c] = proc[c]]
  BY DEF LocalRunInv, TypeOK, ProcState
<1> QED
  BY <1>1 DEF CommandStep

\* Its process changes, and it may go on.
LEMMA ProcessMoves ==
  ASSUME LocalRunInv, NEW c \in Cmd, NEW q \in Command, NEW p \in ProcState,
         cmd' = [cmd EXCEPT ![c] = q], proc' = [proc EXCEPT ![c] = p],
         Belongs(q, p), q.pc # "token", UNCHANGED <<gatewayVars, age, config>>
  PROVE  CommandStep(c)
<1>1. config' \in Key
  BY DEF LocalRunInv, TypeOK
<1> QED
  BY <1>1 DEF CommandStep, gatewayVars, age

\* What LocalRunInv says of c.
LEMMA CommandFacts ==
  ASSUME LocalRunInv, NEW c \in Cmd
  PROVE  /\ cmd[c] \in Command /\ proc[c] \in ProcState /\ config \in Key
         /\ Belongs(cmd[c], proc[c])
         /\ cmd = [cmd EXCEPT ![c] = cmd[c]] /\ proc = [proc EXCEPT ![c] = proc[c]]
BY DEF LocalRunInv, TypeOK, Command, ProcState, PC, ProcessHasItsCommand, Belongs, At

\* Goto gives a command.
LEMMA GotoCommand ==
  ASSUME LocalRunInv, NEW c \in Cmd, NEW pc \in PC, Goto(c, pc)
  PROVE  \E q \in Command :
           cmd' = [cmd EXCEPT ![c] = q] /\ q.pc = pc /\ q.flag = cmd[c].flag
<1> DEFINE q == [cmd[c] EXCEPT !.pc = pc, !.late = FALSE]
<1>1. cmd[c] \in Command /\ cmd \in [Cmd -> Command]
  BY DEF LocalRunInv, TypeOK, Command, PC
<1>2. q \in Command /\ q.pc = pc /\ q.flag = cmd[c].flag
  BY <1>1 DEF Command
<1>3. cmd' = [cmd EXCEPT ![c] = q]
  BY <1>1 DEF Goto
<1> QED
  BY <1>2, <1>3

LEMMA StartStep ==
  ASSUME LocalRunInv, NEW c \in Cmd, NEW flag \in Flag, Start(c, flag)
  PROVE  CommandStep(c)
<1> DEFINE q == [pc |-> "load", flag |-> flag, key |-> NoKey, late |-> FALSE]
<1>1. q \in Command /\ q.pc = "load"
  BY DEF Command, PC, Key
<1>2. Belongs(q, "none") /\ "none" \in ProcState
  BY DEF Belongs, ProcState
<1>3. cmd' = [cmd EXCEPT ![c] = q] /\ proc' = [proc EXCEPT ![c] = "none"]
      /\ UNCHANGED <<gatewayVars, age, config>>
  BY DEF Start
<1> HIDE DEF q
<1> QED
  BY <1>1, <1>2, <1>3, ProcessMoves

\* Before there is a process a command may go anywhere.
LEMMA EarlySteps ==
  ASSUME LocalRunInv, NEW c \in Cmd,
         Load(c) \/ ProbeServer(c) \/ AwaitServer(c) \/ ReadDevToken(c)
  PROVE  CommandStep(c)
<1>1. cmd[c] \in Command /\ cmd \in [Cmd -> Command] /\ config \in Key /\ proc[c] = "none"
  BY DEF LocalRunInv, TypeOK, Command, PC, ProcessHasItsCommand, WithProcess, Load, ProbeServer,
         AwaitServer, ReadDevToken, At
<1>2. /\ UNCHANGED <<issuing, file, rows, fresh, expired, lapsed, aged, failed, proc>>
      /\ gateway' = gateway \/ (gateway = "down" /\ gateway' = "check")
  BY DEF Load, ProbeServer, AwaitServer, ReadDevToken, ComposeUp, gatewayVars, age
<1>3. \A key \in Key : Override(c, key) \in Key
  BY <1>1, LocalRunAssumption DEF Override, Command
<1>4. config' \in Key
  BY <1>1, <1>3 DEF Load, ProbeServer, AwaitServer, ReadDevToken, Save, Key
<1>5. \E q \in Command : /\ cmd' = [cmd EXCEPT ![c] = q]
                         /\ q.pc = "token" => At(c, "token") \/ gateway = "up"
  <2>1. CASE Return(c)
    <3>1. "end" \in PC
      BY DEF PC
    <3> QED
      BY <2>1, <3>1, GotoCommand DEF Return
  <2>2. CASE gateway = "up" /\ ServerHealthy(c)
    <3>1. {"token", "worker"} \subseteq PC
      BY DEF PC
    <3> QED
      BY <2>2, <3>1, GotoCommand DEF ServerHealthy
  <2>3. CASE Goto(c, "healthy")
    <3>1. "healthy" \in PC
      BY DEF PC
    <3> QED
      BY <2>3, <3>1, GotoCommand
  <2>4. ASSUME NEW key \in Key, cmd' = [cmd EXCEPT ![c].pc = "health", ![c].key = key]
        PROVE  \E q \in Command : cmd' = [cmd EXCEPT ![c] = q] /\ q.pc = "health"
    <3> DEFINE q == [cmd[c] EXCEPT !.pc = "health", !.key = key]
    <3>1. q \in Command /\ q.pc = "health" /\ cmd' = [cmd EXCEPT ![c] = q]
      BY <1>1, <2>4 DEF Command, PC
    <3> QED
      BY <3>1
  <2>5. ASSUME NEW key \in Key,
               cmd' = [cmd EXCEPT ![c].pc = "worker", ![c].key = key, ![c].late = FALSE]
        PROVE  \E q \in Command : cmd' = [cmd EXCEPT ![c] = q] /\ q.pc = "worker"
    <3> DEFINE q == [cmd[c] EXCEPT !.pc = "worker", !.key = key, !.late = FALSE]
    <3>1. q \in Command /\ q.pc = "worker" /\ cmd' = [cmd EXCEPT ![c] = q]
      BY <1>1, <2>5 DEF Command, PC
    <3> QED
      BY <3>1
  <2>6. CASE Load(c)
    <3>1. (IF config = NoKey THEN NoKey ELSE Override(c, config)) \in Key
      BY <1>1, <1>3 DEF Key
    <3> QED
      BY <2>1, <2>4, <2>6, <3>1 DEF Load
  <2>7. CASE ReadDevToken(c)
    <3>1. file \in Token \cup {NoKey} => Override(c, file) \in Key
      BY <1>3 DEF Key
    <3> QED
      BY <2>1, <2>5, <2>7, <3>1 DEF ReadDevToken
  <2> QED
    BY <2>1, <2>2, <2>3, <2>6, <2>7 DEF ProbeServer, AwaitServer
<1>6. ASSUME NEW q PROVE Belongs(q, proc[c])
  BY <1>1 DEF Belongs
<1> QED
  BY <1>2, <1>4, <1>5, <1>6, MovesOn

\* EnsureWorker either has no process when it ends or goes on with one.
LEMMA WorkerSteps ==
  ASSUME LocalRunInv, NEW c \in Cmd, EnsureWorker(c) \/ Grace(c) \/ AwaitWorker(c)
  PROVE  CommandStep(c)
<1>1. cmd[c] \in Command /\ config \in Key /\ UNCHANGED <<gatewayVars, age, config>>
  BY DEF LocalRunInv, TypeOK, Command, PC, EnsureWorker, Grace, AwaitWorker
<1>2. {"submit", "end", "grace", "await", "cleanup"} \subseteq PC
  BY DEF PC
<1>3. At(c, "worker") => proc[c] = "none"
  BY DEF LocalRunInv, ProcessHasItsCommand, WithProcess, At
<1>4. CASE EnsureWorker(c)
  <2>1. \E pc \in PC : Goto(c, pc) /\ \/ UNCHANGED proc
                                      \/ pc = "grace" /\ proc' = [proc EXCEPT ![c] = "alive"]
    BY <1>2, <1>4 DEF EnsureWorker, Spawn, Return
  <2>2. PICK pc \in PC : Goto(c, pc) /\ \/ UNCHANGED proc
                                        \/ pc = "grace" /\ proc' = [proc EXCEPT ![c] = "alive"]
    BY <2>1
  <2>3. PICK q \in Command : cmd' = [cmd EXCEPT ![c] = q] /\ q.pc = pc
    BY <2>2, GotoCommand
  <2>4. pc # "token"
    BY <1>4, <2>2 DEF EnsureWorker, Spawn, Return, Goto, LocalRunInv, TypeOK
  <2>5. CASE UNCHANGED proc
    <3>1. Belongs(q, proc[c])
      BY <1>3, <1>4 DEF EnsureWorker, Belongs
    <3> QED
      BY <1>1, <2>3, <2>4, <2>5, <3>1, MovesOn DEF gatewayVars, age
  <2>6. CASE pc = "grace" /\ proc' = [proc EXCEPT ![c] = "alive"]
    <3>1. Belongs(q, "alive") /\ "alive" \in ProcState
      BY <2>3, <2>6 DEF Belongs, WithProcess, ProcState
    <3> QED
      BY <1>1, <2>3, <2>4, <2>6, <3>1, ProcessMoves
  <2> QED
    BY <2>2, <2>5, <2>6
<1>5. CASE Grace(c) /\ UNCHANGED proc
  <2>1. PICK q \in Command : cmd' = [cmd EXCEPT ![c] = q] /\ q.pc = "await"
    BY <1>2, <1>5, GotoCommand DEF Grace, LocalRunInv, TypeOK
  <2>2. Belongs(q, proc[c])
    BY <2>1 DEF Belongs, WithProcess
  <2> QED
    BY <1>1, <1>5, <2>1, <2>2, MovesOn DEF gatewayVars, age
<1>6. CASE Return(c) /\ proc' = [proc EXCEPT ![c] = "taken"]
  <2>1. PICK q \in Command : cmd' = [cmd EXCEPT ![c] = q] /\ q.pc = "end"
    BY <1>2, <1>6, GotoCommand DEF Return
  <2>2. Belongs(q, "taken") /\ "taken" \in ProcState
    BY <2>1 DEF Belongs, ProcState
  <2> QED
    BY <1>1, <1>6, <2>1, <2>2, ProcessMoves
<1>7. CASE AwaitWorker(c)
  <2>1. PICK pc \in {"submit", "cleanup"} : Goto(c, pc) /\ UNCHANGED proc
    BY <1>7 DEF AwaitWorker
  <2>2. PICK q \in Command : cmd' = [cmd EXCEPT ![c] = q] /\ q.pc = pc
    BY <1>2, <2>1, GotoCommand
  <2>3. Belongs(q, proc[c])
    BY <2>1, <2>2 DEF Belongs, WithProcess
  <2> QED
    BY <1>1, <2>1, <2>2, <2>3, MovesOn DEF gatewayVars, age
<1> QED
  BY <1>4, <1>5, <1>6, <1>7 DEF Grace

\* The work keeps the process; every way out of it leads to the cleanup.
LEMMA WorkSteps ==
  ASSUME LocalRunInv, NEW c \in Cmd,
         Submit(c) \/ PollJob(c) \/ ShowCampaign(c) \/ Follow(c) \/ Report(c)
  PROVE  CommandStep(c)
<1>1. config \in Key /\ UNCHANGED <<gatewayVars, age, config, proc>>
  BY DEF LocalRunInv, TypeOK, Submit, PollJob, ShowCampaign, Follow, Report
<1>2. \E pc \in {"cleanup", "poll", "summary", "follow", "results"} : Goto(c, pc)
  BY DEF Submit, PollJob, ShowCampaign, Follow, Report
<1>3. PICK pc \in {"cleanup", "poll", "summary", "follow", "results"} : Goto(c, pc)
  BY <1>2
<1>4. pc \in PC /\ pc \in WithProcess /\ pc # "token"
  BY DEF PC, WithProcess
<1>5. PICK q \in Command : cmd' = [cmd EXCEPT ![c] = q] /\ q.pc = pc
  BY <1>3, <1>4, GotoCommand
<1>6. Belongs(q, proc[c])
  BY <1>4, <1>5 DEF Belongs
<1> QED
  BY <1>1, <1>4, <1>5, <1>6, MovesOn DEF gatewayVars, age

\* stop: the command ends with a process that is dead and holds no pipe, or was told to keep it.
LEMMA CleanupSteps ==
  ASSUME LocalRunInv, NEW c \in Cmd, Cleanup(c) \/ Reap(c)
  PROVE  CommandStep(c)
<1>1. config \in Key /\ UNCHANGED <<gatewayVars, age, config>> /\ proc[c] \in ProcState
  BY DEF LocalRunInv, TypeOK, Cleanup, Reap, ProcState
<1>2. "end" \in PC /\ "reap" \in PC
  BY DEF PC
<1>3. CASE (proc[c] = "none" \/ cmd[c].flag.keepWorker) /\ Goto(c, "end") /\ UNCHANGED proc
  <2>1. PICK q \in Command : cmd' = [cmd EXCEPT ![c] = q] /\ q.pc = "end" /\ q.flag = cmd[c].flag
    BY <1>2, <1>3, GotoCommand
  <2>2. Belongs(q, proc[c])
    BY <1>3, <2>1 DEF Belongs
  <2> QED
    BY <1>1, <1>3, <2>1, <2>2, MovesOn DEF gatewayVars, age
<1>4. CASE Goto(c, "end") /\ proc' = [proc EXCEPT ![c] = "taken"]
  <2>1. PICK q \in Command : cmd' = [cmd EXCEPT ![c] = q] /\ q.pc = "end"
    BY <1>2, <1>4, GotoCommand
  <2>2. Belongs(q, "taken") /\ "taken" \in ProcState
    BY <2>1 DEF Belongs, ProcState
  <2> QED
    BY <1>1, <1>4, <2>1, <2>2, ProcessMoves
<1>5. ASSUME Goto(c, "reap"), NEW p \in {"held", "exited", "sent", "taken"},
             proc' = [proc EXCEPT ![c] = p]
      PROVE  CommandStep(c)
  <2>1. PICK q \in Command : cmd' = [cmd EXCEPT ![c] = q] /\ q.pc = "reap"
    BY <1>2, <1>5, GotoCommand
  <2>2. Belongs(q, p) /\ p \in ProcState
    BY <2>1 DEF Belongs, ProcState
  <2> QED
    BY <1>1, <1>5, <2>1, <2>2, ProcessMoves
<1>6. CASE Cleanup(c) /\ Goto(c, "reap") /\ Dies(c)
  BY <1>5, <1>6 DEF Dies
<1>7. CASE Goto(c, "reap") /\ proc[c] \notin {"none", "alive"} /\ UNCHANGED proc
  <2>1. proc' = [proc EXCEPT ![c] = proc[c]] /\ proc[c] \in {"held", "exited", "sent", "taken"}
    BY <1>1, <1>7 DEF LocalRunInv, TypeOK, ProcState
  <2> QED
    BY <1>5, <1>7, <2>1
<1> QED
  BY <1>3, <1>4, <1>6, <1>7 DEF Cleanup, Reap

\* A deadline, an exit, the end of its output, its report and a signal.
LEMMA EnvironmentSteps ==
  ASSUME LocalRunInv, NEW c \in Cmd,
         DeadlinePasses(c) \/ ProcessExits(c) \/ PipeCloses(c) \/ WaitReturns(c) \/ Killed(c)
  PROVE  CommandStep(c)
<1>1. /\ cmd[c] \in Command /\ config \in Key /\ UNCHANGED <<gatewayVars, age, config>>
      /\ cmd = [cmd EXCEPT ![c] = cmd[c]] /\ Belongs(cmd[c], proc[c])
  BY CommandFacts DEF DeadlinePasses, ProcessExits, PipeCloses, WaitReturns, Killed
<1>2. CASE DeadlinePasses(c)
  <2> DEFINE q == [cmd[c] EXCEPT !.late = TRUE]
  <2>1. q \in Command /\ q.pc = cmd[c].pc /\ q.flag = cmd[c].flag
    BY <1>1 DEF Command
  <2>2. cmd' = [cmd EXCEPT ![c] = q] /\ UNCHANGED proc
    BY <1>2 DEF DeadlinePasses, LocalRunInv, TypeOK
  <2>3. Belongs(q, proc[c])
    BY <1>1, <2>1 DEF Belongs
  <2> HIDE DEF q
  <2> QED
    BY <1>1, <2>1, <2>2, <2>3, MovesOn DEF gatewayVars, age, At
<1>3. ASSUME NEW p \in {"held", "exited", "sent"}, proc[c] \in {"alive", "held", "exited"},
             p = "held" => proc[c] = "alive",
             proc' = [proc EXCEPT ![c] = p], UNCHANGED cmd
      PROVE  CommandStep(c)
  <2>1. Belongs(cmd[c], p) /\ p \in ProcState /\ cmd[c].pc # "token"
    BY <1>1, <1>3 DEF Belongs, ProcState, WithProcess
  <2>2. cmd' = [cmd EXCEPT ![c] = cmd[c]]
    BY <1>1, <1>3
  <2> QED
    BY <1>1, <1>3, <2>1, <2>2, ProcessMoves
<1>4. CASE Killed(c)
  <2>1. "killed" \in PC
    BY DEF PC
  <2>2. PICK q \in Command : cmd' = [cmd EXCEPT ![c] = q] /\ q.pc = "killed"
    BY <1>4, <2>1, GotoCommand DEF Killed
  <2>3. Belongs(q, proc[c])
    BY <2>2 DEF Belongs
  <2> QED
    BY <1>1, <1>4, <2>2, <2>3, MovesOn DEF Killed, gatewayVars, age
<1> QED
  BY <1>2, <1>3, <1>4 DEF ProcessExits, PipeCloses, WaitReturns, Dies

-----------------------------------------------------------------------------
(* The gateway.                                                            *)

\* Its steps leave the commands alone.
LEMMA GatewayFrame ==
  ASSUME LocalRunInv, UNCHANGED <<config, cmd, proc>>,
         /\ gateway' \in {"down", "check", "insert", "write", "up"} /\ issuing' \in Key
         /\ file' \in Key \cup {NoFile} /\ rows' \cap fresh' = {}
         /\ rows' \cup fresh' \cup expired' \cup aged' \subseteq Token /\ failed' \in BOOLEAN
         /\ lapsed' \subseteq expired'
  PROVE  TypeOK' /\ ProcessHasItsCommand'
BY DEF LocalRunInv, TypeOK, ProcessHasItsCommand, At

LEMMA CheckPreserves ==
  ASSUME LocalRunInv, CheckDevKey
  PROVE  LocalRunInv'
<1> USE DEF LocalRunInv
<1>1. UNCHANGED <<issuing, file, rows, fresh, expired, lapsed, config, cmd, proc>>
  BY DEF CheckDevKey, age
<1>2. \/ file \in rows \ lapsed /\ gateway' = "up" /\ aged' = {} /\ failed' = FALSE
      \/ gateway' = "insert" /\ UNCHANGED <<aged, failed>>
  BY DEF CheckDevKey, DevKeyStillValid, Listen
<1>3. TypeOK' /\ ProcessHasItsCommand'
  BY <1>1, <1>2, GatewayFrame DEF TypeOK
<1>4. IssuedIsStored'
  BY <1>1, <1>2 DEF IssuedIsStored
<1>5. file \in rows \ lapsed => Accepts(file) \/ file \in expired \ lapsed
  BY DEF TypeOK, Accepts
<1>6. DevTokenWorks'
  BY <1>1, <1>2, <1>5 DEF DevTokenWorks, Works, Accepts
<1>7. AwaitedTokenWorks'
  BY <1>1, <1>2, <1>5 DEF AwaitedTokenWorks, Works, Accepts, At
<1> QED
  BY <1>3, <1>4, <1>6, <1>7

LEMMA InsertPreserves ==
  ASSUME LocalRunInv, NEW t \in Token, InsertDevKey(t)
  PROVE  LocalRunInv'
<1> USE DEF LocalRunInv
<1>1. /\ t \in fresh /\ gateway' = "write" /\ issuing' = t
      /\ rows' = rows \cup {t} /\ fresh' = fresh \ {t}
      /\ UNCHANGED <<file, expired, lapsed, aged, failed, config, cmd, proc>>
  BY DEF InsertDevKey, age
<1>2. TypeOK' /\ ProcessHasItsCommand'
  BY <1>1, GatewayFrame DEF TypeOK, Key
<1>3. IssuedIsStored'
  BY <1>1 DEF IssuedIsStored
<1>4. DevTokenWorks'
  BY <1>1 DEF DevTokenWorks
<1>5. AwaitedTokenWorks'
  BY <1>1 DEF AwaitedTokenWorks, Works, Accepts, At
<1> QED
  BY <1>2, <1>3, <1>4, <1>5

LEMMA WritePreserves ==
  ASSUME LocalRunInv, InsertDevKeyFails \/ WriteDevToken
  PROVE  LocalRunInv'
<1> USE DEF LocalRunInv
<1>1. /\ gateway' = "up" /\ aged' = {}
      /\ UNCHANGED <<rows, fresh, expired, lapsed, config, cmd, proc>>
      /\ \/ /\ file' = issuing /\ failed' = FALSE /\ issuing' = NoKey
            /\ issuing \in rows \ expired
         \/ failed' = TRUE /\ file' \in {file, NoKey} /\ issuing' \in {issuing, NoKey}
  BY DEF InsertDevKeyFails, WriteDevToken, Listen, IssuedIsStored, age
<1>2. TypeOK' /\ ProcessHasItsCommand'
  BY <1>1, GatewayFrame DEF TypeOK, Key
<1>3. IssuedIsStored'
  BY <1>1 DEF IssuedIsStored
<1>4. issuing \in rows \ expired => Accepts(issuing)
  BY DEF TypeOK, Accepts
<1>5. DevTokenWorks' /\ AwaitedTokenWorks'
  BY <1>1, <1>4 DEF DevTokenWorks, AwaitedTokenWorks, Works, Accepts
<1> QED
  BY <1>2, <1>3, <1>5

LEMMA StopPreserves ==
  ASSUME LocalRunInv, GatewayStops \/ Tidy
  PROVE  LocalRunInv'
<1> USE DEF LocalRunInv
<1>1. /\ gateway' = "down" /\ issuing' \in {issuing, NoKey} /\ rows' \in {rows, {}}
      /\ file' \in {file, NoFile}
      /\ UNCHANGED <<fresh, expired, lapsed, aged, failed, config, cmd, proc>>
  BY DEF GatewayStops, Tidy, age
<1>2. TypeOK' /\ ProcessHasItsCommand'
  BY <1>1, GatewayFrame DEF TypeOK, Key
<1>3. IssuedIsStored' /\ DevTokenWorks'
  BY <1>1 DEF IssuedIsStored, DevTokenWorks
<1>4. AwaitedTokenWorks'
  BY <1>1, LocalRunAssumption DEF AwaitedTokenWorks, Works, Accepts, At
<1> QED
  BY <1>2, <1>3, <1>4

\* A token that expires has not lapsed yet.
LEMMA ExpirePreserves ==
  ASSUME LocalRunInv, NEW t \in Token, Expire(t)
  PROVE  LocalRunInv'
<1> USE DEF LocalRunInv
<1>1. /\ t \notin fresh /\ t # issuing /\ t \notin expired /\ expired' = expired \cup {t}
      /\ UNCHANGED <<gateway, issuing, file, rows, fresh, lapsed, aged, failed, config, cmd, proc>>
  BY DEF Expire, gatewayVars
<1>2. t \notin lapsed /\ TypeOK' /\ ProcessHasItsCommand'
  BY <1>1, GatewayFrame DEF TypeOK
<1>3. IssuedIsStored'
  BY <1>1 DEF IssuedIsStored
<1>4. DevTokenWorks'
  BY <1>1, <1>2 DEF DevTokenWorks, Works, Accepts
<1>5. AwaitedTokenWorks'
  BY <1>1, <1>2 DEF AwaitedTokenWorks, Works, Accepts, At
<1> QED
  BY <1>2, <1>3, <1>4, <1>5

\* A token that lapses under a gateway that listens, or under a command that waits, is noted.
LEMMA LapsePreserves ==
  ASSUME LocalRunInv, NEW t \in Token, Lapse(t)
  PROVE  LocalRunInv'
<1> USE DEF LocalRunInv
<1>1. /\ t \in expired /\ lapsed' = lapsed \cup {t}
      /\ UNCHANGED <<gateway, issuing, file, rows, fresh, expired, failed, config, cmd, proc>>
  BY DEF Lapse
<1>2. /\ aged \subseteq aged' /\ aged' \subseteq aged \cup {t}
      /\ gateway = "up" \/ (\E c \in Cmd : At(c, "token")) => t \in aged'
  BY DEF Lapse, At
<1>3. TypeOK' /\ ProcessHasItsCommand'
  BY <1>1, <1>2, GatewayFrame DEF TypeOK
<1>4. IssuedIsStored'
  BY <1>1 DEF IssuedIsStored
<1>5. DevTokenWorks'
  BY <1>1, <1>2 DEF DevTokenWorks, Works, Accepts
<1>6. AwaitedTokenWorks'
  BY <1>1, <1>2 DEF AwaitedTokenWorks, Works, Accepts, At
<1> QED
  BY <1>3, <1>4, <1>5, <1>6

-----------------------------------------------------------------------------
\* LocalRunInv is an invariant, whatever happens to the gateway and its files.
THEOREM LocalRunInvariance == Spec => []LocalRunInv
<1>1. Init => LocalRunInv
  <2> SUFFICES ASSUME Init PROVE LocalRunInv
    OBVIOUS
  <2>1. PICK flag \in Flag :
          cmd = [c \in Cmd |-> [pc |-> "new", flag |-> flag, key |-> NoKey, late |-> FALSE]]
    BY DEF Init
  <2>2. cmd \in [Cmd -> Command] /\ \A c \in Cmd : cmd[c].pc = "new"
    BY <2>1 DEF Command, PC, Key
  <2>3. failed \in BOOLEAN /\ file \in Key \cup {NoFile} /\ issuing \in Key /\ config \in Key
    BY DEF Init, Key
  <2>4. TypeOK
    BY <2>2, <2>3 DEF Init, TypeOK, Command, PC
  <2> QED
    BY <2>2, <2>4
       DEF Init, LocalRunInv, ProcessHasItsCommand, IssuedIsStored, DevTokenWorks, AwaitedTokenWorks,
           At
<1>2. LocalRunInv /\ [Next]_vars => LocalRunInv'
  <2> SUFFICES ASSUME LocalRunInv, [Next]_vars PROVE LocalRunInv'
    OBVIOUS
  <2>1. CASE CheckDevKey \/ InsertDevKeyFails \/ WriteDevToken \/ GatewayStops \/ Tidy
    BY <2>1, CheckPreserves, WritePreserves, StopPreserves
  <2>2. ASSUME NEW t \in Token, InsertDevKey(t) \/ Expire(t) \/ Lapse(t) PROVE LocalRunInv'
    BY <2>2, InsertPreserves, ExpirePreserves, LapsePreserves
  <2>3. ASSUME NEW c \in Cmd, Step(c) PROVE LocalRunInv'
    <3>1. CommandStep(c)
      BY <2>3, EarlySteps, WorkerSteps, WorkSteps, CleanupSteps DEF Step
    <3> QED
      BY <3>1, CommandStepPreserves
  <2>4. ASSUME NEW c \in Cmd,
               \/ Killed(c) \/ DeadlinePasses(c) \/ ProcessExits(c) \/ PipeCloses(c)
               \/ WaitReturns(c) \/ \E flag \in Flag : Start(c, flag)
        PROVE  LocalRunInv'
    <3>1. CommandStep(c)
      BY <2>4, EnvironmentSteps, StartStep
    <3> QED
      BY <3>1, CommandStepPreserves
  <2>5. CASE UNCHANGED vars
    BY <2>5 DEF vars, LocalRunInv, TypeOK, ProcessHasItsCommand, IssuedIsStored, DevTokenWorks,
                AwaitedTokenWorks, Works, Accepts, At
  <2> QED
    BY <2>1, <2>2, <2>3, <2>4, <2>5 DEF Next
<1> QED
  BY <1>1, <1>2, PTL DEF Spec

\* ensureStack and stop: a command that has ended has no live process, unless it keeps its worker.
THEOREM NoProcessIsLeftBehind == Spec => []NoProcessOutlivesItsCommand
<1>1. LocalRunInv => NoProcessOutlivesItsCommand
  BY DEF LocalRunInv, ProcessHasItsCommand, NoProcessOutlivesItsCommand, WithProcess, At
<1> QED
  BY <1>1, LocalRunInvariance, PTL

\* bootstrapDevKey: the token in the file has a row and is accepted, but for its age.
THEOREM BootstrapLeavesAToken == Spec => []DevTokenWorks
<1>1. LocalRunInv => DevTokenWorks
  BY DEF LocalRunInv
<1> QED
  BY <1>1, LocalRunInvariance, PTL

\* waitForDevToken: the token a command reads is one the gateway accepts, but for its age.
THEOREM CommandsReadAToken == Spec => BootstrappedKeyWorks
<1> DEFINE ReadsOne == \A c \in Cmd :
                      At(c, "token") /\ cmd'[c].pc = "worker" /\ cmd'[c].key # NoKey =>
                        cmd'[c].key = cmd[c].flag.apiKey \/ Works(cmd'[c].key) \/ failed
<1>1. LocalRunInv /\ [Next]_vars => [ReadsOne]_vars
  <2> SUFFICES ASSUME LocalRunInv, [Next]_vars, NEW c \in Cmd,
                      At(c, "token"), cmd'[c].pc = "worker", cmd'[c].key # NoKey
               PROVE  cmd'[c].key = cmd[c].flag.apiKey \/ Works(cmd'[c].key) \/ failed
    OBVIOUS
  <2>1. ASSUME NEW d \in Cmd, d # c, NEW q, cmd' = [cmd EXCEPT ![d] = q] PROVE FALSE
    BY <2>1 DEF LocalRunInv, TypeOK, At
  <2>2. cmd' # cmd
    BY DEF At
  <2>3. ASSUME NEW d \in Cmd, Step(d) \/ Killed(d) \/ DeadlinePasses(d) \/ ProcessExits(d)
                              \/ PipeCloses(d) \/ WaitReturns(d)
                              \/ \E flag \in Flag : Start(d, flag)
        PROVE  d = c
    <3>1. CommandStep(d)
      BY <2>3, EarlySteps, WorkerSteps, WorkSteps, CleanupSteps, EnvironmentSteps, StartStep
         DEF Step
    <3> QED
      BY <2>1, <3>1 DEF CommandStep
  <2>4. Step(c) \/ Killed(c) \/ DeadlinePasses(c) \/ ProcessExits(c) \/ PipeCloses(c)
        \/ WaitReturns(c) \/ \E flag \in Flag : Start(c, flag)
    BY <2>2, <2>3 DEF Next, vars, CheckDevKey, InsertDevKeyFails, WriteDevToken, GatewayStops, Tidy,
                      InsertDevKey, Expire, Lapse
  <2>5. cmd'[c].pc = "worker" /\ At(c, "token")
    OBVIOUS
  <2>6. ReadDevToken(c)
    BY <2>4, <2>5
    DEF Step, Killed, DeadlinePasses, ProcessExits, PipeCloses, WaitReturns, Start, Load,
        ProbeServer, AwaitServer, EnsureWorker, Grace, AwaitWorker, Submit, PollJob, ShowCampaign, Follow, Report,
        Cleanup, Reap, At, Goto, LocalRunInv, TypeOK
  <2>7. cmd'[c].key = Override(c, file) /\ file \in Key
    BY <2>5, <2>6 DEF ReadDevToken, Return, Goto, LocalRunInv, TypeOK, Key
  <2>8. CASE cmd[c].flag.apiKey # NoKey
    BY <2>7, <2>8 DEF Override
  <2>9. CASE cmd[c].flag.apiKey = NoKey
    <3>1. cmd'[c].key = file /\ file \in Token
      BY <2>7, <2>9 DEF Override, Key
    <3> QED
      BY <2>5, <3>1 DEF LocalRunInv, AwaitedTokenWorks
  <2> QED
    BY <2>8, <2>9
<1> QED
  BY <1>1, LocalRunInvariance, PTL DEF Spec, BootstrappedKeyWorks
=============================================================================
