------------------------------ MODULE LocalRun ------------------------------
(***************************************************************************)
(* `inferbolt run` and `inferbolt agent` on a developer's machine          *)
(* (cmd/inferbolt): a command brings the stack up, finds itself a key,     *)
(* starts a worker if the orchestrator lists no idle one, submits its      *)
(* work, waits for it and stops what it started.  The gateway it waits for *)
(* bootstraps the key of the dev tenant into a file (cmd/gateway).         *)
(*                                                                         *)
(* A step of a command is one probe, request, file access or operation on  *)
(* its child process.  What the orchestrator and the job answer is free at *)
(* every request: other clients and workers change it all the time.        *)
(***************************************************************************)
EXTENDS FiniteSets

CONSTANTS
  Cmd,      \* commands; they share ~/.inferbolt/config.yaml and the gateway
  Token,    \* bound: the tokens the gateway may issue to the dev tenant, under one JWT_SECRET
  Flag,     \* the flags a command may be started with
  NoKey,    \* the empty string, in the token file and in the config
  NoFile    \* there is no token file

Kind == {"run", "agent", "detach"}    \* detach: agent --detach

Key == Token \cup {NoKey}

ASSUME LocalRunAssumption ==
  /\ IsFiniteSet(Token) /\ {NoKey, NoFile} \cap Token = {} /\ NoKey # NoFile
  /\ Flag \subseteq [kind : Kind, keepWorker : BOOLEAN, apiKey : Key]   \* NoKey: no --api-key

VARIABLES
  gateway,  \* "down", a step of bootstrapDevKey, or "up": it listens
  issuing,  \* the token bootstrapDevKey has just issued
  file,     \* DEV_TOKEN_FILE, mounted as .inferbolt-dev/dev-token
  rows,     \* the tokens whose hash is in api_keys
  fresh,    \* the tokens not issued yet
  expired,  \* the tokens whose exp has passed, 30 days after Issue in whole seconds
  lapsed,   \* those of them whose row's expires_at, read off the clock later, has passed too
  aged,     \* the tokens that lapsed under a gateway that is up, or under the eyes of a
            \* command that waits for one, since the gateway last came up (history)
  failed,   \* that time its bootstrap failed (history)
  config,   \* api_key in ~/.inferbolt/config.yaml
  cmd,      \* the commands
  proc      \* proc[c]: the process c started

gatewayVars == <<gateway, issuing, file, rows, fresh, aged, failed>>
age == <<expired, lapsed>>
vars == <<gateway, issuing, file, rows, fresh, expired, lapsed, aged, failed, config, cmd, proc>>

TypeOK ==
  /\ gateway \in {"down", "check", "insert", "write", "up"} /\ issuing \in Key
  /\ file \in Key \cup {NoFile} /\ config \in Key
  /\ rows \cap fresh = {} /\ rows \cup fresh \cup expired \cup aged \subseteq Token
  /\ lapsed \subseteq expired
  /\ failed \in BOOLEAN
  /\ cmd \in [Cmd -> [pc : {"new", "load", "health", "healthy", "token", "worker", "grace", "await",
                            "submit", "poll", "summary", "follow", "results", "cleanup", "reap",
                            "end", "killed"},
                      flag : Flag, key : Key, late : BOOLEAN]]
  /\ proc \in [Cmd -> {"none", "alive", "held", "exited", "sent", "taken"}]

Init ==
  /\ gateway = "down" /\ issuing = NoKey /\ file \in {NoKey, NoFile}
  /\ rows = {} /\ fresh = Token /\ expired = {} /\ lapsed = {} /\ aged = {} /\ failed = FALSE
  /\ config = NoKey
  /\ \E flag \in Flag :
       cmd = [c \in Cmd |-> [pc |-> "new", flag |-> flag, key |-> NoKey, late |-> FALSE]]
  /\ proc = [c \in Cmd |-> "none"]

\* The gateway verifies t: it was signed with JWT_SECRET, which is the same for all of Token, and
\* its exp has not passed.  The row is not looked at.
Accepts(t) == t \in Token \ (fresh \cup expired)

-----------------------------------------------------------------------------
(* The gateway.                                                            *)

\* Mutant: the expiry of the row is not looked at.
DevKeyInTable(t) == t \in rows

\* The row is there and its expires_at has not passed; the exp of the token may have.
DevKeyStillValid(t) == t \in rows \ lapsed

\* ListenAndServe comes after the bootstrap, whether that went wrong or not.
Listen(wrong) == gateway' = "up" /\ aged' = {} /\ failed' = wrong

\* bootstrapDevKey reads the file and asks for the row; an error of either means not valid.
CheckDevKey ==
  /\ gateway = "check"
  /\ \/ DevKeyStillValid(file) /\ Listen(FALSE)
     \/ gateway' = "insert" /\ UNCHANGED <<aged, failed>>
  /\ UNCHANGED <<issuing, file, rows, fresh, age, config, cmd, proc>>

\* Issue and INSERT.
InsertDevKey(t) ==
  /\ gateway = "insert" /\ t \in fresh
  /\ gateway' = "write" /\ issuing' = t /\ rows' = rows \cup {t} /\ fresh' = fresh \ {t}
  /\ UNCHANGED <<file, age, aged, failed, config, cmd, proc>>

\* The error of the bootstrap is logged and the gateway listens all the same.
InsertDevKeyFails ==
  /\ gateway = "insert" /\ Listen(TRUE)
  /\ UNCHANGED <<issuing, file, rows, fresh, age, config, cmd, proc>>

\* WriteFile, which truncates the file before it writes.
WriteDevToken ==
  /\ gateway = "write" /\ issuing' = NoKey
  /\ \/ file' = issuing /\ Listen(FALSE)
     \/ file' \in {file, NoKey} /\ Listen(TRUE)
  /\ UNCHANGED <<rows, fresh, age, config, cmd, proc>>

\* The gateway stops or dies, in the middle of its bootstrap too.
GatewayStops ==
  /\ gateway # "down" /\ gateway' = "down" /\ issuing' = NoKey
  /\ UNCHANGED <<file, rows, fresh, age, aged, failed, config, cmd, proc>>

\* docker compose down -v, or .inferbolt-dev removed.
Tidy ==
  /\ gateway = "down"
  /\ rows' \in {rows, {}} /\ file' \in {file, NoFile}
  /\ UNCHANGED <<gateway, issuing, fresh, age, aged, failed, config, cmd, proc>>

\* Thirty days have passed since Issue; a start takes less.
Expire(t) ==
  /\ t \notin fresh \cup {issuing} \cup expired
  /\ expired' = expired \cup {t}
  /\ UNCHANGED <<gatewayVars, lapsed, config, cmd, proc>>

\* And since expiresAt was computed.
Lapse(t) ==
  /\ t \in expired \ lapsed
  /\ lapsed' = lapsed \cup {t}
  /\ aged' = IF gateway = "up" \/ \E c \in Cmd : cmd[c].pc = "token" THEN aged \cup {t} ELSE aged
  /\ UNCHANGED <<gateway, issuing, file, rows, fresh, expired, failed, config, cmd, proc>>

-----------------------------------------------------------------------------
(* A command: ensureStack.                                                 *)

At(c, pc) == cmd[c].pc = pc

\* late says that the deadline of the loop c is in has passed.
Goto(c, pc) == cmd' = [cmd EXCEPT ![c].pc = pc, ![c].late = FALSE]

\* ensureStack returns an error before there is anything to clean up.
Return(c) == Goto(c, "end")

\* A command is typed in, also after an earlier one; a process left behind by that one is from
\* now on one of the workers the orchestrator may list.
Start(c, flag) ==
  /\ cmd[c].pc \in {"new", "end", "killed"} /\ flag.apiKey \notin fresh
  /\ cmd' = [cmd EXCEPT ![c] = [pc |-> "load", flag |-> flag, key |-> NoKey, late |-> FALSE]]
  /\ proc' = [proc EXCEPT ![c] = "none"]
  /\ UNCHANGED <<gatewayVars, age, config>>

\* applyFlagOverrides: --api-key goes before key.
Override(c, key) == IF cmd[c].flag.apiKey = NoKey THEN key ELSE cmd[c].flag.apiKey

\* cli.Load: a key that is there is used as it is, but for --api-key; an empty one is no key, and
\* --api-key does not spare the command the wait for the token file.
Load(c) ==
  /\ At(c, "load")
  /\ \/ Return(c)                    \* an unreadable home or config, no key and a remote --server
     \/ cmd' = [cmd EXCEPT ![c].pc = "health",
                        ![c].key = IF config = NoKey THEN NoKey ELSE Override(c, config)]
  /\ UNCHANGED <<gatewayVars, age, config, proc>>

\* The key is there, or it has to be read from the token file.
ServerHealthy(c) == Goto(c, IF cmd[c].key = NoKey THEN "token" ELSE "worker")

\* docker compose up -d leaves a service that runs alone.
ComposeUp == gateway' = IF gateway = "down" THEN "check" ELSE gateway

\* ensureServerHealthy, up to the loop.  A gateway that listens may still not be healthy.
ProbeServer(c) ==
  /\ At(c, "health")
  /\ \/ gateway = "up" /\ ServerHealthy(c) /\ UNCHANGED gateway
     \/ Return(c) /\ UNCHANGED gateway          \* no docker-compose.yml, or docker fails
     \/ ComposeUp /\ Goto(c, "healthy")
  /\ UNCHANGED <<issuing, file, rows, fresh, age, aged, failed, config, proc>>

\* Mutant: docker compose up -d has returned, so the services are up.
AwaitServerNot(c) ==
  /\ At(c, "healthy") /\ ServerHealthy(c)
  /\ UNCHANGED <<gatewayVars, age, config, proc>>

\* ensureServerHealthy, the loop.
AwaitServer(c) ==
  /\ At(c, "healthy")
  /\ \/ gateway = "up" /\ ~cmd[c].late /\ ServerHealthy(c)
     \/ cmd[c].late /\ Return(c)
  /\ UNCHANGED <<gatewayVars, age, config, proc>>

\* Save, or a warning that it failed, maybe after the file was truncated.
Save(key) == config' \in {config, key, NoKey}

\* waitForDevToken.  A file that is missing or cannot be read is an error once the time is up.
\* An empty file that can be read leaves none to return: the command goes on with an empty key.
ReadDevToken(c) ==
  /\ At(c, "token")
  /\ \/ /\ file \in Token \/ (cmd[c].late /\ file = NoKey)
        /\ cmd' = [cmd EXCEPT ![c].pc = "worker", ![c].key = Override(c, file),
                               ![c].late = FALSE]
        /\ Save(Override(c, file))
     \/ cmd[c].late /\ Return(c) /\ UNCHANGED config
  /\ UNCHANGED <<gatewayVars, age, proc>>

\* spawnLocalWorker or spawnRemoteWorkerSSH: no port, no python or no ssh, or a process.
Spawn(c) ==
  \/ Return(c) /\ UNCHANGED proc
  \/ Goto(c, "grace") /\ proc' = [proc EXCEPT ![c] = "alive"]

\* HasIdleWorker: yes, no or an error.
EnsureWorker(c) ==
  /\ At(c, "worker")
  /\ \/ Goto(c, "submit") /\ UNCHANGED proc
     \/ Return(c) /\ UNCHANGED proc
     \/ Spawn(c)
  /\ UNCHANGED <<gatewayVars, age, config>>

\* startManagedProcess: half a second for the process to exit.
Grace(c) ==
  /\ At(c, "grace")
  /\ \/ proc[c] = "sent" /\ Return(c) /\ proc' = [proc EXCEPT ![c] = "taken"]
     \/ Goto(c, "await") /\ UNCHANGED proc
  /\ UNCHANGED <<gatewayVars, age, config>>

\* Mutant: the error is returned and the worker forgotten.
AwaitWorkerForgets(c) ==
  /\ At(c, "await")
  /\ Goto(c, "submit") \/ (cmd[c].late /\ Return(c))
  /\ UNCHANGED <<gatewayVars, age, config, proc>>

\* waitForIdleWorker; on a timeout ensureStack cleans up itself.
AwaitWorker(c) ==
  /\ At(c, "await")
  /\ Goto(c, "submit") \/ (cmd[c].late /\ Goto(c, "cleanup"))
  /\ UNCHANGED <<gatewayVars, age, config, proc>>

-----------------------------------------------------------------------------
(* The work, and the deferred cleanup.                                     *)

Answers(c) == gateway = "up" /\ Accepts(cmd[c].key)

\* CreateJob or CreateCampaign; the answer may get lost.
Submit(c) ==
  /\ At(c, "submit")
  /\ \/ Goto(c, "cleanup")
     \/ Answers(c) /\ cmd[c].flag.kind = "run"   /\ Goto(c, "poll")
     \/ Answers(c) /\ cmd[c].flag.kind = "agent" /\ Goto(c, "summary")
  /\ UNCHANGED <<gatewayVars, age, config, proc>>

\* PollJob: the deadline, or a terminal state; an error only means another round.
PollJob(c) ==
  /\ At(c, "poll")
  /\ \/ cmd[c].late /\ Goto(c, "cleanup")
     \/ ~cmd[c].late /\ Answers(c) /\ (Goto(c, "results") \/ Goto(c, "cleanup"))
  /\ UNCHANGED <<gatewayVars, age, config, proc>>

\* GetCampaign, for the summary.
ShowCampaign(c) ==
  /\ At(c, "summary")
  /\ Goto(c, "cleanup") \/ (Answers(c) /\ Goto(c, "follow"))
  /\ UNCHANGED <<gatewayVars, age, config, proc>>

\* followCampaign: the page that says the campaign is done.  Any other page and any error only
\* means another round, without a deadline.
Follow(c) ==
  /\ At(c, "follow") /\ Answers(c) /\ Goto(c, "results")
  /\ UNCHANGED <<gatewayVars, age, config, proc>>

\* GetJobResults or, in printFinalCampaign, GetCampaign; and the output.
Report(c) ==
  /\ At(c, "results") /\ Goto(c, "cleanup")
  /\ UNCHANGED <<gatewayVars, age, config, proc>>

\* The process is dead.  A child of its own, such as the Python of `uv run`, may live on and hold
\* the pipe that Wait copies its output from.
Dies(c) ==
  /\ proc[c] = "alive"
  /\ \E p \in {"held", "exited"} : proc' = [proc EXCEPT ![c] = p]

\* Mutant: the channel is read a second time.
CleanupTwice(c) ==
  /\ At(c, "cleanup")
  /\ \/ (proc[c] = "none" \/ cmd[c].flag.keepWorker) /\ Goto(c, "end") /\ UNCHANGED proc
     \/ /\ proc[c] \notin {"none", "sent"} /\ ~cmd[c].flag.keepWorker /\ Goto(c, "reap")
        /\ Dies(c) \/ (proc[c] # "alive" /\ UNCHANGED proc)
     \/ /\ proc[c] = "sent" /\ ~cmd[c].flag.keepWorker /\ Goto(c, "reap")
        /\ proc' = [proc EXCEPT ![c] = "taken"]
  /\ UNCHANGED <<gatewayVars, age, config>>

\* stop, up to Kill.
Cleanup(c) ==
  /\ At(c, "cleanup")
  /\ \/ (proc[c] = "none" \/ cmd[c].flag.keepWorker) /\ Goto(c, "end") /\ UNCHANGED proc
     \/ /\ proc[c] = "sent" /\ ~cmd[c].flag.keepWorker /\ Goto(c, "end")
        /\ proc' = [proc EXCEPT ![c] = "taken"]
     \/ /\ proc[c] \notin {"none", "sent"} /\ ~cmd[c].flag.keepWorker /\ Goto(c, "reap")
        /\ Dies(c) \/ (proc[c] # "alive" /\ UNCHANGED proc)
  /\ UNCHANGED <<gatewayVars, age, config>>

\* stop, the last receive.
Reap(c) ==
  /\ At(c, "reap") /\ proc[c] = "sent" /\ Goto(c, "end")
  /\ proc' = [proc EXCEPT ![c] = "taken"]
  /\ UNCHANGED <<gatewayVars, age, config>>

-----------------------------------------------------------------------------
(* The environment of a command.                                           *)

Looping(c) == cmd[c].pc \in {"healthy", "token", "await", "poll"}

DeadlinePasses(c) ==
  /\ Looping(c) /\ ~cmd[c].late /\ cmd' = [cmd EXCEPT ![c].late = TRUE]
  /\ UNCHANGED <<gatewayVars, age, config, proc>>

\* The process ends by itself.
ProcessExits(c) ==
  /\ Dies(c)
  /\ UNCHANGED <<gatewayVars, age, config, cmd>>

\* The last holder of the pipe is gone.  Nothing makes it go.
PipeCloses(c) ==
  /\ proc[c] = "held" /\ proc' = [proc EXCEPT ![c] = "exited"]
  /\ UNCHANGED <<gatewayVars, age, config, cmd>>

\* The goroutine of startManagedProcess: Wait returns once the process is dead and the pipe closed.
WaitReturns(c) ==
  /\ proc[c] = "exited" /\ ~At(c, "killed") /\ ~At(c, "end")
  /\ proc' = [proc EXCEPT ![c] = "sent"]
  /\ UNCHANGED <<gatewayVars, age, config, cmd>>

\* A signal: the root command has no handler for it and no deferred call runs.
Killed(c) ==
  /\ cmd[c].pc \notin {"new", "end", "killed"} /\ Goto(c, "killed")
  /\ UNCHANGED <<gatewayVars, age, config, proc>>

Step(c) ==
  \/ Load(c) \/ ProbeServer(c) \/ AwaitServer(c) \/ ReadDevToken(c) \/ EnsureWorker(c)
  \/ Grace(c) \/ AwaitWorker(c) \/ Submit(c) \/ PollJob(c) \/ ShowCampaign(c) \/ Follow(c)
  \/ Report(c) \/ Cleanup(c) \/ Reap(c)

Next ==
  \/ CheckDevKey \/ InsertDevKeyFails \/ WriteDevToken \/ GatewayStops \/ Tidy
  \/ \E t \in Token : InsertDevKey(t) \/ Expire(t) \/ Lapse(t)
  \/ \E c \in Cmd :
       \/ Step(c) \/ Killed(c)
       \/ \E flag \in Flag : Start(c, flag)
       \/ DeadlinePasses(c) \/ ProcessExits(c) \/ PipeCloses(c) \/ WaitReturns(c)

\* A command runs, clocks run, and the goroutine that waits for a process does.  No answer a loop
\* waits for is guaranteed to come, nor that the pipe of a dead process closes.
Fairness ==
  \A c \in Cmd :
    /\ WF_vars((Looping(c) => cmd[c].late) /\ ~At(c, "follow") /\ Step(c))
    /\ WF_vars(DeadlinePasses(c)) /\ WF_vars(WaitReturns(c))

Spec == Init /\ [][Next]_vars /\ Fairness

-----------------------------------------------------------------------------
\* A process that a command started does not outlive it, nor does a child of that process that
\* holds its output, however the command ends, unless it was told to keep its worker or was killed
\* itself.
NoProcessOutlivesItsCommand ==
  \A c \in Cmd : At(c, "end") /\ ~cmd[c].flag.keepWorker => proc[c] \notin {"alive", "held"}

\* A command ends, although the gateway may be gone, its key expired or its worker dead, but in two
\* places: followCampaign has no deadline, and stop waits as long as a child of the dead process
\* holds the pipe.  No other loop is endless, and stop never waits for an exit nobody reports.
CommandsEnd ==
  \A c \in Cmd :
    At(c, "load") ~> \/ cmd[c].pc \in {"end", "killed"}
                     \/ []At(c, "follow")
                     \/ [](At(c, "reap") /\ proc[c] = "held")

\* The gateway accepts t, or has seen it lapse, or t is in the moment between its exp and the
\* expires_at of its row, where the bootstrap takes it for valid and a request does not.
Works(t) == Accepts(t) \/ t \in aged \cup (expired \ lapsed)

\* A gateway that listens and has bootstrapped without an error has left a token in the file that
\* has a row and that it accepts, whatever the database and the file were before, as long as
\* JWT_SECRET stays; only the token's own age may have ended it since.
DevTokenWorks ==
  gateway = "up" /\ ~failed => file \in rows /\ Works(file)

\* The token that a command without a key reads from the file works, as DevTokenWorks says,
\* because the gateway bootstraps before it listens and the command waits until it listens.
BootstrappedKeyWorks ==
  [][\A c \in Cmd :
       At(c, "token") /\ cmd'[c].pc = "worker" /\ cmd'[c].key # NoKey =>
         cmd'[c].key = cmd[c].flag.apiKey \/ Works(cmd'[c].key) \/ failed]_vars

-----------------------------------------------------------------------------
(* The inductive invariant behind the theorems of LocalRunProofs.          *)

\* The labels at which a command may have a process.
WithProcess == {"grace", "await", "submit", "poll", "summary", "follow", "results", "cleanup"}

\* A process belongs to a command that will still come to its cleanup, was killed, or has ended
\* and keeps its worker.
ProcessHasItsCommand ==
  \A c \in Cmd :
    /\ proc[c] # "none" => cmd[c].pc \in WithProcess \cup {"reap", "end", "killed"}
    /\ proc[c] \in {"alive", "held"} =>
         \/ cmd[c].pc \in WithProcess \cup {"killed"} \/ (At(c, "end") /\ cmd[c].flag.keepWorker)
         \/ proc[c] = "held" /\ At(c, "reap")

\* A token that is being written has a row and has not expired; one that was never issued has not.
IssuedIsStored ==
  /\ gateway = "write" => issuing \in rows \ expired
  /\ fresh \cap expired = {}

\* While a command waits for a token, the one in the file works, whatever the gateway does now.
AwaitedTokenWorks ==
  (\E c \in Cmd : At(c, "token")) /\ file \in Token => Works(file) \/ failed

LocalRunInv ==
  /\ TypeOK /\ ProcessHasItsCommand /\ IssuedIsStored /\ DevTokenWorks /\ AwaitedTokenWorks
=============================================================================
