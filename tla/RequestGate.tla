----------------------------- MODULE RequestGate -----------------------------
(***************************************************************************)
(* What stands between a client and the gateway's handlers: the tokens     *)
(* and their verification cache (internal/auth/apikey.go), the rate        *)
(* limiter and the scopes (middleware.go), in the order cmd/gateway        *)
(* chains them, and the issue of API keys.                                 *)
(*                                                                         *)
(* Handlers of concurrent requests interleave: one step is one reading of  *)
(* the clock, one operation on the cache or on a bucket, or one SQL        *)
(* statement.  Time is counted in ticks.                                   *)
(***************************************************************************)
EXTENDS Integers, FiniteSets, FiniteSetsExt

CONSTANTS
  Request,     \* requests in flight at the same time
  Token,       \* the tokens that may be issued
  FirstToken,  \* the one the installation starts with
  Tenant,      \* tenants
  TenantOf,    \* TenantOf[t], ScopesOf[t]: the claims of t
  ScopesOf,
  Minute,      \* ticks in a minute
  Limit,       \* requests per minute and tenant
  TTL,         \* ticks verified claims stay in the cache
  Lifetime,    \* ticks from the issue of a token to its expiry
  MaxTime      \* bound: the clock

\* jobs:write, configs:write and metrics:read are to the gate what jobs:read is.
Scope == {"jobs:read", "admin:all"}

ASSUME GateAssumption ==
  /\ IsFiniteSet(Request) /\ FirstToken \in Token
  /\ TenantOf \in [Token -> Tenant] /\ ScopesOf \in [Token -> SUBSET Scope]
  /\ {Minute, Limit, TTL, Lifetime} \subseteq Nat \ {0} /\ MaxTime \in Nat

VARIABLES
  now,       \* the clock
  expires,   \* expires[t]: when t expires, 0 while it is not issued
  cache,     \* cache[t]: when the claims of t leave the cache, 0 if they are not in it
  buckets,   \* buckets[n][m]: the count of tenant n's bucket for minute m
  req,       \* the requests
  lag,       \* longest time a Verify of this process took from its parse to its store (history)
  passed     \* passed[n][m]: requests of n let through while the clock was in minute m (history)

vars == <<now, expires, cache, buckets, req, passed, lag>>

NoToken   == "none"         \* no token, or one that is not signed by the gateway
MinuteOf  == 0..(MaxTime \div Minute)
NoRequest == [pc |-> "free", token |-> NoToken, scope |-> "jobs:read", parsed |-> 0, minute |-> 0,
              retry |-> 0]

TypeOK ==
  /\ now \in 0..MaxTime
  /\ expires \in [Token -> 0..(MaxTime + Lifetime)] /\ cache \in [Token -> 0..(MaxTime + TTL)]
  /\ buckets \in [Tenant -> [MinuteOf -> Nat]] /\ passed \in [Tenant -> [MinuteOf -> Nat]]
  /\ req \in [Request ->
        [pc : {"free", "verify", "parse", "store", "minute", "retry", "count", "scope", "serve"},
         token : Token \cup {NoToken}, scope : Scope, parsed : 0..MaxTime, minute : MinuteOf,
         retry : Int]]
  /\ lag \in 0..MaxTime

EmptyCache   == [t \in Token |-> 0]
EmptyBuckets == [n \in Tenant |-> [m \in MinuteOf |-> 0]]
Idle         == [r \in Request |-> NoRequest]

Init ==
  /\ now = 0
  /\ expires = [t \in Token |-> IF t = FirstToken THEN Lifetime ELSE 0]
  /\ cache = EmptyCache /\ buckets = EmptyBuckets /\ req = Idle /\ passed = EmptyBuckets
  /\ lag = 0

Tick ==
  /\ now < MaxTime /\ now' = now + 1
  /\ UNCHANGED <<expires, cache, buckets, req, passed, lag>>

\* The gateway stops and is started again: what it had in memory is gone.
Restart ==
  /\ cache' = EmptyCache /\ buckets' = EmptyBuckets /\ req' = Idle
  /\ passed' = EmptyBuckets /\ lag' = 0
  /\ UNCHANGED <<now, expires>>

-----------------------------------------------------------------------------
(* A request on its way through AuthMiddleware, RateLimitMiddleware,       *)
(* RequireScope and the handler.                                           *)

Arrive(r, t, s) ==
  /\ req[r].pc = "free"
  /\ req' = [req EXCEPT ![r] = [NoRequest EXCEPT !.pc = "verify", !.token = t, !.scope = s]]
  /\ UNCHANGED <<now, expires, cache, buckets, passed, lag>>

Answer(r) == req' = [req EXCEPT ![r] = NoRequest]
Goto(r, to) == req' = [req EXCEPT ![r].pc = to]

\* The claims of t are in the cache, and have not left it.
Cached(t) == t \in Token /\ now < cache[t]

\* Mutant: a hit is a use, and keeps the entry.
VerifySliding(r) ==
  /\ req[r].pc = "verify"
  /\ LET t == req[r].token IN
     \/ Cached(t) /\ Goto(r, "minute") /\ cache' = [cache EXCEPT ![t] = now + TTL]
     \/ Goto(r, "parse") /\ UNCHANGED cache
  /\ UNCHANGED <<now, expires, buckets, passed, lag>>

\* Verify, the lookup.  It may also miss what was stored: the cache buffers what it is given, and
\* may drop it.
Verify(r) ==
  /\ req[r].pc = "verify"
  /\ \/ Cached(req[r].token) /\ Goto(r, "minute")
     \/ Goto(r, "parse")
  /\ UNCHANGED <<now, expires, cache, buckets, passed, lag>>

\* ParseWithClaims accepts the token.
Valid(t) == t \in Token /\ now < expires[t]

\* Verify after a miss.  parsed is the clock the parser compared with the expiry.
ParseToken(r) ==
  /\ req[r].pc = "parse"
  /\ \/ /\ Valid(req[r].token)
        /\ req' = [req EXCEPT ![r].pc = "store", ![r].parsed = now]
     \/ ~Valid(req[r].token) /\ Answer(r)
  /\ UNCHANGED <<now, expires, cache, buckets, passed, lag>>

\* Verify, SetWithTTL: the cache counts the TTL from its own reading of the clock.
StoreClaims(r) ==
  /\ req[r].pc = "store"
  /\ cache' = [cache EXCEPT ![req[r].token] = now + TTL]
  /\ lag' = Max({lag, now - req[r].parsed})
  /\ req' = [req EXCEPT ![r].pc = "minute", ![r].parsed = 0]
  /\ UNCHANGED <<now, expires, buckets, passed>>

\* minute, the first reading of the clock.
ReadMinute(r) ==
  /\ req[r].pc = "minute"
  /\ req' = [req EXCEPT ![r].pc = "retry", ![r].minute = now \div Minute]
  /\ UNCHANGED <<now, expires, cache, buckets, passed, lag>>

\* Mutant: the rest of the minute is counted from zero.
ReadRetryAfterShort(r) ==
  /\ req[r].pc = "retry"
  /\ req' = [req EXCEPT ![r].pc = "count", ![r].retry = Minute - 1 - (now % Minute)]
  /\ UNCHANGED <<now, expires, cache, buckets, passed, lag>>

\* retryAfter, the second reading.
ReadRetryAfter(r) ==
  /\ req[r].pc = "retry"
  /\ req' = [req EXCEPT ![r].pc = "count", ![r].retry = (req[r].minute + 1) * Minute - now]
  /\ UNCHANGED <<now, expires, cache, buckets, passed, lag>>

\* Mutant: the limit is compared with the count before this request.
AdmitsOneMore(count) == count <= Limit

Admits(count) == count < Limit

\* The critical section of the bucket: the request is counted, or answered with 429.
CountRequest(r) ==
  /\ req[r].pc = "count"
  /\ LET n == TenantOf[req[r].token]
         m == req[r].minute
     IN  \/ /\ Admits(buckets[n][m])
            /\ buckets' = [buckets EXCEPT ![n][m] = @ + 1]
            /\ passed' = [passed EXCEPT ![n][now \div Minute] = @ + 1]
            /\ Goto(r, "scope")
         \/ ~Admits(buckets[n][m]) /\ Answer(r) /\ UNCHANGED <<buckets, passed>>
  /\ UNCHANGED <<now, expires, cache, lag>>

HasScope(t, required) == {"admin:all", required} \cap ScopesOf[t] # {}

\* RequireScope.  Of the handlers behind it only the one of /v1/admin/apikeys concerns the gate.
RequireScope(r) ==
  /\ req[r].pc = "scope"
  /\ IF HasScope(req[r].token, req[r].scope) /\ req[r].scope = "admin:all"
     THEN Goto(r, "serve")
     ELSE Answer(r)
  /\ UNCHANGED <<now, expires, cache, buckets, passed, lag>>

\* CreateAPIKey: the request is refused, or its row cannot be inserted and nobody gets the token.
RejectAPIKey(r) ==
  /\ req[r].pc = "serve"
  /\ Answer(r)
  /\ UNCHANGED <<now, expires, cache, buckets, passed, lag>>

\* Issue: a token that expires a lifetime from now.
Issue(t) == expires' = [expires EXCEPT ![t] = now + Lifetime]

\* CreateAPIKey: t is issued.
CreateAPIKey(r, t) ==
  /\ req[r].pc = "serve" /\ expires[t] = 0
  /\ Issue(t)
  /\ Answer(r)
  /\ UNCHANGED <<now, cache, buckets, passed, lag>>

-----------------------------------------------------------------------------
Handle(r) ==
  \/ Verify(r) \/ ParseToken(r) \/ StoreClaims(r)
  \/ ReadMinute(r) \/ ReadRetryAfter(r) \/ CountRequest(r) \/ RequireScope(r)
  \/ RejectAPIKey(r)
  \/ \E t \in Token : CreateAPIKey(r, t)

Next ==
  \/ Tick \/ Restart
  \/ \E r \in Request :
       \/ Handle(r)
       \/ \E t \in Token \cup {NoToken}, s \in Scope : Arrive(r, t, s)

Spec == Init /\ [][Next]_vars

-----------------------------------------------------------------------------
\* Verify accepts a token for no longer than its lifetime, the TTL of the cache and the longest time
\* a request has spent between ParseWithClaims and SetWithTTL: a token may expire in between, and
\* its claims are stored for a whole TTL all the same, but however often, and from however many
\* concurrent requests, a client uses a cached token, it does not prolong it.
ExpiredTokensFade ==
  [][\A r \in Request :
       req[r].pc \in {"verify", "store"} /\ req'[r].pc = "minute" =>
         expires[req[r].token] # 0 /\ now < expires[req[r].token] + TTL + lag']_vars

\* A gateway lets no more than Limit requests of a tenant through in a minute, apart from those
\* that were already on their way when the minute began and are counted in its predecessor.
LimitPerMinute ==
  \A n \in Tenant, m \in MinuteOf : passed[n][m] <= Limit + Cardinality(Request)

\* A client that waits for retry_after seconds after a 429 is counted in another bucket, although
\* the minute may change between the two readings of the clock, or before the answer.
RetryAfterSuffices ==
  [][\A r \in Request :
       req[r].pc = "count" /\ req'[r].pc = "free" =>
         (now + req[r].retry) \div Minute > req[r].minute]_vars

-----------------------------------------------------------------------------
(* The inductive invariant behind the theorems of RequestGateProofs.       *)

CurrentMinute == now \div Minute

\* A request that has passed AuthMiddleware has a token of the gateway.
HasToken ==
  \A r \in Request : req[r].pc \notin {"free", "verify", "parse"} => req[r].token \in Token

BucketsAreBounded == \A n \in Tenant, m \in MinuteOf : buckets[n][m] <= Limit

\* The minute a request will be counted in has begun, and nothing has passed in one that has not.
MinutesAreReal ==
  /\ \A r \in Request : req[r].pc \in {"retry", "count"} => req[r].minute <= CurrentMinute
  /\ \A n \in Tenant, m \in MinuteOf : m > CurrentMinute => passed[n][m] = 0

\* The requests that will be counted in a minute that is over.
Late == {r \in Request : req[r].pc \in {"retry", "count"} /\ req[r].minute < CurrentMinute}

\* What has passed in this minute beyond its bucket were late requests, and each slot is late at
\* most once in a minute.
OvershootIsLate ==
  \A n \in Tenant :
    passed[n][CurrentMinute] + Cardinality(Late)
      <= buckets[n][CurrentMinute] + Cardinality(Request)

\* A request stores claims it has parsed while their token was valid.
ParsedInTime ==
  \A r \in Request :
    req[r].pc = "store" => req[r].parsed <= now /\ req[r].parsed < expires[req[r].token]

\* Claims in the cache are those of a token that was valid at most lag before they were put there.
CacheFades ==
  \A t \in Token : cache[t] # 0 => expires[t] # 0 /\ cache[t] < expires[t] + TTL + lag

RetryCoversMinute ==
  \A r \in Request : req[r].pc = "count" => now + req[r].retry >= (req[r].minute + 1) * Minute

GateInv ==
  /\ TypeOK /\ HasToken /\ BucketsAreBounded /\ MinutesAreReal /\ OvershootIsLate
  /\ LimitPerMinute /\ ParsedInTime /\ CacheFades /\ RetryCoversMinute
=============================================================================
