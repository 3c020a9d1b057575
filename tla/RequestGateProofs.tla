-------------------------- MODULE RequestGateProofs --------------------------
(***************************************************************************)
(* Proofs, for any number of concurrent requests, tenants and tokens and   *)
(* for every limit, TTL and lifetime, of what RequestGate promises.        *)
(*                                                                         *)
(* GateInv is inductive.  LimitPerMinute is not: a minute may begin with   *)
(* requests under way that will be counted in its predecessor.             *)
(* OvershootIsLate trades them off: whatever has passed in this minute and *)
(* is not in its bucket was late, and a request that is let through is not *)
(* late any more.                                                          *)
(***************************************************************************)
EXTENDS RequestGate, FiniteSetTheorems, TLAPS

-----------------------------------------------------------------------------
(* Minutes.                                                                *)

LEMMA DivLower ==
  ASSUME NEW a \in Int, NEW b \in Nat \ {0}, NEW q \in Int, q * b <= a
  PROVE  a \div b \in Int /\ q <= a \div b
OBVIOUS

LEMMA DivMonotone ==
  ASSUME NEW a \in Nat, NEW c \in Nat, NEW b \in Nat \ {0}, a <= c
  PROVE  a \div b \in Nat /\ c \div b \in Nat /\ a \div b <= c \div b
OBVIOUS

LEMMA ConstantsAreNumbers ==
  /\ Minute \in Nat \ {0} /\ Limit \in Nat \ {0} /\ TTL \in Nat \ {0} /\ Lifetime \in Nat \ {0}
  /\ MaxTime \in Nat /\ IsFiniteSet(Request) /\ Cardinality(Request) \in Nat
BY GateAssumption, FS_CardinalityType

\* The current minute is one the buckets have.
LEMMA CurrentIsAMinute ==
  ASSUME TypeOK
  PROVE  CurrentMinute \in MinuteOf /\ CurrentMinute \in Nat
<1>1. now \in Nat /\ MaxTime \in Nat /\ now <= MaxTime
  BY ConstantsAreNumbers DEF TypeOK
<1>2. /\ now \div Minute \in Nat /\ MaxTime \div Minute \in Nat
      /\ now \div Minute <= MaxTime \div Minute
  BY <1>1, ConstantsAreNumbers, DivMonotone
<1> QED
  BY <1>2 DEF CurrentMinute, MinuteOf

\* A minute of the model is a number.
LEMMA MinutesAreNumbers == MinuteOf \subseteq Nat
BY DEF MinuteOf

\* The late requests are finitely many, and fewer ones count for less.
LEMMA LateIsFinite ==
  /\ IsFiniteSet(Late) /\ Cardinality(Late) \in Nat /\ Cardinality(Late) <= Cardinality(Request)
  /\ IsFiniteSet(Late') /\ Cardinality(Late') \in Nat
  /\ Cardinality(Late') <= Cardinality(Request)
  /\ Late' \subseteq Late => Cardinality(Late') <= Cardinality(Late)
<1>1. Late \in SUBSET Request /\ Late' \in SUBSET Request
  BY DEF Late
<1> QED
  BY <1>1, ConstantsAreNumbers, FS_Subset, FS_CardinalityType

-----------------------------------------------------------------------------
(* Steps that move one request and count nothing.                          *)

RequestRecord ==
  [pc : {"free", "verify", "parse", "store", "minute", "retry", "count", "scope", "serve"},
   token : Token \cup {NoToken}, scope : Scope, parsed : 0..MaxTime, minute : MinuteOf,
   retry : Int]

LEMMA NoRequestType == NoRequest \in RequestRecord
<1>1. 0 \in MinuteOf
  BY ConstantsAreNumbers, DivMonotone DEF MinuteOf
<1> QED
  BY <1>1, ConstantsAreNumbers DEF NoRequest, RequestRecord, Scope

\* What a request q must be for the invariant: it is not late unless r was before.
Fits(r, q) ==
  /\ q \in RequestRecord
  /\ q.pc \notin {"free", "verify", "parse"} => q.token \in Token
  /\ q.pc = "store" => q.parsed <= now /\ q.parsed < expires[q.token]
  /\ q.pc \in {"retry", "count"} =>
       q.minute <= CurrentMinute /\ (q.minute < CurrentMinute => r \in Late)
  /\ q.pc = "count" => now + q.retry >= (q.minute + 1) * Minute

\* The parts of the invariant that are not about tokens and their claims.
CountInv ==
  /\ HasToken /\ BucketsAreBounded /\ MinutesAreReal /\ OvershootIsLate /\ LimitPerMinute
  /\ RetryCoversMinute

LEMMA QuietFrame ==
  ASSUME GateInv, NEW r \in Request, NEW q, Fits(r, q), req' = [req EXCEPT ![r] = q],
         UNCHANGED <<now, buckets, passed>>,
         expires' \in [Token -> 0..(MaxTime + Lifetime)], cache' \in [Token -> 0..(MaxTime + TTL)],
         lag' \in 0..MaxTime
  PROVE  TypeOK' /\ CountInv'
<1> USE DEF GateInv
<1>1. \A x \in Request : req'[x] = IF x = r THEN q ELSE req[x]
  BY DEF TypeOK
<1>2. TypeOK'
  BY DEF TypeOK, Fits, RequestRecord
<1>3. CurrentMinute' = CurrentMinute
  BY DEF CurrentMinute
<1>4. HasToken'
  BY <1>1 DEF HasToken, Fits
<1>5. BucketsAreBounded' /\ LimitPerMinute'
  BY DEF BucketsAreBounded, LimitPerMinute
<1>6. MinutesAreReal'
  BY <1>1, <1>3 DEF MinutesAreReal, Fits
<1>7. RetryCoversMinute'
  BY <1>1 DEF RetryCoversMinute, Fits
<1>8. Late' \subseteq Late
  BY <1>1, <1>3 DEF Late, Fits
<1>9. OvershootIsLate'
  <2> SUFFICES ASSUME NEW n \in Tenant
               PROVE  passed[n][CurrentMinute] + Cardinality(Late')
                        <= buckets[n][CurrentMinute] + Cardinality(Request)
    BY <1>3 DEF OvershootIsLate
  <2>1. passed[n][CurrentMinute] \in Nat /\ buckets[n][CurrentMinute] \in Nat
    BY CurrentIsAMinute DEF TypeOK
  <2>2. passed[n][CurrentMinute] + Cardinality(Late)
          <= buckets[n][CurrentMinute] + Cardinality(Request)
    BY DEF OvershootIsLate
  <2> QED
    BY <1>8, <2>1, <2>2, LateIsFinite, ConstantsAreNumbers
<1> QED
  BY <1>2, <1>4, <1>5, <1>6, <1>7, <1>9 DEF CountInv

LEMMA GateInvParts == GateInv <=> TypeOK /\ CountInv /\ ParsedInTime /\ CacheFades
BY DEF GateInv, CountInv

LEMMA StorersFit ==
  ASSUME GateInv, NEW r \in Request, NEW q, Fits(r, q), req' = [req EXCEPT ![r] = q],
         UNCHANGED <<now, expires>>
  PROVE  ParsedInTime'
<1>1. \A x \in Request : req'[x] = IF x = r THEN q ELSE req[x]
  BY DEF GateInv, TypeOK
<1> QED
  BY <1>1 DEF GateInv, ParsedInTime, Fits

\* The same for a step that touches neither tokens nor their claims.
LEMMA QuietPreserves ==
  ASSUME GateInv, NEW r \in Request, NEW q, Fits(r, q), req' = [req EXCEPT ![r] = q],
         UNCHANGED <<now, expires, cache, buckets, passed, lag>>
  PROVE  GateInv'
<1>1. TypeOK' /\ CountInv'
  BY QuietFrame DEF GateInv, TypeOK
<1>2. CacheFades'
  BY DEF GateInv, CacheFades
<1>3. ParsedInTime'
  BY StorersFit
<1> QED
  BY <1>1, <1>2, <1>3, GateInvParts DEF GateInv, CountInv

LEMMA AnswerFits ==
  ASSUME NEW r \in Request
  PROVE  Fits(r, NoRequest)
BY NoRequestType DEF Fits, NoRequest

LEMMA ArrivePreserves ==
  ASSUME GateInv, NEW r \in Request, NEW t \in Token \cup {NoToken}, NEW s \in Scope,
         Arrive(r, t, s)
  PROVE  GateInv'
<1> DEFINE q == [NoRequest EXCEPT !.pc = "verify", !.token = t, !.scope = s]
<1>1. q \in RequestRecord /\ q.pc = "verify"
  BY NoRequestType DEF RequestRecord
<1>2. Fits(r, q)
  BY <1>1 DEF Fits
<1> HIDE DEF q
<1>3. req' = [req EXCEPT ![r] = q] /\ UNCHANGED <<now, expires, cache, buckets, passed, lag>>
  BY DEF Arrive, q
<1> QED
  BY <1>2, <1>3, QuietPreserves

\* A request that goes on to a label where nothing has been read yet, or has been counted.
LEMMA GotoFits ==
  ASSUME GateInv, NEW r \in Request, NEW to \in {"parse", "minute", "scope", "serve"},
         to # "parse" => req[r].token \in Token, Goto(r, to)
  PROVE  \E q : Fits(r, q) /\ req' = [req EXCEPT ![r] = q]
<1> DEFINE q == [req[r] EXCEPT !.pc = to]
<1>1. req[r] \in RequestRecord
  BY DEF GateInv, TypeOK, RequestRecord
<1>2. q \in RequestRecord /\ q.pc = to /\ (to # "parse" => q.token \in Token)
  BY <1>1 DEF RequestRecord
<1>3. Fits(r, q)
  BY <1>2 DEF Fits
<1>4. req' = [req EXCEPT ![r] = q]
  BY DEF Goto, GateInv, TypeOK
<1> QED
  BY <1>3, <1>4

-----------------------------------------------------------------------------
(* AuthMiddleware.                                                         *)

LEMMA VerifyPreserves ==
  ASSUME GateInv, NEW r \in Request, Verify(r)
  PROVE  GateInv'
<1>1. UNCHANGED <<now, expires, cache, buckets, passed, lag>>
  BY DEF Verify
<1>2. (req[r].token \in Token /\ Goto(r, "minute")) \/ Goto(r, "parse")
  BY DEF Verify, Cached
<1>3. \E q : Fits(r, q) /\ req' = [req EXCEPT ![r] = q]
  BY <1>2, GotoFits
<1> QED
  BY <1>1, <1>3, QuietPreserves

LEMMA ParseTokenPreserves ==
  ASSUME GateInv, NEW r \in Request, ParseToken(r)
  PROVE  GateInv'
<1> DEFINE q == [req[r] EXCEPT !.pc = "store", !.parsed = now]
<1>1. UNCHANGED <<now, expires, cache, buckets, passed, lag>>
  BY DEF ParseToken
<1>2. CASE Valid(req[r].token) /\ req' = [req EXCEPT ![r].pc = "store", ![r].parsed = now]
  <2>1. req[r] \in RequestRecord /\ now \in 0..MaxTime /\ now \in Nat
    BY ConstantsAreNumbers DEF GateInv, TypeOK, RequestRecord
  <2>2. /\ q \in RequestRecord /\ q.pc = "store" /\ q.token = req[r].token
        /\ q.parsed = now
    BY <2>1 DEF RequestRecord
  <2>3. Fits(r, q)
    BY <1>2, <2>1, <2>2 DEF Fits, Valid
  <2>4. req' = [req EXCEPT ![r] = q]
    BY <1>2 DEF GateInv, TypeOK
  <2> HIDE DEF q
  <2> QED
    BY <1>1, <2>3, <2>4, QuietPreserves
<1>3. CASE Answer(r)
  BY <1>1, <1>3, AnswerFits, QuietPreserves DEF Answer
<1> QED
  BY <1>2, <1>3 DEF ParseToken

LEMMA MaxOfTwo ==
  ASSUME NEW a \in Int, NEW b \in Int
  PROVE  Max({a, b}) \in {a, b} /\ Max({a, b}) >= a /\ Max({a, b}) >= b
<1>1. \E x \in {a, b} : \A y \in {a, b} : x >= y
  OBVIOUS
<1> QED
  BY <1>1 DEF Max

LEMMA LagGrows ==
  ASSUME NEW l \in Nat, NEW n \in Nat, NEW p \in Nat, NEW m, m = Max({l, n - p})
  PROVE  m \in {l, n - p} /\ m >= l /\ m >= n - p
<1>1. n - p \in Int /\ l \in Int
  OBVIOUS
<1> DEFINE d == n - p
<1> HIDE DEF d
<1>2. m = Max({l, d}) /\ d \in Int /\ l \in Int
  BY <1>1 DEF d
<1>3. m \in {l, d} /\ m >= l /\ m >= d
  BY <1>2, MaxOfTwo
<1> QED
  BY <1>3 DEF d

\* Claims enter the cache at most lag after they were parsed: they leave it a TTL later.
LEMMA StoreClaimsPreserves ==
  ASSUME GateInv, NEW r \in Request, StoreClaims(r)
  PROVE  GateInv'
<1> DEFINE t == req[r].token
           q == [req[r] EXCEPT !.pc = "minute", !.parsed = 0]
<1>1. /\ req[r].pc = "store" /\ UNCHANGED <<now, expires, buckets, passed>>
      /\ cache' = [cache EXCEPT ![t] = now + TTL]
      /\ req' = [req EXCEPT ![r].pc = "minute", ![r].parsed = 0]
  BY DEF StoreClaims
<1>2. t \in Token /\ req[r] \in RequestRecord
  BY <1>1 DEF GateInv, HasToken, TypeOK, RequestRecord
<1>3. /\ now \in 0..MaxTime /\ now \in Nat /\ lag \in 0..MaxTime /\ lag \in Nat
      /\ req[r].parsed \in Nat
      /\ \A x \in Token : expires[x] \in Nat /\ cache[x] \in Nat
  BY <1>2, ConstantsAreNumbers DEF GateInv, TypeOK, RequestRecord
<1>4. req[r].parsed <= now /\ req[r].parsed < expires[t]
  BY <1>1 DEF GateInv, ParsedInTime
<1>5. lag' \in {lag, now - req[r].parsed} /\ lag' >= lag /\ lag' >= now - req[r].parsed
  BY <1>3, LagGrows DEF StoreClaims
<1>6. lag' \in 0..MaxTime /\ lag' \in Nat
  BY <1>3, <1>4, <1>5, ConstantsAreNumbers
<1>7. cache' \in [Token -> 0..(MaxTime + TTL)]
  <2>1. now + TTL \in 0..(MaxTime + TTL) /\ cache \in [Token -> 0..(MaxTime + TTL)]
    BY <1>3, ConstantsAreNumbers DEF GateInv, TypeOK
  <2> QED
    BY <1>1, <2>1
<1>8. Fits(r, q) /\ req' = [req EXCEPT ![r] = q]
  <2>0. 0 \in 0..MaxTime
    BY ConstantsAreNumbers
  <2>1. q \in RequestRecord /\ q.pc = "minute" /\ q.token \in Token
    BY <1>2, <2>0 DEF RequestRecord
  <2> QED
    BY <1>1, <2>1 DEF Fits, GateInv, TypeOK
<1> HIDE DEF q
<1>9. TypeOK' /\ CountInv'
  BY <1>1, <1>6, <1>7, <1>8, QuietFrame DEF GateInv, TypeOK
<1>10. ParsedInTime'
  BY <1>1, <1>8, StorersFit
<1>11. CacheFades'
  <2> SUFFICES ASSUME NEW x \in Token, cache'[x] # 0
               PROVE  expires[x] # 0 /\ cache'[x] < expires[x] + TTL + lag'
    BY <1>1 DEF CacheFades
  <2>1. CASE x = t
    <3>1. cache'[x] = now + TTL
      BY <1>1, <2>1 DEF GateInv, TypeOK
    <3> QED
      BY <1>3, <1>4, <1>5, <1>6, <2>1, <3>1, ConstantsAreNumbers
  <2>2. CASE x # t
    <3>1. cache'[x] = cache[x]
      BY <1>1, <2>2 DEF GateInv, TypeOK
    <3> QED
      BY <1>3, <1>5, <1>6, <3>1, ConstantsAreNumbers DEF GateInv, CacheFades
  <2> QED
    BY <2>1, <2>2
<1> QED
  BY <1>9, <1>10, <1>11, GateInvParts DEF GateInv, CountInv

-----------------------------------------------------------------------------
(* RateLimitMiddleware.                                                    *)

LEMMA ReadMinutePreserves ==
  ASSUME GateInv, NEW r \in Request, ReadMinute(r)
  PROVE  GateInv'
<1> DEFINE q == [req[r] EXCEPT !.pc = "retry", !.minute = CurrentMinute]
<1>1. req[r] \in RequestRecord /\ req[r].token \in Token
  BY DEF GateInv, TypeOK, RequestRecord, HasToken, ReadMinute
<1>2. CurrentMinute \in MinuteOf /\ CurrentMinute \in Nat
  BY CurrentIsAMinute DEF GateInv
<1>3. q \in RequestRecord /\ q.pc = "retry" /\ q.token \in Token /\ q.minute = CurrentMinute
  BY <1>1, <1>2 DEF RequestRecord
<1>4. Fits(r, q)
  BY <1>2, <1>3 DEF Fits
<1>5. req' = [req EXCEPT ![r] = q] /\ UNCHANGED <<now, expires, cache, buckets, passed, lag>>
  BY DEF ReadMinute, GateInv, TypeOK, CurrentMinute
<1> HIDE DEF q
<1> QED
  BY <1>4, <1>5, QuietPreserves

\* The second reading of the clock: the rest of the minute read first, counted from now.
LEMMA ReadRetryAfterPreserves ==
  ASSUME GateInv, NEW r \in Request, ReadRetryAfter(r)
  PROVE  GateInv'
<1> DEFINE wait == (req[r].minute + 1) * Minute - now
           q == [req[r] EXCEPT !.pc = "count", !.retry = wait]
<1>1. req[r] \in RequestRecord /\ req[r].token \in Token /\ req[r].minute \in Nat /\ now \in Nat
  BY MinutesAreNumbers DEF GateInv, TypeOK, RequestRecord, HasToken, ReadRetryAfter
<1>2. wait \in Int /\ now + wait = (req[r].minute + 1) * Minute
  BY <1>1, ConstantsAreNumbers
<1>3. /\ q \in RequestRecord /\ q.pc = "count" /\ q.token \in Token
      /\ q.minute = req[r].minute /\ q.retry = wait
  BY <1>1, <1>2 DEF RequestRecord
<1>4. now + q.retry >= (q.minute + 1) * Minute
  <2>1. (req[r].minute + 1) * Minute \in Int
    BY <1>1, ConstantsAreNumbers
  <2> QED
    BY <1>2, <1>3, <2>1
<1>5. req[r].minute <= CurrentMinute /\ (req[r].minute < CurrentMinute => r \in Late)
  BY DEF GateInv, MinutesAreReal, Late, ReadRetryAfter
<1>6. Fits(r, q)
  BY <1>3, <1>4, <1>5 DEF Fits
<1>7. req' = [req EXCEPT ![r] = q] /\ UNCHANGED <<now, expires, cache, buckets, passed, lag>>
  BY DEF ReadRetryAfter, GateInv, TypeOK
<1> HIDE DEF q
<1> QED
  BY <1>6, <1>7, QuietPreserves

\* r is let through, and counted for tenant n in minute m.
Admitted(r, n, m) ==
  /\ req[r].pc = "count" /\ n = TenantOf[req[r].token] /\ m = req[r].minute
  /\ Admits(buckets[n][m])
  /\ buckets' = [buckets EXCEPT ![n][m] = @ + 1]
  /\ passed' = [passed EXCEPT ![n][now \div Minute] = @ + 1]
  /\ Goto(r, "scope")
  /\ UNCHANGED <<now, expires, cache, lag>>

\* Such a request is in this minute's bucket, or it was late and is not any more.
LEMMA AdmitPreserves ==
  ASSUME GateInv, NEW r \in Request, NEW n \in Tenant, NEW m \in MinuteOf, Admitted(r, n, m)
  PROVE  GateInv'
<1> USE DEF GateInv
<1>1. PICK q : Fits(r, q) /\ req' = [req EXCEPT ![r] = q] /\ q.pc = "scope"
  <2> DEFINE q == [req[r] EXCEPT !.pc = "scope"]
  <2>1. q \in RequestRecord /\ q.pc = "scope" /\ q.token \in Token
    BY DEF TypeOK, RequestRecord, HasToken, Admitted
  <2>2. Fits(r, q) /\ req' = [req EXCEPT ![r] = q]
    BY <2>1 DEF Fits, Goto, TypeOK, Admitted
  <2> QED
    BY <2>1, <2>2
<1>2. \A x \in Request : req'[x] = IF x = r THEN q ELSE req[x]
  BY <1>1 DEF TypeOK
<1>3. CurrentMinute' = CurrentMinute /\ CurrentMinute \in MinuteOf /\ CurrentMinute \in Nat
  BY CurrentIsAMinute DEF CurrentMinute, Admitted
<1>4. \A k \in Tenant, i \in MinuteOf :
        /\ buckets[k][i] \in Nat /\ passed[k][i] \in Nat
        /\ buckets'[k][i] = IF k = n /\ i = m THEN buckets[k][i] + 1 ELSE buckets[k][i]
        /\ passed'[k][i] = IF k = n /\ i = CurrentMinute THEN passed[k][i] + 1 ELSE passed[k][i]
  BY <1>3 DEF TypeOK, Admitted, CurrentMinute
<1>5. buckets' \in [Tenant -> [MinuteOf -> Nat]] /\ passed' \in [Tenant -> [MinuteOf -> Nat]]
  BY <1>3 DEF TypeOK, Admitted, CurrentMinute
<1>6. TypeOK'
  BY <1>1, <1>5 DEF TypeOK, Fits, RequestRecord, Admitted
<1>7. HasToken' /\ RetryCoversMinute'
  BY <1>1, <1>2 DEF HasToken, RetryCoversMinute, Fits, Admitted
<1>8. BucketsAreBounded'
  BY <1>4, ConstantsAreNumbers DEF BucketsAreBounded, Admits, Admitted
<1>9. MinutesAreReal'
  BY <1>1, <1>2, <1>3, <1>4 DEF MinutesAreReal
<1>10. m \in Nat /\ m <= CurrentMinute
  BY MinutesAreNumbers DEF MinutesAreReal, Admitted
<1>11. Late' = Late \ {r}
  BY <1>1, <1>2, <1>3 DEF Late
<1>12. r \in Late <=> m # CurrentMinute
  BY <1>3, <1>10 DEF Late, Admitted
<1>13. Cardinality(Late') = IF r \in Late THEN Cardinality(Late) - 1 ELSE Cardinality(Late)
  BY <1>11, LateIsFinite, FS_RemoveElement
<1>14. OvershootIsLate'
  <2> SUFFICES ASSUME NEW k \in Tenant
               PROVE  passed'[k][CurrentMinute] + Cardinality(Late')
                        <= buckets'[k][CurrentMinute] + Cardinality(Request)
    BY <1>3 DEF OvershootIsLate
  <2>1. passed[k][CurrentMinute] + Cardinality(Late)
          <= buckets[k][CurrentMinute] + Cardinality(Request)
    BY DEF OvershootIsLate
  <2>2. /\ buckets[k][CurrentMinute] \in Nat /\ passed[k][CurrentMinute] \in Nat
        /\ buckets'[k][CurrentMinute] =
             IF k = n /\ CurrentMinute = m THEN buckets[k][CurrentMinute] + 1
             ELSE buckets[k][CurrentMinute]
        /\ passed'[k][CurrentMinute] =
             IF k = n THEN passed[k][CurrentMinute] + 1 ELSE passed[k][CurrentMinute]
    BY <1>3, <1>4
  <2> QED
    BY <1>12, <1>13, <2>1, <2>2, LateIsFinite, ConstantsAreNumbers
<1>15. LimitPerMinute'
  <2> SUFFICES ASSUME NEW k \in Tenant, NEW i \in MinuteOf
               PROVE  passed'[k][i] <= Limit + Cardinality(Request)
    BY DEF LimitPerMinute
  <2>1. CASE i = CurrentMinute
    <3>1. passed'[k][i] + Cardinality(Late') <= buckets'[k][i] + Cardinality(Request)
      BY <1>3, <1>14, <2>1 DEF OvershootIsLate
    <3>2. buckets'[k][i] <= Limit /\ buckets'[k][i] \in Nat /\ passed'[k][i] \in Nat
      BY <1>5, <1>8 DEF BucketsAreBounded
    <3> QED
      BY <3>1, <3>2, LateIsFinite, ConstantsAreNumbers
  <2>2. CASE i # CurrentMinute
    <3>1. passed'[k][i] = passed[k][i]
      BY <1>4, <2>2
    <3> QED
      BY <3>1 DEF LimitPerMinute
  <2> QED
    BY <2>1, <2>2
<1>16. CacheFades'
  BY DEF CacheFades, Admitted
<1>17. ParsedInTime'
  BY <1>1, StorersFit DEF Admitted
<1> QED
  BY <1>6, <1>7, <1>8, <1>9, <1>14, <1>15, <1>16, <1>17

LEMMA CountRequestPreserves ==
  ASSUME GateInv, NEW r \in Request, CountRequest(r)
  PROVE  GateInv'
<1> DEFINE n == TenantOf[req[r].token]
           m == req[r].minute
<1>1. req[r].pc = "count" /\ UNCHANGED <<now, expires, cache, lag>>
  BY DEF CountRequest
<1>2. n \in Tenant /\ m \in MinuteOf
  BY <1>1, GateAssumption DEF GateInv, TypeOK, HasToken
<1>3. CASE Admitted(r, n, m)
  BY <1>2, <1>3, AdmitPreserves
<1>4. CASE Answer(r) /\ UNCHANGED <<buckets, passed>>
  BY <1>1, <1>4, AnswerFits, QuietPreserves DEF Answer
<1> QED
  BY <1>1, <1>3, <1>4 DEF CountRequest, Admitted

-----------------------------------------------------------------------------
(* The handler, the clock and the process.                                 *)

LEMMA ServePreserves ==
  ASSUME GateInv, NEW r \in Request, RequireScope(r) \/ RejectAPIKey(r)
  PROVE  GateInv'
<1>1. UNCHANGED <<now, expires, cache, buckets, passed, lag>>
  BY DEF RequireScope, RejectAPIKey
<1>2. Answer(r) \/ (req[r].pc = "scope" /\ Goto(r, "serve"))
  BY DEF RequireScope, RejectAPIKey
<1>3. req[r].pc = "scope" => req[r].token \in Token
  BY DEF GateInv, HasToken
<1>4. \E q : Fits(r, q) /\ req' = [req EXCEPT ![r] = q]
  BY <1>2, <1>3, GotoFits, AnswerFits DEF Answer
<1> QED
  BY <1>1, <1>4, QuietPreserves

\* A new token is not in the cache.
LEMMA CreateAPIKeyPreserves ==
  ASSUME GateInv, NEW r \in Request, NEW t \in Token, CreateAPIKey(r, t)
  PROVE  GateInv'
<1>1. /\ expires[t] = 0 /\ expires' = [expires EXCEPT ![t] = now + Lifetime]
      /\ req' = [req EXCEPT ![r] = NoRequest] /\ UNCHANGED <<now, cache, buckets, passed, lag>>
  BY DEF CreateAPIKey, Issue, Answer
<1>2. expires' \in [Token -> 0..(MaxTime + Lifetime)]
  BY <1>1, ConstantsAreNumbers DEF GateInv, TypeOK
<1>3. TypeOK' /\ CountInv'
  BY <1>1, <1>2, AnswerFits, QuietFrame DEF GateInv, TypeOK
<1>4. cache[t] = 0
  BY <1>1 DEF GateInv, CacheFades
<1>5. CacheFades'
  BY <1>1, <1>4 DEF GateInv, TypeOK, CacheFades
<1>6. ParsedInTime'
  <2> SUFFICES ASSUME NEW x \in Request, req'[x].pc = "store"
               PROVE  req'[x].parsed <= now /\ req'[x].parsed < expires'[req'[x].token]
    BY <1>1 DEF ParsedInTime
  <2>1. req'[x] = req[x]
    BY <1>1 DEF GateInv, TypeOK, NoRequest
  <2>2. /\ req[x].parsed <= now /\ req[x].parsed < expires[req[x].token]
        /\ req[x].token \in Token /\ req[x].parsed \in Nat
    BY <2>1 DEF GateInv, ParsedInTime, HasToken, TypeOK
  <2>3. req[x].token # t
    BY <1>1, <2>2
  <2> QED
    BY <1>1, <2>1, <2>2, <2>3 DEF GateInv, TypeOK
<1> QED
  BY <1>3, <1>5, <1>6, GateInvParts DEF GateInv, CountInv

\* Time passes.  In a new minute nothing has passed yet.
LEMMA TickPreserves ==
  ASSUME GateInv, Tick
  PROVE  GateInv'
<1> USE DEF GateInv
<1>1. now \in Nat /\ now' = now + 1 /\ now' \in 0..MaxTime
      /\ UNCHANGED <<expires, cache, buckets, req, passed, lag>>
  BY ConstantsAreNumbers DEF Tick, TypeOK
<1>2. TypeOK'
  BY <1>1 DEF TypeOK
<1>3. /\ CurrentMinute \in MinuteOf /\ CurrentMinute \in Nat
      /\ CurrentMinute' \in MinuteOf /\ CurrentMinute' \in Nat
  <2>1. /\ now' \div Minute \in Nat /\ MaxTime \div Minute \in Nat
        /\ now' \div Minute <= MaxTime \div Minute
    BY <1>1, ConstantsAreNumbers, DivMonotone
  <2> QED
    BY <2>1, CurrentIsAMinute DEF CurrentMinute, MinuteOf
<1>4. CurrentMinute <= CurrentMinute'
  BY <1>1, ConstantsAreNumbers, DivMonotone DEF CurrentMinute
<1>5. HasToken' /\ BucketsAreBounded' /\ LimitPerMinute' /\ CacheFades'
  BY <1>1 DEF HasToken, BucketsAreBounded, LimitPerMinute, CacheFades
<1>5a. ParsedInTime'
  <2>1. \A r \in Request : req[r].parsed \in Nat
    BY DEF TypeOK
  <2> QED
    BY <1>1, <2>1 DEF ParsedInTime
<1>6. \A r \in Request : req[r].minute \in Nat /\ req[r].retry \in Int
  BY MinutesAreNumbers DEF TypeOK
<1>7. MinutesAreReal'
  BY <1>1, <1>3, <1>4, <1>6, MinutesAreNumbers DEF MinutesAreReal
<1>8. RetryCoversMinute'
  <2> SUFFICES ASSUME NEW r \in Request, req[r].pc = "count"
               PROVE  now + 1 + req[r].retry >= (req[r].minute + 1) * Minute
    BY <1>1 DEF RetryCoversMinute
  <2>1. (req[r].minute + 1) * Minute \in Int
    BY <1>6, ConstantsAreNumbers
  <2>2. now + req[r].retry >= (req[r].minute + 1) * Minute
    BY DEF RetryCoversMinute
  <2> QED
    BY <1>1, <1>6, <2>1, <2>2
<1>9. OvershootIsLate'
  <2>1. CASE CurrentMinute' = CurrentMinute
    <3>1. Late' = Late
      BY <1>1, <2>1 DEF Late
    <3> QED
      BY <1>1, <2>1, <3>1 DEF OvershootIsLate
  <2>2. CASE CurrentMinute' # CurrentMinute
    <3> SUFFICES ASSUME NEW n \in Tenant
                 PROVE  passed[n][CurrentMinute'] + Cardinality(Late')
                          <= buckets[n][CurrentMinute'] + Cardinality(Request)
      BY <1>1 DEF OvershootIsLate
    <3>1. passed[n][CurrentMinute'] = 0 /\ buckets[n][CurrentMinute'] \in Nat
      BY <1>3, <1>4, <2>2 DEF MinutesAreReal, TypeOK
    <3> QED
      BY <3>1, LateIsFinite, ConstantsAreNumbers
  <2> QED
    BY <2>1, <2>2
<1> QED
  BY <1>2, <1>5, <1>5a, <1>7, <1>8, <1>9

\* A gateway with nothing in memory.
Empty ==
  /\ now \in 0..MaxTime /\ expires \in [Token -> 0..(MaxTime + Lifetime)]
  /\ cache = EmptyCache /\ buckets = EmptyBuckets /\ req = Idle /\ passed = EmptyBuckets
  /\ lag = 0

LEMMA EmptyGate == Empty => GateInv
<1> SUFFICES ASSUME Empty PROVE GateInv
  OBVIOUS
<1> USE DEF Empty
<1>1. NoRequest.pc = "free"
  BY DEF NoRequest
<1>2. TypeOK
  BY NoRequestType, ConstantsAreNumbers DEF TypeOK, RequestRecord, EmptyCache, EmptyBuckets, Idle
<1>3. \A r \in Request : req[r].pc = "free"
  BY <1>1 DEF Idle
<1>4. CurrentMinute \in MinuteOf /\ CurrentMinute \in Nat
  BY <1>2, CurrentIsAMinute
<1>5. \A n \in Tenant, m \in MinuteOf : buckets[n][m] = 0 /\ passed[n][m] = 0
  BY DEF EmptyBuckets
<1>6. HasToken /\ BucketsAreBounded /\ MinutesAreReal /\ RetryCoversMinute /\ ParsedInTime
  BY <1>3, <1>5, ConstantsAreNumbers DEF HasToken, BucketsAreBounded, MinutesAreReal,
     RetryCoversMinute, ParsedInTime
<1>7. LimitPerMinute
  BY <1>5, ConstantsAreNumbers DEF LimitPerMinute
<1>8. OvershootIsLate
  BY <1>4, <1>5, LateIsFinite, ConstantsAreNumbers DEF OvershootIsLate
<1>9. CacheFades
  BY DEF CacheFades, EmptyCache
<1> QED
  BY <1>2, <1>6, <1>7, <1>8, <1>9 DEF GateInv

LEMMA RestartPreserves ==
  ASSUME GateInv, Restart
  PROVE  GateInv'
<1>1. Empty'
  BY DEF Restart, Empty, GateInv, TypeOK
<1>2. Empty' => GateInv'
  BY EmptyGate, PTL
<1> QED
  BY <1>1, <1>2

-----------------------------------------------------------------------------
LEMMA HandlePreserves ==
  ASSUME GateInv, NEW r \in Request, Handle(r)
  PROVE  GateInv'
BY VerifyPreserves, ParseTokenPreserves, StoreClaimsPreserves, ReadMinutePreserves,
   ReadRetryAfterPreserves, CountRequestPreserves,
   ServePreserves, CreateAPIKeyPreserves DEF Handle

\* GateInv is an invariant, however requests interleave with the clock and with restarts.
THEOREM GateInvariance == Spec => []GateInv
<1>1. Init => GateInv
  <2> SUFFICES ASSUME Init PROVE Empty
    BY EmptyGate
  <2>1. now \in 0..MaxTime /\ expires \in [Token -> 0..(MaxTime + Lifetime)]
    BY ConstantsAreNumbers DEF Init
  <2> QED
    BY <2>1 DEF Init, Empty
<1>2. GateInv /\ [Next]_vars => GateInv'
  <2> SUFFICES ASSUME GateInv, [Next]_vars PROVE GateInv'
    OBVIOUS
  <2>1. CASE Tick \/ Restart
    BY <2>1, TickPreserves, RestartPreserves
  <2>2. ASSUME NEW r \in Request, Handle(r) PROVE GateInv'
    BY <2>2, HandlePreserves
  <2>3. ASSUME NEW r \in Request, NEW t \in Token \cup {NoToken}, NEW s \in Scope,
               Arrive(r, t, s)
        PROVE  GateInv'
    BY <2>3, ArrivePreserves
  <2>4. CASE UNCHANGED vars
    BY <2>4 DEF vars, GateInv, TypeOK, HasToken, BucketsAreBounded, MinutesAreReal, CurrentMinute,
                OvershootIsLate, Late, LimitPerMinute, ParsedInTime, CacheFades, RetryCoversMinute
  <2> QED
    BY <2>1, <2>2, <2>3, <2>4 DEF Next
<1> QED
  BY <1>1, <1>2, PTL DEF Spec

\* RateLimitMiddleware: a tenant gets no more than its limit through in a minute, but for
\* requests under way when the minute began.
THEOREM LimitHolds == Spec => []LimitPerMinute
<1>1. GateInv => LimitPerMinute
  BY DEF GateInv
<1> QED
  BY <1>1, GateInvariance, PTL

\* A step that takes r past AuthMiddleware is its own lookup or store.
LEMMA MoveIsHandled ==
  ASSUME GateInv, [Next]_vars, NEW r \in Request,
         req[r].pc \in {"verify", "store"}, req'[r].pc = "minute"
  PROVE  \/ Cached(req[r].token) /\ UNCHANGED <<cache, lag>>
         \/ StoreClaims(r)
<1>1. ASSUME NEW x \in Request, x # r, NEW q, req' = [req EXCEPT ![x] = q] PROVE FALSE
  BY <1>1 DEF GateInv, TypeOK
<1>2. req' # req /\ req' # Idle
  BY DEF Idle, NoRequest
<1>3. ASSUME NEW x \in Request,
             Handle(x) \/ \E t \in Token \cup {NoToken}, s \in Scope : Arrive(x, t, s)
      PROVE  \E q : req' = [req EXCEPT ![x] = q]
  BY <1>3 DEF Handle, Verify, ParseToken, StoreClaims, ReadMinute, ReadRetryAfter, CountRequest,
                 RequireScope, RejectAPIKey,
              CreateAPIKey, Arrive, Answer, Goto
<1>4. Handle(r) \/ \E t \in Token \cup {NoToken}, s \in Scope : Arrive(r, t, s)
  BY <1>1, <1>2, <1>3 DEF Next, vars, Tick, Restart
<1>5. Verify(r) \/ StoreClaims(r)
  BY <1>4 DEF Handle, ParseToken, ReadMinute, ReadRetryAfter, CountRequest, RequireScope,
              RejectAPIKey, CreateAPIKey, Arrive
<1>6. ~Goto(r, "parse")
  BY DEF Goto, GateInv, TypeOK
<1> QED
  BY <1>5, <1>6 DEF Verify

\* Verify: a token is accepted no longer than its lifetime, the TTL of the cache and the longest
\* time from a parse to its store.
THEOREM TokensFade == Spec => ExpiredTokensFade
<1> DEFINE Fades == \A r \in Request :
                      req[r].pc \in {"verify", "store"} /\ req'[r].pc = "minute" =>
                        expires[req[r].token] # 0 /\ now < expires[req[r].token] + TTL + lag'
<1>1. GateInv /\ [Next]_vars => [Fades]_vars
  <2> SUFFICES ASSUME GateInv, [Next]_vars, NEW r \in Request,
                      req[r].pc \in {"verify", "store"}, req'[r].pc = "minute"
               PROVE  /\ expires[req[r].token] # 0
                      /\ now < expires[req[r].token] + TTL + lag'
    OBVIOUS
  <2> DEFINE t == req[r].token
  <2>1. (Cached(t) /\ UNCHANGED <<cache, lag>>) \/ StoreClaims(r)
    BY MoveIsHandled
  <2>2. now \in Nat /\ lag \in Nat /\ \A x \in Token : expires[x] \in Nat /\ cache[x] \in Nat
    BY ConstantsAreNumbers DEF GateInv, TypeOK
  <2>3. CASE Cached(t) /\ UNCHANGED <<cache, lag>>
    BY <2>2, <2>3, ConstantsAreNumbers DEF Cached, GateInv, CacheFades
  <2>4. CASE StoreClaims(r)
    <3>1. t \in Token /\ req[r].parsed <= now /\ req[r].parsed < expires[t]
      BY <2>4 DEF StoreClaims, GateInv, HasToken, ParsedInTime
    <3>2. req[r].parsed \in Nat
      BY DEF GateInv, TypeOK
    <3>3. lag' \in {lag, now - req[r].parsed} /\ lag' >= now - req[r].parsed
      BY <2>2, <2>4, <3>2, LagGrows DEF StoreClaims
    <3> QED
      BY <2>2, <3>1, <3>2, <3>3, ConstantsAreNumbers
  <2> QED
    BY <2>1, <2>3, <2>4
<1> QED
  BY <1>1, GateInvariance, PTL DEF Spec, ExpiredTokensFade

\* RateLimitMiddleware: who waits for retry_after is out of the full bucket.
THEOREM WaitingHelps == Spec => RetryAfterSuffices
<1> DEFINE Suffices == \A r \in Request :
                         req[r].pc = "count" /\ req'[r].pc = "free" =>
                           (now + req[r].retry) \div Minute > req[r].minute
<1>1. GateInv => Suffices
  <2> SUFFICES ASSUME GateInv, NEW r \in Request, req[r].pc = "count"
               PROVE  (now + req[r].retry) \div Minute > req[r].minute
    OBVIOUS
  <2> DEFINE later == now + req[r].retry
             next == req[r].minute + 1
  <2>1. now \in Nat /\ req[r].retry \in Int /\ req[r].minute \in Nat
    <3>1. now \in Nat
      BY ConstantsAreNumbers DEF GateInv, TypeOK
    <3>2. req[r].retry \in Int /\ req[r].minute \in MinuteOf
      BY DEF GateInv, TypeOK
    <3> QED
      BY <3>1, <3>2, MinutesAreNumbers
  <2>2. later >= next * Minute
    BY DEF GateInv, RetryCoversMinute
  <2>3. later \in Int /\ next \in Int /\ next = req[r].minute + 1
    BY <2>1
  <2> HIDE DEF later, next
  <2>4. next * Minute <= later
    BY <2>2, <2>3, ConstantsAreNumbers
  <2>5. later \div Minute \in Int /\ next <= later \div Minute
    BY <2>3, <2>4, ConstantsAreNumbers, DivLower
  <2>6. later \div Minute > req[r].minute
    BY <2>1, <2>3, <2>5
  <2> QED
    BY <2>6 DEF later
<1>2. GateInv /\ [Next]_vars => [Suffices]_vars
  BY <1>1
<1> QED
  BY <1>2, GateInvariance, PTL DEF Spec, RetryAfterSuffices
=============================================================================
