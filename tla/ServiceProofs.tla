--------------------------- MODULE ServiceProofs ---------------------------
(* Theorems about two services of the vibecheck server that share no state.
   The limiter of Vertex calls: leases and shares are within their limits, for
   any number of calls, instances and outages.  The conversion of images: a job
   that runs has its PDF, and a batch is converted by one delivery at a time,
   for any number of calls, deliveries and failures.                        *)
EXTENDS VertexLimiter, ImageConversion, FiniteSetTheorems, TLAPS

-----------------------------------------------------------------------------
(* The limiter: shares and finite sets.                                     *)

\* A share of the limit per instance, rounded down, adds up to no more than it.
LEMMA ShareFits ==
  ASSUME NEW limit \in Nat, NEW n \in Nat \ {0}
  PROVE  limit \div n \in Nat /\ (limit \div n) * n <= limit
  OBVIOUS

\* There is an instance, and its share is at least one call.
LEMMA ShareTypes ==
  /\ Cardinality(Instances) \in Nat \ {0}
  /\ LocalLimit \in Nat \ {0}
  /\ Cardinality(Instances) <= Limit => LocalLimit * Cardinality(Instances) <= Limit
<1>1. Cardinality(Instances) \in Nat /\ Cardinality(Instances) # 0
  BY LimiterConstants, FS_CardinalityType, FS_EmptySet
<1> DEFINE n == Cardinality(Instances)
<1>2. n \in Nat \ {0} /\ Limit \in Nat \ {0}
  BY <1>1, LimiterConstants
<1>3. LocalLimit = IF Limit \div n > 1 THEN Limit \div n ELSE 1
  BY DEF LocalLimit
<1> HIDE DEF n
<1>4. Limit \div n \in Nat /\ (Limit \div n) * n <= Limit
  BY <1>2, ShareFits
<1>5. LocalLimit \in Nat \ {0} /\ (n <= Limit => LocalLimit * n <= Limit)
  BY <1>2, <1>3, <1>4
<1> QED
  BY <1>2, <1>5 DEF n

\* Tokens are finitely many, and so are the leases.
LEMMA TokensFinite == IsFiniteSet(Tokens) /\ \A s \in SUBSET Tokens : IsFiniteSet(s)
<1>1. IsFiniteSet(0 .. Attempts)
  BY LimiterConstants, FS_Interval
<1>2. IsFiniteSet(Tokens)
  BY <1>1, LimiterConstants, FS_Product DEF Tokens
<1> QED
  BY <1>2, FS_Subset

-----------------------------------------------------------------------------
(* Types. *)

\* What an instance's backend becomes.
LEMMA BackendTypes ==
  /\ Healthy \in Backend
  /\ \A b \in Backend, x, y \in BOOLEAN :
       /\ [b EXCEPT !.probing = x] \in Backend
       /\ [b EXCEPT !.cooling = x] \in Backend
       /\ [b EXCEPT !.failures = @ + 1, !.cooling = TRUE, !.probing = FALSE] \in Backend
       /\ [b EXCEPT !.failures = @ + 1, !.fallback = x, !.cooling = y] \in Backend
<1>1. Healthy \in Backend
  BY DEF Healthy, Backend
<1>2. ASSUME NEW b \in Backend, NEW n \in Nat, NEW x \in BOOLEAN, NEW y \in BOOLEAN
      PROVE  /\ [b EXCEPT !.probing = x] \in Backend
             /\ [b EXCEPT !.cooling = x] \in Backend
             /\ [b EXCEPT !.failures = n, !.cooling = TRUE, !.probing = FALSE] \in Backend
             /\ [b EXCEPT !.failures = n, !.fallback = x, !.cooling = y] \in Backend
  BY Zenon DEF Backend
<1>3. \A b \in Backend : b.failures + 1 \in Nat
  BY DEF Backend
<1> QED
  BY <1>1, <1>2, <1>3

\* A call's token, its instance and its moves.
LEMMA CallTypes ==
  ASSUME LimiterTypeOK, NEW c \in Calls
  PROVE  /\ Home[c] \in Instances /\ Own(c) \in Backend
         /\ vcalls[c] \in VCall /\ Token(c) \in Tokens
         /\ \A pc \in {"probe", "redis", "again", "full", "local", "leased", "localHeld", "ended"} :
              VTo(c, pc) => /\ vcalls' \in [Calls -> VCall]
                            /\ \A d \in Calls : vcalls'[d].attempt = vcalls[d].attempt
                            /\ vcalls'[c].pc = pc
                            /\ \A d \in Calls \ {c} : vcalls'[d] = vcalls[d]
         /\ \A b \in Backend : SetOwn(c, b) => backend' \in [Instances -> Backend]
<1>1. /\ Home[c] \in Instances /\ vcalls \in [Calls -> VCall]
      /\ backend \in [Instances -> Backend]
  BY LimiterConstants DEF LimiterTypeOK
<1>2. vcalls[c] \in VCall /\ Token(c) \in Tokens /\ Own(c) \in Backend
  BY <1>1 DEF VCall, Token, Tokens, Own
<1>3. ASSUME NEW pc \in {"probe", "redis", "again", "full", "local", "leased", "localHeld", "ended"},
             VTo(c, pc)
      PROVE  /\ vcalls' \in [Calls -> VCall]
             /\ \A d \in Calls : vcalls'[d].attempt = vcalls[d].attempt
             /\ vcalls'[c].pc = pc
             /\ \A d \in Calls \ {c} : vcalls'[d] = vcalls[d]
  BY <1>1, <1>3 DEF VTo, VCall
<1>4. ASSUME NEW b \in Backend, SetOwn(c, b) PROVE backend' \in [Instances -> Backend]
  BY <1>1, <1>4 DEF SetOwn
<1> QED
  BY <1>1, <1>2, <1>3, <1>4

\* Loading the scripts, and a script that runs without an answer.
LEMMA ScriptTypes ==
  ASSUME LimiterTypeOK, NEW c \in Calls
  PROVE  /\ LoadScripts(c) => scripts' \in BOOLEAN /\ loaded' \in [Instances -> BOOLEAN]
         /\ SameRedis \/ RunsUnheard(c) =>
              /\ slots' \subseteq Tokens /\ up' = up /\ scripts' \in BOOLEAN
              /\ loaded' \in [Instances -> BOOLEAN]
         /\ Outage \/ NoOutage => outages' \in 0 .. MaxOutages
<1>1. LoadScripts(c) => scripts' \in BOOLEAN /\ loaded' \in [Instances -> BOOLEAN]
  BY LimiterConstants DEF LoadScripts, LimiterTypeOK
<1>2. RunsUnheard(c) => slots' \subseteq Tokens /\ up' = up
  BY CallTypes DEF RunsUnheard, LimiterTypeOK
<1>3. RunsUnheard(c) => LoadScripts(c)
  BY DEF RunsUnheard
<1>4. SameRedis => /\ slots' \subseteq Tokens /\ up' = up /\ scripts' \in BOOLEAN
                   /\ loaded' \in [Instances -> BOOLEAN]
  BY DEF SameRedis, LimiterTypeOK
<1>5. Outage \/ NoOutage => outages' \in 0 .. MaxOutages
  BY LimiterConstants DEF Outage, NoOutage, LimiterTypeOK
<1> QED
  BY <1>1, <1>2, <1>3, <1>4, <1>5

\* Types are inductive.
LEMMA LimiterTypes == LimiterTypeOK /\ [LimiterNext]_limiterVars => LimiterTypeOK'
<1> SUFFICES ASSUME LimiterTypeOK, [LimiterNext]_limiterVars PROVE LimiterTypeOK'
  OBVIOUS
<1> USE DEF LimiterTypeOK
<1>1. ASSUME NEW c \in Calls, BeginAcquire(c) PROVE LimiterTypeOK'
  <2>1. backend[Home[c]].probing \in BOOLEAN /\ Own(c) \in Backend
    BY CallTypes DEF Own, Backend
  <2>2. PICK x \in BOOLEAN : backend' = [backend EXCEPT ![Home[c]] = [backend[Home[c]] EXCEPT !.probing = x]]
    BY <1>1, <2>1 DEF BeginAcquire
  <2>3. backend' \in [Instances -> Backend]
    BY <2>2, BackendTypes, LimiterConstants
  <2>4. PICK pc \in {"probe", "local", "redis"} : VTo(c, pc)
    BY <1>1 DEF BeginAcquire
  <2>5. vcalls' \in [Calls -> VCall]
    BY <2>4, CallTypes
  <2> QED
    BY <1>1, <2>3, <2>5 DEF BeginAcquire, NoOutage, SameRedis
<1>2. ASSUME NEW c \in Calls, Probe(c) PROVE LimiterTypeOK'
  <2>1. PICK b \in Backend, pc \in {"redis", "local"} : SetOwn(c, b) /\ VTo(c, pc)
    BY <1>2, CallTypes, BackendTypes DEF Probe
  <2>2. backend' \in [Instances -> Backend] /\ vcalls' \in [Calls -> VCall]
    BY <2>1, CallTypes
  <2>3. scripts' \in BOOLEAN /\ loaded' \in [Instances -> BOOLEAN]
    BY <1>2, ScriptTypes DEF Probe
  <2> QED
    BY <1>2, <2>2, <2>3 DEF Probe, NoOutage
<1>3. ASSUME NEW c \in Calls, RunAcquire(c) PROVE LimiterTypeOK'
  <2>1. scripts' \in BOOLEAN /\ loaded' \in [Instances -> BOOLEAN]
    BY <1>3, ScriptTypes DEF RunAcquire
  <2>2. slots' \subseteq Tokens /\ vcalls' \in [Calls -> VCall] /\ backend' \in [Instances -> Backend]
    BY <1>3, CallTypes, BackendTypes DEF RunAcquire
  <2> QED
    BY <1>3, <2>1, <2>2 DEF RunAcquire, NoOutage
<1>4. ASSUME NEW c \in Calls, NoResponse(c), VTo(c, "again") \/ VTo(c, "local") \/ VTo(c, "ended"),
             backend' \in [Instances -> Backend]
      PROVE  LimiterTypeOK'
  <2>1. vcalls' \in [Calls -> VCall]
    BY <1>4, CallTypes
  <2>2. (SameRedis \/ RunsUnheard(c)) /\ (Outage \/ NoOutage)
    BY <1>4 DEF NoResponse
  <2> QED
    BY <1>4, <2>1, <2>2, ScriptTypes
<1>5. ASSUME NEW c \in Calls, AcquireFails(c) PROVE LimiterTypeOK'
  BY <1>4, <1>5 DEF AcquireFails
<1>6. ASSUME NEW c \in Calls, RedisUnavailable(c) PROVE LimiterTypeOK'
  <2> DEFINE b == Own(c)
             engaged == b.fallback \/ b.failures + 1 >= 2
  <2>1. b \in Backend /\ engaged \in BOOLEAN /\ (engaged \/ b.cooling) \in BOOLEAN
    BY CallTypes DEF Backend
  <2>2. SetOwn(c, [b EXCEPT !.failures = @ + 1, !.fallback = engaged,
                            !.cooling = engaged \/ b.cooling])
    BY <1>6 DEF RedisUnavailable
  <2> HIDE DEF engaged
  <2>3. backend' \in [Instances -> Backend]
    BY <2>1, <2>2, CallTypes, BackendTypes
  <2>4. NoResponse(c) /\ (VTo(c, "local") \/ VTo(c, "ended"))
    BY <1>6 DEF RedisUnavailable
  <2> QED
    BY <1>4, <2>3, <2>4
<1>7. ASSUME NEW c \in Calls, Saturated(c) PROVE LimiterTypeOK'
  <2>1. vcalls' \in [Calls -> VCall]
    BY <1>7, LimiterConstants DEF Saturated, VCall
  <2> QED
    BY <1>7, <2>1 DEF Saturated, NoOutage, SameRedis
<1>8. ASSUME NEW c \in Calls, AcquireLocal(c) \/ ReleaseLocal(c) PROVE LimiterTypeOK'
  <2>1. vcalls' \in [Calls -> VCall]
    BY <1>8, CallTypes DEF AcquireLocal, ReleaseLocal
  <2> QED
    BY <1>8, <2>1 DEF AcquireLocal, ReleaseLocal, NoOutage, SameRedis
<1>9. ASSUME NEW c \in Calls, ReleaseLease(c) PROVE LimiterTypeOK'
  <2>1. vcalls' \in [Calls -> VCall] /\ outages' \in 0 .. MaxOutages
    BY <1>9, CallTypes, ScriptTypes DEF ReleaseLease
  <2> QED
    BY <1>9, <2>1 DEF ReleaseLease
<1>10. ASSUME NEW c \in Calls, CancelCall(c) PROVE LimiterTypeOK'
  <2>1. vcalls' \in [Calls -> VCall] /\ outages' \in 0 .. MaxOutages
    BY <1>10, CallTypes, ScriptTypes DEF CancelCall
  <2>2. Own(c) \in Backend /\ (Own(c).probing /\ ~VAt(c, "probe")) \in BOOLEAN
    BY CallTypes DEF Backend
  <2>3. backend' \in [Instances -> Backend]
    BY <1>10, <2>2, CallTypes, BackendTypes DEF CancelCall
  <2>4. SameRedis \/ RunsUnheard(c)
    BY <1>10 DEF CancelCall
  <2> QED
    BY <2>1, <2>3, <2>4, ScriptTypes
<1>11. ASSUME NEW i \in Instances, CooldownEnds(i) PROVE LimiterTypeOK'
  BY <1>11, BackendTypes DEF CooldownEnds, NoOutage, SameRedis
<1>12. ASSUME NEW t \in Tokens, Expire(t) PROVE LimiterTypeOK'
  <2>1. outages' \in 0 .. MaxOutages
    BY <1>12, LimiterConstants DEF Expire, Outage, NoOutage
  <2> QED
    BY <1>12, <2>1 DEF Expire
<1>13. CASE RedisFails \/ RedisReturns
  <2>1. outages' \in 0 .. MaxOutages
    BY <1>13, LimiterConstants DEF RedisFails, RedisReturns, Outage, NoOutage
  <2>2. slots' \subseteq Tokens /\ up' \in BOOLEAN /\ scripts' \in BOOLEAN
    BY <1>13 DEF RedisFails, RedisReturns
  <2> QED
    BY <1>13, <2>1, <2>2 DEF RedisFails, RedisReturns
<1>14. CASE UNCHANGED limiterVars
  BY <1>14 DEF limiterVars
<1> QED
  BY <1>1, <1>2, <1>3, <1>5, <1>6, <1>7, <1>8, <1>9, <1>10, <1>11, <1>12, <1>13, <1>14
     DEF LimiterNext, CallStepV

-----------------------------------------------------------------------------
(* The leases. *)

\* Redis grants one lease at a time and only below the limit, whoever hears of it.
LEMMA LeaseSteps ==
  ASSUME LimiterTypeOK, [LimiterNext]_limiterVars
  PROVE  slots' \subseteq slots \/ (Grants /\ \E t \in Tokens : slots' = slots \cup {t})
<1>1. ASSUME NEW c \in Calls, SameRedis \/ RunsUnheard(c)
      PROVE  slots' = slots \/ (Grants /\ \E t \in Tokens : slots' = slots \cup {t})
  BY <1>1, CallTypes DEF SameRedis, RunsUnheard
<1>2. ASSUME NEW c \in Calls, CallStepV(c) \/ CancelCall(c), ~RunAcquire(c), ~ReleaseLease(c)
      PROVE  slots' = slots \/ SameRedis \/ RunsUnheard(c)
  BY <1>2 DEF CallStepV, BeginAcquire, Probe, AcquireFails, RedisUnavailable, Saturated,
              AcquireLocal, ReleaseLocal, CancelCall, NoResponse
<1>3. ASSUME NEW c \in Calls, RunAcquire(c)
      PROVE  slots' = slots \/ (Grants /\ \E t \in Tokens : slots' = slots \cup {t})
  BY <1>3, CallTypes DEF RunAcquire
<1>4. ASSUME NEW c \in Calls, ReleaseLease(c) PROVE slots' \subseteq slots
  BY <1>4 DEF ReleaseLease
<1>5. CASE \/ \E i \in Instances : CooldownEnds(i)
           \/ \E t \in Tokens : Expire(t)
           \/ RedisFails \/ RedisReturns
  BY <1>5 DEF CooldownEnds, SameRedis, Expire, RedisFails, RedisReturns
<1>6. CASE UNCHANGED limiterVars
  BY <1>6 DEF limiterVars
<1> QED
  BY <1>1, <1>2, <1>3, <1>4, <1>5, <1>6 DEF LimiterNext

\* So the leases stay within the limit.
LEMMA LeaseCapKept ==
  ASSUME LimiterTypeOK, LeaseCap, [LimiterNext]_limiterVars
  PROVE  LeaseCap'
<1>1. IsFiniteSet(slots) /\ Cardinality(slots) \in Nat /\ Limit \in Nat
  BY TokensFinite, FS_CardinalityType, LimiterConstants DEF LimiterTypeOK
<1>2. CASE slots' \subseteq slots
  <2>1. Cardinality(slots') <= Cardinality(slots) /\ Cardinality(slots') \in Nat
    BY <1>1, <1>2, FS_Subset, FS_CardinalityType
  <2> QED
    BY <1>1, <2>1 DEF LeaseCap
<1>3. ASSUME Grants, NEW t \in Tokens, slots' = slots \cup {t} PROVE LeaseCap'
  <2>1. Cardinality(slots') <= Cardinality(slots) + 1
    BY <1>1, <1>3, FS_AddElement
  <2>2. Cardinality(slots') \in Nat
    BY <1>1, <1>3, FS_AddElement, FS_CardinalityType
  <2> QED
    BY <1>1, <1>3, <2>1, <2>2 DEF LeaseCap, Grants
<1> QED
  BY <1>2, <1>3, LeaseSteps

-----------------------------------------------------------------------------
(* While nothing fails. *)

Leased == {c \in Calls : VAt(c, "leased")}

\* Redis is up and has the scripts of the leases it holds, and these are the
\* leases of the calls that run.
Undisturbed == up /\ (slots # {} => scripts) /\ slots = {Token(c) : c \in Leased}

\* Failures are counted.
LEMMA OutagesGrow ==
  ASSUME LimiterTypeOK, [LimiterNext]_limiterVars
  PROVE  outages' \in {outages, outages + 1}
<1>1. ASSUME NEW c \in Calls, CallStepV(c) \/ CancelCall(c) PROVE Outage \/ NoOutage
  BY <1>1 DEF CallStepV, BeginAcquire, Probe, RunAcquire, AcquireFails, RedisUnavailable,
     Saturated, AcquireLocal, ReleaseLocal, ReleaseLease, CancelCall, NoResponse
<1>2. CASE \/ \E i \in Instances : CooldownEnds(i)
           \/ \E t \in Tokens : Expire(t)
           \/ RedisFails \/ RedisReturns
  BY <1>2 DEF CooldownEnds, Expire, RedisFails, RedisReturns, Outage, NoOutage
<1>3. CASE UNCHANGED limiterVars
  BY <1>3 DEF limiterVars
<1> QED
  BY <1>1, <1>2, <1>3 DEF LimiterNext, Outage, NoOutage

\* A call that moves without running neither takes nor leaves a lease.
LEMMA LeasedKept ==
  ASSUME LimiterTypeOK, Undisturbed, NEW c \in Calls, vcalls[c].pc # "leased",
         vcalls'[c].pc # "leased", \A d \in Calls \ {c} : vcalls'[d] = vcalls[d],
         slots' = slots, up' = up, scripts' = scripts \/ scripts'
  PROVE  Undisturbed'
<1>1. Leased' = Leased
  BY DEF Leased, VAt
<1>2. \A d \in Leased : Token(d)' = Token(d)
  BY DEF Leased, VAt, Token
<1>3. {Token(d) : d \in Leased}' = {Token(d) : d \in Leased}
  BY <1>1, <1>2
<1> QED
  BY <1>3 DEF Undisturbed

\* A step in which nothing fails keeps it so.
LEMMA UndisturbedKept ==
  ASSUME LimiterTypeOK, Undisturbed, [LimiterNext]_limiterVars, outages' = outages
  PROVE  Undisturbed'
<1>1. /\ outages \in Nat /\ ~Outage /\ up
      /\ \A t \in slots : Token(t[1]) = t /\ t[1] \in Leased
      /\ slots \subseteq Tokens /\ vcalls \in [Calls -> VCall]
  <2>1. outages \in Nat
    BY LimiterConstants DEF LimiterTypeOK
  <2>2. \A c \in Calls : Token(c)[1] = c
    BY DEF Token
  <2>3. \A t \in slots : Token(t[1]) = t /\ t[1] \in Leased
    BY <2>2 DEF Undisturbed, Leased
  <2> QED
    BY <2>1, <2>3 DEF Outage, Undisturbed, LimiterTypeOK
<1>2. ASSUME NEW c \in Calls, \/ BeginAcquire(c) \/ Probe(c) \/ AcquireLocal(c) \/ ReleaseLocal(c)
      PROVE  Undisturbed'
  <2>1. PICK pc \in {"probe", "local", "redis", "localHeld", "ended"} : VTo(c, pc)
    BY <1>2 DEF BeginAcquire, Probe, AcquireLocal, ReleaseLocal
  <2>2. /\ vcalls'[c].pc # "leased" /\ \A d \in Calls \ {c} : vcalls'[d] = vcalls[d]
    BY <2>1, CallTypes
  <2>3. vcalls[c].pc # "leased" /\ slots' = slots /\ up' = up /\ (scripts' = scripts \/ scripts')
    BY <1>2 DEF BeginAcquire, Probe, AcquireLocal, ReleaseLocal, SameRedis, VAt, LoadScripts,
                LimiterTypeOK
  <2> QED
    BY <2>2, <2>3, LeasedKept
<1>3. ASSUME NEW c \in Calls, RunAcquire(c), Grants PROVE Undisturbed'
  <2>1. /\ slots' = slots \cup {Token(c)} /\ up' = up /\ scripts'
        /\ VTo(c, "leased")
    BY <1>3 DEF RunAcquire
  <2>2. /\ \A d \in Calls : vcalls'[d].attempt = vcalls[d].attempt
        /\ vcalls'[c].pc = "leased"
        /\ \A d \in Calls \ {c} : vcalls'[d] = vcalls[d]
    BY <2>1, CallTypes
  <2>3. Leased' = Leased \cup {c} /\ \A d \in Calls : Token(d)' = Token(d)
    BY <2>2 DEF Leased, VAt, Token
  <2>4. {Token(d) : d \in Leased}' = {Token(d) : d \in Leased} \cup {Token(c)}
    <3>1. {Token(d) : d \in Leased}' = {Token(d) : d \in Leased'}
      BY <2>3 DEF Leased
    <3> QED
      BY <2>3, <3>1
  <2> QED
    BY <2>1, <2>4 DEF Undisturbed
<1>4. ASSUME NEW c \in Calls, RunAcquire(c), ~Grants PROVE Undisturbed'
  <2>1. VTo(c, "full") /\ slots' = slots /\ up' = up /\ scripts' /\ vcalls[c].pc # "leased"
    BY <1>4 DEF RunAcquire, Asking
  <2>2. /\ vcalls'[c].pc # "leased" /\ \A d \in Calls \ {c} : vcalls'[d] = vcalls[d]
    BY <2>1, CallTypes
  <2> QED
    BY <2>1, <2>2, LeasedKept
<1>5. ASSUME NEW c \in Calls, AcquireFails(c) \/ RedisUnavailable(c) PROVE Undisturbed'
  <2>1. SameRedis /\ vcalls[c].pc # "leased"
    BY <1>1, <1>5 DEF AcquireFails, RedisUnavailable, NoResponse, VAt
  <2>2. PICK pc \in {"again", "local", "ended"} : VTo(c, pc)
    BY <1>5 DEF AcquireFails, RedisUnavailable
  <2>3. vcalls'[c].pc # "leased" /\ \A d \in Calls \ {c} : vcalls'[d] = vcalls[d]
    BY <2>2, CallTypes
  <2> QED
    BY <2>1, <2>3, LeasedKept DEF SameRedis
<1>6. ASSUME NEW c \in Calls, Saturated(c) PROVE Undisturbed'
  <2>1. /\ vcalls[c].pc = "full" /\ vcalls'[c].pc \in {"idle", "ended"}
        /\ \A d \in Calls \ {c} : vcalls'[d] = vcalls[d]
    BY <1>1, <1>6 DEF Saturated, VAt, VCall
  <2> QED
    BY <1>6, <2>1, LeasedKept DEF Saturated, SameRedis
<1>7. ASSUME NEW c \in Calls, ReleaseLease(c) PROVE Undisturbed'
  <2>1. VTo(c, "ended") /\ c \in Leased
    BY <1>7 DEF ReleaseLease, Leased
  <2>2. Token(c) \in slots /\ scripts
    BY <2>1 DEF Undisturbed
  <2>3. slots' = slots \ {Token(c)} /\ up' = up /\ scripts' = scripts
    BY <1>1, <1>7, <2>2 DEF ReleaseLease
  <2>4. /\ \A d \in Calls : vcalls'[d].attempt = vcalls[d].attempt
        /\ vcalls'[c].pc = "ended"
        /\ \A d \in Calls \ {c} : vcalls'[d] = vcalls[d]
    BY <2>1, CallTypes
  <2>5. Leased' = Leased \ {c} /\ \A d \in Calls : Token(d)' = Token(d)
    BY <2>4 DEF Leased, VAt, Token
  <2>6. \A d \in Calls : Token(d) = Token(c) => d = c
    BY DEF Token
  <2>7. {Token(d) : d \in Leased}' = {Token(d) : d \in Leased} \ {Token(c)}
    <3>1. {Token(d) : d \in Leased}' = {Token(d) : d \in Leased'}
      BY <2>5 DEF Leased
    <3>2. Leased \subseteq Calls
      BY DEF Leased
    <3> QED
      BY <2>1, <2>5, <2>6, <3>1, <3>2
  <2> QED
    BY <2>2, <2>3, <2>7 DEF Undisturbed
<1>8. ASSUME NEW c \in Calls, CancelCall(c) PROVE FALSE
  BY <1>1, <1>8 DEF CancelCall
<1>9. ASSUME NEW i \in Instances, CooldownEnds(i) PROVE Undisturbed'
  BY <1>9 DEF CooldownEnds, SameRedis, Undisturbed, Leased, VAt, Token
<1>10. ASSUME NEW t \in Tokens, Expire(t) PROVE FALSE
  BY <1>1, <1>10 DEF Expire, Leased
<1>11. ~RedisFails /\ ~RedisReturns
  BY <1>1 DEF RedisFails, RedisReturns
<1>12. CASE UNCHANGED limiterVars
  BY <1>12 DEF limiterVars, Undisturbed, Leased, VAt, Token
<1> QED
  BY <1>2, <1>3, <1>4, <1>5, <1>6, <1>7, <1>8, <1>9, <1>10, <1>11, <1>12
     DEF LimiterNext, CallStepV

-----------------------------------------------------------------------------
(* The local permits. *)

LocalHolders(i) == {c \in Calls : Home[c] = i /\ VAt(c, "localHeld")}

\* Permits are given below the share of the instance, to one call at a time.
LEMMA PermitSteps ==
  ASSUME LimiterTypeOK, [LimiterNext]_limiterVars, NEW i \in Instances
  PROVE  \/ LocalHolders(i)' \subseteq LocalHolders(i)
         \/ /\ LocalActive(i) < LocalLimit
            /\ \E c \in Calls : LocalHolders(i)' = LocalHolders(i) \cup {c}
<1>1. vcalls \in [Calls -> VCall]
  BY DEF LimiterTypeOK
<1>2. ASSUME NEW c \in Calls, vcalls'[c].pc # "localHeld",
             \A d \in Calls \ {c} : vcalls'[d] = vcalls[d]
      PROVE  LocalHolders(i)' \subseteq LocalHolders(i)
  BY <1>2 DEF LocalHolders, VAt
<1>3. ASSUME NEW c \in Calls, CallStepV(c) \/ CancelCall(c), ~AcquireLocal(c)
      PROVE  LocalHolders(i)' \subseteq LocalHolders(i)
  <2>1. CASE Saturated(c)
    <3>1. vcalls'[c].pc # "localHeld" /\ \A d \in Calls \ {c} : vcalls'[d] = vcalls[d]
      BY <1>1, <2>1 DEF Saturated, VAt, VCall
    <3> QED
      BY <1>2, <3>1
  <2>2. CASE ~Saturated(c)
    <3>1. PICK pc \in {"probe", "redis", "again", "full", "local", "leased", "ended"} : VTo(c, pc)
      BY <1>3, <2>2 DEF CallStepV, BeginAcquire, Probe, RunAcquire, AcquireFails,
         RedisUnavailable, ReleaseLocal, ReleaseLease, CancelCall
    <3>2. vcalls'[c].pc # "localHeld" /\ \A d \in Calls \ {c} : vcalls'[d] = vcalls[d]
      BY <3>1, CallTypes
    <3> QED
      BY <1>2, <3>2
  <2> QED
    BY <2>1, <2>2
<1>4. ASSUME NEW c \in Calls, AcquireLocal(c), Home[c] = i
      PROVE  /\ LocalActive(i) < LocalLimit
             /\ LocalHolders(i)' = LocalHolders(i) \cup {c}
  <2>1. VTo(c, "localHeld") /\ LocalActive(i) < LocalLimit
    BY <1>4 DEF AcquireLocal
  <2>2. vcalls'[c].pc = "localHeld" /\ \A d \in Calls \ {c} : vcalls'[d] = vcalls[d]
    BY <2>1, CallTypes
  <2> QED
    BY <1>4, <2>1, <2>2 DEF LocalHolders, VAt
<1>5. ASSUME NEW c \in Calls, AcquireLocal(c), Home[c] # i
      PROVE  LocalHolders(i)' \subseteq LocalHolders(i)
  <2>1. \A d \in Calls \ {c} : vcalls'[d] = vcalls[d]
    BY <1>5, CallTypes DEF AcquireLocal
  <2> QED
    BY <1>5, <2>1 DEF LocalHolders, VAt
<1>6. ASSUME vcalls' = vcalls PROVE LocalHolders(i)' \subseteq LocalHolders(i)
  BY <1>6 DEF LocalHolders, VAt
<1>7. CASE \/ \E j \in Instances : CooldownEnds(j)
           \/ \E t \in Tokens : Expire(t)
           \/ RedisFails \/ RedisReturns
           \/ UNCHANGED limiterVars
  BY <1>6, <1>7 DEF CooldownEnds, Expire, RedisFails, RedisReturns, limiterVars
<1> QED
  BY <1>3, <1>4, <1>5, <1>7 DEF LimiterNext

\* So every instance stays within its share.
LEMMA SharesKept ==
  ASSUME LimiterTypeOK, [LimiterNext]_limiterVars, NEW i \in Instances,
         LocalActive(i) <= LocalLimit
  PROVE  (LocalActive(i) <= LocalLimit)'
<1> DEFINE now == LocalHolders(i)
           next == LocalHolders(i)'
<1>1. /\ LocalActive(i) = Cardinality(now) /\ LocalActive(i)' = Cardinality(next)
      /\ LocalLimit' = LocalLimit
  BY DEF LocalActive, LocalHolders, LocalLimit
<1>2. IsFiniteSet(now) /\ Cardinality(now) \in Nat
  <2>1. now \subseteq Calls
    BY DEF LocalHolders
  <2> QED
    BY <2>1, LimiterConstants, FS_Subset, FS_CardinalityType
<1>3. \/ next \subseteq now
      \/ Cardinality(now) < LocalLimit /\ \E c \in Calls : next = now \cup {c}
  BY <1>1, PermitSteps
<1>4. LocalLimit \in Nat
  BY ShareTypes
<1> HIDE DEF now, next
<1>5. CASE next \subseteq now
  <2>1. Cardinality(next) <= Cardinality(now) /\ Cardinality(next) \in Nat
    BY <1>2, <1>5, FS_Subset, FS_CardinalityType
  <2> QED
    BY <1>1, <1>2, <1>4, <2>1
<1>6. ASSUME Cardinality(now) < LocalLimit, NEW c \in Calls, next = now \cup {c}
      PROVE  Cardinality(next) <= LocalLimit
  <2>1. IsFiniteSet(next) /\ Cardinality(next) <= Cardinality(now) + 1
    BY <1>2, <1>6, FS_AddElement
  <2>2. Cardinality(next) \in Nat
    BY <2>1, FS_CardinalityType
  <2> QED
    BY <1>2, <1>4, <1>6, <2>1, <2>2
<1> QED
  BY <1>1, <1>3, <1>5, <1>6

-----------------------------------------------------------------------------
(* The theorems. *)

\* The limiter starts with its invariant.
LEMMA LimiterInitInv == LimiterInit => LimiterInv
<1> SUFFICES ASSUME LimiterInit PROVE LimiterInv
  OBVIOUS
<1>1. \A c \in Calls : ~VAt(c, "leased") /\ ~VAt(c, "localHeld")
  BY DEF LimiterInit, VAt
<1>2. LimiterTypeOK
  <2>1. backend \in [Instances -> Backend]
    BY BackendTypes DEF LimiterInit
  <2>2. vcalls \in [Calls -> VCall]
    BY LimiterConstants DEF LimiterInit, VCall
  <2>3. outages \in 0 .. MaxOutages
    BY LimiterConstants DEF LimiterInit
  <2> QED
    BY <2>1, <2>2, <2>3 DEF LimiterInit, LimiterTypeOK
<1>3. Cardinality(slots) = 0 /\ \A i \in Instances : LocalActive(i) = 0
  <2>1. \A i \in Instances : {c \in Calls : Home[c] = i /\ VAt(c, "localHeld")} = {}
    BY <1>1
  <2> QED
    BY <2>1, FS_EmptySet DEF LimiterInit, LocalActive
<1>4. LeaseCap /\ \A i \in Instances : LocalActive(i) <= LocalLimit
  BY <1>3, ShareTypes, LimiterConstants DEF LeaseCap
<1>5. SlotsAccounted /\ up /\ slots = {}
  BY <1>1 DEF LimiterInit, SlotsAccounted
<1> QED
  BY <1>2, <1>4, <1>5 DEF LimiterInv

\* Every step keeps it.
LEMMA LimiterNextInv == LimiterInv /\ [LimiterNext]_limiterVars => LimiterInv'
<1> SUFFICES ASSUME LimiterInv, [LimiterNext]_limiterVars PROVE LimiterInv'
  OBVIOUS
<1>1. LimiterTypeOK /\ LimiterTypeOK'
  BY LimiterTypes DEF LimiterInv
<1>2. LeaseCap'
  BY LeaseCapKept DEF LimiterInv
<1>3. outages' = 0 => Undisturbed'
  <2>1. outages' = 0 => outages = 0
    BY <1>1, OutagesGrow, LimiterConstants DEF LimiterTypeOK
  <2>2. outages = 0 => Undisturbed
    BY DEF LimiterInv, Undisturbed, SlotsAccounted, Leased
  <2> QED
    BY <1>1, <2>1, <2>2, UndisturbedKept
<1>4. \A i \in Instances : (LocalActive(i) <= LocalLimit)'
  BY <1>1, SharesKept DEF LimiterInv
<1> QED
  BY <1>1, <1>2, <1>3, <1>4 DEF LimiterInv, Undisturbed, SlotsAccounted, Leased

\* The limiter's state stays of its type, its leases and local permits within their
\* limits, and its leases accounted for until something fails.
THEOREM LimiterInvariant == LimiterSpec => []LimiterInv
  BY LimiterInitInv, LimiterNextInv, PTL DEF LimiterSpec

\* _ACQUIRE_SCRIPT: Redis never holds more leases than VERTEX_MAX_CONCURRENCY.
THEOREM LeasesCapped == LimiterSpec => []LeaseCap
<1>1. LimiterInv => LeaseCap
  BY DEF LimiterInv
<1> QED
  BY <1>1, LimiterInvariant, PTL

\* acquire and _release_once: without failures no lease is leaked and none is shared.
THEOREM LeasesAccounted == LimiterSpec => []SlotsAccounted
<1>1. LimiterInv => SlotsAccounted
  BY DEF LimiterInv
<1> QED
  BY <1>1, LimiterInvariant, PTL

\* _local_vertex_fallback_limit: the instances' permits together stay within the limit.
THEOREM SharesFair == LimiterSpec => []FairShare
<1>1. ASSUME LimiterInv PROVE FairShare
  <2> DEFINE n == Cardinality(Instances)
  <2>1. SUFFICES ASSUME n <= Limit, NEW i \in Instances PROVE LocalActive(i) * n <= Limit
    BY DEF FairShare
  <2>2. LocalActive(i) \in Nat
    <3>1. LocalHolders(i) \subseteq Calls /\ LocalActive(i) = Cardinality(LocalHolders(i))
      BY DEF LocalHolders, LocalActive
    <3> QED
      BY <3>1, LimiterConstants, FS_Subset, FS_CardinalityType
  <2>3. LocalActive(i) <= LocalLimit
    BY <1>1 DEF LimiterInv
  <2>4. n \in Nat /\ LocalLimit \in Nat /\ LocalLimit * n <= Limit /\ Limit \in Nat
    BY <2>1, ShareTypes, LimiterConstants
  <2> HIDE DEF n
  <2>5. LocalActive(i) * n <= LocalLimit * n
    BY <2>2, <2>3, <2>4
  <2> QED
    BY <2>2, <2>4, <2>5
<1> QED
  BY <1>1, LimiterInvariant, PTL

-----------------------------------------------------------------------------
(* The conversion of images.                                                *)

ClickStates == {"idle", "verify", "submit", "enqueue", "markFailed", "ended"}
ConverterStates == {"idle", "read", "fail", "write", "reset", "commit",
                    "enqueue", "ended"}

BatchRows == [status : {"awaiting_upload", "submitted", "converting", "converted",
                        "failed"}, stale : BOOLEAN]

\* The rows, the bucket, the tasks and the handlers are of their types.
ConversionTypeOK ==
    /\ imageJob \in [status : {"pending", "running"} \cup JobEnded,
                     url : {"placeholder", "pdf"}, old : BOOLEAN,
                     beating : BOOLEAN]
    /\ conversion \in BatchRows
    /\ stored \in [images : BOOLEAN, pdf : BOOLEAN]
    /\ tasks \in [convert : {"none", "queued", "done"}, run : {"none", "queued"}]
    /\ clicks \in [Clicks -> ClickStates]
    /\ converters \in [Deliveries -> ConverterStates]
    /\ reclaimed \in BOOLEAN

\* What a run needs of a job that has not ended.
HasPdf == /\ stored.images = TRUE /\ stored.pdf = TRUE
          /\ imageJob.status \notin JobEnded => imageJob.url = "pdf"

\* The images are there once a call has verified them, and the PDF once a
\* delivery has written it; the row has it before anybody queues the run.
ImagesVerified ==
    /\ \A k \in Clicks : clicks[k] = "submit" => stored.images = TRUE
    /\ conversion.status # "awaiting_upload" => stored.images = TRUE
    /\ \A d \in Deliveries :
           converters[d] \notin {"idle", "ended"} => stored.images = TRUE
PdfWritten == \A d \in Deliveries : converters[d] = "commit" => stored.pdf = TRUE
RowReady ==
    /\ \A d \in Deliveries : converters[d] = "enqueue" => HasPdf
    /\ conversion.status = "converted" => HasPdf
    /\ tasks.run = "queued" => HasPdf
    /\ imageJob.status = "running" => tasks.run = "queued"

PdfInv == ConversionTypeOK /\ ImagesVerified /\ PdfWritten /\ RowReady

\* One delivery holds the claim, and the batch says so, until it is stale.
ClaimInv ==
    /\ ConversionTypeOK
    /\ ~reclaimed => /\ \A d, e \in Converting : d = e
                     /\ Converting # {} => conversion.status = "converting"

-----------------------------------------------------------------------------
(* Types.                                                                   *)

\* The rows that an upload inserts are well typed.
LEMMA ConversionTypeInit == ConversionInit => ConversionTypeOK
<1> SUFFICES ASSUME ConversionInit PROVE ConversionTypeOK
  OBVIOUS
<1> USE DEF ConversionInit
<1>1. imageJob \in [status : {"pending", "running"} \cup JobEnded,
                     url : {"placeholder", "pdf"}, old : BOOLEAN, beating : BOOLEAN]
  BY Zenon
<1>2. conversion \in BatchRows
  BY Zenon DEF BatchRows
<1>3. stored \in [images : BOOLEAN, pdf : BOOLEAN]
  BY Zenon
<1>4. tasks \in [convert : {"none", "queued", "done"}, run : {"none", "queued"}]
  BY Zenon
<1>5. /\ clicks \in [Clicks -> ClickStates]
      /\ converters \in [Deliveries -> ConverterStates]
      /\ reclaimed \in BOOLEAN
  BY DEF ClickStates, ConverterStates
<1> QED BY <1>1, <1>2, <1>3, <1>4, <1>5 DEF ConversionTypeOK

\* Calls of analyze-images keep the types.
LEMMA ClickTypes ==
    ASSUME ConversionTypeOK, NEW k \in Clicks, ClickStep(k)
    PROVE  ConversionTypeOK'
<1> USE DEF ConversionTypeOK, BatchRows, ClickStates, JobEnded, Click, FailRow
<1>1. CASE ReadBatch(k)
  BY <1>1 DEF ReadBatch
<1>2. CASE VerifyUploads(k)
  BY <1>2 DEF VerifyUploads
<1>3. CASE SubmitBatch(k)
  BY <1>3 DEF SubmitBatch
<1>4. CASE EnqueueConversion(k)
  BY <1>4 DEF EnqueueConversion
<1>5. CASE FailEnqueue(k)
  BY <1>5 DEF FailEnqueue
<1>6. CASE CrashClick(k)
  BY <1>6 DEF CrashClick
<1> QED BY <1>1, <1>2, <1>3, <1>4, <1>5, <1>6 DEF ClickStep

\* The deliveries of the conversion task keep the types.
LEMMA ConverterTypes ==
    ASSUME ConversionTypeOK, NEW d \in Deliveries,
           ConverterStep(d) \/ CrashConversion(d)
    PROVE  ConversionTypeOK'
<1> USE DEF ConversionTypeOK, BatchRows, ConverterStates, JobEnded, ConverterAt,
            Converter, Answered, AskedAgain, FailRow
<1>0. /\ [status |-> "converting", stale |-> FALSE] \in BatchRows
      /\ [status |-> "converted", stale |-> FALSE] \in BatchRows
  BY Zenon DEF BatchRows
<1>1. CASE ClaimConversion(d)
  <2>1. conversion' \in BatchRows /\ reclaimed' \in BOOLEAN
    BY <1>0, <1>1 DEF ClaimConversion, BatchRows
  <2> QED BY <1>1, <2>1 DEF ClaimConversion, BatchRows
<1>2. CASE ReadImages(d)
  BY <1>2 DEF ReadImages
<1>3. CASE FailConversion(d)
  BY <1>3 DEF FailConversion
<1>4. CASE WritePdf(d)
  <2>1. stored' \in [images : BOOLEAN, pdf : BOOLEAN]
    <3>1. CASE UNCHANGED stored
      BY <3>1
    <3>2. CASE stored' = [stored EXCEPT !.pdf = TRUE]
      BY <3>2, Zenon DEF ConversionTypeOK
    <3> QED BY <1>4, <3>1, <3>2 DEF WritePdf
  <2> QED BY <1>4, <2>1 DEF WritePdf
<1>5. CASE ResetConversion(d)
  BY <1>5 DEF ResetConversion
<1>6. CASE MarkConverted(d)
  <2>1. conversion' \in BatchRows
    BY <1>0, <1>6 DEF MarkConverted, Converted, BatchRows
  <2> QED BY <1>6, <2>1 DEF MarkConverted, Converted, BatchRows
<1>7. CASE EnqueuePipeline(d)
  BY <1>7 DEF EnqueuePipeline
<1>8. CASE CrashConversion(d)
  BY <1>8 DEF CrashConversion
<1> QED BY <1>1, <1>2, <1>3, <1>4, <1>5, <1>6, <1>7, <1>8 DEF ConverterStep

\* The browser, the run, the sweeper and the clock.
Surroundings == \/ Upload \/ RunClaims \/ RunEnds \/ SweepImages \/ RowGetsOld
                \/ ClaimGetsStale

\* They keep the types.
LEMMA SurroundingTypes ==
    ASSUME ConversionTypeOK, Surroundings
    PROVE  ConversionTypeOK'
<1> USE DEF ConversionTypeOK, BatchRows, JobEnded, FailRow
<1>1. CASE Upload
  BY <1>1 DEF Upload
<1>2. CASE RunClaims
  BY <1>2 DEF RunClaims
<1>3. CASE RunEnds
  BY <1>3 DEF RunEnds
<1>4. CASE SweepImages
  BY <1>4 DEF SweepImages
<1>5. CASE RowGetsOld
  BY <1>5 DEF RowGetsOld
<1>6. CASE ClaimGetsStale
  BY <1>6 DEF ClaimGetsStale
<1> QED BY <1>1, <1>2, <1>3, <1>4, <1>5, <1>6 DEF Surroundings

\* Every step keeps the types.
LEMMA ConversionTypeStep ==
    ConversionTypeOK /\ [ConversionNext]_conversionVars => ConversionTypeOK'
<1> SUFFICES ASSUME ConversionTypeOK, [ConversionNext]_conversionVars
             PROVE  ConversionTypeOK'
  OBVIOUS
<1>1. CASE \E k \in Clicks : ClickStep(k)
  BY <1>1, ClickTypes
<1>2. CASE \E d \in Deliveries : ConverterStep(d) \/ CrashConversion(d)
  BY <1>2, ConverterTypes
<1>3. CASE Surroundings
  BY <1>3, SurroundingTypes
<1>4. CASE UNCHANGED conversionVars
  BY <1>4 DEF conversionVars, ConversionTypeOK
<1> QED BY <1>1, <1>2, <1>3, <1>4 DEF ConversionNext, Surroundings

-----------------------------------------------------------------------------
(* A job that runs has its PDF.                                             *)

\* Calls of analyze-images keep the invariant: only a call that has seen the
\* images submits the batch.
LEMMA ClickKeepsPdf ==
    ASSUME PdfInv, NEW k \in Clicks, ClickStep(k), ConversionTypeOK'
    PROVE  PdfInv'
<1> USE DEF PdfInv, ConversionTypeOK, ImagesVerified, PdfWritten, RowReady,
            HasPdf, ClickStates, JobEnded, Click, FailRow
<1>1. CASE ReadBatch(k)
  BY <1>1 DEF ReadBatch
<1>2. CASE VerifyUploads(k)
  BY <1>2 DEF VerifyUploads
<1>3. CASE SubmitBatch(k)
  BY <1>3 DEF SubmitBatch
<1>4. CASE EnqueueConversion(k)
  BY <1>4 DEF EnqueueConversion
<1>5. CASE FailEnqueue(k)
  BY <1>5 DEF FailEnqueue
<1>6. CASE CrashClick(k)
  BY <1>6 DEF CrashClick
<1> QED BY <1>1, <1>2, <1>3, <1>4, <1>5, <1>6 DEF ClickStep

\* A delivery writes the PDF before it commits, and commits before it enqueues;
\* one that finds the batch converted finds what another has committed.
LEMMA ConverterKeepsPdf ==
    ASSUME PdfInv, NEW d \in Deliveries, ConverterStep(d) \/ CrashConversion(d),
           ConversionTypeOK'
    PROVE  PdfInv'
<1> USE DEF PdfInv, ConversionTypeOK, ImagesVerified, PdfWritten, RowReady,
            HasPdf, ConverterStates, JobEnded, ConverterAt, Converter, Answered,
            AskedAgain, FailRow
<1>1. CASE ClaimConversion(d)
  BY <1>1 DEF ClaimConversion, Claimable, AlreadyConverted
<1>2. CASE ReadImages(d)
  BY <1>2 DEF ReadImages
<1>3. CASE FailConversion(d)
  BY <1>3 DEF FailConversion
<1>4. CASE WritePdf(d)
  BY <1>4 DEF WritePdf
<1>5. CASE ResetConversion(d)
  BY <1>5 DEF ResetConversion
<1>6. CASE MarkConverted(d)
  BY <1>6 DEF MarkConverted, Converted
<1>7. CASE EnqueuePipeline(d)
  BY <1>7 DEF EnqueuePipeline
<1>8. CASE CrashConversion(d)
  BY <1>8 DEF CrashConversion
<1> QED BY <1>1, <1>2, <1>3, <1>4, <1>5, <1>6, <1>7, <1>8 DEF ConverterStep

\* A run starts from its task only; what the others write does not matter.
LEMMA SurroundingsKeepPdf ==
    ASSUME PdfInv, Surroundings, ConversionTypeOK'
    PROVE  PdfInv'
<1> USE DEF PdfInv, ConversionTypeOK, ImagesVerified, PdfWritten, RowReady,
            HasPdf, JobEnded, FailRow
<1>1. CASE Upload
  BY <1>1 DEF Upload
<1>2. CASE RunClaims
  BY <1>2 DEF RunClaims
<1>3. CASE RunEnds
  BY <1>3 DEF RunEnds
<1>4. CASE SweepImages
  BY <1>4 DEF SweepImages
<1>5. CASE RowGetsOld
  BY <1>5 DEF RowGetsOld
<1>6. CASE ClaimGetsStale
  BY <1>6 DEF ClaimGetsStale
<1> QED BY <1>1, <1>2, <1>3, <1>4, <1>5, <1>6 DEF Surroundings

\* A job that runs finds its PDF in the bucket and under its URL, whichever of
\* its deliveries queued the run (run_image_conversion).
THEOREM ConversionRunHasPdf == ConversionSpec => []RunHasPdf
<1>1. ConversionInit => PdfInv
  <2> SUFFICES ASSUME ConversionInit PROVE PdfInv
    OBVIOUS
  <2>1. ConversionTypeOK
    BY ConversionTypeInit
  <2> QED BY <2>1 DEF ConversionInit, PdfInv, ImagesVerified, PdfWritten, RowReady
<1>2. PdfInv /\ [ConversionNext]_conversionVars => PdfInv'
  <2> SUFFICES ASSUME PdfInv, [ConversionNext]_conversionVars PROVE PdfInv'
    OBVIOUS
  <2>1. ConversionTypeOK'
    BY ConversionTypeStep DEF PdfInv
  <2>2. CASE \E k \in Clicks : ClickStep(k)
    BY <2>1, <2>2, ClickKeepsPdf
  <2>3. CASE \E d \in Deliveries : ConverterStep(d) \/ CrashConversion(d)
    BY <2>1, <2>3, ConverterKeepsPdf
  <2>4. CASE Surroundings
    BY <2>1, <2>4, SurroundingsKeepPdf
  <2>5. CASE UNCHANGED conversionVars
    BY <2>1, <2>5 DEF conversionVars, PdfInv, ImagesVerified, PdfWritten,
                      RowReady, HasPdf
  <2> QED BY <2>2, <2>3, <2>4, <2>5 DEF ConversionNext, Surroundings
<1>3. PdfInv => RunHasPdf
  BY DEF PdfInv, RowReady, HasPdf, RunHasPdf, JobEnded
<1> QED BY <1>1, <1>2, <1>3, PTL DEF ConversionSpec

-----------------------------------------------------------------------------
(* One delivery converts the batch.                                         *)

\* Only a delivery changes who holds a claim; it takes one that nobody holds, or
\* a stale one, and leaves the batch as converting as long as it holds it.
LEMMA ConverterKeepsClaim ==
    ASSUME ClaimInv, NEW d \in Deliveries, ConverterStep(d) \/ CrashConversion(d),
           ConversionTypeOK'
    PROVE  ClaimInv'
<1> USE DEF ClaimInv, ConversionTypeOK, Converting, ConverterStates, ConverterAt,
            Converter, Answered, AskedAgain
<1>1. CASE ClaimConversion(d)
  BY <1>1 DEF ClaimConversion, Claimable
<1>2. CASE ReadImages(d)
  BY <1>2 DEF ReadImages
<1>3. CASE FailConversion(d)
  BY <1>3 DEF FailConversion
<1>4. CASE WritePdf(d)
  BY <1>4 DEF WritePdf
<1>5. CASE ResetConversion(d)
  BY <1>5 DEF ResetConversion
<1>6. CASE MarkConverted(d)
  BY <1>6 DEF MarkConverted, Converted
<1>7. CASE EnqueuePipeline(d)
  BY <1>7 DEF EnqueuePipeline
<1>8. CASE CrashConversion(d)
  BY <1>8 DEF CrashConversion
<1> QED BY <1>1, <1>2, <1>3, <1>4, <1>5, <1>6, <1>7, <1>8 DEF ConverterStep

\* The others leave a batch that is being converted as it is.
LEMMA OthersKeepClaim ==
    ASSUME ClaimInv, ConversionTypeOK',
           Surroundings \/ \E k \in Clicks : ClickStep(k)
    PROVE  ClaimInv'
<1>1. /\ converters' = converters /\ reclaimed' = reclaimed
      /\ conversion.status = "converting" => conversion'.status = "converting"
  <2> USE DEF ClaimInv, ConversionTypeOK, BatchRows
  <2>1. CASE Surroundings
    BY <2>1 DEF Surroundings, Upload, RunClaims, RunEnds, SweepImages, RowGetsOld,
                ClaimGetsStale
  <2>2. CASE \E k \in Clicks : ClickStep(k)
    BY <2>2 DEF ClickStep, ReadBatch, VerifyUploads, SubmitBatch,
                EnqueueConversion, FailEnqueue, CrashClick
  <2> QED BY <2>1, <2>2
<1> QED BY <1>1 DEF ClaimInv, Converting

\* Overlapping deliveries do not convert the batch at the same time, unless one
\* has taken a stale claim over (_claim_conversion).
THEOREM ConversionOneConverter == ConversionSpec => []OneConverter
<1>1. ConversionInit => ClaimInv
  BY ConversionTypeInit DEF ConversionInit, ClaimInv, Converting
<1>2. ClaimInv /\ [ConversionNext]_conversionVars => ClaimInv'
  <2> SUFFICES ASSUME ClaimInv, [ConversionNext]_conversionVars PROVE ClaimInv'
    OBVIOUS
  <2>1. ConversionTypeOK'
    BY ConversionTypeStep DEF ClaimInv
  <2>2. CASE \E d \in Deliveries : ConverterStep(d) \/ CrashConversion(d)
    BY <2>1, <2>2, ConverterKeepsClaim
  <2>3. CASE Surroundings \/ \E k \in Clicks : ClickStep(k)
    BY <2>1, <2>3, OthersKeepClaim
  <2>4. CASE UNCHANGED conversionVars
    BY <2>1, <2>4 DEF conversionVars, ClaimInv, Converting
  <2> QED BY <2>2, <2>3, <2>4 DEF ConversionNext, Surroundings
<1>3. ClaimInv => OneConverter
  <2> SUFFICES ASSUME ClaimInv, ~reclaimed PROVE Cardinality(Converting) <= 1
    BY DEF OneConverter
  <2>1. CASE Converting = {}
    BY <2>1, FS_EmptySet
  <2>2. CASE Converting # {}
    <3>1. PICK d \in Converting : TRUE
      BY <2>2
    <3>2. Converting = {d}
      BY <3>1 DEF ClaimInv
    <3> QED BY <3>2, FS_Singleton
  <2> QED BY <2>1, <2>2
<1> QED BY <1>1, <1>2, <1>3, PTL DEF ConversionSpec
=============================================================================
