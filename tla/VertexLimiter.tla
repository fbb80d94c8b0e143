---------------------------- MODULE VertexLimiter ----------------------------
(* The limiter of Vertex calls of the vibecheck server: a distributed semaphore
   of Limit leases in Redis, and in every instance a local semaphore that takes
   over after two failures of Redis in a row, for a cool-down.

   The steps of a call are those between two awaits of the instance's event
   loop; each Lua script is atomic in Redis and drops expired leases first, so
   that a lease that has expired is not in slots.  The response of a script may
   be lost after the script has run.  Redis may be down and come back, with or
   without its leases and its scripts.  A lease may expire whenever it is held:
   nothing renews it.                                                       *)
EXTENDS Naturals, FiniteSets

CONSTANTS
    Calls,          \* the Vertex calls
    Instances,      \* the instances of the server
    Home,           \* the instance of each call
    Limit,          \* VERTEX_MAX_CONCURRENCY
    Attempts,       \* VERTEX_SATURATION_RETRY_ATTEMPTS
    MaxOutages      \* bound: outages of Redis, lost responses, cancellations,
                    \* leases that expire while they are used

ASSUME LimiterConstants ==
    /\ IsFiniteSet(Calls) /\ IsFiniteSet(Instances) /\ Instances # {}
    /\ Home \in [Calls -> Instances]
    /\ Limit \in Nat \ {0} /\ Attempts \in Nat /\ MaxOutages \in Nat

VARIABLES
    slots,      \* the tokens of the leases in Redis
    up,         \* Redis answers
    scripts,    \* Redis knows the scripts
    loaded,     \* per instance: the digests of the scripts are cached
    backend,    \* per instance: the state of _FallbackingBackend
    vcalls,     \* the calls
    outages

limiterVars == <<slots, up, scripts, loaded, backend, vcalls, outages>>

\* Mutant: every instance takes the whole limit for its own.
WholeLimit == Limit

\* _local_vertex_fallback_limit.
LocalLimit == IF Limit \div Cardinality(Instances) > 1
              THEN Limit \div Cardinality(Instances) ELSE 1

\* Every acquisition has a token of its own: the call and its attempt.
Tokens == Calls \X (0 .. Attempts)
Token(c) == <<c, vcalls[c].attempt>>

VCall == [pc : {"idle", "probe", "redis", "again", "full", "local", "leased",
                "localHeld", "ended"},
          attempt : 0 .. Attempts]

Backend == [failures : Nat, fallback : BOOLEAN, cooling : BOOLEAN,
            probing : BOOLEAN]
Healthy == [failures |-> 0, fallback |-> FALSE, cooling |-> FALSE,
            probing |-> FALSE]

LimiterInit ==
    /\ slots = {}
    /\ up = TRUE /\ scripts = FALSE
    /\ loaded = [i \in Instances |-> FALSE]
    /\ backend = [i \in Instances |-> Healthy]
    /\ vcalls = [c \in Calls |-> [pc |-> "idle", attempt |-> 0]]
    /\ outages = 0

VAt(c, pc) == vcalls[c].pc = pc
VTo(c, pc) == vcalls' = [vcalls EXCEPT ![c].pc = pc]
Own(c) == backend[Home[c]]
SetOwn(c, b) == backend' = [backend EXCEPT ![Home[c]] = b]
Outage == outages < MaxOutages /\ outages' = outages + 1
NoOutage == outages' = outages
SameRedis == UNCHANGED <<slots, up, scripts, loaded>>

\* _load_scripts: the first use by an instance loads both.
LoadScripts(c) == /\ loaded[Home[c]] \/ up
                  /\ scripts' = (scripts \/ ~loaded[Home[c]])
                  /\ loaded' = [loaded EXCEPT ![Home[c]] = TRUE]

-----------------------------------------------------------------------------
(* _FallbackingBackend._acquire_once.                                       *)

\* Once the cool-down is over one call probes Redis; the others do not wait.
BeginAcquire(c) ==
    LET b == Own(c)
        probes == b.fallback /\ ~b.cooling /\ ~b.probing
    IN  /\ VAt(c, "idle")
        /\ backend' = [backend EXCEPT ![Home[c]].probing = @ \/ probes]
        /\ VTo(c, IF probes THEN "probe"
                  ELSE IF b.fallback /\ b.cooling THEN "local" ELSE "redis")
        /\ NoOutage /\ SameRedis

\* The probe loads the scripts, unless their digests are cached: then it does
\* not talk to Redis at all.  Meanwhile another call may have ended the fallback.
Probe(c) ==
    /\ VAt(c, "probe")
    /\ \/ /\ SetOwn(c, Healthy) /\ VTo(c, "redis")
          /\ LoadScripts(c)
       \/ /\ ~loaded[Home[c]] /\ ~up
          /\ SetOwn(c, [Own(c) EXCEPT !.failures = @ + 1, !.cooling = TRUE,
                                      !.probing = FALSE])
          /\ VTo(c, IF Own(c).fallback THEN "local" ELSE "redis")
          /\ UNCHANGED <<scripts, loaded>>
    /\ NoOutage /\ UNCHANGED <<slots, up>>

-----------------------------------------------------------------------------
(* _RedisLeaseBackend.acquire.                                              *)

\* Mutant: one lease too many.
GrantsOneMore == Cardinality(slots) <= Limit

\* The acquire script.  A token that has its lease already counts as active.
Grants == Cardinality(slots) < Limit
Asking(c) == vcalls[c].pc \in {"redis", "again", "full"}

\* The script runs if Redis knows it; a digest that was cached before a restart
\* is an error like every other.  _on_redis_success ends every fallback.  A
\* saturated call polls again.
RunAcquire(c) ==
    /\ Asking(c) /\ up
    /\ LoadScripts(c) /\ scripts'
    /\ IF Grants
       THEN /\ slots' = slots \cup {Token(c)}
            /\ VTo(c, "leased") /\ SetOwn(c, Healthy)
       ELSE /\ VTo(c, "full") /\ UNCHANGED <<slots, backend>>
    /\ NoOutage /\ UNCHANGED up

\* The script ran although nobody hears of it.
RunsUnheard(c) == /\ up /\ UNCHANGED up
                  /\ LoadScripts(c) /\ scripts'
                  /\ slots' = IF Grants THEN slots \cup {Token(c)} ELSE slots

NoResponse(c) ==
    \/ ~up /\ NoOutage /\ SameRedis
    \/ up /\ Outage /\ (SameRedis \/ RunsUnheard(c))
    \/ up /\ loaded[Home[c]] /\ ~scripts /\ NoOutage /\ SameRedis

AcquireFails(c) ==
    /\ vcalls[c].pc \in {"redis", "full"}
    /\ NoResponse(c)
    /\ VTo(c, "again") /\ UNCHANGED backend

\* The second failure, with the same token: _on_redis_unavailable.  The first
\* unavailability in a row is the caller's error.
RedisUnavailable(c) ==
    LET b == Own(c)
        engaged == b.fallback \/ b.failures + 1 >= 2
    IN  /\ VAt(c, "again")
        /\ NoResponse(c)
        /\ SetOwn(c, [b EXCEPT !.failures = @ + 1, !.fallback = engaged,
                               !.cooling = engaged \/ b.cooling])
        /\ VTo(c, IF engaged THEN "local" ELSE "ended")

\* The deadline has passed, VertexLimiterSaturationError: a new acquisition, as
\* often as the budget allows.
\* Mutant: the budget of attempts is not looked at.
SaturatedAgain(c) ==
    /\ VAt(c, "full")
    /\ vcalls' = [vcalls EXCEPT ![c] = [pc |-> "idle", attempt |-> @.attempt + 1]]
    /\ NoOutage /\ SameRedis /\ UNCHANGED backend

Saturated(c) ==
    /\ VAt(c, "full")
    /\ vcalls' = [vcalls EXCEPT ![c] =
                     IF @.attempt < Attempts
                     THEN [pc |-> "idle", attempt |-> @.attempt + 1]
                     ELSE [@ EXCEPT !.pc = "ended"]]
    /\ NoOutage /\ SameRedis /\ UNCHANGED backend

-----------------------------------------------------------------------------
(* The local semaphore, the call and the release.                           *)

LocalActive(i) == Cardinality({c \in Calls : Home[c] = i /\ VAt(c, "localHeld")})

AcquireLocal(c) ==
    /\ VAt(c, "local") /\ LocalActive(Home[c]) < LocalLimit
    /\ VTo(c, "localHeld")
    /\ NoOutage /\ SameRedis /\ UNCHANGED backend

\* Mutant: the permit is given back once the fallback is over.
ReleaseAfterRecovery(c) ==
    /\ VAt(c, "localHeld") /\ ~Own(c).fallback
    /\ VTo(c, "ended")
    /\ NoOutage /\ SameRedis /\ UNCHANGED backend

ReleaseLocal(c) ==
    /\ VAt(c, "localHeld")
    /\ VTo(c, "ended")
    /\ NoOutage /\ SameRedis /\ UNCHANGED backend

\* Mutant: the lease is left to its expiry.
ReleaseNothing(c) ==
    /\ VAt(c, "leased")
    /\ VTo(c, "ended")
    /\ NoOutage /\ SameRedis /\ UNCHANGED backend

\* A lease that has expired is not there any more; a release that fails leaves
\* the lease to its expiry.
ReleaseLease(c) ==
    /\ VAt(c, "leased")
    /\ VTo(c, "ended")
    /\ \/ up /\ scripts /\ NoOutage /\ slots' = slots \ {Token(c)}
       \/ up /\ scripts /\ Outage /\ slots' = slots
       \/ ~(up /\ scripts) /\ NoOutage /\ slots' = slots
    /\ UNCHANGED <<up, scripts, loaded, backend>>

CallStepV(c) ==
    \/ BeginAcquire(c) \/ Probe(c) \/ RunAcquire(c) \/ AcquireFails(c)
    \/ RedisUnavailable(c) \/ Saturated(c) \/ AcquireLocal(c)
    \/ ReleaseLocal(c) \/ ReleaseLease(c)

-----------------------------------------------------------------------------
(* What happens to them.                                                    *)

\* The task is cancelled while it waits; what it has in Redis stays.
CancelCall(c) ==
    /\ vcalls[c].pc \in {"probe", "redis", "again", "full", "local"}
    /\ Outage
    /\ VTo(c, "ended")
    /\ SetOwn(c, [Own(c) EXCEPT !.probing = @ /\ ~VAt(c, "probe")])
    /\ SameRedis \/ (Asking(c) /\ RunsUnheard(c))

CooldownEnds(i) ==
    /\ backend[i].cooling
    /\ backend' = [backend EXCEPT ![i].cooling = FALSE]
    /\ NoOutage /\ SameRedis /\ UNCHANGED vcalls

\* VERTEX_LEASE_TTL_MS.  The lease of a call that still runs expires as well.
Expire(t) ==
    /\ t \in slots /\ slots' = slots \ {t}
    /\ IF t = Token(t[1]) /\ VAt(t[1], "leased") THEN Outage ELSE NoOutage
    /\ UNCHANGED <<up, scripts, loaded, backend, vcalls>>

RedisFails ==
    /\ up /\ up' = FALSE
    /\ Outage
    /\ UNCHANGED <<slots, scripts, loaded, backend, vcalls>>

RedisReturns ==
    /\ ~up /\ up' = TRUE
    /\ \/ UNCHANGED <<slots, scripts>>
       \/ slots' = {} /\ scripts' = FALSE
    /\ NoOutage /\ UNCHANGED <<loaded, backend, vcalls>>

LimiterNext ==
    \/ \E c \in Calls : CallStepV(c) \/ CancelCall(c)
    \/ \E i \in Instances : CooldownEnds(i)
    \/ \E t \in Tokens : Expire(t)
    \/ RedisFails \/ RedisReturns

\* Calls go on: their Vertex request ends and their waits time out.
LimiterFairness == WF_limiterVars(\E c \in Calls : CallStepV(c))

LimiterSpec == LimiterInit /\ [][LimiterNext]_limiterVars /\ LimiterFairness

-----------------------------------------------------------------------------
(* Properties.                                                              *)

\* The leases, the backends and the calls are of their types.
LimiterTypeOK ==
    /\ slots \subseteq Tokens
    /\ up \in BOOLEAN /\ scripts \in BOOLEAN
    /\ loaded \in [Instances -> BOOLEAN]
    /\ backend \in [Instances -> Backend]
    /\ vcalls \in [Calls -> VCall]
    /\ outages \in 0 .. MaxOutages

\* Redis never holds more leases than the limit, of all instances together,
\* although a token asks again after a lost response (_ACQUIRE_SCRIPT).
LeaseCap == Cardinality(slots) <= Limit

\* As long as nothing failed or expired the leases in Redis are those of the
\* calls that run: none is leaked, none is shared, and a saturated call that
\* tries again does not leave one behind (acquire, _release_once).
SlotsAccounted ==
    outages = 0 => slots = {Token(c) : c \in {d \in Calls : VAt(d, "leased")}}

\* The instances' local semaphores together admit no more calls than the limit,
\* unless there are more instances than that: an instance's share does not grow
\* when its backend fails, recovers and fails again while calls hold permits.
FairShare ==
    Cardinality(Instances) <= Limit =>
        \A i \in Instances : LocalActive(i) * Cardinality(Instances) <= Limit

\* The inductive invariant: beside the above, no instance admits more than its
\* share, and Redis keeps its scripts until something fails.
LimiterInv ==
    /\ LimiterTypeOK /\ LeaseCap /\ SlotsAccounted
    /\ outages = 0 => up /\ (slots # {} => scripts)
    /\ \A i \in Instances : LocalActive(i) <= LocalLimit

\* Every call ends: with its permit released, or with the error of a saturated
\* or unavailable limiter.  No wait, not even for a lost lease, lasts for ever.
CallsEnd == <>(\A c \in Calls : VAt(c, "ended"))
=============================================================================
