------------------------------ MODULE HealthProbe ------------------------------
(***************************************************************************)
(* _probe_model_endpoint (app/main.py), the cached TCP connection behind   *)
(* GET /health.  Requests overlap: each reads the cache before it connects *)
(* and overwrites it when it is done, with the time it read it.            *)
(***************************************************************************)
EXTENDS Endpoint

CONSTANTS
    Probers,        \* requests that may be in progress at once
    ProbeTTL,       \* _MODEL_PROBE_TTL_SECONDS
    ProbeTimeout    \* _MODEL_PROBE_TIMEOUT

ASSUME ProbeAssumption ==
    /\ ProbeTimeout \in Nat /\ ProbeTTL \in Nat
    /\ None \notin [at : Nat, began : Nat, reachable : BOOLEAN]

VARIABLES
    probing,    \* request -> when its own probe began, or None
    cache,      \* _model_probe: [at, began, reachable], or None
    answered,   \* the last answer given: [reachable, age, own], or None
    latest      \* when the newest probe completed so far began, or None

\* `began`, `age` and `latest` are not in the code: when the probe an answer came
\* from really began, and how long ago, for the properties.
health == <<probing, cache, answered, latest>>

HealthInit ==
    /\ probing = [r \in Probers |-> None]
    /\ cache = None
    /\ answered = None
    /\ latest = None

ProbesWaitFor == {probing[r] + ProbeTimeout : r \in {r \in Probers : probing[r] # None}}

Answered(probe, own) ==
    answered' = [reachable |-> probe.reachable, age |-> now - probe.began, own |-> own]

Fresh == cache # None /\ now - cache.at < ProbeTTL

-----------------------------------------------------------------------------
FromCache(r) ==
    /\ probing[r] = None
    /\ Fresh
    /\ Answered(cache, FALSE)
    /\ UNCHANGED <<endpoint, probing, cache, latest>>

StartProbe(r) ==
    /\ probing[r] = None
    /\ ~Fresh
    /\ probing' = [probing EXCEPT ![r] = now]
    /\ UNCHANGED <<endpoint, cache, answered, latest>>

\* Mutants of Cached: stamped when the probe ends; only a success is kept.
CachedAtEnd(r, reachable) ==
    cache' = [at |-> now, began |-> probing[r], reachable |-> reachable]
CachedIfReachable(r, reachable) ==
    cache' = IF reachable
             THEN [at |-> probing[r], began |-> probing[r], reachable |-> TRUE]
             ELSE cache
Cached(r, reachable) ==
    cache' = [at |-> probing[r], began |-> probing[r], reachable |-> reachable]

\* Connected; refused; or timed out.
EndProbe(r, reachable) ==
    /\ probing[r] # None
    /\ reachable = up \/ (~reachable /\ now = probing[r] + ProbeTimeout)
    /\ Cached(r, reachable)
    /\ Answered([began |-> probing[r], reachable |-> reachable], TRUE)
    /\ latest' = IF latest = None \/ latest < probing[r] THEN probing[r] ELSE latest
    /\ probing' = [probing EXCEPT ![r] = None]
    /\ UNCHANGED endpoint

Probe(r) == FromCache(r) \/ StartProbe(r) \/ \E reachable \in BOOLEAN : EndProbe(r, reachable)
=============================================================================
