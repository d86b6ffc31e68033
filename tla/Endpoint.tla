------------------------------- MODULE Endpoint -------------------------------
(***************************************************************************)
(* The model's server as the app sees it, and the clock.  Nothing of it is *)
(* under src/app: what it may do is what model_client.py and /health are   *)
(* written to bear.  While it is up it accepts connections and may answer, *)
(* well or with an error, a piece at a time, or let the caller wait; while *)
(* it is down it refuses connections and resets them.                      *)
(*                                                                         *)
(* Time passes in ticks, and never past an instant at which the app is     *)
(* bound to act: asyncio's timers are taken as exact.                      *)
(***************************************************************************)
EXTENDS Naturals

CONSTANTS
    MaxTime,   \* bound: the last instant
    MaxFlips,  \* bound: times the server comes up or goes down
    None       \* absent, in the modules that extend this one

ASSUME EndpointAssumption == MaxTime \in Nat /\ MaxFlips \in Nat

VARIABLES
    now,
    up,
    flips   \* changes still to come

endpoint == <<now, up, flips>>

EndpointInit ==
    /\ now = 0
    /\ up \in BOOLEAN
    /\ flips \in {0, MaxFlips}

Flip ==
    /\ flips > 0
    /\ up' = ~up
    /\ flips' = flips - 1
    /\ UNCHANGED now

\* `due` is the instants somebody waits for.
Tick(due) ==
    /\ now < MaxTime
    /\ now \notin due
    /\ now' = now + 1
    /\ UNCHANGED <<up, flips>>
=============================================================================
