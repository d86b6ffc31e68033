--------------------------- MODULE MCModelEndpoint ---------------------------
(***************************************************************************)
(* ModelEndpoint for TLC.  The card and the probes do not act on each      *)
(* other, so a run has one of them: a card whose reply is any text of up   *)
(* to MaxText tokens, bare or between braces, from a server that stays up; *)
(* a card and a server that comes and goes; or the probes and such a one.  *)
(***************************************************************************)
EXTENDS ModelEndpoint

CONSTANTS
    MaxText,        \* tokens of a reply, its outer braces aside
    MaxProbeTime,   \* the last instant of a run of probes
    h1, h2

Texts   == UNION {[1 .. n -> Tokens] : n \in 0 .. MaxText}
Bounded == Texts \cup {<<Open>> \o t \o <<Close>> : t \in Texts}

Plain == <<Open, Member, Close>>

MCInit ==
    /\ Init
    /\ \/ up /\ flips = 0 /\ stage = "received"
       \/ flips = MaxFlips /\ reply = Plain /\ (stage = "absent" => input = "image")

\* A probe is made only while no card is there, a text is not waited for, and
\* nothing happens once the card is through.
MCNext ==
    /\ Next
    /\ stage # "absent" => UNCHANGED health
    /\ stage = "returned" \/ reply # Plain => UNCHANGED now
    /\ stage = "returned" => UNCHANGED endpoint
    /\ stage = "absent" => now' <= MaxProbeTime

MCSpec == MCInit /\ [][MCNext]_vars
=============================================================================
