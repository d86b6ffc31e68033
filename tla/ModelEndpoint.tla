----------------------------- MODULE ModelEndpoint -----------------------------
(***************************************************************************)
(* The two things the app does with the model's server while that comes    *)
(* and goes: it sends a card to it (Extraction) and it probes it for       *)
(* GET /health (HealthProbe).  They share the server and the clock.        *)
(***************************************************************************)
EXTENDS Extraction, HealthProbe

CONSTANT Replies   \* what the model may say

ASSUME RepliesAssumption == Replies \subseteq Seq(Tokens)

vars == <<endpoint, card, health>>

Init ==
    /\ EndpointInit
    /\ ExtractionInit /\ reply \in Replies
    /\ HealthInit

Next ==
    \/ (Flip \/ Tick(CardWaitsFor \cup ProbesWaitFor)) /\ UNCHANGED <<card, health>>
    \/ Extract /\ UNCHANGED health
    \/ \E r \in Probers : Probe(r) /\ UNCHANGED card

Spec == Init /\ [][Next]_vars

-----------------------------------------------------------------------------
\* The properties.

\* The waits of a card that fails every attempt.
Backoffs == RetryBase * (2 ^ (MaxAttempts - 1) - 1)

\* _complete_with_retry gives up: a card waits for a server that has fallen silent
\* for the timeouts of its attempts and the waits between them, and no longer.
SilenceIsBounded ==
    stage \notin {"absent", "received", "returned"}
        => now <= heard + MaxAttempts * ModelTimeout + Backoffs

\* Nor does a blip blank a card: one with a model_error saw every attempt fail,
\* the last one at least the doubling waits after the first.
OnlyLongOutagesFail ==
    lead = "model_error" =>
        /\ Len(failures) = MaxAttempts
        /\ failures[MaxAttempts] - failures[1] >= Backoffs

\* A substring of the reply.
Part(i, j) == SubSeq(reply, i, j)
PartsFrom(i) == {j \in i + 1 .. Len(reply) : reply[i] = Open /\ reply[j] = Close}

\* A JSON object, bare, fenced or in prose, is read as it stands, whatever braces and
\* escaped quotes are in its strings; and nothing is ever read that is not an object
\* of the reply whose braces balance, mended only if it is no JSON.  So a truncated
\* reply is no object.
ReplyIsParsedRight ==
    stage = "replied" =>
        /\ \A i \in DOMAIN reply : \A j \in PartsFrom(i) :
              Introduced(reply, i, j) /\ IsJson(Part(i, j))
                  => ParseLeadJson(reply) = Part(i, j)
        /\ ParseLeadJson(reply) # NoObject =>
              \E i \in DOMAIN reply : \E j \in PartsFrom(i) :
                  /\ IsBalanced(Part(i, j))
                  /\ \/ ParseLeadJson(reply) = Part(i, j)
                     \/ /\ ~IsJson(Part(i, j))
                        /\ MendedFrom(Part(i, j), ParseLeadJson(reply))

\* Nor does a mistake a model is known for, Python's literals or a trailing comma, cost
\* the card its fields.
MistakesAreMended ==
    stage = "replied" =>
        \A i \in DOMAIN reply : \A j \in PartsFrom(i) :
            Introduced(reply, i, j) /\ IsNearJson(Part(i, j)) /\ ~IsJson(Part(i, j))
                => /\ ParseLeadJson(reply) # NoObject
                   /\ MendedFrom(Part(i, j), ParseLeadJson(reply))

\* parsing.py, "failure modes this handles": "1. Clean JSON", "3. Prose wrapper", whose
\* scan is to "Extract the first balanced {...} block from arbitrary text".  A reply
\* with an object in JSON in it is no parse error.
JsonIsFound ==
    stage = "replied" /\ (\E i \in DOMAIN reply : \E j \in PartsFrom(i) : IsJson(Part(i, j)))
        => ParseLeadJson(reply) # NoObject

\* /health tells what a probe found that began less than a TTL ago, or that the
\* request made itself, also when a slow probe overwrites a newer one's answer.
HealthIsRecent == answered # None => answered.own \/ answered.age < ProbeTTL

\* "A load balancer polling every second does not open a socket every second":
\* once a probe has ended, well or not, the next one begins a TTL after it began,
\* or sooner by at most the time an older probe may have taken to end.
ProbesSpaced ==
    [][\A r \in Probers :
         probing[r] = None /\ probing'[r] # None /\ latest # None
             => now >= latest + ProbeTTL - ProbeTimeout]_vars
=============================================================================
