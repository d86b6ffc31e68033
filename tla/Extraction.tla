------------------------------ MODULE Extraction ------------------------------
(***************************************************************************)
(* One card through extract_lead (app/extraction.py): the input checks,    *)
(* the image retained, _complete_with_retry around model_client's          *)
(* complete, and the lead its outcome becomes.                             *)
(***************************************************************************)
EXTENDS Endpoint, ReplyParsing

CONSTANTS
    MaxAttempts,   \* settings.model_max_attempts, at least 1
    RetryBase,     \* settings.model_retry_base_seconds
    ModelTimeout   \* settings.model_timeout_seconds

ASSUME ExtractionAssumption ==
    /\ MaxAttempts \in Nat \ {0} /\ RetryBase \in Nat /\ ModelTimeout \in Nat
    /\ None # "model_error"

VARIABLES
    stage,     \* how far the card has got
    input,     \* what was uploaded
    reply,     \* what the model says of it, the same every time: temperature 0
    attempt,   \* calls that have failed
    heard,     \* when the server last let a call get on; at first, when the card turned to it
    deadline,  \* when the wait it is in ends
    failures,  \* when each call that failed did
    image,     \* image_sha256 is set
    lead       \* the status of the lead returned, or None

card == <<stage, input, reply, attempt, heard, deadline, failures, image, lead>>

Inputs == {"nothing", "no image", "image"}
Stages == {"absent", "received", "calling", "connecting", "waiting", "sleeping",
           "replied", "returned"}

ExtractionInit ==
    /\ stage \in {"absent", "received"}
    /\ input \in Inputs
    /\ attempt = 0 /\ heard = 0 /\ deadline = 0
    /\ failures = <<>>
    /\ image = FALSE
    /\ lead = None

\* The app's own steps take no time.
CardWaitsFor ==
    CASE stage \in {"absent", "returned"} -> {}
      [] stage \in {"connecting", "waiting", "sleeping"} -> {deadline}
      [] OTHER -> {now}

Return(status) == stage' = "returned" /\ lead' = status

-----------------------------------------------------------------------------
\* An empty file, or one preprocess_to_jpeg cannot read.
RejectInput ==
    /\ stage = "received" /\ input # "image"
    /\ Return("input_error")
    /\ UNCHANGED <<endpoint, input, reply, attempt, heard, deadline, failures,
                   image>>

\* images.put, unless /api/extract asked not to; an OSError is swallowed.
RetainImage ==
    /\ stage = "received" /\ input = "image"
    /\ stage' = "calling"
    /\ image' \in BOOLEAN
    /\ heard' = now
    /\ UNCHANGED <<endpoint, input, reply, attempt, deadline, failures, lead>>

\* client.post.  httpx allows its timeout to each operation of the call: to the
\* connection, then to every piece written and every piece read.
Allow == deadline' = now + ModelTimeout

Post ==
    /\ stage = "calling"
    /\ stage' = "connecting"
    /\ Allow
    /\ UNCHANGED <<endpoint, input, reply, attempt, heard, failures, image, lead>>

Connect ==
    /\ stage = "connecting" /\ up
    /\ stage' = "waiting"
    /\ Allow /\ heard' = now
    /\ UNCHANGED <<endpoint, input, reply, attempt, failures, image, lead>>

\* A piece of the request was taken, or one of the response came.
GetsOn ==
    /\ stage = "waiting" /\ up
    /\ Allow /\ heard' = now
    /\ UNCHANGED <<endpoint, stage, input, reply, attempt, failures, image, lead>>

\* Mutant of LastAttempt: one attempt too many.
OneTooMany == attempt = MaxAttempts
LastAttempt == attempt = MaxAttempts - 1

\* The wait doubles: 1s, 2s, 4s.  Mutant of Backoff: it does not wait.
NoBackoff == 0
Backoff == RetryBase * 2 ^ attempt

\* A ModelError: the last one becomes the lead, another one is slept off.  A
\* connection is refused or times out; once there is one, it may be reset or time
\* out, or the response has an error status or is no completion.
CallFails ==
    /\ \/ stage = "connecting" /\ (~up \/ now = deadline)
       \/ stage = "waiting"
    /\ failures' = Append(failures, now)
    /\ IF LastAttempt
       THEN Return("model_error") /\ UNCHANGED <<attempt, deadline>>
       ELSE /\ stage' = "sleeping"
            /\ deadline' = now + Backoff
            /\ attempt' = attempt + 1
            /\ UNCHANGED lead
    /\ UNCHANGED <<endpoint, input, reply, heard, image>>

WakeUp ==
    /\ stage = "sleeping" /\ now = deadline
    /\ stage' = "calling"
    /\ UNCHANGED <<endpoint, input, reply, attempt, heard, deadline, failures,
                   image, lead>>

Answer ==
    /\ stage = "waiting" /\ up
    /\ stage' = "replied"
    /\ UNCHANGED <<endpoint, input, reply, attempt, heard, deadline, failures,
                   image, lead>>

\* normalise_fields and postprocess_fields leave nothing of an object without a
\* member, and of another what is a field and holds a value, if anything.
Outcomes(object) == IF object = <<Open, Close>> THEN {"empty"} ELSE {"ok", "empty"}

Parse ==
    /\ stage = "replied"
    /\ LET object == ParseLeadJson(reply)
       IN  IF object = NoObject THEN Return("parse_error")
           ELSE \E status \in Outcomes(object) : Return(status)
    /\ UNCHANGED <<endpoint, input, reply, attempt, heard, deadline, failures,
                   image>>

Extract ==
    \/ RejectInput \/ RetainImage \/ Post \/ Connect \/ GetsOn \/ CallFails
    \/ WakeUp \/ Answer \/ Parse
=============================================================================
