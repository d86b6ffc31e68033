-------------------------- MODULE ModelEndpointProofs --------------------------
(***************************************************************************)
(* Theorems about ModelEndpoint for every number of attempts, timeout,     *)
(* wait and clock, whatever the model replies: how long a card may take,   *)
(* what a blank one has been through, that a reply is parsed right however *)
(* long it is, and how old an answer of /health is.                        *)
(*                                                                         *)
(* The waits double, so the bounds need powers of two.  What they need is  *)
(* derived from a set of n elements having 2 ^ n subsets.                  *)
(***************************************************************************)
EXTENDS ModelEndpoint, ReplyParsingProofs, FiniteSetTheorems, TLAPS

USE ExtractionAssumption

-----------------------------------------------------------------------------
\* The invariants of the card and of the probes.

TimesOK ==
    /\ now \in Nat /\ heard \in Nat /\ deadline \in Nat
    /\ stage \in Stages
    /\ attempt \in 0 .. MaxAttempts - 1
    /\ failures \in Seq(Nat)

\* What n failed attempts, and the waits after them, may take.
Waits(n) == RetryBase * (2 ^ n - 1)
Spent(n) == n * ModelTimeout + Waits(n)

\* However far the card has got, it has spent what its attempts allow since the
\* server last let it get on.
CardIsOnTime ==
    LET before == heard + Spent(attempt)
    IN  /\ stage \in {"absent", "received"} => attempt = 0
        /\ stage = "calling" => now <= before
        /\ stage \in {"connecting", "waiting", "sleeping"} => now <= deadline
        /\ stage \in {"connecting", "waiting"} => deadline <= before + ModelTimeout
        /\ stage = "sleeping" => deadline <= before
        /\ stage = "replied" => now <= before + ModelTimeout

\* A failed call was followed by the waits there were since.
FailuresAreSpread ==
    /\ stage # "returned" => Len(failures) = attempt /\ lead # "model_error"
    /\ attempt > 0 /\ stage \in {"calling", "connecting", "waiting"}
           => failures[1] + Waits(attempt) <= now
    /\ attempt > 0 /\ stage = "sleeping" => failures[1] + Waits(attempt) <= deadline

CardInv == TimesOK /\ CardIsOnTime /\ FailuresAreSpread /\ OnlyLongOutagesFail

\* A probe that overwrites a newer one's answer began at most its timeout before.
ProbeInv ==
    /\ now \in Nat
    /\ probing \in [Probers -> Nat \cup {None}]
    /\ \A r \in Probers :
          probing[r] # None => probing[r] <= now /\ now <= probing[r] + ProbeTimeout
    /\ cache # None => cache.at \in Nat /\ cache.began = cache.at
    /\ latest # None => /\ cache # None /\ latest \in Nat
                        /\ latest <= now /\ latest <= cache.at + ProbeTimeout
    /\ HealthIsRecent

-----------------------------------------------------------------------------
\* Powers of two.

\* 2 ^ n counts the subsets of 1 .. n.
LEMMA PowerCountsSubsets ==
    ASSUME NEW n \in Nat
    PROVE  /\ IsFiniteSet(SUBSET (1 .. n))
           /\ Cardinality(SUBSET (1 .. n)) = 2 ^ n
<1>1. IsFiniteSet(1 .. n) /\ Cardinality(1 .. n) = n
  BY FS_Interval
<1> QED  BY <1>1, FS_SUBSET

\* The powers are positive.
LEMMA PowerIsPositive ==
    ASSUME NEW n \in Nat
    PROVE  2 ^ n \in Nat /\ 2 ^ n >= 1
<1>1. 2 ^ n \in Nat
  BY PowerCountsSubsets, FS_CardinalityType
<1>2. {} \in SUBSET (1 .. n)
  OBVIOUS
<1>3. Cardinality(SUBSET (1 .. n)) # 0
  BY <1>2, PowerCountsSubsets, FS_EmptySet
<1> QED  BY <1>1, <1>3, PowerCountsSubsets

\* Each is the double of the one before: with n + 1 or without it.
LEMMA PowerDoubles ==
    ASSUME NEW n \in Nat
    PROVE  2 ^ (n + 1) = 2 ^ n + 2 ^ n
<1> DEFINE Without == SUBSET (1 .. n)
           With    == {A \cup {n + 1} : A \in Without}
           f       == [A \in Without |-> A \cup {n + 1}]
<1>1. Without \cup With = SUBSET (1 .. (n + 1))
  <2>1. ASSUME NEW B \in SUBSET (1 .. (n + 1))
        PROVE  B \in Without \cup With
    <3>1. CASE n + 1 \in B
      <4>1. B \ {n + 1} \in Without
        OBVIOUS
      <4>2. B = (B \ {n + 1}) \cup {n + 1}
        BY <3>1
      <4> QED  BY <4>1, <4>2
    <3>2. CASE n + 1 \notin B
      BY <3>2
    <3> QED  BY <3>1, <3>2
  <2>2. ASSUME NEW B \in Without \cup With
        PROVE  B \in SUBSET (1 .. (n + 1))
    <3>1. 1 .. n \subseteq 1 .. (n + 1) /\ n + 1 \in 1 .. (n + 1)
      OBVIOUS
    <3> QED  BY <3>1
  <2> QED  BY <2>1, <2>2
<1>2. Without \cap With = {}
  OBVIOUS
<1>3. f \in Bijection(Without, With)
  <2>1. \A A, B \in Without : A \cup {n + 1} = B \cup {n + 1} => A = B
    <3>1. \A A \in Without : (A \cup {n + 1}) \ {n + 1} = A
      OBVIOUS
    <3> QED  BY <3>1
  <2>2. f \in Injection(Without, With)
    <3>1. f \in [Without -> With]
      OBVIOUS
    <3>2. IsInjective(f)
      BY <2>1 DEF IsInjective
    <3> QED  BY <3>1, <3>2 DEF Injection
  <2>3. f \in Surjection(Without, With)
    <3>1. f \in [Without -> With]
      OBVIOUS
    <3>2. \A B \in With : \E A \in Without : f[A] = B
      OBVIOUS
    <3> QED  BY <3>1, <3>2 DEF Surjection
  <2> QED  BY <2>2, <2>3 DEF Bijection
<1>4. ExistsBijection(Without, With)
  BY <1>3 DEF ExistsBijection
<1>5. IsFiniteSet(Without) /\ Cardinality(Without) = 2 ^ n
  BY PowerCountsSubsets
<1>6. IsFiniteSet(With) /\ Cardinality(With) = 2 ^ n
  BY <1>4, <1>5, FS_Bijection
<1>7. Cardinality(SUBSET (1 .. (n + 1))) = 2 ^ (n + 1)
  <2>1. n + 1 \in Nat
    OBVIOUS
  <2> QED  BY <2>1, PowerCountsSubsets
<1>8. Cardinality(Without \cup With) = 2 ^ n + 2 ^ n - Cardinality(Without \cap With)
  <2> HIDE DEF Without, With
  <2> QED  BY <1>5, <1>6, FS_Union
<1>9. Cardinality(Without \cap With) = 0
  <2> HIDE DEF Without, With
  <2> QED  BY <1>2, FS_EmptySet
<1>10. 2 ^ n \in Nat /\ 2 ^ n + 2 ^ n - 0 = 2 ^ n + 2 ^ n
  BY PowerIsPositive
<1> HIDE DEF Without, With
<1> QED  BY <1>1, <1>7, <1>8, <1>9, <1>10

\* They grow.
LEMMA PowersGrow ==
    ASSUME NEW n \in Nat, NEW m \in Nat, n <= m
    PROVE  2 ^ n <= 2 ^ m
<1>1. SUBSET (1 .. n) \subseteq SUBSET (1 .. m)
  <2>1. 1 .. n \subseteq 1 .. m
    OBVIOUS
  <2> QED  BY <2>1
<1>2. Cardinality(SUBSET (1 .. n)) <= Cardinality(SUBSET (1 .. m))
  BY <1>1, PowerCountsSubsets, FS_Subset
<1> QED  BY <1>2, PowerCountsSubsets

-----------------------------------------------------------------------------
\* What the attempts and the waits add up to.

LEMMA WaitIsNatural ==
    ASSUME NEW n \in Nat
    PROVE  RetryBase * 2 ^ n \in Nat
<1>1. \A p \in Nat : RetryBase * p \in Nat
  OBVIOUS
<1> QED  BY <1>1, PowerIsPositive

\* The doubling waits sum to the next power less one.
LEMMA WaitsAdd ==
    ASSUME NEW n \in Nat
    PROVE  /\ Waits(n) \in Nat
           /\ Waits(0) = 0
           /\ Waits(n + 1) = Waits(n) + RetryBase * 2 ^ n
           /\ \A m \in Nat : n <= m => Waits(n) <= Waits(m)
<1>1. \A p \in Nat : p >= 1 => RetryBase * (p - 1) \in Nat
  OBVIOUS
<1>2. \A p \in Nat : RetryBase * (p + p - 1) = RetryBase * (p - 1) + RetryBase * p
  OBVIOUS
<1>3. \A p, q \in Nat : p <= q => RetryBase * (p - 1) <= RetryBase * (q - 1)
  OBVIOUS
<1>4. Waits(n) \in Nat
  BY <1>1, PowerIsPositive DEF Waits
<1>5. Waits(0) = 0
  BY SMT DEF Waits
<1>6. Waits(n + 1) = Waits(n) + RetryBase * 2 ^ n
  BY <1>2, PowerIsPositive, PowerDoubles DEF Waits
<1>7. ASSUME NEW m \in Nat, n <= m
      PROVE  Waits(n) <= Waits(m)
  BY <1>3, <1>7, PowerIsPositive, PowersGrow DEF Waits
<1> QED  BY <1>4, <1>5, <1>6, <1>7

\* An attempt that is not the last leaves time for the rest.
LEMMA SpentAdds ==
    ASSUME NEW n \in Nat
    PROVE  /\ Spent(n) \in Nat
           /\ Spent(0) = 0
           /\ Spent(n + 1) = Spent(n) + ModelTimeout + RetryBase * 2 ^ n
           /\ n <= MaxAttempts - 1 =>
                  Spent(n) + ModelTimeout <= MaxAttempts * ModelTimeout + Backoffs
<1>1. \A k, t \in Nat : k * t \in Nat /\ (k + 1) * t = k * t + t
  OBVIOUS
<1>2. \A k, m, t \in Nat : k + 1 <= m => (k + 1) * t <= m * t
  OBVIOUS
<1>3. Spent(n) \in Nat /\ Spent(0) = 0
  <2>1. 0 * ModelTimeout = 0
    OBVIOUS
  <2>2. n * ModelTimeout \in Nat
    BY <1>1
  <2>3. Waits(n) \in Nat /\ Waits(0) = 0
    BY WaitsAdd
  <2> QED  BY <2>1, <2>2, <2>3 DEF Spent
<1>4. Spent(n + 1) = Spent(n) + ModelTimeout + RetryBase * 2 ^ n
  BY <1>1, WaitsAdd, WaitIsNatural DEF Spent
<1>5. ASSUME n <= MaxAttempts - 1
      PROVE  Spent(n) + ModelTimeout <= MaxAttempts * ModelTimeout + Backoffs
  <2>1. Waits(n) <= Waits(MaxAttempts - 1) /\ Waits(MaxAttempts - 1) \in Nat
    BY <1>5, WaitsAdd
  <2>2. (n + 1) * ModelTimeout <= MaxAttempts * ModelTimeout
    BY <1>2, <1>5
  <2>3. MaxAttempts * ModelTimeout \in Nat
    OBVIOUS
  <2>4. Backoffs = Waits(MaxAttempts - 1)
    BY DEF Backoffs, Waits
  <2>5. Waits(n) \in Nat /\ n * ModelTimeout \in Nat
    BY <1>1, WaitsAdd
  <2>6. (n + 1) * ModelTimeout = n * ModelTimeout + ModelTimeout
    BY <1>1
  <2> QED  BY <2>1, <2>2, <2>3, <2>4, <2>5, <2>6 DEF Spent
<1> QED  BY <1>3, <1>4, <1>5

-----------------------------------------------------------------------------
\* The card.

LEMMA CardInit == Init => CardInv
<1> SUFFICES ASSUME Init PROVE CardInv
  OBVIOUS
<1>1. /\ now = 0 /\ heard = 0 /\ deadline = 0 /\ attempt = 0 /\ failures = <<>>
      /\ stage \in {"absent", "received"} /\ lead = None
  BY DEF Init, EndpointInit, ExtractionInit
<1>2. TimesOK
  BY <1>1 DEF TimesOK, Stages
<1>3. CardIsOnTime
  BY <1>1 DEF CardIsOnTime
<1>4. FailuresAreSpread
  BY <1>1 DEF FailuresAreSpread
<1>5. OnlyLongOutagesFail
  BY <1>1 DEF OnlyLongOutagesFail
<1> QED  BY <1>2, <1>3, <1>4, <1>5 DEF CardInv

\* The clock does not pass the instant the card waits for.
LEMMA TickKeepsCard ==
    ASSUME CardInv, Tick(CardWaitsFor \cup ProbesWaitFor), UNCHANGED card
    PROVE  CardInv'
<1>1. now \in Nat /\ now' = now + 1 /\ now \notin CardWaitsFor
  BY DEF Tick, CardInv, TimesOK
<1>2. UNCHANGED <<stage, heard, deadline, attempt, failures, lead>>
  BY DEF card
<1>3. /\ stage \in {"absent", "returned", "connecting", "waiting", "sleeping"}
      /\ stage \in {"connecting", "waiting", "sleeping"} => now # deadline
  BY <1>1 DEF CardWaitsFor, CardInv, TimesOK, Stages
<1>4. TimesOK'
  BY <1>1, <1>2 DEF CardInv, TimesOK
<1>5. CardIsOnTime'
  <2>1. Spent(attempt)' = Spent(attempt)
    BY <1>2 DEF Spent, Waits
  <2> QED  BY <1>1, <1>2, <1>3, <2>1 DEF CardInv, CardIsOnTime, TimesOK
<1>6. FailuresAreSpread'
  <2>1. Waits(attempt)' = Waits(attempt)
    BY <1>2 DEF Waits
  <2>2. attempt > 0 /\ stage # "returned" => failures[1] \in Nat
    <3>1. CASE attempt > 0 /\ stage # "returned"
      <4>1. failures \in Seq(Nat) /\ Len(failures) = attempt
        BY <3>1 DEF CardInv, TimesOK, FailuresAreSpread
      <4> QED  BY <3>1, <4>1
    <3> QED  BY <3>1
  <2>3. Waits(attempt) \in Nat
    <3>1. attempt \in Nat
      BY DEF CardInv, TimesOK
    <3> QED  BY <3>1, WaitsAdd
  <2> DEFINE waited == failures[1] + Waits(attempt)
  <2>4. attempt > 0 /\ stage # "returned" => waited \in Nat
    BY <2>2, <2>3
  <2>5. waited' = waited
    BY <1>2, <2>1
  <2> HIDE DEF waited
  <2>6. FailuresAreSpread =>
           /\ stage # "returned" => Len(failures) = attempt /\ lead # "model_error"
           /\ attempt > 0 /\ stage \in {"calling", "connecting", "waiting"} => waited <= now
           /\ attempt > 0 /\ stage = "sleeping" => waited <= deadline
    BY DEF FailuresAreSpread, waited
  <2>7. /\ stage # "returned" => Len(failures) = attempt /\ lead # "model_error"
        /\ attempt > 0 /\ stage \in {"calling", "connecting", "waiting"} => waited <= now'
        /\ attempt > 0 /\ stage = "sleeping" => waited <= deadline
    BY <1>1, <2>4, <2>6 DEF CardInv
  <2>8. /\ attempt' = attempt /\ stage' = stage /\ deadline' = deadline
        /\ failures' = failures /\ lead' = lead
    BY <1>2
  <2> QED  BY <2>5, <2>7, <2>8 DEF FailuresAreSpread, waited
<1>7. OnlyLongOutagesFail'
  BY <1>2 DEF CardInv, OnlyLongOutagesFail, Backoffs
<1> QED  BY <1>4, <1>5, <1>6, <1>7 DEF CardInv

\* Steps that leave the card and the clock alone.
LEMMA CardStays ==
    ASSUME CardInv, UNCHANGED now, UNCHANGED card
    PROVE  CardInv'
  BY DEF CardInv, card, TimesOK, CardIsOnTime, FailuresAreSpread, OnlyLongOutagesFail,
         Spent, Waits, Backoffs, Stages

\* A step of extract_lead takes no time, and the deadline it sets is within its bounds.
LEMMA ExtractKeepsCard ==
    ASSUME CardInv, Extract
    PROVE  CardInv'
<1> USE DEF CardInv
<1>1. now' = now /\ now \in Nat
  BY DEF Extract, RejectInput, RetainImage, Post, Connect, GetsOn, CallFails, WakeUp, Answer,
         Parse, endpoint, TimesOK
<1>2. /\ attempt \in Nat /\ attempt <= MaxAttempts - 1
      /\ Spent(attempt) \in Nat /\ Waits(attempt) \in Nat /\ 2 ^ attempt \in Nat
      /\ RetryBase * 2 ^ attempt \in Nat
  <2>1. attempt \in Nat /\ attempt <= MaxAttempts - 1
    BY DEF TimesOK
  <2> QED  BY <2>1, SpentAdds, WaitsAdd, PowerIsPositive, WaitIsNatural
<1>3. /\ UNCHANGED attempt => Spent(attempt)' = Spent(attempt)
      /\ UNCHANGED attempt => Waits(attempt)' = Waits(attempt)
  BY DEF Spent, Waits
<1>4. CASE RejectInput
  <2>1. TimesOK'
    BY <1>1, <1>4 DEF RejectInput, Return, TimesOK, Stages
  <2>2. CardIsOnTime' /\ FailuresAreSpread' /\ OnlyLongOutagesFail'
    BY <1>4 DEF RejectInput, Return, CardIsOnTime, FailuresAreSpread, OnlyLongOutagesFail
  <2> QED  BY <2>1, <2>2
<1>5. CASE RetainImage
  <2>1. TimesOK'
    BY <1>1, <1>5 DEF RetainImage, TimesOK, Stages
  <2>2. attempt = 0 /\ attempt' = 0
    BY <1>5 DEF RetainImage, CardIsOnTime
  <2>3. CardIsOnTime'
    BY <1>1, <1>2, <1>3, <1>5, <2>2 DEF RetainImage, CardIsOnTime
  <2>4. FailuresAreSpread' /\ OnlyLongOutagesFail'
    BY <1>5, <2>2 DEF RetainImage, FailuresAreSpread, OnlyLongOutagesFail
  <2> QED  BY <2>1, <2>3, <2>4
<1>6. CASE Post
  <2>1. TimesOK'
    BY <1>1, <1>6 DEF Post, Allow, TimesOK, Stages
  <2>2. CardIsOnTime'
    BY <1>1, <1>2, <1>3, <1>6 DEF Post, Allow, CardIsOnTime, TimesOK
  <2>3. FailuresAreSpread' /\ OnlyLongOutagesFail'
    BY <1>1, <1>3, <1>6 DEF Post, FailuresAreSpread, OnlyLongOutagesFail
  <2> QED  BY <2>1, <2>2, <2>3
<1>7. CASE Connect
  <2>1. TimesOK'
    BY <1>1, <1>7 DEF Connect, Allow, TimesOK, Stages
  <2>2. CardIsOnTime'
    BY <1>1, <1>2, <1>3, <1>7 DEF Connect, Allow, CardIsOnTime, TimesOK
  <2>3. FailuresAreSpread' /\ OnlyLongOutagesFail'
    BY <1>1, <1>3, <1>7 DEF Connect, FailuresAreSpread, OnlyLongOutagesFail
  <2> QED  BY <2>1, <2>2, <2>3
<1>8. CASE CallFails
  <2>1. /\ stage \in {"connecting", "waiting"}
        /\ now <= deadline /\ deadline <= heard + Spent(attempt) + ModelTimeout
        /\ Len(failures) = attempt /\ failures \in Seq(Nat)
    BY <1>2, <1>8 DEF CallFails, CardIsOnTime, FailuresAreSpread, TimesOK
  <2>2. /\ failures' \in Seq(Nat) /\ Len(failures') = attempt + 1
        /\ failures'[attempt + 1] = now
        /\ attempt > 0 => failures'[1] = failures[1] /\ failures[1] \in Nat
    BY <1>1, <1>2, <1>8, <2>1 DEF CallFails
  <2>3. failures'[1] \in Nat /\ failures'[1] + Waits(attempt) <= now
    <3>1. CASE attempt = 0
      <4>1. failures'[1] = now /\ Waits(attempt) = 0
        BY <2>2, <3>1, WaitsAdd
      <4> QED  BY <1>1, <4>1
    <3>2. CASE attempt > 0
      <4>1. failures[1] + Waits(attempt) <= now
        BY <2>1, <3>2 DEF FailuresAreSpread
      <4> QED  BY <2>2, <3>2, <4>1
    <3> QED  BY <1>2, <3>1, <3>2
  <2>4. CASE LastAttempt
    <3>1. /\ stage' = "returned" /\ lead' = "model_error"
          /\ UNCHANGED <<heard, attempt, deadline>>
      BY <1>8, <2>4 DEF CallFails, Return
    <3>2. attempt + 1 = MaxAttempts /\ Backoffs = Waits(attempt)
      BY <1>2, <2>4 DEF LastAttempt, Backoffs, Waits
    <3>3. OnlyLongOutagesFail'
      <4>1. Backoffs' = Backoffs
        BY DEF Backoffs
      <4> QED  BY <1>1, <1>2, <2>2, <2>3, <3>2, <4>1 DEF OnlyLongOutagesFail
    <3>4. TimesOK'
      BY <1>1, <2>2, <3>1 DEF TimesOK, Stages
    <3>5. CardIsOnTime' /\ FailuresAreSpread'
      BY <3>1 DEF CardIsOnTime, FailuresAreSpread
    <3> QED  BY <3>3, <3>4, <3>5
  <2>5. CASE ~LastAttempt
    <3>1. /\ stage' = "sleeping" /\ lead' = lead /\ lead # "model_error"
          /\ heard' = heard /\ attempt' = attempt + 1
          /\ deadline' = now + RetryBase * 2 ^ attempt
      BY <1>8, <2>1, <2>5 DEF CallFails, Backoff, FailuresAreSpread
    <3>2. attempt' \in 0 .. MaxAttempts - 1
      BY <1>2, <2>5, <3>1 DEF LastAttempt
    <3>3. /\ Spent(attempt)' = Spent(attempt) + ModelTimeout + RetryBase * 2 ^ attempt
          /\ Waits(attempt)' = Waits(attempt) + RetryBase * 2 ^ attempt
      <4>1. Spent(attempt)' = Spent(attempt + 1) /\ Waits(attempt)' = Waits(attempt + 1)
        BY <3>1 DEF Spent, Waits
      <4> QED  BY <1>2, <4>1, SpentAdds, WaitsAdd
    <3>4. TimesOK'
      <4>1. deadline' \in Nat
        BY <1>1, <1>2, <3>1
      <4> QED  BY <1>1, <2>2, <3>1, <3>2, <4>1 DEF TimesOK, Stages
    <3>5. CardIsOnTime'
      <4>1. now' <= deadline'
        BY <1>1, <1>2, <3>1
      <4>2. deadline' <= heard' + Spent(attempt)'
        BY <1>1, <1>2, <2>1, <3>1, <3>3 DEF TimesOK
      <4> QED  BY <3>1, <4>1, <4>2 DEF CardIsOnTime
    <3>6. FailuresAreSpread'
      <4>1. failures'[1] + Waits(attempt)' <= deadline'
        BY <1>1, <1>2, <2>3, <3>1, <3>3
      <4> QED  BY <2>2, <3>1, <4>1 DEF FailuresAreSpread
    <3>7. OnlyLongOutagesFail'
      BY <3>1 DEF OnlyLongOutagesFail
    <3> QED  BY <3>4, <3>5, <3>6, <3>7
  <2> QED  BY <2>4, <2>5
<1>9. CASE WakeUp
  <2>1. TimesOK'
    BY <1>1, <1>9 DEF WakeUp, TimesOK, Stages
  <2>2. CardIsOnTime'
    BY <1>1, <1>2, <1>3, <1>9 DEF WakeUp, CardIsOnTime, TimesOK
  <2>3. FailuresAreSpread' /\ OnlyLongOutagesFail'
    BY <1>1, <1>3, <1>9 DEF WakeUp, FailuresAreSpread, OnlyLongOutagesFail
  <2> QED  BY <2>1, <2>2, <2>3
<1>10. CASE Answer
  <2>1. TimesOK'
    BY <1>1, <1>10 DEF Answer, TimesOK, Stages
  <2>2. CardIsOnTime'
    BY <1>1, <1>2, <1>3, <1>10 DEF Answer, CardIsOnTime, TimesOK
  <2>3. FailuresAreSpread' /\ OnlyLongOutagesFail'
    BY <1>1, <1>3, <1>10 DEF Answer, FailuresAreSpread, OnlyLongOutagesFail
  <2> QED  BY <2>1, <2>2, <2>3
<1>11. CASE Parse
  <2>1. /\ stage' = "returned" /\ lead' \in {"parse_error", "ok", "empty"}
        /\ UNCHANGED <<heard, deadline, attempt, failures>>
    BY <1>11 DEF Parse, Return, Outcomes
  <2>2. TimesOK'
    BY <1>1, <2>1 DEF TimesOK, Stages
  <2>3. CardIsOnTime' /\ FailuresAreSpread' /\ OnlyLongOutagesFail'
    BY <2>1 DEF CardIsOnTime, FailuresAreSpread, OnlyLongOutagesFail
  <2> QED  BY <2>2, <2>3
<1>12. CASE GetsOn
  <2>1. TimesOK'
    BY <1>1, <1>12 DEF GetsOn, Allow, TimesOK, Stages
  <2>2. CardIsOnTime'
    BY <1>1, <1>2, <1>3, <1>12 DEF GetsOn, Allow, CardIsOnTime, TimesOK
  <2>3. FailuresAreSpread' /\ OnlyLongOutagesFail'
    BY <1>1, <1>3, <1>12 DEF GetsOn, FailuresAreSpread, OnlyLongOutagesFail
  <2> QED  BY <2>1, <2>2, <2>3
<1> QED  BY <1>4, <1>5, <1>6, <1>7, <1>8, <1>9, <1>10, <1>11, <1>12 DEF Extract

\* Whatever the model says and whenever it is there, the card keeps to its times:
\* extract_lead and _complete_with_retry (app/extraction.py).
THEOREM CardInvariance == Spec => []CardInv
<1>1. Init => CardInv
  BY CardInit
<1>2. CardInv /\ [Next]_vars => CardInv'
  <2> SUFFICES ASSUME CardInv, [Next]_vars PROVE CardInv'
    OBVIOUS
  <2>1. CASE Flip /\ UNCHANGED card
    BY <2>1, CardStays DEF Flip
  <2>2. CASE Tick(CardWaitsFor \cup ProbesWaitFor) /\ UNCHANGED card
    BY <2>2, TickKeepsCard
  <2>3. CASE Extract
    BY <2>3, ExtractKeepsCard
  <2>4. ASSUME NEW r \in Probers, Probe(r), UNCHANGED card
        PROVE  CardInv'
    BY <2>4, CardStays DEF Probe, FromCache, StartProbe, EndProbe, endpoint
  <2>5. CASE UNCHANGED vars
    BY <2>5, CardStays DEF vars, endpoint
  <2> QED  BY <2>1, <2>2, <2>3, <2>4, <2>5 DEF Next
<1> QED  BY <1>1, <1>2, PTL DEF Spec

\* A server that has fallen silent is given up after the timeouts of the attempts and
\* the waits between them, for every number of attempts, timeout and wait.
THEOREM SilentServersAreGivenUp == Spec => []SilenceIsBounded
<1>1. CardInv => SilenceIsBounded
  <2> SUFFICES ASSUME CardInv, stage \notin {"absent", "received", "returned"}
               PROVE  now <= heard + MaxAttempts * ModelTimeout + Backoffs
    BY DEF SilenceIsBounded
  <2>1. attempt \in Nat /\ attempt <= MaxAttempts - 1 /\ now \in Nat /\ heard \in Nat
        /\ deadline \in Nat
    BY DEF CardInv, TimesOK
  <2>2. /\ Spent(attempt) \in Nat
        /\ Spent(attempt) + ModelTimeout <= MaxAttempts * ModelTimeout + Backoffs
    BY <2>1, SpentAdds
  <2>3. now <= heard + Spent(attempt) + ModelTimeout
    BY <2>1, <2>2 DEF CardInv, CardIsOnTime, TimesOK, Stages
  <2>4. MaxAttempts * ModelTimeout \in Nat /\ Backoffs \in Nat
    <3>1. Backoffs = Waits(MaxAttempts - 1)
      BY DEF Backoffs, Waits
    <3> QED  BY <3>1, WaitsAdd
  <2> QED  BY <2>1, <2>2, <2>3, <2>4
<1> QED  BY <1>1, CardInvariance, PTL

\* A card that ends in model_error saw every attempt fail, the last one at least the
\* doubling waits after the first: no shorter outage of the server blanks it.
THEOREM BlipsBlankNoCard == Spec => []OnlyLongOutagesFail
<1>1. CardInv => OnlyLongOutagesFail
  BY DEF CardInv
<1> QED  BY <1>1, CardInvariance, PTL

\* A JSON object in a reply is read as it stands, and nothing else is read than balanced
\* objects of the reply, mended if they are no JSON, for replies of any length.
THEOREM RepliesAreParsedRight == Spec => []ReplyIsParsedRight
<1> DEFINE IsText == reply \in Seq(Tokens)
<1>1. Init => IsText
  BY RepliesAssumption DEF Init
<1>2. IsText /\ [Next]_vars => IsText'
  <2> SUFFICES ASSUME [Next]_vars PROVE UNCHANGED reply
    OBVIOUS
  <2>1. CASE Extract
    BY <2>1 DEF Extract, RejectInput, RetainImage, Post, Connect, GetsOn, CallFails, WakeUp,
                Answer, Parse
  <2>2. CASE UNCHANGED card
    BY <2>2 DEF card
  <2> QED  BY <2>1, <2>2 DEF Next, vars
<1>3. IsText => ReplyIsParsedRight
  <2> SUFFICES ASSUME IsText PROVE ReplyIsParsedRight
    OBVIOUS
  <2>1. ASSUME NEW i \in DOMAIN reply, NEW j \in PartsFrom(i),
               Introduced(reply, i, j), IsJson(Part(i, j))
        PROVE  ParseLeadJson(reply) = Part(i, j)
    <3>1. i \in 1 .. Len(reply) /\ j \in i + 1 .. Len(reply) /\ reply[i] = Open
      BY DEF PartsFrom
    <3> QED  BY <2>1, <3>1, IntroducedJsonIsRead DEF Part
  <2>2. ASSUME ParseLeadJson(reply) # NoObject
        PROVE  \E i \in DOMAIN reply : \E j \in PartsFrom(i) :
                  /\ IsBalanced(Part(i, j))
                  /\ \/ ParseLeadJson(reply) = Part(i, j)
                     \/ /\ ~IsJson(Part(i, j))
                        /\ MendedFrom(Part(i, j), ParseLeadJson(reply))
    <3>1. DOMAIN reply = 1 .. Len(reply)
      OBVIOUS
    <3> QED  BY <2>2, <3>1, OnlyObjectsAreRead DEF PartsFrom, Part
  <2> QED  BY <2>1, <2>2 DEF ReplyIsParsedRight
<1> QED  BY <1>1, <1>2, <1>3, PTL DEF Spec

-----------------------------------------------------------------------------
\* The probes.

LEMMA TickKeepsProbes ==
    ASSUME ProbeInv, Tick(CardWaitsFor \cup ProbesWaitFor), UNCHANGED health
    PROVE  ProbeInv'
<1>1. now \in Nat /\ now' = now + 1 /\ now \notin ProbesWaitFor
  BY DEF Tick, ProbeInv
<1>2. UNCHANGED <<probing, cache, answered, latest>>
  BY DEF health
<1>3. ASSUME NEW r \in Probers, probing[r] # None
      PROVE  probing[r] <= now' /\ now' <= probing[r] + ProbeTimeout
  <2>1. probing[r] \in Nat
    BY <1>3 DEF ProbeInv
  <2>2. now # probing[r] + ProbeTimeout
    BY <1>1, <1>3 DEF ProbesWaitFor
  <2> QED  BY <1>1, <1>3, <2>1, <2>2, ProbeAssumption DEF ProbeInv
<1> QED  BY <1>1, <1>2, <1>3 DEF ProbeInv, HealthIsRecent

LEMMA ProbesStay ==
    ASSUME ProbeInv, UNCHANGED now, UNCHANGED health
    PROVE  ProbeInv'
  BY DEF ProbeInv, health, HealthIsRecent

\* A request that reads the cache, begins a probe or ends one.
LEMMA ProbeKeepsProbes ==
    ASSUME ProbeInv, NEW r \in Probers, Probe(r)
    PROVE  ProbeInv'
<1> USE DEF ProbeInv
<1>1. CASE FromCache(r)
  <2>1. UNCHANGED <<now, probing, cache, latest>>
    BY <1>1 DEF FromCache, endpoint
  <2>2. answered' = [reachable |-> cache.reachable, age |-> now - cache.began, own |-> FALSE]
    BY <1>1 DEF FromCache, Answered
  <2>3. HealthIsRecent'
    BY <1>1, <2>2 DEF FromCache, Fresh, HealthIsRecent
  <2> QED  BY <2>1, <2>3
<1>2. CASE StartProbe(r)
  <2>1. UNCHANGED <<now, cache, answered, latest>> /\ probing' = [probing EXCEPT ![r] = now]
    BY <1>2 DEF StartProbe, endpoint
  <2>2. HealthIsRecent'
    BY <2>1 DEF HealthIsRecent
  <2> QED  BY <2>1, <2>2, ProbeAssumption
<1>3. ASSUME NEW reachable \in BOOLEAN, EndProbe(r, reachable)
      PROVE  ProbeInv'
  <2> DEFINE b == probing[r]
  <2>1. /\ now' = now /\ b \in Nat /\ b <= now /\ now <= b + ProbeTimeout
        /\ probing' = [probing EXCEPT ![r] = None]
        /\ cache' = [at |-> b, began |-> b, reachable |-> reachable]
        /\ latest' = IF latest = None \/ latest < b THEN b ELSE latest
    BY <1>3 DEF EndProbe, Cached, endpoint
  <2>2. answered'.own
    BY <1>3 DEF EndProbe, Answered
  <2>3. cache' \in [at : Nat, began : Nat, reachable : BOOLEAN]
    BY <2>1
  <2>4. cache' # None
    BY <2>3, ProbeAssumption
  <2>5. latest' \in Nat /\ latest' <= now' /\ latest' <= cache'.at + ProbeTimeout
    BY <2>1, ProbeAssumption
  <2>6. HealthIsRecent'
    BY <2>2 DEF HealthIsRecent
  <2>7. probing' \in [Probers -> Nat \cup {None}]
    BY <2>1
  <2>8. \A q \in Probers : probing'[q] # None =>
            probing'[q] <= now' /\ now' <= probing'[q] + ProbeTimeout
    BY <2>1
  <2> QED  BY <2>1, <2>4, <2>5, <2>6, <2>7, <2>8
<1> QED  BY <1>1, <1>2, <1>3 DEF Probe

\* The overlapping probes behind GET /health (_probe_model_endpoint, app/main.py).
THEOREM ProbeInvariance == Spec => []ProbeInv
<1>1. Init => ProbeInv
  BY DEF Init, EndpointInit, HealthInit, ProbeInv, HealthIsRecent
<1>2. ProbeInv /\ [Next]_vars => ProbeInv'
  <2> SUFFICES ASSUME ProbeInv, [Next]_vars PROVE ProbeInv'
    OBVIOUS
  <2>1. CASE Flip /\ UNCHANGED health
    BY <2>1, ProbesStay DEF Flip
  <2>2. CASE Tick(CardWaitsFor \cup ProbesWaitFor) /\ UNCHANGED health
    BY <2>2, TickKeepsProbes
  <2>3. CASE Extract /\ UNCHANGED health
    BY <2>3, ProbesStay DEF Extract, RejectInput, RetainImage, Post, Connect, GetsOn,
           CallFails, WakeUp, Answer, Parse, endpoint
  <2>4. ASSUME NEW r \in Probers, Probe(r)
        PROVE  ProbeInv'
    BY <2>4, ProbeKeepsProbes
  <2>5. CASE UNCHANGED vars
    BY <2>5, ProbesStay DEF vars, endpoint
  <2> QED  BY <2>1, <2>2, <2>3, <2>4, <2>5 DEF Next
<1> QED  BY <1>1, <1>2, PTL DEF Spec

\* /health tells what a probe found that began less than a TTL ago, or that the request
\* made itself, however many requests overlap.
THEOREM HealthAnswersAreRecent == Spec => []HealthIsRecent
<1>1. ProbeInv => HealthIsRecent
  BY DEF ProbeInv
<1> QED  BY <1>1, ProbeInvariance, PTL

\* Once a probe has ended, the next one begins a TTL after it began, or sooner by at
\* most the time an older probe may take to end and overwrite the cache.
THEOREM ProbesAreSpaced == Spec => ProbesSpaced
<1> DEFINE Step == \A r \in Probers :
                      probing[r] = None /\ probing'[r] # None /\ latest # None
                          => now >= latest + ProbeTTL - ProbeTimeout
<1>1. ProbeInv /\ [Next]_vars => [Step]_vars
  <2> SUFFICES ASSUME ProbeInv, Next, NEW r \in Probers,
                      probing[r] = None, probing'[r] # None, latest # None
               PROVE  now >= latest + ProbeTTL - ProbeTimeout
    BY DEF vars
  <2>1. PICK q \in Probers : Probe(q)
    BY DEF Next, health
  <2>2. StartProbe(q) /\ q = r
    BY <2>1 DEF Probe, FromCache, StartProbe, EndProbe, ProbeInv
  <2>3. cache # None /\ ~(now - cache.at < ProbeTTL)
    BY <2>2 DEF StartProbe, Fresh, ProbeInv
  <2> QED  BY <2>3, ProbeAssumption DEF ProbeInv
<1> QED  BY <1>1, ProbeInvariance, PTL DEF Spec, ProbesSpaced
=============================================================================
