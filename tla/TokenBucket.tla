---------------------------- MODULE TokenBucket -----------------------------
\* The requests-per-second limit of one gateway key: checkRateLimit of
\* src/rate-limit/smart-rate-limiter.service.ts. A check reads the clock of its
\* own process and then runs a Lua script on a bucket all processes share, so
\* the scripts of two processes may see their clock readings out of order.
EXTENDS Integers

CONSTANTS
    Process,    \* gateway processes
    Skew,       \* how far the clock of a process is ahead
    MaxSkew,    \* the largest of them
    MaxDelay,   \* longest time between reading the clock and running the script
    Rate,       \* rps of the key
    Burst,      \* burst of the key
    Window,     \* windowMs
    Ttl,        \* EXPIRE of the bucket
    Steps,      \* by how much time passes in one step
    MaxTime,    \* bound on the time modelled
    NoBucket    \* the bucket is not there

ASSUME BucketAssumption ==
    /\ Rate \in Nat \ {0} /\ Burst \in Nat \ {0} /\ Window \in Nat \ {0}
    /\ Ttl \in Nat /\ MaxDelay \in Nat /\ MaxSkew \in Nat /\ MaxTime \in Nat
    /\ MaxDelay + MaxSkew < Ttl
    /\ Steps \subseteq Nat \ {0}
    /\ Skew \in [Process -> 0 .. MaxSkew]
    /\ NoBucket \notin [tokens : Int, lastRefill : Int, expires : Int]

VARIABLES
    now,        \* time
    asked,      \* checks between their clock reading and the script
    bucket,     \* rateLimit:key:<key>
    granted,    \* tokens handed out since the observation began
    first,      \* clock reading of the first of them
    firstAt,    \* and the time its script ran
    lastGrant,  \* clock reading of the latest one ever
    waited      \* time since then, by the clock of the latest refused check

bucketVars == <<now, asked, bucket, granted, first, firstAt, lastGrant, waited>>

Idle == -1

BucketInit ==
    /\ now = 0
    /\ asked = [p \in Process |-> Idle]
    /\ bucket = NoBucket
    /\ granted = 0
    /\ first = 0
    /\ firstAt = 0
    /\ lastGrant = 0
    /\ waited = 0

Tick(d) ==
    /\ now + d <= MaxTime
    /\ \A p \in Process : asked[p] # Idle => now + d <= asked[p] + MaxDelay
    /\ now' = now + d
    /\ UNCHANGED <<asked, bucket, granted, first, firstAt, lastGrant, waited>>

\* checkRateLimit up to the eval; asked keeps the moment, Clock what was read.
Clock(p) == asked[p] + Skew[p]
Ask(p) ==
    /\ asked[p] = Idle
    /\ asked' = [asked EXCEPT ![p] = now]
    /\ UNCHANGED <<now, bucket, granted, first, firstAt, lastGrant, waited>>

\* Redis is not ready, or the call fails before the script has run: the request
\* is let in without a token.
FailOpen(p) ==
    /\ asked[p] # Idle
    /\ asked' = [asked EXCEPT ![p] = Idle]
    /\ UNCHANGED <<now, bucket, granted, first, firstAt, lastGrant, waited>>

-----------------------------------------------------------------------------
\* The script

live == bucket # NoBucket /\ now < bucket.expires

\* math.floor((elapsed / window) * rate), in floating point: a product that is an
\* integer may come out just below it. Clock readings out of order make it
\* negative.
Refills(elapsed) ==
    LET x == Rate * elapsed
        q == x \div Window
    IN  IF x % Window = 0 THEN {q, q - 1} ELSE {q}

AtMost(bound, n) == IF n < bound THEN n ELSE bound

\* Fault: tokens are not cut off at the burst.
FaultNoClamp(t) ==
    IF live THEN {bucket.tokens + r : r \in Refills(t - bucket.lastRefill)}
    ELSE {Burst}

\* The tokens the script finds at clock reading t.
Tokens(t) ==
    IF live THEN {AtMost(Burst, bucket.tokens + r) : r \in Refills(t - bucket.lastRefill)}
    ELSE {Burst}

\* The script grants a token. (If its reply gets lost the caller is let in as well.)
Allow(p, tokens) ==
    /\ tokens >= 1
    /\ bucket' = [tokens |-> tokens - 1, lastRefill |-> Clock(p), expires |-> now + Ttl]
    /\ granted' = granted + 1
    /\ first' = IF granted = 0 THEN Clock(p) ELSE first
    /\ firstAt' = IF granted = 0 THEN now ELSE firstAt
    /\ lastGrant' = Clock(p)
    /\ UNCHANGED waited

\* Fault: a refusal stores the latest time of a refill, without the tokens.
FaultRefuseStores(p, tokens) ==
    /\ tokens < 1
    /\ bucket' = [bucket EXCEPT !.lastRefill = IF @ < Clock(p) THEN Clock(p) ELSE @]
    /\ waited' = Clock(p) - lastGrant
    /\ UNCHANGED <<granted, first, firstAt, lastGrant>>

RefuseToken(p, tokens) ==
    /\ tokens < 1
    /\ waited' = Clock(p) - lastGrant
    /\ UNCHANGED <<bucket, granted, first, firstAt, lastGrant>>

Eval(p) ==
    /\ asked[p] # Idle
    /\ asked' = [asked EXCEPT ![p] = Idle]
    /\ UNCHANGED now
    /\ \E tokens \in Tokens(Clock(p)) : Allow(p, tokens) \/ RefuseToken(p, tokens)

\* Somebody starts to count the grants anew.
Observe ==
    /\ granted > 0
    /\ granted' = 0
    /\ UNCHANGED <<now, asked, bucket, first, firstAt, lastGrant, waited>>

BucketNext ==
    \/ \E d \in Steps : Tick(d)
    \/ \E p \in Process : Ask(p) \/ FailOpen(p) \/ Eval(p)
    \/ Observe

BucketSpec == BucketInit /\ [][BucketNext]_bucketVars

-----------------------------------------------------------------------------
\* Properties

BucketTypeOK ==
    /\ now \in Nat
    /\ asked \in [Process -> Int]
    /\ \A p \in Process : asked[p] # Idle => /\ asked[p] \in Nat
                                             /\ asked[p] <= now
                                             /\ now <= asked[p] + MaxDelay
    /\ bucket # NoBucket => /\ bucket \in [tokens : Nat, lastRefill : Int, expires : Int]
                            /\ bucket.tokens < Burst
    /\ granted \in Nat
    /\ first \in Int /\ firstAt \in Nat /\ lastGrant \in Int /\ waited \in Int

\* An expired bucket comes back full. That is no gift if it would have been full
\* anyway, by any two clocks: the 60 s of the code are enough for bursts of up to
\* about 60 times the rate, which nothing in the configuration schema checks.
TtlCoversBurst == Window * Burst <= Rate * (Ttl - MaxDelay - MaxSkew)

\* What expiry may give away in a stretch of time: a burst for every Ttl of it.
Gift(stretch) == IF TtlCoversBurst THEN 0 ELSE Window * (Burst * (stretch \div Ttl))

\* The limit a key is given: from whatever moment one counts, no more requests
\* are granted than the burst, what the rate allows since the first of them and,
\* where the bucket expires before it is full, one burst for every Ttl, although
\* checks race and clocks differ.
GrantsBounded ==
    granted > 0 => Window * granted <= Window * Burst + Rate * (lastGrant - first)
                                          + Gift(now - firstAt)

\* Nobody is starved by asking: a check is refused only within the time one token
\* takes since the last grant, however many checks were refused in between.
RefusalsShort == Rate * waited <= Window
=============================================================================
