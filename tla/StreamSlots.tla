----------------------------- MODULE StreamSlots -----------------------------
(***************************************************************************)
(* The limit on concurrent streams of one gateway key:                     *)
(* SmartRateLimiterService.checkConcurrentStreams and releaseStream, the   *)
(* guard and the facade controllers that take a slot, the interceptor and  *)
(* the finally blocks that give it back.                                   *)
(*                                                                         *)
(* A slot is a unit of a Redis counter.  INCR, EXPIRE and DECR are single  *)
(* commands with other streams of any replica in between, and a stream     *)
(* that is over the limit is counted until its own DECR.                   *)
(***************************************************************************)
EXTENDS Integers, FiniteSets

CONSTANTS
    Stream,                 \* stream requests of the key
    maxConcurrent,          \* limits.maxConcurrentStreams
    Settings                \* the deployments and loads considered

\* A native URL may carry a query string; a facade body may be unmappable, which is
\* found out after the slot is taken and before the try block.
Route == {"native", "nativeQuery", "facade", "facadeUnmappable"}

\* "redis": a command fails or the client is not ready; "expiry": the 300 s of the
\* counter key pass; "crash": a gateway process dies.
FaultKind == {"redis", "expiry", "crash"}

\* How each stream comes in, RATE_LIMIT_SMART_ENABLED, and what goes wrong.
Setting == [route : [Stream -> Route], smart : BOOLEAN, faults : SUBSET FaultKind]

ASSUME StreamAssumption == IsFiniteSet(Stream)
ASSUME MaxAssumption == maxConcurrent \in Nat \ {0}
ASSUME SettingsAssumption == Settings \subseteq Setting

VARIABLES
    setting,   \* the one of Settings this behaviour is about
    pc,        \* where each stream is
    current,   \* what its INCR returned
    counter,   \* the value of rateLimit:streams:<key>; 0 when there is no key
    hasTtl     \* the key has a time to live

vars == <<setting, pc, current, counter, hasTtl>>

RouteOf == setting.route
SmartEnabled == setting.smart
Faults == setting.faults

Location == {"idle", "counted", "refusing", "refused", "holding", "ending", "over"}

-----------------------------------------------------------------------------
Goto(s, loc) == pc' = [pc EXCEPT ![s] = loc]

\* The guard takes slots for native paths when the limiter is enabled, facade
\* controllers take theirs without asking.
Counts(s) == SmartEnabled \/ RouteOf[s] \in {"facade", "facadeUnmappable"}

\* The interceptor tests the whole URL for the suffix /stream; the finally block of
\* a facade controller is reached only by a body that was mapped.
Releases(s) == RouteOf[s] \in {"native", "facade"}

Init ==
    /\ setting \in Settings
    /\ pc = [s \in Stream |-> "idle"]
    /\ current = [s \in Stream |-> 0]
    /\ counter = 0
    /\ hasTtl = FALSE

\* canActivate lets a native stream through unchecked.
EnterUnchecked(s) ==
    /\ pc[s] = "idle"
    /\ ~ Counts(s)
    /\ Goto(s, "holding")
    /\ UNCHANGED <<setting, current, counter, hasTtl>>

\* const current = await client.incr(key)
Incr(s) ==
    /\ pc[s] = "idle"
    /\ Counts(s)
    /\ counter' = counter + 1
    /\ current' = [current EXCEPT ![s] = counter + 1]
    /\ Goto(s, "counted")
    /\ UNCHANGED <<setting, hasTtl>>

\* await client.expire(key, 300), and the comparison with the limit.
FaultWithinOffByOne(s) == current[s] <= maxConcurrent + 1
FaultWithinTooStrict(s) == current[s] < maxConcurrent
Within(s) == current[s] <= maxConcurrent

Expire(s) ==
    /\ pc[s] = "counted"
    /\ hasTtl' = TRUE
    /\ Goto(s, IF Within(s) THEN "holding" ELSE "refusing")
    /\ UNCHANGED <<setting, current, counter>>

\* Over the limit: await client.decr(key), then 429.
FaultRefuseKeepsSlot(s) ==
    /\ pc[s] = "refusing"
    /\ Goto(s, "refused")
    /\ UNCHANGED <<setting, current, counter, hasTtl>>

Refuse(s) ==
    /\ pc[s] = "refusing"
    /\ counter' = counter - 1
    /\ Goto(s, "refused")
    /\ UNCHANGED <<setting, current, hasTtl>>

\* The stream completes, fails or is rejected on its way to the provider.
End(s) ==
    /\ pc[s] = "holding"
    /\ Goto(s, IF Releases(s) THEN "ending" ELSE "over")
    /\ UNCHANGED <<setting, current, counter, hasTtl>>

\* releaseStream: await client.decr(key).
Release(s) ==
    /\ pc[s] = "ending"
    /\ counter' = counter - 1
    /\ Goto(s, "over")
    /\ UNCHANGED <<setting, current, hasTtl>>

\* isReady() is false or a command throws: the check allows the stream.  A command
\* whose reply is lost may have been executed.
CheckFailsOpen(s) ==
    /\ "redis" \in Faults
    /\ \/ pc[s] = "idle" /\ Counts(s) /\ counter' \in {counter, counter + 1}
       \/ pc[s] = "counted" /\ UNCHANGED counter
       \/ pc[s] = "refusing" /\ counter' \in {counter, counter - 1}
    /\ Goto(s, "holding")
    /\ UNCHANGED <<setting, current, hasTtl>>

ReleaseFails(s) ==
    /\ "redis" \in Faults
    /\ pc[s] = "ending"
    /\ Goto(s, "over")
    /\ UNCHANGED <<setting, current, counter, hasTtl>>

KeyExpires ==
    /\ "expiry" \in Faults
    /\ hasTtl
    /\ counter' = 0
    /\ hasTtl' = FALSE
    /\ UNCHANGED <<setting, pc, current>>

\* The process serving s dies; nobody returns the slot.
Crash(s) ==
    /\ "crash" \in Faults
    /\ pc[s] \in {"counted", "refusing", "holding", "ending"}
    /\ Goto(s, "over")
    /\ UNCHANGED <<setting, current, counter, hasTtl>>

Step(s) ==
    \/ EnterUnchecked(s)
    \/ Incr(s)
    \/ Expire(s)
    \/ Refuse(s)
    \/ End(s)
    \/ Release(s)
    \/ CheckFailsOpen(s)
    \/ ReleaseFails(s)
    \/ Crash(s)

Next == (\E s \in Stream : Step(s)) \/ KeyExpires

Spec == Init /\ [][Next]_vars

\* Streams end and their requests go on; nothing is assumed of the faults.
Fairness == \A s \in Stream : WF_vars(Step(s))
FairSpec == Spec /\ Fairness

-----------------------------------------------------------------------------
Holding == {s \in Stream : pc[s] = "holding"}
InTheCounter == {s \in Stream : pc[s] \in {"counted", "refusing", "holding", "ending"}}
Admitted == {s \in Stream : pc[s] \in {"holding", "ending", "over"}
                                \/ (pc[s] = "counted" /\ Within(s))}
TurnedAway == {s \in Stream : pc[s] \in {"refusing", "refused"}}

\* Every stream is counted, Redis answers every command and the counter key lives.
Reliable == (\A s \in Stream : Counts(s)) /\ Faults \subseteq {"crash"}

\* Every stream that is counted gives its slot back.
Returned == (\A s \in Stream : Counts(s) /\ Releases(s)) /\ Faults = {}

\* Type correctness.  A stream adds at most one to the counter; it may take two off, when
\* the reply to the DECR of its refusal is lost, the check fails open and it ends later.
TypeOK ==
    LET Slots == - 2 * Cardinality(Stream) .. Cardinality(Stream)
    IN  /\ setting \in Settings
        /\ pc \in [Stream -> Location]
        /\ current \in [Stream -> Slots]
        /\ counter \in Slots
        /\ hasTtl \in BOOLEAN

\* As many streams of a key as its limit allows, and no more, are open at a time, slots
\* that leak and processes that die notwithstanding.  The condition is needed: with the
\* limiter off native streams are not counted, a failing Redis lets everybody in, and a
\* stream that outlives the 300 s of the counter key is forgotten.
StreamsBounded == Reliable => Cardinality(Holding) <= maxConcurrent

\* Concurrent refusals may see each other in the counter, but nobody is turned away
\* unless the limit's worth of streams was let in, whatever goes wrong.
RefusalsJustified == TurnedAway # {} => Cardinality(Admitted) >= maxConcurrent

\* The counter never loses a slot that is in use: a check that comes now will see it.
SlotsCounted == Reliable => counter >= Cardinality(InTheCounter)

\* The counter returns to zero for good once the streams are over, if all of them came
\* by routes that release and nothing went wrong.  A URL with a query string and a facade
\* body that cannot be mapped are the routes that do not.
SlotsDrain == Returned => <>[](counter = 0)
=============================================================================
