----------------------------- MODULE MCKeyLimits -----------------------------
(***************************************************************************)
(* The two limits of one gateway key: the streams it may hold open and its *)
(* requests per second.  They live under two Redis keys and share nothing, *)
(* so a behaviour is about one of them while the other stands still.       *)
(*                                                                         *)
(* Streams: four, of which two may be open at a time: on routes that       *)
(* release with nothing going wrong; with leaking routes and crashes; with *)
(* the limiter off and everything going wrong.                             *)
(*                                                                         *)
(* Requests: two processes with clocks one unit apart; a token takes two   *)
(* units of time, a full bucket eight, and a bucket left alone is gone     *)
(* after six.                                                              *)
(***************************************************************************)
EXTENDS StreamSlots, TokenBucket

CONSTANTS s1, s2, s3, s4, p1, p2

MCStream == {s1, s2, s3, s4}
CleanRoutes == [s \in MCStream |-> IF s \in {s1, s2} THEN "facade" ELSE "native"]
LeakyRoutes == [s \in MCStream |-> CASE s = s1 -> "facadeUnmappable"
                                      [] s = s2 -> "facade"
                                      [] s = s3 -> "native"
                                      [] s = s4 -> "nativeQuery"]
FacadeRoutes == [s \in MCStream |-> CASE s = s1 -> "facadeUnmappable"
                                       [] s \in {s2, s3} -> "facade"
                                       [] s = s4 -> "native"]
MCSettings ==
    {[route |-> CleanRoutes, smart |-> TRUE, faults |-> {}],
     [route |-> LeakyRoutes, smart |-> TRUE, faults |-> {"crash"}],
     [route |-> FacadeRoutes, smart |-> FALSE, faults |-> FaultKind]}

MCProcess == {p1, p2}
MCSkew == [p \in MCProcess |-> IF p = p1 THEN 0 ELSE 1]
MCSteps == {1, 3}

VARIABLE limit   \* the limit this behaviour is about

allVars == <<limit, vars, bucketVars>>

OfStreams(A) == limit = "streams" /\ A /\ UNCHANGED <<limit, bucketVars>>
OfRequests(A) == limit = "requests" /\ A /\ UNCHANGED <<limit, vars>>

MCInit ==
    /\ Init /\ BucketInit
    /\ limit \in {"streams", "requests"}
    /\ limit = "requests" => setting = CHOOSE any \in Settings : TRUE
MCNext == OfStreams(Next) \/ OfRequests(BucketNext)
MCSpec ==
    /\ MCInit /\ [][MCNext]_allVars
    /\ \A s \in Stream : WF_allVars(OfStreams(Step(s)))
=============================================================================
