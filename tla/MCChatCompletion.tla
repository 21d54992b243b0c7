-------------------------- MODULE MCChatCompletion --------------------------
\* Three requests over two replicas: k1 and k2 ask similar things in one partition,
\* k3 belongs to another client.
EXTENDS ChatCompletion

CONSTANTS r1, r2, r3, g1, g2, k1, k2, k3, p1, p2

MCRequest == {r1, r2, r3}
MCReplica == {g1, g2}
MCKey == {k1, k2, k3}
MCPartition == {p1, p2}
MCPartitionOf == [k \in MCKey |-> IF k = k3 THEN p2 ELSE p1]

Json(k, g) == [key |-> k, replica |-> g, kind |-> "json", cacheable |-> TRUE]
Stream(k, g) == [Json(k, g) EXCEPT !.kind = "stream"]
Tooling(k, g) == [Json(k, g) EXCEPT !.cacheable = FALSE]

Mix(x, y, z) == [r \in MCRequest |-> IF r = r1 THEN x ELSE IF r = r2 THEN y ELSE z]

\* Two identical requests and a stream; similar requests of one client and one of
\* another; requests of two replicas and one with tooling.
MCRequestMixes ==
    { Mix(Json(k1, g1), Json(k1, g1), Stream(k1, g1)),
      Mix(Json(k1, g1), Json(k2, g1), Json(k3, g1)),
      Mix(Json(k1, g1), Tooling(k1, g1), Json(k1, g2)) }

=============================================================================
