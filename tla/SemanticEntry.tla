---------------------------- MODULE SemanticEntry ----------------------------
(***************************************************************************)
(* One entry of the semantic cache, a Redis hash, under the concurrent     *)
(* upserts and lookups of RedisVectorStoreAdapter.                         *)
(*                                                                         *)
(* The first writer claims the field reply with HSETNX and completes the   *)
(* hash with a MULTI that sets the vector and the time to live.  A writer  *)
(* that dies in between leaves an orphan, which a later writer heals; a    *)
(* lookup that meets an unservable reply deletes the hash with a command   *)
(* of its own, when the hash may be another one already.                   *)
(***************************************************************************)
CONSTANTS
    Writer,      \* upserts of this text and partition, by any replica
    Reader,      \* lookups of the same text
    NoReply,     \* the field is missing
    Old,         \* a servable reply of an earlier process
    Corrupt      \* a reply that parseCachedChatResponse or isUnservableCachedReply refuses

ASSUME ReplyAssumption ==
    /\ NoReply \notin Writer /\ Old \notin Writer /\ Corrupt \notin Writer
    /\ NoReply # Old /\ NoReply # Corrupt /\ Old # Corrupt

VARIABLES
    reply, vector, ttl,   \* the hash: its reply, whether it has a vector and a TTL
    wpc,                  \* the command each upsert sends next
    sawVector,            \* what its HEXISTS returned, until its TTL returns
    retried,              \* write() was run a second time
    rpc                   \* the command each lookup sends next

entryVars == <<reply, vector, ttl>>
writerVars == <<wpc, sawVector, retried>>
vars == <<entryVars, writerVars, rpc>>

AtWork == {"hsetnx", "complete", "hexists", "ttl", "heal"}

-----------------------------------------------------------------------------
\* The Redis commands, each atomic.
HSetNx(w) == reply' = (IF reply = NoReply THEN w ELSE reply) /\ UNCHANGED <<vector, ttl>>
Multi == vector' = TRUE /\ ttl' = TRUE /\ UNCHANGED reply
Del == reply' = NoReply /\ vector' = FALSE /\ ttl' = FALSE

Init ==
    /\ reply \in {NoReply, Old, Corrupt}
    /\ vector \in BOOLEAN
    /\ ttl = vector
    /\ wpc = [w \in Writer |-> "hsetnx"]
    /\ sawVector = [w \in Writer |-> FALSE]
    /\ retried = [w \in Writer |-> FALSE]
    /\ rpc = [r \in Reader |-> "hmget"]

-----------------------------------------------------------------------------
\* upsert

WriterGoto(w, loc) == wpc' = [wpc EXCEPT ![w] = loc]

\* claimed === 1 completes the entry, claimed === 0 looks at what is there.
FaultLostClaimIsNoop(w) ==
    /\ wpc[w] = "hsetnx"
    /\ HSetNx(w)
    /\ WriterGoto(w, IF reply = NoReply THEN "complete" ELSE "done")
    /\ UNCHANGED <<sawVector, retried, rpc>>

Claim(w) ==
    /\ wpc[w] = "hsetnx"
    /\ HSetNx(w)
    /\ WriterGoto(w, IF reply = NoReply THEN "complete" ELSE "hexists")
    /\ UNCHANGED <<sawVector, retried, rpc>>

FaultNoExpire(w) ==
    /\ wpc[w] = "complete"
    /\ vector' = TRUE
    /\ WriterGoto(w, "done")
    /\ UNCHANGED <<reply, ttl, sawVector, retried, rpc>>

Complete(w) ==
    /\ wpc[w] = "complete"
    /\ Multi
    /\ WriterGoto(w, "done")
    /\ UNCHANGED <<sawVector, retried, rpc>>

\* HEXISTS and TTL of Promise.all: two commands, others may come between them.
HExists(w) ==
    /\ wpc[w] = "hexists"
    /\ sawVector' = [sawVector EXCEPT ![w] = vector]
    /\ WriterGoto(w, "ttl")
    /\ UNCHANGED <<entryVars, retried, rpc>>

FaultIncompleteIgnoresTtl(w) == ~ sawVector[w]
Incomplete(w) == ~ sawVector[w] \/ ~ ttl

Ttl(w) ==
    /\ wpc[w] = "ttl"
    /\ WriterGoto(w, IF Incomplete(w) THEN "heal" ELSE "done")
    /\ sawVector' = [sawVector EXCEPT ![w] = FALSE]
    /\ UNCHANGED <<entryVars, retried, rpc>>

\* healIncompleteEntry
FaultHealTakesReply(w) ==
    /\ wpc[w] = "heal"
    /\ reply' = w /\ vector' = TRUE /\ ttl' = TRUE
    /\ WriterGoto(w, "done")
    /\ UNCHANGED <<sawVector, retried, rpc>>

Heal(w) ==
    /\ wpc[w] = "heal"
    /\ Multi
    /\ WriterGoto(w, "done")
    /\ UNCHANGED <<sawVector, retried, rpc>>

\* There is no Redis client when the upsert begins, or none any more when it comes to
\* heal: it returns and has written nothing.
Skip(w) ==
    /\ (wpc[w] = "hsetnx" /\ ~ retried[w]) \/ wpc[w] = "heal"
    /\ WriterGoto(w, "skipped")
    /\ UNCHANGED <<entryVars, sawVector, retried, rpc>>

\* The process dies or a command throws, executed or not; write() is run once more when
\* the error speaks of a missing index.
Fail(w) ==
    /\ wpc[w] \in AtWork
    /\ \/ UNCHANGED entryVars
       \/ wpc[w] = "hsetnx" /\ HSetNx(w)
       \/ wpc[w] \in {"complete", "heal"} /\ Multi
    /\ \/ WriterGoto(w, "failed") /\ UNCHANGED retried
       \/ /\ ~ retried[w]
          /\ retried' = [retried EXCEPT ![w] = TRUE]
          /\ WriterGoto(w, "hsetnx")
    /\ sawVector' = [sawVector EXCEPT ![w] = FALSE]
    /\ UNCHANGED rpc

-----------------------------------------------------------------------------
\* lookup

ReaderGoto(r, loc) == rpc' = [rpc EXCEPT ![r] = loc]
Servable == reply \notin {NoReply, Corrupt}

\* getByTextIdentity: an entry without vector is a miss and is left alone.
GetByTextIdentity(r) ==
    /\ rpc[r] = "hmget"
    /\ \/ Servable /\ vector /\ ReaderGoto(r, "done")
       \/ reply = Corrupt /\ vector /\ ReaderGoto(r, "del")
       \/ (reply = NoReply \/ ~ vector) /\ ReaderGoto(r, "search")
    /\ UNCHANGED <<entryVars, writerVars>>

\* HMGET itself throws; the catch block deletes the entry all the same.
HmgetThrows(r) ==
    /\ rpc[r] = "hmget"
    /\ ReaderGoto(r, "del")
    /\ UNCHANGED <<entryVars, writerVars>>

\* knn: the index finds the entry by its vector and answers with it, or deletes it
\* when it is not servable, unless it is too far away or the search fails.
Knn(r) ==
    /\ rpc[r] = "search"
    /\ \/ vector /\ ~ Servable /\ ReaderGoto(r, "delHit")
       \/ ReaderGoto(r, "done")
    /\ UNCHANGED <<entryVars, writerVars>>

\* deleteCorruptEntry; a DEL that fails is ignored.
DeleteCorruptEntry(r) ==
    /\ rpc[r] \in {"del", "delHit"}
    /\ Del \/ UNCHANGED entryVars
    /\ ReaderGoto(r, IF rpc[r] = "del" THEN "search" ELSE "done")
    /\ UNCHANGED writerVars

Expire == ttl /\ Del /\ UNCHANGED <<writerVars, rpc>>

-----------------------------------------------------------------------------
Upsert(w) == Claim(w) \/ Complete(w) \/ HExists(w) \/ Ttl(w) \/ Heal(w)
Lookup(r) == GetByTextIdentity(r) \/ HmgetThrows(r) \/ Knn(r) \/ DeleteCorruptEntry(r)

Next ==
    \/ \E w \in Writer : Upsert(w) \/ Skip(w) \/ Fail(w)
    \/ \E r \in Reader : Lookup(r)
    \/ Expire

Spec == Init /\ [][Next]_vars

\* An upsert whose commands are answered goes on; nothing is assumed of expiry.
FairSpec == Spec /\ \A w \in Writer : WF_vars(Upsert(w))

-----------------------------------------------------------------------------
\* Type correctness.
TypeOK ==
    /\ reply \in Writer \cup {NoReply, Old, Corrupt}
    /\ vector \in BOOLEAN /\ ttl \in BOOLEAN
    /\ wpc \in [Writer -> AtWork \cup {"done", "skipped", "failed"}]
    /\ sawVector \in [Writer -> BOOLEAN]
    /\ retried \in [Writer -> BOOLEAN]
    /\ rpc \in [Reader -> {"hmget", "del", "search", "delHit", "done"}]

\* No eternal vectors: what the index can find expires, whoever completed or healed
\* the hash and whatever was deleted in between.
VectorsExpire == vector => ttl

\* SPEC-CHAT F-8d: a reply that is there is never replaced by another one, by a heal
\* least of all; it can only disappear.
FirstReplyWins == [][reply # NoReply => reply' \in {reply, NoReply}]_vars

\* An upsert that returns, and was not skipped for want of a Redis client, leaves a hash
\* with vector and TTL, though it may have looked at them in two commands with a DEL and a
\* new claim in between.
ReturnsComplete ==
    [][\A w \in Writer : wpc[w] # "done" /\ wpc'[w] = "done" => vector' /\ ttl']_vars

\* A reply without vector was claimed by an upsert that is at work or has failed.
OrphansComeFromFailures == reply \in Writer /\ ~ vector => wpc[reply] # "done"

\* An orphan does not block its text for ever: when the upserts that come do not
\* fail and are not skipped, it is completed or gone in the end.
OrphansHealed ==
    (\A w \in Writer : [](wpc[w] \notin {"skipped", "failed"})) => <>[](reply # NoReply => vector)
=============================================================================
