------------------------ MODULE SemanticEntryProofs ------------------------
(***************************************************************************)
(* Theorems about SemanticEntry for any number of upserts and lookups.     *)
(*                                                                         *)
(* The inductive invariant says that vector and TTL come and go together.  *)
(* It is what makes an answer of TTL speak for the vector that HEXISTS saw *)
(* earlier.                                                                *)
(***************************************************************************)
EXTENDS SemanticEntry, TLAPS

\* Vector and TTL are set by one MULTI and lost with the hash.
Together == vector = ttl

\* The inductive invariant.
EntryInv == TypeOK /\ Together /\ OrphansComeFromFailures

\* A fresh or inherited hash satisfies the invariant.
LEMMA InitEntry == Init => EntryInv
  BY ReplyAssumption DEF Init, EntryInv, TypeOK, Together, OrphansComeFromFailures, AtWork

\* Every command of an upsert preserves the invariant.
LEMMA UpsertEntry ==
  ASSUME EntryInv, NEW w \in Writer, Upsert(w) \/ Skip(w) \/ Fail(w)
  PROVE  EntryInv'
<1> USE ReplyAssumption DEF EntryInv, TypeOK, Together, OrphansComeFromFailures, AtWork
<1>1. CASE Claim(w)
  BY <1>1 DEF Claim, HSetNx, WriterGoto
<1>2. CASE Complete(w)
  BY <1>2 DEF Complete, Multi, WriterGoto
<1>3. CASE HExists(w)
  BY <1>3 DEF HExists, WriterGoto, entryVars
<1>4. CASE Ttl(w)
  BY <1>4 DEF Ttl, Incomplete, WriterGoto, entryVars
<1>5. CASE Heal(w)
  BY <1>5 DEF Heal, Multi, WriterGoto
<1>6. CASE Fail(w)
  <2>1. /\ TypeOK'
        /\ wpc'[w] # "done"
        /\ \A x \in Writer \ {w} : wpc'[x] = wpc[x]
    BY <1>6 DEF Fail, HSetNx, Multi, WriterGoto, entryVars
  <2>2. Together'
    BY <1>6 DEF Fail, HSetNx, Multi, entryVars
  <2>3. reply' \in Writer /\ ~ vector' => reply' = w \/ (reply' = reply /\ ~ vector)
    BY <1>6 DEF Fail, HSetNx, Multi, entryVars
  <2>4. QED
    BY <2>1, <2>2, <2>3
<1>7. CASE Skip(w)
  BY <1>7 DEF Skip, WriterGoto, entryVars
<1>8. QED
  BY <1>1, <1>2, <1>3, <1>4, <1>5, <1>6, <1>7 DEF Upsert

\* Lookups and expiry preserve it: they leave the hash alone or remove it whole.
LEMMA LookupEntry ==
  ASSUME EntryInv, (\E r \in Reader : Lookup(r)) \/ Expire
  PROVE  EntryInv'
<1> USE ReplyAssumption DEF EntryInv, TypeOK, Together, OrphansComeFromFailures, AtWork
<1>1. ASSUME NEW r \in Reader, Lookup(r)
      PROVE  EntryInv'
  <2>1. CASE GetByTextIdentity(r)
    BY <2>1 DEF GetByTextIdentity, ReaderGoto, entryVars, writerVars
  <2>2. CASE HmgetThrows(r)
    BY <2>2 DEF HmgetThrows, ReaderGoto, entryVars, writerVars
  <2>3. CASE Knn(r)
    BY <2>3 DEF Knn, ReaderGoto, entryVars, writerVars
  <2>4. CASE DeleteCorruptEntry(r)
    <3>1. UNCHANGED writerVars /\ rpc' \in [Reader -> {"hmget", "del", "search", "delHit", "done"}]
      BY <2>4 DEF DeleteCorruptEntry, ReaderGoto
    <3>2. CASE Del
      BY <3>1, <3>2 DEF Del, writerVars
    <3>3. CASE UNCHANGED entryVars
      BY <3>1, <3>3 DEF entryVars, writerVars
    <3>4. QED
      BY <2>4, <3>2, <3>3 DEF DeleteCorruptEntry
  <2>5. QED
    BY <1>1, <2>1, <2>2, <2>3, <2>4 DEF Lookup
<1>2. CASE Expire
  BY <1>2 DEF Expire, Del, writerVars
<1>3. QED
  BY <1>1, <1>2

\* The invariant is an invariant.
LEMMA Entry == Spec => []EntryInv
<1>1. EntryInv /\ [Next]_vars => EntryInv'
  <2>1. CASE UNCHANGED vars
    BY <2>1 DEF vars, entryVars, writerVars, EntryInv, TypeOK, Together,
                OrphansComeFromFailures
  <2>2. QED
    BY <2>1, UpsertEntry, LookupEntry DEF Next
<1>2. QED
  BY InitEntry, <1>1, PTL DEF Spec

\* The state of any number of upserts and lookups is well typed.
THEOREM TypeCorrect == Spec => []TypeOK
  BY Entry, PTL DEF EntryInv

\* What the vector index can find expires, however upserts and deletes interleave.
THEOREM NoEternalVectors == Spec => []VectorsExpire
<1>1. EntryInv => VectorsExpire
  BY DEF EntryInv, Together, VectorsExpire
<1>2. QED
  BY Entry, <1>1, PTL

\* A reply without vector belongs to an upsert that is at work or has failed.
THEOREM OrphansExplained == Spec => []OrphansComeFromFailures
  BY Entry, PTL DEF EntryInv

\* No step replaces a reply by another one.
THEOREM FirstReplyKept == Spec => FirstReplyWins
<1>1. [Next]_vars => [reply # NoReply => reply' \in {reply, NoReply}]_vars
  <2>1. ASSUME NEW w \in Writer, Upsert(w) \/ Skip(w) \/ Fail(w), reply # NoReply
        PROVE  reply' = reply
    BY <2>1 DEF Upsert, Claim, Complete, HExists, Ttl, Heal, Skip, Fail, HSetNx, Multi, entryVars
  <2>2. ASSUME NEW r \in Reader, Lookup(r)
        PROVE  reply' \in {reply, NoReply}
    BY <2>2 DEF Lookup, GetByTextIdentity, HmgetThrows, Knn, DeleteCorruptEntry, Del, entryVars
  <2>3. Expire => reply' \in {reply, NoReply}
    BY DEF Expire, Del
  <2>4. QED
    BY <2>1, <2>2, <2>3 DEF Next
<1>2. QED
  BY <1>1, PTL DEF Spec, FirstReplyWins

\* An upsert that returns and was not skipped leaves vector and TTL behind.
THEOREM CompleteOnReturn == Spec => ReturnsComplete
<1> DEFINE Returns == \A w \in Writer : wpc[w] # "done" /\ wpc'[w] = "done" => vector' /\ ttl'
<1>1. EntryInv /\ [Next]_vars => [Returns]_vars
  <2> SUFFICES ASSUME EntryInv, Next, NEW w \in Writer, wpc[w] # "done", wpc'[w] = "done"
               PROVE  vector' /\ ttl'
    OBVIOUS
  <2>1. ASSUME NEW x \in Writer, Upsert(x) \/ Skip(x) \/ Fail(x)
        PROVE  vector' /\ ttl'
    <3>1. x = w
      BY <2>1 DEF EntryInv, TypeOK, Upsert, Claim, Complete, HExists, Ttl, Heal, Skip, Fail, WriterGoto
    <3>2. CASE Complete(w) \/ Heal(w)
      BY <3>2 DEF Complete, Heal, Multi
    <3>3. CASE Ttl(w)
      BY <3>3 DEF Ttl, Incomplete, WriterGoto, EntryInv, TypeOK, Together, entryVars
    <3>4. CASE Claim(w) \/ HExists(w) \/ Skip(w) \/ Fail(w)
      BY <3>4 DEF Claim, HExists, Skip, Fail, WriterGoto, EntryInv, TypeOK
    <3>5. QED
      BY <2>1, <3>1, <3>2, <3>3, <3>4 DEF Upsert
  <2>2. ASSUME (\E r \in Reader : Lookup(r)) \/ Expire
        PROVE  wpc' = wpc
    BY <2>2 DEF Lookup, GetByTextIdentity, HmgetThrows, Knn, DeleteCorruptEntry, Expire, writerVars
  <2>3. QED
    BY <2>1, <2>2 DEF Next
<1>2. QED
  BY Entry, <1>1, PTL DEF Spec, ReturnsComplete
=============================================================================
