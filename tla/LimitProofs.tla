---------------------------- MODULE LimitProofs -----------------------------
(***************************************************************************)
(* Theorems about the two limits a key has: how many streams it may hold   *)
(* open (StreamSlots) and how many requests per second (TokenBucket).      *)
(***************************************************************************)
EXTENDS StreamSlots, TokenBucket, FiniteSetTheorems, TLAPS

-----------------------------------------------------------------------------
(***************************************************************************)
(* The stream limit holds for any number of streams and replicas, any      *)
(* limit and any mix of routes, as long as they are all counted, Redis     *)
(* answers and the counter key does not expire (Reliable): leaks and       *)
(* crashes only make the limit stricter.                                   *)
(***************************************************************************)

\* Streams that are, or will be, open.
Passing == {s \in Stream : pc[s] \in {"holding", "ending"}
                             \/ (pc[s] = "counted" /\ Within(s))}

\* The comparison current <= maxConcurrent is made on a value that may be old by the
\* time it is used, so the bound must count the streams about to pass it as well.
SlotInv ==
    /\ pc \in [Stream -> Location]
    /\ current \in [Stream -> Int]
    /\ counter \in Int
    /\ counter >= Cardinality(InTheCounter)
    /\ Cardinality(Passing) <= maxConcurrent

\* Streams can be counted.
LEMMA FiniteParts ==
    /\ IsFiniteSet(InTheCounter) /\ IsFiniteSet(Passing) /\ IsFiniteSet(Holding)
    /\ Cardinality(InTheCounter) \in Nat /\ Cardinality(Passing) \in Nat
    /\ Cardinality(Holding) \in Nat
<1>1. InTheCounter \subseteq Stream /\ Passing \subseteq Stream /\ Holding \subseteq Stream
  BY DEF InTheCounter, Passing, Holding
<1>. QED  BY <1>1, StreamAssumption, FS_Subset, FS_CardinalityType

\* A stream that leaves the counter leaves it with its own DECR or not at all, and
\* nobody becomes passing by it.
LEMMA StreamLeaves ==
    ASSUME SlotInv, NEW s \in Stream, s \in InTheCounter, NEW loc \in {"refused", "over"},
           pc' = [pc EXCEPT ![s] = loc], UNCHANGED current,
           counter' \in {counter, counter - 1}
    PROVE  SlotInv'
<1>1. InTheCounter' = InTheCounter \ {s} /\ Passing' \subseteq Passing
  BY DEF SlotInv, InTheCounter, Passing, Within, Location
<1>2. Cardinality(InTheCounter') = Cardinality(InTheCounter) - 1
  BY <1>1, FiniteParts, FS_RemoveElement
<1>3. Cardinality(Passing') <= Cardinality(Passing) /\ Cardinality(Passing') \in Nat
  BY <1>1, FiniteParts, FS_Subset, FS_CardinalityType
<1>4. counter' >= Cardinality(InTheCounter')
  BY <1>2, FiniteParts DEF SlotInv
<1>5. Cardinality(Passing') <= maxConcurrent
  BY <1>3, FiniteParts, MaxAssumption DEF SlotInv
<1>6. pc' \in [Stream -> Location] /\ current' \in [Stream -> Int] /\ counter' \in Int
  BY DEF SlotInv, Location
<1>. QED  BY <1>4, <1>5, <1>6 DEF SlotInv

\* A stream that stays in the counter may only go on from what it was.
LEMMA StreamStays ==
    ASSUME SlotInv, NEW s \in Stream, s \in InTheCounter,
           NEW loc \in {"refusing", "holding", "ending"},
           pc' = [pc EXCEPT ![s] = loc], UNCHANGED <<current, counter>>,
           loc # "refusing" => s \in Passing
    PROVE  SlotInv'
<1>1. InTheCounter' = InTheCounter /\ Passing' \subseteq Passing
  BY DEF SlotInv, InTheCounter, Passing, Within, Location
<1>2. Cardinality(Passing') <= Cardinality(Passing) /\ Cardinality(Passing') \in Nat
  BY <1>1, FiniteParts, FS_Subset, FS_CardinalityType
<1>3. counter' >= Cardinality(InTheCounter')
  BY <1>1 DEF SlotInv
<1>4. Cardinality(Passing') <= maxConcurrent
  BY <1>2, FiniteParts, MaxAssumption DEF SlotInv
<1>5. pc' \in [Stream -> Location] /\ current' \in [Stream -> Int] /\ counter' \in Int
  BY DEF SlotInv, Location
<1>. QED  BY <1>3, <1>4, <1>5 DEF SlotInv

\* INCR: the new count bounds everyone in the counter, the newcomer included.
LEMMA IncrKeepsBound ==
    ASSUME SlotInv, NEW s \in Stream, Incr(s)
    PROVE  SlotInv'
<1>1. /\ pc' = [pc EXCEPT ![s] = "counted"] /\ pc[s] = "idle"
      /\ current' = [current EXCEPT ![s] = counter + 1] /\ counter' = counter + 1
  BY DEF Incr, Goto
<1>2. pc' \in [Stream -> Location] /\ current' \in [Stream -> Int] /\ counter' \in Int
  BY <1>1 DEF SlotInv, Location
<1>3. InTheCounter' = InTheCounter \cup {s} /\ s \notin InTheCounter
  BY <1>1 DEF SlotInv, InTheCounter, Location
<1>4. Cardinality(InTheCounter') = Cardinality(InTheCounter) + 1 /\ IsFiniteSet(InTheCounter')
  BY <1>3, FiniteParts, FS_AddElement
<1>5. counter' >= Cardinality(InTheCounter')
  BY <1>1, <1>4, FiniteParts DEF SlotInv
<1>6. CASE counter + 1 <= maxConcurrent
  <2>1. Passing' \subseteq InTheCounter'
    BY DEF Passing, InTheCounter
  <2>2. Cardinality(Passing') <= Cardinality(InTheCounter') /\ Cardinality(Passing') \in Nat
    BY <2>1, <1>4, FS_Subset, FS_CardinalityType
  <2>3. Cardinality(Passing') <= maxConcurrent
    BY <1>1, <1>4, <1>6, <2>2, FiniteParts, MaxAssumption DEF SlotInv
  <2>. QED  BY <1>2, <1>5, <2>3 DEF SlotInv
<1>7. CASE ~ (counter + 1 <= maxConcurrent)
  <2>1. Passing' = Passing
    BY <1>1, <1>7, MaxAssumption DEF SlotInv, Passing, Within, Location
  <2>. QED  BY <1>2, <1>5, <2>1 DEF SlotInv
<1>. QED  BY <1>6, <1>7

\* Every step keeps the counter at the streams in it.
LEMMA NextSlotInv ==
    ASSUME Reliable, SlotInv, [Next]_vars
    PROVE  SlotInv'
<1>1. ASSUME NEW s \in Stream, Incr(s) PROVE SlotInv'
  BY <1>1, IncrKeepsBound
<1>2. ASSUME NEW s \in Stream, Expire(s) PROVE SlotInv'
  <2>1. s \in InTheCounter /\ (Within(s) => s \in Passing)
    BY <1>2 DEF Expire, InTheCounter, Passing
  <2>. QED  BY <1>2, <2>1, StreamStays DEF Expire, Goto
<1>3. ASSUME NEW s \in Stream, Refuse(s) PROVE SlotInv'
  <2>1. s \in InTheCounter
    BY <1>3 DEF Refuse, InTheCounter
  <2>. QED  BY <1>3, <2>1, StreamLeaves DEF Refuse, Goto
<1>4. ASSUME NEW s \in Stream, End(s) PROVE SlotInv'
  <2>1. s \in InTheCounter /\ s \in Passing
    BY <1>4 DEF End, InTheCounter, Passing
  <2>2. CASE Releases(s)
    BY <1>4, <2>1, <2>2, StreamStays DEF End, Goto
  <2>3. CASE ~ Releases(s)
    BY <1>4, <2>1, <2>3, StreamLeaves DEF End, Goto
  <2>. QED  BY <2>2, <2>3
<1>5. ASSUME NEW s \in Stream, Release(s) PROVE SlotInv'
  <2>1. s \in InTheCounter
    BY <1>5 DEF Release, InTheCounter
  <2>. QED  BY <1>5, <2>1, StreamLeaves DEF Release, Goto
<1>6. ASSUME NEW s \in Stream, Crash(s) PROVE SlotInv'
  <2>1. s \in InTheCounter
    BY <1>6 DEF Crash, InTheCounter
  <2>. QED  BY <1>6, <2>1, StreamLeaves DEF Crash, Goto
<1>7. ASSUME NEW s \in Stream, EnterUnchecked(s) \/ CheckFailsOpen(s) \/ ReleaseFails(s)
      PROVE  FALSE
  BY <1>7 DEF EnterUnchecked, Reliable, CheckFailsOpen, ReleaseFails
<1>8. ~ KeyExpires
  BY DEF KeyExpires, Reliable
<1>9. CASE UNCHANGED vars
  BY <1>9 DEF vars, SlotInv, InTheCounter, Passing, Within
<1>. QED
  BY <1>1, <1>2, <1>3, <1>4, <1>5, <1>6, <1>7, <1>8, <1>9 DEF Next, Step

\* No stream and an empty counter at first.
LEMMA InitSlotInv == Init => SlotInv
<1> SUFFICES ASSUME Init PROVE SlotInv
  OBVIOUS
<1>1. InTheCounter = {} /\ Passing = {}
  BY DEF Init, InTheCounter, Passing
<1>2. Cardinality(InTheCounter) = 0 /\ Cardinality(Passing) = 0
  BY <1>1, FS_EmptySet
<1>. QED  BY <1>2, MaxAssumption DEF Init, SlotInv, Location

\* The setting is chosen once.
LEMMA SettingStays == [Next]_vars => setting' = setting
  BY DEF Next, Step, vars, EnterUnchecked, Incr, Expire, Refuse, End, Release, CheckFailsOpen,
         ReleaseFails, Crash, KeyExpires

\* The invariant of the reliable settings, as one of all of them.
LEMMA AlwaysSlotInv == Spec => [](Reliable => SlotInv)
<1>1. Init => (Reliable => SlotInv)
  BY InitSlotInv
<1>2. (Reliable => SlotInv) /\ [Next]_vars => (Reliable' => SlotInv')
  <2> SUFFICES ASSUME Reliable => SlotInv, [Next]_vars, Reliable' PROVE SlotInv'
    OBVIOUS
  <2>1. Reliable
    BY SettingStays DEF Reliable, Counts, SmartEnabled, RouteOf, Faults
  <2>. QED  BY <2>1, NextSlotInv
<1>. QED  BY <1>1, <1>2, PTL DEF Spec

\* Whatever the interleaving of checks and releases, and though slots leak or
\* processes die, a key never has more open streams than its limit, as long as every
\* route is counted, Redis answers and the counter key lives.
THEOREM LimitKept == Spec => []StreamsBounded
<1>1. (Reliable => SlotInv) => StreamsBounded
  <2> SUFFICES ASSUME SlotInv PROVE Cardinality(Holding) <= maxConcurrent
    BY DEF StreamsBounded
  <2>1. Holding \subseteq Passing
    BY DEF Holding, Passing
  <2>2. Cardinality(Holding) <= Cardinality(Passing)
    BY <2>1, FiniteParts, FS_Subset
  <2>. QED  BY <2>2, FiniteParts, MaxAssumption DEF SlotInv
<1>. QED  BY <1>1, AlwaysSlotInv, PTL

\* Under the same conditions the counter covers every stream that is being checked,
\* is open or is about to release: no check can miss a slot in use.
THEOREM SlotsNeverLost == Spec => []SlotsCounted
<1>1. (Reliable => SlotInv) => SlotsCounted
  BY DEF SlotInv, SlotsCounted
<1>. QED  BY <1>1, AlwaysSlotInv, PTL

-----------------------------------------------------------------------------
(***************************************************************************)
(* Refusals, whatever goes wrong: Redis, expiry of the key, crashes, routes *)
(* that are not counted.                                                   *)
(***************************************************************************)
\* Streams that may have left a unit in the counter, those that may have taken one off
\* it, and those that may have taken off a second.
Entered == {s \in Stream : pc[s] \notin {"idle", "refused"}}
TookOff == {s \in Stream : pc[s] \in {"refused", "holding", "ending", "over"}}
Finished == {s \in Stream : pc[s] = "over"}

\* Streams that found the counter above the limit.
Blocked == {s \in Stream : pc[s] \in {"refusing", "refused"}
                             \/ (pc[s] = "counted" /\ ~ Within(s))}

\* Leaked, lost and stray units can make the counter smaller than the streams it stands
\* for, never larger than those that were let in or still wait for their refusal.
RefusalInv ==
    /\ setting \in Settings
    /\ pc \in [Stream -> Location]
    /\ current \in [Stream -> - 2 * Cardinality(Stream) .. Cardinality(Stream)]
    /\ counter \in Int /\ hasTtl \in BOOLEAN
    /\ counter <= Cardinality(Entered)
    /\ counter >= - Cardinality(TookOff) - Cardinality(Finished)
    /\ Blocked # {} => Cardinality(Admitted) >= maxConcurrent

\* Sets of streams are finite and no larger than the set of all of them.
LEMMA StreamSets ==
    ASSUME NEW S, S \subseteq Stream
    PROVE  /\ IsFiniteSet(S) /\ Cardinality(S) \in Nat /\ Cardinality(Stream) \in Nat
           /\ Cardinality(S) <= Cardinality(Stream)
           /\ \A T : T \subseteq S => Cardinality(T) \in Nat /\ Cardinality(T) <= Cardinality(S)
           /\ \A t \in Stream \ S : Cardinality(S \cup {t}) = Cardinality(S) + 1
           /\ \A t \in S : Cardinality(S \ {t}) = Cardinality(S) - 1
<1>1. IsFiniteSet(S) /\ Cardinality(S) \in Nat /\ Cardinality(Stream) \in Nat
  BY StreamAssumption, FS_Subset, FS_CardinalityType
<1>2. \A T : T \subseteq S => Cardinality(T) \in Nat /\ Cardinality(T) <= Cardinality(S)
  BY <1>1, FS_Subset, FS_CardinalityType
<1>3. Cardinality(S) <= Cardinality(Stream)
  BY StreamAssumption, FS_Subset
<1>4. \A t \in Stream \ S : Cardinality(S \cup {t}) = Cardinality(S) + 1
  BY <1>1, FS_AddElement
<1>5. \A t \in S : Cardinality(S \ {t}) = Cardinality(S) - 1
  BY <1>1, FS_RemoveElement
<1>. QED  BY <1>1, <1>2, <1>3, <1>4, <1>5

\* The parts streams are counted by.
LEMMA Parts ==
    /\ Entered \subseteq Stream /\ TookOff \subseteq Stream /\ Finished \subseteq Stream
    /\ Admitted \subseteq Stream
  BY DEF Entered, TookOff, Finished, Admitted

\* A counted stream goes on: it may only join the admitted, and takes off the counter at
\* most what its step accounts for.
LEMMA StreamGoesOn ==
    ASSUME RefusalInv, NEW s \in Stream, NEW loc \in {"refusing", "holding", "ending", "over"},
           pc[s] \in {"counted", "refusing", "holding", "ending"},
           pc[s] = "ending" => loc = "over",
           loc = "refusing" => pc[s] = "counted" /\ ~ Within(s),
           pc' = [pc EXCEPT ![s] = loc], UNCHANGED current, hasTtl' \in BOOLEAN, UNCHANGED setting,
           \/ counter' = counter
           \/ /\ counter' = counter - 1
              /\ pc[s] = "refusing" \/ loc = "over"
    PROVE  RefusalInv'
<1>0. /\ pc' \in [Stream -> Location] /\ current' \in [Stream -> - 2 * Cardinality(Stream) .. Cardinality(Stream)]
      /\ counter' \in Int
  BY DEF RefusalInv, Location
<1>1. Entered' = Entered
  BY DEF RefusalInv, Entered, Location
<1>2. TookOff \subseteq TookOff' /\ TookOff' \subseteq Stream
  BY DEF RefusalInv, TookOff, Location
<1>3. Finished \subseteq Finished' /\ Finished' \subseteq Stream
  BY DEF RefusalInv, Finished, Location
<1>4. Admitted \subseteq Admitted' /\ Admitted' \subseteq Stream
  BY DEF RefusalInv, Admitted, Within, Location
<1>5. Blocked' \subseteq Blocked
  BY DEF RefusalInv, Blocked, Within, Location
<1>6. counter' # counter =>
          \/ TookOff' = TookOff \cup {s} /\ s \in Stream \ TookOff
          \/ Finished' = Finished \cup {s} /\ s \in Stream \ Finished
  BY DEF RefusalInv, TookOff, Finished, Location
<1>7. /\ Cardinality(TookOff) \in Nat /\ Cardinality(Finished) \in Nat /\ Cardinality(Admitted) \in Nat
      /\ Cardinality(TookOff') \in Nat /\ Cardinality(Finished') \in Nat /\ Cardinality(Admitted') \in Nat
      /\ Cardinality(Entered) \in Nat
      /\ Cardinality(TookOff) <= Cardinality(TookOff') /\ Cardinality(Finished) <= Cardinality(Finished')
      /\ Cardinality(Admitted) <= Cardinality(Admitted')
  BY <1>2, <1>3, <1>4, Parts, StreamSets
<1>8. counter' # counter =>
          \/ Cardinality(TookOff') = Cardinality(TookOff) + 1
          \/ Cardinality(Finished') = Cardinality(Finished) + 1
  BY <1>6, Parts, StreamSets
<1>9. counter' <= Cardinality(Entered') /\ counter' >= - Cardinality(TookOff') - Cardinality(Finished')
  BY <1>1, <1>7, <1>8 DEF RefusalInv
<1>10. Blocked' # {} => Cardinality(Admitted') >= maxConcurrent
  BY <1>5, <1>7, MaxAssumption DEF RefusalInv
<1>. QED  BY <1>0, <1>9, <1>10 DEF RefusalInv

\* A stream comes in without a check that could have refused it.
LEMMA StreamComesIn ==
    ASSUME RefusalInv, NEW s \in Stream, pc[s] = "idle", pc' = [pc EXCEPT ![s] = "holding"],
           UNCHANGED <<setting, current, hasTtl>>, counter' \in {counter, counter + 1}
    PROVE  RefusalInv'
<1>1. /\ Entered' = Entered \cup {s} /\ s \in Stream \ Entered
      /\ TookOff \subseteq TookOff' /\ Finished' = Finished /\ Blocked' = Blocked
      /\ Admitted \subseteq Admitted' /\ Admitted' \subseteq Stream /\ TookOff' \subseteq Stream
  BY DEF RefusalInv, Entered, TookOff, Finished, Blocked, Admitted, Within, Location
<1>2. /\ Cardinality(Entered') = Cardinality(Entered) + 1 /\ Cardinality(Entered) \in Nat
      /\ Cardinality(TookOff) <= Cardinality(TookOff') /\ Cardinality(TookOff) \in Nat
      /\ Cardinality(TookOff') \in Nat /\ Cardinality(Finished) \in Nat
      /\ Cardinality(Admitted) <= Cardinality(Admitted') /\ Cardinality(Admitted) \in Nat
      /\ Cardinality(Admitted') \in Nat
  BY <1>1, Parts, StreamSets
<1>3. pc' \in [Stream -> Location] /\ counter' \in Int
  BY DEF RefusalInv, Location
<1>4. counter' <= Cardinality(Entered') /\ counter' >= - Cardinality(TookOff') - Cardinality(Finished')
  BY <1>1, <1>2 DEF RefusalInv
<1>5. Blocked' # {} => Cardinality(Admitted') >= maxConcurrent
  BY <1>1, <1>2, MaxAssumption DEF RefusalInv
<1>. QED  BY <1>3, <1>4, <1>5 DEF RefusalInv

\* INCR: whoever finds the counter above the limit first finds only admitted streams in it.
LEMMA IncrJustified ==
    ASSUME RefusalInv, NEW s \in Stream, Incr(s)
    PROVE  RefusalInv'
<1>1. /\ pc' = [pc EXCEPT ![s] = "counted"] /\ pc[s] = "idle" /\ hasTtl' = hasTtl /\ setting' = setting
      /\ current' = [current EXCEPT ![s] = counter + 1] /\ counter' = counter + 1
  BY DEF Incr, Goto
<1>2. /\ Entered' = Entered \cup {s} /\ s \in Stream \ Entered /\ Entered' \subseteq Stream
      /\ TookOff' = TookOff /\ Finished' = Finished
  BY <1>1 DEF RefusalInv, Entered, TookOff, Finished, Location
<1>3. /\ Cardinality(Entered') = Cardinality(Entered) + 1 /\ Cardinality(Entered) \in Nat
      /\ Cardinality(Entered') <= Cardinality(Stream) /\ Cardinality(Stream) \in Nat
      /\ Cardinality(TookOff) \in Nat /\ Cardinality(Finished) \in Nat
      /\ Cardinality(TookOff) <= Cardinality(Stream) /\ Cardinality(Finished) <= Cardinality(Stream)
  BY <1>2, Parts, StreamSets
<1>4. counter + 1 \in - 2 * Cardinality(Stream) .. Cardinality(Stream)
  BY <1>3 DEF RefusalInv
<1>5. /\ pc' \in [Stream -> Location] /\ counter' \in Int
      /\ current' \in [Stream -> - 2 * Cardinality(Stream) .. Cardinality(Stream)]
  BY <1>1, <1>4 DEF RefusalInv, Location
<1>6. counter' <= Cardinality(Entered') /\ counter' >= - Cardinality(TookOff') - Cardinality(Finished')
  BY <1>1, <1>2, <1>3 DEF RefusalInv
<1>7. Admitted \subseteq Admitted' /\ Admitted' \subseteq Stream
  BY <1>1 DEF RefusalInv, Admitted, Within, Location
<1>8. /\ Cardinality(Admitted) <= Cardinality(Admitted') /\ Cardinality(Admitted) \in Nat
      /\ Cardinality(Admitted') \in Nat
  BY <1>7, Parts, StreamSets
<1>9. ASSUME Blocked' # {} PROVE Cardinality(Admitted') >= maxConcurrent
  <2>1. CASE Blocked # {}
    BY <1>8, <2>1, MaxAssumption DEF RefusalInv
  <2>2. CASE Blocked = {}
    <3>1. Entered \subseteq Admitted
      BY <2>2 DEF Entered, Admitted, Blocked, RefusalInv, Location
    <3>2. Cardinality(Entered) <= Cardinality(Admitted)
      BY <3>1, Parts, StreamSets
    <3>3. ~ (counter + 1 <= maxConcurrent)
      BY <1>1, <1>9, <2>2 DEF Blocked, Within, RefusalInv, Location
    <3>. QED  BY <1>3, <1>8, <3>2, <3>3, MaxAssumption DEF RefusalInv
  <2>. QED  BY <2>1, <2>2
<1>. QED  BY <1>1, <1>5, <1>6, <1>9 DEF RefusalInv

\* A refused stream takes off what it has added.
LEMMA RefuseJustified ==
    ASSUME RefusalInv, NEW s \in Stream, Refuse(s)
    PROVE  RefusalInv'
<1>1. /\ pc' = [pc EXCEPT ![s] = "refused"] /\ pc[s] = "refusing" /\ counter' = counter - 1
      /\ UNCHANGED <<setting, current, hasTtl>>
  BY DEF Refuse, Goto
<1>2. /\ Entered' = Entered \ {s} /\ s \in Entered
      /\ TookOff' = TookOff \cup {s} /\ s \in Stream \ TookOff
      /\ Finished' = Finished /\ Blocked' = Blocked /\ Admitted' = Admitted
  BY <1>1 DEF RefusalInv, Entered, TookOff, Finished, Blocked, Admitted, Within, Location
<1>3. /\ Cardinality(Entered') = Cardinality(Entered) - 1 /\ Cardinality(Entered) \in Nat
      /\ Cardinality(TookOff') = Cardinality(TookOff) + 1 /\ Cardinality(TookOff) \in Nat
      /\ Cardinality(Finished) \in Nat
  BY <1>2, Parts, StreamSets
<1>4. counter' <= Cardinality(Entered') /\ counter' >= - Cardinality(TookOff') - Cardinality(Finished')
  BY <1>1, <1>2, <1>3 DEF RefusalInv
<1>5. pc' \in [Stream -> Location] /\ counter' \in Int
  BY <1>1 DEF RefusalInv, Location
<1>. QED  BY <1>1, <1>2, <1>4, <1>5 DEF RefusalInv

\* Every step, with any fault, keeps the bounds on the counter.
LEMMA NextRefusalInv == RefusalInv /\ [Next]_vars => RefusalInv'
<1> SUFFICES ASSUME RefusalInv, [Next]_vars PROVE RefusalInv'
  OBVIOUS
<1>0. hasTtl \in BOOLEAN /\ counter \in Int
  BY DEF RefusalInv
<1>1. ASSUME NEW s \in Stream, EnterUnchecked(s) PROVE RefusalInv'
  BY <1>1, StreamComesIn DEF EnterUnchecked, Goto
<1>2. ASSUME NEW s \in Stream, Incr(s) PROVE RefusalInv'
  BY <1>2, IncrJustified
<1>3. ASSUME NEW s \in Stream, Expire(s) PROVE RefusalInv'
  BY <1>3, StreamGoesOn DEF Expire, Goto
<1>4. ASSUME NEW s \in Stream, Refuse(s) PROVE RefusalInv'
  BY <1>4, RefuseJustified
<1>5. ASSUME NEW s \in Stream, End(s) PROVE RefusalInv'
  BY <1>0, <1>5, StreamGoesOn DEF End, Goto
<1>6. ASSUME NEW s \in Stream, Release(s) PROVE RefusalInv'
  BY <1>0, <1>6, StreamGoesOn DEF Release, Goto
<1>7. ASSUME NEW s \in Stream, CheckFailsOpen(s) PROVE RefusalInv'
  <2>1. pc' = [pc EXCEPT ![s] = "holding"] /\ UNCHANGED <<setting, current, hasTtl>>
    BY <1>7 DEF CheckFailsOpen, Goto
  <2>2. CASE pc[s] = "idle" /\ counter' \in {counter, counter + 1}
    BY <2>1, <2>2, StreamComesIn
  <2>3. CASE pc[s] = "counted" /\ UNCHANGED counter
    BY <1>0, <2>1, <2>3, StreamGoesOn
  <2>4. CASE pc[s] = "refusing" /\ counter' \in {counter, counter - 1}
    BY <1>0, <2>1, <2>4, StreamGoesOn
  <2>. QED  BY <1>7, <2>2, <2>3, <2>4 DEF CheckFailsOpen
<1>8. ASSUME NEW s \in Stream, ReleaseFails(s) PROVE RefusalInv'
  BY <1>0, <1>8, StreamGoesOn DEF ReleaseFails, Goto
<1>9. ASSUME NEW s \in Stream, Crash(s) PROVE RefusalInv'
  BY <1>0, <1>9, StreamGoesOn DEF Crash, Goto
<1>10. CASE KeyExpires
  <2>1. /\ UNCHANGED <<setting, pc, current, Entered, TookOff, Finished, Blocked, Admitted>>
        /\ counter' = 0 /\ hasTtl' = FALSE
    BY <1>10 DEF KeyExpires, Entered, TookOff, Finished, Blocked, Admitted, Within
  <2>2. /\ Cardinality(Entered) \in Nat /\ Cardinality(TookOff) \in Nat /\ Cardinality(Finished) \in Nat
    BY Parts, StreamSets
  <2>3. counter' <= Cardinality(Entered') /\ counter' >= - Cardinality(TookOff') - Cardinality(Finished')
    BY <2>1, <2>2
  <2>4. hasTtl' \in BOOLEAN
    BY <2>1, Zenon
  <2>5. counter' \in Int
    BY <2>1
  <2>. QED  BY <2>1, <2>3, <2>4, <2>5 DEF RefusalInv
<1>11. CASE UNCHANGED vars
  BY <1>11 DEF vars, RefusalInv, Entered, TookOff, Finished, Blocked, Admitted, Within
<1>. QED
  BY <1>1, <1>2, <1>3, <1>4, <1>5, <1>6, <1>7, <1>8, <1>9, <1>10, <1>11 DEF Next, Step

\* They hold at first.
LEMMA InitRefusalInv == Init => RefusalInv
<1> SUFFICES ASSUME Init PROVE RefusalInv
  OBVIOUS
<1>1. Entered = {} /\ TookOff = {} /\ Finished = {} /\ Blocked = {}
  BY DEF Init, Entered, TookOff, Finished, Blocked
<1>2. Cardinality(Entered) = 0 /\ Cardinality(TookOff) = 0 /\ Cardinality(Finished) = 0
  BY <1>1, FS_EmptySet
<1>3. 0 \in - 2 * Cardinality(Stream) .. Cardinality(Stream)
  BY StreamAssumption, FS_CardinalityType
<1>4. pc \in [Stream -> Location] /\ current \in [Stream -> - 2 * Cardinality(Stream) .. Cardinality(Stream)]
  BY <1>3 DEF Init, Location
<1>5. counter <= Cardinality(Entered) /\ counter >= - Cardinality(TookOff) - Cardinality(Finished)
  BY <1>2 DEF Init
<1>6. hasTtl \in BOOLEAN
  BY Zenon DEF Init
<1>7. counter \in Int /\ setting \in Settings
  BY DEF Init
<1>. QED  BY <1>1, <1>4, <1>5, <1>6, <1>7 DEF RefusalInv

\* checkConcurrentStreams turns nobody away for the slots of other refusals alone: with
\* every fault and every mix of routes, a refusal means the limit's worth was let in.
THEOREM RefusalsAreJustified == Spec => []RefusalsJustified
<1>1. RefusalInv => RefusalsJustified
  BY DEF RefusalInv, RefusalsJustified, TurnedAway, Blocked
<1>. QED  BY <1>1, InitRefusalInv, NextRefusalInv, PTL DEF Spec

\* The counter stays within one unit up, and two down, of every stream of the key.
THEOREM CounterTyped == Spec => []TypeOK
<1>1. RefusalInv => TypeOK
  <2> SUFFICES ASSUME RefusalInv PROVE TypeOK
    OBVIOUS
  <2>1. /\ Cardinality(Entered) \in Nat /\ Cardinality(TookOff) \in Nat /\ Cardinality(Finished) \in Nat
        /\ Cardinality(Entered) <= Cardinality(Stream) /\ Cardinality(TookOff) <= Cardinality(Stream)
        /\ Cardinality(Finished) <= Cardinality(Stream) /\ Cardinality(Stream) \in Nat
    BY Parts, StreamSets
  <2>2. counter \in - 2 * Cardinality(Stream) .. Cardinality(Stream)
    BY <2>1 DEF RefusalInv
  <2>. QED  BY <2>2 DEF RefusalInv, TypeOK
<1>. QED  BY <1>1, InitRefusalInv, NextRefusalInv, PTL DEF Spec

-----------------------------------------------------------------------------
(***************************************************************************)
(* The limit of one key for any number of processes, any rate, burst and   *)
(* window.                                                                 *)
(***************************************************************************)

\* Integer division rounds down.
LEMMA DivBelow ==
    ASSUME NEW x \in Int, NEW w \in Nat \ {0}
    PROVE  /\ x \div w \in Int
           /\ w * (x \div w) <= x
           /\ x < w * (x \div w) + w
           /\ x % w = 0 => x = w * (x \div w)
  OBVIOUS

\* Multiplication by a natural number keeps the order.
LEMMA Monotone ==
    ASSUME NEW a \in Nat, NEW b \in Int, NEW c \in Int, b <= c
    PROVE  a * b <= a * c
  OBVIOUS

\* Multiplication distributes.
LEMMA Distributes ==
    ASSUME NEW a \in Int, NEW b \in Int, NEW c \in Int
    PROVE  /\ a * b \in Int /\ a * (b + c) = a * b + a * c
           /\ a * (b - c) = a * b - a * c
  OBVIOUS

\* A refill is worth no more than the time that has passed, and a refill of none
\* or less means that no more than one token's time has.
LEMMA RefillWorth ==
    ASSUME NEW e \in Int, NEW r \in Refills(e)
    PROVE  /\ r \in Int
           /\ Window * r <= Rate * e
           /\ r < 1 => Rate * e <= Window
<1> DEFINE x == Rate * e
           q == x \div Window
<1>1. Rate \in Nat /\ Window \in Nat \ {0} /\ x \in Int
  BY BucketAssumption
<1>2. /\ q \in Int
      /\ Window * q <= x
      /\ x < Window * q + Window
      /\ x % Window = 0 => x = Window * q
  BY <1>1, DivBelow
<1>3. r = q \/ (r = q - 1 /\ x = Window * q)
  BY <1>2 DEF Refills
<1>4. Window * (q - 1) <= Window * q
  BY <1>1, <1>2, Monotone
<1>5. r < 1 => x <= Window
  <2> SUFFICES ASSUME r < 1 PROVE x <= Window
    OBVIOUS
  <2>1. CASE r = q
    <3>1. Window * q <= Window * 0
      BY <2>1, <1>1, <1>2, Monotone
    <3> QED
      BY <3>1, <1>1, <1>2
  <2>2. CASE r = q - 1 /\ x = Window * q
    <3>1. Window * q <= Window * 1
      BY <2>2, <1>1, <1>2, Monotone
    <3> QED
      BY <3>1, <2>2, <1>1
  <2> QED
    BY <2>1, <2>2, <1>3
<1> QED
  BY <1>2, <1>3, <1>4, <1>5

\* Quotients keep the order, and a whole divisor more is one more.
LEMMA Quotients ==
    ASSUME NEW x \in Nat, NEW y \in Nat, NEW w \in Nat \ {0}, NEW k \in {0, 1}, x + w * k <= y
    PROVE  (x \div w) + k <= y \div w
<1>1. /\ x \div w \in Int /\ y \div w \in Int
      /\ w * (x \div w) <= x /\ y < w * (y \div w) + w
  BY DivBelow
<1> DEFINE qx == x \div w
           qy == y \div w
<1> HIDE DEF qx, qy
<1>2. qx \in Int /\ qy \in Int /\ w * qx <= x /\ y < w * qy + w
  BY <1>1 DEF qx, qy
<1>3. CASE qy + 1 <= qx + k
  <2>1. w * (qy + 1) <= w * (qx + k)
    BY <1>2, <1>3, Monotone
  <2>2. w * (qy + 1) = w * qy + w * 1 /\ w * (qx + k) = w * qx + w * k /\ w * 1 = w
    BY <1>2, Distributes
  <2>3. w * qx \in Int /\ w * qy \in Int /\ w * k \in Int
    BY <1>2
  <2> QED
    BY <1>2, <2>1, <2>2, <2>3
<1>4. CASE ~ (qy + 1 <= qx + k)
  BY <1>2, <1>4 DEF qx, qy
<1> QED
  BY <1>3, <1>4

\* What expiry gives away grows with time, by a burst whenever a Ttl has passed.
LEMMA GiftGrows ==
    ASSUME NEW x \in Nat, NEW y \in Nat, x <= y
    PROVE  /\ Gift(x) \in Int /\ Gift(y) \in Int /\ Gift(x) <= Gift(y)
           /\ Gift(x) >= 0
           /\ ~ TtlCoversBurst /\ x + Ttl <= y => Gift(x) + Window * Burst <= Gift(y)
<1>1. Window \in Nat /\ Burst \in Nat /\ Ttl \in Nat \ {0}
  BY BucketAssumption
<1> DEFINE qx == x \div Ttl
           qy == y \div Ttl
<1>2. qx \in Int /\ qy \in Int /\ Gift(x) = (IF TtlCoversBurst THEN 0 ELSE Window * (Burst * qx))
      /\ Gift(y) = (IF TtlCoversBurst THEN 0 ELSE Window * (Burst * qy))
  BY <1>1, DivBelow DEF Gift
<1>3. qx <= qy
  <2>1. (x \div Ttl) + 0 <= y \div Ttl
    BY <1>1, Quotients
  <2> QED  BY <2>1, <1>2
<1>4. 0 <= qx
  <2>1. (0 \div Ttl) + 0 <= x \div Ttl
    BY <1>1, Quotients
  <2>2. 0 \div Ttl = 0
    BY <1>1
  <2> QED  BY <2>1, <2>2, <1>2
<1>5. x + Ttl <= y => qx + 1 <= qy
  <2> SUFFICES ASSUME x + Ttl <= y PROVE qx + 1 <= qy
    OBVIOUS
  <2>1. x + Ttl * 1 <= y
    BY <1>1
  <2>2. (x \div Ttl) + 1 <= y \div Ttl
    BY <1>1, <2>1, Quotients
  <2> QED  BY <2>2
<1> HIDE DEF qx, qy
<1>6. /\ Burst * qx \in Int /\ Burst * qy \in Int /\ Window * (Burst * qx) \in Int
      /\ Window * (Burst * qy) \in Int
  BY <1>1, <1>2
<1>7. Burst * qx <= Burst * qy
  BY <1>1, <1>2, <1>3, Monotone
<1>8. Window * (Burst * qx) <= Window * (Burst * qy)
  BY <1>1, <1>6, <1>7, Monotone
<1>9. 0 <= Window * (Burst * qx)
  <2>1. Burst * 0 <= Burst * qx
    BY <1>1, <1>2, <1>4, Monotone
  <2>2. Burst * 0 = 0 /\ Window * 0 = 0
    BY <1>1
  <2>3. Window * 0 <= Window * (Burst * qx)
    BY <1>1, <1>6, <2>1, <2>2, Monotone
  <2> QED  BY <2>2, <2>3
<1>10. x + Ttl <= y => Window * (Burst * qx) + Window * Burst <= Window * (Burst * qy)
  <2> SUFFICES ASSUME x + Ttl <= y
               PROVE  Window * (Burst * qx) + Window * Burst <= Window * (Burst * qy)
    OBVIOUS
  <2>1. Burst * (qx + 1) <= Burst * qy
    BY <1>1, <1>2, <1>5, Monotone
  <2>2. Burst * (qx + 1) = Burst * qx + Burst
    BY <1>1, <1>2, Distributes
  <2>3. Window * (Burst * qx + Burst) <= Window * (Burst * qy)
    BY <1>1, <1>6, <2>1, <2>2, Monotone
  <2>4. Window * (Burst * qx + Burst) = Window * (Burst * qx) + Window * Burst
    BY <1>1, <1>6, Distributes
  <2> QED  BY <2>3, <2>4
<1>11. CASE TtlCoversBurst
  BY <1>2, <1>11
<1>12. CASE ~ TtlCoversBurst
  BY <1>2, <1>6, <1>8, <1>9, <1>10, <1>12
<1> QED
  BY <1>11, <1>12

-----------------------------------------------------------------------------
\* The bucket in Redis: what it was last refilled by and when it goes.
BucketShape ==
    /\ bucket = NoBucket => granted = 0
    /\ bucket # NoBucket => /\ bucket.lastRefill = lastGrant
                            /\ bucket.lastRefill - MaxSkew <= bucket.expires - Ttl
                            /\ bucket.expires - Ttl <= now
    /\ granted > 0 => firstAt <= bucket.expires - Ttl

\* The tokens left are part of what the rate still allows: the potential that no
\* check, in whatever order, can raise.
TokensEarned ==
    bucket # NoBucket /\ granted > 0 =>
        Window * granted + Window * bucket.tokens
            <= Window * Burst + Rate * (bucket.lastRefill - first)
                  + Gift(bucket.expires - Ttl - firstAt)

BucketInv == BucketTypeOK /\ BucketShape /\ TokensEarned /\ RefusalsShort

\* The invariant bounds the grants, as of the last of them.
LEMMA InvBoundsLast ==
    ASSUME BucketInv, granted > 0
    PROVE  /\ bucket # NoBucket /\ bucket.lastRefill = lastGrant /\ bucket.expires \in Int
           /\ firstAt <= bucket.expires - Ttl /\ bucket.expires - Ttl <= now
           /\ bucket.expires - Ttl - firstAt \in Nat /\ now - firstAt \in Nat
           /\ Gift(bucket.expires - Ttl - firstAt) \in Int
           /\ Gift(bucket.expires - Ttl - firstAt) <= Gift(now - firstAt)
           /\ Gift(now - firstAt) \in Int
           /\ Window * granted <= Window * Burst + Rate * (lastGrant - first)
                                    + Gift(bucket.expires - Ttl - firstAt)
<1>1. bucket # NoBucket /\ bucket.tokens \in Nat /\ bucket.lastRefill = lastGrant
  BY DEF BucketInv, BucketTypeOK, BucketShape
<1>2. Window * granted + Window * bucket.tokens
            <= Window * Burst + Rate * (lastGrant - first) + Gift(bucket.expires - Ttl - firstAt)
  BY <1>1 DEF BucketInv, TokensEarned
<1>3. /\ bucket.expires \in Int /\ firstAt <= bucket.expires - Ttl /\ bucket.expires - Ttl <= now
      /\ now \in Nat /\ firstAt \in Nat /\ Ttl \in Nat
  BY <1>1, BucketAssumption DEF BucketInv, BucketTypeOK, BucketShape
<1>4. /\ Window * granted \in Int /\ Window * bucket.tokens \in Int
      /\ Window * Burst \in Int /\ Rate * (lastGrant - first) \in Int
  BY <1>1, BucketAssumption DEF BucketInv, BucketTypeOK
<1>5. Window * 0 = 0 /\ Window * 0 <= Window * bucket.tokens
  BY <1>1, BucketAssumption, Monotone
<1>6. /\ bucket.expires - Ttl - firstAt \in Nat /\ now - firstAt \in Nat
      /\ bucket.expires - Ttl - firstAt <= now - firstAt
  BY <1>3
<1>7. /\ Gift(bucket.expires - Ttl - firstAt) \in Int
      /\ Gift(bucket.expires - Ttl - firstAt) <= Gift(now - firstAt)
      /\ Gift(now - firstAt) \in Int
  BY <1>6, GiftGrows
<1>8. Window * granted <= Window * Burst + Rate * (lastGrant - first)
                             + Gift(bucket.expires - Ttl - firstAt)
  BY <1>2, <1>4, <1>5, <1>7
<1> QED
  BY <1>1, <1>3, <1>6, <1>7, <1>8

\* And as time goes on.
LEMMA InvBounds == BucketInv => GrantsBounded
<1> SUFFICES ASSUME BucketInv, granted > 0
             PROVE  Window * granted <= Window * Burst + Rate * (lastGrant - first)
                                           + Gift(now - firstAt)
  BY DEF GrantsBounded
<1>1. /\ Gift(bucket.expires - Ttl - firstAt) \in Int
      /\ Gift(bucket.expires - Ttl - firstAt) <= Gift(now - firstAt)
      /\ Gift(now - firstAt) \in Int
      /\ Window * granted <= Window * Burst + Rate * (lastGrant - first)
                               + Gift(bucket.expires - Ttl - firstAt)
  BY InvBoundsLast
<1>2. Window * granted \in Int /\ Window * Burst \in Int /\ Rate * (lastGrant - first) \in Int
  BY BucketAssumption DEF BucketInv, BucketTypeOK
<1> QED
  BY <1>1, <1>2

\* No bucket and no grant at first.
LEMMA InitInv == BucketInit => BucketInv
  BY BucketAssumption DEF BucketInit, BucketInv, BucketTypeOK, BucketShape, TokensEarned, RefusalsShort, Idle

\* The clock reading a check brings is not far from the time of its script.
LEMMA Readings ==
    ASSUME BucketTypeOK, NEW p \in Process, asked[p] # Idle
    PROVE  /\ Clock(p) \in Int
           /\ now - MaxDelay <= Clock(p)
           /\ Clock(p) <= now + MaxSkew
  BY BucketAssumption DEF BucketTypeOK, Clock

\* What the script finds never exceeds what time has earned or expiry given away, as
\* far as it goes beyond the burst of a first grant.
LEMMA FoundEarned ==
    ASSUME BucketInv, NEW p \in Process, asked[p] # Idle, NEW tokens \in Tokens(Clock(p))
    PROVE  /\ tokens \in Int /\ tokens <= Burst
           /\ granted > 0 => Window * granted + Window * tokens
                                <= Window * Burst + Rate * (Clock(p) - first) + Gift(now - firstAt)
           /\ tokens < 1 => Rate * (Clock(p) - lastGrant) <= Window
<1> DEFINE t == Clock(p)
           l == bucket.lastRefill
           before == Gift(bucket.expires - Ttl - firstAt)
           after == Gift(now - firstAt)
<1>0. /\ t \in Int /\ now - MaxDelay <= t /\ now \in Nat /\ granted \in Nat /\ first \in Int
      /\ lastGrant \in Int /\ firstAt \in Nat
      /\ Window \in Nat \ {0} /\ Rate \in Nat \ {0} /\ Burst \in Nat \ {0}
      /\ Ttl \in Nat /\ MaxDelay \in Nat /\ MaxSkew \in Nat /\ MaxDelay + MaxSkew < Ttl
  BY BucketAssumption, Readings DEF BucketInv, BucketTypeOK
<1>g. granted > 0 => before \in Int /\ after \in Int /\ before <= after
  BY InvBoundsLast
<1> HIDE DEF t, before, after
<1>1. CASE live
  <2>1. /\ bucket # NoBucket /\ bucket.tokens \in Nat /\ l \in Int /\ l = lastGrant
    BY <1>1 DEF live, BucketInv, BucketTypeOK, BucketShape
  <2>2. PICK r \in Refills(t - l) : tokens = AtMost(Burst, bucket.tokens + r)
    BY <1>1 DEF Tokens, t
  <2>3. r \in Int /\ Window * r <= Rate * (t - l) /\ (r < 1 => Rate * (t - l) <= Window)
    BY <1>0, <2>1, RefillWorth
  <2>4. tokens \in Int /\ tokens <= Burst /\ tokens <= bucket.tokens + r
    BY <1>0, <2>1, <2>2, <2>3 DEF AtMost
  <2>5. ASSUME granted > 0
        PROVE  Window * granted + Window * tokens <= Window * Burst + Rate * (t - first) + after
    <3>1. Window * tokens <= Window * bucket.tokens + Window * r
      BY <1>0, <2>1, <2>3, <2>4, Monotone, Distributes
    <3>2. Rate * (t - l) + Rate * (l - first) = Rate * (t - first)
      BY <1>0, <2>1, Distributes
    <3>3. Window * granted + Window * bucket.tokens <= Window * Burst + Rate * (l - first) + before
      BY <2>1, <2>5 DEF BucketInv, TokensEarned, before
    <3> QED
      BY <3>1, <3>2, <3>3, <1>0, <1>g, <2>1, <2>3, <2>4, <2>5
  <2>6. tokens < 1 => r < 1
    BY <1>0, <2>1, <2>2, <2>3 DEF AtMost
  <2> QED
    BY <2>1, <2>3, <2>4, <2>5, <2>6 DEF t, after
<1>2. CASE ~live
  <2>1. tokens = Burst
    BY <1>2 DEF Tokens
  <2>2. ASSUME granted > 0
        PROVE  Window * granted + Window * Burst <= Window * Burst + Rate * (t - first) + after
    <3>1. /\ bucket # NoBucket /\ l \in Int /\ bucket.expires \in Int
          /\ l - MaxSkew <= bucket.expires - Ttl
          /\ bucket.expires <= now /\ l = lastGrant
          /\ firstAt <= bucket.expires - Ttl
      BY <1>0, <1>2, <2>2 DEF live, BucketInv, BucketTypeOK, BucketShape
    <3>2. Ttl - MaxDelay - MaxSkew <= t - l
      BY <1>0, <3>1
    <3>3. Window * granted <= Window * Burst + Rate * (l - first) + before
      BY <2>2, <3>1, InvBoundsLast DEF before
    <3>4. Rate * (t - l) + Rate * (l - first) = Rate * (t - first)
      BY <1>0, <3>1, Distributes
    <3>5. /\ Rate * (t - l) \in Int /\ Rate * (l - first) \in Int /\ Rate * (t - first) \in Int
          /\ Window * granted \in Int /\ Window * Burst \in Int
      BY <1>0, <3>1
    <3>6. CASE TtlCoversBurst
      <4>1. Rate * (Ttl - MaxDelay - MaxSkew) <= Rate * (t - l)
        BY <1>0, <3>1, <3>2, Monotone
      <4>2. Window * Burst <= Rate * (t - l)
        BY <1>0, <3>5, <3>6, <4>1 DEF TtlCoversBurst
      <4> QED
        BY <1>g, <2>2, <3>3, <3>4, <3>5, <4>2
    <3>7. CASE ~ TtlCoversBurst
      <4>1. before + Window * Burst <= after
        <5>1. /\ bucket.expires - Ttl - firstAt \in Nat /\ now - firstAt \in Nat
              /\ bucket.expires - Ttl - firstAt + Ttl <= now - firstAt
              /\ bucket.expires - Ttl - firstAt <= now - firstAt
          BY <1>0, <3>1
        <5> QED
          BY <3>7, <5>1, GiftGrows DEF before, after
      <4>2. 0 <= Rate * (t - l)
        <5>1. Rate * 0 <= Rate * (t - l)
          BY <1>0, <3>1, <3>2, Monotone
        <5> QED  BY <5>1, <1>0
      <4> QED
        BY <1>g, <2>2, <3>3, <3>4, <3>5, <4>1, <4>2
    <3> QED
      BY <3>6, <3>7
  <2> QED
    BY <1>0, <2>1, <2>2 DEF t, after
<1> QED
  BY <1>1, <1>2

-----------------------------------------------------------------------------
\* A granted token is paid for.
LEMMA AllowInv ==
    ASSUME BucketInv, NEW p \in Process, asked[p] # Idle, NEW tokens \in Tokens(Clock(p)),
           asked' = [asked EXCEPT ![p] = Idle], now' = now, Allow(p, tokens)
    PROVE  BucketInv'
<1>0. /\ tokens \in Int /\ tokens <= Burst /\ tokens >= 1
      /\ granted > 0 => Window * granted + Window * tokens
                           <= Window * Burst + Rate * (Clock(p) - first) + Gift(now - firstAt)
      /\ granted > 0 => firstAt <= now
  BY FoundEarned, InvBoundsLast DEF Allow, BucketInv, BucketTypeOK
<1>1. /\ Clock(p) \in Int /\ Clock(p) <= now + MaxSkew
      /\ now \in Nat /\ granted \in Nat /\ first \in Int /\ firstAt \in Nat /\ MaxSkew \in Nat /\ Ttl \in Nat
      /\ Window \in Nat \ {0} /\ Rate \in Nat \ {0} /\ Burst \in Nat \ {0}
  BY Readings, BucketAssumption DEF BucketInv, BucketTypeOK
<1>2. /\ bucket' = [tokens |-> tokens - 1, lastRefill |-> Clock(p), expires |-> now + Ttl]
      /\ granted' = granted + 1 /\ lastGrant' = Clock(p) /\ waited' = waited
      /\ first' = IF granted = 0 THEN Clock(p) ELSE first
      /\ firstAt' = IF granted = 0 THEN now ELSE firstAt
      /\ bucket'.expires - Ttl = now
  BY <1>1 DEF Allow
<1> DEFINE t == Clock(p)
<1> HIDE DEF t
<1>3. bucket' \in [tokens : Nat, lastRefill : Int, expires : Int]
  BY <1>0, <1>1, <1>2
<1>4. bucket' # NoBucket
  BY <1>3, BucketAssumption
<1>5. BucketTypeOK'
  BY <1>0, <1>1, <1>2, <1>3 DEF BucketInv, BucketTypeOK, Idle
<1>6. BucketShape'
  BY <1>0, <1>1, <1>2, <1>4 DEF BucketShape
<1>7. TokensEarned'
  <2>1. Window * (granted + 1) + Window * (tokens - 1) = Window * granted + Window * tokens
    BY <1>0, <1>1, Distributes
  <2>2. CASE granted = 0
    <3>1. Window * tokens <= Window * Burst
      BY <1>0, <1>1, Monotone
    <3>2. Window * granted = 0 /\ Rate * (Clock(p) - Clock(p)) = 0
      BY <2>2, <1>1
    <3>3. Gift(now - now) \in Int /\ Gift(now - now) >= 0
      BY <1>1, GiftGrows
    <3>4. Window * (granted + 1) + Window * (tokens - 1)
             <= Window * Burst + Rate * (Clock(p) - Clock(p)) + Gift(now - now)
      BY <2>1, <3>1, <3>2, <3>3, <1>0, <1>1
    <3> QED
      BY <3>4, <1>2, <2>2 DEF TokensEarned
  <2>3. CASE granted # 0
    <3>1. Window * (granted + 1) + Window * (tokens - 1)
             <= Window * Burst + Rate * (Clock(p) - first) + Gift(now - firstAt)
      BY <2>1, <2>3, <1>0, <1>1
    <3> QED
      BY <3>1, <1>2, <2>3 DEF TokensEarned
  <2> QED
    BY <2>2, <2>3
<1>8. RefusalsShort'
  BY <1>2 DEF BucketInv, RefusalsShort
<1> QED
  BY <1>5, <1>6, <1>7, <1>8 DEF BucketInv

\* A refusal leaves what has been refilled.
LEMMA RefuseInv ==
    ASSUME BucketInv, NEW p \in Process, asked[p] # Idle, NEW tokens \in Tokens(Clock(p)),
           asked' = [asked EXCEPT ![p] = Idle], now' = now, RefuseToken(p, tokens)
    PROVE  BucketInv'
<1>1. Rate * (Clock(p) - lastGrant) <= Window /\ Clock(p) \in Int /\ lastGrant \in Int
  BY FoundEarned, Readings DEF RefuseToken, BucketInv, BucketTypeOK
<1>2. /\ UNCHANGED <<bucket, granted, first, firstAt, lastGrant>>
      /\ waited' = Clock(p) - lastGrant
  BY DEF RefuseToken
<1>3. BucketTypeOK'
  BY <1>1, <1>2 DEF BucketInv, BucketTypeOK, Idle
<1>4. BucketShape' /\ TokensEarned'
  BY <1>2 DEF BucketInv, BucketShape, TokensEarned
<1>5. RefusalsShort'
  BY <1>1, <1>2 DEF RefusalsShort
<1> QED
  BY <1>3, <1>4, <1>5 DEF BucketInv

\* Every step keeps the invariant.
LEMMA NextInv == BucketInv /\ [BucketNext]_bucketVars => BucketInv'
<1> SUFFICES ASSUME BucketInv, [BucketNext]_bucketVars PROVE BucketInv'
  OBVIOUS
<1> USE DEF BucketInv, BucketTypeOK, BucketShape, TokensEarned, RefusalsShort
<1>1. ASSUME NEW d \in Steps, Tick(d) PROVE BucketInv'
  BY <1>1, BucketAssumption DEF Tick, Idle
<1>2. ASSUME NEW p \in Process, Ask(p) PROVE BucketInv'
  BY <1>2, BucketAssumption DEF Ask, Idle
<1>3. ASSUME NEW p \in Process, FailOpen(p) PROVE BucketInv'
  BY <1>3 DEF FailOpen, Idle
<1>4. ASSUME NEW p \in Process, Eval(p) PROVE BucketInv'
  <2>1. PICK tokens \in Tokens(Clock(p)) : Allow(p, tokens) \/ RefuseToken(p, tokens)
    BY <1>4 DEF Eval
  <2> HIDE DEF BucketInv, BucketTypeOK, BucketShape, TokensEarned, RefusalsShort
  <2> QED
    BY <1>4, <2>1, AllowInv, RefuseInv DEF Eval
<1>5. CASE Observe
  BY <1>5 DEF Observe
<1>6. CASE UNCHANGED bucketVars
  BY <1>6 DEF bucketVars
<1> HIDE DEF BucketInv
<1> QED
  BY <1>1, <1>2, <1>3, <1>4, <1>5, <1>6 DEF BucketNext

-----------------------------------------------------------------------------
\* The invariant holds in every behaviour.
LEMMA AlwaysInv == BucketSpec => []BucketInv
  BY InitInv, NextInv, PTL DEF BucketSpec

\* checkRateLimit keeps the limit of a key, over every stretch of time, however the
\* scripts of its processes interleave and whatever its rate and burst: where the bucket
\* of the code expires before it is full, the excess is a burst per Ttl and no more.
THEOREM BucketLimitKept == BucketSpec => []GrantsBounded
  BY AlwaysInv, InvBounds, PTL

\* checkRateLimit never starves a key: refused checks put nothing off.
THEOREM NoStarvation == BucketSpec => []RefusalsShort
<1>1. BucketInv => RefusalsShort
  BY DEF BucketInv
<1> QED
  BY <1>1, AlwaysInv, PTL
=============================================================================
