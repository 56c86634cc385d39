-------------------------- MODULE OniStreamProofs --------------------------
(***************************************************************************)
(* Proofs about OniStream, for any finite set of readers, any pool of      *)
(* frames, and both kinds of sensor.                                       *)
(***************************************************************************)
EXTENDS OniStream, FiniteSetTheorems, TLAPS

(***************************************************************************)
(* The inductive invariant.  Counting needs that a reader inside readFrame *)
(* holds nothing, or the frame it takes would replace one it has; and that *)
(* stop leaves the holder empty needs to know where the driver thread is   *)
(* while the stream is stopped.                                            *)
(***************************************************************************)
HandsEmpty == \A r \in Readers : rpc[r] \notin {"app", "return"} => rframe[r] = NoFrame

DriverQuiet == ~streaming /\ dpc = "idle"

Quiet ==
    exclusive =>
        /\ ~m_started /\ cpc = "idle" => DriverQuiet /\ m_pLastFrame = NoFrame
        /\ cpc = "startStream" => DriverQuiet /\ m_pLastFrame = NoFrame
        /\ cpc = "stopClear" => DriverQuiet

OniInv == TypeOK /\ RefCountsExact /\ HandsEmpty /\ FrameIsAnnounced /\ Quiet

-----------------------------------------------------------------------------
(* Counting holders. *)

\* One more element, and one less.
LEMMA OneMore ==
  ASSUME NEW S, NEW T, NEW x, IsFiniteSet(S), x \notin S, T = S \cup {x}
  PROVE  Cardinality(T) = Cardinality(S) + 1
  BY FS_AddElement, Zenon

LEMMA OneLess ==
  ASSUME NEW S, NEW T, NEW x, IsFiniteSet(S), x \in S, T = S \ {x}
  PROVE  Cardinality(T) = Cardinality(S) - 1
  BY FS_RemoveElement, Zenon

\* One element for another.
LEMMA Handover ==
  ASSUME NEW S, NEW T, NEW x, NEW y, IsFiniteSet(S),
         x \in S, y \notin S, T = (S \ {x}) \cup {y}
  PROVE  Cardinality(T) = Cardinality(S)
<1> DEFINE R == S \ {x}
<1>1. IsFiniteSet(R) /\ Cardinality(R) = Cardinality(S) - 1
  BY FS_RemoveElement, Zenon
<1>2. y \notin R /\ T = R \cup {y}
  OBVIOUS
<1>3. Cardinality(T) = Cardinality(R) + 1
  <2> HIDE DEF R
  <2> QED BY <1>1, <1>2, OneMore, Zenon
<1>4. Cardinality(S) \in Nat
  BY FS_CardinalityType
<1> QED BY <1>1, <1>3, <1>4

\* The parties are distinct and finitely many, so their number is a number.
LEMMA HoldersFinite ==
  \A f \in Frames : IsFiniteSet(HoldersOf(f)) /\ Cardinality(HoldersOf(f)) \in Nat
<1> TAKE f \in Frames
<1> DEFINE All == (Readers \cup {Driver}) \cup {Holder}
<1>1. IsFiniteSet(All)
  BY FS_AddElement, OniAssumption
<1>2. HoldersOf(f) \in SUBSET All
  BY DEF HoldersOf
<1>3. IsFiniteSet(HoldersOf(f))
  <2> HIDE DEF All
  <2> QED BY <1>1, <1>2, FS_Subset
<1> QED BY <1>3, FS_CardinalityType

\* Who holds a frame, by party.
LEMMA HoldersMember ==
  ASSUME NEW f \in Frames
  PROVE  /\ Driver \in HoldersOf(f) <=> dframe = f
         /\ Holder \in HoldersOf(f) <=> m_pLastFrame = f
         /\ \A r \in Readers : r \in HoldersOf(f) <=> rframe[r] = f
  BY PartiesAssumption DEF HoldersOf

-----------------------------------------------------------------------------
(* Each way of changing references keeps the counts exact. *)

Counted == refCount \in [Frames -> Int] /\ RefCountsExact

\* Exact counts are natural numbers.
NaturalCounts == refCount \in [Frames -> Nat]

LEMMA CountedNat == Counted => NaturalCounts
<1> SUFFICES ASSUME Counted PROVE refCount \in [Frames -> Nat]
  BY DEF NaturalCounts
<1>1. \A f \in Frames : refCount[f] \in Nat
  BY HoldersFinite DEF Counted, RefCountsExact
<1> QED BY <1>1 DEF Counted

LEMMA CountedNatNext == Counted' => NaturalCounts'
  BY CountedNat, PTL

\* A step that touches no reference.
LEMMA CountedStutter ==
  ASSUME Counted, UNCHANGED <<refCount, dframe, m_pLastFrame, rframe>>
  PROVE  Counted'
  BY DEF Counted, RefCountsExact, HoldersOf

\* The driver acquires a frame.
LEMMA CountedAcquire ==
  ASSUME Shape, Counted, NEW g \in Frames, acquireFrame(g)
  PROVE  Counted'
<1>1. dframe = NoFrame /\ dframe' = g /\ refCount' = [refCount EXCEPT ![g] = @ + 1]
  BY DEF acquireFrame, addRef, Shape
<1>2. refCount' \in [Frames -> Int]
  BY <1>1 DEF Counted
<1>3. ASSUME NEW f \in Frames PROVE refCount'[f] = Cardinality(HoldersOf(f)')
  <2>1. CASE f = g
    <3>1. HoldersOf(f)' = HoldersOf(f) \cup {Driver}
      BY <1>1, <2>1, OniAssumption DEF HoldersOf, acquireFrame, readerVars
    <3>2. Driver \notin HoldersOf(f)
      BY <1>1, <1>3, HoldersMember, OniAssumption
    <3>3. Cardinality(HoldersOf(f)') = Cardinality(HoldersOf(f)) + 1
      BY <3>1, <3>2, HoldersFinite, OneMore, <1>3, Zenon
    <3> QED BY <1>1, <2>1, <3>3, HoldersFinite DEF Counted, RefCountsExact
  <2>2. CASE f # g
    <3>1. HoldersOf(f)' = HoldersOf(f)
      BY <1>1, <1>3, <2>2, OniAssumption DEF HoldersOf, acquireFrame, readerVars
    <3> QED BY <1>1, <1>3, <2>2, <3>1 DEF Counted, RefCountsExact
  <2> QED BY <2>1, <2>2
<1> QED BY <1>2, <1>3 DEF Counted, RefCountsExact

\* The driver releases its frame.
LEMMA CountedRelease ==
  ASSUME Shape, Counted, releaseFrame
  PROVE  Counted'
<1>1. dframe \in Frames /\ dframe' = NoFrame /\ refCount' = [refCount EXCEPT ![dframe] = @ - 1]
  BY DEF releaseFrame, release, Shape, MaybeFrame
<1>2. refCount' \in [Frames -> Int]
  BY <1>1 DEF Counted
<1>3. ASSUME NEW f \in Frames PROVE refCount'[f] = Cardinality(HoldersOf(f)')
  <2>1. CASE f = dframe
    <3>1. HoldersOf(f)' = HoldersOf(f) \ {Driver}
      BY <1>1, <1>3, <2>1, OniAssumption, PartiesAssumption
      DEF HoldersOf, releaseFrame, readerVars
    <3>2. Driver \in HoldersOf(f)
      BY <1>3, <2>1, HoldersMember
    <3>3. Cardinality(HoldersOf(f)') = Cardinality(HoldersOf(f)) - 1
      BY <3>1, <3>2, HoldersFinite, OneLess, <1>3, Zenon
    <3> QED BY <1>1, <2>1, <3>3, HoldersFinite DEF Counted, RefCountsExact
  <2>2. CASE f # dframe
    <3>1. HoldersOf(f)' = HoldersOf(f)
      BY <1>1, <1>3, <2>2, OniAssumption DEF HoldersOf, releaseFrame, readerVars
    <3> QED BY <1>1, <1>3, <2>2, <3>1 DEF Counted, RefCountsExact
  <2> QED BY <2>1, <2>2
<1> QED BY <1>2, <1>3 DEF Counted, RefCountsExact

\* The holder drops what it has.
LEMMA CountedClear ==
  ASSUME Shape, Counted, clear, UNCHANGED <<dframe, rframe>>
  PROVE  Counted'
<1>1. CASE m_pLastFrame = NoFrame
  BY <1>1, CountedStutter DEF clear, release
<1>2. CASE m_pLastFrame \in Frames
  <2>1. refCount' = [refCount EXCEPT ![m_pLastFrame] = @ - 1] /\ m_pLastFrame' = NoFrame
    BY <1>2, OniAssumption DEF clear, release
  <2>2. refCount' \in [Frames -> Int]
    BY <1>2, <2>1 DEF Counted
  <2>3. ASSUME NEW f \in Frames PROVE refCount'[f] = Cardinality(HoldersOf(f)')
    <3>1. CASE f = m_pLastFrame
      <4>1. HoldersOf(f)' = HoldersOf(f) \ {Holder}
        BY <2>1, <2>3, <3>1, OniAssumption, PartiesAssumption DEF HoldersOf
      <4>2. Holder \in HoldersOf(f)
        BY <2>3, <3>1, HoldersMember
      <4>3. Cardinality(HoldersOf(f)') = Cardinality(HoldersOf(f)) - 1
        BY <4>1, <4>2, HoldersFinite, OneLess, <2>3, Zenon
      <4> QED BY <2>1, <3>1, <4>3, HoldersFinite DEF Counted, RefCountsExact
    <3>2. CASE f # m_pLastFrame
      <4>1. HoldersOf(f)' = HoldersOf(f)
        BY <2>1, <2>3, <3>2, OniAssumption DEF HoldersOf
      <4> QED BY <2>1, <2>3, <3>2, <4>1 DEF Counted, RefCountsExact
    <3> QED BY <3>1, <3>2
  <2> QED BY <2>2, <2>3 DEF Counted, RefCountsExact
<1> QED BY <1>1, <1>2 DEF Shape, MaybeFrame

\* The driver's frame replaces the one the holder has.
LEMMA CountedProcess ==
  ASSUME Shape, Counted, processNewFrame
  PROVE  Counted'
<1> DEFINE mid == release(refCount, m_pLastFrame)
<1>1. /\ dframe \in Frames /\ m_pLastFrame' = dframe /\ UNCHANGED <<dframe, rframe>>
      /\ m_pLastFrame \in Frames \cup {NoFrame}
  BY DEF processNewFrame, readerVars, Shape, MaybeFrame
<1>2. /\ mid \in [Frames -> Int]
      /\ \A f \in Frames : mid[f] = IF f = m_pLastFrame THEN refCount[f] - 1 ELSE refCount[f]
  BY <1>1, OniAssumption DEF release, Counted
<1>3. /\ refCount' \in [Frames -> Int]
      /\ \A f \in Frames : refCount'[f] = IF f = dframe THEN mid[f] + 1 ELSE mid[f]
  <2>1. refCount' = [mid EXCEPT ![dframe] = @ + 1]
    BY DEF processNewFrame, addRef
  <2> HIDE DEF mid
  <2> QED BY <1>1, <1>2, <2>1
<1> HIDE DEF mid
<1>4. ASSUME NEW f \in Frames PROVE refCount'[f] = Cardinality(HoldersOf(f)')
  <2>0. refCount[f] = Cardinality(HoldersOf(f)) /\ refCount[f] \in Int
    BY <1>4 DEF Counted, RefCountsExact
  <2>1. CASE f = dframe /\ f # m_pLastFrame
    <3>1. HoldersOf(f)' = HoldersOf(f) \cup {Holder}
      BY <1>1, <1>4, <2>1 DEF HoldersOf
    <3>2. Holder \notin HoldersOf(f)
      BY <1>4, <2>1, HoldersMember
    <3>3. Cardinality(HoldersOf(f)') = Cardinality(HoldersOf(f)) + 1
      BY <3>1, <3>2, HoldersFinite, OneMore, <1>4, Zenon
    <3> QED BY <1>2, <1>3, <2>0, <2>1, <3>3
  <2>2. CASE f # dframe /\ f = m_pLastFrame
    <3>1. HoldersOf(f)' = HoldersOf(f) \ {Holder}
      BY <1>1, <1>4, <2>2, PartiesAssumption DEF HoldersOf
    <3>2. Holder \in HoldersOf(f)
      BY <1>4, <2>2, HoldersMember
    <3>3. Cardinality(HoldersOf(f)') = Cardinality(HoldersOf(f)) - 1
      BY <3>1, <3>2, HoldersFinite, OneLess, <1>4, Zenon
    <3> QED BY <1>2, <1>3, <2>0, <2>2, <3>3
  <2>3. CASE (f = dframe) = (f = m_pLastFrame)
    <3>1. HoldersOf(f)' = HoldersOf(f)
      BY <1>1, <1>4, <2>3 DEF HoldersOf
    <3> QED BY <1>2, <1>3, <1>4, <2>0, <2>3, <3>1
  <2> QED BY <2>1, <2>2, <2>3
<1> QED BY <1>3, <1>4 DEF Counted, RefCountsExact

\* The reference of the holder becomes the reader's.
LEMMA CountedRead ==
  ASSUME Shape, Counted, HandsEmpty, NEW r \in Readers, readFrame(r)
  PROVE  Counted'
<1>1. /\ rframe[r] = NoFrame /\ m_pLastFrame' = NoFrame
      /\ UNCHANGED <<dframe, refCount>>
  BY DEF readFrame, HandsEmpty, driverVars
<1>2. /\ rframe'[r] = m_pLastFrame
      /\ \A q \in Readers : q # r => rframe'[q] = rframe[q]
  BY DEF readFrame, Shape
<1>3. ASSUME NEW f \in Frames PROVE refCount'[f] = Cardinality(HoldersOf(f)')
  <2>1. CASE f = m_pLastFrame
    <3>1. HoldersOf(f)' = (HoldersOf(f) \ {Holder}) \cup {r}
      BY <1>1, <1>2, <1>3, <2>1, OniAssumption, PartiesAssumption DEF HoldersOf
    <3>2. Holder \in HoldersOf(f) /\ r \notin HoldersOf(f)
      BY <1>1, <1>3, <2>1, HoldersMember, OniAssumption
    <3>3. Cardinality(HoldersOf(f)') = Cardinality(HoldersOf(f))
      BY <3>1, <3>2, HoldersFinite, Handover, <1>3, Zenon
    <3> QED BY <1>1, <1>3, <3>3 DEF Counted, RefCountsExact
  <2>2. CASE f # m_pLastFrame
    <3>1. HoldersOf(f)' = HoldersOf(f)
      BY <1>1, <1>2, <1>3, <2>2, OniAssumption DEF HoldersOf
    <3> QED BY <1>1, <1>3, <3>1 DEF Counted, RefCountsExact
  <2> QED BY <2>1, <2>2
<1> QED BY <1>1, <1>3 DEF Counted, RefCountsExact

\* The reader is done with its frame.
LEMMA CountedReaderRelease ==
  ASSUME Shape, Counted, NEW r \in Readers, frameRelease(r)
  PROVE  Counted'
<1> DEFINE g == rframe[r]
<1>1. /\ g \in Frames /\ refCount' = [refCount EXCEPT ![g] = @ - 1]
      /\ UNCHANGED <<dframe, m_pLastFrame>>
  BY DEF frameRelease, release, Shape, MaybeFrame, driverVars
<1>2. /\ rframe'[r] = NoFrame
      /\ \A q \in Readers : q # r => rframe'[q] = rframe[q]
  BY DEF frameRelease, Shape
<1>3. refCount' \in [Frames -> Int]
  BY <1>1 DEF Counted
<1>4. ASSUME NEW f \in Frames PROVE refCount'[f] = Cardinality(HoldersOf(f)')
  <2>1. CASE f = g
    <3>1. HoldersOf(f)' = HoldersOf(f) \ {r}
      BY <1>1, <1>2, <1>4, <2>1, OniAssumption, PartiesAssumption DEF HoldersOf
    <3>2. r \in HoldersOf(f)
      BY <1>4, <2>1, HoldersMember
    <3>3. Cardinality(HoldersOf(f)') = Cardinality(HoldersOf(f)) - 1
      BY <3>1, <3>2, HoldersFinite, OneLess, <1>4, Zenon
    <3> QED BY <1>1, <1>4, <2>1, <3>3, HoldersFinite DEF Counted, RefCountsExact
  <2>2. CASE f # g
    <3>1. HoldersOf(f)' = HoldersOf(f)
      BY <1>1, <1>2, <1>4, <2>2, OniAssumption DEF HoldersOf
    <3> QED BY <1>1, <1>4, <2>2, <3>1 DEF Counted, RefCountsExact
  <2> QED BY <2>1, <2>2
<1> QED BY <1>3, <1>4 DEF Counted, RefCountsExact

-----------------------------------------------------------------------------
(* The invariant holds initially and every step of every thread keeps it. *)

\* Neither kind of initial state has a frame anywhere.
LEMMA InitOniInv == Init \/ InitStarted => OniInv
<1> SUFFICES ASSUME Init \/ InitStarted PROVE OniInv
  OBVIOUS
<1>1. TypeOK
  <2>1. streaming \in BOOLEAN /\ exclusive \in BOOLEAN
    BY DEF Init, InitStarted
  <2>2. refCount = Nothing
    BY DEF Init, InitStarted
  <2>3. refCount \in [Frames -> Nat]
    BY <2>2 DEF Nothing
  <2> QED BY <2>1, <2>3 DEF Init, InitStarted, TypeOK, Shape, MaybeFrame
<1>2. RefCountsExact
  <2> SUFFICES ASSUME NEW f \in Frames PROVE refCount[f] = Cardinality(HoldersOf(f))
    BY DEF RefCountsExact
  <2>1. HoldersOf(f) = {}
    BY OniAssumption DEF Init, InitStarted, HoldersOf
  <2> QED BY <2>1, FS_EmptySet DEF Init, InitStarted, Nothing
<1>3. HandsEmpty /\ FrameIsAnnounced /\ Quiet
  BY DEF Init, InitStarted, HandsEmpty, FrameIsAnnounced, Quiet, DriverQuiet
<1> QED BY <1>1, <1>2, <1>3 DEF OniInv

\* The program counters and events keep their types.
LEMMA NextShape == Shape /\ [Next]_vars => Shape'
<1> SUFFICES ASSUME Shape, [Next]_vars PROVE Shape'
  OBVIOUS
<1>0. exclusive' = exclusive
  BY DEF Next, vars
<1> USE OniAssumption DEF Shape, MaybeFrame
<1>1. ASSUME NEW f \in Frames, acquireFrame(f) PROVE Shape'
  BY <1>0, <1>1 DEF acquireFrame, controlVars, driverVars, readerVars, frameVars, eventVars
<1>2. CASE stream_NewFrame
  BY <1>0, <1>2 DEF stream_NewFrame, controlVars, driverVars, readerVars, frameVars, eventVars
<1>3. CASE processNewFrame
  BY <1>0, <1>3 DEF processNewFrame, controlVars, driverVars, readerVars, frameVars, eventVars
<1>4. CASE raiseNewFrameEvent
  BY <1>0, <1>4 DEF raiseNewFrameEvent, controlVars, driverVars, readerVars, frameVars, eventVars
<1>5. CASE onNewFrame
  BY <1>0, <1>5 DEF onNewFrame, controlVars, driverVars, readerVars, frameVars, eventVars
<1>6. CASE releaseFrame
  BY <1>0, <1>6 DEF releaseFrame, controlVars, driverVars, readerVars, frameVars, eventVars
<1>7. ASSUME NEW r \in Readers, getThreadEvent(r) PROVE Shape'
  BY <1>0, <1>7 DEF getThreadEvent, controlVars, driverVars, readerVars, frameVars, eventVars
<1>8. ASSUME NEW r \in Readers, peekFrame(r) PROVE Shape'
  BY <1>0, <1>8 DEF peekFrame, controlVars, driverVars, readerVars, frameVars, eventVars
<1>9. ASSUME NEW r \in Readers, waitThreadEvent(r) PROVE Shape'
  BY <1>0, <1>9 DEF waitThreadEvent, controlVars, driverVars, readerVars, frameVars, eventVars
<1>10. ASSUME NEW r \in Readers, waitForNewFrameEvent(r) PROVE Shape'
  BY <1>0, <1>10 DEF waitForNewFrameEvent, controlVars, driverVars, readerVars, frameVars, eventVars
<1>11. ASSUME NEW r \in Readers, readFrame(r) PROVE Shape'
  BY <1>0, <1>11 DEF readFrame, controlVars, driverVars, readerVars, frameVars, eventVars
<1>12. ASSUME NEW r \in Readers, returnFrame(r) PROVE Shape'
  BY <1>0, <1>12 DEF returnFrame, controlVars, driverVars, readerVars, frameVars, eventVars
<1>13. ASSUME NEW r \in Readers, frameRelease(r) PROVE Shape'
  BY <1>0, <1>13 DEF frameRelease, controlVars, driverVars, readerVars, frameVars, eventVars
<1>14. CASE startClears
  BY <1>0, <1>14 DEF startClears, controlVars, driverVars, readerVars, frameVars, eventVars, Goto, clear
<1>15. CASE streamStart
  BY <1>0, <1>15 DEF streamStart, controlVars, driverVars, readerVars, frameVars, eventVars, Goto
<1>16. CASE streamStartFails
  BY <1>0, <1>16 DEF streamStartFails, controlVars, driverVars, readerVars, frameVars, eventVars, Goto
<1>17. CASE startEnables
  BY <1>0, <1>17 DEF startEnables, controlVars, driverVars, readerVars, frameVars, eventVars, Goto, clear
<1>18. CASE startReturns
  BY <1>0, <1>18 DEF startReturns, controlVars, driverVars, readerVars, frameVars, eventVars, Goto
<1>19. CASE stopBegins
  BY <1>0, <1>19 DEF stopBegins, controlVars, driverVars, readerVars, frameVars, eventVars, Goto
<1>20. CASE stopDisables
  BY <1>0, <1>20 DEF stopDisables, controlVars, driverVars, readerVars, frameVars, eventVars, Goto, clear
<1>21. CASE streamStop
  BY <1>0, <1>21 DEF streamStop, controlVars, driverVars, readerVars, frameVars, eventVars, Goto
<1>22. CASE stopClears
  BY <1>0, <1>22 DEF stopClears, controlVars, driverVars, readerVars, frameVars, eventVars, Goto, clear
<1>23. CASE otherStream
  BY <1>0, <1>23 DEF otherStream, controlVars, driverVars, readerVars, frameVars, eventVars
<1>24. CASE UNCHANGED vars
  BY <1>0, <1>24 DEF vars, controlVars, driverVars, readerVars, frameVars, eventVars
<1> QED
  BY <1>1, <1>2, <1>3, <1>4, <1>5, <1>6, <1>7, <1>8, <1>9, <1>10, <1>11, <1>12, <1>13, <1>14, <1>15, <1>16, <1>17, <1>18, <1>19, <1>20, <1>21, <1>22, <1>23, <1>24
  DEF Next, DriverStep, ReaderStep, ReadStep, ControlStep

\* Every step counts.
LEMMA NextCounted == Shape /\ Counted /\ HandsEmpty /\ [Next]_vars => Counted'
<1> SUFFICES ASSUME Shape, Counted, HandsEmpty, [Next]_vars PROVE Counted'
  OBVIOUS
<1>1. ASSUME NEW f \in Frames, acquireFrame(f) PROVE Counted'
  BY <1>1, CountedAcquire
<1>2. CASE stream_NewFrame
  BY <1>2, CountedStutter DEF stream_NewFrame, controlVars, driverVars, readerVars, frameVars
<1>3. CASE processNewFrame
  BY <1>3, CountedProcess
<1>4. CASE raiseNewFrameEvent
  BY <1>4, CountedStutter DEF raiseNewFrameEvent, controlVars, driverVars, readerVars, frameVars
<1>5. CASE onNewFrame
  BY <1>5, CountedStutter DEF onNewFrame, controlVars, driverVars, readerVars, frameVars
<1>6. CASE releaseFrame
  BY <1>6, CountedRelease
<1>7. ASSUME NEW r \in Readers, getThreadEvent(r) PROVE Counted'
  BY <1>7, CountedStutter DEF getThreadEvent, controlVars, driverVars, readerVars, frameVars
<1>8. ASSUME NEW r \in Readers, peekFrame(r) PROVE Counted'
  BY <1>8, CountedStutter DEF peekFrame, controlVars, driverVars, readerVars, frameVars
<1>9. ASSUME NEW r \in Readers, waitThreadEvent(r) PROVE Counted'
  BY <1>9, CountedStutter DEF waitThreadEvent, controlVars, driverVars, readerVars, frameVars
<1>10. ASSUME NEW r \in Readers, waitForNewFrameEvent(r) PROVE Counted'
  BY <1>10, CountedStutter DEF waitForNewFrameEvent, controlVars, driverVars, readerVars, frameVars
<1>11. ASSUME NEW r \in Readers, readFrame(r) PROVE Counted'
  BY <1>11, CountedRead
<1>12. ASSUME NEW r \in Readers, returnFrame(r) PROVE Counted'
  BY <1>12, CountedStutter DEF returnFrame, controlVars, driverVars, readerVars, frameVars
<1>13. ASSUME NEW r \in Readers, frameRelease(r) PROVE Counted'
  BY <1>13, CountedReaderRelease
<1>14. CASE startClears
  BY <1>14, CountedClear DEF startClears, driverVars, readerVars
<1>15. CASE streamStart
  BY <1>15, CountedStutter DEF streamStart, controlVars, driverVars, readerVars, frameVars
<1>16. CASE streamStartFails
  BY <1>16, CountedStutter DEF streamStartFails, controlVars, driverVars, readerVars, frameVars
<1>17. CASE startEnables
  BY <1>17, CountedClear DEF startEnables, driverVars, readerVars
<1>18. CASE startReturns
  BY <1>18, CountedStutter DEF startReturns, controlVars, driverVars, readerVars, frameVars
<1>19. CASE stopBegins
  BY <1>19, CountedStutter DEF stopBegins, controlVars, driverVars, readerVars, frameVars
<1>20. CASE stopDisables
  BY <1>20, CountedClear DEF stopDisables, driverVars, readerVars
<1>21. CASE streamStop
  BY <1>21, CountedStutter DEF streamStop, controlVars, driverVars, readerVars, frameVars
<1>22. CASE stopClears
  BY <1>22, CountedClear DEF stopClears, driverVars, readerVars
<1>23. CASE otherStream
  BY <1>23, CountedStutter DEF otherStream, controlVars, driverVars, readerVars, frameVars
<1>24. CASE UNCHANGED vars
  BY <1>24, CountedStutter DEF vars, controlVars, driverVars, readerVars, frameVars
<1> QED
  BY <1>1, <1>2, <1>3, <1>4, <1>5, <1>6, <1>7, <1>8, <1>9, <1>10, <1>11, <1>12, <1>13, <1>14, <1>15, <1>16, <1>17, <1>18, <1>19, <1>20, <1>21, <1>22, <1>23, <1>24
  DEF Next, DriverStep, ReaderStep, ReadStep, ControlStep

\* A reader has given its frame back before it calls readFrame again.
LEMMA NextHandsEmpty == Shape /\ HandsEmpty /\ [Next]_vars => HandsEmpty'
<1> SUFFICES ASSUME Shape, HandsEmpty, [Next]_vars PROVE HandsEmpty'
  OBVIOUS
<1> USE DEF Shape, HandsEmpty
<1>1. ASSUME NEW f \in Frames, acquireFrame(f) PROVE HandsEmpty'
  BY <1>1 DEF acquireFrame, controlVars, driverVars, readerVars, frameVars, eventVars
<1>2. CASE stream_NewFrame
  BY <1>2 DEF stream_NewFrame, controlVars, driverVars, readerVars, frameVars, eventVars
<1>3. CASE processNewFrame
  BY <1>3 DEF processNewFrame, controlVars, driverVars, readerVars, frameVars, eventVars
<1>4. CASE raiseNewFrameEvent
  BY <1>4 DEF raiseNewFrameEvent, controlVars, driverVars, readerVars, frameVars, eventVars
<1>5. CASE onNewFrame
  BY <1>5 DEF onNewFrame, controlVars, driverVars, readerVars, frameVars, eventVars
<1>6. CASE releaseFrame
  BY <1>6 DEF releaseFrame, controlVars, driverVars, readerVars, frameVars, eventVars
<1>7. ASSUME NEW r \in Readers, getThreadEvent(r) PROVE HandsEmpty'
  BY <1>7 DEF getThreadEvent, controlVars, driverVars, readerVars, frameVars, eventVars
<1>8. ASSUME NEW r \in Readers, peekFrame(r) PROVE HandsEmpty'
  BY <1>8 DEF peekFrame, controlVars, driverVars, readerVars, frameVars, eventVars
<1>9. ASSUME NEW r \in Readers, waitThreadEvent(r) PROVE HandsEmpty'
  BY <1>9 DEF waitThreadEvent, controlVars, driverVars, readerVars, frameVars, eventVars
<1>10. ASSUME NEW r \in Readers, waitForNewFrameEvent(r) PROVE HandsEmpty'
  BY <1>10 DEF waitForNewFrameEvent, controlVars, driverVars, readerVars, frameVars, eventVars
<1>11. ASSUME NEW r \in Readers, readFrame(r) PROVE HandsEmpty'
  BY <1>11 DEF readFrame, controlVars, driverVars, readerVars, frameVars, eventVars
<1>12. ASSUME NEW r \in Readers, returnFrame(r) PROVE HandsEmpty'
  BY <1>12 DEF returnFrame, controlVars, driverVars, readerVars, frameVars, eventVars
<1>13. ASSUME NEW r \in Readers, frameRelease(r) PROVE HandsEmpty'
  BY <1>13 DEF frameRelease, controlVars, driverVars, readerVars, frameVars, eventVars
<1>14. CASE startClears
  BY <1>14 DEF startClears, controlVars, driverVars, readerVars, frameVars, eventVars, Goto, clear
<1>15. CASE streamStart
  BY <1>15 DEF streamStart, controlVars, driverVars, readerVars, frameVars, eventVars, Goto
<1>16. CASE streamStartFails
  BY <1>16 DEF streamStartFails, controlVars, driverVars, readerVars, frameVars, eventVars, Goto
<1>17. CASE startEnables
  BY <1>17 DEF startEnables, controlVars, driverVars, readerVars, frameVars, eventVars, Goto, clear
<1>18. CASE startReturns
  BY <1>18 DEF startReturns, controlVars, driverVars, readerVars, frameVars, eventVars, Goto
<1>19. CASE stopBegins
  BY <1>19 DEF stopBegins, controlVars, driverVars, readerVars, frameVars, eventVars, Goto
<1>20. CASE stopDisables
  BY <1>20 DEF stopDisables, controlVars, driverVars, readerVars, frameVars, eventVars, Goto, clear
<1>21. CASE streamStop
  BY <1>21 DEF streamStop, controlVars, driverVars, readerVars, frameVars, eventVars, Goto
<1>22. CASE stopClears
  BY <1>22 DEF stopClears, controlVars, driverVars, readerVars, frameVars, eventVars, Goto, clear
<1>23. CASE otherStream
  BY <1>23 DEF otherStream, controlVars, driverVars, readerVars, frameVars, eventVars
<1>24. CASE UNCHANGED vars
  BY <1>24 DEF vars, controlVars, driverVars, readerVars, frameVars, eventVars
<1> QED
  BY <1>1, <1>2, <1>3, <1>4, <1>5, <1>6, <1>7, <1>8, <1>9, <1>10, <1>11, <1>12, <1>13, <1>14, <1>15, <1>16, <1>17, <1>18, <1>19, <1>20, <1>21, <1>22, <1>23, <1>24
  DEF Next, DriverStep, ReaderStep, ReadStep, ControlStep

\* Whoever takes an event takes the frame; whoever stores one raises it.
LEMMA NextFrameIsAnnounced ==
  Shape /\ FrameIsAnnounced /\ [Next]_vars => FrameIsAnnounced'
<1> SUFFICES ASSUME Shape, FrameIsAnnounced, [Next]_vars PROVE FrameIsAnnounced'
  OBVIOUS
<1> USE DEF Shape, FrameIsAnnounced
<1>1. ASSUME NEW f \in Frames, acquireFrame(f) PROVE FrameIsAnnounced'
  BY <1>1 DEF acquireFrame, controlVars, driverVars, readerVars, frameVars, eventVars
<1>2. CASE stream_NewFrame
  BY <1>2 DEF stream_NewFrame, controlVars, driverVars, readerVars, frameVars, eventVars
<1>3. CASE processNewFrame
  BY <1>3 DEF processNewFrame, controlVars, driverVars, readerVars, frameVars, eventVars
<1>4. CASE raiseNewFrameEvent
  BY <1>4 DEF raiseNewFrameEvent, controlVars, driverVars, readerVars, frameVars, eventVars
<1>5. CASE onNewFrame
  BY <1>5 DEF onNewFrame, controlVars, driverVars, readerVars, frameVars, eventVars
<1>6. CASE releaseFrame
  BY <1>6 DEF releaseFrame, controlVars, driverVars, readerVars, frameVars, eventVars
<1>7. ASSUME NEW r \in Readers, getThreadEvent(r) PROVE FrameIsAnnounced'
  BY <1>7 DEF getThreadEvent, controlVars, driverVars, readerVars, frameVars, eventVars
<1>8. ASSUME NEW r \in Readers, peekFrame(r) PROVE FrameIsAnnounced'
  BY <1>8 DEF peekFrame, controlVars, driverVars, readerVars, frameVars, eventVars
<1>9. ASSUME NEW r \in Readers, waitThreadEvent(r) PROVE FrameIsAnnounced'
  BY <1>9 DEF waitThreadEvent, controlVars, driverVars, readerVars, frameVars, eventVars
<1>10. ASSUME NEW r \in Readers, waitForNewFrameEvent(r) PROVE FrameIsAnnounced'
  BY <1>10 DEF waitForNewFrameEvent, controlVars, driverVars, readerVars, frameVars, eventVars
<1>11. ASSUME NEW r \in Readers, readFrame(r) PROVE FrameIsAnnounced'
  BY <1>11 DEF readFrame, controlVars, driverVars, readerVars, frameVars, eventVars
<1>12. ASSUME NEW r \in Readers, returnFrame(r) PROVE FrameIsAnnounced'
  BY <1>12 DEF returnFrame, controlVars, driverVars, readerVars, frameVars, eventVars
<1>13. ASSUME NEW r \in Readers, frameRelease(r) PROVE FrameIsAnnounced'
  BY <1>13 DEF frameRelease, controlVars, driverVars, readerVars, frameVars, eventVars
<1>14. CASE startClears
  BY <1>14 DEF startClears, controlVars, driverVars, readerVars, frameVars, eventVars, Goto, clear
<1>15. CASE streamStart
  BY <1>15 DEF streamStart, controlVars, driverVars, readerVars, frameVars, eventVars, Goto
<1>16. CASE streamStartFails
  BY <1>16 DEF streamStartFails, controlVars, driverVars, readerVars, frameVars, eventVars, Goto
<1>17. CASE startEnables
  BY <1>17 DEF startEnables, controlVars, driverVars, readerVars, frameVars, eventVars, Goto, clear
<1>18. CASE startReturns
  BY <1>18 DEF startReturns, controlVars, driverVars, readerVars, frameVars, eventVars, Goto
<1>19. CASE stopBegins
  BY <1>19 DEF stopBegins, controlVars, driverVars, readerVars, frameVars, eventVars, Goto
<1>20. CASE stopDisables
  BY <1>20 DEF stopDisables, controlVars, driverVars, readerVars, frameVars, eventVars, Goto, clear
<1>21. CASE streamStop
  BY <1>21 DEF streamStop, controlVars, driverVars, readerVars, frameVars, eventVars, Goto
<1>22. CASE stopClears
  BY <1>22 DEF stopClears, controlVars, driverVars, readerVars, frameVars, eventVars, Goto, clear
<1>23. CASE otherStream
  BY <1>23 DEF otherStream, controlVars, driverVars, readerVars, frameVars, eventVars
<1>24. CASE UNCHANGED vars
  BY <1>24 DEF vars, controlVars, driverVars, readerVars, frameVars, eventVars
<1> QED
  BY <1>1, <1>2, <1>3, <1>4, <1>5, <1>6, <1>7, <1>8, <1>9, <1>10, <1>11, <1>12, <1>13, <1>14, <1>15, <1>16, <1>17, <1>18, <1>19, <1>20, <1>21, <1>22, <1>23, <1>24
  DEF Next, DriverStep, ReaderStep, ReadStep, ControlStep

\* The driver thread is quiet while an exclusive stream is stopped.
LEMMA NextQuiet == Shape /\ Quiet /\ [Next]_vars => Quiet'
<1> SUFFICES ASSUME Shape, Quiet, [Next]_vars PROVE Quiet'
  OBVIOUS
<1>0. exclusive' = exclusive
  BY DEF Next, vars
<1> USE DEF Shape, Quiet, DriverQuiet
<1>1. ASSUME NEW f \in Frames, acquireFrame(f) PROVE Quiet'
  BY <1>0, <1>1 DEF acquireFrame, controlVars, driverVars, readerVars, frameVars, eventVars
<1>2. CASE stream_NewFrame
  BY <1>0, <1>2 DEF stream_NewFrame, controlVars, driverVars, readerVars, frameVars, eventVars
<1>3. CASE processNewFrame
  BY <1>0, <1>3 DEF processNewFrame, controlVars, driverVars, readerVars, frameVars, eventVars
<1>4. CASE raiseNewFrameEvent
  BY <1>0, <1>4 DEF raiseNewFrameEvent, controlVars, driverVars, readerVars, frameVars, eventVars
<1>5. CASE onNewFrame
  BY <1>0, <1>5 DEF onNewFrame, controlVars, driverVars, readerVars, frameVars, eventVars
<1>6. CASE releaseFrame
  BY <1>0, <1>6 DEF releaseFrame, controlVars, driverVars, readerVars, frameVars, eventVars
<1>7. ASSUME NEW r \in Readers, getThreadEvent(r) PROVE Quiet'
  BY <1>0, <1>7 DEF getThreadEvent, controlVars, driverVars, readerVars, frameVars, eventVars
<1>8. ASSUME NEW r \in Readers, peekFrame(r) PROVE Quiet'
  BY <1>0, <1>8 DEF peekFrame, controlVars, driverVars, readerVars, frameVars, eventVars
<1>9. ASSUME NEW r \in Readers, waitThreadEvent(r) PROVE Quiet'
  BY <1>0, <1>9 DEF waitThreadEvent, controlVars, driverVars, readerVars, frameVars, eventVars
<1>10. ASSUME NEW r \in Readers, waitForNewFrameEvent(r) PROVE Quiet'
  BY <1>0, <1>10 DEF waitForNewFrameEvent, controlVars, driverVars, readerVars, frameVars, eventVars
<1>11. ASSUME NEW r \in Readers, readFrame(r) PROVE Quiet'
  BY <1>0, <1>11 DEF readFrame, controlVars, driverVars, readerVars, frameVars, eventVars
<1>12. ASSUME NEW r \in Readers, returnFrame(r) PROVE Quiet'
  BY <1>0, <1>12 DEF returnFrame, controlVars, driverVars, readerVars, frameVars, eventVars
<1>13. ASSUME NEW r \in Readers, frameRelease(r) PROVE Quiet'
  BY <1>0, <1>13 DEF frameRelease, controlVars, driverVars, readerVars, frameVars, eventVars
<1>14. CASE startClears
  BY <1>0, <1>14 DEF startClears, controlVars, driverVars, readerVars, frameVars, eventVars, Goto, clear
<1>15. CASE streamStart
  BY <1>0, <1>15 DEF streamStart, controlVars, driverVars, readerVars, frameVars, eventVars, Goto
<1>16. CASE streamStartFails
  BY <1>0, <1>16 DEF streamStartFails, controlVars, driverVars, readerVars, frameVars, eventVars, Goto
<1>17. CASE startEnables
  BY <1>0, <1>17 DEF startEnables, controlVars, driverVars, readerVars, frameVars, eventVars, Goto, clear
<1>18. CASE startReturns
  BY <1>0, <1>18 DEF startReturns, controlVars, driverVars, readerVars, frameVars, eventVars, Goto
<1>19. CASE stopBegins
  BY <1>0, <1>19 DEF stopBegins, controlVars, driverVars, readerVars, frameVars, eventVars, Goto
<1>20. CASE stopDisables
  BY <1>0, <1>20 DEF stopDisables, controlVars, driverVars, readerVars, frameVars, eventVars, Goto, clear
<1>21. CASE streamStop
  BY <1>0, <1>21 DEF streamStop, controlVars, driverVars, readerVars, frameVars, eventVars, Goto
<1>22. CASE stopClears
  BY <1>0, <1>22 DEF stopClears, controlVars, driverVars, readerVars, frameVars, eventVars, Goto, clear
<1>23. CASE otherStream
  BY <1>0, <1>23 DEF otherStream, controlVars, driverVars, readerVars, frameVars, eventVars
<1>24. CASE UNCHANGED vars
  BY <1>0, <1>24 DEF vars, controlVars, driverVars, readerVars, frameVars, eventVars
<1> QED
  BY <1>1, <1>2, <1>3, <1>4, <1>5, <1>6, <1>7, <1>8, <1>9, <1>10, <1>11, <1>12, <1>13, <1>14, <1>15, <1>16, <1>17, <1>18, <1>19, <1>20, <1>21, <1>22, <1>23, <1>24
  DEF Next, DriverStep, ReaderStep, ReadStep, ControlStep

LEMMA NextOniInv == OniInv /\ [Next]_vars => OniInv'
<1> SUFFICES ASSUME OniInv, [Next]_vars PROVE OniInv'
  OBVIOUS
<1>1. Shape /\ Counted /\ HandsEmpty /\ FrameIsAnnounced /\ Quiet
  BY DEF OniInv, TypeOK, Counted
<1>2. Shape' /\ Counted' /\ HandsEmpty' /\ FrameIsAnnounced' /\ Quiet'
  BY <1>1, NextShape, NextCounted, NextHandsEmpty, NextFrameIsAnnounced, NextQuiet
<1>3. refCount' \in [Frames -> Nat]
  BY <1>2, CountedNatNext DEF NaturalCounts
<1> QED BY <1>2, <1>3 DEF OniInv, TypeOK, Counted

\* OniInv holds in every state of both specifications.
LEMMA OniInvariant == (Spec => []OniInv) /\ (StartedSpec => []OniInv)
<1>1. NextStarted => Next
  BY DEF NextStarted, Next
<1>2. Spec => []OniInv
  BY InitOniInv, NextOniInv, PTL DEF Spec
<1>3. StartedSpec => []OniInv
  BY <1>1, InitOniInv, NextOniInv, PTL DEF StartedSpec
<1> QED BY <1>2, <1>3

-----------------------------------------------------------------------------
\* Type correctness of frame delivery: no reference count becomes negative,
\* whatever the threads do (OniFrameManager.cpp, release).
THEOREM OniTypeCorrect == Spec => []TypeOK
<1>1. OniInv => TypeOK
  BY DEF OniInv
<1> QED BY <1>1, OniInvariant, PTL

\* The reference count of every frame is the number of its holders: a frame
\* is never returned to the pool while it is read, and none leaks.
THEOREM FramesAreCounted == Spec => []RefCountsExact
<1>1. OniInv => RefCountsExact
  BY DEF OniInv
<1> QED BY <1>1, OniInvariant, PTL

\* A frame in the holder always has its announcement (OniStreamFrameHolder
\* readFrame and processNewFrame), for any number of readers.
THEOREM FramesAreAnnounced == Spec => []FrameIsAnnounced
<1>1. OniInv => FrameIsAnnounced
  BY DEF OniInv
<1> QED BY <1>1, OniInvariant, PTL

\* VideoStream::stop leaves the holder empty when the sensor is the stream's
\* own and the driver waits for its callback.
THEOREM StopEmptiesHolder == Spec => []StoppedMeansEmpty
<1>1. OniInv => StoppedMeansEmpty
  BY DEF OniInv, Quiet, StoppedMeansEmpty
<1> QED BY <1>1, OniInvariant, PTL

-----------------------------------------------------------------------------
(***************************************************************************)
(* With two readers readFrame can return no frame at all.  With one, as in *)
(* DepthCameraOpenNI.py, it cannot: what the reader saw under the lock is  *)
(* still there, or replaced by a newer frame, when it comes back for it.   *)
(***************************************************************************)
SeesAFrame(r) ==
    /\ rpc[r] \in {"event", "take"} => m_pLastFrame # NoFrame
    /\ rpc[r] = "return" => rframe[r] # NoFrame

LoneReader ==
    /\ \A r \in Readers : rpc[r] # "app" => r \in waitingThreads
    /\ Lone => \A r \in Readers : SeesAFrame(r)

\* A reader's own step: the others, if no other ever read, are not in readFrame.
LEMMA LoneReaderStep ==
  ASSUME Shape, LoneReader, NEW r \in Readers, ReaderStep(r)
  PROVE  LoneReader'
<1>1. \A q \in Readers : q # r => rpc'[q] = rpc[q] /\ rframe'[q] = rframe[q]
  BY DEF Shape, ReaderStep, ReadStep, getThreadEvent, peekFrame, waitThreadEvent,
         waitForNewFrameEvent, readFrame, returnFrame, frameRelease, readerVars
<1>2. CASE frameRelease(r)
  BY <1>2 DEF Shape, LoneReader, Lone, SeesAFrame, frameRelease, driverVars, frameVars
<1>3. CASE ~frameRelease(r)
  <2>1. waitingThreads \subseteq waitingThreads' /\ r \in waitingThreads'
    BY <1>3 DEF Shape, LoneReader, ReaderStep, ReadStep, getThreadEvent, peekFrame,
       waitThreadEvent, waitForNewFrameEvent, readFrame, returnFrame, readerVars
  <2>2. \A q \in Readers : rpc'[q] # "app" => q \in waitingThreads'
    BY <1>1, <2>1 DEF LoneReader
  <2>3. ASSUME Lone' PROVE \A q \in Readers : SeesAFrame(q)'
    <3>1. Lone /\ \A q \in Readers : q # r => rpc'[q] = "app"
      BY <2>1, <2>2, <2>3 DEF Lone
    <3>2. SeesAFrame(r)
      BY <3>1 DEF LoneReader
    <3>3. SeesAFrame(r)'
      <4> USE DEF Shape, SeesAFrame, driverVars, readerVars, frameVars
      <4>1. CASE getThreadEvent(r)
        BY <4>1 DEF getThreadEvent
      <4>2. CASE peekFrame(r)
        BY <4>2 DEF peekFrame
      <4>3. CASE waitThreadEvent(r)
        BY <4>3 DEF waitThreadEvent
      <4>4. CASE waitForNewFrameEvent(r)
        BY <3>2, <4>4 DEF waitForNewFrameEvent
      <4>5. CASE readFrame(r)
        BY <3>2, <4>5 DEF readFrame
      <4>6. CASE returnFrame(r)
        BY <4>6 DEF returnFrame
      <4>7. QED
        BY <1>3, <4>1, <4>2, <4>3, <4>4, <4>5, <4>6 DEF ReaderStep, ReadStep
    <3>4. QED
      BY <3>1, <3>3 DEF SeesAFrame
  <2>4. QED
    BY <2>2, <2>3 DEF LoneReader
<1>4. QED
  BY <1>2, <1>3

\* The driver never empties the holder.
LEMMA LoneReaderKept ==
  ASSUME Shape, LoneReader, [NextStarted]_vars
  PROVE  LoneReader'
<1> USE DEF Shape, MaybeFrame, LoneReader, Lone, SeesAFrame
<1>1. ASSUME NEW f \in Frames, acquireFrame(f) PROVE LoneReader'
  BY <1>1 DEF acquireFrame, driverVars, readerVars, frameVars
<1>2. CASE stream_NewFrame
  BY <1>2, OniAssumption DEF stream_NewFrame, driverVars, readerVars, frameVars
<1>3. CASE processNewFrame
  BY <1>3, OniAssumption DEF processNewFrame, driverVars, readerVars, frameVars
<1>4. CASE raiseNewFrameEvent
  BY <1>4, OniAssumption DEF raiseNewFrameEvent, driverVars, readerVars, frameVars
<1>5. CASE onNewFrame
  BY <1>5, OniAssumption DEF onNewFrame, driverVars, readerVars, frameVars
<1>6. CASE releaseFrame
  BY <1>6, OniAssumption DEF releaseFrame, driverVars, readerVars, frameVars
<1>7. CASE \E r \in Readers : ReaderStep(r)
  BY <1>7, LoneReaderStep
<1>8. CASE UNCHANGED vars
  BY <1>8 DEF vars, driverVars, readerVars, frameVars
<1> QED
  BY <1>1, <1>2, <1>3, <1>4, <1>5, <1>6, <1>7, <1>8 DEF NextStarted, DriverStep

\* The only reader of a stream that stays started always gets a frame from
\* readFrame (OniStreamFrameHolder.cpp 36-61).
THEOREM LoneReaderAlwaysGetsAFrame == StartedSpec => []LoneReaderGetsAFrame
<1>1. InitStarted => LoneReader
  BY DEF InitStarted, LoneReader, SeesAFrame
<1>2. OniInv => Shape
  BY DEF OniInv, TypeOK
<1>3. Shape /\ LoneReader /\ [NextStarted]_vars => LoneReader'
  BY LoneReaderKept
<1>4. LoneReader => LoneReaderGetsAFrame
  BY DEF LoneReader, LoneReaderGetsAFrame, ReadReturnsAFrame, SeesAFrame
<1> QED
  BY <1>1, <1>2, <1>3, <1>4, OniInvariant, PTL DEF StartedSpec

-----------------------------------------------------------------------------
(***************************************************************************)
(* Refinement: every step is a step of the mailbox or changes none of its  *)
(* variables.  What needs the invariant is that a frame whose reference    *)
(* count is 0 is nobody's, and that a reader inside readFrame has none.    *)
(***************************************************************************)
StepOfMailbox == [Mailbox!MailboxNext]_(Mailbox!mailboxVars)

\* The variables of the mailbox, other than those a step of it names, stay.
LEMMA MailboxStutter ==
  ASSUME UNCHANGED <<dpc, dframe, m_pLastFrame, rframe>>
  PROVE  StepOfMailbox
  BY DEF StepOfMailbox, Mailbox!mailboxVars

\* Counting is what makes acquireFrame take a frame that nobody has.
LEMMA UncountedIsFree ==
  ASSUME OniInv, NEW f \in Frames, refCount[f] = 0
  PROVE  f # dframe /\ f # m_pLastFrame /\ \A r \in Readers : f # rframe[r]
<1>1. Cardinality(HoldersOf(f)) = 0
  BY DEF OniInv, RefCountsExact
<1>2. HoldersOf(f) = {}
  BY <1>1, HoldersFinite, FS_EmptySet
<1> QED
  BY <1>2, HoldersMember

LEMMA DriverUsesMailbox == ASSUME OniInv, DriverStep PROVE StepOfMailbox
<1> USE DEF StepOfMailbox, Mailbox!MailboxNext, Mailbox!mailboxVars
<1>1. ASSUME NEW f \in Frames, acquireFrame(f) PROVE StepOfMailbox
  <2>1. Mailbox!Free(f)
    BY <1>1, UncountedIsFree DEF acquireFrame, Mailbox!Free
  <2>2. dframe = NoFrame
    BY <1>1 DEF acquireFrame, OniInv, TypeOK, Shape
  <2>3. Mailbox!Fill(f)
    BY <1>1, <2>1, <2>2 DEF acquireFrame, readerVars, Mailbox!Fill
  <2> QED
    BY <2>3
<1>2. CASE stream_NewFrame
  BY <1>2 DEF stream_NewFrame, readerVars, frameVars, Mailbox!Skip
<1>3. CASE processNewFrame
  BY <1>3 DEF processNewFrame, readerVars, Mailbox!Post
<1>4. CASE raiseNewFrameEvent \/ onNewFrame
  BY <1>4 DEF raiseNewFrameEvent, onNewFrame, readerVars, frameVars
<1>5. CASE releaseFrame
  BY <1>5 DEF releaseFrame, readerVars, Mailbox!LetGo
<1> QED
  BY <1>1, <1>2, <1>3, <1>4, <1>5 DEF DriverStep

LEMMA ReadersUseMailbox ==
  ASSUME OniInv, NEW r \in Readers, ReaderStep(r) PROVE StepOfMailbox
<1>1. rframe \in [Readers -> MaybeFrame]
  BY DEF OniInv, TypeOK, Shape
<1>2. CASE readFrame(r)
  <2>1. rframe[r] = NoFrame
    BY <1>2 DEF readFrame, OniInv, HandsEmpty
  <2>2. CASE m_pLastFrame = NoFrame
    <3>1. rframe' = rframe /\ m_pLastFrame' = m_pLastFrame
      BY <1>1, <1>2, <2>1, <2>2 DEF readFrame
    <3> QED
      BY <1>2, <3>1, MailboxStutter DEF readFrame, driverVars
  <2>3. CASE m_pLastFrame # NoFrame
    <3>1. Mailbox!Take(r)
      BY <1>2, <2>1, <2>3 DEF readFrame, driverVars, Mailbox!Take
    <3> QED
      BY <3>1 DEF StepOfMailbox, Mailbox!MailboxNext
  <2> QED
    BY <2>2, <2>3
<1>3. CASE frameRelease(r)
  <2>1. Mailbox!GiveBack(r)
    BY <1>3 DEF frameRelease, driverVars, Mailbox!GiveBack
  <2> QED
    BY <2>1 DEF StepOfMailbox, Mailbox!MailboxNext
<1>4. CASE \/ getThreadEvent(r) \/ peekFrame(r) \/ waitThreadEvent(r)
           \/ waitForNewFrameEvent(r) \/ returnFrame(r)
  BY <1>4, MailboxStutter DEF getThreadEvent, peekFrame, waitThreadEvent,
     waitForNewFrameEvent, returnFrame, driverVars, frameVars
<1> QED
  BY <1>2, <1>3, <1>4 DEF ReaderStep, ReadStep

LEMMA ControlUsesMailbox == ASSUME ControlStep PROVE StepOfMailbox
<1>1. CASE startClears \/ startEnables \/ stopDisables \/ stopClears
  <2>1. m_pLastFrame' = NoFrame /\ UNCHANGED <<dpc, dframe, rframe>>
    BY <1>1 DEF startClears, startEnables, stopDisables, stopClears, clear,
       driverVars, readerVars
  <2>2. Mailbox!Clear
    BY <2>1 DEF Mailbox!Clear
  <2> QED
    BY <2>2 DEF StepOfMailbox, Mailbox!MailboxNext
<1>2. CASE \/ streamStart \/ streamStartFails \/ startReturns
           \/ stopBegins \/ streamStop \/ otherStream
  <2>1. UNCHANGED <<dpc, dframe, m_pLastFrame, rframe>>
    BY <1>2 DEF streamStart, streamStartFails, startReturns, stopBegins, streamStop,
       otherStream, driverVars, readerVars, frameVars
  <2> QED
    BY <2>1, MailboxStutter
<1> QED
  BY <1>1, <1>2 DEF ControlStep

LEMMA MailboxStep == OniInv /\ [Next]_vars => StepOfMailbox
<1>1. ASSUME UNCHANGED vars PROVE StepOfMailbox
  BY <1>1, MailboxStutter DEF vars, driverVars, readerVars, frameVars
<1> QED
  BY <1>1, DriverUsesMailbox, ReadersUseMailbox, ControlUsesMailbox DEF Next

LEMMA MailboxStart == Init \/ InitStarted => Mailbox!MailboxInit
  BY DEF Init, InitStarted, Mailbox!MailboxInit

\* A stream keeps the promise of FrameMailbox, started once or many times.
THEOREM OniImplementsMailbox ==
  (Spec => ImplementsMailbox) /\ (StartedSpec => ImplementsMailbox)
<1>1. NextStarted => Next
  BY DEF NextStarted, Next
<1>2. Spec => ImplementsMailbox
  BY MailboxStart, MailboxStep, OniInvariant, PTL
     DEF Spec, ImplementsMailbox, Mailbox!MailboxSpec, StepOfMailbox
<1>3. StartedSpec => ImplementsMailbox
  BY <1>1, MailboxStart, MailboxStep, OniInvariant, PTL
     DEF StartedSpec, ImplementsMailbox, Mailbox!MailboxSpec, StepOfMailbox
<1> QED BY <1>2, <1>3

-----------------------------------------------------------------------------
(* What the mailbox promises follows from the mailbox alone. *)

LEMMA OneOwnerStart == Mailbox!MailboxInit => Mailbox!OneOwner
  BY DEF Mailbox!MailboxInit, Mailbox!OneOwner

LEMMA OneOwnerStep ==
  Mailbox!OneOwner /\ StepOfMailbox /\ rframe \in [Readers -> MaybeFrame]
    => Mailbox!OneOwner'
<1> SUFFICES ASSUME Mailbox!OneOwner, StepOfMailbox, rframe \in [Readers -> MaybeFrame]
             PROVE  Mailbox!OneOwner'
  OBVIOUS
<1> USE DEF Mailbox!OneOwner
<1>1. ASSUME NEW f \in Frames, Mailbox!Fill(f) PROVE Mailbox!OneOwner'
  BY <1>1, OniAssumption DEF Mailbox!Fill, Mailbox!Free
<1>2. CASE Mailbox!Post
  BY <1>2 DEF Mailbox!Post
<1>3. CASE Mailbox!Skip
  BY <1>3 DEF Mailbox!Skip
<1>4. CASE Mailbox!LetGo
  BY <1>4 DEF Mailbox!LetGo
<1>5. CASE Mailbox!Clear
  BY <1>5 DEF Mailbox!Clear
<1>6. ASSUME NEW r \in Readers, Mailbox!Take(r) PROVE Mailbox!OneOwner'
  BY <1>6 DEF Mailbox!Take
<1>7. ASSUME NEW r \in Readers, Mailbox!GiveBack(r) PROVE Mailbox!OneOwner'
  BY <1>7 DEF Mailbox!GiveBack
<1>8. CASE UNCHANGED Mailbox!mailboxVars
  BY <1>8 DEF Mailbox!mailboxVars
<1> QED
  BY <1>1, <1>2, <1>3, <1>4, <1>5, <1>6, <1>7, <1>8 DEF StepOfMailbox, Mailbox!MailboxNext

\* The driver never fills a frame that the holder or a reader has, and no two
\* readers have the same: for every number of readers and frames.
THEOREM FramesHaveOneOwner == Spec => []Mailbox!OneOwner
<1>1. Init => Mailbox!OneOwner
  BY MailboxStart, OneOwnerStart
<1>2. OniInv /\ Mailbox!OneOwner /\ [Next]_vars => Mailbox!OneOwner'
  BY MailboxStep, OneOwnerStep DEF OniInv, TypeOK, Shape
<1> QED
  BY <1>1, <1>2, OniInvariant, PTL DEF Spec

-----------------------------------------------------------------------------
(***************************************************************************)
(* The safety half of "frames reach a reader".  A reader that waits behind *)
(* a frame for its own event has that event set, or the driver thread is   *)
(* on its way to set it: it registered before it looked, and consumes the  *)
(* event only to look again.                                               *)
(***************************************************************************)
WakeupPending ==
    \A r \in Readers :
        rpc[r] = "wait" /\ m_pLastFrame # NoFrame =>
            threadEvent[r] \/ dpc \in {"raise", "notify"}

Registered == \A r \in Readers : rpc[r] \in {"peek", "wait"} => r \in waitingThreads

WakeupInv == Registered /\ WakeupPending

LEMMA DriverKeepsWakeups == ASSUME Shape, WakeupInv, DriverStep PROVE WakeupInv'
<1> USE DEF Shape, WakeupInv, Registered, WakeupPending, driverVars, readerVars, frameVars, eventVars
<1>1. ASSUME NEW f \in Frames, acquireFrame(f) PROVE WakeupInv'
  BY <1>1 DEF acquireFrame
<1>2. CASE stream_NewFrame
  BY <1>2 DEF stream_NewFrame
<1>3. CASE processNewFrame
  BY <1>3 DEF processNewFrame
<1>4. CASE raiseNewFrameEvent
  BY <1>4 DEF raiseNewFrameEvent
<1>5. CASE onNewFrame
  BY <1>5 DEF onNewFrame
<1>6. CASE releaseFrame
  BY <1>6 DEF releaseFrame
<1> QED
  BY <1>1, <1>2, <1>3, <1>4, <1>5, <1>6 DEF DriverStep

LEMMA ReadersKeepWakeups ==
  ASSUME Shape, WakeupInv, NEW r \in Readers, ReaderStep(r) PROVE WakeupInv'
<1> USE DEF Shape, WakeupInv, Registered, WakeupPending, driverVars, frameVars, eventVars
<1>1. CASE getThreadEvent(r)
  BY <1>1 DEF getThreadEvent
<1>2. CASE peekFrame(r)
  BY <1>2 DEF peekFrame
<1>3. CASE waitThreadEvent(r)
  BY <1>3 DEF waitThreadEvent
<1>4. CASE waitForNewFrameEvent(r)
  BY <1>4 DEF waitForNewFrameEvent
<1>5. CASE readFrame(r)
  BY <1>5 DEF readFrame
<1>6. CASE returnFrame(r) \/ frameRelease(r)
  BY <1>6 DEF returnFrame, frameRelease
<1> QED
  BY <1>1, <1>2, <1>3, <1>4, <1>5, <1>6 DEF ReaderStep, ReadStep

LEMMA ControlKeepsWakeups == ASSUME WakeupInv, ControlStep PROVE WakeupInv'
<1>1. /\ UNCHANGED <<dpc, rpc, waitingThreads, threadEvent>>
      /\ m_pLastFrame' \in {m_pLastFrame, NoFrame}
  BY DEF ControlStep, startClears, startEnables, stopDisables, stopClears, clear, streamStart,
     streamStartFails, startReturns, stopBegins, streamStop, otherStream,
     driverVars, readerVars, frameVars, eventVars
<1> QED
  BY <1>1 DEF WakeupInv, Registered, WakeupPending

\* No wakeup is lost between waitForStreams and the callback, for any number of
\* readers, through starts and stops (OniContext.cpp 797-842 and 1128-1138).
THEOREM WakeupsAreKept == Spec => []WakeupPending
<1>1. Init => WakeupInv
  BY DEF Init, WakeupInv, Registered, WakeupPending
<1>2. OniInv /\ WakeupInv /\ [Next]_vars => WakeupInv'
  <2>1. OniInv => Shape
    BY DEF OniInv, TypeOK
  <2>2. ASSUME WakeupInv, UNCHANGED vars PROVE WakeupInv'
    BY <2>2 DEF WakeupInv, Registered, WakeupPending, vars, driverVars, readerVars,
       frameVars, eventVars
  <2> QED
    BY <2>1, <2>2, DriverKeepsWakeups, ReadersKeepWakeups, ControlKeepsWakeups DEF Next
<1>3. WakeupInv => WakeupPending
  BY DEF WakeupInv
<1> QED
  BY <1>1, <1>2, <1>3, OniInvariant, PTL DEF Spec
=============================================================================
