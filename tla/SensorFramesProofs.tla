------------------------- MODULE SensorFramesProofs -------------------------
(***************************************************************************)
(* For any number of frames, blocks and sizes: the buffers of a sensor's   *)
(* pool are exclusive, and only a buffer whose release crossed a change of *)
(* the size can have the wrong one.  PoolInv adds what a frame's life      *)
(* looks like and where buffers of an old size can be: not in the pool,    *)
(* and not with a release that is about to put it there, unless it is a    *)
(* stray.                                                                  *)
(*                                                                         *)
(* For frames of any number of packets, any numbering and any number of    *)
(* losses and calls: the driver uses that pool as FramePool says, every    *)
(* frame in use is known to somebody, and a frame that is delivered is     *)
(* whole.  SensorInv adds where each thread is when a frame has which      *)
(* user, and what a gap in the packets does to their numbers.              *)
(***************************************************************************)
EXTENDS SensorFrames, TLAPS

-----------------------------------------------------------------------------
(* The pool (FramePool). *)

\* A frame is acquired while the sensor is started, known to the sensor once it
\* has a buffer and until it is told otherwise, and released once.
LifeOK ==
    /\ started => required \in Sizes
    /\ \A f \in Frames : use[f] = "acquired" => started
    /\ releasing = NoFrame <=> step = "idle"
    /\ releasing \in Frames => use[releasing] = "used"
    /\ \A f \in current : use[f] = "used"
    /\ \A f \in Frames : use[f] = "used" /\ toPool[f] => f \in current

\* What is in the pool, or on its way there, has the size required.
PoolFits ==
    /\ \A b \in available : b \notin stray => size[b] = required
    /\ step = "func" /\ func /\ data[releasing] \notin stray =>
          size[data[releasing]] = required

PoolInv == PoolTypeOK /\ LifeOK /\ BuffersAreExclusive /\ PoolFits /\ StrayFramesOnly

USE DEF bufferVars, frameVars, releaseVars

\* In the first state nothing is allocated.
LEMMA PoolInitInv == PoolInit => PoolInv
BY PoolAssumption
DEF PoolInit, PoolInv, PoolTypeOK, LifeOK, BuffersAreExclusive, PoolFits, StrayFramesOnly, Owns

\* A release that has read freeBufferFunc still has the buffer of its frame.
LEMMA ReleasingOwns ==
    ASSUME PoolInv, step = "func"
    PROVE  releasing \in Frames /\ Owns(releasing) /\ data[releasing] \in Buffers \ available
PROOF
<1>1. releasing \in Frames /\ use[releasing] = "used"
  BY DEF PoolInv, PoolTypeOK, LifeOK
<1>2. Owns(releasing)
  BY <1>1 DEF Owns
<1>3. QED
  BY <1>1, <1>2 DEF PoolInv, BuffersAreExclusive

\* What each action does to the types and the lives of frames.
LEMMA StepLife ==
    ASSUME PoolInv, [PoolNext]_poolVars PROVE PoolTypeOK' /\ LifeOK'
PROOF
<1> USE PoolAssumption DEF PoolInv, PoolTypeOK, LifeOK
<1>1. CASE \E f \in Frames : acquireObject(f)
  BY <1>1 DEF acquireObject, First, FreeFrames
<1>2. ASSUME NEW f \in Frames, allocFrameBuffer(f) PROVE PoolTypeOK' /\ LifeOK'
  <2>1. required \in Sizes
    BY <1>2 DEF allocFrameBuffer
  <2>2. PICK b \in Buffers : (takeBuffer(b) \/ newBuffer(b)) /\ data' = [data EXCEPT ![f] = b]
    BY <1>2 DEF allocFrameBuffer
  <2>3. size' \in [Buffers -> Sizes \cup {0}] /\ available' \subseteq Buffers /\ stray' = stray
    <3>1. CASE takeBuffer(b)
      BY <3>1 DEF takeBuffer
    <3>2. CASE newBuffer(b)
      BY <2>1, <3>2 DEF newBuffer
    <3>3. QED
      BY <2>2, <3>1, <3>2
  <2>4. toPool' \in [Frames -> BOOLEAN]
    BY <1>2 DEF allocFrameBuffer
  <2>5. data' \in [Frames -> Buffers \cup {NoBuffer}]
    BY <2>2
  <2>6. use' \in [Frames -> {"free", "acquired", "used"}] /\ current' \subseteq Frames
    BY <1>2 DEF allocFrameBuffer
  <2>7. PoolTypeOK'
    BY <1>2, <2>3, <2>4, <2>5, <2>6 DEF allocFrameBuffer
  <2>8. LifeOK'
    BY <1>2, <2>1 DEF allocFrameBuffer
  <2>9. QED
    BY <2>7, <2>8
<1>3. CASE \E f \in Frames : release(f)
  BY <1>3 DEF release, Advance
<1>4. CASE freeBuffer
  <2>1. data[releasing] \in Buffers
    BY <1>4, ReleasingOwns DEF freeBuffer, Advance
  <2>2. size' \in [Buffers -> Sizes \cup {0}] /\ stray' \subseteq Buffers
    BY <1>4 DEF freeBuffer
  <2>3. available' \subseteq Buffers
    BY <1>4, <2>1 DEF freeBuffer
  <2>4. PoolTypeOK'
    BY <1>4, <2>2, <2>3 DEF freeBuffer, Advance
  <2>5. LifeOK'
    BY <1>4 DEF freeBuffer, Advance
  <2>6. QED
    BY <2>4, <2>5
<1>5. CASE backToPool
  BY <1>5 DEF backToPool, Advance
<1>6. ASSUME NEW n \in Sizes, start(n) PROVE PoolTypeOK' /\ LifeOK'
  <2>1. CASE n = required
    BY <1>6, <2>1 DEF start
  <2>2. CASE n # required
    <3>1. size' \in [Buffers -> Sizes \cup {0}] /\ available' = {} /\ current' = {}
      BY <1>6, <2>2 DEF start, releaseAllFrames
    <3>2. stray' \subseteq Buffers
      BY <1>6, <2>2, ReleasingOwns DEF start, releaseAllFrames
    <3>3. toPool' \in [Frames -> BOOLEAN]
      BY <1>6, <2>2 DEF start, releaseAllFrames
    <3>4. \A f \in Frames : toPool'[f] => toPool[f] /\ f \notin current
      BY <1>6, <2>2 DEF start, releaseAllFrames
    <3>5. PoolTypeOK'
      BY <1>6, <2>2, <3>1, <3>2, <3>3 DEF start
    <3>6. LifeOK'
      BY <1>6, <2>2, <3>1, <3>4 DEF start
    <3>7. QED
      BY <3>5, <3>6
  <2>3. QED
    BY <2>1, <2>2
<1>7. CASE stop
  BY <1>7 DEF stop
<1>8. CASE UNCHANGED poolVars
  BY <1>8 DEF poolVars
<1>9. QED
  BY <1>1, <1>2, <1>3, <1>4, <1>5, <1>6, <1>7, <1>8 DEF PoolNext, ReleaseStep

\* A buffer changes hands between the pool, a frame and the system, and is
\* with one of them after every action.
LEMMA StepExclusive ==
    ASSUME PoolInv, [PoolNext]_poolVars PROVE BuffersAreExclusive'
PROOF
<1> USE PoolAssumption DEF PoolInv, PoolTypeOK, LifeOK, BuffersAreExclusive, Owns
<1>1. CASE \E f \in Frames : acquireObject(f)
  BY <1>1 DEF acquireObject, First, FreeFrames
<1>2. ASSUME NEW f \in Frames, allocFrameBuffer(f), NEW b \in Buffers,
             takeBuffer(b) \/ newBuffer(b), data' = [data EXCEPT ![f] = b]
      PROVE  BuffersAreExclusive'
  <2>1. required \in Sizes /\ required # 0
    BY <1>2 DEF allocFrameBuffer
  <2>2. \A g \in Frames : Owns(g)' <=> Owns(g) \/ g = f
    BY <1>2 DEF allocFrameBuffer
  <2>3. \A g \in Frames : Owns(g) => g # f /\ data[g] # b
    BY <1>2 DEF allocFrameBuffer, takeBuffer, newBuffer, First, FreeBlocks
  <2>4. \A g \in Frames : data'[g] = IF g = f THEN b ELSE data[g]
    BY <1>2
  <2>5. CASE takeBuffer(b)
    BY <1>2, <2>2, <2>3, <2>4, <2>5 DEF takeBuffer
  <2>6. CASE newBuffer(b)
    BY <1>2, <2>1, <2>2, <2>3, <2>4, <2>6 DEF newBuffer, First, FreeBlocks
  <2>7. QED
    BY <1>2, <2>5, <2>6
<1>3. CASE \E f \in Frames : release(f)
  BY <1>3 DEF release, Advance
<1>4. CASE freeBuffer
  BY <1>4 DEF freeBuffer, Advance
<1>5. CASE backToPool
  BY <1>5 DEF backToPool, Advance
<1>6. CASE \E n \in Sizes : start(n)
  BY <1>6 DEF start, releaseAllFrames
<1>7. CASE stop
  BY <1>7 DEF stop
<1>8. CASE UNCHANGED poolVars
  BY <1>8 DEF poolVars
<1>9. QED
  BY <1>1, <1>2, <1>3, <1>4, <1>5, <1>6, <1>7, <1>8 DEF PoolNext, ReleaseStep, allocFrameBuffer

\* Sizes: the pool gives out what it holds, and a change of the size empties it.
LEMMA StepFits ==
    ASSUME PoolInv, [PoolNext]_poolVars PROVE PoolFits' /\ StrayFramesOnly'
PROOF
<1> USE PoolAssumption
    DEF PoolInv, PoolTypeOK, LifeOK, BuffersAreExclusive, PoolFits, StrayFramesOnly, Owns
<1>1. CASE \E f \in Frames : acquireObject(f)
  BY <1>1 DEF acquireObject, First, FreeFrames
<1>2. ASSUME NEW f \in Frames, allocFrameBuffer(f), NEW b \in Buffers,
             takeBuffer(b) \/ newBuffer(b), data' = [data EXCEPT ![f] = b]
      PROVE  PoolFits' /\ StrayFramesOnly'
  <2>1. \A g \in Frames : Owns(g) => g # f /\ data[g] # b
    BY <1>2 DEF allocFrameBuffer, takeBuffer, newBuffer, First, FreeBlocks
  <2>2. b \notin stray' => size'[b] = required
    BY <1>2 DEF allocFrameBuffer, takeBuffer, newBuffer
  <2>3. \A c \in Buffers : c # b => size'[c] = size[c]
    BY <1>2 DEF takeBuffer, newBuffer
  <2>4. available' \subseteq available /\ b \notin available' /\ stray' = stray
    BY <1>2 DEF takeBuffer, newBuffer
  <2>5. \A g \in Frames : data'[g] = IF g = f THEN b ELSE data[g]
    BY <1>2
  <2>6. step = "func" => releasing \in Frames /\ releasing # f /\ Owns(releasing)
    BY <1>2, ReleasingOwns DEF allocFrameBuffer
  <2>7. PoolFits'
    <3>1. required' = required /\ step' = step /\ func' = func /\ releasing' = releasing
      BY <1>2 DEF allocFrameBuffer
    <3>2. \A c \in available' : c \notin stray' => size'[c] = required
      BY <2>3, <2>4
    <3>3. step = "func" => data[releasing] # b /\ data'[releasing] = data[releasing]
                           /\ data[releasing] \in Buffers
      BY <2>1, <2>5, <2>6
    <3>4. step' = "func" /\ func' /\ data'[releasing'] \notin stray' =>
              size'[data'[releasing']] = required'
      <4>1. SUFFICES ASSUME step = "func", func, data[releasing] \notin stray
                     PROVE  size'[data[releasing]] = required
        BY <2>4, <3>1, <3>3
      <4>2. size[data[releasing]] = required
        BY <4>1
      <4>3. QED
        BY <2>3, <3>3, <4>1, <4>2
    <3>5. QED
      BY <3>1, <3>2, <3>4
  <2>8. \A g \in current' : Owns(g)' /\ g # f => g \in current /\ Owns(g)
    BY <1>2 DEF allocFrameBuffer
  <2>9. StrayFramesOnly'
    <3>1. required' = required
      BY <1>2 DEF allocFrameBuffer
    <3>2. ASSUME NEW g \in current', Owns(g)', data'[g] \notin stray'
          PROVE  size'[data'[g]] = required
      <4>1. CASE g = f
        BY <2>2, <2>5, <3>2, <4>1
      <4>2. CASE g # f
        <5>1. g \in current /\ Owns(g) /\ data[g] \in Buffers /\ data'[g] = data[g]
          BY <2>5, <2>8, <3>2, <4>2
        <5>2. size[data[g]] = required
          BY <2>4, <3>2, <5>1
        <5>3. QED
          BY <2>1, <2>3, <5>1, <5>2
      <4>3. QED
        BY <4>1, <4>2
    <3>3. QED
      BY <3>1, <3>2
  <2>10. QED
    BY <2>7, <2>9
<1>3. CASE \E f \in Frames : release(f)
  BY <1>3 DEF release, Advance
<1>4. CASE freeBuffer
  <2>1. releasing \in Frames /\ Owns(releasing) /\ data[releasing] \in Buffers \ available
    BY <1>4, ReleasingOwns DEF freeBuffer, Advance
  <2>2. \A g \in Frames : Owns(g)' => Owns(g) /\ data[g] # data[releasing]
    BY <1>4, <2>1 DEF freeBuffer, Advance
  <2>3. \A c \in Buffers : c # data[releasing] => size'[c] = size[c] /\ (c \in stray' <=> c \in stray)
    BY <1>4 DEF freeBuffer
  <2>4. StrayFramesOnly'
    BY <1>4, <2>2, <2>3 DEF freeBuffer
  <2>5. step' = "freed" /\ required' = required
    BY <1>4 DEF freeBuffer, Advance
  <2>6. \A b \in available' : b \notin stray' => size'[b] = required
    <3>1. CASE func
      <4>1. available' = available \cup {data[releasing]} /\ size' = size /\ stray' = stray
        BY <1>4, <3>1 DEF freeBuffer
      <4>2. data[releasing] \notin stray => size[data[releasing]] = required
        BY <1>4, <3>1 DEF freeBuffer, Advance
      <4>3. \A b \in available : b \notin stray => size[b] = required
        OBVIOUS
      <4>4. QED
        BY <4>1, <4>2, <4>3
    <3>2. CASE ~func
      <4>1. available' = available
        BY <1>4, <3>2 DEF freeBuffer
      <4>2. \A b \in available : b \in Buffers /\ b # data[releasing]
        BY <2>1
      <4>3. \A b \in available : b \notin stray => size[b] = required
        OBVIOUS
      <4>4. QED
        BY <2>3, <4>1, <4>2, <4>3
    <3>3. QED
      BY <3>1, <3>2
  <2>7. PoolFits'
    BY <2>5, <2>6
  <2>8. QED
    BY <2>4, <2>7
<1>5. CASE backToPool
  BY <1>5 DEF backToPool, Advance
<1>6. ASSUME NEW n \in Sizes, start(n) PROVE PoolFits' /\ StrayFramesOnly'
  <2>1. CASE n = required
    <3>1. required' = required /\ UNCHANGED <<bufferVars, frameVars, releaseVars>>
      BY <1>6, <2>1 DEF start
    <3>2. PoolFits'
      BY <3>1
    <3>3. StrayFramesOnly'
      BY <3>1
    <3>4. QED
      BY <3>2, <3>3
  <2>2. CASE n # required
    <3>1. available' = {} /\ current' = {}
      BY <1>6, <2>2 DEF start, releaseAllFrames
    <3>2. step = "func" /\ func => data[releasing] \in stray'
      BY <1>6, <2>2 DEF start, releaseAllFrames
    <3>3. QED
      BY <1>6, <3>1, <3>2 DEF start
  <2>3. QED
    BY <2>1, <2>2
<1>7. CASE stop
  BY <1>7 DEF stop
<1>8. CASE UNCHANGED poolVars
  BY <1>8 DEF poolVars
<1>9. QED
  BY <1>1, <1>2, <1>3, <1>4, <1>5, <1>6, <1>7, <1>8 DEF PoolNext, ReleaseStep, allocFrameBuffer

\* The invariant of the pool, whoever uses it in whatever order.
THEOREM PoolInvariant == PoolSpec => []PoolInv
PROOF
<1>1. PoolInit => PoolInv
  BY PoolInitInv
<1>2. PoolInv /\ [PoolNext]_poolVars => PoolInv'
  BY StepLife, StepExclusive, StepFits DEF PoolInv
<1>3. QED
  BY <1>1, <1>2, PTL DEF PoolSpec

\* No buffer has two users, and none is lost, for every pool.
THEOREM PoolBuffersAreExclusive == PoolSpec => []BuffersAreExclusive
BY PoolInvariant, PTL DEF PoolInv

\* Only a buffer whose release crossed a change of the size is of the wrong size.
THEOREM PoolStrayFramesOnly == PoolSpec => []StrayFramesOnly
BY PoolInvariant, PTL DEF PoolInv

-----------------------------------------------------------------------------
(* The driver's use of it (SensorFrames). *)

\* Where the frames of the processor are being filled; and where it has one.
Filling == {"on", "running", "replacing"}
HasWorking == Filling \cup {"opened", "unfinished", "closing"}

\* The frames that somebody uses, and nobody is releasing.
InHand ==
    held \cup dropped
      \cup (IF cpc = "closing" THEN {} ELSE {working} \ {NoFrame})
      \cup (IF dpc = "release" THEN {} ELSE {stable} \ {NoFrame})

\* The threads and the frames they work with.  A frame that is being acquired
\* is the reader's or the control thread's, never one of each.
ThreadsOK ==
    /\ dpc # "packet" => cpc \in {"on", "running"}
    /\ dpc = "packet" <=> stable = NoFrame
    /\ cpc \in HasWorking => working # NoFrame
    /\ dpc = "acquire" => working = stable
    /\ \A f \in Frames :
          use[f] = "acquired" => cpc \in {"configured", "replacing"} \/ dpc = "acquire"
    /\ \A f, g \in Frames : use[f] = "acquired" /\ use[g] = "acquired" => f = g
    /\ \A f \in InHand : use[f] = "used" /\ releasing # f
    /\ {working, stable} \cap dropped = {}

\* A call that opens the stream has been counted.
OpensOK ==
    cpc \in {"starting", "configured", "opened", "on"} \/ reopening = TRUE => opens > 0

\* A stable frame, which is not yet known to the application.
Shown == held \cup (IF dpc \in {"acquire", "callback"} THEN {stable} ELSE {})

Good(c) == c.kind = "unnoticed" \/ c = [n |-> 2 * P, kind |-> "whole"]

\* Once the processor has seen a number, the next one tells whether packets were
\* lost.  It has seen none when what comes first is the tail of a packet from
\* before the stream was closed, which then finds an empty frame.
NumbersTell ==
    /\ part = "head" /\ numbered =>
          IF gap = "none" THEN id = (lastId + 1) % IdMod ELSE id # lastId + 1
    /\ part = "tail" =>
          IF gap = "none" THEN numbered => id = lastId
                          ELSE ~numbered /\ mem[data[working]].n = 0

\* So a mixture is always noticed, but for number 0 and an unseen number.
ContentsOK ==
    /\ \A b \in Buffers : mem[b].kind # "mixed"
    /\ \A f \in Shown : Good(mem[data[f]])
    /\ cpc \in Filling => NumbersTell
    /\ cpc = "opened" => ~numbered /\ mem[data[working]].n = 0

SensorInv == PoolInv /\ TypeOK /\ OpensOK /\ ThreadsOK /\ FramesAreHeld /\ ContentsOK

USE DEF threadVars, controlVars, deviceVars, processorVars, clientVars, newProcessor

\* What the content of a block can be.
Contents == [n : 0 .. 2 * P, kind : Kinds]

\* The values that the driver starts a frame, and a processor, with.
LEMMA StartValues == Empty \in Contents /\ 0 \in Ids /\ 1 \in Positions
BY SensorAssumption DEF Contents, Kinds, Empty, Ids, Positions

\* In the first state no frame is in use.
LEMMA SensorInitInv == Init => SensorInv
PROOF
<1> SUFFICES ASSUME Init PROVE SensorInv
  OBVIOUS
<1>1. PoolInv
  BY PoolInitInv DEF Init
<1>2. TypeOK
  <2>1. mem \in [Buffers -> Contents]
    BY StartValues DEF Init
  <2>2. lastId \in Ids /\ pos \in Positions /\ id \in Ids
    BY StartValues DEF Init
  <2>3. opens \in 0 .. MaxOpens
    BY SensorAssumption DEF Init
  <2>4. QED
    BY <1>1, <2>1, <2>2, <2>3 DEF Init, TypeOK, PoolInv, ControlPoints, Contents
<1>3. OpensOK /\ ThreadsOK /\ FramesAreHeld /\ ContentsOK
  BY PoolAssumption
  DEF Init, PoolInit, OpensOK, ThreadsOK, InHand, HasWorking, Filling, FramesAreHeld, ContentsOK, Shown,
      Empty
<1>4. QED
  BY <1>1, <1>2, <1>3 DEF SensorInv

-----------------------------------------------------------------------------
(* The driver's use of the pool. *)

\* Every step of the driver is a step of the pool, or leaves it alone.
LEMMA StepUsesPool ==
    ASSUME SensorInv, [Next]_vars PROVE [PoolNext]_poolVars
PROOF
<1> USE DEF PoolNext
<1>1. working \in Frames \cup {NoFrame} /\ stable \in Frames \cup {NoFrame} /\ held \subseteq Frames
  BY DEF SensorInv, TypeOK
<1>2. CASE \E k \in 1 .. MaxBurst : losePackets(k)
  BY <1>2 DEF losePackets
<1>3. CASE processChunk
  BY <1>3 DEF processChunk
<1>4. CASE \E f \in Frames : acquireWorking(f) \/ replaceWorking(f)
  BY <1>4 DEF acquireWorking, replaceWorking
<1>5. CASE deliver
  BY <1>5 DEF deliver
<1>6. CASE releaseStable
  <2>1. stable \in Frames
    BY <1>1, <1>6 DEF releaseStable, SensorInv, ThreadsOK
  <2>2. QED
    BY <1>6, <2>1 DEF releaseStable, giveBack
<1>7. CASE stableReleased
  BY <1>7 DEF stableReleased
<1>8. CASE \E f \in Frames : acquireFirst(f) \/ createDataProcessor(f) \/ replaceFails(f)
  BY <1>8 DEF acquireFirst, createDataProcessor, replaceFails, NewWorking
<1>9. CASE openFails \/ closed \/ stopStranded
  BY <1>9 DEF openFails, closed, stopStranded
<1>10. CASE configureStream \/ streamOn \/ openDone \/ setOutputFormat
  BY <1>10 DEF configureStream, streamOn, openDone, setOutputFormat
<1>11. CASE releaseStep
  BY <1>11 DEF releaseStep
<1>12. CASE \E n \in Sizes : startStream(n)
  BY <1>12 DEF startStream
<1>13. CASE stopStream \/ \E n \in Sizes : setVideoMode(n)
  <2>1. closeStream /\ cpc \in {"running", "unfinished"}
    BY <1>13 DEF stopStream, setVideoMode
  <2>2. working \in Frames
    BY <1>1, <2>1 DEF SensorInv, ThreadsOK, HasWorking, Filling
  <2>3. QED
    BY <2>1, <2>2 DEF closeStream, giveBack
<1>14. CASE \E f \in Frames : releaseHeld(f)
  BY <1>14 DEF releaseHeld, giveBack
<1>15. CASE UNCHANGED vars
  BY <1>15 DEF vars
<1>16. QED
  BY <1>2, <1>3, <1>4, <1>5, <1>6, <1>7, <1>8, <1>9, <1>10, <1>11, <1>12, <1>13, <1>14, <1>15
  DEF Next, ReaderStep, ControlStep

\* So the invariant of the pool is kept.
LEMMA StepPool ==
    ASSUME SensorInv, [Next]_vars PROVE PoolInv'
PROOF
<1>1. PoolInv /\ [PoolNext]_poolVars
  BY StepUsesPool DEF SensorInv
<1>2. QED
  BY <1>1, StepLife, StepExclusive, StepFits DEF PoolInv

-----------------------------------------------------------------------------
(* Types. *)

\* What a chunk makes of the content of a block.
LEMMA AppendContents ==
    ASSUME NEW c \in Contents PROVE AppendChunk(c) \in Contents
BY SensorAssumption DEF Contents, Kinds, AppendChunk, Kind

\* The next number and the next place in a frame are in range.
LEMMA AdvanceInRange ==
    ASSUME pos \in Positions, id \in Ids, NEW k \in Nat, AdvanceDevice(k)
    PROVE  pos' \in Positions /\ id' \in Ids
BY SensorAssumption DEF AdvanceDevice, Positions, Ids

\* The variables of the driver keep their types.
LEMMA StepTypes ==
    ASSUME SensorInv, [Next]_vars PROVE TypeOK'
PROOF
<1>0. PoolTypeOK'
  BY StepPool DEF PoolInv
<1> USE SensorAssumption, PoolAssumption DEF TypeOK, ControlPoints
<1>1. TypeOK /\ mem \in [Buffers -> Contents] /\ data \in [Frames -> Buffers \cup {NoBuffer}]
  BY DEF SensorInv, Contents, PoolTypeOK
<1>2. CASE \E k \in 1 .. MaxBurst : losePackets(k)
  <2>1. PICK k \in 1 .. MaxBurst : losePackets(k)
    BY <1>2
  <2>2. pos' \in Positions /\ id' \in Ids
    BY <1>1, <2>1, AdvanceInRange DEF losePackets
  <2>3. gap' \in {"none", "some", "frame"}
    BY <2>1 DEF losePackets
  <2>4. QED
    BY <1>0, <1>1, <2>1, <2>2, <2>3 DEF losePackets
<1>3. CASE processChunk
  <2>1. pos' \in Positions /\ id' \in Ids /\ part' \in {"head", "tail"}
    BY <1>1, <1>3, AdvanceInRange DEF processChunk, readHead, readTail
  <2>2. lastId' \in Ids /\ numbered' \in BOOLEAN /\ gap' \in {"none", "some", "frame"}
    BY <1>1, <1>3 DEF processChunk, readHead, readTail
  <2> DEFINE before == IF FirstChunk THEN Empty ELSE mem[data[working]]
             content == IF FrameIsCorrupted THEN before ELSE AppendChunk(before)
  <2>3. ASSUME data[working] \in Buffers PROVE before \in Contents /\ content \in Contents
    BY <1>1, <2>3, StartValues, AppendContents
  <2>4. mem' = [mem EXCEPT ![data[working]] = content] \/ mem' = [mem EXCEPT ![data[working]] = Empty]
    BY <1>3 DEF processChunk, markStable, resetWriteBuffer
  <2>5. mem' \in [Buffers -> Contents]
    BY <1>1, <2>3, <2>4, StartValues
  <2>6. corrupted' \in BOOLEAN
    BY <1>3 DEF processChunk, markStable, resetWriteBuffer, FrameIsCorrupted, PacketLost
  <2>7. stable' \in {stable, working} /\ dpc' \in {dpc, "acquire"}
    BY <1>3 DEF processChunk, markStable, resetWriteBuffer
  <2>8. QED
    BY <1>0, <1>1, <1>3, <2>1, <2>2, <2>5, <2>6, <2>7 DEF processChunk, Contents
<1>4. CASE \E f \in Frames : acquireWorking(f) \/ replaceWorking(f)
  <2>1. PICK f \in Frames : acquireWorking(f) \/ replaceWorking(f)
    BY <1>4
  <2>2. CASE acquireWorking(f)
    BY <1>0, <1>1, <2>2 DEF acquireWorking, sensorVars
  <2>3. CASE replaceWorking(f)
    <3>1. mem' \in [Buffers -> Contents]
      BY <1>1, <2>3, StartValues DEF replaceWorking
    <3>2. QED
      BY <1>0, <1>1, <2>3, <3>1 DEF replaceWorking, Contents
  <2>4. QED
    BY <2>1, <2>2, <2>3
<1>5. CASE deliver
  <2>1. stable \in Frames
    BY <1>1, <1>5 DEF deliver, SensorInv, ThreadsOK
  <2>2. QED
    BY <1>0, <1>1, <1>5, <2>1 DEF deliver
<1>6. ASSUME NEW f \in Frames, giveBack(f) PROVE mem' \in [Buffers -> Contents]
  BY <1>1, <1>6, StartValues DEF giveBack
<1>7. CASE releaseStable
  <2>1. mem' \in [Buffers -> Contents]
    BY <1>1, <1>7, StartValues DEF releaseStable, giveBack
  <2>2. QED
    BY <1>0, <1>1, <1>7, <2>1 DEF releaseStable, Contents
<1>8. CASE stableReleased
  BY <1>0, <1>1, <1>8 DEF stableReleased
<1>9. CASE \E f \in Frames : acquireFirst(f)
  BY <1>0, <1>1, <1>9 DEF acquireFirst, sensorVars
<1>10. ASSUME NEW f \in Frames, NewWorking(f)
       PROVE  mem' \in [Buffers -> Contents] /\ dropped' \subseteq Frames /\ working' \in Frames
  BY <1>1, <1>10, StartValues DEF NewWorking
<1>11. CASE \E f \in Frames : createDataProcessor(f) \/ replaceFails(f)
  <2>1. PICK f \in Frames : createDataProcessor(f) \/ replaceFails(f)
    BY <1>11
  <2>2. CASE createDataProcessor(f)
    <3>1. /\ UNCHANGED <<mode, reopening, reader, actualRead, locked, failures, dpc, stable>>
          /\ UNCHANGED <<pos, id, part, gap, held, opens>>
      BY <2>2 DEF createDataProcessor
    <3>2. cpc' \in {"opened", "running"} /\ lastId' \in Ids /\ corrupted' = FALSE /\ numbered' = FALSE
      BY <2>2, StartValues DEF createDataProcessor
    <3>3. mem' \in [Buffers -> Contents] /\ dropped' \subseteq Frames /\ working' \in Frames
      BY <1>10, <2>2 DEF createDataProcessor
    <3>4. /\ cpc' \in ControlPoints /\ working' \in Frames \cup {NoFrame}
          /\ corrupted' \in BOOLEAN /\ numbered' \in BOOLEAN
      BY <3>2, <3>3
    <3>5. mem' \in [Buffers -> [n : 0 .. 2 * P, kind : Kinds]]
      BY <3>3 DEF Contents
    <3>6. QED
      BY <1>0, <1>1, <3>1, <3>2, <3>3, <3>4, <3>5
  <2>3. CASE replaceFails(f)
    BY <1>0, <1>1, <1>10, <2>3 DEF replaceFails, Contents
  <2>4. QED
    BY <2>1, <2>2, <2>3
<1>12. CASE openFails
  <2>1. opens' \in 0 .. MaxOpens
    BY <1>1, <1>12 DEF openFails, SensorInv, OpensOK
  <2>2. cpc' \in ControlPoints /\ failures' \subseteq {"open", "format"}
    BY <1>1, <1>12 DEF openFails
  <2>3. pos' \in Positions /\ id' \in Ids /\ part' \in {"head", "tail"}
    BY <1>1, <1>12, StartValues DEF openFails
  <2>4. mem' \in [Buffers -> Contents]
    BY <1>1, <1>12, StartValues DEF openFails
  <2>5. lastId' \in Ids /\ corrupted' = FALSE /\ numbered' = FALSE /\ gap' = "none"
    BY <1>12, StartValues DEF openFails
  <2>6. UNCHANGED <<mode, reader, actualRead, locked, dpc, working, stable, held, dropped>>
    BY <1>12 DEF openFails
  <2>7. reopening' = FALSE
    BY <1>12 DEF openFails
  <2>8. QED
    BY <1>0, <1>1, <2>1, <2>2, <2>3, <2>4, <2>5, <2>6, <2>7 DEF Contents
<1>13. CASE configureStream \/ streamOn \/ openDone \/ setOutputFormat \/ closed \/ stopStranded
  <2>1. CASE configureStream \/ openDone \/ setOutputFormat \/ closed \/ stopStranded
    <3>1. /\ UNCHANGED <<mode, locked, failures, dpc, stable, lastId, corrupted, numbered>>
          /\ UNCHANGED <<pos, id, part, gap, mem, held, dropped, opens>>
      BY <2>1 DEF configureStream, openDone, setOutputFormat, closed, stopStranded
    <3>2. /\ cpc' \in ControlPoints /\ reopening' \in BOOLEAN
          /\ reader' \in BOOLEAN /\ actualRead' \in BOOLEAN /\ working' \in {working, NoFrame}
      BY <1>1, <2>1 DEF configureStream, openDone, setOutputFormat, closed, stopStranded
    <3>3. QED
      BY <1>0, <1>1, <3>1, <3>2
  <2>2. CASE streamOn
    BY <1>0, <1>1, <2>2, StartValues DEF streamOn
  <2>3. QED
    BY <1>13, <2>1, <2>2
<1>14. CASE releaseStep
  BY <1>0, <1>1, <1>14 DEF releaseStep, sensorVars
<1>15. CASE \E n \in Sizes : startStream(n)
  <2>1. PICK n \in Sizes : startStream(n)
    BY <1>15
  <2>2. /\ UNCHANGED <<reader, actualRead, locked, failures, dpc, working, stable>>
        /\ UNCHANGED <<lastId, corrupted, numbered, pos, id, part, gap>>
        /\ UNCHANGED <<mem, held, dropped>>
        /\ mode' = n /\ cpc' = "starting" /\ reopening' = FALSE
    BY <2>1 DEF startStream
  <2>3. opens' \in 0 .. MaxOpens
    BY <1>1, <2>1 DEF startStream, AnotherOpen
  <2>4. mode' \in Sizes \cup {0} /\ cpc' \in ControlPoints /\ reopening' \in BOOLEAN
    BY <2>2
  <2>5. QED
    BY <1>0, <1>1, <2>2, <2>3, <2>4
<1>16. ASSUME closeStream
       PROVE  /\ mem' \in [Buffers -> Contents]
              /\ pos' \in Positions /\ id' \in Ids /\ lastId' \in Ids
              /\ corrupted' \in BOOLEAN /\ numbered' \in BOOLEAN /\ gap' = "none"
              /\ reader' \in BOOLEAN /\ actualRead' \in BOOLEAN
              /\ failures' \subseteq {"open", "format"}
  <2>1. mem' \in [Buffers -> Contents]
    BY <1>1, <1>16, StartValues DEF closeStream, giveBack
  <2>2. QED
    BY <1>1, <1>16, <2>1, StartValues DEF closeStream, stopReading
<1>17. CASE stopStream \/ \E n \in Sizes : setVideoMode(n)
  <2>1. closeStream
    BY <1>17 DEF stopStream, setVideoMode
  <2>2. /\ mode' \in Sizes \cup {0} /\ cpc' \in ControlPoints /\ reopening' \in BOOLEAN
        /\ opens' \in 0 .. MaxOpens
    <3>1. CASE stopStream
      BY <1>1, <3>1 DEF stopStream
    <3>2. CASE \E n \in Sizes : setVideoMode(n)
      BY <1>1, <3>2 DEF setVideoMode, AnotherOpen
    <3>3. QED
      BY <1>17, <3>1, <3>2
  <2>3. QED
    BY <1>0, <1>1, <1>16, <2>1, <2>2 DEF closeStream, Contents
<1>18. CASE \E f \in Frames : releaseHeld(f)
  BY <1>0, <1>1, <1>6, <1>18 DEF releaseHeld, Contents
<1>19. CASE UNCHANGED vars
  BY <1>0, <1>1, <1>19 DEF vars, sensorVars
<1>20. QED
  BY <1>2, <1>3, <1>4, <1>5, <1>7, <1>8, <1>9, <1>11, <1>12, <1>13, <1>14, <1>15, <1>17,
     <1>18, <1>19
  DEF Next, ReaderStep, ControlStep

\* A call is counted when it begins, and only when it fails it no longer counts.
LEMMA StepOpens ==
    ASSUME SensorInv, [Next]_vars PROVE OpensOK'
PROOF
<1> USE DEF OpensOK
<1>1. OpensOK /\ opens \in Nat
  BY SensorAssumption DEF SensorInv, TypeOK
<1>2. CASE UNCHANGED <<cpc, reopening, opens>>
  BY <1>1, <1>2
<1>3. CASE \E n \in Sizes : startStream(n) \/ setVideoMode(n)
  <2>1. opens' = opens + 1
    BY <1>3 DEF startStream, setVideoMode, AnotherOpen
  <2>2. QED
    BY <1>1, <2>1
<1>4. CASE openFails
  <2>1. cpc' \in {"closed", "stranded", "unfinished"} /\ reopening' = FALSE
    BY <1>4 DEF openFails
  <2>2. QED
    BY <2>1
<1>5. ASSUME UNCHANGED <<reopening, opens>>,
             \/ cpc' \notin {"starting", "configured", "opened", "on"}
             \/ cpc \in {"starting", "configured", "opened", "on"}
      PROVE  OpensOK'
  BY <1>1, <1>5
<1>6. CASE configureStream \/ streamOn \/ setOutputFormat \/ stopStream \/ stopStranded
  BY <1>5, <1>6 DEF configureStream, streamOn, setOutputFormat, stopStream, stopStranded
<1>7. CASE \E f \in Frames : createDataProcessor(f) \/ replaceFails(f)
  BY <1>5, <1>7 DEF createDataProcessor, replaceFails
<1>8. CASE openDone
  <2>1. cpc' = "running" /\ reopening' = FALSE
    BY <1>8 DEF openDone
  <2>2. QED
    BY <2>1
<1>9. CASE closed
  <2>1. UNCHANGED <<reopening, opens>> /\ (cpc' = "closed" \/ reopening = TRUE)
    BY <1>9 DEF closed, SensorInv, TypeOK
  <2>2. QED
    BY <1>1, <2>1
<1>10. CASE (\E k \in 1 .. MaxBurst : losePackets(k)) \/ ReaderStep \/ releaseStep
  BY <1>2, <1>10
  DEF losePackets, ReaderStep, processChunk, acquireWorking, replaceWorking, deliver,
      releaseStable, stableReleased, releaseStep, sensorVars
<1>11. CASE \E f \in Frames : acquireFirst(f) \/ releaseHeld(f)
  BY <1>2, <1>11 DEF acquireFirst, releaseHeld, sensorVars
<1>12. CASE UNCHANGED vars
  BY <1>2, <1>12 DEF vars, sensorVars
<1>13. QED
  BY <1>3, <1>4, <1>6, <1>7, <1>8, <1>9, <1>10, <1>11, <1>12 DEF Next, ControlStep

-----------------------------------------------------------------------------
(* Who has which frame. *)

\* Every frame keeps its user until it is given back or forgotten.
LEMMA StepHeld ==
    ASSUME SensorInv, [Next]_vars PROVE ThreadsOK' /\ FramesAreHeld'
PROOF
<1> USE PoolAssumption DEF ThreadsOK, InHand, HasWorking, Filling, FramesAreHeld
<1>1. /\ ThreadsOK /\ FramesAreHeld
      /\ working \in Frames \cup {NoFrame} /\ stable \in Frames \cup {NoFrame}
      /\ held \subseteq Frames /\ dropped \subseteq Frames
      /\ use \in [Frames -> {"free", "acquired", "used"}]
      /\ releasing \in Frames \cup {NoFrame}
      /\ releasing \in Frames => use[releasing] = "used"
  BY DEF SensorInv, TypeOK, PoolTypeOK, PoolInv, LifeOK
<1>2. CASE \E k \in 1 .. MaxBurst : losePackets(k)
  BY <1>1, <1>2 DEF losePackets, poolVars, frameVars, releaseVars
<1>3. CASE processChunk
  BY <1>1, <1>3 DEF processChunk, markStable, resetWriteBuffer, poolVars, frameVars, releaseVars
<1>4. ASSUME NEW f \in Frames, acquireWorking(f) PROVE ThreadsOK' /\ FramesAreHeld'
  <2>1. \A g \in Frames : /\ use'[g] = "used" <=> use[g] = "used"
                          /\ use'[g] = "acquired" <=> use[g] = "acquired" \/ g = f
    BY <1>1, <1>4 DEF acquireWorking, acquireObject, First, FreeFrames
  <2>2. /\ UNCHANGED <<working, stable, held, dropped, cpc, dpc, releasing>>
        /\ dpc = "acquire"
    BY <1>4 DEF acquireWorking, acquireObject, sensorVars, releaseVars
  <2>3. \A g \in Frames : use[g] # "acquired"
    BY <1>4 DEF acquireWorking, Acquiring
  <2>4. QED
    BY <1>1, <2>1, <2>2, <2>3
<1>5. ASSUME NEW f \in Frames, replaceWorking(f) PROVE ThreadsOK' /\ FramesAreHeld'
  <2>1. /\ UNCHANGED <<stable, held, dropped, cpc, releasing>>
        /\ dpc = "acquire" /\ dpc' = "callback" /\ working' = f /\ use[f] = "acquired"
    BY <1>5 DEF replaceWorking, allocFrameBuffer, clientVars, releaseVars
  <2>2. \A g \in Frames : use'[g] = IF g = f THEN "used" ELSE use[g]
    BY <1>1, <1>5 DEF replaceWorking, allocFrameBuffer
  <2>3. f \notin InHand /\ releasing # f /\ f # NoFrame
    BY <1>1, <2>1
  <2>4. \A g \in Frames : use'[g] # "acquired"
    BY <1>1, <2>1, <2>2
  <2>5. InHand' = InHand \cup {f}
    BY <1>1, <2>1
  <2>6. ThreadsOK'
    BY <1>1, <2>1, <2>2, <2>3, <2>4, <2>5
  <2>7. FramesAreHeld'
    BY <1>1, <2>1, <2>2, <2>3
  <2>8. QED
    BY <2>6, <2>7
<1>6. CASE deliver
  <2>1. /\ UNCHANGED <<use, releasing, working, dropped, cpc>>
        /\ dpc = "callback" /\ dpc' = "packet" /\ stable' = NoFrame /\ held' = held \cup {stable}
    BY <1>6 DEF deliver, poolVars, frameVars, releaseVars
  <2>2. stable # NoFrame /\ stable \in InHand /\ stable # working /\ stable \notin dropped
    BY <1>1, <2>1
  <2>3. InHand' = InHand
    BY <2>1, <2>2
  <2>4. ThreadsOK'
    <3>1. \A f \in InHand' : use'[f] = "used" /\ releasing' # f
      BY <1>1, <2>1, <2>3
    <3>2. {working', stable'} \cap dropped' = {}
      BY <1>1, <2>1
    <3>3. \A f \in Frames : use'[f] = "acquired" => cpc' \in {"configured", "replacing"}
      BY <1>1, <2>1
    <3>4. QED
      BY <1>1, <2>1, <3>1, <3>2, <3>3
  <2>5. FramesAreHeld'
    <3>1. \A f \in Frames : use'[f] = "used" =>
              f \in {working', stable', releasing'} \cup held' \cup dropped'
      BY <1>1, <2>1, <2>2
    <3>2. working' # NoFrame => working' # stable'
      BY <2>1
    <3>3. held' \cap ({working', stable'} \cup dropped') = {}
      BY <1>1, <2>1, <2>2
    <3>4. QED
      BY <3>1, <3>2, <3>3
  <2>6. QED
    BY <2>4, <2>5
<1>7. CASE releaseStable
  BY <1>1, <1>7 DEF releaseStable, giveBack, release, frameVars
<1>8. CASE stableReleased
  <2>1. /\ UNCHANGED <<use, releasing, working, held, dropped, cpc>>
        /\ dpc = "release" /\ dpc' = "packet" /\ stable' = NoFrame /\ use[stable] = "free"
    BY <1>8 DEF stableReleased, poolVars, frameVars, releaseVars
  <2>2. stable # NoFrame /\ stable \in Frames
    BY <1>1, <2>1
  <2>3. InHand' = InHand
    BY <2>1
  <2>4. ThreadsOK'
    <3>1. \A f \in InHand' : use'[f] = "used" /\ releasing' # f
      BY <1>1, <2>1, <2>3
    <3>2. {working', stable'} \cap dropped' = {}
      BY <1>1, <2>1
    <3>3. \A f \in Frames : use'[f] = "acquired" => cpc' \in {"configured", "replacing"}
      BY <1>1, <2>1
    <3>4. QED
      BY <1>1, <2>1, <3>1, <3>2, <3>3
  <2>5. FramesAreHeld'
    <3>1. \A f \in Frames : use'[f] = "used" =>
              f \in {working', stable', releasing'} \cup held' \cup dropped'
      BY <1>1, <2>1, <2>2
    <3>2. working' # NoFrame => working' # stable'
      BY <2>1
    <3>3. held' \cap ({working', stable'} \cup dropped') = {}
      BY <1>1, <2>1, <2>2
    <3>4. QED
      BY <3>1, <3>2, <3>3
  <2>6. QED
    BY <2>4, <2>5
<1>9. ASSUME NEW f \in Frames, acquireFirst(f) PROVE ThreadsOK' /\ FramesAreHeld'
  <2>1. \A g \in Frames : /\ use'[g] = "used" <=> use[g] = "used"
                          /\ use'[g] = "acquired" <=> use[g] = "acquired" \/ g = f
    BY <1>1, <1>9 DEF acquireFirst, acquireObject, First, FreeFrames
  <2>2. /\ UNCHANGED <<working, stable, held, dropped, cpc, dpc, releasing>>
        /\ cpc \in {"configured", "replacing"}
    BY <1>9 DEF acquireFirst, acquireObject, sensorVars, releaseVars
  <2>3. \A g \in Frames : use[g] # "acquired"
    BY <1>9 DEF acquireFirst, Acquiring
  <2>4. QED
    BY <1>1, <2>1, <2>2, <2>3
<1>10. ASSUME NEW f \in Frames, createDataProcessor(f) \/ replaceFails(f)
       PROVE  ThreadsOK' /\ FramesAreHeld'
  <2>1. /\ UNCHANGED <<stable, held, dpc, releasing>>
        /\ working' = f /\ use[f] = "acquired"
        /\ \/ cpc = "configured" /\ cpc' = "opened"
           \/ cpc = "replacing" /\ cpc' = "running"
        /\ dropped' = dropped \cup ({working} \ {NoFrame})
    BY <1>10 DEF createDataProcessor, replaceFails, NewWorking, allocFrameBuffer, releaseVars
  <2>2. \A g \in Frames : use'[g] = IF g = f THEN "used" ELSE use[g]
    BY <1>1, <1>10 DEF createDataProcessor, replaceFails, NewWorking, allocFrameBuffer
  <2>3. f \notin InHand /\ releasing # f /\ f # NoFrame
    BY <1>1, <2>1
  <2>4. \A g \in Frames : use'[g] # "acquired"
    BY <1>1, <2>1, <2>2
  <2>5. InHand' = InHand \cup {f}
    BY <1>1, <2>1
  <2>6. ThreadsOK'
    BY <1>1, <2>1, <2>2, <2>3, <2>4, <2>5
  <2>7. FramesAreHeld'
    <3>1. \A g \in Frames : use'[g] = "used" =>
              g \in {working', stable', releasing'} \cup held' \cup dropped'
      BY <1>1, <2>1, <2>2
    <3>2. working' # stable' /\ f \notin held /\ f \notin dropped
      BY <1>1, <2>1, <2>3
    <3>3. held' \cap ({working', stable'} \cup dropped') = {}
      BY <1>1, <2>1, <2>3, <3>2
    <3>4. QED
      BY <2>1, <3>1, <3>2, <3>3
  <2>8. QED
    BY <2>6, <2>7
<1>11. CASE openFails
  <2>1. UNCHANGED <<use, releasing, working, stable, held, dropped, dpc>>
    BY <1>11 DEF openFails, stop, poolVars, frameVars, releaseVars
  <2>2. /\ dpc = "packet" /\ (\A f \in Frames : use[f] # "acquired")
        /\ cpc' \in {"closed", "stranded"} \/ (cpc = "opened" /\ cpc' = "unfinished")
        /\ cpc # "closing"
    BY <1>11 DEF openFails, Acquiring
  <2>3. QED
    BY <1>1, <2>1, <2>2
<1>12. CASE closed \/ stopStranded
  <2>1. UNCHANGED <<use, releasing, stable, held, dropped, dpc>>
    BY <1>12 DEF closed, stopStranded, stop, poolVars, frameVars, releaseVars
  <2>2. \/ cpc = "closing" /\ working' = NoFrame /\ cpc' \in {"closed", "starting"}
        \/ cpc = "stranded" /\ cpc' = "closed" /\ working' = working
    BY <1>12 DEF closed, stopStranded
  <2>3. InHand' = InHand
    BY <2>1, <2>2
  <2>4. ThreadsOK'
    BY <1>1, <2>1, <2>2, <2>3
  <2>5. FramesAreHeld'
    <3>1. cpc = "closing" => use[working] = "free" /\ working # NoFrame
      BY <1>1, <1>12 DEF closed, stopStranded
    <3>2. QED
      BY <1>1, <2>1, <2>2, <3>1
  <2>6. QED
    BY <2>4, <2>5
<1>13. CASE configureStream \/ streamOn \/ openDone \/ setOutputFormat
  <2>1. UNCHANGED <<use, releasing, working, stable, held, dropped, dpc>>
    BY <1>13
    DEF configureStream, streamOn, openDone, setOutputFormat, poolVars, frameVars, releaseVars
  <2>2. \/ cpc = "starting" /\ cpc' = "configured"
        \/ cpc = "opened" /\ cpc' = "on"
        \/ cpc = "on" /\ cpc' = "running"
        \/ cpc = "running" /\ cpc' = "replacing" /\ dpc = "packet"
    BY <1>13 DEF configureStream, streamOn, openDone, setOutputFormat
  <2>3. QED
    BY <1>1, <2>1, <2>2
<1>14. CASE releaseStep
  BY <1>1, <1>14 DEF releaseStep, ReleaseStep, freeBuffer, backToPool, Advance, sensorVars, frameVars
<1>15. CASE \E n \in Sizes : startStream(n)
  BY <1>1, <1>15 DEF startStream, start, releaseVars
<1>16. CASE stopStream \/ \E n \in Sizes : setVideoMode(n)
  <2>1. /\ UNCHANGED <<use, working, stable, held, dropped, dpc>>
        /\ releasing = NoFrame /\ releasing' = working /\ dpc = "packet"
        /\ cpc \in {"running", "unfinished"} /\ cpc' = "closing"
    BY <1>16 DEF stopStream, setVideoMode, closeStream, giveBack, release, frameVars
  <2>2. InHand' = InHand \ {working}
    BY <1>1, <2>1
  <2>3. ThreadsOK'
    BY <1>1, <2>1, <2>2
  <2>4. FramesAreHeld'
    BY <1>1, <2>1
  <2>5. QED
    BY <2>3, <2>4
<1>17. ASSUME NEW f \in Frames, releaseHeld(f) PROVE ThreadsOK' /\ FramesAreHeld'
  BY <1>1, <1>17 DEF releaseHeld, giveBack, release, frameVars
<1>18. CASE UNCHANGED vars
  BY <1>1, <1>18 DEF vars, poolVars, sensorVars, frameVars, releaseVars
<1>19. QED
  BY <1>2, <1>3, <1>4, <1>5, <1>6, <1>7, <1>8, <1>9, <1>10, <1>11, <1>12, <1>13, <1>14, <1>15,
     <1>16, <1>17, <1>18
  DEF Next, ReaderStep, ControlStep

-----------------------------------------------------------------------------
(* What the frames show. *)

\* A number plus what was lost, less than all numbers, is another number.
LEMMA GapShows ==
    ASSUME NEW a \in Ids, NEW k \in 1 .. MaxBurst
    PROVE  (((a + 1) % IdMod) + k) % IdMod # a + 1
PROOF
<1> DEFINE m == IdMod
           y == (a + 1) % m
<1>1. m \in Nat \ {0} /\ a \in 0 .. m - 1 /\ k \in 1 .. m - 1
  BY SensorAssumption DEF Ids
<1>2. \A x \in Nat : x < m => x % m = x
  BY <1>1
<1>3. \A x \in Nat : m <= x /\ x < m + m => x % m = x - m
  BY <1>1
<1>4. CASE a + 1 < m
  <2>1. y = a + 1
    BY <1>1, <1>2, <1>4
  <2>2. (y + k) % m = y + k \/ (y + k) % m = y + k - m
    BY <1>1, <1>2, <1>3, <1>4, <2>1
  <2>3. QED
    BY <1>1, <2>1, <2>2
<1>5. CASE a + 1 = m
  <2>1. y = 0
    BY <1>1, <1>3, <1>5
  <2>2. (y + k) % m = k
    BY <1>1, <1>2, <2>1
  <2>3. QED
    BY <1>1, <1>5, <2>2
<1>6. QED
  BY <1>1, <1>4, <1>5

\* Frames in hand have buffers of their own; the frames shown are in hand, and
\* so is the frame that is being filled.
LEMMA HandsAreApart ==
    ASSUME SensorInv
    PROVE  /\ \A f \in InHand : f \in Frames /\ Owns(f) /\ data[f] \in Buffers
           /\ \A f, g \in InHand : data[f] = data[g] => f = g
           /\ Shown \subseteq InHand
           /\ cpc \in Filling \cup {"opened"} => working \in InHand
PROOF
<1>1. InHand \subseteq Frames
  BY DEF SensorInv, TypeOK, InHand
<1>2. \A f \in InHand : Owns(f)
  BY DEF SensorInv, ThreadsOK, Owns
<1>3. \A f \in InHand : data[f] \in Buffers
  BY <1>1, <1>2 DEF SensorInv, PoolInv, BuffersAreExclusive
<1>4. \A f, g \in InHand : data[f] = data[g] => f = g
  BY <1>1, <1>2 DEF SensorInv, PoolInv, BuffersAreExclusive
<1>5. Shown \subseteq InHand
  BY DEF SensorInv, ThreadsOK, Shown, InHand
<1>6. cpc \in Filling \cup {"opened"} => working \in InHand
  BY DEF SensorInv, ThreadsOK, InHand, HasWorking, Filling
<1>7. QED
  BY <1>1, <1>2, <1>3, <1>4, <1>5, <1>6

\* The buffer of a new frame is nobody's.
LEMMA NewBufferIsFree ==
    ASSUME SensorInv, NEW f \in Frames, allocFrameBuffer(f)
    PROVE  /\ data'[f] \in Buffers
           /\ \A g \in InHand : g # f /\ data'[g] = data[g] /\ data[g] # data'[f]
PROOF
<1>1. PICK b \in Buffers : (takeBuffer(b) \/ newBuffer(b)) /\ data' = [data EXCEPT ![f] = b]
  BY DEF allocFrameBuffer
<1>2. data \in [Frames -> Buffers \cup {NoBuffer}] /\ BuffersAreExclusive
  BY DEF SensorInv, PoolInv, PoolTypeOK
<1>3. \A g \in InHand : g \in Frames /\ Owns(g) /\ g # f
  BY HandsAreApart DEF allocFrameBuffer, Owns
<1>4. \A g \in InHand : data[g] # b
  BY <1>1, <1>2, <1>3 DEF BuffersAreExclusive, takeBuffer, newBuffer, First, FreeBlocks
<1>5. QED
  BY <1>1, <1>2, <1>3, <1>4

\* A step that leaves the blocks, their frames and the numbers alone.
LEMMA SameContents ==
    ASSUME SensorInv, mem' = mem, data' = data, Shown' \subseteq Shown,
           \/ cpc' \notin Filling \cup {"opened"}
           \/ /\ cpc' = cpc \/ {cpc, cpc'} \subseteq Filling
              /\ UNCHANGED <<working, gap, id, lastId, numbered, part>>
    PROVE  ContentsOK'
BY DEF SensorInv, ContentsOK, NumbersTell, Filling

\* Giving back a frame clears the block of no other frame in hand.
LEMMA GiveBackContents ==
    ASSUME SensorInv, NEW f \in InHand, giveBack(f), Shown' \subseteq Shown \ {f},
           \/ cpc' \notin Filling \cup {"opened"}
           \/ f # working /\ UNCHANGED <<cpc, working, gap, id, lastId, numbered, part>>
    PROVE  ContentsOK'
PROOF
<1>1. data' = data /\ mem' = [mem EXCEPT ![data[f]] = Empty]
  BY DEF giveBack, release, frameVars
<1>2. mem \in [Buffers -> Contents] /\ ContentsOK
  BY DEF SensorInv, TypeOK, Contents
<1>3. \A g \in InHand : g # f => mem'[data[g]] = mem[data[g]]
  BY <1>1, <1>2, HandsAreApart
<1>4. \A b \in Buffers : mem'[b].kind # "mixed"
  BY <1>1, <1>2 DEF ContentsOK, Empty
<1>5. \A g \in Shown' : Good(mem'[data'[g]])
  BY <1>1, <1>2, <1>3, HandsAreApart DEF ContentsOK
<1>6. cpc' \in Filling \cup {"opened"} => mem'[data'[working']] = mem[data[working]]
  BY <1>1, <1>3, HandsAreApart
<1>7. QED
  BY <1>2, <1>4, <1>5, <1>6 DEF ContentsOK, NumbersTell

\* A new frame is empty, and so may be the one it replaces.
LEMMA NewFrameContents ==
    ASSUME SensorInv, NEW f \in Frames, allocFrameBuffer(f), working' = f,
           Shown' \subseteq Shown, mem' \in [Buffers -> Contents],
           mem'[data'[f]] = Empty,
           \A b \in Buffers : mem'[b] \in {mem[b], Empty},
           \A g \in Shown' : data[g] # data'[f] => mem'[data[g]] = mem[data[g]],
           \/ UNCHANGED part /\ numbered' = FALSE
           \/ {cpc, cpc'} \subseteq Filling /\ UNCHANGED <<gap, id, lastId, numbered, part>>
    PROVE  ContentsOK'
PROOF
<1>1. \A b \in Buffers : mem'[b].kind # "mixed"
  BY DEF SensorInv, ContentsOK, Empty
<1>2. \A g \in Shown' : Good(mem'[data'[g]])
  BY NewBufferIsFree, HandsAreApart DEF SensorInv, ContentsOK
<1>3. mem'[data'[working']].n = 0
  BY DEF Empty
<1>4. cpc' \in Filling => NumbersTell'
  BY <1>3 DEF SensorInv, ContentsOK, NumbersTell
<1>5. cpc' = "opened" => ~numbered'
  BY DEF Filling
<1>6. QED
  BY <1>1, <1>2, <1>3, <1>4, <1>5 DEF ContentsOK

\* The numbers tell as much after a chunk as before it.
LEMMA ChunkNumbers ==
    ASSUME SensorInv, processChunk PROVE NumbersTell'
PROOF
<1>1. NumbersTell
  BY DEF SensorInv, ContentsOK, processChunk, Filling
<1>2. CASE readHead
  BY <1>2 DEF readHead, NumbersTell
<1>3. CASE readTail
  BY <1>1, <1>3 DEF readTail, NumbersTell, AdvanceDevice
<1>4. QED
  BY <1>2, <1>3 DEF processChunk

\* A chunk: what is appended shows, or what is missing before it is noticed.
LEMMA ChunkContents ==
    ASSUME SensorInv, processChunk PROVE ContentsOK'
PROOF
<1> DEFINE before == IF FirstChunk THEN Empty ELSE mem[data[working]]
           content == IF FrameIsCorrupted THEN before ELSE AppendChunk(before)
<1>1. /\ cpc \in {"on", "running"} /\ dpc = "packet" /\ data' = data
      /\ UNCHANGED <<cpc, working, held>>
  BY DEF processChunk, poolVars, frameVars
<1>2. /\ mem \in [Buffers -> Contents] /\ ContentsOK /\ NumbersTell
      /\ working \in InHand /\ data[working] \in Buffers
      /\ id \in Ids /\ gap \in {"none", "some", "frame"} /\ part \in {"head", "tail"}
  BY <1>1, HandsAreApart DEF SensorInv, TypeOK, Contents, ContentsOK, Filling
<1>3. before \in Contents /\ content \in Contents
  BY <1>2, StartValues, AppendContents
<1>4. before.kind # "mixed"
  BY <1>2 DEF ContentsOK, Empty
<1>5. content.kind # "mixed"
  <2>1. CASE FrameIsCorrupted
    BY <1>4, <2>1
  <2>2. CASE ~FrameIsCorrupted /\ FirstChunk
    <3>1. Kind(before) = before.kind
      BY <2>2 DEF Kind
    <3>2. QED
      BY <1>4, <2>2, <3>1 DEF AppendChunk
  <2>3. CASE ~FrameIsCorrupted /\ ~FirstChunk
    <3>1. part = "head" => ~PacketLost
      BY <2>3 DEF FrameIsCorrupted
    <3>2. gap = "frame" /\ before.n > 0 /\ numbered => id = 0
      <4>1. part = "tail" /\ gap = "frame" => before.n = 0
        BY <1>2, <2>3 DEF NumbersTell
      <4>2. part = "head" /\ gap = "frame" /\ numbered => id = 0
        BY <1>2, <3>1 DEF NumbersTell, PacketLost
      <4>3. QED
        BY <1>2, <4>1, <4>2
    <3>3. Kind(before) # "mixed"
      BY <1>4, <2>3, <3>2 DEF Kind
    <3>4. QED
      BY <2>3, <3>3 DEF AppendChunk
  <2>4. QED
    BY <2>1, <2>2, <2>3
<1>6. \/ mem' = [mem EXCEPT ![data[working]] = content]
      \/ mem' = [mem EXCEPT ![data[working]] = Empty]
  BY DEF processChunk, markStable, resetWriteBuffer
<1>7. \A b \in Buffers : mem'[b].kind # "mixed"
  BY <1>2, <1>5, <1>6 DEF ContentsOK, Empty
<1>8. \A g \in held : Good(mem'[data[g]])
  <2>1. \A g \in held : g \in InHand /\ g # working /\ g \in Shown
    BY DEF InHand, Shown, SensorInv, FramesAreHeld
  <2>2. \A g \in held : data[g] # data[working] /\ data[g] \in Buffers
    BY <1>2, <2>1, HandsAreApart
  <2>3. QED
    BY <1>2, <1>6, <2>1, <2>2 DEF ContentsOK
<1>9. \A g \in Shown' : Good(mem'[data'[g]])
  <2>1. CASE dpc' = "packet"
    BY <1>1, <1>8, <2>1 DEF Shown
  <2>2. CASE dpc' # "packet"
    <3>1. SizeFits(content) /\ markStable(content)
      BY <1>1, <2>2 DEF processChunk, resetWriteBuffer
    <3>2. /\ content.kind \in {"whole", "unnoticed"}
          /\ content.kind = "whole" => content.n = 2 * P
      BY <1>3, <1>5, <3>1 DEF SizeFits, Contents, Kinds
    <3>3. Good(content)
      BY <1>3, <3>2 DEF Good, Contents
    <3>4. mem'[data[working]] = content /\ Shown' = held \cup {working}
      BY <1>1, <1>2, <3>1 DEF markStable, Shown
    <3>5. QED
      BY <1>1, <1>8, <3>3, <3>4
  <2>3. QED
    BY <2>1, <2>2
<1>10. QED
  BY <1>1, <1>7, <1>9, ChunkNumbers DEF ContentsOK

\* What the application is shown stays what it was, and was whole.
LEMMA StepContents ==
    ASSUME SensorInv, [Next]_vars PROVE ContentsOK'
PROOF
<1> USE DEF Shown
<1>1. ContentsOK /\ ThreadsOK /\ FramesAreHeld /\ TypeOK
  BY DEF SensorInv
<1>2. CASE \E k \in 1 .. MaxBurst : losePackets(k)
  <2>1. PICK k \in 1 .. MaxBurst : losePackets(k)
    BY <1>2
  <2>2. /\ gap = "none" /\ gap' # "none" /\ id' = (id + k) % IdMod /\ part = "head"
        /\ UNCHANGED <<mem, data, cpc, dpc, working, stable, held, lastId, numbered, part>>
        /\ cpc = "running"
    BY <2>1 DEF losePackets, AdvanceDevice, poolVars, frameVars
  <2>3. numbered => id' # lastId + 1
    BY <1>1, <2>2, GapShows DEF ContentsOK, NumbersTell, Filling, TypeOK
  <2>4. QED
    BY <1>1, <2>2, <2>3 DEF ContentsOK, NumbersTell
<1>3. CASE processChunk
  BY <1>3, ChunkContents
<1>4. CASE \E f \in Frames : acquireWorking(f)
  BY <1>4, SameContents DEF acquireWorking, acquireObject, sensorVars
<1>5. CASE \E f \in Frames : replaceWorking(f)
  <2>1. PICK f \in Frames : replaceWorking(f)
    BY <1>5
  <2>2. mem' = [mem EXCEPT ![data'[f]] = Empty] /\ allocFrameBuffer(f) /\ working' = f
    BY <2>1 DEF replaceWorking
  <2>3. mem \in [Buffers -> Contents] /\ data'[f] \in Buffers
    BY <1>1, <2>2, NewBufferIsFree DEF TypeOK, Contents
  <2>4. Shown' \subseteq Shown
    BY <2>1 DEF replaceWorking
  <2>5. \A g \in Shown' : data[g] \in Buffers
    BY <2>4, HandsAreApart
  <2>6. mem' \in [Buffers -> Contents] /\ mem'[data'[f]] = Empty
    BY <2>2, <2>3, StartValues
  <2>7. \A b \in Buffers : mem'[b] = IF b = data'[f] THEN Empty ELSE mem[b]
    BY <2>2, <2>3
  <2>8. cpc \in Filling /\ UNCHANGED <<cpc, gap, id, lastId, numbered, part>>
    BY <1>1, <2>1 DEF replaceWorking, ThreadsOK, Filling
  <2>9. /\ \A b \in Buffers : mem'[b] \in {mem[b], Empty}
        /\ \A g \in Shown' : data[g] # data'[f] => mem'[data[g]] = mem[data[g]]
    BY <2>5, <2>7
  <2>10. {cpc, cpc'} \subseteq Filling
    BY <2>8
  <2>11. QED
    BY <2>2, <2>4, <2>6, <2>8, <2>9, <2>10, NewFrameContents
<1>6. CASE deliver
  BY <1>6, SameContents DEF deliver, poolVars, frameVars
<1>7. CASE releaseStable
  <2>1. stable \in InHand /\ stable \notin held /\ stable # working
    BY <1>1, <1>7 DEF releaseStable, ThreadsOK, FramesAreHeld, InHand, TypeOK
  <2>2. QED
    BY <1>7, <2>1, GiveBackContents DEF releaseStable
<1>8. CASE stableReleased
  BY <1>8, SameContents DEF stableReleased, poolVars, frameVars
<1>9. CASE \E f \in Frames : acquireFirst(f)
  BY <1>9, SameContents DEF acquireFirst, acquireObject, sensorVars
<1>10. CASE \E f \in Frames : createDataProcessor(f) \/ replaceFails(f)
  <2>1. PICK f \in Frames : createDataProcessor(f) \/ replaceFails(f)
    BY <1>10
  <2>2. /\ mem' = [b \in Buffers |->
                     IF b = data'[f] \/ (working # NoFrame /\ b = data[working])
                     THEN Empty ELSE mem[b]]
        /\ allocFrameBuffer(f) /\ working' = f /\ cpc \in {"configured", "replacing"}
    BY <2>1 DEF createDataProcessor, replaceFails, NewWorking
  <2>3. data'[f] \in Buffers
    BY <2>2, NewBufferIsFree
  <2>4. Shown' = held /\ Shown = held
    BY <1>1, <2>1, <2>2 DEF createDataProcessor, replaceFails, ThreadsOK
  <2>5. mem \in [Buffers -> Contents]
    BY <1>1 DEF TypeOK, Contents
  <2>6. mem' \in [Buffers -> Contents] /\ mem'[data'[f]] = Empty
    BY <2>2, <2>3, <2>5, StartValues
  <2>7. working # NoFrame => working \in InHand /\ working \notin held
    BY <1>1, <2>2 DEF FramesAreHeld, InHand
  <2>8. \A g \in held : data[g] \in Buffers /\ (working # NoFrame => data[g] # data[working])
    BY <2>4, <2>7, HandsAreApart
  <2>9. \A g \in held : data[g] # data'[f] => mem'[data[g]] = mem[data[g]]
    BY <2>2, <2>8
  <2>10. \A b \in Buffers : mem'[b] \in {mem[b], Empty}
    BY <2>2
  <2>11. \/ UNCHANGED part /\ numbered' = FALSE
         \/ {cpc, cpc'} \subseteq Filling /\ UNCHANGED <<gap, id, lastId, numbered, part>>
    BY <2>1 DEF createDataProcessor, replaceFails, Filling
  <2>12. QED
    BY <2>2, <2>4, <2>6, <2>9, <2>10, <2>11, NewFrameContents
<1>11. CASE openFails
  <2>1. data' = data /\ Shown' = Shown /\ cpc' \notin Filling \cup {"opened"}
    BY <1>11 DEF openFails, stop, poolVars, frameVars, Filling, Shown
  <2>2. mem' = [b \in Buffers |-> IF working # NoFrame /\ b = data[working] THEN Empty ELSE mem[b]]
    BY <1>11 DEF openFails
  <2>3. working # NoFrame => working \in InHand /\ working \notin held
    BY <1>1, <1>11 DEF openFails, FramesAreHeld, InHand
  <2>4. Shown = held
    BY <1>11 DEF openFails, Shown
  <2>5. \A g \in held : data[g] \in Buffers /\ (working # NoFrame => data[g] # data[working])
    BY <2>3, <2>4, HandsAreApart
  <2>6. \A g \in held : mem'[data[g]] = mem[data[g]]
    BY <2>2, <2>5
  <2>7. \A b \in Buffers : mem'[b].kind # "mixed"
    BY <1>1, <2>2 DEF ContentsOK, Empty
  <2>8. QED
    BY <1>1, <2>1, <2>4, <2>6, <2>7 DEF ContentsOK, Filling
<1>12. CASE configureStream \/ closed \/ stopStranded
  BY <1>12, SameContents DEF configureStream, closed, stopStranded, stop, poolVars, frameVars, Filling
<1>13. CASE streamOn
  BY <1>1, <1>13 DEF streamOn, ContentsOK, NumbersTell, poolVars, frameVars, Filling
<1>14. CASE openDone \/ setOutputFormat
  BY <1>14, SameContents DEF openDone, setOutputFormat, poolVars, frameVars, Filling
<1>15. CASE releaseStep
  <2>1. UNCHANGED <<mem, cpc, dpc, working, stable, held, gap, id, lastId, numbered, part>>
    BY <1>15 DEF releaseStep, sensorVars
  <2>2. \A f \in InHand : data'[f] = data[f]
    <3>1. data' = data \/ data' = [data EXCEPT ![releasing] = NoBuffer]
      BY <1>15 DEF releaseStep, ReleaseStep, freeBuffer, backToPool, frameVars
    <3>2. \A f \in InHand : f # releasing /\ f \in Frames
      BY <1>1, HandsAreApart DEF ThreadsOK
    <3>3. data \in [Frames -> Buffers \cup {NoBuffer}]
      BY DEF SensorInv, PoolInv, PoolTypeOK
    <3>4. QED
      BY <3>1, <3>2, <3>3
  <2>3. QED
    BY <1>1, <2>1, <2>2, HandsAreApart DEF ContentsOK, NumbersTell
<1>16. CASE \E n \in Sizes : startStream(n)
  BY <1>16, SameContents DEF startStream, start, Filling
<1>17. CASE stopStream \/ \E n \in Sizes : setVideoMode(n)
  <2>1. closeStream /\ cpc \in {"running", "unfinished"} /\ cpc' = "closing"
    BY <1>17 DEF stopStream, setVideoMode
  <2>2. working \in InHand /\ working \notin held /\ dpc = "packet"
    BY <1>1, <2>1 DEF closeStream, FramesAreHeld, ThreadsOK, HasWorking, Filling, InHand
  <2>3. UNCHANGED <<dpc, stable, held>> /\ giveBack(working)
    BY <2>1 DEF closeStream
  <2>4. QED
    BY <2>1, <2>2, <2>3, GiveBackContents DEF Filling
<1>18. CASE \E f \in Frames : releaseHeld(f)
  <2>1. PICK f \in Frames : releaseHeld(f)
    BY <1>18
  <2>2. f \in InHand /\ f # working /\ f # stable
    BY <1>1, <2>1 DEF releaseHeld, InHand, FramesAreHeld
  <2>3. /\ giveBack(f) /\ held' = held \ {f}
        /\ UNCHANGED <<cpc, dpc, working, stable, gap, id, lastId, numbered, part>>
    BY <2>1 DEF releaseHeld
  <2>4. QED
    BY <2>2, <2>3, GiveBackContents
<1>19. CASE UNCHANGED vars
  BY <1>19, SameContents DEF vars, poolVars, sensorVars, frameVars
<1>20. QED
  BY <1>2, <1>3, <1>4, <1>5, <1>6, <1>7, <1>8, <1>9, <1>10, <1>11, <1>12, <1>13, <1>14, <1>15,
     <1>16, <1>17, <1>18, <1>19
  DEF Next, ReaderStep, ControlStep

-----------------------------------------------------------------------------
\* The invariant of the driver's frame path.
THEOREM SensorInvariant == Spec => []SensorInv
PROOF
<1>1. Init => SensorInv
  BY SensorInitInv
<1>2. SensorInv /\ [Next]_vars => SensorInv'
  BY StepPool, StepTypes, StepOpens, StepHeld, StepContents DEF SensorInv
<1>3. QED
  BY <1>1, <1>2, PTL DEF Spec

\* The driver uses the pool of its sensor as FramePool says (XnFrameBufferManager
\* and XnSensorStreamHelper call acquireFrame and releaseFrame of OniSensor).
THEOREM SensorImplementsPool == Spec => PoolSpec
PROOF
<1>1. Init => PoolInit
  BY DEF Init
<1>2. SensorInv /\ [Next]_vars => [PoolNext]_poolVars
  BY StepUsesPool
<1>3. QED
  BY <1>1, <1>2, SensorInvariant, PTL DEF Spec, PoolSpec

\* Every variable keeps its type.
THEOREM SensorTypeOK == Spec => []TypeOK
BY SensorInvariant, PTL DEF SensorInv

\* Whatever packets are lost, a frame that the application holds is whole, unless
\* number 0, or a number the processor has not seen, has hidden a loss
\* (XnDataProcessor::ProcessData).
THEOREM SensorFramesAreWhole == Spec => []FramesAreWhole
PROOF
<1>1. SensorInv => FramesAreWhole
  BY DEF SensorInv, ContentsOK, Shown, Good, FramesAreWhole, Delivered
<1>2. QED
  BY <1>1, SensorInvariant, PTL

\* Every frame in use is somebody's, or was forgotten by a new processor
\* (XnFrameBufferManager::Start).
THEOREM SensorFramesAreHeld == Spec => []FramesAreHeld
BY SensorInvariant, PTL DEF SensorInv

\* With the driver's threads and the application at work, no buffer has two
\* users, and none is lost (OniSensor.cpp).
THEOREM SensorBuffersAreExclusive == Spec => []BuffersAreExclusive
BY SensorImplementsPool, PoolBuffersAreExclusive, PTL

\* And only a release that crosses a change of the size brings back a buffer of
\* the old one (Sensor::releaseAllFrames).
THEOREM SensorStrayFramesOnly == Spec => []StrayFramesOnly
BY SensorImplementsPool, PoolStrayFramesOnly, PTL
=============================================================================
