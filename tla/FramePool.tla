----------------------------- MODULE FramePool -----------------------------
(***************************************************************************)
(* The frames of one sensor and their buffers (OniSensor.cpp,              *)
(* OniFrameManager.cpp).  A frame object comes from the FrameManager, its  *)
(* buffer from the pool of the sensor; the last release gives both back.   *)
(* When the sensor is started with another frame size, releaseAllFrames    *)
(* frees the pool and tells the frames still out to free theirs.           *)
(*                                                                         *)
(* The lock of the FrameManager is held by a release from its first step   *)
(* to its last, the lock of the pool (m_framesCS) within a step.  Counting *)
(* references is the subject of OniStream: here a frame is acquired and    *)
(* released once.                                                          *)
(***************************************************************************)
EXTENDS Integers

CONSTANTS
    Frames,     (* OniFrameInternal objects, numbers *)
    Buffers,    (* blocks of memory, numbers *)
    Sizes,      (* sizes of a frame, which are positive *)
    NoFrame, NoBuffer   (* NULL *)

ASSUME PoolAssumption ==
    /\ Frames \subseteq Nat /\ Buffers \subseteq Nat
    /\ NoFrame \notin Frames /\ NoBuffer \notin Buffers
    /\ Sizes \subseteq Nat \ {0} /\ Sizes # {}

VARIABLES
    started,    (* m_startedStreamCount > 0 *)
    required,   (* m_requiredFrameSize *)
    size,       (* of each block, 0 when it is not allocated *)
    available,  (* m_availableFrameBuffers *)
    use,        (* of each frame: free, acquired without a buffer yet, used *)
    data,       (* OniFrame::data *)
    toPool,     (* freeBufferFunc is releaseFrameBufferToPoolCallback *)
    current,    (* m_currentStreamFrames: frames whose cookie is the sensor *)
    releasing,  (* the frame whose last release holds the FrameManager, *)
    step,       (* where that release is, *)
    func,       (* and the freeBufferFunc it has read, as toPool *)
    stray       (* history: buffers being released while the size changed *)

bufferVars == <<size, available, stray>>
frameVars == <<use, data, toPool, current>>
releaseVars == <<releasing, step, func>>
poolVars == <<started, required, bufferVars, frameVars, releaseVars>>

PoolInit ==
    /\ started = FALSE /\ required = 0
    /\ size = [b \in Buffers |-> 0] /\ available = {} /\ stray = {}
    /\ use = [f \in Frames |-> "free"] /\ data = [f \in Frames |-> NoBuffer]
    /\ toPool = [f \in Frames |-> TRUE] /\ current = {}
    /\ releasing = NoFrame /\ step = "idle" /\ func = FALSE

-----------------------------------------------------------------------------
(* Sensor::acquireFrame. *)

\* Which of several it is does not matter: the first.
First(S, x) == x \in S /\ \A y \in S : x <= y

FreeFrames == {f \in Frames : use[f] = "free"}
FreeBlocks == {b \in Buffers : size[b] = 0}

\* FrameManager::acquireFrame, which takes the lock that a release holds.
acquireObject(f) ==
    /\ started /\ releasing = NoFrame
    /\ First(FreeFrames, f)
    /\ use' = [use EXCEPT ![f] = "acquired"]
    /\ UNCHANGED <<started, required, bufferVars, data, toPool, current, releaseVars>>

\* Mutant of takeBuffer: the pool keeps what it gives out.
takeBuffer_kept(b) == b \in available /\ UNCHANGED <<size, available, stray>>

takeBuffer(b) ==
    /\ b \in available
    /\ available' = available \ {b}
    /\ UNCHANGED <<size, stray>>

newBuffer(b) ==
    /\ available = {} /\ First(FreeBlocks, b)
    /\ size' = [size EXCEPT ![b] = required]
    /\ UNCHANGED <<available, stray>>

\* allocFrameBufferFromPool, and the frame joins m_currentStreamFrames.
allocFrameBuffer(f) ==
    /\ use[f] = "acquired"
    /\ \E b \in Buffers :
          /\ takeBuffer(b) \/ newBuffer(b)
          /\ data' = [data EXCEPT ![f] = b]
    /\ use' = [use EXCEPT ![f] = "used"]
    /\ toPool' = [toPool EXCEPT ![f] = TRUE]
    /\ current' = current \cup {f}
    /\ UNCHANGED <<started, required, releaseVars>>

-----------------------------------------------------------------------------
(* The last FrameManager::release of a frame, by any thread. *)

Advance(from, to) == step = from /\ step' = to

\* The count becomes 0, and frameBackToPoolCallback reads freeBufferFunc,
\* without the lock of the pool.
release(f) ==
    /\ releasing = NoFrame /\ use[f] = "used"
    /\ releasing' = f /\ Advance("idle", "func")
    /\ func' = toPool[f]
    /\ UNCHANGED <<started, required, bufferVars, frameVars>>

\* releaseFrameBufferToPool or freeFrameBufferMemoryCallback.
freeBuffer ==
    /\ Advance("func", "freed")
    /\ IF func THEN /\ available' = available \cup {data[releasing]}
                    /\ UNCHANGED <<size, stray>>
               ELSE /\ size' = [size EXCEPT ![data[releasing]] = 0]
                    /\ stray' = stray \ {data[releasing]}
                    /\ UNCHANGED available
    /\ UNCHANGED <<started, required, frameVars, releasing, func>>

\* data = NULL; the sensor forgets the frame, if it still knows it, and it
\* returns to its manager, which resets its fields.
backToPool ==
    /\ Advance("freed", "idle")
    /\ data' = [data EXCEPT ![releasing] = NoBuffer]
    /\ current' = current \ {releasing}
    /\ use' = [use EXCEPT ![releasing] = "free"]
    /\ toPool' = [toPool EXCEPT ![releasing] = TRUE]
    /\ releasing' = NoFrame /\ func' = FALSE
    /\ UNCHANGED <<started, required, bufferVars>>

-----------------------------------------------------------------------------
(* VideoStream::start and stop, under the lock m_refCountCS. *)

\* Mutant of releaseAllFrames: the frames that are out are not told.
releaseAllFrames_pooled ==
    /\ current' = {} /\ available' = {}
    /\ size' = [b \in Buffers |-> IF b \in available THEN 0 ELSE size[b]]
    /\ UNCHANGED <<stray, toPool>>

\* The frames that are out free their buffers themselves, but for the one
\* whose release has already chosen the pool.
releaseAllFrames ==
    /\ toPool' = [f \in Frames |-> toPool[f] /\ f \notin current]
    /\ current' = {}
    /\ size' = [b \in Buffers |-> IF b \in available THEN 0 ELSE size[b]]
    /\ available' = {}
    /\ stray' = (stray \ available)
                 \cup (IF step = "func" /\ func THEN {data[releasing]} ELSE {})

\* start: setRequiredFrameSize, before the driver acquires anything.
start(n) ==
    /\ ~started /\ started' = TRUE
    /\ required' = n
    /\ IF n # required THEN releaseAllFrames
                       ELSE UNCHANGED <<toPool, current, bufferVars>>
    /\ UNCHANGED <<use, data, releaseVars>>

\* stop, or a start that failed: PS1080 waits for the thread that acquires.
stop ==
    /\ started /\ \A f \in Frames : use[f] # "acquired"
    /\ started' = FALSE
    /\ UNCHANGED <<required, bufferVars, frameVars, releaseVars>>

ReleaseStep == freeBuffer \/ backToPool

PoolNext ==
    \/ \E f \in Frames : acquireObject(f) \/ allocFrameBuffer(f) \/ release(f)
    \/ ReleaseStep
    \/ \E n \in Sizes : start(n)
    \/ stop

PoolSpec == PoolInit /\ [][PoolNext]_poolVars

-----------------------------------------------------------------------------
PoolTypeOK ==
    /\ started \in BOOLEAN /\ required \in Sizes \cup {0}
    /\ size \in [Buffers -> Sizes \cup {0}]
    /\ available \subseteq Buffers /\ stray \subseteq Buffers
    /\ use \in [Frames -> {"free", "acquired", "used"}]
    /\ data \in [Frames -> Buffers \cup {NoBuffer}]
    /\ toPool \in [Frames -> BOOLEAN]
    /\ current \subseteq Frames
    /\ releasing \in Frames \cup {NoFrame}
    /\ step \in {"idle", "func", "freed"} /\ func \in BOOLEAN

\* The frame whose buffer is its own: in use, and not given back already.
Owns(f) == use[f] = "used" /\ ~(releasing = f /\ step = "freed")

\* No buffer is in two frames, or in a frame and in the pool, or freed under a
\* frame, whoever acquires, releases and resizes in whatever order; and none
\* is lost: what is allocated is in the pool or in a frame (OniSensor.cpp).
BuffersAreExclusive ==
    /\ \A f, g \in Frames : Owns(f) /\ Owns(g) /\ data[f] = data[g] => f = g
    /\ \A b \in Buffers :
          size[b] # 0 <=> b \in available \/ \E f \in Frames : Owns(f) /\ data[f] = b
    /\ \A f \in Frames : Owns(f) => data[f] \in Buffers \ available

\* setRequiredFrameSize: "release all previous frames. They can't be used
\* anymore": a frame of the sensor has a buffer of the size it is used with.
FramesFit == \A f \in current : Owns(f) => size[data[f]] = required

\* A frame of the wrong size comes from a buffer that was on its way into the
\* pool while the pool was emptied for the new size: from nothing else.
StrayFramesOnly ==
    \A f \in current : Owns(f) /\ data[f] \notin stray => size[data[f]] = required
=============================================================================
