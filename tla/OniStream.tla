----------------------------- MODULE OniStream -----------------------------
(***************************************************************************)
(* Frame delivery in the OpenNI2 core that DepthCameraOpenNI.py reads the  *)
(* depth camera through: one VideoStream and its StreamFrameHolder, the    *)
(* driver thread that raises new frames, the threads that read the stream  *)
(* with Context::readFrame, and the thread that starts and stops it.       *)
(* Every lock of the code makes one action here; what a thread does        *)
(* between two locks, and between a lock and a wait, is another action.    *)
(*                                                                         *)
(* Frames are the objects of the FrameManager pool: one is free again when *)
(* its reference count is 0.  An auto-reset event is a Boolean.            *)
(*                                                                         *)
(* There are two kinds of sensor.  An exclusive one has no other stream,   *)
(* and its driver's streamStop waits for the callback in flight (PS1080    *)
(* joins its read thread).  Otherwise another stream of the sensor may     *)
(* keep it running, or the driver stops without waiting (DummyDevice).     *)
(***************************************************************************)
EXTENDS Integers, FiniteSets

CONSTANTS
    Readers,    (* threads that call oniStreamReadFrame on the stream *)
    Frames,     (* the frame objects of the pool *)
    NoFrame     (* NULL *)

ASSUME OniAssumption == NoFrame \notin Frames /\ IsFiniteSet(Readers)

\* The two other parties that can hold a frame.
CONSTANTS Driver, Holder

ASSUME PartiesAssumption ==
    /\ Driver # Holder
    /\ {Driver, Holder} \cap Readers = {}

VARIABLES
    exclusive,      (* the kind of sensor, which never changes *)
    m_started,      (* VideoStream::m_started *)
    streaming,      (* the driver produces frames for the sensor *)
    cpc,            (* where the controlling thread is in start or stop *)
    dpc,            (* where the driver thread is in its callback *)
    dframe,         (* the frame the driver thread holds *)
    m_pLastFrame,   (* StreamFrameHolder::m_pLastFrame *)
    refCount,       (* OniFrameInternal::refCount of each frame *)
    newFrameEvent,  (* m_newFrameInternalEventForFrameHolder *)
    waitingThreads, (* Context::m_waitingThreads: readers that have an event *)
    threadEvent,    (* that event, of each reader *)
    rpc,            (* where each reader is in Context::readFrame *)
    rframe          (* the frame each reader holds *)

controlVars == <<m_started, streaming, cpc>>
driverVars == <<dpc, dframe>>
readerVars == <<waitingThreads, rpc, rframe>>
frameVars == <<m_pLastFrame, refCount>>
eventVars == <<newFrameEvent, threadEvent>>
vars == <<exclusive, controlVars, driverVars, readerVars, frameVars, eventVars>>

Nothing == [f \in Frames |-> 0]

\* FrameManager::addRef and release; release(NULL) is never called.
addRef(count, f) == [count EXCEPT ![f] = @ + 1]
release(count, f) == IF f = NoFrame THEN count ELSE [count EXCEPT ![f] = @ - 1]

-----------------------------------------------------------------------------
\* A stream that was just created, on a sensor that may be running already.
Init ==
    /\ m_started = FALSE
    /\ exclusive \in BOOLEAN
    /\ streaming \in BOOLEAN /\ (exclusive => ~streaming)
    /\ cpc = "idle"
    /\ dpc = "idle" /\ dframe = NoFrame
    /\ m_pLastFrame = NoFrame /\ refCount = Nothing
    /\ newFrameEvent = FALSE
    /\ waitingThreads = {} /\ threadEvent = [r \in Readers |-> FALSE]
    /\ rpc = [r \in Readers |-> "app"]
    /\ rframe = [r \in Readers |-> NoFrame]

-----------------------------------------------------------------------------
(* The driver thread. *)

\* Sensor::acquireFrame, then the new-frame callback of the driver.
acquireFrame(f) ==
    /\ streaming /\ dpc = "idle" /\ refCount[f] = 0
    /\ refCount' = addRef(refCount, f)
    /\ dframe' = f
    /\ dpc' = "check"
    /\ UNCHANGED <<controlVars, readerVars, m_pLastFrame, eventVars>>

\* stream_NewFrame looks at m_started, without a lock.
stream_NewFrame ==
    /\ dpc = "check"
    /\ dpc' = IF m_started THEN "process" ELSE "release"
    /\ UNCHANGED <<controlVars, dframe, readerVars, frameVars, eventVars>>

\* Mutant of processNewFrame: the holder keeps the frame without a reference.
processNewFrame_noref ==
    /\ dpc = "process"
    /\ refCount' = release(refCount, m_pLastFrame)
    /\ m_pLastFrame' = dframe
    /\ dpc' = "raise"
    /\ UNCHANGED <<controlVars, dframe, readerVars, eventVars>>

\* The locked part of processNewFrame: the new frame replaces the last one.
processNewFrame ==
    /\ dpc = "process"
    /\ refCount' = addRef(release(refCount, m_pLastFrame), dframe)
    /\ m_pLastFrame' = dframe
    /\ dpc' = "raise"
    /\ UNCHANGED <<controlVars, dframe, readerVars, eventVars>>

\* Mutant of raiseNewFrameEvent: an event is only raised when nobody is reading.
raiseNewFrameEvent_quiet ==
    /\ dpc = "raise"
    /\ newFrameEvent' = (newFrameEvent \/ \A r \in Readers : rpc[r] = "app")
    /\ dpc' = "notify"
    /\ UNCHANGED <<controlVars, dframe, readerVars, frameVars, threadEvent>>

raiseNewFrameEvent ==
    /\ dpc = "raise"
    /\ newFrameEvent' = TRUE
    /\ dpc' = "notify"
    /\ UNCHANGED <<controlVars, dframe, readerVars, frameVars, threadEvent>>

\* Mutant of onNewFrame: wakes one thread.
onNewFrame_one ==
    /\ dpc = "notify"
    /\ \/ \E r \in waitingThreads : threadEvent' = [threadEvent EXCEPT ![r] = TRUE]
       \/ waitingThreads = {} /\ UNCHANGED threadEvent
    /\ dpc' = "release"
    /\ UNCHANGED <<controlVars, dframe, readerVars, frameVars, newFrameEvent>>

\* m_newFrameCallback is Context::onNewFrame: it wakes every thread it knows.
onNewFrame ==
    /\ dpc = "notify"
    /\ threadEvent' = [r \in Readers |-> threadEvent[r] \/ r \in waitingThreads]
    /\ dpc' = "release"
    /\ UNCHANGED <<controlVars, dframe, readerVars, frameVars, newFrameEvent>>

\* The driver releases its frame when the callback returns.
releaseFrame ==
    /\ dpc = "release"
    /\ refCount' = release(refCount, dframe)
    /\ dframe' = NoFrame
    /\ dpc' = "idle"
    /\ UNCHANGED <<controlVars, readerVars, m_pLastFrame, eventVars>>

DriverStep ==
    \/ \E f \in Frames : acquireFrame(f)
    \/ stream_NewFrame \/ processNewFrame \/ raiseNewFrameEvent
    \/ onNewFrame \/ releaseFrame

-----------------------------------------------------------------------------
(* A reader, in Context::readFrame with ONI_TIMEOUT_FOREVER. *)

\* getThreadEvent: the first call of a thread makes its event.
getThreadEvent(r) ==
    /\ rpc[r] = "app" /\ rframe[r] = NoFrame
    /\ waitingThreads' = waitingThreads \cup {r}
    /\ rpc' = [rpc EXCEPT ![r] = "peek"]
    /\ UNCHANGED <<controlVars, driverVars, rframe, frameVars, eventVars>>

\* Mutant of peekFrame: goes on without looking.
peekFrame_blind(r) ==
    /\ rpc[r] = "peek"
    /\ rpc' = [rpc EXCEPT ![r] = "event"]
    /\ UNCHANGED <<controlVars, driverVars, waitingThreads, rframe, frameVars, eventVars>>

\* waitForStreams looks at the last frame under the lock of the holder.
peekFrame(r) ==
    /\ rpc[r] = "peek"
    /\ rpc' = [rpc EXCEPT ![r] = IF m_pLastFrame = NoFrame THEN "wait" ELSE "event"]
    /\ UNCHANGED <<controlVars, driverVars, waitingThreads, rframe, frameVars, eventVars>>

waitThreadEvent(r) ==
    /\ rpc[r] = "wait" /\ threadEvent[r]
    /\ threadEvent' = [threadEvent EXCEPT ![r] = FALSE]
    /\ rpc' = [rpc EXCEPT ![r] = "peek"]
    /\ UNCHANGED <<controlVars, driverVars, waitingThreads, rframe, frameVars, newFrameEvent>>

\* waitForNewFrameEvent, before StreamFrameHolder::readFrame takes its lock.
waitForNewFrameEvent(r) ==
    /\ rpc[r] = "event" /\ newFrameEvent
    /\ newFrameEvent' = FALSE
    /\ rpc' = [rpc EXCEPT ![r] = "take"]
    /\ UNCHANGED <<controlVars, driverVars, waitingThreads, rframe, frameVars, threadEvent>>

\* Mutant of readFrame: the holder keeps the frame it hands out.
readFrame_kept(r) ==
    /\ rpc[r] = "take"
    /\ rframe' = [rframe EXCEPT ![r] = m_pLastFrame]
    /\ rpc' = [rpc EXCEPT ![r] = "return"]
    /\ UNCHANGED <<controlVars, driverVars, waitingThreads, frameVars, eventVars>>

\* The locked part of readFrame: the reference goes from the holder to the
\* caller, which gets ONI_STATUS_OK whether there was a frame or not.
readFrame(r) ==
    /\ rpc[r] = "take"
    /\ rframe' = [rframe EXCEPT ![r] = m_pLastFrame]
    /\ m_pLastFrame' = NoFrame
    /\ rpc' = [rpc EXCEPT ![r] = "return"]
    /\ UNCHANGED <<controlVars, driverVars, waitingThreads, refCount, eventVars>>

\* readFrame has returned.
returnFrame(r) ==
    /\ rpc[r] = "return"
    /\ rpc' = [rpc EXCEPT ![r] = "app"]
    /\ UNCHANGED <<controlVars, driverVars, waitingThreads, rframe, frameVars, eventVars>>

\* Context::frameRelease, by the caller when it is done with the frame.
frameRelease(r) ==
    /\ rpc[r] = "app" /\ rframe[r] # NoFrame
    /\ refCount' = release(refCount, rframe[r])
    /\ rframe' = [rframe EXCEPT ![r] = NoFrame]
    /\ UNCHANGED <<controlVars, driverVars, waitingThreads, rpc, m_pLastFrame, eventVars>>

ReadStep(r) ==
    \/ peekFrame(r) \/ waitThreadEvent(r) \/ waitForNewFrameEvent(r)
    \/ readFrame(r) \/ returnFrame(r) \/ frameRelease(r)

ReaderStep(r) == getThreadEvent(r) \/ ReadStep(r)

-----------------------------------------------------------------------------
(* The thread that calls oniStreamStart and oniStreamStop. *)

\* Mutant of clear: the holder drops its frame and keeps the reference.
clear_leaks ==
    /\ m_pLastFrame' = NoFrame
    /\ UNCHANGED refCount

\* StreamFrameHolder::clear.
clear ==
    /\ refCount' = release(refCount, m_pLastFrame)
    /\ m_pLastFrame' = NoFrame

Goto(from, to) == cpc = from /\ cpc' = to

startClears ==
    /\ ~m_started /\ Goto("idle", "startStream")
    /\ clear
    /\ UNCHANGED <<m_started, streaming, driverVars, readerVars, eventVars>>

\* The driver starts unless another stream has started the sensor already.
streamStart ==
    /\ Goto("startStream", "startEnable")
    /\ streaming' = TRUE
    /\ UNCHANGED <<m_started, driverVars, readerVars, frameVars, eventVars>>

streamStartFails ==
    /\ ~streaming /\ Goto("startStream", "idle")
    /\ UNCHANGED <<m_started, streaming, driverVars, readerVars, frameVars, eventVars>>

\* setStreamEnabled(this, m_started): m_started is still FALSE, so it clears.
startEnables ==
    /\ Goto("startEnable", "startDone")
    /\ clear
    /\ UNCHANGED <<m_started, streaming, driverVars, readerVars, eventVars>>

startReturns ==
    /\ Goto("startDone", "idle")
    /\ m_started' = TRUE
    /\ UNCHANGED <<streaming, driverVars, readerVars, frameVars, eventVars>>

stopBegins ==
    /\ m_started /\ Goto("idle", "stopDisable")
    /\ m_started' = FALSE
    /\ UNCHANGED <<streaming, driverVars, readerVars, frameVars, eventVars>>

stopDisables ==
    /\ Goto("stopDisable", "stopStream")
    /\ clear
    /\ UNCHANGED <<m_started, streaming, driverVars, readerVars, eventVars>>

\* An exclusive stream stops the driver, which waits for its callback.
streamStop ==
    /\ Goto("stopStream", "stopClear")
    /\ IF exclusive THEN streaming' = FALSE /\ dpc = "idle"
                    ELSE streaming' \in BOOLEAN
    /\ UNCHANGED <<m_started, driverVars, readerVars, frameVars, eventVars>>

\* Mutant of stopClears: the second clear is missing.
stopClears_not ==
    /\ Goto("stopClear", "idle")
    /\ UNCHANGED <<m_started, streaming, driverVars, readerVars, frameVars, eventVars>>

stopClears ==
    /\ Goto("stopClear", "idle")
    /\ clear
    /\ UNCHANGED <<m_started, streaming, driverVars, readerVars, eventVars>>

\* Another stream of the sensor starts it, or is the last one to stop it.
otherStream ==
    /\ ~exclusive /\ ~m_started /\ cpc = "idle"
    /\ streaming' = ~streaming
    /\ UNCHANGED <<m_started, cpc, driverVars, readerVars, frameVars, eventVars>>

ControlStep ==
    \/ startClears \/ streamStart \/ streamStartFails \/ startEnables \/ startReturns
    \/ stopBegins \/ stopDisables \/ streamStop \/ stopClears
    \/ otherStream

-----------------------------------------------------------------------------
Next ==
    /\ DriverStep \/ (\E r \in Readers : ReaderStep(r)) \/ ControlStep
    /\ UNCHANGED exclusive

Spec == Init /\ [][Next]_vars

\* A stream that is started and stays so, as DepthCameraOpenNI.py uses it.
InitStarted ==
    /\ exclusive \in BOOLEAN
    /\ m_started = TRUE /\ streaming = TRUE /\ cpc = "idle"
    /\ dpc = "idle" /\ dframe = NoFrame
    /\ m_pLastFrame = NoFrame /\ refCount = Nothing
    /\ newFrameEvent = FALSE
    /\ waitingThreads = {} /\ threadEvent = [r \in Readers |-> FALSE]
    /\ rpc = [r \in Readers |-> "app"]
    /\ rframe = [r \in Readers |-> NoFrame]

NextStarted ==
    /\ DriverStep \/ \E r \in Readers : ReaderStep(r)
    /\ UNCHANGED exclusive

\* The camera goes on taking pictures and no thread stops for ever.
StartedSpec ==
    /\ InitStarted /\ [][NextStarted]_vars
    /\ WF_vars(DriverStep /\ UNCHANGED exclusive)
    /\ \A r \in Readers : WF_vars(ReadStep(r) /\ UNCHANGED exclusive)

-----------------------------------------------------------------------------
MaybeFrame == Frames \cup {NoFrame}

\* The type of everything but the reference counts.
Shape ==
    /\ exclusive \in BOOLEAN
    /\ m_started \in BOOLEAN /\ streaming \in BOOLEAN
    /\ cpc \in {"idle", "startStream", "startEnable", "startDone",
                "stopDisable", "stopStream", "stopClear"}
    /\ dpc \in {"idle", "check", "process", "raise", "notify", "release"}
    /\ dframe \in MaybeFrame /\ (dframe = NoFrame <=> dpc = "idle")
    /\ m_pLastFrame \in MaybeFrame
    /\ newFrameEvent \in BOOLEAN
    /\ waitingThreads \in SUBSET Readers
    /\ threadEvent \in [Readers -> BOOLEAN]
    /\ rpc \in [Readers -> {"app", "peek", "wait", "event", "take", "return"}]
    /\ rframe \in [Readers -> MaybeFrame]

\* Type correctness: in particular no reference count ever becomes negative.
TypeOK == Shape /\ refCount \in [Frames -> Nat]

\* Who holds a frame.
HoldersOf(f) ==
    (IF dframe = f THEN {Driver} ELSE {})
    \cup (IF m_pLastFrame = f THEN {Holder} ELSE {})
    \cup {r \in Readers : rframe[r] = f}

\* The reference count of a frame is the number of its holders, at every step
\* of every thread: no frame goes back to the pool while somebody still reads
\* it, and none is lost to the pool (OniFrameManager.cpp, processNewFrame,
\* readFrame and clear of the holder).
RefCountsExact == \A f \in Frames : refCount[f] = Cardinality(HoldersOf(f))

\* A frame in the holder is announced: its event is set, or about to be, or a
\* reader has consumed it and is about to take the frame.  So a reader that
\* has seen a frame never waits for ever behind it in waitForNewFrameEvent,
\* whatever start and stop do meanwhile.
FrameIsAnnounced ==
    m_pLastFrame # NoFrame =>
        newFrameEvent \/ dpc = "raise" \/ \E r \in Readers : rpc[r] = "take"

\* Once stop has returned the holder is empty and stays so, though a callback
\* that had seen m_started may have stored a frame after the first clear.
StoppedMeansEmpty ==
    exclusive /\ ~m_started /\ cpc = "idle" => m_pLastFrame = NoFrame

\* Counting references gives what the users of the frames are promised: the
\* driver never fills a frame that the holder or a reader still has, and no two
\* readers get the same one, whatever start and stop do meanwhile.  The frame of
\* the driver is fresh from acquireFrame until the callback is done with it.
Mailbox == INSTANCE FrameMailbox
               WITH filling <- dframe, fresh <- dpc \in {"check", "process"},
                    posted <- m_pLastFrame, taken <- rframe

ImplementsMailbox == Mailbox!MailboxSpec

\* oniStreamReadFrame "is blocking until there is a new frame": it returns one.
ReadReturnsAFrame ==
    \A r \in Readers : rpc[r] = "return" => rframe[r] # NoFrame

\* As long as one thread reads the stream, and no other ever has, every read of
\* a started stream returns a frame: what it saw in the holder is still there,
\* or replaced by a newer one, when it comes back to take it.
Lone == \A q, r \in waitingThreads : q = r

LoneReaderGetsAFrame == Lone => ReadReturnsAFrame

\* While somebody waits for a frame of a started stream, a frame reaches one of
\* its readers: no wakeup is lost between waitForStreams, the two events and
\* the holder, however the readers interleave.
FramesReachAReader ==
    (\E r \in Readers : rpc[r] \in {"peek", "wait"})
        ~> (\E r \in Readers : rframe[r] # NoFrame)
=============================================================================
