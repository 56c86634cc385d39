---------------------------- MODULE SensorFrames ----------------------------
(***************************************************************************)
(* Frames of the depth stream of a PS1080, from the packets of the device  *)
(* to the application (XnDataProcessor.cpp, XnFrameStreamProcessor.cpp,    *)
(* XnDepthProcessor.cpp, XnFrameBufferManager.cpp), with the pool of       *)
(* FramePool, which hands out the buffers.                                 *)
(*                                                                         *)
(* Three threads: the driver's reader, which takes packets from the USB    *)
(* connection chunk by chunk, and locks the processor for each chunk; the  *)
(* control thread of start, stop and setProperty, of which there is one;   *)
(* and the application, which releases the frames it took when it likes.   *)
(*                                                                         *)
(* The device sends frames of P packets, numbered modulo IdMod (2^16).     *)
(* Each packet comes in two chunks: its head, with the number, and a tail. *)
(* Pixels are not modelled: a buffer has a content, which is whole, short  *)
(* of chunks, or a mixture of two frames.                                  *)
(***************************************************************************)
EXTENDS FramePool, FiniteSets

CONSTANTS
    P,          (* packets of a frame: the first starts it, the last ends it *)
    IdMod,      (* packet numbers *)
    MaxBurst,   (* bound on the packets that are lost one after the other *)
    MaxOut,     (* bound on the frames the application keeps or the driver forgot *)
    MaxOpens    (* bound on the calls that open the stream and do not fail *)

ASSUME SensorAssumption ==
    /\ P \in Nat \ {0, 1} /\ IdMod \in Nat \ {0}
    /\ MaxBurst \in Nat /\ MaxBurst < IdMod
    /\ MaxOut \in Nat /\ MaxOpens \in Nat

VARIABLES
    (* The control thread and what it sets up. *)
    mode,       (* size of a frame in the video mode of the stream *)
    cpc,        (* where the control thread is *)
    reopening,  (* the call is a setProperty that opens a started stream again *)
    reader,     (* there is a read thread *)
    actualRead, (* m_ActualRead: the driver believes that there is one *)
    locked,     (* the lock of the processor was kept for good *)
    (* The reader thread and its processor. *)
    dpc,        (* where the reader thread is *)
    working,    (* m_pWorkingBuffer, the frame that is being filled *)
    stable,     (* pStableBuffer, the frame that is being delivered *)
    lastId,     (* m_nLastPacketID *)
    corrupted,  (* m_bFrameCorrupted *)
    (* The device and the connection. *)
    pos, id, part, (* of the packet, and its chunk, that comes next *)
    mem,        (* content of each block *)
    (* The application. *)
    held,       (* frames of the application *)
    opens,      (* calls that open the stream, but for those that failed *)
    (* History. *)
    gap,        (* what is missing before the next chunk: none, some, a frame's start *)
    numbered,   (* the processor has seen the number of a packet *)
    dropped,    (* frames that the driver has forgotten *)
    failures    (* calls that failed with an effect that lasts *)

threadVars == <<reader, actualRead, locked>>
controlVars == <<mode, cpc, reopening, threadVars, failures>>
deviceVars == <<pos, id, part, gap>>
processorVars == <<lastId, corrupted, numbered>>
clientVars == <<held, dropped, opens>>
sensorVars == <<controlVars, dpc, working, stable, processorVars, deviceVars, mem, clientVars>>
vars == <<poolVars, sensorVars>>

Positions == 1 .. P
Ids == 0 .. IdMod - 1
Kinds == {"whole", "short", "mixed", "unnoticed"}
Empty == [n |-> 0, kind |-> "whole"]

Init ==
    /\ PoolInit
    /\ mode = 0 /\ cpc = "closed" /\ reopening = FALSE /\ dpc = "packet"
    /\ reader = FALSE /\ actualRead = FALSE /\ locked = FALSE
    /\ working = NoFrame /\ stable = NoFrame
    /\ lastId = 0 /\ corrupted = FALSE /\ numbered = FALSE
    /\ pos = 1 /\ id = 0 /\ part = "head" /\ gap = "none"
    /\ mem = [b \in Buffers |-> Empty]
    /\ held = {} /\ dropped = {} /\ opens = 0 /\ failures = {}

-----------------------------------------------------------------------------
(* The device. *)

\* Mutant of AdvanceDevice: the packet number does not wrap.
AdvanceDevice_nowrap(k) == pos' = ((pos - 1 + k) % P) + 1 /\ id' = id + k

AdvanceDevice(k) == pos' = ((pos - 1 + k) % P) + 1 /\ id' = (id + k) % IdMod

\* Some packets are lost on their way: fewer than there are numbers.
losePackets(k) ==
    /\ cpc = "running" /\ reader /\ part = "head" /\ gap = "none"
    /\ gap' = IF pos = 1 \/ pos + k > P + 1 THEN "frame" ELSE "some"
    /\ AdvanceDevice(k) /\ UNCHANGED part
    /\ UNCHANGED <<poolVars, controlVars, dpc, working, stable, processorVars, mem, clientVars>>

-----------------------------------------------------------------------------
(* The reader thread: XnDataProcessor::ProcessData, which holds the lock of *)
(* the processor until the chunk is done.                                   *)

FirstChunk == pos = 1 /\ part = "head"
LastChunk == pos = P /\ part = "tail"

\* Mutant of PacketLost: the device's numbers are not looked at.
PacketLost_never == FALSE

\* Number 0 follows the last number, and is expected at any time.
PacketLost == id # lastId + 1 /\ id # 0

\* A head brings the number of its packet; a start of frame forgets what was
\* lost before it.
FrameIsCorrupted == ~FirstChunk /\ (corrupted \/ (part = "head" /\ PacketLost))

\* What a chunk makes of the content it is appended to.  A loss goes unnoticed
\* when number 0 follows it, or when the processor saw no number before it.
Kind(c) ==
    CASE FirstChunk \/ (c.n > 0 /\ gap = "none") -> c.kind
      [] ~FirstChunk /\ c.n > 0 /\ gap = "frame" ->
            IF id = 0 \/ ~numbered THEN "unnoticed" ELSE "mixed"
      [] OTHER -> IF c.kind = "whole" THEN "short" ELSE c.kind

AppendChunk(c) == [n |-> IF c.n < 2 * P THEN c.n + 1 ELSE 2 * P, kind |-> Kind(c)]

\* XnDepthProcessor::OnEndOfFrame: the size is the one expected.  A frame that
\* lacks chunks is too small; of a mixture it cannot be told.  In a buffer
\* smaller than the mode a packet overflows, and the frame is corrupt.
SizeFits(c) == mode <= required /\ (c.kind = "whole" => c.n = 2 * P) /\ c.kind # "short"

\* MarkWriteBufferAsStable, until the frame manager is asked for a new frame.
markStable(content) ==
    /\ mem' = [mem EXCEPT ![data[working]] = content]
    /\ stable' = working /\ dpc' = "acquire"
    /\ corrupted' = FALSE

resetWriteBuffer ==
    /\ mem' = [mem EXCEPT ![data[working]] = Empty]
    /\ corrupted' = TRUE
    /\ UNCHANGED <<stable, dpc>>

readHead ==
    /\ part = "head" /\ part' = "tail"
    /\ lastId' = id /\ numbered' = TRUE /\ gap' = "none"
    /\ UNCHANGED <<pos, id>>

\* Behind the tail of a packet whose head was read before the stream was closed
\* the device is anywhere.
readTail ==
    /\ part = "tail" /\ part' = "head"
    /\ \/ gap = "none" /\ AdvanceDevice(1)
       \/ gap = "frame" /\ pos' \in Positions /\ id' \in Ids
    /\ UNCHANGED <<lastId, numbered, gap>>

\* XnFrameStreamProcessor::ProcessPacketChunk.  A frame ends with its last chunk.
processChunk ==
    /\ cpc \in {"on", "running"} /\ reader /\ ~locked /\ dpc = "packet"
    /\ LET before == IF FirstChunk THEN Empty ELSE mem[data[working]]
           content == IF FrameIsCorrupted THEN before ELSE AppendChunk(before)
       IN  \/ /\ ~LastChunk
              /\ mem' = [mem EXCEPT ![data[working]] = content]
              /\ corrupted' = FrameIsCorrupted
              /\ UNCHANGED <<stable, dpc>>
           \/ LastChunk /\ ~FrameIsCorrupted /\ SizeFits(content) /\ markStable(content)
           \/ /\ LastChunk
              /\ FrameIsCorrupted \/ ~SizeFits(content) \/ content.kind # "whole"
              /\ resetWriteBuffer
    /\ readHead \/ readTail
    /\ UNCHANGED <<poolVars, controlVars, working, clientVars>>

\* Only the thread that acquires knows of the frame until it has its buffer.
Acquiring == \E f \in Frames : use[f] = "acquired"

acquireWorking(f) ==
    /\ dpc = "acquire" /\ ~Acquiring /\ acquireObject(f)
    /\ UNCHANGED sensorVars

replaceWorking(f) ==
    /\ dpc = "acquire" /\ allocFrameBuffer(f)
    /\ working' = f
    /\ mem' = [mem EXCEPT ![data'[f]] = Empty]
    /\ dpc' = "callback"
    /\ UNCHANGED <<controlVars, stable, processorVars, deviceVars, clientVars>>

RoomOut == Cardinality(held \cup dropped) < MaxOut

\* The callback leaves the frame with an application that keeps it: not before
\* start has returned, which sets m_started then.
deliver ==
    /\ dpc = "callback" /\ (cpc = "running" \/ reopening) /\ RoomOut
    /\ held' = held \cup {stable}
    /\ stable' = NoFrame /\ dpc' = "packet"
    /\ UNCHANGED <<poolVars, controlVars, working, processorVars, deviceVars, mem, dropped, opens>>

\* What a frame shows when it is given back does not matter any more.
giveBack(f) == release(f) /\ mem' = [mem EXCEPT ![data[f]] = Empty]

\* Mutant of releaseStable: the driver's reference is never released.
releaseStable_kept ==
    /\ dpc = "callback" /\ dpc' = "packet"
    /\ stable' = NoFrame
    /\ UNCHANGED <<poolVars, controlVars, working, processorVars, deviceVars, mem, clientVars>>

\* Nobody took the frame, or nobody keeps it: the driver's reference is the last.
releaseStable ==
    /\ dpc = "callback" /\ giveBack(stable)
    /\ dpc' = "release"
    /\ UNCHANGED <<controlVars, working, stable, processorVars, deviceVars, clientVars>>

stableReleased ==
    /\ dpc = "release" /\ use[stable] = "free"
    /\ stable' = NoFrame /\ dpc' = "packet"
    /\ UNCHANGED <<poolVars, controlVars, working, processorVars, deviceVars, mem, clientVars>>

-----------------------------------------------------------------------------
(* The control thread opens the stream: XnSensorStreamHelper::Open. *)

AnotherOpen == opens < MaxOpens /\ opens' = opens + 1

\* VideoStream::start: the size that the mode requires, then streamStart.
startStream(n) ==
    /\ cpc = "closed" /\ start(n)
    /\ AnotherOpen /\ mode' = n /\ cpc' = "starting" /\ reopening' = FALSE
    /\ UNCHANGED <<dpc, working, stable, processorVars, deviceVars, mem, held, dropped>>
    /\ UNCHANGED <<threadVars, failures>>

\* A read thread that is left is shut down; a new one is made if m_ActualRead
\* says that there is none.
configureStream ==
    /\ cpc = "starting" /\ cpc' = "configured"
    /\ reader' = ~actualRead /\ actualRead' = TRUE
    /\ UNCHANGED <<poolVars, mode, reopening, locked, failures, dpc, working, stable>>
    /\ UNCHANGED <<processorVars, deviceVars, mem, clientVars>>

\* CreateDataProcessor starts the buffer manager, with a frame of its own.
acquireFirst(f) ==
    /\ cpc \in {"configured", "replacing"} /\ ~Acquiring /\ acquireObject(f)
    /\ UNCHANGED sensorVars

\* The buffer manager has a new frame; the one it had before is forgotten, and
\* nobody releases it.
NewWorking(f) ==
    /\ allocFrameBuffer(f)
    /\ working' = f
    /\ dropped' = dropped \cup ({working} \ {NoFrame})
    /\ mem' = [b \in Buffers |->
                 IF b = data'[f] \/ (working # NoFrame /\ b = data[working])
                 THEN Empty ELSE mem[b]]

\* What a processor starts with.
newProcessor == lastId' = 0 /\ corrupted' = FALSE /\ numbered' = FALSE

\* The processor is new too.  The packets go on anywhere, also within one.
createDataProcessor(f) ==
    /\ \/ cpc = "configured" /\ cpc' = "opened"
       \/ cpc = "replacing" /\ cpc' = "running"
    /\ NewWorking(f)
    /\ newProcessor
    /\ UNCHANGED <<mode, reopening, threadVars, failures, dpc, stable, deviceVars, held, opens>>

\* The device is turned on.  If the connection was read up to the middle of a
\* packet, its rest comes first.
streamOn ==
    /\ cpc = "opened" /\ cpc' = "on"
    /\ id' \in Ids
    /\ \/ part = "head" /\ pos' \in Positions /\ gap' = "none"
       \/ part = "tail" /\ pos' = pos /\ id' = 0 /\ gap' = "frame"
    /\ UNCHANGED <<poolVars, mode, reopening, threadVars, failures, dpc, working, stable>>
    /\ UNCHANGED <<processorVars, part, mem, clientVars>>

\* The last settings; the call returns.
openDone ==
    /\ cpc = "on" /\ cpc' = "running" /\ reopening' = FALSE
    /\ UNCHANGED <<poolVars, mode, threadVars, failures, dpc, working, stable>>
    /\ UNCHANGED <<processorVars, deviceVars, mem, clientVars>>

\* Open fails: the stream is refused or no thread is made, or a later step fails,
\* which leaves m_ActualRead set.  start takes the sensor back; a setProperty
\* leaves a stream that counts as started, still claimed if the step was the one
\* after the processor was made.  A frame of the buffer manager stays with it, but
\* its processor is released, or has not seen a chunk.
openFails ==
    /\ \/ cpc = "starting" /\ UNCHANGED failures
       \/ cpc \in {"configured", "opened", "on"} /\ failures' = failures \cup {"open"}
    /\ dpc = "packet" /\ ~Acquiring
    /\ cpc \in {"opened", "on"} => RoomOut
    /\ IF reopening
       THEN /\ cpc' \in {"stranded"} \cup (IF cpc = "opened" THEN {"unfinished"} ELSE {})
            /\ UNCHANGED poolVars
       ELSE cpc' = "closed" /\ stop
    /\ reopening' = FALSE
    /\ newProcessor
    /\ mem' = [b \in Buffers |-> IF working # NoFrame /\ b = data[working] THEN Empty ELSE mem[b]]
    /\ part' \in IF cpc = "on" THEN {"head", "tail"} ELSE {part}
    /\ pos' \in IF part' = "head" THEN {1} ELSE IF cpc = "on" THEN Positions ELSE {pos}
    /\ id' = 0 /\ gap' = "none"
    /\ opens' = opens - 1
    /\ UNCHANGED <<mode, threadVars, dpc, working, stable, held, dropped>>

-----------------------------------------------------------------------------
(* setProperty of the output format: a new processor, under the lock of the *)
(* old one, which the reader holds while it processes a chunk.              *)

setOutputFormat ==
    /\ cpc = "running" /\ dpc = "packet" /\ RoomOut
    /\ cpc' = "replacing"
    /\ UNCHANGED <<poolVars, mode, reopening, threadVars, failures, dpc, working, stable>>
    /\ UNCHANGED <<processorVars, deviceVars, mem, clientVars>>

\* The new processor is not made after all: the call returns with the lock.
replaceFails(f) ==
    /\ cpc = "replacing" /\ cpc' = "running"
    /\ NewWorking(f)
    /\ locked' = TRUE /\ failures' = failures \cup {"format"}
    /\ UNCHANGED <<mode, reopening, reader, actualRead, dpc, stable, processorVars, deviceVars>>
    /\ UNCHANGED <<held, opens>>

-----------------------------------------------------------------------------
(* The control thread closes the stream: XnSensorStreamHelper::Close. *)

\* Mutant of stopReading: m_ActualRead is not updated.
stopReading_kept == reader' = FALSE /\ UNCHANGED actualRead

\* SetActualRead(FALSE): the read thread ends, if need be in mid-packet.
stopReading == reader' = FALSE /\ actualRead' = FALSE

\* The reader is shut down when it is done with a chunk, and the buffer manager
\* stopped.  Of the packet that is being read the parser keeps its place.
closeStream ==
    /\ dpc = "packet"
    /\ giveBack(working)
    /\ stopReading /\ failures' = failures \ {"open"}
    /\ newProcessor
    /\ pos' = (IF part = "head" THEN 1 ELSE pos) /\ id' = 0 /\ gap' = "none"
    /\ UNCHANGED <<locked, dpc, working, stable, part, held, dropped>>

\* VideoStream::stop.
stopStream ==
    /\ cpc \in {"running", "unfinished"} /\ closeStream
    /\ cpc' = "closing"
    /\ UNCHANGED <<mode, reopening, opens>>

\* setProperty of the video mode, whatever part of it changes, closes the stream
\* and opens it again, without asking for the size that is required now.
setVideoMode(n) ==
    /\ cpc = "running" /\ closeStream
    /\ AnotherOpen /\ mode' = n /\ cpc' = "closing" /\ reopening' = TRUE

closed ==
    /\ cpc = "closing" /\ use[working] = "free"
    /\ IF reopening THEN cpc' = "starting" /\ UNCHANGED poolVars
                    ELSE cpc' = "closed" /\ stop
    /\ working' = NoFrame
    /\ UNCHANGED <<mode, reopening, threadVars, failures, dpc, stable, processorVars>>
    /\ UNCHANGED <<deviceVars, mem, clientVars>>

\* VideoStream::stop of a stream that nobody has claimed: Close does nothing.
stopStranded ==
    /\ cpc = "stranded" /\ cpc' = "closed" /\ stop
    /\ UNCHANGED <<mode, reopening, threadVars, failures, dpc, working, stable>>
    /\ UNCHANGED <<processorVars, deviceVars, mem, clientVars>>

-----------------------------------------------------------------------------
(* The application gives a frame back; a release goes on step by step. *)

releaseHeld(f) ==
    /\ f \in held /\ giveBack(f)
    /\ held' = held \ {f}
    /\ UNCHANGED <<controlVars, dpc, working, stable, processorVars, deviceVars, dropped, opens>>

releaseStep == ReleaseStep /\ UNCHANGED sensorVars

ReaderStep ==
    \/ processChunk
    \/ \E f \in Frames : acquireWorking(f) \/ replaceWorking(f)
    \/ deliver \/ releaseStable \/ stableReleased

\* What the control thread does once it is asked.
ControlStep ==
    \/ \E f \in Frames : acquireFirst(f) \/ createDataProcessor(f) \/ replaceFails(f)
    \/ configureStream \/ streamOn \/ openDone \/ openFails \/ closed

Next ==
    \/ \E k \in 1 .. MaxBurst : losePackets(k)
    \/ ReaderStep \/ ControlStep \/ releaseStep
    \/ \E n \in Sizes : startStream(n) \/ setVideoMode(n)
    \/ setOutputFormat \/ stopStream \/ stopStranded
    \/ \E f \in Frames : releaseHeld(f)

Spec == Init /\ [][Next]_vars

\* The device goes on sending, and no thread stops.  Nobody has to start, to
\* stop or to give a frame back.
FairSpec ==
    /\ Spec
    /\ WF_vars(ReaderStep) /\ WF_vars(ControlStep) /\ WF_vars(releaseStep)

-----------------------------------------------------------------------------
\* "stranded" and "unfinished" are outside a call, of a stream that counts as
\* started but could not be opened again.
ControlPoints == {"closed", "starting", "configured", "opened", "on", "running",
    "replacing", "closing", "stranded", "unfinished"}

TypeOK ==
    /\ PoolTypeOK
    /\ mode \in Sizes \cup {0} /\ cpc \in ControlPoints /\ reopening \in BOOLEAN
    /\ reader \in BOOLEAN /\ actualRead \in BOOLEAN /\ locked \in BOOLEAN
    /\ dpc \in {"packet", "acquire", "callback", "release"}
    /\ working \in Frames \cup {NoFrame} /\ stable \in Frames \cup {NoFrame}
    /\ lastId \in Ids /\ corrupted \in BOOLEAN /\ numbered \in BOOLEAN
    /\ pos \in Positions /\ id \in Ids /\ part \in {"head", "tail"}
    /\ gap \in {"none", "some", "frame"}
    /\ mem \in [Buffers -> [n : 0 .. 2 * P, kind : Kinds]]
    /\ held \subseteq Frames /\ dropped \subseteq Frames
    /\ opens \in 0 .. MaxOpens /\ failures \subseteq {"open", "format"}

Delivered == held \cup (IF dpc = "callback" THEN {stable} ELSE {})

\* Every frame the application gets shows one picture, and shows it as long as
\* it is held, whatever packets are lost, wherever in a packet a processor is
\* replaced or the stream reopened, and whatever the driver fills meanwhile.
\* Only what packet number 0 follows, or what a new processor has not seen the
\* number of, can be missing unnoticed, and only if the frame has the right size
\* (XnDataProcessor.cpp, ProcessData).
FramesAreWhole ==
    \A f \in Delivered :
        LET c == mem[data[f]] IN c.kind = "unnoticed" \/ c = [n |-> 2 * P, kind |-> "whole"]

\* The driver, the application and a release know of every frame in use, but
\* for those that a new processor has made the driver forget, which are lost
\* for good (XnFrameBufferManager.cpp, Start).
FramesAreHeld ==
    /\ \A f \in Frames : use[f] = "used" =>
          f \in {working, stable, releasing} \cup held \cup dropped
    /\ working # NoFrame /\ working = stable => dpc = "acquire"
    /\ held \cap ({working, stable} \cup dropped) = {}

\* After some time no packets are lost any more.
LossesEnd == <>[][\A k \in 1 .. MaxBurst : ~losePackets(k)]_vars

\* A stream that is left running delivers again and again, after whatever
\* losses, stops and reopenings, unless its resolution was raised while it was
\* running, for which the core still hands out frames of the size that start
\* asked for; unless an Open has failed since m_ActualRead was last reset, which
\* leaves the stream without a read thread; and unless a setProperty that failed
\* has kept the lock of the processor.
FramesKeepComing ==
    LossesEnd /\ <>[](cpc = "running" /\ mode <= required /\ failures = {})
        => []<>(dpc = "callback")

\* "Start generating data from the stream": a stream that was started, and is
\* not disturbed any more, delivers, whichever calls failed before.
StartedStreamDelivers ==
    LossesEnd /\ <>[](cpc = "running" /\ mode = required /\ ~locked)
        => []<>(dpc = "callback")
=============================================================================
