# Water Harp: models, checks and proofs

The Water Harp is an instrument whose strings are streams of water. A depth
camera looks at 16 falling streams; a hand in a stream plays a note over MIDI.
Next to it stands a board with 16 solenoids that drops pictures in water, line
by line. This directory holds TLA+ models of that code, their model-checking
configurations for TLC, and proofs checked by TLAPS. `PROJECT.json` lists
components, runs, mutants, findings, hazards and theorems, and says which lines
of the source each definition stands for.

## The system

| Component | Source | State | Operations | Module |
|---|---|---|---|---|
| Main loop | `WaterHarp.py` | the depth map, the screen texture, the list of volumes | `run`: get a map, show it, bin it, call `play_notes` | `WaterHarp`, `WaterHarpVision` |
| Sound | `WaterHarpAudio.py` | the volumes of the last frame; (outside) what the synthesizer sounds | `play_notes`, `all_notes_off`, `play_note`, `stop_note` | `WaterHarpAudio`, abstract `HarpGate` |
| Camera controls | `DepthCamera.py` | range, zoom, aim, `refreshGUI` | OSC handlers; `setGUI`; zoom and pan in `get_depth` | `DepthControls` |
| Camera capture | `DepthCamera.py` | `savecnt`, `saveDepth` | `captureHandler`; the first half of `get_depth` | `DepthCapture` |
| Camera binding | `DepthCameraOpenNI.py` | the depth stream | `start`, `stop`, `get_dmap` | the started stream of `OniStream` |
| Frame delivery | OpenNI2 `Source/Core`: `OniStream`, `OniStreamFrameHolder`, `OniFrameManager`, `OniContext`, `OniSensor` | last frame, reference counts, two kinds of events, `m_started` | driver callback, `readFrame`, `start`, `stop`, `frameRelease` | `OniStream`, abstract `FrameMailbox` |
| Frame buffers | OpenNI2 `Source/Core/OniSensor.cpp`, `OniFrameManager` | the pool, the frames out, the required size | `acquireFrame`, the callbacks of the last release, `setRequiredFrameSize` | `FramePool` |
| Commands to the camera | OpenNI2 `Drivers/PS1080/Sensor/XnHostProtocol.cpp` | `nId`, `hExecuteMutex`, two USB pipes | `XnHostProtocolInitHeader`, `XnHostProtocolExecute` with its retries | `HostProtocol` |
| Frame path of the depth stream | OpenNI2 `Drivers/PS1080`: `XnDataProcessor` and its holder, `XnFrameStreamProcessor`, `XnDepthProcessor`, `XnFrameBufferManager`, `XnSensorStreamHelper`, `XnSensorDepthStream` | working and stable frame, last packet number, the corrupt mark; the read thread, `m_ActualRead`, the lock of the processor | a chunk of a packet is processed; a stream is opened, closed, reopened, given a new processor, and each of these fails | `SensorFrames` |
| Water board | `Arduino/WaterDrip/WaterDrip.ino`, `all.h` | pins, supply, `cur`, the line shown | `setup`, `loop`, `showmessage`, `showline` | `WaterDrip` |
| Menu, sensors, DMX/RDM, display | `WaterDrip.ino` | menu position, sensor cache, unit number | `oldloop`, `menu`, `sensorupdate`, `cycle` | not modelled |
| Strobe | `Strobe_Water_Harp.ino` | none | a fixed pulse | not modelled |
| Rest of OpenNI2 | other drivers and streams, USB parser, recorders, synchronized streams, context, XnLib, wrappers, samples, tools | | | not modelled |
| libusb, sounds, pictures, scripts | | | | not modelled |

How they interact: `WaterHarp.run` is one thread. It calls `get_dmap`, which
blocks in `Context::readFrame` until the driver's thread has put a frame into
the stream's holder; and it calls `play_notes`, which sends MIDI messages to a
synthesizer that outlives the process. Below the holder, the driver's reader
thread puts packets together to frames in buffers of the sensor's pool and hands
each finished frame to the callback that `OniStream` starts with; the pool gets
a buffer back when the last holder of its frame releases it. Starting,
stopping and configuring the camera are commands of the host protocol. `DepthCamera` is also written to be
driven by an application with an OSC server: its handlers run in the server's
thread and share attributes with `get_depth` and `setGUI` without a lock. (No
code of the repository calls `addOSCHandlers`, `setGUI` or `get_depth`; the two
modules about them assume an application that calls `setGUI` when `refreshGUI`
is set and `get_depth` in its loop, as those names and the flag say.) The water
board shares nothing with the harp; it takes characters from a serial line.

What is hard: notes are decided from differences between frames and the
synthesizer remembers what it was told, so one wrong step hangs a note for ever
and a crash leaves notes behind; comparisons of different strictness meet at the
same thresholds; lock-free sharing between the OSC and application threads; in
the core, frames pass through a driver thread, a controlling thread and reader
threads with two auto-reset events and a lock between them, while buffers are
released by any thread and resized by another; in the driver, packets are lost,
answers come late, twice or not at all, and streams are closed and opened again
under the reader; on the board, one character is read per picture and a picture
is cut short by any character.

What makes each part correct:

- sound: between frames, exactly the notes of the interrupted streams sound;
  held notes are not struck again; silence ends everything;
- picture: every column belongs to one stream; volumes arrive at the index of
  their stream; what is painted green sounds; a higher hand is not quieter;
- capture: files have the asked number of consecutive frames and are not
  written unasked; a request is served;
- controls: the range stays open; the interface ends up showing what is set; the
  patch fits;
- delivery: reference counts count holders; no wakeup is lost; a stopped
  stream holds no frame; a read returns a frame;
- buffers: no buffer has two owners, none is lost, and a frame has a buffer of
  the size asked for;
- commands: a call takes the answer to itself, whole, and returns;
- frame path: what is delivered shows one picture, nothing is leaked, frames
  keep coming whatever was lost;
- board: no water without a line of a picture; the last command typed wins and
  its picture is shown whole.

## Modules

| Module | What it is |
|---|---|
| `HarpStreams` | `NUM_STREAMS`, shared by the two halves of the harp |
| `HarpGate` | abstract: what a player is promised |
| `WaterHarpAudio` | `WaterHarpAudio.py`, one action per loop iteration; `Gate` maps it to `HarpGate` |
| `WaterHarpVision` | pure operators: mask, bins, windows, volumes, the green pixels |
| `WaterHarp` | `run`: composes the two by EXTENDS; each action of the audio half is one of the loop's |
| `DepthCapture`, `DepthControls` | the two concurrent parts of `DepthCamera.py` |
| `FrameMailbox` | abstract: what the users of a stream are promised about its frames |
| `OniStream` | one stream of the OpenNI2 core with its threads; `Mailbox` maps it to `FrameMailbox` |
| `FramePool` | frame objects and buffers of one sensor, used by anybody in any order |
| `SensorFrames` | the driver's frame path; EXTENDS `FramePool` and is shown to implement it |
| `HostProtocol` | threads that execute commands over the USB pipes |
| `WaterDrip` | the firmware, with serial line, reset and supply |
| `MC...` | instances for TLC |
| `WaterHarpAudioProofs`, `WaterHarpProofs` (with those of `WaterHarpVision`), `WaterDripProofs`, `DepthCaptureProofs`, `DepthControlsProofs`, `OniStreamProofs`, `SensorFramesProofs` (with those of `FramePool`), `HostProtocolProofs` | theorems and proofs |

How state and actions correspond to the code is said at each definition. Names
are those of the source. Operators named in the comment as a *mutant* of
another are not part of the specification: each is a plausible bug that breaks
one of the properties.

Modelling choices worth knowing:

- *Volumes are in hundredths*, because `np.round(_, 2)` is their only source.
  The sum test of `play_notes` is then "all are 0"; `MCWaterHarp` checks that
  against the sum. Where a mean lies half way between two hundredths,
  binary floating point decides: `volumes` is a set with both neighbours.
- *A process may die anywhere* (`Die`, `HarpDies`): an exception of the camera is
  not caught. The synthesizer keeps sounding. `stuck` is a history variable with
  the notes a dead process left; a new process does not know of them, and the
  properties say what it does answer for.
- *`DepthControls` and `DepthCapture`*: each read and each write of a shared
  attribute is a step, as between two Python byte codes. The handlers check
  nothing, so the numbers of a message are any fractions, of either sign:
  `DepthControls` counts them in `1 / Unit`, and places on the sensor in
  `1 / (2 * Unit)` pixel, in which `sz / 2` and the center are whole. A zoom of
  0 raises in `get_depth` (`divideByZero`), one below 1 gives a patch longer than
  the sensor, one below 0 a patch with no pixel. Whether the caller of
  `get_depth` survives an exception is left open.
- *`OniStream`*: every lock makes one action; what happens between a lock and
  a wait is another. `exclusive` distinguishes a sensor with one stream whose
  driver's `streamStop` waits for the callback in flight (PS1080 joins its read
  thread) from all others. One thread starts and stops the stream. Left out:
  recorders, the listener thread for new-frame callbacks, finite timeouts,
  `frameAddRef` by applications, destruction of the stream.
- *`FramePool`*: a frame is acquired and released once; counting is the subject
  of `OniStream`. A release holds the lock of the `FrameManager` from its first
  step to its last, and reads `freeBufferFunc` without the lock of the pool, so
  the read and the use of it are two steps. `stray` is a history variable: the
  buffers whose release crossed a change of size.
- *`SensorFrames`, what is read*: a frame has `P` packets, each of two chunks: a
  head with the number, and a tail. The reader takes the lock of the processor
  for each chunk (`XnDataProcessorHolder`), so a processor can be replaced
  within a packet. Of the packet it is reading the parser keeps its place when
  the stream is closed, and takes what comes after the next Open for the rest.
  A buffer has a content that is whole, short, or a mixture of two frames. A
  mixture is told apart (`unnoticed`) when packet number 0 follows the loss,
  since the processor accepts that after any other, or when the processor has
  seen no number before it. Whether a mixture has the size of a frame is left
  open.
- *`SensorFrames`, the control thread*: there is one. `Open` is
  `configureStream`, `createDataProcessor`, `streamOn` and `openDone`, and may
  fail behind each of the first three and before them (`openFails`);
  `m_ActualRead` stays set if it fails after the first. A failed start gives the sensor
  back; a failed `setProperty` leaves a stream that counts as started, claimed
  or not (`unfinished`, `stranded`). A new processor that is not made leaves the
  lock of the processor with a call that has returned (`replaceFails`), and from
  then on the reader is blocked. The commands that close a stream are taken to
  succeed. `failures` is a history variable: the failures whose effect lasts.
- *`HostProtocol`*: the unit of a read is a packet; pipes are FIFO; the device
  may answer, refuse, not be ready, or leave it. Callers of the `Silent` commands
  pass no `ppRelevantBuffer`: `Execute` returns after the header, and the rest of
  the answer stays in the pipe. `nId++` is a read and a write,
  outside the mutex. The call number a packet carries is there for the
  properties only.
- *`WaterDrip`*: a line is the set of its 1 bits, a character its distance from
  `'0'`. Time is not modelled: a delay is a point where characters can arrive.
  `showline` names a table `ord` that this commit declares only inside `cycle`,
  and `all.h` includes `shd.h`, which is not in the repository, so the sketch
  does not build as committed; the model takes the table of `cycle`, the only
  one there is.

## Runs

Every property of a passing run has a mutant of the code that breaks it.

| Run | Instance | What it shows |
|---|---|---|
| `harp` | 3 streams over a 6 x 4 map, depths 454, 455, 909, 910, 22 scenes, deaths and restarts | for the audio half, `OwnedMatchesFrame`, `HeldNoteNotRestruck` and the refinement `ImplementsGate`; for the whole loop, from picture to sound (`SceneIsHeard`), screen against sound (`GreenIsHeard`), each hand pixel counted once (`HandCountsOnce`), the direction of volume, and under fairness `HandIsHeard` and `SilenceSettles` (21,758 states) |
| `drip` | 3 pictures, characters -1..3, 3 waiting | water only with a line, commands in order, the last command plays (9,504 states) |
| `oni` | 2 readers, 4 frames | reference counts, announcement of frames, the empty holder, and that counting gives every frame one owner (`ImplementsMailbox`), through starts and stops (34,591 states) |
| `oni_read` | 2 readers, started | while one thread alone has read the stream, as in the harp, every read returns a frame (`LoneReaderGetsAFrame`); with two, no lost wakeup keeps frames from both (`FramesReachAReader`; 53,854 states) |
| `oni_two` | 2 readers, started | **violation**: a read returns no frame |
| `capture` | 20 frames per file, frame numbers modulo 23 | whole files, asked for, and served (34,822 states) |
| `controls` | in halves: distances 500 and 505, zooms -1.5, 0, 0.5, 1 and 3, aims -0.5, 0 and 1.5 | the range (`RangeIsOpen`), the interface (`GuiIsCurrent`), the clamp for every size of the patch (`ClampedViewFits`), and that a patch shows one setting, the last one (`ViewIsAsAsked`), through every interleaving (4,045,536 states) |
| `aim` | as `controls` | **violation**: the patch is not cut around the center |
| `host` | 2 threads, 2 calls, a command with one answer packet, one with two, and one with two of which the caller wants the header only; ids modulo 4 | a call takes the answer to itself (`AnswerIsMine`), whole (`AnswerIsWhole`), and returns (`ExecuteReturns`; 249,727 states) |
| `sensor` | 3 frames, 3 buffers, 2 sizes, 2 packets a frame, numbers modulo 3, any losses of up to 2 packets, 2 opens and any that fail | whole frames (`FramesAreWhole`), exclusive buffers, no stray one but those that cross a change of size, no leak but the known ones, and frames that keep coming after losses, stops, reopenings, new processors and failures that leave no trace (`FramesKeepComing`; 1,123,436 states) |
| `sensor_restart` | as `sensor`, one size | **violation**: a started stream never delivers |
| `pool_fit` | 3 frames, 4 buffers, 2 sizes | **violation**: a frame in a buffer of the old size |

Why the bounds are enough. Streams are treated alike and only their volumes
tell them apart: three show a swap and a bystander. The hands of the widest
stream are low, high, or over both rows. With two rows no volume falls below
0.80, so no velocity needs the floor of 40: a volume of 0.30 takes a hundred
rows, and `AudioTypeCorrect` proves the floor for every volume. The depths lie
on both sides of `NEARTHRESH` and of `THRESHOLD`. The small map has a border
around the streams and streams of one and of two columns, so rounding and edges
matter; the real geometry is covered by the proofs of `StreamsTileThePicture`
and `HandCountsOnce`. Four frame objects are one more than the parties that
hold one (driver, holder, two readers), so the pool never runs dry, as the
growing pool of the code never does. `SerialBound` bounds the characters
waiting; the code takes one at a time, so three give a first, a middle and a
last. `Serials` only has to exceed the frames of a file. Frames and readers are
symmetric in the safety run of `OniStream`; the liveness run uses no symmetry.
In `host` two calls are an earlier one that leaves something in a pipe and a
later one that meets it, by one thread or by two; two of the five send attempts
and two of the three not-ready attempts are a retry and the last; two calls do
not use up four ids, so an id is given twice only by the race of `nId++`, and
both cases occur. In `controls` halves suffice for a zoom that lies between 0
and 1; the aims are the center and places half way to an edge and beyond one,
so every branch of the clamp is taken with patches that fit, that are as long
as the sensor and that are longer. In `sensor` the numbers of packets are
coprime to the packets of a frame, so they wrap at every place of one; a loss
of two packets can take the end of a frame and the start of the next. Two opens
are a stream that is started, stopped and started, or reopened, with another
size. `MaxOpens` counts the calls that do not fail, so failed opens come
before, between and after those two, and a stop and a start that recover from
one are within the bound. The three frames are the one being filled, the one
being delivered and one that the application keeps or the driver has forgotten
(`MaxOut`). A stream is turned on in mid-frame, with any number, or behind the
stale rest of a packet, so the reader meets missing starts and wrong numbers
also without losses. The state spaces of `host` and of the `sensor` runs are
finite because calls and opens are bounded, so their runs end and deadlock is
not checked in them (`CHECK_DEADLOCK FALSE`); it is in every other run.

Fairness. `WaterHarp!FairSpec`: the loop keeps running while its process lives
- the camera streams and nothing else is waited for; the environment may kill
the process for ever, and the properties ask that it does not.
`WaterDrip!FairSpec`: the board never stops its loop, delays end.
`OniStream!StartedSpec`: the driver thread goes on, since a started camera
takes pictures, and a reader inside `readFrame` goes on when it is not waiting;
nothing forces a reader to call. `DepthCapture!Spec`: the application goes on
calling `get_depth`; nobody need press the button. `HostProtocol!FairSpec`: a
thread inside a call goes on, since every read and write of a pipe has a
timeout; nothing is assumed of the device. `SensorFrames!FairSpec`: the device
sends while it is on, the reader processes and does not wait for a lock that
was kept, and calls of the control thread and releases that have begun go on;
nobody has to start, stop or give a frame back. All of it is weak fairness.
`FramesKeepComing` supposes that at some time no more packets are lost
(`LossesEnd`), and makes three exceptions. A mode larger than the size the core
was told at the last start: setting a larger resolution on a running stream
reopens it without renewing that size, and then every frame overflows its
buffer and is dropped (`XnSensorStreamHelper.cpp:396`). An Open that failed
behind `SetActualRead(TRUE)`: until the next Close the driver believes in a
read thread, and the stream may have none (finding 4). A lock of the processor
that a `setProperty` kept: the reader waits for it for ever
(`XnSensorStreamHelper.cpp:333`).

## Findings

1. `StreamFrameHolder::readFrame` consumes the new-frame event before it locks
   the holder. With two threads reading one stream, one can take the frame that
   the event of the other announced; the other then returns `ONI_STATUS_OK`
   with a NULL frame, where `OniCAPI.h` and `OpenNI.h` say the call blocks until
   there is a frame (run `oni_two`). With one reader this cannot happen:
   theorem `LoneReaderAlwaysGetsAFrame`. The harp has one reader.
2. `DepthCamera.get_depth` passes (rows, columns) to `cv2.getRectSubPix`, which
   takes (x, y) and (width, height): with the aim at its center the patch is cut
   around x = 120, y = 160 of a 320 x 240 picture (run `aim`). The argument order
   of OpenCV is an external fact of the model (`PatchX`, `PatchY`).

3. `Sensor::frameBackToPoolCallback` reads `freeBufferFunc` without the lock
   under which `releaseAllFrames` changes it. A release that crosses a start with
   another frame size puts its old buffer into the pool that was just emptied,
   and a frame of the new size gets it; `OniSensor.cpp:88` says of the old frames
   "They can't be used anymore" (run `pool_fit`). Theorem `PoolStrayFramesOnly`:
   nothing else gives a frame the wrong buffer.

4. `XnSensorDepthStream::SetActualRead` does nothing when `m_ActualRead` has the
   value asked for, and no failure path of `Open` resets it. After a start that
   failed behind it, the next start shuts the read thread down
   (`XnSensorDepthStream.cpp:324`), makes no other (`:371`) and returns success:
   the stream never delivers, where `OpenNI.h:794` says "Starts data generation
   from this video stream" and `OniCAPI.h:104` "Start generating data from the
   stream" (run `sensor_restart`). Stopping the stream and starting it once more
   helps.

What the properties of passing runs say of known weaknesses: a mixture of two
frames is delivered if packet number 0 follows the loss, or if a new processor
has seen no number before it (`FramesAreWhole`); a new
processor or an Open that failed leaves a frame behind for good
(`FramesAreHeld`); the rest of an answer is read after the mutex was released
(`AnswerIsWhole`); two threads can use one id (`AnswerIsMine`); a refresh or a
capture asked for in a certain window is forgotten (`GuiIsCurrent`,
`CaptureIsServed`); a message that is handled while `get_depth` reads the controls can
mix two settings in one patch (`ViewIsAsAsked`); a zoom below 1 cuts a patch
that reaches beyond the sensor (`ClampedViewFits`).

Also seen, and in no run: `Strobe_Water_Harp.ino` says "one mS per second" and
"wait for a second" and waits 20 ms; `getButtons` says it returns a bit string
and returns the first button only, by the precedence of `?:`;
`XnHostProtocolInitUpload` ignores what `Execute` returned and reads through a
pointer that may be NULL (`XnHostProtocol.cpp:2084`); an early return leaves a
lock held (`XnFrameBufferManager.cpp:124`);
`CloseStreamImpl` returns at the first command that fails, with the stream half
closed (`XnSensorDepthStream.cpp:437`).

## Proofs

All proofs hold for every value of the constants under the named assumptions of
the modules (`NumStreamsAssumption`, `VolumesAssumption`, `GeometryAssumption`,
`ThresholdAssumption`, `FramesAssumption`, `HarpVolumesAssumption`,
`PicturesAssumption`, `CaptureAssumption`, `ControlsAssumption`, `OniAssumption`,
`PartiesAssumption`, `PoolAssumption`, `SensorAssumption`, `HostAssumption`), which TLC evaluates on every run.

- `WaterHarpAudioProofs`. `OwnedMatchesFrame` is not inductive: inside the loop
  the notes of the streams before `idx` already follow the new frame and the
  others still the old one. `AudioInv` says that, and that no owned note is
  stuck. From it: `AudioTypeCorrect`, `FramesAreHeard`, `HeldNotesAreLeftAlone`,
  and `AudioImplementsGate`, whose steps map `play_note` to `Start`, `stop_note`
  to `Stop`, `start_notes` to `Look`, the reset to `Hush`, death to `GoDown`, and
  the rest to stutters. It needs that two streams never share a note, which
  holds because the scale is strictly rising.
- `WaterHarpProofs`, the picture. `BinsTile`: the integer cuts are monotone and
  strictly so when there are at least as many columns as streams, so every
  column lies between two neighbouring cuts. `HandsAreLoud`: the mean row of a
  hand lies above the last row of its window, so its volume is at least 0.30.
  `RaisedIsLouder`: `Rows` counts the cells above a hand; raising the hand by a
  row takes away one cell for each pixel, which is a bijection between the rest
  and the cells above the raised hand, and rounding keeps the order.
  `RowsAddUp`: `Rows` of no pixel is 0, and one pixel more adds its row, since
  the cells above it are cells of no other pixel. These two equations are what
  makes `Rows` the sum of the code.
- `WaterHarpProofs`, the loop. `HandsCountOnce`: a masked pixel is never below the
  threshold, so a stream counts the hand pixels of its window, and the windows
  tile by `BinsTile`. `SceneIsHeard` speaks of the top of the loop only; what
  makes it inductive is `HarpInv`: the volumes built so far tell which streams
  the depth map shows interrupted, and so does the frame the audio half is
  playing or has played. Every step of the loop is a step of the audio half or
  none (`HarpImplementsAudio`), so `AudioInv` carries over. From these:
  `HarpTypeOK`, `ScenesAreHeard`, `GreenHandsAreHeard`, `RaisedHandsAreLouder`;
  and what is proved of the audio half becomes a theorem of the harp:
  `HarpImplementsGate`, `HarpLeavesHeldNotesAlone`.
- `WaterDripProofs`. `NoCommandLost` names the last command waiting; that there
  is one is part of `DripInv` (`LastWaits`, `NoneWaits`), which a read moves down
  by one place. `WaterIsShown` needs that setup enables the supply only while
  every pin is low. From it: `DripTypeOK`, `CommandsAreKept`, `WaterIsShown`.
  `LinesAreToldApart`: the table `ord` has an inverse (`bitOf`), so `showline`
  maps different lines to different sets of solenoids.
- `DepthCaptureProofs`. `FilesAreWhole` looks at the file written last;
  `CaptureInv` says the same of the frames being collected: how many there are
  at each line of `get_depth` (`Collected`), that they follow each other and the
  frame being looked at follows them, and that `savecnt` asks for more as long as
  any are there, so none is left out. The button can only set `savecnt` to what it
  is then. From it: `CaptureTypeOK`, `CapturesAreWhole`, `CapturesWereAsked`.
  `RequestsAreKept` is the safety half of `CaptureIsServed`: a request that is
  owed a file keeps `savecnt` up until that file is written.
- `DepthControlsProofs`, for every fraction as distance, zoom and aim.
  `RangeIsOpen` and `ClampedViewFits` are inductive with
  the types. `CenterFits` is what `clampCenter` establishes for every center and
  every half side that is not negative: the patch fits, or covers the sensor if
  it is longer (`HalfSides`: half a side of the patch is not negative where the side is not).
  `GuiIsCurrent` is not inductive: `GuiInv` adds that, line by line of `setGUI`,
  the controls sent so far are shown unless one changed since (`Sent`), and that
  `raced` notes every such change (`ChangesNoted`). Nor is `ViewIsAsAsked`:
  `ViewInv` adds that, read by read of `get_depth`, what was read is what is set
  unless a message crossed, and that the aim is the one asked for except between
  its two writes. From these: `ControlsTypeOK`, `RangeStaysOpen`,
  `GuiStaysCurrent`, `ViewsFit`, `ViewsAreAsAsked`.
- `OniStreamProofs`. `OniInv` joins the type, the exact counts, the
  announcement, where a frame may be at each program counter, and what stop
  leaves behind. The lemmas about `Cardinality` say how a set of holders changes
  when one joins, leaves or hands over. From it: `OniTypeCorrect`,
  `FramesAreCounted`, `FramesAreAnnounced`, `StopEmptiesHolder`. For one reader,
  `LoneReaderAlwaysGetsAFrame` adds that an event the reader has consumed leaves
  a frame in the holder, since nobody else takes it. `OniImplementsMailbox`:
  `acquireFrame` maps to `Fill`, `processNewFrame` to `Post`, `releaseFrame` to
  `LetGo`, a reader's locked step to `Take`, `frameRelease` to `GiveBack`, the
  clears to `Clear`, a callback that finds the stream stopped to `Skip`, the rest
  to stutters. The step that needs the invariant is `acquireFrame`: that a count
  of 0 means nobody has the frame is `RefCountsExact`. `FramesHaveOneOwner` then
  follows from the mailbox alone. `WakeupsAreKept` is the safety half of
  `FramesReachAReader`: who waits behind a frame has its event set or coming,
  because it registered before it looked.
- `SensorFramesProofs`, the pool. `PoolInv` joins the two properties with the life of a frame
  (acquired while the sensor is started, known to it while it may return its
  buffer to the pool, released once) and the sizes: what is in the pool, or on
  its way there, has the required size unless it is stray. From it:
  `PoolBuffersAreExclusive`, `PoolStrayFramesOnly`.
- `SensorFramesProofs`, the driver. `SensorImplementsPool`: each step of the three threads is
  a step of the pool or a stutter, so `PoolInv` carries over. `SensorInv` adds
  what each thread holds at each of its points (`ThreadsOK`), that a call that
  fails has been counted before (`OpensOK`), and what the content of the
  working buffer, the last number and the number of the next packet say about
  packets lost (`NumbersTell`; `GapShows`: a loss that does not end at number 0
  shows to a processor that has seen a number). From it:
  `SensorTypeOK`, `SensorFramesAreWhole`, `SensorFramesAreHeld`,
  `SensorBuffersAreExclusive`, `SensorStrayFramesOnly`.
- `HostProtocolProofs`. `HostInv` ties every request and every packet in the
  pipes to a call and its id in `used`, and says that the packets of an answer
  stay in order and together. From it: `HostTypeOK` (with mutual exclusion),
  `AnswersAreMine`, `AnswersAreWhole`.

Only model-checked: all liveness (`HandIsHeard`, `SilenceSettles`,
`LastCommandPlays`, `FramesReachAReader`, `CaptureIsServed`, `ExecuteReturns`,
`FramesKeepComing`), which the prover does not do under fairness.
Every invariant and every other action property that a passing run checks is a
theorem for all values of the constants. That the two equations of `RowsAddUp`
give the sum of a whole hand is an induction over its pixels, which the prover
cannot do; `MCWaterHarp` checks it on every set of pixels of a window.
`DepthControls!TypeOK` is proved (`ControlsTypeOK`) and in no run.

## Plan

Done, in this order: `WaterHarpAudio` with `HarpGate`; `WaterHarpVision` and
`WaterHarp`; their proofs; `WaterDrip`; `OniStream` and its proofs;
`DepthCapture`, `DepthControls`; `HostProtocol`, `FramePool`, `SensorFrames` and
their proofs; the proofs of the whole loop and of `WaterDrip`; the proofs of
`DepthCapture` and `DepthControls`; `FrameMailbox` and the proof that `OniStream`
implements it.

Next, to model:

1. `OniSyncedFrames` - `OniSyncedStreamsFrameHolder.cpp`: the latch of last and
   synced frames of two streams. Abstract specification: pairs of frames with
   one index. Properties: reference counts, the frames of a pair agree, no
   latched frame is lost or leaked, a reader that saw a frame gets one.
2. `OniRecorder` - the message queue of `OniFileRecorder.cpp`: start, record,
   detach and stop against the recorder thread; references of queued frames.
3. `OniContext` - initialisation count, device list, the locks taken by
   shutdown, destruction and the driver callback: deadlock freedom.
4. The USB packet parser (`XnDeviceSensorProtocol.cpp`: its search for the magic
   of a packet, which `SensorFrames` takes to succeed) and the read thread
   (`XnLinuxUSB.cpp`) below `SensorFrames`; `CreateTimestampFromDevice`.
5. `WaterMenu` - buttons, menu, unit number and sensor cache of `WaterDrip.ino`,
   which nothing calls at this commit.
6. `OniStream` with the destruction of the stream and the listener thread; the
   single commands of `XnHostProtocol.cpp`; the seek and playback of
   `PlayerDevice`.

Next, to prove: the safety halves of `ExecuteReturns` and `FramesKeepComing`
(what stands between a call and its return, and between a loss and the next whole
frame), for every value of the constants; an abstract specification of a command
and its answer that `HostProtocol` implements while ids are unique; the safety of
the modules above.

Not to be modelled: libusb, everything under `ThirdParty` and the OpenGL headers
are vendored; wrappers, samples and tools call the C API one to one; sounds,
pictures and scripts are data. They are most of the lines of the repository.

## Running

    tlc -config MCWaterHarp.cfg MCWaterHarp
    tlapm OniStreamProofs.tla
