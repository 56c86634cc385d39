--------------------------- MODULE WaterHarpAudio ---------------------------
(***************************************************************************)
(* WaterHarpAudio.py: the MIDI half of the harp.  play_notes compares the  *)
(* volumes of this frame with those of the last one and sends note_on /    *)
(* note_off for the streams that changed, one message per loop iteration,  *)
(* or resets the port when the whole frame is silent.                      *)
(*                                                                         *)
(* Volumes are in hundredths: np.round(_, 2) in WaterHarp.run is the only  *)
(* source of them.  So the comparisons of the code with 0.001 become       *)
(* comparisons of 10 * volume with 1.                                      *)
(*                                                                         *)
(* The process may die at any point (a camera error that nobody catches, a *)
(* ^C): it sends nothing then, and the synthesizer that listens to the     *)
(* port keeps sounding what it was told to sound.                          *)
(***************************************************************************)
EXTENDS HarpStreams, Sequences

CONSTANT Volumes   (* the volumes a frame can give a stream, in hundredths *)

ASSUME VolumesAssumption == Volumes \subseteq 0..100 /\ 0 \in Volumes

VARIABLES
    last_kinect_array, (* self.last_kinect_array: the volumes of the last frame *)
    kinect_array,      (* the argument of the call of play_notes in progress *)
    idx,               (* the loop variable of play_notes *)
    audioPc,           (* "idle": play_notes is not running; "notes": in its loop;
                          "down": the process is not running *)
    midi,              (* the synthesizer: velocity of each note, 0 when silent *)
    stuck              (* history: notes left sounding by a process that died,
                          and neither struck nor silenced since *)

audioVars == <<last_kinect_array, kinect_array, idx, audioPc, midi, stuck>>

C_MIXOLYDIAN_SCALE == <<48, 50, 52, 53, 55, 57, 58, 60, 62, 64, 65, 67, 69, 70, 72, 74>>

\* The note of a stream, and the notes the harp can play.
Note(i) == C_MIXOLYDIAN_SCALE[i]
Notes == {Note(i) : i \in Streams}

Arrays == [Streams -> Volumes]
Zeros == [i \in Streams |-> 0]

\* sum(kinect_array) < .0005: a sum of hundredths is that small only when
\* every term is 0 (MCWaterHarp checks it against the sum itself).
Silent(array) == \A i \in DOMAIN array : array[i] = 0

\* Mutant of Velocity: scaled by the number of velocities, not by the highest.
VelocityOf128(volume) ==
    LET v == (128 * volume) \div 100 IN IF v > 40 THEN v ELSE 40

\* max(int(127 * volume), 40)
Velocity(volume) ==
    LET v == (127 * volume) \div 100 IN IF v > 40 THEN v ELSE 40

\* The notes the synthesizer is sounding, and those this process answers for.
Sounding == {n \in Notes : midi[n] > 0}
Owned == Sounding \ stuck

-----------------------------------------------------------------------------
AudioInit ==
    /\ last_kinect_array = Zeros
    /\ kinect_array = Zeros
    /\ idx = 1
    /\ audioPc = "idle"
    /\ midi = [n \in Notes |-> 0]
    /\ stuck = {}

\* Mutant of all_notes_off: the early return forgets to remember the frame.
all_notes_off_forgets(array) ==
    /\ audioPc = "idle"
    /\ Silent(array)
    /\ midi' = [n \in Notes |-> 0]
    /\ stuck' = {}
    /\ UNCHANGED <<last_kinect_array, kinect_array, idx, audioPc>>

\* Mutant of all_notes_off: stops the notes of this process one by one instead.
all_notes_off_own(array) ==
    /\ audioPc = "idle"
    /\ Silent(array)
    /\ midi' = [n \in Notes |-> IF n \in stuck THEN midi[n] ELSE 0]
    /\ last_kinect_array' = array
    /\ UNCHANGED <<kinect_array, idx, audioPc, stuck>>

\* all_notes_off: mido's reset() silences every channel.
all_notes_off(array) ==
    /\ audioPc = "idle"
    /\ Silent(array)
    /\ midi' = [n \in Notes |-> 0]
    /\ stuck' = {}
    /\ last_kinect_array' = array
    /\ UNCHANGED <<kinect_array, idx, audioPc>>

start_notes(array) ==
    /\ audioPc = "idle"
    /\ ~Silent(array)
    /\ kinect_array' = array
    /\ idx' = 1
    /\ audioPc' = "notes"
    /\ UNCHANGED <<last_kinect_array, midi, stuck>>

\* A call of play_notes up to its loop, which the actions below run.
play_notes(array) == all_notes_off(array) \/ start_notes(array)

\* Mutant of TurnsOn: every frame strikes the notes of its streams.
TurnsOnAlways(volume, last) == 10 * volume > 1

\* Mutant of TurnsOff: the note of a stream is stopped when its volume drops.
TurnsOffWhenLower(volume, last) == volume < last

\* volume > 0.001 >= last and volume < 0.001 <= last
TurnsOn(volume, last) == 10 * volume > 1 /\ 10 * last <= 1
TurnsOff(volume, last) == 10 * volume < 1 /\ 10 * last >= 1

play_note(i) ==
    /\ TurnsOn(kinect_array[i], last_kinect_array[i])
    /\ midi' = [midi EXCEPT ![Note(i)] = Velocity(kinect_array[i])]
    /\ stuck' = stuck \ {Note(i)}

stop_note(i) ==
    /\ TurnsOff(kinect_array[i], last_kinect_array[i])
    /\ midi' = [midi EXCEPT ![Note(i)] = 0]
    /\ stuck' = stuck \ {Note(i)}

keep_note(i) ==
    /\ ~TurnsOn(kinect_array[i], last_kinect_array[i])
    /\ ~TurnsOff(kinect_array[i], last_kinect_array[i])
    /\ UNCHANGED <<midi, stuck>>

\* One iteration of the loop.  Its TURN_OFF_STREAMS part does nothing: every
\* stream_channels[idx] is None since the code that set it is commented out.
NoteStep ==
    /\ audioPc = "notes"
    /\ idx \in DOMAIN kinect_array
    /\ play_note(idx) \/ stop_note(idx) \/ keep_note(idx)
    /\ idx' = idx + 1
    /\ UNCHANGED <<last_kinect_array, kinect_array, audioPc>>

\* The loop is over: remember this frame.
FinishNotes ==
    /\ audioPc = "notes"
    /\ idx \notin DOMAIN kinect_array
    /\ last_kinect_array' = kinect_array
    /\ audioPc' = "idle"
    /\ UNCHANGED <<kinect_array, idx, midi, stuck>>

\* The process dies; nothing is sent.
Die ==
    /\ audioPc # "down"
    /\ audioPc' = "down"
    /\ stuck' = Sounding
    /\ UNCHANGED <<last_kinect_array, kinect_array, idx, midi>>

\* __init__ of a new process: it knows nothing of what is sounding.
Restart ==
    /\ audioPc = "down"
    /\ audioPc' = "idle"
    /\ last_kinect_array' = Zeros
    /\ kinect_array' = Zeros
    /\ idx' = 1
    /\ UNCHANGED <<midi, stuck>>

AudioNext ==
    \/ \E array \in Arrays : play_notes(array)
    \/ NoteStep
    \/ FinishNotes
    \/ Die
    \/ Restart

AudioSpec == AudioInit /\ [][AudioNext]_audioVars

-----------------------------------------------------------------------------
\* Every variable has its type; a note that sounds has a velocity of 40..127,
\* which is what play_note asks for and what a MIDI message can carry.
AudioTypeOK ==
    /\ last_kinect_array \in Arrays
    /\ kinect_array \in Arrays
    /\ idx \in 1..(NUM_STREAMS + 1)
    /\ audioPc \in {"idle", "notes", "down"}
    /\ midi \in [Notes -> {0} \cup 40..127]
    /\ stuck \in SUBSET Notes

\* Between two frames the notes this process answers for are exactly those of
\* the streams the last frame gave a volume: no note hangs, none is missing,
\* whatever the frames before were, silent ones (the reset path) included.
OwnedMatchesFrame ==
    audioPc = "idle" => Owned = {Note(i) : i \in {j \in Streams : last_kinect_array[j] > 0}}

\* A note that sounds is not struck again, at another velocity, while its
\* stream stays interrupted; only a note left over by a dead process may be.
HeldNoteNotRestruck ==
    [][\A n \in Notes :
         midi[n] > 0 /\ midi'[n] > 0 /\ midi'[n] # midi[n] => n \in stuck]_audioVars

\* The streams the harp is bringing its voices in line with.
Target ==
    LET array == IF audioPc = "notes" THEN kinect_array ELSE last_kinect_array
    IN  IF audioPc = "down" THEN {} ELSE {Note(i) : i \in {j \in Streams : array[j] > 0}}

\* play_notes implements the gate a player is promised: voices start and stop
\* one at a time, only towards the frame being played, and a new frame is
\* looked at only when the last one has been brought to sound completely.
Gate == INSTANCE HarpGate WITH Voices <- Notes, target <- Target, sounding <- Owned

ImplementsGate == Gate!GateSpec
=============================================================================
