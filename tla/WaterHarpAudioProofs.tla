------------------------ MODULE WaterHarpAudioProofs ------------------------
(***************************************************************************)
(* Proofs about WaterHarpAudio, for every number of streams and every set  *)
(* of volumes: its type correctness, that the notes it answers for are     *)
(* those of the last frame, that a held note is not struck again, and that *)
(* it implements HarpGate.                                                 *)
(***************************************************************************)
EXTENDS WaterHarpAudio, TLAPS

\* Different streams play different notes: a note_off never silences another
\* stream, and a note tells which stream it belongs to.
LEMMA NotesDiffer ==
    \A i, j \in Streams : Note(i) = Note(j) => i = j
  BY NumStreamsAssumption DEF Streams, Note, C_MIXOLYDIAN_SCALE

\* The note of a stream is one of the synthesizer's notes.
LEMMA NoteInNotes == \A i \in Streams : Note(i) \in Notes
  BY DEF Notes

\* A velocity the code sends is one a MIDI message can carry, and audible.
LEMMA VelocityRange == \A v \in 0..100 : Velocity(v) \in 40..127
  BY DEF Velocity

-----------------------------------------------------------------------------
(***************************************************************************)
(* OwnedMatchesFrame is not inductive: it says nothing while the loop of   *)
(* play_notes runs.  Heard(i) is the volume stream i was last brought in   *)
(* line with, which inside the loop is that of the new frame below idx and *)
(* that of the last frame from idx on.                                     *)
(***************************************************************************)
Heard(i) ==
    IF audioPc = "notes" /\ i < idx THEN kinect_array[i] ELSE last_kinect_array[i]

Answers == \A i \in Streams : Note(i) \in Owned <=> Heard(i) > 0

AudioInv ==
    /\ AudioTypeOK
    /\ stuck \subseteq Sounding
    /\ audioPc = "down" => Owned = {}
    /\ audioPc # "down" => Answers

\* The volumes of an array are hundredths, and a frame of zeros is an array.
LEMMA ArrayVolumes ==
    /\ \A a \in Arrays, i \in Streams : a[i] \in 0..100 /\ a[i] \in Volumes
    /\ \A a \in Arrays : DOMAIN a = Streams
    /\ Zeros \in Arrays
  BY VolumesAssumption DEF Arrays, Zeros

\* The program starts with nothing sounding and a last frame of zeros.
LEMMA InitAudioInv == AudioInit => AudioInv
<1> SUFFICES ASSUME AudioInit PROVE AudioInv
  OBVIOUS
<1>1. AudioTypeOK
  BY ArrayVolumes, NumStreamsAssumption DEF AudioInit, AudioTypeOK
<1>2. Sounding = {} /\ Owned = {}
  BY DEF AudioInit, Sounding, Owned
<1>3. Answers
  BY <1>2, NumStreamsAssumption DEF AudioInit, Answers, Heard, Zeros, Streams
<1> QED
  BY <1>1, <1>2, <1>3 DEF AudioInit, AudioInv

\* Type correctness is preserved on its own.
LEMMA NextAudioTypeOK == AudioTypeOK /\ [AudioNext]_audioVars => AudioTypeOK'
<1> SUFFICES ASSUME AudioTypeOK, [AudioNext]_audioVars PROVE AudioTypeOK'
  OBVIOUS
<1> USE DEF AudioTypeOK
<1>1. ASSUME NEW array \in Arrays, all_notes_off(array) PROVE AudioTypeOK'
  BY <1>1 DEF all_notes_off
<1>2. ASSUME NEW array \in Arrays, start_notes(array) PROVE AudioTypeOK'
  BY <1>2, NumStreamsAssumption DEF start_notes
<1>3. CASE NoteStep
  <2>1. idx \in Streams /\ kinect_array[idx] \in 0..100
    BY <1>3, ArrayVolumes DEF NoteStep
  <2>2. idx' \in 1..(NUM_STREAMS + 1)
    BY <1>3, <2>1, NumStreamsAssumption DEF NoteStep, Streams
  <2>3. midi' \in [Notes -> {0} \cup 40..127] /\ stuck' \in SUBSET Notes
    <3>1. CASE play_note(idx)
      BY <2>1, <3>1, NoteInNotes, VelocityRange DEF play_note
    <3>2. CASE stop_note(idx)
      BY <2>1, <3>2, NoteInNotes DEF stop_note
    <3>3. CASE keep_note(idx)
      BY <3>3 DEF keep_note
    <3> QED
      BY <1>3, <3>1, <3>2, <3>3 DEF NoteStep
  <2> QED
    BY <1>3, <2>2, <2>3 DEF NoteStep
<1>4. CASE FinishNotes
  BY <1>4 DEF FinishNotes
<1>5. CASE Die
  BY <1>5 DEF Die, Sounding
<1>6. CASE Restart
  BY <1>6, ArrayVolumes, NumStreamsAssumption DEF Restart
<1>7. CASE UNCHANGED audioVars
  BY <1>7 DEF audioVars
<1> QED
  BY <1>1, <1>2, <1>3, <1>4, <1>5, <1>6, <1>7 DEF AudioNext, play_notes

\* What one iteration of the loop does to the notes: that of stream idx is
\* owned afterwards exactly if the new frame has a volume for it, every other
\* note is left alone.
LEMMA NoteStepEffect ==
    ASSUME AudioInv, NoteStep
    PROVE  /\ idx \in Streams
           /\ \A n \in Notes : n # Note(idx) =>
                 midi'[n] = midi[n] /\ (n \in stuck' <=> n \in stuck)
           /\ Note(idx) \in Owned' <=> kinect_array[idx] > 0
           /\ stuck' \subseteq Sounding'
<1> USE DEF AudioInv, AudioTypeOK
<1>1. /\ idx \in Streams
      /\ kinect_array[idx] \in 0..100
      /\ last_kinect_array[idx] \in 0..100
      /\ Note(idx) \in Notes
  BY ArrayVolumes, NoteInNotes DEF NoteStep
<1>2. Note(idx) \in Owned <=> last_kinect_array[idx] > 0
  BY <1>1, NumStreamsAssumption DEF NoteStep, Answers, Heard, Streams
<1>3. CASE play_note(idx)
  <2>1. kinect_array[idx] > 0
    BY <1>1, <1>3 DEF play_note, TurnsOn
  <2>2. midi'[Note(idx)] > 0 /\ Note(idx) \notin stuck'
    <3>1. Velocity(kinect_array[idx]) \in 40..127
      BY <1>1, VelocityRange
    <3> QED
      BY <1>1, <1>3, <3>1 DEF play_note
  <2>3. \A n \in Notes : n # Note(idx) => midi'[n] = midi[n] /\ (n \in stuck' <=> n \in stuck)
    BY <1>3 DEF play_note
  <2>4. stuck' \subseteq Sounding'
    BY <1>3, <2>3 DEF play_note, Sounding
  <2> QED
    BY <1>1, <2>1, <2>2, <2>3, <2>4 DEF Owned, Sounding
<1>4. CASE stop_note(idx)
  <2>1. kinect_array[idx] = 0
    BY <1>1, <1>4 DEF stop_note, TurnsOff
  <2>2. midi'[Note(idx)] = 0 /\ Note(idx) \notin stuck'
    BY <1>1, <1>4 DEF stop_note
  <2>3. \A n \in Notes : n # Note(idx) => midi'[n] = midi[n] /\ (n \in stuck' <=> n \in stuck)
    BY <1>4 DEF stop_note
  <2>4. stuck' \subseteq Sounding'
    BY <1>4, <2>3 DEF stop_note, Sounding
  <2> QED
    BY <1>1, <2>1, <2>2, <2>3, <2>4 DEF Owned, Sounding
<1>5. CASE keep_note(idx)
  <2>1. kinect_array[idx] > 0 <=> last_kinect_array[idx] > 0
    BY <1>1, <1>5 DEF keep_note, TurnsOn, TurnsOff
  <2>2. midi' = midi /\ stuck' = stuck
    BY <1>5 DEF keep_note
  <2> QED
    BY <1>1, <1>2, <2>1, <2>2 DEF Owned, Sounding
<1> QED
  BY <1>3, <1>4, <1>5 DEF NoteStep

\* Each step of play_notes, a death and a restart keep the notes in line.
LEMMA NextAudioInv == AudioInv /\ [AudioNext]_audioVars => AudioInv'
<1> SUFFICES ASSUME AudioInv, [AudioNext]_audioVars PROVE AudioInv'
  OBVIOUS
<1>0. AudioTypeOK /\ AudioTypeOK'
  BY NextAudioTypeOK DEF AudioInv
<1>1. ASSUME NEW array \in Arrays, all_notes_off(array) PROVE AudioInv'
  <2>1. Sounding' = {} /\ Owned' = {}
    BY <1>1 DEF all_notes_off, Sounding, Owned
  <2>2. \A i \in Streams : array[i] = 0
    BY <1>1, ArrayVolumes DEF all_notes_off, Silent
  <2>3. Answers'
    BY <1>1, <2>1, <2>2 DEF all_notes_off, Answers, Heard
  <2> QED
    BY <1>0, <1>1, <2>1, <2>3 DEF all_notes_off, AudioInv
<1>2. ASSUME NEW array \in Arrays, start_notes(array) PROVE AudioInv'
  <2>1. \A i \in Streams : Heard(i)' = Heard(i)
    BY <1>2, NumStreamsAssumption DEF start_notes, Heard, Streams
  <2>2. Sounding' = Sounding /\ Owned' = Owned
    BY <1>2 DEF start_notes, Sounding, Owned
  <2> QED
    BY <1>0, <1>2, <2>1, <2>2 DEF start_notes, AudioInv, Answers
<1>3. CASE NoteStep
  <2>1. /\ idx \in Streams
        /\ \A n \in Notes : n # Note(idx) =>
              midi'[n] = midi[n] /\ (n \in stuck' <=> n \in stuck)
        /\ Note(idx) \in Owned' <=> kinect_array[idx] > 0
        /\ stuck' \subseteq Sounding'
    BY <1>3, NoteStepEffect
  <2>2. ASSUME NEW i \in Streams, i = idx
        PROVE  (Note(i) \in Owned)' <=> Heard(i)' > 0
    <3>1. Heard(i)' = kinect_array[idx]
      BY <1>3, <2>2, NumStreamsAssumption DEF NoteStep, Heard, Streams
    <3> QED
      BY <2>1, <2>2, <3>1 DEF Note
  <2>3. ASSUME NEW i \in Streams, i # idx
        PROVE  (Note(i) \in Owned)' <=> Heard(i)' > 0
    <3>1. Note(i) # Note(idx) /\ Note(i) \in Notes
      BY <2>1, <2>3, NotesDiffer, NoteInNotes
    <3>2. (Note(i) \in Owned)' <=> Note(i) \in Owned
      BY <2>1, <3>1 DEF Owned, Sounding, Note
    <3>3. Heard(i)' = Heard(i)
      BY <1>0, <1>3, <2>1, <2>3, NumStreamsAssumption
         DEF NoteStep, Heard, Streams, AudioTypeOK
    <3> QED
      BY <1>3, <3>2, <3>3 DEF NoteStep, AudioInv, Answers
  <2>4. Answers'
    BY <2>1, <2>2, <2>3 DEF Answers
  <2> QED
    BY <1>0, <1>3, <2>1, <2>4 DEF NoteStep, AudioInv
<1>4. CASE FinishNotes
  <2>1. \A i \in Streams : Heard(i)' = Heard(i)
    BY <1>0, <1>4, ArrayVolumes, NumStreamsAssumption
       DEF FinishNotes, Heard, Streams, AudioTypeOK
  <2>2. Sounding' = Sounding /\ Owned' = Owned
    BY <1>4 DEF FinishNotes, Sounding, Owned
  <2> QED
    BY <1>0, <1>4, <2>1, <2>2 DEF FinishNotes, AudioInv, Answers
<1>5. CASE Die
  <2>1. Sounding' = Sounding /\ stuck' = Sounding' /\ Owned' = {}
    BY <1>5 DEF Die, Sounding, Owned
  <2> QED
    BY <1>0, <1>5, <2>1 DEF Die, AudioInv
<1>6. CASE Restart
  <2>1. Sounding' = Sounding /\ Owned' = Owned /\ Owned = {}
    BY <1>6 DEF Restart, Sounding, Owned, AudioInv
  <2>2. \A i \in Streams : Heard(i)' = 0
    BY <1>6 DEF Restart, Heard, Zeros
  <2>3. Answers'
    BY <2>1, <2>2 DEF Answers
  <2> QED
    BY <1>0, <1>6, <2>1, <2>3 DEF Restart, AudioInv
<1>7. CASE UNCHANGED audioVars
  BY <1>0, <1>7 DEF audioVars, AudioInv, Answers, Heard, Sounding, Owned
<1> QED
  BY <1>1, <1>2, <1>3, <1>4, <1>5, <1>6, <1>7 DEF AudioNext, play_notes

\* AudioInv holds in every state.
LEMMA AudioInvariant == AudioSpec => []AudioInv
  BY InitAudioInv, NextAudioInv, PTL DEF AudioSpec

\* Type correctness of WaterHarpAudio.
THEOREM AudioTypeCorrect == AudioSpec => []AudioTypeOK
<1>1. AudioInv => AudioTypeOK
  BY DEF AudioInv
<1> QED
  BY <1>1, AudioInvariant, PTL

\* Between two frames the notes owned are those of the last frame.
LEMMA IdleMatches == AudioInv => OwnedMatchesFrame
<1> SUFFICES ASSUME AudioInv, audioPc = "idle"
             PROVE  Owned = {Note(i) : i \in {j \in Streams : last_kinect_array[j] > 0}}
  BY DEF OwnedMatchesFrame
<1>1. \A i \in Streams : Note(i) \in Owned <=> last_kinect_array[i] > 0
  BY DEF AudioInv, Answers, Heard
<1>2. \A n \in Owned : \E i \in Streams : n = Note(i)
  BY DEF Owned, Sounding, Notes
<1> QED
  BY <1>1, <1>2

\* Between two frames exactly the notes of the interrupted streams are owned.
THEOREM FramesAreHeard == AudioSpec => []OwnedMatchesFrame
  BY IdleMatches, AudioInvariant, PTL

\* A step that changes the velocity of a sounding note strikes a stuck one.
LEMMA StepNotRestruck ==
    ASSUME AudioInv, [AudioNext]_audioVars, NEW n \in Notes,
           midi[n] > 0, midi'[n] > 0, midi'[n] # midi[n]
    PROVE  n \in stuck
<1>1. CASE NoteStep
  <2>1. n = Note(idx) /\ idx \in Streams
    BY <1>1, NoteStepEffect
  <2>2. CASE play_note(idx)
    <3>1. last_kinect_array[idx] = 0
      BY <2>1, <2>2, ArrayVolumes DEF play_note, TurnsOn, AudioInv, AudioTypeOK
    <3>2. Note(idx) \notin Owned
      BY <1>1, <2>1, <3>1, NumStreamsAssumption
         DEF NoteStep, AudioInv, Answers, Heard, Streams
    <3> QED
      BY <2>1, <3>2 DEF Owned, Sounding
  <2>3. CASE stop_note(idx)
    BY <2>1, <2>3 DEF stop_note, AudioInv, AudioTypeOK
  <2>4. CASE keep_note(idx)
    BY <2>4 DEF keep_note
  <2> QED
    BY <1>1, <2>2, <2>3, <2>4 DEF NoteStep
<1>2. ASSUME NEW array \in Arrays, play_notes(array) PROVE FALSE
  BY <1>2 DEF play_notes, all_notes_off, start_notes
<1>3. CASE FinishNotes \/ Die \/ Restart \/ UNCHANGED audioVars
  BY <1>3 DEF FinishNotes, Die, Restart, audioVars
<1> QED
  BY <1>1, <1>2, <1>3 DEF AudioNext

\* No note is struck again while its stream stays interrupted.
THEOREM HeldNotesAreLeftAlone == AudioSpec => HeldNoteNotRestruck
<1> DEFINE Kept == \A n \in Notes :
              midi[n] > 0 /\ midi'[n] > 0 /\ midi'[n] # midi[n] => n \in stuck
<1>1. AudioInv /\ [AudioNext]_audioVars => Kept
  BY StepNotRestruck
<1> QED
  BY <1>1, AudioInvariant, PTL DEF AudioSpec, HeldNoteNotRestruck

-----------------------------------------------------------------------------
(***************************************************************************)
(* Refinement: with Target and Owned for the variables of HarpGate, every  *)
(* step is a step of the gate or changes neither.                          *)
(***************************************************************************)
LEMMA GateStart == AudioInit => Gate!GateInit
<1> SUFFICES ASSUME AudioInit PROVE Target = {} /\ Owned = {}
  BY DEF Gate!GateInit
<1> QED
  BY DEF AudioInit, Target, Owned, Sounding, Zeros

\* The streams of a note step: the note of idx is wanted if the frame has it.
LEMMA TargetOfStream ==
    ASSUME audioPc = "notes", NEW i \in Streams
    PROVE  Note(i) \in Target <=> kinect_array[i] > 0
  BY NotesDiffer DEF Target

\* One iteration starts one voice, stops one voice or stutters.
LEMMA GateNoteStep ==
    AudioInv /\ NoteStep => [Gate!GateNext]_(Gate!gateVars)
<1> SUFFICES ASSUME AudioInv, NoteStep PROVE [Gate!GateNext]_(Gate!gateVars)
  OBVIOUS
<1>1. idx \in Streams /\ Note(idx) \in Notes
  BY NoteStepEffect, NoteInNotes
<1>2. Target' = Target
  BY DEF NoteStep, Target
<1>3. /\ Note(idx) \in Target <=> kinect_array[idx] > 0
      /\ Note(idx) \in Owned' <=> kinect_array[idx] > 0
  BY <1>1, TargetOfStream, NoteStepEffect DEF NoteStep
<1>4. \A n : n # Note(idx) => (n \in Owned' <=> n \in Owned)
  BY NoteStepEffect DEF Owned, Sounding
<1>5. CASE Note(idx) \in Owned' /\ Note(idx) \notin Owned
  <2>1. Owned' = Owned \cup {Note(idx)}
    BY <1>4, <1>5
  <2> QED
    BY <1>1, <1>2, <1>3, <1>5, <2>1 DEF Gate!GateNext, Gate!Start
<1>6. CASE Note(idx) \notin Owned' /\ Note(idx) \in Owned
  <2>1. Owned' = Owned \ {Note(idx)}
    BY <1>4, <1>6
  <2> QED
    BY <1>1, <1>2, <1>3, <1>6, <2>1 DEF Gate!GateNext, Gate!Stop
<1>7. CASE Note(idx) \in Owned' <=> Note(idx) \in Owned
  <2>1. Owned' = Owned
    BY <1>4, <1>7
  <2> QED
    BY <1>2, <2>1 DEF Gate!gateVars
<1> QED
  BY <1>5, <1>6, <1>7

LEMMA GateStep ==
    AudioInv /\ [AudioNext]_audioVars => [Gate!GateNext]_(Gate!gateVars)
<1> SUFFICES ASSUME AudioInv, [AudioNext]_audioVars
             PROVE  [Gate!GateNext]_(Gate!gateVars)
  OBVIOUS
<1>0. audioPc = "idle" => Owned = Target
  BY IdleMatches DEF OwnedMatchesFrame, Target
<1>1. ASSUME NEW array \in Arrays, all_notes_off(array)
      PROVE  [Gate!GateNext]_(Gate!gateVars)
  <2>1. Owned' = {}
    BY <1>1 DEF all_notes_off, Sounding, Owned
  <2>2. Target' = {}
    BY <1>1, ArrayVolumes DEF all_notes_off, Silent, Target
  <2> QED
    BY <1>0, <1>1, <2>1, <2>2 DEF all_notes_off, Gate!GateNext, Gate!Hush
<1>2. ASSUME NEW array \in Arrays, start_notes(array)
      PROVE  [Gate!GateNext]_(Gate!gateVars)
  <2>1. Owned' = Owned
    BY <1>2 DEF start_notes, Sounding, Owned
  <2>2. Target' \in SUBSET Notes
    BY <1>2 DEF start_notes, Target, Notes
  <2>3. Gate!Look(Target')
    BY <1>0, <1>2, <2>1 DEF start_notes, Gate!Look
  <2> QED
    BY <2>2, <2>3 DEF Gate!GateNext
<1>3. CASE NoteStep
  BY <1>3, GateNoteStep
<1>4. CASE FinishNotes
  <2>1. Owned' = Owned
    BY <1>4 DEF FinishNotes, Sounding, Owned
  <2>2. Target' = Target
    BY <1>4 DEF FinishNotes, Target
  <2> QED
    BY <2>1, <2>2 DEF Gate!gateVars
<1>5. CASE Die
  <2>1. Owned' = {} /\ Target' = {}
    BY <1>5 DEF Die, Sounding, Owned, Target
  <2> QED
    BY <2>1 DEF Gate!GateNext, Gate!GoDown
<1>6. CASE Restart
  <2>1. Owned = {} /\ Owned' = {}
    BY <1>6 DEF Restart, Sounding, Owned, AudioInv
  <2>2. Target = {} /\ Target' = {}
    BY <1>6 DEF Restart, Target, Zeros
  <2> QED
    BY <2>1, <2>2 DEF Gate!gateVars
<1>7. CASE UNCHANGED audioVars
  <2>1. Owned' = Owned /\ Target' = Target
    BY <1>7 DEF audioVars, Owned, Sounding, Target
  <2> QED
    BY <2>1 DEF Gate!gateVars
<1> QED
  BY <1>1, <1>2, <1>3, <1>4, <1>5, <1>6, <1>7 DEF AudioNext, play_notes

\* play_notes implements the gate.
THEOREM AudioImplementsGate == AudioSpec => ImplementsGate
  BY GateStart, GateStep, AudioInvariant, PTL
     DEF AudioSpec, ImplementsGate, Gate!GateSpec
=============================================================================
