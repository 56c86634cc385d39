----------------------------- MODULE WaterHarp -----------------------------
(***************************************************************************)
(* WaterHarp.py, the main loop: get a depth map, show it, turn it into one *)
(* volume per stream, and let WaterHarpAudio play the volumes.  The loop   *)
(* is one thread: play_notes runs to its end before the next depth map.    *)
(***************************************************************************)
EXTENDS WaterHarpAudio, WaterHarpVision

CONSTANT Frames   (* the depth maps the camera can deliver *)

ASSUME FramesAssumption == Frames \subseteq [Pixels -> Depth]

VARIABLES
    harpPc,            (* where run is: "get_dmap", "bins" or "play_notes" *)
    dmap,              (* the depth map of this iteration, as delivered *)
    dtex,              (* the pixels the screen shows in green *)
    bin,               (* x_bins_idx + 1, the loop variable of the streams *)
    stream_indicators  (* the list of volumes built so far *)

harpVars == <<harpPc, dmap, dtex, bin, stream_indicators>>
vars == <<audioVars, harpVars>>

NoPicture == [p \in Pixels |-> 0]

\* Volumes that a stream can be given; the audio half's CONSTANT Volumes.
HarpVolumes == {0} \cup 30..100

ASSUME HarpVolumesAssumption == HarpVolumes \subseteq Volumes

-----------------------------------------------------------------------------
Init ==
    /\ AudioInit
    /\ harpPc = "get_dmap"
    /\ dmap = NoPicture
    /\ dtex = {}
    /\ bin = 1
    /\ stream_indicators = <<>>

\* get_dmap and play_video.  A uniform picture is not drawn: the screen keeps
\* the last one, but the loop goes on with the new one.
GetDmap(frame) ==
    /\ audioPc = "idle" /\ harpPc = "get_dmap"
    /\ dmap' = frame
    /\ dtex' = IF Uniform(frame) THEN dtex ELSE GreenPixels(frame)
    /\ bin' = 1
    /\ stream_indicators' = <<>>
    /\ harpPc' = "bins"
    /\ UNCHANGED audioVars

num_below(i) == Cardinality(below_threshold(dmap, i))

\* Mutant of last_num_below: the count of the stream before, as its name says.
last_num_below_kept == IF bin = 1 THEN 0 ELSE num_below(bin - 1)

\* run sets last_num_below to 0 before the loop and never again.
last_num_below == 0

\* One iteration over the streams: append a volume, or 0.  Nothing would be
\* appended for a stream that is interrupted by no more than last_num_below.
BinStep ==
    /\ audioPc = "idle" /\ harpPc = "bins"
    /\ bin \in Streams
    /\ \/ /\ num_below(bin) > MIN_PIXELS
          /\ \E volume \in volumes(below_threshold(dmap, bin)) :
                stream_indicators' = IF num_below(bin) > last_num_below
                                     THEN Append(stream_indicators, volume)
                                     ELSE stream_indicators
       \/ /\ num_below(bin) <= MIN_PIXELS
          /\ stream_indicators' = Append(stream_indicators, 0)
    /\ bin' = bin + 1
    /\ UNCHANGED <<audioVars, harpPc, dmap, dtex>>

\* self.audio.play_notes(stream_indicators)
CallPlayNotes ==
    /\ harpPc = "bins" /\ bin \notin Streams
    /\ play_notes(stream_indicators)
    /\ harpPc' = IF audioPc' = "notes" THEN "play_notes" ELSE "get_dmap"
    /\ UNCHANGED <<dmap, dtex, bin, stream_indicators>>

PlayNotesStep == NoteStep /\ UNCHANGED harpVars

PlayNotesReturn ==
    /\ FinishNotes
    /\ harpPc' = "get_dmap"
    /\ UNCHANGED <<dmap, dtex, bin, stream_indicators>>

HarpDies == Die /\ UNCHANGED harpVars

\* __init__ of a new process, up to the loop of run.
HarpRestarts ==
    /\ Restart
    /\ harpPc' = "get_dmap"
    /\ dmap' = NoPicture
    /\ dtex' = {}
    /\ bin' = 1
    /\ stream_indicators' = <<>>

Run ==
    \/ \E frame \in Frames : GetDmap(frame)
    \/ BinStep
    \/ CallPlayNotes
    \/ PlayNotesStep
    \/ PlayNotesReturn

Next == Run \/ HarpDies \/ HarpRestarts

Spec == Init /\ [][Next]_vars

\* The loop keeps running while its process lives: the camera streams, and
\* nothing in the loop waits for anything else.
FairSpec == Spec /\ WF_vars(Run)
-----------------------------------------------------------------------------
\* In particular every volume that reaches play_notes is 0 or 0.30..1, and there
\* is at most one for each stream.
TypeOK ==
    /\ AudioTypeOK
    /\ harpPc \in {"get_dmap", "bins", "play_notes"}
    /\ dmap \in [Pixels -> Depth]
    /\ dtex \subseteq Pixels
    /\ bin \in 1..(NUM_STREAMS + 1)
    /\ stream_indicators \in Seq(HarpVolumes) /\ Len(stream_indicators) <= NUM_STREAMS

\* The scene, seen from outside the program: the pixels of stream i that a
\* hand between NEARTHRESH and the water covers, and whether that is a hand.
HandPixels(i) == {p \in Window(i) : 2 * dmap[p] >= THRESHOLD /\ dmap[p] < THRESHOLD}
Interrupted(i) == Cardinality(HandPixels(i)) > MIN_PIXELS

\* At the top of the loop, once a frame has been played.
Settled == audioPc = "idle" /\ harpPc = "get_dmap"

\* A pixel between the columns and rows of the streams that shows a hand is
\* counted for exactly one stream, and no other pixel for any: the bins lose no
\* column and count none twice, and the mask takes no hand for the background.
HandCountsOnce ==
    \A p \in Pixels :
        LET counted == {i \in Streams : p \in below_threshold(dmap, i)}
        IN  IF /\ p[1] \in TOP..(BOTTOM - 1)
               /\ p[2] \in LEFT_STREAM_INDEX..(RIGHT_STREAM_INDEX - 1)
               /\ 2 * dmap[p] >= THRESHOLD /\ dmap[p] < THRESHOLD
            THEN \E i \in Streams : counted = {i}
            ELSE counted = {}

\* From the picture to the synthesizer: when a frame has been played, exactly
\* the notes of the streams it shows interrupted are sounding (those a dead
\* process left over apart).  It fails when a volume lands at a wrong index, a
\* hand yields a volume that play_notes takes for silence, or a note hangs.
SceneIsHeard ==
    Settled => \A i \in Streams : Note(i) \in Owned <=> Interrupted(i)

\* What the player sees agrees with what the player hears: a stream painted
\* green over more than MIN_PIXELS pixels sounds, unless the picture shown is
\* an older one (uniform frames are not drawn).
GreenIsHeard ==
    Settled /\ ~Uniform(dmap) =>
        \A i \in Streams : Cardinality(dtex \cap Window(i)) > MIN_PIXELS => Note(i) \in Owned

\* A hand raised by one row is never quieter.
HigherHandIsLouder ==
    \A i \in Streams :
        LET hand == below_threshold(dmap, i)
            raised == {<<p[1] - 1, p[2]>> : p \in hand}
        IN  hand # {} /\ raised \subseteq Window(i) =>
                \A v \in volumes(hand), w \in volumes(raised) : v <= w

\* A hand that stays in a stream is heard, if the process stays alive.
HandIsHeard ==
    \A i \in Streams :
        <>[](audioPc # "down" /\ Interrupted(i)) => <>[](midi[Note(i)] > 0)

\* When all hands stay away everything falls silent, also the notes that an
\* earlier process left sounding and this one knows nothing of.
SilenceSettles ==
    <>[](audioPc # "down" /\ \A i \in Streams : ~Interrupted(i)) => <>[](Sounding = {})
=============================================================================
