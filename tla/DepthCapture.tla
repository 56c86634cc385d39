---------------------------- MODULE DepthCapture ----------------------------
(***************************************************************************)
(* DepthCamera.py: capturing depth frames to a file.  captureHandler runs  *)
(* in the thread of the OSC server and asks for frames; get_depth runs in  *)
(* the application's thread, adds each frame it gets and writes the file   *)
(* when there are enough.  They share savecnt, without a lock: each read   *)
(* and each write of it is a step of its own.  Only get_depth touches      *)
(* saveDepth.                                                              *)
(***************************************************************************)
EXTENDS Integers, Sequences

CONSTANTS
    CAPTURE,  (* frames per file: the 20 of captureHandler *)
    Serials   (* bound of the model: frames are numbered modulo this *)

ASSUME CaptureAssumption ==
    /\ CAPTURE \in Nat \ {0}
    /\ Serials \in Nat /\ Serials > CAPTURE

VARIABLES
    savecnt, saveDepth, (* of DepthCamera; a saved frame is its number *)
    dmap,      (* the frame get_depth is working on *)
    pc,        (* the next lines of get_depth *)
    lastFile,  (* history: the frames of the file written last *)
    asked,     (* history: a capture was asked for since savecnt was last 0 *)
    owed       (* history: ... at a moment when no file was being written *)

vars == <<savecnt, saveDepth, dmap, pc, lastFile, asked, owed>>

Init ==
    /\ savecnt = 0 /\ saveDepth = <<>>
    /\ dmap = 0 /\ pc = "idle"
    /\ lastFile = <<>> /\ asked = FALSE /\ owed = FALSE

\* Mutant of captureHandler: asking twice asks for twice as many frames.
captureHandler_adds ==
    /\ savecnt <= CAPTURE
    /\ savecnt' = savecnt + CAPTURE
    /\ asked' = TRUE
    /\ owed' = (owed \/ pc \notin {"save", "clear", "reset"})
    /\ UNCHANGED <<saveDepth, dmap, pc, lastFile>>

\* The button was pressed (args[0] == 1; its release does nothing).
captureHandler ==
    /\ savecnt' = CAPTURE
    /\ asked' = TRUE
    /\ owed' = (owed \/ pc \notin {"save", "clear", "reset"})
    /\ UNCHANGED <<saveDepth, dmap, pc, lastFile>>

\* get_depth gets the next frame of the camera.
get_dmap ==
    /\ pc = "idle"
    /\ dmap' = (dmap + 1) % Serials
    /\ pc' = "add"
    /\ UNCHANGED <<savecnt, saveDepth, lastFile, asked, owed>>

addFrame ==
    /\ pc = "add" /\ Len(saveDepth) < savecnt
    /\ saveDepth' = Append(saveDepth, dmap)
    /\ pc' = "full"
    /\ UNCHANGED <<savecnt, dmap, lastFile, asked, owed>>

keepFrame ==
    /\ pc = "add" /\ Len(saveDepth) >= savecnt
    /\ pc' = "idle"
    /\ UNCHANGED <<savecnt, saveDepth, dmap, lastFile, asked, owed>>

testFull ==
    /\ pc = "full"
    /\ pc' = IF Len(saveDepth) = savecnt THEN "save" ELSE "idle"
    /\ UNCHANGED <<savecnt, saveDepth, dmap, lastFile, asked, owed>>

savemat ==
    /\ pc = "save"
    /\ lastFile' = saveDepth /\ owed' = FALSE
    /\ pc' = "clear"
    /\ UNCHANGED <<savecnt, saveDepth, dmap, asked>>

\* Mutant of clearFrames: the frames of the last file are kept.
clearFrames_not ==
    /\ pc = "clear"
    /\ pc' = "reset"
    /\ UNCHANGED <<savecnt, saveDepth, dmap, lastFile, asked, owed>>

clearFrames ==
    /\ pc = "clear"
    /\ saveDepth' = <<>>
    /\ pc' = "reset"
    /\ UNCHANGED <<savecnt, dmap, lastFile, asked, owed>>

\* Mutant of stopSaving: savecnt is not reset, so captures go on.
stopSaving_not ==
    /\ pc = "reset"
    /\ asked' = FALSE
    /\ pc' = "idle"
    /\ UNCHANGED <<savecnt, saveDepth, dmap, lastFile, owed>>

\* A request that came since the file was written is forgotten here.
stopSaving ==
    /\ pc = "reset"
    /\ savecnt' = 0 /\ asked' = FALSE
    /\ pc' = "idle"
    /\ UNCHANGED <<saveDepth, dmap, lastFile, owed>>

get_depth ==
    \/ get_dmap \/ addFrame \/ keepFrame \/ testFull
    \/ savemat \/ clearFrames \/ stopSaving

Next == captureHandler \/ get_depth

\* The application goes on calling get_depth; nobody need press the button.
Spec == Init /\ [][Next]_vars /\ WF_vars(get_depth)

-----------------------------------------------------------------------------
\* savecnt is 0 or CAPTURE, and saveDepth never holds more frames than a file.
TypeOK ==
    /\ savecnt \in {0, CAPTURE}
    /\ saveDepth \in Seq(0..(Serials - 1)) /\ Len(saveDepth) <= CAPTURE
    /\ dmap \in 0..(Serials - 1)
    /\ pc \in {"idle", "add", "full", "save", "clear", "reset"}
    /\ lastFile \in Seq(0..(Serials - 1))
    /\ asked \in BOOLEAN /\ owed \in BOOLEAN

\* A file has CAPTURE frames that the camera gave one after the other, however
\* often and whenever the button is pressed meanwhile.
FilesAreWhole ==
    /\ Len(lastFile) \in {0, CAPTURE}
    /\ \A k \in 1..(Len(lastFile) - 1) : lastFile[k + 1] = (lastFile[k] + 1) % Serials

\* No file is written, and no frame is set aside for one, that nobody asked for.
FilesWereAsked == saveDepth # <<>> => asked

\* A request that does not fall into the lines that write the file is answered
\* by a file written after it.
CaptureIsServed == owed ~> ~owed
=============================================================================
