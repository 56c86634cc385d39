------------------------- MODULE DepthCaptureProofs -------------------------
(***************************************************************************)
(* Proofs about the capture of depth frames, for every number of frames in *)
(* a file, wherever between two lines of get_depth the button is pressed.  *)
(***************************************************************************)
EXTENDS DepthCapture, TLAPS

\* The frames of a file, or of a part of one, follow each other.
Consecutive(frames) ==
    \A k \in 1..(Len(frames) - 1) : frames[k + 1] = (frames[k] + 1) % Serials

\* How many frames are collected at each point of get_depth: a full file is
\* written before the next frame is looked at.
Collected ==
    CASE pc \in {"idle", "add"} -> Len(saveDepth) < CAPTURE
      [] pc = "full" -> Len(saveDepth) \in 1..CAPTURE
      [] pc \in {"save", "clear"} -> Len(saveDepth) = CAPTURE
      [] pc = "reset" -> saveDepth = <<>>

(***************************************************************************)
(* FilesAreWhole is about a file that is written; before, the frames       *)
(* collected have to be consecutive up to the one get_depth looks at, and  *)
(* no frame may be left out while some are collected: they are collected   *)
(* only while savecnt asks for more, and savecnt is reset only once they   *)
(* are cleared, whenever the button is pressed.                            *)
(***************************************************************************)
CaptureInv ==
    /\ TypeOK
    /\ savecnt = CAPTURE <=> asked
    /\ saveDepth # <<>> => asked
    /\ Collected
    /\ Consecutive(saveDepth)
    /\ saveDepth # <<>> /\ pc \in {"idle", "full"} => dmap = saveDepth[Len(saveDepth)]
    /\ saveDepth # <<>> /\ pc = "add" =>
           dmap = (saveDepth[Len(saveDepth)] + 1) % Serials
    /\ FilesAreWhole

LEMMA CaptureFacts ==
    /\ CAPTURE \in Nat \ {0} /\ Serials \in Nat \ {0}
    /\ \A n \in Nat : (n + 1) % Serials \in 0..(Serials - 1)
  BY CaptureAssumption

\* What Append adds to a sequence, and what it keeps.
LEMMA AppendFacts ==
    ASSUME NEW S, NEW s \in Seq(S), NEW e \in S
    PROVE  /\ Append(s, e) \in Seq(S) /\ Append(s, e) # <<>>
           /\ Len(Append(s, e)) = Len(s) + 1
           /\ Append(s, e)[Len(s) + 1] = e
           /\ \A k \in 1..Len(s) : Append(s, e)[k] = s[k]
<1>1. /\ Append(s, e) \in Seq(S) /\ Len(Append(s, e)) = Len(s) + 1
      /\ Append(s, e)[Len(s) + 1] = e
  OBVIOUS
<1>2. Append(s, e) # <<>>
  BY <1>1
<1>3. \A k \in 1..Len(s) : Append(s, e)[k] = s[k]
  OBVIOUS
<1> QED
  BY <1>1, <1>2, <1>3

LEMMA CaptureInitial == Init => CaptureInv
<1> SUFFICES ASSUME Init PROVE CaptureInv
  OBVIOUS
<1> USE CaptureFacts DEF Init
<1>1. asked \in BOOLEAN /\ owed \in BOOLEAN
  BY Zenon
<1>2. TypeOK
  <2>1. saveDepth \in Seq(0..(Serials - 1)) /\ lastFile \in Seq(0..(Serials - 1))
    OBVIOUS
  <2> QED
    BY <1>1, <2>1 DEF TypeOK
<1>3. Len(<<>>) = 0
  OBVIOUS
<1>4. Collected /\ Consecutive(saveDepth) /\ FilesAreWhole
  BY <1>3 DEF Collected, Consecutive, FilesAreWhole
<1> QED
  BY <1>2, <1>4 DEF CaptureInv

\* The button: it asks again for what is being collected.
LEMMA ButtonKeeps == ASSUME CaptureInv, captureHandler PROVE CaptureInv'
<1> USE CaptureFacts DEF captureHandler, CaptureInv
<1>1. asked' \in BOOLEAN /\ owed' \in BOOLEAN
  BY DEF TypeOK
<1>2. TypeOK'
  BY <1>1 DEF TypeOK
<1> QED
  BY <1>2 DEF Collected, Consecutive, FilesAreWhole

LEMMA FrameKeeps == ASSUME CaptureInv, get_dmap PROVE CaptureInv'
<1> USE CaptureFacts DEF get_dmap, CaptureInv
<1>1. dmap' \in 0..(Serials - 1)
  BY DEF TypeOK
<1>2. TypeOK'
  BY <1>1 DEF TypeOK
<1> QED
  BY <1>2 DEF Collected, Consecutive, FilesAreWhole

\* A frame is added: the one after the last that was.
LEMMA AddKeeps == ASSUME CaptureInv, addFrame PROVE CaptureInv'
<1> USE CaptureFacts DEF addFrame, CaptureInv
<1>1. /\ saveDepth \in Seq(0..(Serials - 1)) /\ dmap \in 0..(Serials - 1)
      /\ Len(saveDepth) \in Nat
  BY DEF TypeOK
<1>2. savecnt = CAPTURE /\ Len(saveDepth) < CAPTURE
  BY <1>1 DEF TypeOK
<1>3. /\ saveDepth' \in Seq(0..(Serials - 1)) /\ saveDepth' # <<>>
      /\ Len(saveDepth') = Len(saveDepth) + 1
      /\ saveDepth'[Len(saveDepth) + 1] = dmap
      /\ \A k \in 1..Len(saveDepth) : saveDepth'[k] = saveDepth[k]
  <2>1. saveDepth' = Append(saveDepth, dmap)
    OBVIOUS
  <2> HIDE DEF addFrame, CaptureInv
  <2> QED
    BY <1>1, <2>1, AppendFacts
<1>4. TypeOK'
  BY <1>2, <1>3 DEF TypeOK
<1>5. Consecutive(saveDepth)'
  <2> SUFFICES ASSUME NEW k \in 1..Len(saveDepth)
               PROVE  saveDepth'[k + 1] = (saveDepth'[k] + 1) % Serials
    BY <1>1, <1>3 DEF Consecutive
  <2>1. CASE k = Len(saveDepth)
    BY <1>1, <1>3, <2>1
  <2>2. CASE k # Len(saveDepth)
    <3>1. k \in 1..(Len(saveDepth) - 1) /\ k + 1 \in 1..Len(saveDepth)
      BY <1>1, <2>2
    <3> QED
      BY <1>3, <3>1 DEF Consecutive
  <2> QED
    BY <2>1, <2>2
<1>6. Collected'
  BY <1>1, <1>2, <1>3 DEF Collected
<1>7. FilesAreWhole'
  BY DEF FilesAreWhole
<1> QED
  BY <1>2, <1>3, <1>4, <1>5, <1>6, <1>7

\* No frame is left out while frames are collected.
LEMMA LookKeeps == ASSUME CaptureInv, keepFrame \/ testFull PROVE CaptureInv'
<1> USE CaptureFacts DEF CaptureInv
<1>1. CASE keepFrame
  <2>1. /\ saveDepth \in Seq(0..(Serials - 1)) /\ savecnt \in {0, CAPTURE}
        /\ Len(saveDepth) \in Nat /\ Len(saveDepth) >= savecnt
        /\ Len(saveDepth) < CAPTURE
    BY <1>1 DEF keepFrame, TypeOK, Collected
  <2>2. savecnt = 0
    BY <2>1
  <2>3. saveDepth = <<>>
    BY <2>2
  <2>4. TypeOK'
    BY <1>1 DEF keepFrame, TypeOK
  <2>5. Collected'
    BY <1>1 DEF keepFrame, Collected
  <2>6. Consecutive(saveDepth)' /\ FilesAreWhole'
    BY <1>1 DEF keepFrame, Consecutive, FilesAreWhole
  <2>7. saveDepth' = <<>> /\ savecnt' = savecnt /\ asked' = asked
    BY <1>1, <2>3 DEF keepFrame
  <2> QED
    BY <2>4, <2>5, <2>6, <2>7
<1>2. CASE testFull
  <2>1. Len(saveDepth) \in 1..CAPTURE
    BY <1>2 DEF testFull, Collected
  <2>2. savecnt = CAPTURE
    <3>1. Len(<<>>) = 0
      OBVIOUS
    <3> QED
      BY <2>1, <3>1
  <2>3. saveDepth' = saveDepth /\ pc' = IF Len(saveDepth) = CAPTURE THEN "save" ELSE "idle"
    BY <1>2, <2>2 DEF testFull
  <2>4. Collected'
    <3> HIDE DEF CaptureInv
    <3>1. CASE Len(saveDepth) = CAPTURE
      BY <2>3, <3>1 DEF Collected
    <3>2. CASE Len(saveDepth) # CAPTURE
      <4>1. pc' = "idle" /\ Len(saveDepth') < CAPTURE
        BY <2>1, <2>3, <3>2
      <4> QED
        BY <4>1 DEF Collected
    <3> QED
      BY <3>1, <3>2
  <2> QED
    BY <1>2, <2>4 DEF testFull, TypeOK, Consecutive, FilesAreWhole
<1> QED
  BY <1>1, <1>2

\* The file is written, and the capture ends.
LEMMA WriteKeeps == ASSUME CaptureInv, savemat \/ clearFrames \/ stopSaving PROVE CaptureInv'
<1> USE CaptureFacts DEF CaptureInv
<1>1. CASE savemat
  <2>1. owed' \in BOOLEAN
    BY <1>1 DEF savemat
  <2>2. TypeOK'
    BY <1>1, <2>1 DEF savemat, TypeOK
  <2>3. FilesAreWhole'
    BY <1>1 DEF savemat, Collected, Consecutive, FilesAreWhole
  <2> QED
    BY <1>1, <2>2, <2>3 DEF savemat, Collected, Consecutive
<1>2. CASE clearFrames
  <2>1. saveDepth' = <<>> /\ saveDepth' \in Seq(0..(Serials - 1)) /\ Len(saveDepth') = 0
    BY <1>2 DEF clearFrames
  <2>2. TypeOK'
    BY <1>2, <2>1 DEF clearFrames, TypeOK
  <2> QED
    BY <1>2, <2>1, <2>2 DEF clearFrames, Collected, Consecutive, FilesAreWhole
<1>3. CASE stopSaving
  <2>1. asked' \in BOOLEAN
    BY <1>3 DEF stopSaving
  <2>2. TypeOK'
    BY <1>3, <2>1 DEF stopSaving, TypeOK
  <2>3. saveDepth = <<>> /\ Len(saveDepth) = 0
    BY <1>3 DEF stopSaving, Collected
  <2> QED
    BY <1>3, <2>2, <2>3 DEF stopSaving, Collected, Consecutive, FilesAreWhole
<1> QED
  BY <1>1, <1>2, <1>3

LEMMA CaptureStep == CaptureInv /\ [Next]_vars => CaptureInv'
<1>1. ASSUME CaptureInv, UNCHANGED vars PROVE CaptureInv'
  BY <1>1 DEF vars, CaptureInv, TypeOK, Collected, Consecutive, FilesAreWhole
<1> QED
  BY <1>1, ButtonKeeps, FrameKeeps, AddKeeps, LookKeeps, WriteKeeps DEF Next, get_depth

LEMMA CaptureInvariant == Spec => []CaptureInv
  BY CaptureInitial, CaptureStep, PTL DEF Spec

\* No more frames are collected than a file has.
THEOREM CaptureTypeOK == Spec => []TypeOK
<1>1. CaptureInv => TypeOK
  BY DEF CaptureInv
<1> QED
  BY <1>1, CaptureInvariant, PTL

\* Every file has CAPTURE frames that the camera gave one after the other.
THEOREM CapturesAreWhole == Spec => []FilesAreWhole
<1>1. CaptureInv => FilesAreWhole
  BY DEF CaptureInv
<1> QED
  BY <1>1, CaptureInvariant, PTL

\* No frame is set aside, and so no file written, that nobody asked for.
THEOREM CapturesWereAsked == Spec => []FilesWereAsked
<1>1. CaptureInv => FilesWereAsked
  BY DEF CaptureInv, FilesWereAsked
<1> QED
  BY <1>1, CaptureInvariant, PTL

(***************************************************************************)
(* The safety half of CaptureIsServed: a request made while no file is     *)
(* being written keeps savecnt up until its file is written.  Only a       *)
(* request made between savemat and the reset can be forgotten.            *)
(***************************************************************************)
OwedIsAsked == owed => savecnt = CAPTURE /\ pc \notin {"clear", "reset"}

\* A request that is owed a file is not forgotten before the file is written.
THEOREM RequestsAreKept == Spec => []OwedIsAsked
<1>1. Init => OwedIsAsked
  BY DEF Init, OwedIsAsked
<1>2. OwedIsAsked /\ [Next]_vars => OwedIsAsked'
  BY DEF OwedIsAsked, Next, get_depth, captureHandler, get_dmap, addFrame, keepFrame, testFull,
     savemat, clearFrames, stopSaving, vars
<1> QED
  BY <1>1, <1>2, PTL DEF Spec
=============================================================================
