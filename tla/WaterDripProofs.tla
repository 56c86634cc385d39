-------------------------- MODULE WaterDripProofs --------------------------
(***************************************************************************)
(* Proofs about the firmware of the water board, for all pictures, all     *)
(* characters that can be typed and every size of the USB buffer.          *)
(***************************************************************************)
EXTENDS WaterDrip, TLAPS

\* Where setup is, and that it enables the solenoids only while all are low.
Booting ==
    /\ pc = "pins" => pin \in Solenoids
    /\ pc = "enable" => high = {}

(***************************************************************************)
(* NoCommandLost picks the last command waiting; whether there is one is   *)
(* part of the invariant: either the command typed last waits and no other *)
(* command behind it, or none waits and its picture is the current one.    *)
(***************************************************************************)
LastWaits ==
    \E n \in 1..Len(serial) :
        /\ serial[n] = lastTyped /\ IsCommand(serial[n])
        /\ \A m \in 1..Len(serial) : n < m => ~IsCommand(serial[m])

NoneWaits == cur = lastTyped /\ \A m \in 1..Len(serial) : ~IsCommand(serial[m])

DripInv == TypeOK /\ Booting /\ (LastWaits \/ NoneWaits)

\* The pictures are numbered from 0, and each is a sequence of lines.
LEMMA PictureFacts ==
    /\ ndata \in Nat \ {0}
    /\ \A n \in 0..(ndata - 1) : data[n + 1] \in Seq(SUBSET Bits) /\ Len(data[n + 1]) \in Nat
<1>1. ndata \in Nat \ {0} /\ data \in Seq(Seq(SUBSET Bits)) /\ ndata = Len(data)
  <2>1. ndata \in Nat \ {0} /\ data \in Seq(Seq(SUBSET Bits))
    BY PicturesAssumption
  <2>2. ndata = Len(data)
    BY DEF ndata
  <2> QED
    BY <2>1, <2>2
<1>2. ASSUME NEW n \in 0..(ndata - 1)
      PROVE  data[n + 1] \in Seq(SUBSET Bits) /\ Len(data[n + 1]) \in Nat
  <2>1. n + 1 \in 1..Len(data)
    BY <1>1
  <2> QED
    BY <1>1, <2>1
<1> QED
  BY <1>1, <1>2

\* A command names a picture.
LEMMA CommandsArePictures ==
    ASSUME NEW in \in Characters, IsCommand(in) PROVE in \in 0..(ndata - 1)
  BY PicturesAssumption, PictureFacts DEF IsCommand

\* The solenoids that a line opens are solenoids.
LEMMA LinesOpenSolenoids == ASSUME NEW line \in SUBSET Bits PROVE showline(line) \subseteq Solenoids
  BY DEF showline, ord, Bits, Solenoids

\* Picture 0 and its line 0 exist, or the picture is empty.
LEMMA FirstPicture ==
    /\ 0 \in 0..(ndata - 1) /\ 0 \in 0..Len(data[0 + 1])
    /\ <<>> \in Seq(Characters) /\ Len(<<>>) <= SerialBound
<1>1. 0 \in 0..(ndata - 1)
  BY PictureFacts
<1>2. Len(data[0 + 1]) \in Nat
  BY <1>1, PictureFacts
<1>3. Len(<<>>) <= SerialBound
  <2>1. SerialBound \in Nat
    BY PicturesAssumption
  <2> QED
    BY <2>1
<1> QED
  BY <1>1, <1>2, <1>3

LEMMA DripInitial == Init => DripInv
<1> SUFFICES ASSUME Init PROVE DripInv
  OBVIOUS
<1>1. TypeOK
  <2>1. serial \in Seq(Characters) /\ Len(serial) <= SerialBound
    BY FirstPicture DEF Init
  <2>2. cur \in 0..(ndata - 1) /\ lastTyped \in 0..(ndata - 1)
    BY FirstPicture DEF Init
  <2>3. i \in 0..Len(data[cur + 1])
    BY FirstPicture DEF Init
  <2>4. powered \in BOOLEAN
    BY Zenon DEF Init
  <2>5. /\ pc = "pins" /\ pin \in 0..16
        /\ outputs \subseteq Solenoids /\ high \subseteq Solenoids
    BY DEF Init
  <2> QED
    BY <2>1, <2>2, <2>3, <2>4, <2>5 DEF TypeOK
<1>2. Booting /\ NoneWaits
  BY DEF Init, Booting, NoneWaits, Solenoids
<1> QED
  BY <1>1, <1>2 DEF DripInv

\* A reset puts the board into its initial state.
LEMMA ResetIsInit == Reset => DripInv'
<1> SUFFICES ASSUME Reset PROVE DripInv'
  OBVIOUS
<1>1. TypeOK'
  <2>1. serial' \in Seq(Characters) /\ Len(serial') <= SerialBound
    BY FirstPicture DEF Reset
  <2>2. cur' \in 0..(ndata - 1) /\ lastTyped' \in 0..(ndata - 1)
    BY FirstPicture DEF Reset
  <2>3. i' \in 0..Len(data[cur' + 1])
    BY FirstPicture DEF Reset
  <2>4. powered' \in BOOLEAN
    BY Zenon DEF Reset
  <2>5. /\ pc' = "pins" /\ pin' \in 0..16
        /\ outputs' \subseteq Solenoids /\ high' \subseteq Solenoids
    BY DEF Reset
  <2> QED
    BY <2>1, <2>2, <2>3, <2>4, <2>5 DEF TypeOK
<1>2. Booting' /\ NoneWaits'
  BY DEF Reset, Booting, NoneWaits, Solenoids
<1> QED
  BY <1>1, <1>2 DEF DripInv

\* The steps that leave the characters alone leave the last command alone.
LEMMA SameCommands ==
    ASSUME DripInv, UNCHANGED <<serial, cur, lastTyped>>
    PROVE  LastWaits' \/ NoneWaits'
  BY DEF DripInv, LastWaits, NoneWaits

LEMMA SetupKeeps ==
    ASSUME DripInv, initializePins \/ allOff \/ solenoidEnable
    PROVE  DripInv'
<1>1. CASE initializePins
  <2>1. pin \in 0..15 /\ pin' = pin + 1
    BY <1>1 DEF initializePins, DripInv, Booting, Solenoids
  <2>2. pin' \in 0..16 /\ Booting'
    BY <1>1, <2>1 DEF initializePins, Booting, Solenoids
  <2>3. outputs' \subseteq Solenoids /\ high' \subseteq Solenoids
    BY <1>1, <2>1 DEF initializePins, DripInv, TypeOK, Solenoids
  <2>4. TypeOK'
    BY <1>1, <2>2, <2>3 DEF initializePins, DripInv, TypeOK
  <2> QED
    BY <1>1, <2>2, <2>4, SameCommands DEF initializePins, DripInv
<1>2. CASE allOff
  <2>1. TypeOK' /\ Booting'
    BY <1>2 DEF allOff, DripInv, TypeOK, Booting
  <2> QED
    BY <1>2, <2>1, SameCommands DEF allOff, DripInv
<1>3. CASE solenoidEnable
  <2>1. TypeOK' /\ Booting'
    BY <1>3 DEF solenoidEnable, DripInv, TypeOK, Booting
  <2> QED
    BY <1>3, <2>1, SameCommands DEF solenoidEnable, DripInv
<1> QED
  BY <1>1, <1>2, <1>3

\* The character loop reads is the first of those waiting: the others wait on.
LEMMA LoopKeeps ==
    ASSUME DripInv, loop PROVE DripInv'
<1> USE DEF loop
<1>1. serial \in Seq(Characters) /\ cur \in 0..(ndata - 1)
  BY DEF DripInv, TypeOK
<1>2. CASE serial = <<>>
  <2>1. TypeOK' /\ Booting'
    BY <1>2, PictureFacts DEF DripInv, TypeOK, Booting, bootVars
  <2> QED
    BY <1>2, <2>1, SameCommands DEF DripInv
<1>3. CASE serial # <<>>
  <2>1. /\ Len(serial) \in Nat \ {0} /\ serial' = Tail(serial)
        /\ Len(serial') = Len(serial) - 1 /\ serial' \in Seq(Characters)
        /\ \A m \in 1..(Len(serial) - 1) : serial'[m] = serial[m + 1]
        /\ Head(serial) = serial[1] /\ serial[1] \in Characters
    BY <1>1, <1>3
  <2>2. cur' = IF IsCommand(serial[1]) THEN serial[1] ELSE cur
    BY <1>3, <2>1
  <2>3. cur' \in 0..(ndata - 1)
    BY <1>1, <2>1, <2>2, CommandsArePictures
  <2>4. TypeOK' /\ Booting'
    <3>1. Len(serial') <= SerialBound
      BY <2>1, PicturesAssumption DEF DripInv, TypeOK
    <3>2. i' \in 0..Len(data[cur' + 1])
      BY <2>3, PictureFacts
    <3> QED
      BY <2>1, <2>3, <3>1, <3>2 DEF DripInv, TypeOK, Booting, bootVars
  <2>5. CASE NoneWaits
    <3>1. NoneWaits'
      BY <2>1, <2>2, <2>5 DEF NoneWaits
    <3> QED
      BY <2>4, <3>1 DEF DripInv
  <2>6. CASE LastWaits
    <3>1. PICK n \in 1..Len(serial) :
              /\ serial[n] = lastTyped /\ IsCommand(serial[n])
              /\ \A m \in 1..Len(serial) : n < m => ~IsCommand(serial[m])
      BY <2>6 DEF LastWaits
    <3>2. CASE n = 1
      <4>1. NoneWaits'
        BY <2>1, <2>2, <3>1, <3>2 DEF NoneWaits
      <4> QED
        BY <2>4, <4>1 DEF DripInv
    <3>3. CASE n # 1
      <4>1. n - 1 \in 1..Len(serial') /\ serial'[n - 1] = serial[n]
        BY <2>1, <3>1, <3>3
      <4>2. ASSUME NEW m \in 1..Len(serial'), n - 1 < m PROVE ~IsCommand(serial'[m])
        BY <2>1, <3>1, <4>2
      <4>3. LastWaits'
        BY <3>1, <4>1, <4>2 DEF LastWaits
      <4> QED
        BY <2>4, <4>3 DEF DripInv
    <3> QED
      BY <3>2, <3>3
  <2> QED
    BY <2>5, <2>6 DEF DripInv
<1> QED
  BY <1>2, <1>3

LEMMA ShowKeeps ==
    ASSUME DripInv, ShowLine \/ ShowRest \/ Pause
    PROVE  DripInv'
<1>1. cur \in 0..(ndata - 1) /\ data[cur + 1] \in Seq(SUBSET Bits) /\ Len(data[cur + 1]) \in Nat
  BY PictureFacts DEF DripInv, TypeOK
<1>2. CASE ShowLine
  <2>1. i + 1 \in 1..Len(data[cur + 1])
    BY <1>1, <1>2 DEF ShowLine, DripInv, TypeOK
  <2>2. high' \subseteq Solenoids
    BY <1>1, <1>2, <2>1, LinesOpenSolenoids DEF ShowLine
  <2>3. TypeOK' /\ Booting'
    BY <1>1, <1>2, <2>1, <2>2 DEF ShowLine, DripInv, TypeOK, Booting, bootVars
  <2> QED
    BY <1>2, <2>3, SameCommands DEF ShowLine, DripInv
<1>3. CASE ShowRest
  <2>1. high' \subseteq Solenoids
    BY <1>3, LinesOpenSolenoids DEF ShowRest
  <2>2. TypeOK' /\ Booting'
    BY <1>1, <1>3, <2>1 DEF ShowRest, DripInv, TypeOK, Booting, bootVars
  <2> QED
    BY <1>3, <2>2, SameCommands DEF ShowRest, DripInv
<1>4. CASE Pause
  <2>1. TypeOK' /\ Booting'
    BY <1>4 DEF Pause, DripInv, TypeOK, Booting, bootVars
  <2> QED
    BY <1>4, <2>1, SameCommands DEF Pause, DripInv
<1> QED
  BY <1>2, <1>3, <1>4

\* A character is added behind those that wait.
LEMMA TypeKeeps ==
    ASSUME DripInv, NEW in \in Characters, Type(in) PROVE DripInv'
<1> USE DEF Type
<1>1. /\ serial \in Seq(Characters) /\ serial' = Append(serial, in)
      /\ Len(serial') = Len(serial) + 1 /\ serial' \in Seq(Characters)
      /\ serial'[Len(serial) + 1] = in /\ Len(serial) \in Nat
      /\ \A m \in 1..Len(serial) : serial'[m] = serial[m]
  BY DEF DripInv, TypeOK
<1>2. TypeOK' /\ Booting'
  <2>1. lastTyped' \in 0..(ndata - 1) /\ Len(serial') <= SerialBound
    BY <1>1, CommandsArePictures, PicturesAssumption DEF DripInv, TypeOK
  <2> QED
    BY <1>1, <2>1 DEF DripInv, TypeOK, Booting, bootVars
<1>3. CASE IsCommand(in)
  <2>1. Len(serial) + 1 \in 1..Len(serial') /\ serial'[Len(serial) + 1] = lastTyped'
    BY <1>1, <1>3
  <2>2. LastWaits'
    BY <1>1, <1>3, <2>1 DEF LastWaits
  <2> QED
    BY <1>2, <2>2 DEF DripInv
<1>4. CASE ~IsCommand(in)
  <2>1. lastTyped' = lastTyped /\ cur' = cur
    BY <1>4
  <2>2. LastWaits => LastWaits'
    BY <1>1, <1>4, <2>1 DEF LastWaits
  <2>3. NoneWaits => NoneWaits'
    BY <1>1, <1>4, <2>1 DEF NoneWaits
  <2> QED
    BY <1>2, <2>2, <2>3 DEF DripInv
<1> QED
  BY <1>3, <1>4

LEMMA DripStep == DripInv /\ [Next]_vars => DripInv'
<1> SUFFICES ASSUME DripInv, [Next]_vars PROVE DripInv'
  OBVIOUS
<1>1. CASE Board
  BY <1>1, SetupKeeps, LoopKeeps, ShowKeeps DEF Board
<1>2. CASE UNCHANGED vars
  <2>1. TypeOK' /\ Booting'
    BY <1>2 DEF vars, bootVars, DripInv, TypeOK, Booting
  <2> QED
    BY <1>2, <2>1, SameCommands DEF vars, DripInv
<1> QED
  BY <1>1, <1>2, TypeKeeps, ResetIsInit DEF Next

LEMMA DripInvariant == Spec => []DripInv
  BY DripInitial, DripStep, PTL DEF Spec

\* No index leaves the pictures, whatever is typed and whenever.
THEOREM DripTypeOK == Spec => []TypeOK
<1>1. DripInv => TypeOK
  BY DEF DripInv
<1> QED
  BY <1>1, DripInvariant, PTL

\* The command typed last is the one in force.
LEMMA LastIsInForce == DripInv => NoCommandLost
<1> SUFFICES ASSUME DripInv PROVE CommandInForce = lastTyped
  BY DEF NoCommandLost
<1> DEFINE waiting == {n \in DOMAIN serial : IsCommand(serial[n])}
<1>1. serial \in Seq(Characters) /\ DOMAIN serial = 1..Len(serial) /\ Len(serial) \in Nat
  BY DEF DripInv, TypeOK
<1>2. CASE LastWaits
  <2>1. PICK n \in 1..Len(serial) :
            /\ serial[n] = lastTyped /\ IsCommand(serial[n])
            /\ \A m \in 1..Len(serial) : n < m => ~IsCommand(serial[m])
    BY <1>2 DEF LastWaits
  <2>2. n \in waiting /\ \A m \in waiting : m <= n
    BY <1>1, <2>1
  <2>3. \A k \in waiting : (\A m \in waiting : m <= k) => k = n
    BY <1>1, <2>2
  <2>4. (CHOOSE k \in waiting : \A m \in waiting : m <= k) = n
    BY <2>2, <2>3
  <2> QED
    BY <2>1, <2>2, <2>4 DEF CommandInForce
<1>3. CASE NoneWaits
  <2>1. waiting = {}
    BY <1>1, <1>3 DEF NoneWaits
  <2> QED
    BY <1>3, <2>1 DEF CommandInForce, NoneWaits
<1> QED
  BY <1>2, <1>3 DEF DripInv

THEOREM CommandsAreKept == Spec => []NoCommandLost
  BY LastIsInForce, DripInvariant, PTL

\* No step but that of showmessage lets water through a solenoid.
THEOREM WaterIsShown == Spec => WaterStartsWithALine
<1> DEFINE Starts == ~(Flowing' \subseteq Flowing) => pc = "showmessage"
<1>1. DripInv /\ [Next]_vars => Starts
  <2> SUFFICES ASSUME DripInv, [Next]_vars, pc # "showmessage"
               PROVE  Flowing' \subseteq Flowing
    OBVIOUS
  <2>1. CASE initializePins \/ allOff \/ Reset
    BY <2>1 DEF initializePins, allOff, Reset, Flowing
  <2>2. CASE solenoidEnable
    BY <2>2 DEF solenoidEnable, Flowing, DripInv, Booting
  <2>3. CASE loop \/ Pause \/ UNCHANGED vars \/ \E in \in Characters : Type(in)
    BY <2>3 DEF loop, Pause, Type, vars, bootVars, Flowing
  <2>4. CASE ShowLine \/ ShowRest
    BY <2>4 DEF ShowLine, ShowRest
  <2> QED
    BY <2>1, <2>2, <2>3, <2>4 DEF Next, Board
<1> QED
  BY <1>1, DripInvariant, PTL DEF Spec, WaterStartsWithALine

-----------------------------------------------------------------------------
(* showline: the table ord hangs every bit on a solenoid of its own. *)

\* The bit that drives each solenoid.
bitOf == <<10, 11, 15, 14, 13, 12, 8, 9, 6, 7, 3, 2, 1, 0, 4, 5>>

LEMMA OrdIsOnto ==
    /\ \A b \in Bits : ord[(15 - b) + 1] \in Solenoids /\ bitOf[ord[(15 - b) + 1] + 1] = b
    /\ \A n \in Solenoids : bitOf[n + 1] \in Bits /\ ord[(15 - bitOf[n + 1]) + 1] = n
  BY DEF ord, bitOf, Bits, Solenoids

\* No two lines open the same solenoids, a line of all bits opens every one, and
\* no line opens one that is not there.
THEOREM LinesAreToldApart ==
    /\ showline(Bits) = Solenoids
    /\ \A S, T \in SUBSET Bits :
           showline(S) \subseteq Solenoids /\ (showline(S) = showline(T) => S = T)
<1>1. showline(Bits) = Solenoids
  BY OrdIsOnto DEF showline
<1>2. ASSUME NEW S \in SUBSET Bits
      PROVE  showline(S) \subseteq Solenoids /\ S = {bitOf[n + 1] : n \in showline(S)}
  BY OrdIsOnto DEF showline
<1> QED
  BY <1>1, <1>2
=============================================================================
