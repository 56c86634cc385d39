----------------------------- MODULE WaterDrip -----------------------------
(***************************************************************************)
(* The firmware of the water board, src/Arduino/WaterDrip/WaterDrip.ino:   *)
(* setup(), which brings the 16 solenoids up powered and closed, and       *)
(* loop(), which plays a picture line by line with the solenoids while the *)
(* other end of the USB serial line types commands at any moment.          *)
(*                                                                         *)
(* A line of a picture (an unsigned short) is the set of its 1 bits.  A    *)
(* character typed is its distance from '0', so a command that selects     *)
(* picture n is the number n.                                              *)
(***************************************************************************)
EXTENDS Integers, Sequences, FiniteSets

CONSTANTS
    data,        (* the pictures: a sequence of sequences of lines (all.h) *)
    Characters,  (* the characters that can be typed *)
    SerialBound  (* bound of the model: characters waiting in the USB buffer *)

Bits == 0..15
Solenoids == 0..15

ndata == Len(data)

ASSUME PicturesAssumption ==
    /\ data \in Seq(Seq(SUBSET Bits))
    /\ ndata \in 1..10
    /\ Characters \subseteq Int
    /\ SerialBound \in Nat \ {0}

VARIABLES
    pc,        (* where setup or loop is *)
    pin,       (* setup: the solenoid pin initializePins does next *)
    outputs,   (* solenoid pins that are outputs; an input drives nothing *)
    high,      (* solenoid pins whose level is HIGH *)
    powered,   (* EN_P_SOLENOIDS *)
    serial,    (* characters received and not read, oldest first *)
    cur,       (* the picture being played, 0..ndata - 1 *)
    i,         (* showmessage: index of the next line *)
    lastTyped  (* history: the last command typed since the board started *)

bootVars == <<pin, outputs, powered>>
vars == <<pc, pin, outputs, high, powered, serial, cur, i, lastTyped>>

\* Mutant of IsCommand: in <= '0' + ndata.
IsCommandOrNext(in) == 0 <= in /\ in <= ndata

\* A command: in >= '0' && in < ('0' + ndata).
IsCommand(in) == 0 <= in /\ in < ndata

\* The solenoids water flows through.
Flowing == IF powered THEN outputs \cap high ELSE {}

-----------------------------------------------------------------------------
\* After a reset every pin is an input at LOW and the variables of the sketch
\* have their initial values; the USB buffer is empty.
Init ==
    /\ pc = "pins" /\ pin = 0
    /\ outputs = {} /\ high = {} /\ powered = FALSE
    /\ serial = <<>> /\ cur = 0 /\ i = 0 /\ lastTyped = 0

\* initializePins: power off first, then each pin low and then an output.
initializePins ==
    /\ pc = "pins"
    /\ powered' = FALSE
    /\ high' = high \ {pin}
    /\ outputs' = outputs \cup {pin}
    /\ pin' = pin + 1
    /\ pc' = IF pin + 1 \in Solenoids THEN "pins" ELSE "allOff"
    /\ UNCHANGED <<serial, cur, i, lastTyped>>

\* Mutant of allOff: allSolenoid(true), the state the solenoids rest in.
allOpen ==
    /\ pc = "allOff"
    /\ powered' = FALSE
    /\ high' = Solenoids
    /\ pc' = "enable"
    /\ UNCHANGED <<pin, outputs, serial, cur, i, lastTyped>>

\* setup: solenoidEnable(false) and allSolenoid(false) ...
allOff ==
    /\ pc = "allOff"
    /\ powered' = FALSE
    /\ high' = {}
    /\ pc' = "enable"
    /\ UNCHANGED <<pin, outputs, serial, cur, i, lastTyped>>

\* ... and then solenoidEnable(true).  DMXSetup is commented out, so nothing
\* but loop drives the solenoids from here on.
solenoidEnable ==
    /\ pc = "enable"
    /\ powered' = TRUE
    /\ pc' = "loop"
    /\ UNCHANGED <<pin, outputs, high, serial, cur, i, lastTyped>>

\* Mutant of loop: the buffer is flushed after the first character.
loopFlushes ==
    /\ pc = "loop"
    /\ serial' = <<>>
    /\ cur' = IF serial # <<>> /\ IsCommand(Head(serial)) THEN Head(serial) ELSE cur
    /\ i' = 0
    /\ pc' = "showmessage"
    /\ UNCHANGED <<bootVars, high, lastTyped>>

\* Mutant of loop: a picture goes on where the last one was cut short.
loopContinues ==
    /\ pc = "loop"
    /\ IF serial = <<>>
       THEN UNCHANGED <<serial, cur>>
       ELSE /\ serial' = Tail(serial)
            /\ cur' = IF IsCommand(Head(serial)) THEN Head(serial) ELSE cur
    /\ i' = IF i <= Len(data[cur' + 1]) THEN i ELSE 0
    /\ pc' = "showmessage"
    /\ UNCHANGED <<bootVars, high, lastTyped>>

\* loop: at most one character is read before the picture is started again.
\* One that is no command only prints the names of the pictures.
loop ==
    /\ pc = "loop"
    /\ IF serial = <<>>
       THEN UNCHANGED <<serial, cur>>
       ELSE /\ serial' = Tail(serial)
            /\ cur' = IF IsCommand(Head(serial)) THEN Head(serial) ELSE cur
    /\ i' = 0
    /\ pc' = "showmessage"
    /\ UNCHANGED <<bootVars, high, lastTyped>>

\* The order in which the solenoids hang.  (showline names the table "ord",
\* which this commit declares only inside cycle; that table is meant.)
ord == <<2, 3, 4, 5, 1, 0, 7, 6, 9, 8, 15, 14, 10, 11, 12, 13>>

\* showline: bit 0 goes to ord[15], bit 15 to ord[0].
showline(line) == {ord[(15 - b) + 1] : b \in line}

\* One line of showmessage: shown after the delay, during which characters
\* may arrive; if one is waiting then, showmessage returns at once.
ShowLine ==
    /\ pc = "showmessage"
    /\ i < Len(data[cur + 1])
    /\ high' = showline(data[cur + 1][i + 1])
    /\ IF serial # <<>>
       THEN pc' = "interrupted" /\ i' = i
       ELSE pc' = pc /\ i' = i + 1
    /\ UNCHANGED <<bootVars, serial, cur, lastTyped>>

\* The end of showmessage: all solenoids open, showline(0xffff).
ShowRest ==
    /\ pc = "showmessage"
    /\ i = Len(data[cur + 1])
    /\ high' = showline(Bits)
    /\ pc' = "pause"
    /\ UNCHANGED <<bootVars, serial, cur, i, lastTyped>>

\* delay(del[cur]) and back to the top of loop.
Pause ==
    /\ pc \in {"pause", "interrupted"}
    /\ pc' = "loop"
    /\ UNCHANGED <<bootVars, high, serial, cur, i, lastTyped>>

Board == initializePins \/ allOff \/ solenoidEnable \/ loop \/ ShowLine \/ ShowRest \/ Pause

\* The other end of the serial line types a character.
Type(in) ==
    /\ Len(serial) < SerialBound
    /\ serial' = Append(serial, in)
    /\ lastTyped' = IF IsCommand(in) THEN in ELSE lastTyped
    /\ UNCHANGED <<pc, bootVars, high, cur, i>>

\* The board is reset or loses its supply.
Reset ==
    /\ pc' = "pins" /\ pin' = 0
    /\ outputs' = {} /\ high' = {} /\ powered' = FALSE
    /\ serial' = <<>> /\ cur' = 0 /\ i' = 0 /\ lastTyped' = 0

Next == Board \/ (\E in \in Characters : Type(in)) \/ Reset

Spec == Init /\ [][Next]_vars

\* The board never stops running its loop: delays end, nothing blocks.
FairSpec == Spec /\ WF_vars(Board)

-----------------------------------------------------------------------------
\* In particular cur always names a picture and i a line of it, or its end.
TypeOK ==
    /\ pc \in {"pins", "allOff", "enable", "loop", "showmessage", "interrupted", "pause"}
    /\ pin \in 0..16
    /\ outputs \subseteq Solenoids
    /\ high \subseteq Solenoids
    /\ powered \in BOOLEAN
    /\ serial \in Seq(Characters) /\ Len(serial) <= SerialBound
    /\ cur \in 0..(ndata - 1)
    /\ i \in 0..Len(data[cur + 1])
    /\ lastTyped \in 0..(ndata - 1)

\* Water starts to flow through a solenoid only because showmessage shows a
\* line: no step of setup opens one, whatever the board did before a reset.
WaterStartsWithALine ==
    [][~(Flowing' \subseteq Flowing) => pc = "showmessage"]_vars

\* The command that wins: the last one waiting, or the picture being played.
CommandInForce ==
    LET waiting == {n \in DOMAIN serial : IsCommand(serial[n])}
    IN  IF waiting = {} THEN cur
        ELSE serial[CHOOSE n \in waiting : \A m \in waiting : m <= n]

\* No command is lost or applied out of order, however many characters arrive
\* while a picture is being cut short: the last one typed is the one waiting
\* last, or the picture being played.
NoCommandLost == CommandInForce = lastTyped

\* Once nobody types (or resets) any more, the picture asked for last is shown
\* over and over, every line of it through the right solenoids, and at its end
\* the gap, when each solenoid is driven and carries water.
LastCommandPlays ==
    \A n \in 0..(ndata - 1) :
        LET picture == data[n + 1]
        IN  <>[](serial = <<>> /\ lastTyped = n /\ powered) =>
                /\ []<>(pc = "pause" /\ Flowing = Solenoids)
                /\ \A k \in DOMAIN picture :
                       []<>(cur = n /\ i = k /\ Flowing = showline(picture[k]))
=============================================================================
