--------------------------- MODULE DepthControls ---------------------------
(***************************************************************************)
(* DepthCamera.py: the controls of the depth picture.  The handlers that   *)
(* addOSCHandlers registers change range, zoom and aim in the thread of    *)
(* the OSC server; the application's thread sends them to the user         *)
(* interface (setGUI) and cuts the patch they select out of the depth map  *)
(* (the end of get_depth).  There is no lock: each read and each write of  *)
(* a shared attribute is a step of its own.                                *)
(*                                                                         *)
(* The handlers store whatever number a message brings.  Here the numbers  *)
(* are fractions: distances, zooms and aims are counted in units of        *)
(* 1 / Unit, sz in pixels, and places on the sensor in units of            *)
(* 1 / (2 * Unit) pixel, in which sz / 2 and the center are whole.         *)
(***************************************************************************)
EXTENDS Integers, Sequences

CONSTANTS
    Unit,      (* the denominator of the numbers in a message *)
    Distances, (* the arguments of /depth/range/min and /depth/range/max *)
    Zooms,     (* the arguments of /depth/zoom *)
    Aims       (* the arguments of /depth/aim *)

ASSUME ControlsAssumption ==
    /\ Unit \in Nat \ {0}
    /\ Distances \subseteq Int
    /\ Zooms \subseteq Int /\ Unit \in Zooms
    /\ Aims \subseteq Int /\ 0 \in Aims

VARIABLES
    mindist, maxdist, zoom, aim, refreshGUI, (* of DepthCamera *)
    osc,     (* what the running handler does next; "idle": none runs *)
    arg,     (* args[1] of aimHandler *)
    app,     (* what the application's thread does next *)
    sz, center, (* the locals of get_depth: <<rows, columns>> *)
    looked,  (* history: the aim this call of get_depth read *)
    asked,   (* history: the aim of the last message *)
    crossed, (* history: a handler changed zoom or aim since get_depth began to read *)
    shown,   (* history: the controls of which the GUI shows the present value *)
    raced    (* history: a control changed after this call of setGUI sent it *)

controlVars == <<mindist, maxdist, zoom, aim>>
oscVars == <<osc, arg>>
viewVars == <<sz, center, looked>>
askedVars == <<asked, crossed>>
guiVars == <<shown, raced>>
vars == <<controlVars, refreshGUI, oscVars, app, viewVars, askedVars, guiVars>>

Controls == {"min", "max", "zoom", "aim"}
Sending == {"min", "max", "zoom", "aim", "done"}  \* the lines of setGUI
Viewing == {"columns", "row", "column", "clamp", "cut"}  \* inside get_depth

Init ==
    /\ mindist = 500 * Unit /\ maxdist = 2000 * Unit
    /\ zoom = Unit /\ aim = <<0, 0>>
    /\ refreshGUI = TRUE
    /\ osc = "idle" /\ arg = 0
    /\ app = "idle"
    /\ sz = <<0, 0>> /\ center = <<0, 0>> /\ looked = <<0, 0>>
    /\ asked = <<0, 0>> /\ crossed = FALSE
    /\ shown = {} /\ raced = FALSE

-----------------------------------------------------------------------------
(* The OSC thread: one handler at a time. *)

\* A control changes: the GUI no longer shows it.
Changes(control) ==
    /\ shown' = shown \ {control}
    /\ raced' = (raced \/ (app \in Sending /\ control \in shown))

\* A new zoom or aim meets a call of get_depth that has begun to read them.
Crosses == crossed' = (crossed \/ app \in Viewing)

rangeHandler(d) ==
    /\ osc = "idle" /\ osc' = "clamp"
    /\ \/ mindist' = d /\ UNCHANGED maxdist /\ Changes("min")
       \/ maxdist' = d /\ UNCHANGED mindist /\ Changes("max")
    /\ UNCHANGED <<zoom, aim, refreshGUI, arg, app, viewVars, askedVars>>

\* Mutant of clampRange: only a range upside down is opened.
clampRange_inverted ==
    /\ osc = "clamp" /\ osc' = "refresh"
    /\ IF maxdist < mindist
       THEN maxdist' = mindist + 10 * Unit /\ Changes("max")
       ELSE UNCHANGED <<maxdist, guiVars>>
    /\ UNCHANGED <<mindist, zoom, aim, refreshGUI, arg, app, viewVars, askedVars>>

\* if self.maxdist < self.mindist + 10: self.maxdist = self.mindist + 10
clampRange ==
    /\ osc = "clamp" /\ osc' = "refresh"
    /\ IF maxdist < mindist + 10 * Unit
       THEN maxdist' = mindist + 10 * Unit /\ Changes("max")
       ELSE UNCHANGED <<maxdist, guiVars>>
    /\ UNCHANGED <<mindist, zoom, aim, refreshGUI, arg, app, viewVars, askedVars>>

\* Any number is stored, 0 too.
zoomHandler(z) ==
    /\ osc = "idle" /\ osc' = "refresh"
    /\ zoom' = z /\ Changes("zoom") /\ Crosses
    /\ UNCHANGED <<mindist, maxdist, aim, refreshGUI, arg, app, viewVars, asked>>

\* aimHandler writes the two coordinates one after the other.
aimHandler(a, b) ==
    /\ osc = "idle" /\ osc' = "aim1"
    /\ aim' = [aim EXCEPT ![1] = a] /\ Changes("aim") /\ Crosses
    /\ arg' = b /\ asked' = <<a, b>>
    /\ UNCHANGED <<mindist, maxdist, zoom, refreshGUI, app, viewVars>>

\* Mutant of aimSecond: the second argument goes where the first one went.
aimSecond_first ==
    /\ osc = "aim1" /\ osc' = "refresh"
    /\ aim' = [aim EXCEPT ![1] = arg] /\ Changes("aim") /\ Crosses
    /\ UNCHANGED <<mindist, maxdist, zoom, refreshGUI, arg, app, viewVars, asked>>

aimSecond ==
    /\ osc = "aim1" /\ osc' = "refresh"
    /\ aim' = [aim EXCEPT ![2] = arg] /\ Changes("aim") /\ Crosses
    /\ UNCHANGED <<mindist, maxdist, zoom, refreshGUI, arg, app, viewVars, asked>>

\* Mutant of askRefresh: the handler does not ask for a refresh.
askRefresh_not ==
    /\ osc = "refresh" /\ osc' = "idle"
    /\ UNCHANGED <<controlVars, refreshGUI, arg, app, viewVars, askedVars, guiVars>>

\* Every handler ends with self.refreshGUI = True.
askRefresh ==
    /\ osc = "refresh" /\ osc' = "idle"
    /\ refreshGUI' = TRUE
    /\ UNCHANGED <<controlVars, arg, app, viewVars, askedVars, guiVars>>

OscStep ==
    \/ \E d \in Distances : rangeHandler(d)
    \/ \E z \in Zooms : zoomHandler(z)
    \/ \E a, b \in Aims : aimHandler(a, b)
    \/ clampRange \/ aimSecond \/ askRefresh

-----------------------------------------------------------------------------
(* The application's thread: setGUI when a refresh is asked for, get_depth. *)

setGUI ==
    /\ app = "idle" /\ refreshGUI
    /\ app' = "min" /\ raced' = FALSE
    /\ UNCHANGED <<controlVars, refreshGUI, oscVars, viewVars, askedVars, shown>>

\* oscSet of one control, then the next line.
oscSet(control, next) ==
    /\ app = control /\ app' = next
    /\ shown' = shown \cup {control}
    /\ UNCHANGED <<controlVars, refreshGUI, oscVars, viewVars, askedVars, raced>>

sendControls ==
    \/ oscSet("min", "max") \/ oscSet("max", "zoom")
    \/ oscSet("zoom", "aim") \/ oscSet("aim", "done")

\* self.refreshGUI = False, whatever a handler wrote there meanwhile.
refreshDone ==
    /\ app = "done" /\ app' = "idle"
    /\ refreshGUI' = FALSE
    /\ UNCHANGED <<controlVars, oscVars, viewVars, askedVars, guiVars>>

\* int(side / zoom): the quotient without its fraction, of either sign.
Pixels(side, z) ==
    IF z > 0 THEN (side * Unit) \div z ELSE -((side * Unit) \div (-z))

\* get_depth ends, and its locals are gone.
EndView(next) ==
    /\ app' = next
    /\ sz' = <<0, 0>> /\ center' = <<0, 0>> /\ looked' = <<0, 0>> /\ crossed' = FALSE
    /\ UNCHANGED <<controlVars, refreshGUI, oscVars, asked, guiVars>>

\* An exception leaves get_depth; its caller, which the repository does not have,
\* goes on or ends.
Raise == \E next \in {"idle", "raised"} : EndView(next)

\* 240 / self.zoom and 320 / self.zoom, with a zoom of 0.
divideByZero == app \in {"idle", "columns"} /\ zoom = 0 /\ Raise

\* get_depth reads zoom once for the rows and once for the columns ...
readSize(k, from, to) ==
    /\ app = from /\ zoom # 0
    /\ app' = to
    /\ sz' = [sz EXCEPT ![k] = Pixels(<<240, 320>>[k], zoom)]
    /\ UNCHANGED <<controlVars, refreshGUI, oscVars, center, looked, asked, guiVars>>

\* The place on the sensor that coordinate k of an aim names.
CenterOf(k, a) == <<240 * Unit + 180 * a, 320 * Unit - 240 * a>>[k]

\* ... and aim[0] and aim[1] for the center.
readCenter(k, from, to) ==
    /\ app = from /\ app' = to
    /\ center' = [center EXCEPT ![k] = CenterOf(k, aim[k])]
    /\ looked' = [looked EXCEPT ![k] = aim[k]]
    /\ UNCHANGED <<controlVars, refreshGUI, oscVars, sz, askedVars, guiVars>>

\* A message whose aim is half written when get_depth begins crosses it as well.
readView ==
    \/ readSize(1, "idle", "columns") /\ crossed' = (osc = "aim1")
    \/ readSize(2, "columns", "row") /\ UNCHANGED crossed
    \/ readCenter(1, "row", "column") \/ readCenter(2, "column", "clamp")

\* Mutant of Clamped: the far edge is not looked at.
Clamped_near(c, half, length) == IF c - half < 0 THEN half ELSE c

\* The center moved away from the edge that a patch of this half size passes.
Clamped(c, half, length) ==
    IF c - half < 0 THEN half ELSE IF c + half > length THEN length - half ELSE c

\* Half a side of the patch, and the side of the sensor, along dimension k.
Half(k) == sz[k] * Unit
Length(k) == <<480 * Unit, 640 * Unit>>[k]

clampCenter ==
    /\ app = "clamp" /\ app' = "cut"
    /\ center' = <<Clamped(center[1], Half(1), Length(1)),
                   Clamped(center[2], Half(2), Length(2))>>
    /\ UNCHANGED <<controlVars, refreshGUI, oscVars, sz, looked, askedVars, guiVars>>

\* getRectSubPix takes the center of the patch as (x, y).
PatchX == center[1]
PatchY == center[2]

\* The patch is cut and returned; OpenCV may refuse one without a pixel.
cutPatch ==
    /\ app = "cut"
    /\ \/ EndView("idle")
       \/ /\ sz[1] < 1 \/ sz[2] < 1
          /\ Raise

AppStep ==
    \/ setGUI \/ sendControls \/ refreshDone
    \/ divideByZero \/ readView \/ clampCenter \/ cutPatch

Next == OscStep \/ AppStep

Spec == Init /\ [][Next]_vars

-----------------------------------------------------------------------------
\* mindist is what a message or __init__ set; maxdist too, or 10 mm more than
\* a mindist.  Size and center are numbers of either sign.
TypeOK ==
    /\ mindist \in Distances \cup {500 * Unit}
    /\ maxdist \in Distances \cup {2000 * Unit}
                  \cup {d + 10 * Unit : d \in Distances \cup {500 * Unit}}
    /\ zoom \in Zooms /\ aim \in Aims \X Aims
    /\ looked \in Aims \X Aims /\ asked \in Aims \X Aims
    /\ refreshGUI \in BOOLEAN /\ crossed \in BOOLEAN /\ raced \in BOOLEAN
    /\ osc \in {"idle", "clamp", "aim1", "refresh"} /\ arg \in Aims
    /\ app \in Sending \cup Viewing \cup {"idle", "raised"}
    /\ sz \in Int \X Int /\ center \in Int \X Int
    /\ shown \subseteq Controls

\* The range is open by at least 10 mm except inside rangeHandler, whichever
\* end was moved and however far.
RangeIsOpen == osc # "clamp" => maxdist >= mindist + 10 * Unit

\* When no refresh is asked for and nobody is at work, the GUI shows what is
\* set, unless a control changed while setGUI was sending: that refresh is the
\* one setGUI may overwrite.
GuiIsCurrent ==
    ~refreshGUI /\ osc = "idle" /\ app \notin Sending => shown = Controls \/ raced

\* The clamp does for every zoom and aim what can be done: along each dimension
\* the patch lies on the sensor, or, where a zoom below 1 makes it longer than
\* the sensor, it covers the sensor whole.  A zoom below 0 selects nothing.  (In
\* which order getRectSubPix takes the two is another matter: AimIsFromCenter.)
ClampedViewFits ==
    app = "cut" =>
        \A k \in {1, 2} : sz[k] >= 0 =>
            IF 2 * Half(k) <= Length(k)
            THEN center[k] - Half(k) >= 0 /\ center[k] + Half(k) <= Length(k)
            ELSE center[k] - Half(k) <= 0 /\ center[k] + Half(k) >= Length(k)

\* The patch is that of one setting, the last that was asked for, unless a message
\* with another zoom or aim was handled since get_depth began to read: only then
\* may its four reads mix two of them.
ViewIsAsAsked ==
    app = "cut" /\ ~crossed =>
        /\ looked = asked
        /\ sz = <<Pixels(240, zoom), Pixels(320, zoom)>>
        /\ center = [k \in {1, 2} |-> Clamped(CenterOf(k, asked[k]), Half(k), Length(k))]

\* "aim = [0, 0]  # Relative position on sensor to center (-1:1)": where the
\* aim is 0 the patch is cut around the center of the picture, which is 320
\* wide and 240 high ("a 240x320 matrix").
AimIsFromCenter ==
    app = "cut" /\ looked = <<0, 0>> => PatchX = 320 * Unit /\ PatchY = 240 * Unit
=============================================================================
