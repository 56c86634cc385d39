------------------------ MODULE DepthControlsProofs ------------------------
(***************************************************************************)
(* Proofs about the controls of the depth picture, for all fractions that  *)
(* messages bring as distance, zoom and aim, 0 and negative ones among     *)
(* them, wherever between two reads or writes of the application's thread  *)
(* a handler runs.                                                         *)
(***************************************************************************)
EXTENDS DepthControls, TLAPS

\* The controls that this call of setGUI has sent already.
Sent ==
    CASE app = "max" -> {"min"}
      [] app = "zoom" -> {"min", "max"}
      [] app = "aim" -> {"min", "max", "zoom"}
      [] app = "done" -> Controls
      [] OTHER -> {}

(***************************************************************************)
(* GuiIsCurrent is about a moment when nobody is at work.  Until then: the *)
(* controls sent are shown unless one changed since, which raced records;  *)
(* and outside setGUI a control that is not shown has a refresh asked for, *)
(* or a handler at work that is going to ask for it.                       *)
(***************************************************************************)
GuiInv ==
    /\ raced \/ Sent \subseteq shown
    /\ app \notin Sending /\ ~refreshGUI /\ osc = "idle" => shown = Controls \/ raced

(***************************************************************************)
(* ViewIsAsAsked is about the moment of the cut.  Until then, as long as   *)
(* no message crosses, no aim is half written and what was read is what is *)
(* set.                                                                    *)
(***************************************************************************)
ViewInv ==
    /\ asked = IF osc = "aim1" THEN <<aim[1], arg>> ELSE aim
    /\ app \in Viewing /\ ~crossed =>
          /\ osc # "aim1"
          /\ sz[1] = Pixels(240, zoom)
          /\ app # "columns" => sz[2] = Pixels(320, zoom)
          /\ app \in {"column", "clamp", "cut"} => looked[1] = aim[1]
          /\ app \in {"clamp", "cut"} => looked[2] = aim[2]
          /\ app \in {"column", "clamp"} => center[1] = CenterOf(1, aim[1])
          /\ app = "clamp" => center[2] = CenterOf(2, aim[2])
          /\ app = "cut" =>
                center = <<Clamped(CenterOf(1, aim[1]), Half(1), Length(1)),
                           Clamped(CenterOf(2, aim[2]), Half(2), Length(2))>>

ControlsInv == TypeOK /\ RangeIsOpen /\ GuiInv /\ ClampedViewFits /\ ViewInv

LEMMA ControlsFacts ==
    /\ Unit \in Nat \ {0}
    /\ \A d \in Distances \cup {500 * Unit} : d \in Int /\ d + 10 * Unit \in Int
    /\ \A z \in Zooms : z \in Int
    /\ \A a \in Aims : a \in Int
    /\ Unit \in Zooms /\ 0 \in Aims
  BY ControlsAssumption

\* A side of the patch is a whole number of pixels.
LEMMA PixelsAreWhole ==
    ASSUME NEW side \in Nat, NEW z \in Int \ {0}
    PROVE  Pixels(side, z) \in Int
<1> DEFINE s == side * Unit
<1>1. s \in Int
  BY ControlsFacts
<1>2. Pixels(side, z) = IF z > 0 THEN s \div z ELSE -(s \div (-z))
  BY DEF Pixels
<1> HIDE DEF s
<1>3. z > 0 => s \div z \in Int
  BY <1>1
<1>4. ~(z > 0) => s \div (-z) \in Int
  BY <1>1
<1> QED
  BY <1>2, <1>3, <1>4

\* What the clamp does to one coordinate.
LEMMA CenterFits ==
    ASSUME NEW c \in Int, NEW half \in Int, NEW length \in Nat
    PROVE  /\ Clamped(c, half, length) \in Int
           /\ half >= 0 =>
                IF 2 * half <= length
                THEN /\ Clamped(c, half, length) - half >= 0
                     /\ Clamped(c, half, length) + half <= length
                ELSE /\ Clamped(c, half, length) - half <= 0
                     /\ Clamped(c, half, length) + half >= length
  BY DEF Clamped

\* A side of the patch in units has the sign of the side in pixels.
LEMMA HalfSides ==
    ASSUME TypeOK, NEW k \in {1, 2}
    PROVE  Half(k) \in Int /\ (sz[k] >= 0 => Half(k) >= 0) /\ Length(k) \in Nat
<1>1. Unit \in Nat /\ sz[k] \in Int
  BY ControlsFacts DEF TypeOK
<1>2. \A m \in Int, u \in Nat : m * u \in Int /\ (m >= 0 => m * u >= 0)
  OBVIOUS
<1>3. Half(k) \in Int /\ (sz[k] >= 0 => Half(k) >= 0)
  BY <1>1, <1>2 DEF Half
<1>4. Length(k) \in Nat
  BY <1>1 DEF Length
<1> QED
  BY <1>3, <1>4

LEMMA ControlsInitial == Init => ControlsInv
<1> SUFFICES ASSUME Init PROVE ControlsInv
  OBVIOUS
<1> USE ControlsFacts DEF Init
<1>1. refreshGUI \in BOOLEAN /\ raced \in BOOLEAN /\ crossed \in BOOLEAN
  BY Zenon
<1>2. TypeOK
  BY <1>1 DEF TypeOK
<1>3. RangeIsOpen /\ ClampedViewFits
  BY DEF RangeIsOpen, ClampedViewFits
<1>4. GuiInv
  BY DEF GuiInv, Sent
<1>5. ViewInv
  BY DEF ViewInv, Viewing
<1> QED
  BY <1>2, <1>3, <1>4, <1>5 DEF ControlsInv

-----------------------------------------------------------------------------
(* Types. *)

\* A change is noted, and only there.
LEMMA ChangesType ==
    ASSUME TypeOK, NEW control \in Controls, Changes(control)
    PROVE  shown' \subseteq Controls /\ raced' \in BOOLEAN
<1>1. shown' \subseteq Controls
  BY DEF Changes, TypeOK
<1>2. raced' \in BOOLEAN
  BY DEF Changes, TypeOK
<1> QED
  BY <1>1, <1>2

LEMMA HandlersKeepTypes == ASSUME TypeOK, OscStep PROVE TypeOK'
<1> USE ControlsFacts
<1>1. ASSUME NEW d \in Distances, rangeHandler(d) PROVE TypeOK'
  <2>1. shown' \subseteq Controls /\ raced' \in BOOLEAN
    BY <1>1, ChangesType DEF rangeHandler, Controls
  <2> QED
    BY <1>1, <2>1 DEF rangeHandler, TypeOK, viewVars, askedVars
<1>2. ASSUME NEW z \in Zooms, zoomHandler(z) PROVE TypeOK'
  <2>1. shown' \subseteq Controls /\ raced' \in BOOLEAN
    BY <1>2, ChangesType DEF zoomHandler, Controls
  <2>2. crossed' \in BOOLEAN
    BY <1>2 DEF zoomHandler, Crosses, TypeOK
  <2> QED
    BY <1>2, <2>1, <2>2 DEF zoomHandler, TypeOK, viewVars
<1>3. ASSUME NEW a \in Aims, NEW b \in Aims, aimHandler(a, b) PROVE TypeOK'
  <2>1. shown' \subseteq Controls /\ raced' \in BOOLEAN
    BY <1>3, ChangesType DEF aimHandler, Controls
  <2>2. aim' \in Aims \X Aims
    BY <1>3 DEF aimHandler, TypeOK
  <2>3. crossed' \in BOOLEAN
    BY <1>3 DEF aimHandler, Crosses, TypeOK
  <2> QED
    BY <1>3, <2>1, <2>2, <2>3 DEF aimHandler, TypeOK, viewVars
<1>4. CASE clampRange
  <2>1. shown' \subseteq Controls /\ raced' \in BOOLEAN
    <3>1. CASE Changes("max")
      BY <3>1, ChangesType DEF Controls
    <3>2. CASE UNCHANGED guiVars
      BY <3>2 DEF TypeOK, guiVars
    <3> QED
      BY <1>4, <3>1, <3>2 DEF clampRange
  <2>2. maxdist' \in Distances \cup {2000 * Unit}
                       \cup {d + 10 * Unit : d \in Distances \cup {500 * Unit}}
    BY <1>4 DEF clampRange, TypeOK
  <2> QED
    BY <1>4, <2>1, <2>2 DEF clampRange, TypeOK, viewVars, askedVars
<1>5. CASE aimSecond
  <2>1. shown' \subseteq Controls /\ raced' \in BOOLEAN
    BY <1>5, ChangesType DEF aimSecond, Controls
  <2>2. aim' \in Aims \X Aims
    BY <1>5 DEF aimSecond, TypeOK
  <2>3. crossed' \in BOOLEAN
    BY <1>5 DEF aimSecond, Crosses, TypeOK
  <2> QED
    BY <1>5, <2>1, <2>2, <2>3 DEF aimSecond, TypeOK, viewVars
<1>6. CASE askRefresh
  <2>1. refreshGUI' \in BOOLEAN
    BY <1>6 DEF askRefresh
  <2> QED
    BY <1>6, <2>1 DEF askRefresh, TypeOK, viewVars, askedVars, guiVars, controlVars
<1> QED
  BY <1>1, <1>2, <1>3, <1>4, <1>5, <1>6 DEF OscStep

\* A call of get_depth that ends keeps nothing.
LEMMA EndKeepsTypes ==
    ASSUME TypeOK, NEW next \in {"idle", "raised"}, EndView(next)
    PROVE  TypeOK'
<1>1. crossed' \in BOOLEAN
  BY DEF EndView
<1> QED
  BY <1>1, ControlsFacts DEF EndView, TypeOK, controlVars, oscVars, guiVars

LEMMA ApplicationKeepsTypes == ASSUME TypeOK, AppStep PROVE TypeOK'
<1> USE ControlsFacts
<1> USE DEF controlVars, oscVars, viewVars, askedVars, guiVars
<1>1. CASE setGUI
  <2>1. raced' \in BOOLEAN
    BY <1>1 DEF setGUI
  <2> QED
    BY <1>1, <2>1 DEF setGUI, TypeOK, Sending
<1>2. ASSUME NEW control \in Controls, NEW next \in Sending, oscSet(control, next) PROVE TypeOK'
  BY <1>2 DEF oscSet, TypeOK
<1>3. CASE sendControls
  BY <1>2, <1>3 DEF sendControls, Controls, Sending
<1>4. CASE refreshDone
  <2>1. refreshGUI' \in BOOLEAN
    BY <1>4 DEF refreshDone
  <2> QED
    BY <1>4, <2>1 DEF refreshDone, TypeOK
<1>5. ASSUME NEW k \in {1, 2}, NEW from, NEW to \in {"columns", "row"}, readSize(k, from, to),
             crossed' \in BOOLEAN
      PROVE  TypeOK'
  <2>1. Pixels(240, zoom) \in Int /\ Pixels(320, zoom) \in Int
    BY <1>5, PixelsAreWhole DEF readSize, TypeOK
  <2>2. Pixels(<<240, 320>>[k], zoom) \in Int
    BY <2>1
  <2>3. sz' \in Int \X Int
    BY <1>5, <2>2 DEF readSize, TypeOK
  <2>4. /\ app' \in {"columns", "row"} /\ UNCHANGED <<controlVars, refreshGUI, oscVars, center>>
        /\ UNCHANGED <<looked, asked, guiVars>>
    BY <1>5 DEF readSize
  <2> QED
    BY ONLY TypeOK, <1>5, <2>3, <2>4 DEF TypeOK, Viewing, controlVars, oscVars, guiVars
<1>6. ASSUME NEW k \in {1, 2}, NEW from, NEW to \in {"column", "clamp"}, readCenter(k, from, to)
      PROVE  TypeOK'
  <2>1. aim[k] \in Aims /\ CenterOf(k, aim[k]) \in Int
    BY DEF TypeOK, CenterOf
  <2>2. center' \in Int \X Int /\ looked' \in Aims \X Aims
    BY <1>6, <2>1 DEF readCenter, TypeOK
  <2>3. /\ app' \in {"column", "clamp"} /\ UNCHANGED <<controlVars, refreshGUI, oscVars, sz>>
        /\ UNCHANGED <<askedVars, guiVars>>
    BY <1>6 DEF readCenter
  <2> QED
    BY ONLY TypeOK, <2>2, <2>3 DEF TypeOK, Viewing, controlVars, oscVars, askedVars, guiVars
<1>7. CASE readView
  <2>1. crossed \in BOOLEAN
    BY DEF TypeOK
  <2>2. CASE readSize(1, "idle", "columns") /\ crossed' = (osc = "aim1")
    BY <1>5, <2>2
  <2>3. CASE readSize(2, "columns", "row") /\ UNCHANGED crossed
    BY <1>5, <2>1, <2>3
  <2> QED
    BY <1>6, <1>7, <2>2, <2>3 DEF readView
<1>8. CASE clampCenter
  <2>1. center' \in Int \X Int
    <3>1. \A k \in {1, 2} : center[k] \in Int /\ Half(k) \in Int /\ Length(k) \in Nat
      BY HalfSides DEF TypeOK
    <3>2. /\ Clamped(center[1], Half(1), Length(1)) \in Int
          /\ Clamped(center[2], Half(2), Length(2)) \in Int
      BY <3>1, CenterFits
    <3> QED
      BY <1>8, <3>2 DEF clampCenter
  <2>2. app' = "cut" /\ UNCHANGED <<controlVars, refreshGUI, oscVars, sz, looked, askedVars, guiVars>>
    BY <1>8 DEF clampCenter
  <2> QED
    BY ONLY TypeOK, <2>1, <2>2 DEF TypeOK, Viewing, controlVars, oscVars, askedVars, guiVars
<1>9. CASE divideByZero \/ cutPatch
  BY <1>9, EndKeepsTypes DEF divideByZero, cutPatch, Raise
<1> QED
  BY <1>1, <1>3, <1>4, <1>7, <1>8, <1>9 DEF AppStep

-----------------------------------------------------------------------------
(* The range, the picture of the controls, and the patch. *)

\* Only rangeHandler moves an end of the range, and it clamps before it ends.
LEMMA RangeKept == ASSUME TypeOK, RangeIsOpen, [Next]_vars PROVE RangeIsOpen'
<1> USE DEF RangeIsOpen
<1>1. ASSUME NEW d \in Distances, rangeHandler(d) PROVE RangeIsOpen'
  BY <1>1 DEF rangeHandler
<1>2. CASE clampRange
  <2>1. mindist \in Int /\ maxdist \in Int /\ Unit \in Nat
    <3>1. 2000 * Unit \in Int
      BY ControlsFacts
    <3> QED
      BY <3>1, ControlsFacts DEF TypeOK
  <2>2. /\ mindist' = mindist
        /\ maxdist' = IF maxdist < mindist + 10 * Unit THEN mindist + 10 * Unit ELSE maxdist
    BY <1>2 DEF clampRange
  <2> QED
    BY ONLY <2>1, <2>2 DEF RangeIsOpen
<1>3. ASSUME NEW z \in Zooms, zoomHandler(z) PROVE RangeIsOpen'
  BY <1>3 DEF zoomHandler
<1>4. ASSUME NEW a \in Aims, NEW b \in Aims, aimHandler(a, b) PROVE RangeIsOpen'
  BY <1>4 DEF aimHandler
<1>5. CASE aimSecond \/ askRefresh
  BY <1>5 DEF aimSecond, askRefresh, controlVars
<1>6. CASE AppStep \/ UNCHANGED vars
  BY <1>6 DEF AppStep, setGUI, sendControls, oscSet, refreshDone, divideByZero, readView, readSize,
              readCenter, clampCenter, cutPatch, Raise, EndView, vars, controlVars, oscVars
<1> QED
  BY <1>1, <1>2, <1>3, <1>4, <1>5, <1>6 DEF Next, OscStep

\* A control that changes after it was sent is noted.
LEMMA ChangesNoted ==
    ASSUME NEW control, Changes(control), app' = app, raced \/ Sent \subseteq shown
    PROVE  (raced \/ Sent \subseteq shown)'
<1>1. Sent' = Sent
  BY DEF Sent
<1>2. CASE raced
  BY <1>2 DEF Changes
<1>3. CASE control \in Sent /\ Sent \subseteq shown
  <2>1. app \in Sending
    BY <1>3 DEF Sent, Sending
  <2> QED
    BY <1>3, <2>1 DEF Changes
<1>4. CASE control \notin Sent /\ Sent \subseteq shown
  BY <1>1, <1>4 DEF Changes
<1> QED
  BY <1>2, <1>3, <1>4

\* A handler that changed something is at work until it has asked for a refresh.
LEMMA HandlersKeepGui == ASSUME TypeOK, GuiInv, OscStep PROVE GuiInv'
<1> USE DEF GuiInv
<1>1. ASSUME NEW d \in Distances, rangeHandler(d) PROVE GuiInv'
  BY <1>1, ChangesNoted DEF rangeHandler
<1>2. ASSUME NEW z \in Zooms, zoomHandler(z) PROVE GuiInv'
  BY <1>2, ChangesNoted DEF zoomHandler
<1>3. ASSUME NEW a \in Aims, NEW b \in Aims, aimHandler(a, b) PROVE GuiInv'
  BY <1>3, ChangesNoted DEF aimHandler
<1>4. CASE clampRange
  BY <1>4, ChangesNoted DEF clampRange, guiVars, Sent
<1>5. CASE aimSecond
  BY <1>5, ChangesNoted DEF aimSecond
<1>6. CASE askRefresh
  BY <1>6 DEF askRefresh, guiVars, Sent
<1> QED
  BY <1>1, <1>2, <1>3, <1>4, <1>5, <1>6 DEF OscStep

\* setGUI sends every control before it takes the request back.
LEMMA ApplicationKeepsGui == ASSUME TypeOK, GuiInv, AppStep PROVE GuiInv'
<1> USE DEF GuiInv
<1>1. CASE setGUI
  BY <1>1 DEF setGUI, Sent, Sending
<1>2. CASE sendControls
  BY <1>2 DEF sendControls, oscSet, Sent, Sending, Controls
<1>3. CASE refreshDone
  <2>1. shown = Controls \/ raced
    <3>1. Sent = Controls
      BY <1>3 DEF refreshDone, Sent
    <3>2. shown \subseteq Controls
      BY DEF TypeOK
    <3> QED
      BY <3>1, <3>2
  <2> QED
    BY <1>3, <2>1 DEF refreshDone, guiVars, Sent
<1>4. CASE divideByZero \/ readView \/ clampCenter \/ cutPatch
  <2>1. /\ app \notin Sending /\ app' \notin Sending
        /\ UNCHANGED <<refreshGUI, oscVars, guiVars>>
    BY <1>4 DEF divideByZero, readView, readSize, readCenter, clampCenter, cutPatch, Raise,
                EndView, Sending
  <2> QED
    BY <2>1 DEF oscVars, guiVars, Sent, Sending
<1> QED
  BY <1>1, <1>2, <1>3, <1>4 DEF AppStep

\* Once the center is clamped the locals stay, whatever the handlers write.
LEMMA ViewKept == ASSUME TypeOK, ClampedViewFits, [Next]_vars PROVE ClampedViewFits'
<1> USE DEF ClampedViewFits
<1>1. CASE OscStep \/ UNCHANGED vars
  <2>1. UNCHANGED <<app, viewVars>>
    BY <1>1 DEF OscStep, rangeHandler, clampRange, zoomHandler, aimHandler, aimSecond,
                askRefresh, vars
  <2> QED
    BY <2>1 DEF viewVars, Half
<1>2. CASE clampCenter
  <2> SUFFICES ASSUME NEW k \in {1, 2}, sz[k] >= 0
               PROVE  IF 2 * Half(k) <= Length(k)
                      THEN center'[k] - Half(k) >= 0 /\ center'[k] + Half(k) <= Length(k)
                      ELSE center'[k] - Half(k) <= 0 /\ center'[k] + Half(k) >= Length(k)
    BY <1>2 DEF clampCenter, Half
  <2>1. center'[k] = Clamped(center[k], Half(k), Length(k))
    BY <1>2 DEF clampCenter
  <2>2. center[k] \in Int /\ Half(k) \in Int /\ Half(k) >= 0 /\ Length(k) \in Nat
    BY HalfSides DEF TypeOK
  <2> QED
    BY <2>1, <2>2, CenterFits
<1>3. CASE setGUI \/ sendControls \/ refreshDone \/ divideByZero \/ readView \/ cutPatch
  <2>1. app' # "cut"
    BY <1>3 DEF setGUI, sendControls, oscSet, refreshDone, divideByZero, readView, readSize,
                readCenter, cutPatch, Raise, EndView
  <2> QED
    BY <2>1
<1> QED
  BY <1>1, <1>2, <1>3 DEF Next, AppStep

\* A handler of zoom or aim crosses a call of get_depth that has begun to read.
LEMMA HandlersKeepView == ASSUME TypeOK, ViewInv, OscStep PROVE ViewInv'
<1>1. ASSUME NEW d \in Distances, rangeHandler(d) PROVE ViewInv'
  BY <1>1 DEF rangeHandler, ViewInv, viewVars, askedVars, Half
<1>2. CASE clampRange \/ askRefresh
  BY <1>2 DEF clampRange, askRefresh, ViewInv, controlVars, viewVars, askedVars, Half
<1>3. ASSUME NEW z \in Zooms, zoomHandler(z) PROVE ViewInv'
  BY <1>3 DEF zoomHandler, Crosses, ViewInv
<1>4. ASSUME NEW a \in Aims, NEW b \in Aims, aimHandler(a, b) PROVE ViewInv'
  <2>1. crossed' \/ app' \notin Viewing
    BY <1>4 DEF aimHandler, Crosses
  <2>2. osc' = "aim1" /\ asked' = <<aim'[1], arg'>>
    BY <1>4 DEF aimHandler, TypeOK
  <2> QED
    BY <2>1, <2>2 DEF ViewInv
<1>5. CASE aimSecond
  <2>1. crossed' \/ app' \notin Viewing
    BY <1>5 DEF aimSecond, Crosses
  <2>2. aim' = <<aim[1], arg>>
    BY <1>5 DEF aimSecond, TypeOK
  <2> QED
    BY <1>5, <2>1, <2>2 DEF aimSecond, ViewInv
<1> QED
  BY <1>1, <1>2, <1>3, <1>4, <1>5 DEF OscStep

\* What get_depth reads is what is set then.
LEMMA ApplicationKeepsView == ASSUME TypeOK, ViewInv, AppStep PROVE ViewInv'
<1>0. /\ sz \in Int \X Int /\ center \in Int \X Int /\ looked \in Aims \X Aims
  BY DEF TypeOK
<1>1. CASE setGUI \/ sendControls \/ refreshDone \/ divideByZero \/ cutPatch
  <2>1. app' \notin Viewing /\ UNCHANGED <<controlVars, oscVars, asked>>
    BY <1>1 DEF setGUI, sendControls, oscSet, refreshDone, divideByZero, cutPatch, Raise,
                EndView, Viewing, askedVars
  <2> QED
    BY <2>1 DEF ViewInv, controlVars, oscVars
<1>2. CASE readSize(1, "idle", "columns") /\ crossed' = (osc = "aim1")
  <2>1. app' = "columns" /\ sz'[1] = Pixels(240, zoom)
    BY <1>0, <1>2 DEF readSize
  <2>2. ~crossed' => osc # "aim1"
    BY <1>2
  <2>3. UNCHANGED <<zoom, aim, osc, arg, asked>>
    BY <1>2 DEF readSize, controlVars, oscVars
  <2> QED
    BY <2>1, <2>2, <2>3 DEF ViewInv
<1>3. CASE readSize(2, "columns", "row") /\ UNCHANGED crossed
  <2>1. app' = "row" /\ sz'[1] = sz[1] /\ sz'[2] = Pixels(320, zoom)
    BY <1>0, <1>3 DEF readSize
  <2> QED
    BY <1>3, <2>1 DEF readSize, ViewInv, Viewing, controlVars, oscVars
<1>4. CASE readCenter(1, "row", "column")
  <2>1. app' = "column" /\ center'[1] = CenterOf(1, aim[1]) /\ looked'[1] = aim[1]
    BY <1>0, <1>4 DEF readCenter
  <2> QED
    BY <1>4, <2>1 DEF readCenter, ViewInv, Viewing, controlVars, oscVars, askedVars
<1>5. CASE readCenter(2, "column", "clamp")
  <2>1. /\ app' = "clamp" /\ center'[1] = center[1] /\ looked'[1] = looked[1]
        /\ center'[2] = CenterOf(2, aim[2]) /\ looked'[2] = aim[2]
    BY <1>0, <1>5 DEF readCenter
  <2> QED
    BY <1>5, <2>1 DEF readCenter, ViewInv, Viewing, controlVars, oscVars, askedVars
<1>6. CASE clampCenter
  BY <1>6 DEF clampCenter, ViewInv, Viewing, controlVars, oscVars, askedVars, Half
<1> QED
  BY <1>1, <1>2, <1>3, <1>4, <1>5, <1>6 DEF AppStep, readView

LEMMA ControlsStep == ControlsInv /\ [Next]_vars => ControlsInv'
<1> SUFFICES ASSUME ControlsInv, [Next]_vars PROVE ControlsInv'
  OBVIOUS
<1>1. TypeOK /\ RangeIsOpen /\ GuiInv /\ ClampedViewFits /\ ViewInv
  BY DEF ControlsInv
<1>2. TypeOK'
  <2>1. CASE UNCHANGED vars
    BY <1>1, <2>1 DEF TypeOK, vars, controlVars, oscVars, viewVars, askedVars, guiVars
  <2> QED
    BY <1>1, <2>1, HandlersKeepTypes, ApplicationKeepsTypes DEF Next
<1>3. GuiInv'
  <2>1. CASE UNCHANGED vars
    BY <1>1, <2>1 DEF GuiInv, Sent, vars, oscVars, guiVars
  <2> QED
    BY <1>1, <2>1, HandlersKeepGui, ApplicationKeepsGui DEF Next
<1>4. ViewInv'
  <2>1. CASE UNCHANGED vars
    BY <1>1, <2>1 DEF ViewInv, Half, vars, controlVars, oscVars, viewVars, askedVars
  <2> QED
    BY <1>1, <2>1, HandlersKeepView, ApplicationKeepsView DEF Next
<1> QED
  BY <1>1, <1>2, <1>3, <1>4, RangeKept, ViewKept DEF ControlsInv

LEMMA ControlsInvariant == Spec => []ControlsInv
  BY ControlsInitial, ControlsStep, PTL DEF Spec

-----------------------------------------------------------------------------
\* Every variable keeps its type, whatever numbers the messages bring; for the
\* size of the patch, which is a quotient by zoom, because get_depth does not get
\* past a zoom of 0.
THEOREM ControlsTypeOK == Spec => []TypeOK
<1>1. ControlsInv => TypeOK
  BY DEF ControlsInv
<1> QED
  BY <1>1, ControlsInvariant, PTL

\* Outside rangeHandler the range is open by at least 10 mm.
THEOREM RangeStaysOpen == Spec => []RangeIsOpen
<1>1. ControlsInv => RangeIsOpen
  BY DEF ControlsInv
<1> QED
  BY <1>1, ControlsInvariant, PTL

\* When no refresh is asked for and nobody is at work the user interface shows
\* every control, unless one changed while setGUI was sending.
THEOREM GuiStaysCurrent == Spec => []GuiIsCurrent
<1>1. ControlsInv => GuiIsCurrent
  BY DEF ControlsInv, GuiInv, GuiIsCurrent
<1> QED
  BY <1>1, ControlsInvariant, PTL

\* For every zoom and aim, along each dimension in which the patch has a length,
\* it lies on the sensor or covers it whole.
THEOREM ViewsFit == Spec => []ClampedViewFits
<1>1. ControlsInv => ClampedViewFits
  BY DEF ControlsInv
<1> QED
  BY <1>1, ControlsInvariant, PTL

\* A patch that no message crosses is that of the last setting asked for.
THEOREM ViewsAreAsAsked == Spec => []ViewIsAsAsked
<1>1. ControlsInv => ViewIsAsAsked
  <2> SUFFICES ASSUME TypeOK, ViewInv, app = "cut", ~crossed
               PROVE  /\ looked = asked
                      /\ sz = <<Pixels(240, zoom), Pixels(320, zoom)>>
                      /\ center = [k \in {1, 2} |->
                                     Clamped(CenterOf(k, asked[k]), Half(k), Length(k))]
    BY DEF ControlsInv, ViewIsAsAsked
  <2>1. /\ asked = aim /\ looked[1] = aim[1] /\ looked[2] = aim[2]
        /\ sz[1] = Pixels(240, zoom) /\ sz[2] = Pixels(320, zoom)
        /\ center = <<Clamped(CenterOf(1, aim[1]), Half(1), Length(1)),
                      Clamped(CenterOf(2, aim[2]), Half(2), Length(2))>>
    BY DEF ViewInv, Viewing
  <2>2. looked = asked /\ sz = <<Pixels(240, zoom), Pixels(320, zoom)>>
    BY <2>1 DEF TypeOK
  <2>3. center = [k \in {1, 2} |-> Clamped(CenterOf(k, asked[k]), Half(k), Length(k))]
    <3> DEFINE f == [k \in {1, 2} |-> Clamped(CenterOf(k, asked[k]), Half(k), Length(k))]
    <3>1. f[1] = center[1] /\ f[2] = center[2]
      BY <2>1
    <3>2. center = [k \in {1, 2} |-> center[k]]
      BY DEF TypeOK
    <3> QED
      BY <3>1, <3>2
  <2> QED
    BY <2>2, <2>3
<1> QED
  BY <1>1, ControlsInvariant, PTL
=============================================================================
