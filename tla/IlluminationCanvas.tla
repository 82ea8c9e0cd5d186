-------------------------- MODULE IlluminationCanvas --------------------------
(***************************************************************************)
(* What a SensorIlluminationTask draws (sensor_illumination_task.cpp): a   *)
(* spot under the finger, at a place the vendor's driver gives in          *)
(* thousandths of the display, on a background that is the more opaque the *)
(* darker the display is.  The parameters pass the checks of the manager,  *)
(* are converted to pixels once, and every later frame uses them; the      *)
(* alpha of the background is computed for each new brightness.            *)
(*                                                                         *)
(* The code interpolates in float.  All its operands are small integers,   *)
(* and for every brightness the truncated product is the truncated         *)
(* quotient of integers below.  Where the alpha falls between two rows a   *)
(* negative float is cast to uint32_t, which C++ leaves undefined: a build *)
(* saturates (ARM) or wraps (x86), or does now this and now that.          *)
(***************************************************************************)
EXTENDS Integers, Sequences

CONSTANTS
    Word,            \* 2^32 in the program
    Thousandths,     \* the coordinates a driver may give
    Radii,
    Colors,          \* the bytes <<r, g, b, a>> of a color
    Displays,        \* the sizes <<width, height>> of a display in pixels
    Levels,          \* the brightness a display may report, as an int32_t
    NoBrightness,    \* INVALID_BRIGHTNESS
    NoParam,         \* canvasParam_ of a task that is not enabled
    NoFrame,
    NegativeCasts,   \* what the build may do to a negative float it casts
    UseRosenDrawing  \* USE_ROSEN_DRAWING of the build

ASSUME CanvasAssumption ==
    /\ Word \in Nat /\ Word > 255
    /\ Thousandths \subseteq Nat
    /\ Radii \subseteq Nat
    /\ Displays \subseteq (1 .. Word - 1) \X (1 .. Word - 1)
    /\ Levels \subseteq Int
    /\ NoBrightness \notin Levels
    /\ NegativeCasts \subseteq {"saturates", "wraps"}
    /\ NegativeCasts # {}
    /\ UseRosenDrawing \in BOOLEAN

VARIABLES
    canvasParam,  \* canvasParam_
    brightness,   \* brightness_
    frame         \* the last frame that was flushed

canvasVars == <<canvasParam, brightness, frame>>

MAX_RADIUS_LEN == 300
MAX_X_Y_VALUE == 1000
THOUSAND == 1000

BRIGHTNESS_AND_ALPHA ==
    <<<<4, 234>>, <<6, 229>>, <<8, 219>>, <<10, 220>>, <<12, 216>>,
      <<14, 211>>, <<16, 208>>, <<20, 205>>, <<24, 187>>, <<28, 176>>,
      <<30, 170>>, <<34, 163>>, <<40, 159>>, <<46, 142>>, <<50, 140>>,
      <<56, 140>>, <<64, 125>>, <<74, 121>>, <<84, 111>>, <<94, 101>>,
      <<104, 92>>, <<114, 81>>, <<124, 81>>, <<134, 69>>, <<144, 68>>,
      <<154, 58>>, <<164, 56>>, <<174, 46>>, <<184, 44>>, <<194, 35>>,
      <<204, 34>>, <<214, 30>>, <<224, 22>>, <<234, 23>>, <<244, 18>>,
      <<248, 0>>, <<255, 0>>>>

Rows == DOMAIN BRIGHTNESS_AND_ALPHA
Brightness(i) == BRIGHTNESS_AND_ALPHA[i][1]
Alpha(i) == BRIGHTNESS_AND_ALPHA[i][2]

-----------------------------------------------------------------------------
\* The row at which the loop of GetBackgroundAlpha stops for a level.
IsRow(level, i) ==
    /\ i \in Rows
    /\ level <= Brightness(i)
    /\ \A j \in Rows : j < i => level > Brightness(j)

\* static_cast<uint32_t> of the float n / d, for d above 0.
CastToUint(n, d) ==
    IF n >= 0 THEN {n \div d}
    ELSE IF -n < d THEN {0}
    ELSE {IF cast = "wraps" THEN Word - (-n) \div d ELSE 0 :
            cast \in NegativeCasts}

\* Mutant of Between: the interpolation starts at the row it should end at.
BetweenFromUpper(level, i) ==
    {(Alpha(i) + offset) % Word :
        offset \in CastToUint((Alpha(i) - Alpha(i - 1)) *
                                 (level - Brightness(i - 1)),
                              Brightness(i) - Brightness(i - 1))}

Between(level, i) ==
    {(Alpha(i - 1) + offset) % Word :
        offset \in CastToUint((Alpha(i) - Alpha(i - 1)) *
                                 (level - Brightness(i - 1)),
                              Brightness(i) - Brightness(i - 1))}

\* GetBackgroundAlpha: the alphas it may answer, none if it fails.
GetBackgroundAlpha(level) ==
    UNION {IF level = Brightness(i) \/ i = 1 THEN {Alpha(i)}
                                             ELSE Between(level, i) :
             i \in {j \in Rows : IsRow(level, j)}}

\* convertThousandthToPx, and whether it succeeds.
ThousandthToPx(relative, full) == (relative * full) \div THOUSAND
Converts(relative, full) == ThousandthToPx(relative, full) < Word

-----------------------------------------------------------------------------
(***************************************************************************)
(* DrawCanvas.  ColorQuadSetARGB takes the bytes in the order of its name; *)
(* the code for Rosen hands them over in the order r, g, b, a.             *)
(***************************************************************************)
ARGB(a, r, g, b) == [a |-> a, r |-> r, g |-> g, b |-> b]

Background(alpha) ==
    IF UseRosenDrawing THEN ARGB(0, 0, 0, alpha) ELSE ARGB(alpha, 0, 0, 0)

ConvertColor(color) ==
    IF UseRosenDrawing THEN ARGB(color[1], color[2], color[3], color[4])
                       ELSE ARGB(color[4], color[1], color[2], color[3])

DrawCanvas(param, level) ==
    [x |-> param.centerXInPx, y |-> param.centerYInPy, radius |-> param.radius,
     spot |-> ConvertColor(param.color), background |-> Background(param.alpha),
     width |-> param.frameWidth, height |-> param.frameHeight, level |-> level]

(***************************************************************************)
(* DrawSurfaceNode with param in canvasParam_.  A level above the last row *)
(* has no alpha and fails; drawn says whether the surface gives a frame.   *)
(***************************************************************************)
DrawSurfaceNode(param, level, drawn) ==
    IF level = brightness
      THEN /\ canvasParam' = param
           /\ UNCHANGED <<brightness, frame>>
      ELSE /\ brightness' = level
           /\ IF GetBackgroundAlpha(level) = {}
                THEN canvasParam' = param /\ UNCHANGED frame
                ELSE \E alpha \in GetBackgroundAlpha(level) :
                       /\ canvasParam' = [param EXCEPT !.alpha = alpha]
                       /\ frame' = IF drawn THEN DrawCanvas(canvasParam', level)
                                            ELSE frame

\* Mutant of InRange: a coordinate may be the whole length.
InRangeOrEnd(x, y, radius) ==
    x <= MAX_X_Y_VALUE /\ y <= MAX_X_Y_VALUE /\ radius < MAX_RADIUS_LEN

\* What the manager asks of the parameters.
InRange(x, y, radius) ==
    x < MAX_X_Y_VALUE /\ y < MAX_X_Y_VALUE /\ radius < MAX_RADIUS_LEN

(***************************************************************************)
(* EnableSensorIllumination on a new task, up to its success: a task that  *)
(* fails is dropped and another one constructed for the next command.      *)
(***************************************************************************)
Enable(x, y, radius, color, display, level) ==
    /\ canvasParam = NoParam
    /\ InRange(x, y, radius)
    /\ Converts(x, display[1])
    /\ Converts(y, display[2])
    /\ GetBackgroundAlpha(level) # {}
    /\ DrawSurfaceNode([centerXInPx |-> ThousandthToPx(x, display[1]),
                        centerYInPy |-> ThousandthToPx(y, display[2]),
                        radius |-> radius,
                        color |-> color,
                        alpha |-> 0,
                        frameWidth |-> display[1],
                        frameHeight |-> display[2]], level, TRUE)

\* TurnOnSensorIllumination draws again if the brightness has changed.
TurnOn(level, drawn) ==
    /\ canvasParam # NoParam
    /\ DrawSurfaceNode(canvasParam, level, drawn)

Disable ==
    /\ canvasParam # NoParam
    /\ canvasParam' = NoParam
    /\ brightness' = NoBrightness
    /\ frame' = NoFrame

CanvasInit ==
    /\ canvasParam = NoParam
    /\ brightness = NoBrightness
    /\ frame = NoFrame

CanvasNext ==
    \/ \E x, y \in Thousandths, radius \in Radii, color \in Colors,
          display \in Displays, level \in Levels :
            Enable(x, y, radius, color, display, level)
    \/ \E level \in Levels, drawn \in BOOLEAN : TurnOn(level, drawn)
    \/ Disable

CanvasSpec == CanvasInit /\ [][CanvasNext]_canvasVars

-----------------------------------------------------------------------------
(***************************************************************************)
(* The centre of the spot is a pixel of the frame, whatever coordinates a  *)
(* driver gave and however small the display is.                           *)
(***************************************************************************)
SpotIsOnFrame ==
    frame # NoFrame => frame.x < frame.width /\ frame.y < frame.height

(***************************************************************************)
(* The background of every frame has an opacity between those the table    *)
(* gives for the levels around the brightness the frame was drawn for,     *)
(* whichever way the build casts: never the 0 that canvasParam_ starts     *)
(* with, never more than a byte.                                           *)
(***************************************************************************)
BackgroundFitsLevel ==
    frame # NoFrame =>
        \E i \in Rows :
            /\ IsRow(frame.level, i)
            /\ \/ frame.background.a = Alpha(i)
               \/ i > 1 /\ frame.background.a \in Alpha(i - 1)..Alpha(i)
               \/ i > 1 /\ frame.background.a \in Alpha(i)..Alpha(i - 1)

\* An opacity is off the straight line between rows i - 1 and i by less than 1.
OnLine(i, level, a) ==
    LET gap == Brightness(i) - Brightness(i - 1)
        off == (a - Alpha(i - 1)) * gap
                 - (Alpha(i) - Alpha(i - 1)) * (level - Brightness(i - 1))
    IN off \in (-gap + 1) .. (gap - 1)

(***************************************************************************)
(* "linear interpolation" (sensor_illumination_task.cpp:68): between two   *)
(* rows of the table the opacity is on the straight line.                  *)
(***************************************************************************)
InterpolatesLinearly ==
    frame # NoFrame =>
        \A i \in Rows \ {1} :
            IsRow(frame.level, i) => OnLine(i, frame.level, frame.background.a)

(***************************************************************************)
(* The saturating cast is all that is wrong with the interpolation: where  *)
(* an opacity is off the line, the alpha falls, the build may saturate,    *)
(* and the opacity is that of the lower row.                               *)
(***************************************************************************)
StraightOrSaturated ==
    frame # NoFrame =>
        \A i \in Rows \ {1} :
            IsRow(frame.level, i) =>
                \/ OnLine(i, frame.level, frame.background.a)
                \/ /\ "saturates" \in NegativeCasts
                   /\ Alpha(i) < Alpha(i - 1)
                   /\ frame.background.a = Alpha(i - 1)

=============================================================================
