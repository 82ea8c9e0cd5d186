---------------------- MODULE IlluminationCanvasProofs ----------------------
(***************************************************************************)
(* Theorems about IlluminationCanvas: its two invariants, for all          *)
(* coordinates, displays, brightness levels and word lengths.              *)
(***************************************************************************)
EXTENDS IlluminationCanvas, TLAPS

\* A coordinate below the whole length is converted to a pixel of the display.
LEMMA PixelOnDisplay ==
    ASSUME NEW relative \in Nat, relative < THOUSAND,
           NEW full \in Nat, full > 0
    PROVE  /\ ThousandthToPx(relative, full) \in Nat
           /\ ThousandthToPx(relative, full) < full
<1>1. relative * full \in Nat
  OBVIOUS
<1>2. relative * full <= 999 * full
  BY DEF THOUSAND
<1>3. QED
  BY <1>1, <1>2 DEF ThousandthToPx, THOUSAND

\* The table is one of bytes.
LEMMA TableOfBytes ==
    /\ Rows = 1..37
    /\ \A i \in Rows : Brightness(i) \in 0..255 /\ Alpha(i) \in 0..255
<1>1. Rows = 1..37
  BY DEF Rows, BRIGHTNESS_AND_ALPHA
<1>2. ASSUME NEW i \in 1..37
      PROVE  Brightness(i) \in 0..255 /\ Alpha(i) \in 0..255
  BY DEF Brightness, Alpha, BRIGHTNESS_AND_ALPHA
<1>3. QED
  BY <1>1, <1>2

\* What lies between two bytes is a byte.
LEMMA RangeOfBytes ==
    ASSUME NEW low \in 0..255, NEW high \in 0..255,
           NEW a \in low..high \cup high..low
    PROVE  a \in 0..255
  OBVIOUS

-----------------------------------------------------------------------------
\* What opacities suit a level.
Fits(level, a) ==
    \E i \in Rows :
        /\ IsRow(level, i)
        /\ \/ a = Alpha(i)
           \/ i > 1 /\ a \in Alpha(i - 1)..Alpha(i)
           \/ i > 1 /\ a \in Alpha(i)..Alpha(i - 1)

\* An opacity that suits a level is a byte.
LEMMA FitsIsByte ==
    ASSUME NEW level \in Int, NEW a, Fits(level, a)
    PROVE  a \in 0..255
<1>1. PICK i \in Rows :
        \/ a = Alpha(i)
        \/ i > 1 /\ a \in Alpha(i - 1)..Alpha(i)
        \/ i > 1 /\ a \in Alpha(i)..Alpha(i - 1)
  BY DEF Fits
<1>2. CASE a = Alpha(i)
  BY <1>2, TableOfBytes
<1>3. CASE i > 1 /\ a \in Alpha(i - 1)..Alpha(i) \cup Alpha(i)..Alpha(i - 1)
  <2>1. i \in Int /\ i - 1 \in Rows
    BY <1>3, TableOfBytes
  <2>2. Alpha(i) \in 0..255 /\ Alpha(i - 1) \in 0..255
    BY <2>1, TableOfBytes
  <2>3. QED
    BY <1>3, <2>2, RangeOfBytes
<1>4. QED
  BY <1>1, <1>2, <1>3

(***************************************************************************)
(* A fraction of a length is at most that length.                          *)
(***************************************************************************)
LEMMA Fraction ==
    ASSUME NEW g \in Nat, NEW n \in Nat, NEW d \in Nat, n < d
    PROVE  (g * n) \div d \in 0..g
<1>1. g * n \in Nat /\ g * d \in Nat /\ g * n <= g * d
  OBVIOUS
<1>2. (g * n) \div d \in Nat
  BY <1>1
<1>3. d * ((g * n) \div d) <= g * n
  BY <1>1
<1>4. d * ((g * n) \div d) <= d * g
  BY <1>1, <1>2, <1>3
<1>5. (g * n) \div d <= g
  BY <1>2, <1>4
<1>6. QED
  BY <1>2, <1>5

\* A level between two brightnesses is a proper part of the way.
LEMMA PartOfTheWay ==
    ASSUME NEW low \in 0..255, NEW high \in 0..255, NEW level \in Int,
           low < level, level <= high, level # high
    PROVE  high - low \in Nat /\ level - low \in Nat /\ level - low < high - low
  OBVIOUS

\* What is below Word is not wrapped, and what is added to Word is.
LEMMA Wrapped ==
    ASSUME CanvasAssumption, NEW r \in 0..255
    PROVE  r % Word = r /\ (Word + r) % Word = r
<1>1. Word \in Nat /\ Word > 255
  BY DEF CanvasAssumption
<1>2. QED
  BY <1>1

\* A cast truncates a positive quotient.
LEMMA PositiveCast ==
    ASSUME NEW m \in Nat, NEW d, NEW offset \in CastToUint(m, d)
    PROVE  offset = m \div d
BY DEF CastToUint

(***************************************************************************)
(* Where the alpha falls by g, the sum is low less a fraction of the fall  *)
(* if the cast wraps: the sum then wraps back.  If the cast saturates, it  *)
(* stays at low.                                                           *)
(***************************************************************************)
LEMMA FallingAlpha ==
    ASSUME CanvasAssumption,
           NEW low \in 0..255, NEW g \in 0..low,
           NEW d \in Nat, NEW n \in Nat, n < d,
           NEW offset \in CastToUint(-(g * n), d)
    PROVE  \/ (low + offset) % Word = low - (g * n) \div d
           \/ "saturates" \in NegativeCasts /\ (low + offset) % Word = low
<1> DEFINE q == (g * n) \div d
<1>1. g \in Nat /\ g * n \in Nat
  OBVIOUS
<1>2. q \in 0..g
  BY <1>1, Fraction
<1>3. /\ Word \in Nat
      /\ \A cast \in NegativeCasts : cast = "saturates" \/ cast = "wraps"
  BY DEF CanvasAssumption
<1>4. \/ offset = 0 /\ (q = 0 \/ "saturates" \in NegativeCasts)
      \/ offset = Word - q
  <2>1. CASE g * n = 0
    <3>1. 0 \div d = 0 /\ -(g * n) = 0
      BY <2>1
    <3>2. QED
      BY <2>1, <3>1 DEF CastToUint
  <2>2. CASE g * n # 0 /\ g * n < d
    <3>1. ~(-(g * n) >= 0) /\ -(-(g * n)) = g * n
      BY <1>1, <2>2
    <3>2. q = 0
      BY <1>1, <2>2
    <3>3. QED
      BY <2>2, <3>1, <3>2 DEF CastToUint
  <2>3. CASE g * n # 0 /\ ~(g * n < d)
    <3>1. ~(-(g * n) >= 0) /\ -(-(g * n)) = g * n
      BY <1>1, <2>3
    <3>2. PICK cast \in NegativeCasts :
            offset = IF cast = "wraps" THEN Word - q ELSE 0
      BY <2>3, <3>1 DEF CastToUint
    <3>3. QED
      BY <1>3, <3>2
  <2>4. QED
    BY <2>1, <2>2, <2>3
<1> HIDE DEF q
<1>5. low \in 0..255 /\ low - q \in 0..255 /\ low - 0 = low /\ low + 0 = low
  BY <1>2
<1>6. low + (Word - q) = Word + (low - q)
  BY <1>2, <1>3
<1>7. /\ low % Word = low
      /\ (Word + (low - q)) % Word = low - q
  BY <1>5, Wrapped
<1>8. QED
  BY <1>4, <1>5, <1>6, <1>7 DEF q

(***************************************************************************)
(* Between two rows whose alphas are low and high, in either order, the    *)
(* sum lies between the two however a negative offset is cast.             *)
(***************************************************************************)
LEMMA Interpolated ==
    ASSUME CanvasAssumption,
           NEW low \in 0..255, NEW high \in 0..255,
           NEW d \in Nat, NEW n \in Nat, n < d,
           NEW offset \in CastToUint((high - low) * n, d)
    PROVE  (low + offset) % Word \in low..high \cup high..low
<1>1. CASE high >= low
  <2> DEFINE g == high - low
             m == g * n
             q == m \div d
  <2>1. g \in Nat /\ low + g <= 255 /\ offset \in CastToUint(m, d)
    BY <1>1
  <2> HIDE DEF g
  <2>2. m \in Nat /\ q \in 0..g
    BY <2>1, Fraction
  <2> HIDE DEF m
  <2>3. offset = q
    BY <2>1, <2>2, PositiveCast
  <2> HIDE DEF q
  <2>4. low + offset \in 0..255 /\ low + offset \in low..high
    BY <2>1, <2>2, <2>3 DEF g
  <2>5. QED
    BY <2>4, Wrapped
<1>2. CASE high < low
  <2> DEFINE g == low - high
  <2>1. g \in 0..low /\ (high - low) * n = -(g * n)
    BY <1>2
  <2>2. offset \in CastToUint(-(g * n), d)
    BY <2>1
  <2> HIDE DEF g
  <2>3. \/ (low + offset) % Word = low - (g * n) \div d
        \/ (low + offset) % Word = low
    BY <2>1, <2>2, FallingAlpha
  <2>4. (g * n) \div d \in 0..g
    BY <2>1, Fraction
  <2>5. QED
    BY <1>2, <2>3, <2>4 DEF g
<1>3. QED
  BY <1>1, <1>2

(***************************************************************************)
(* The result of the truncating division of m by d is off m / d by less    *)
(* than 1.                                                                 *)
(***************************************************************************)
LEMMA TruncatedByLessThanOne ==
    ASSUME NEW m \in Nat, NEW d \in Nat, d > 0
    PROVE  /\ (m \div d) * d - m \in (-d + 1) .. 0
           /\ m - (m \div d) * d \in 0 .. (d - 1)
<1>1. m \div d \in Nat
  OBVIOUS
<1>2. d * (m \div d) <= m /\ m < d * (m \div d) + d
  OBVIOUS
<1>3. d * (m \div d) = (m \div d) * d /\ (m \div d) * d \in Nat
  BY <1>1
<1>4. QED
  BY <1>1, <1>2, <1>3

(***************************************************************************)
(* The sum is off the straight line from low to high by less than 1, or a  *)
(* negative offset was cast to 0.                                          *)
(***************************************************************************)
LEMMA OnTheLine ==
    ASSUME CanvasAssumption,
           NEW low \in 0..255, NEW high \in 0..255,
           NEW d \in Nat, NEW n \in Nat, n < d,
           NEW offset \in CastToUint((high - low) * n, d)
    PROVE  \/ (((low + offset) % Word) - low) * d - (high - low) * n
                \in (-d + 1) .. (d - 1)
           \/ /\ "saturates" \in NegativeCasts /\ high < low
              /\ (low + offset) % Word = low
<1>1. CASE high >= low
  <2> DEFINE g == high - low
             m == g * n
             q == m \div d
  <2>1. /\ g \in Nat /\ low + g <= 255 /\ offset \in CastToUint(m, d)
        /\ (high - low) * n = m
    BY <1>1
  <2> HIDE DEF g
  <2>2. m \in Nat /\ q \in 0..g
    BY <2>1, Fraction
  <2> HIDE DEF m
  <2>3. offset = q
    BY <2>1, <2>2, PositiveCast
  <2>4. q * d - m \in (-d + 1) .. 0
    BY <2>2, TruncatedByLessThanOne
  <2> HIDE DEF q
  <2>5. low + offset \in 0..255 /\ (low + offset) - low = q
    BY <2>1, <2>2, <2>3
  <2>6. (low + offset) % Word = low + offset
    BY <2>5, Wrapped
  <2>7. (((low + offset) % Word) - low) * d = q * d /\ q * d \in Int
    BY <2>2, <2>5, <2>6
  <2>8. QED
    BY <2>1, <2>2, <2>4, <2>7
<1>2. CASE high < low
  <2> DEFINE g == low - high
             q == (g * n) \div d
  <2>1. g \in 0..low /\ (high - low) * n = -(g * n)
    BY <1>2
  <2>2. offset \in CastToUint(-(g * n), d)
    BY <2>1
  <2> HIDE DEF g
  <2>3. \/ (low + offset) % Word = low - q
        \/ "saturates" \in NegativeCasts /\ (low + offset) % Word = low
    BY <2>1, <2>2, FallingAlpha
  <2>4. g * n \in Nat /\ q \in Nat
    BY <2>1
  <2>5. g * n - q * d \in 0 .. (d - 1)
    BY <2>4, TruncatedByLessThanOne
  <2> HIDE DEF q
  <2>6. CASE (low + offset) % Word = low - q
    <3>1. (((low + offset) % Word) - low) * d = -(q * d)
      BY <2>4, <2>6
    <3>2. QED
      BY <2>1, <2>4, <2>5, <3>1
  <2>7. QED
    BY <1>2, <2>3, <2>6
<1>3. QED
  BY <1>1, <1>2

\* Where the code interpolates the level is a proper part of the way up to the row.
LEMMA BetweenRows ==
    ASSUME NEW level \in Int, NEW i \in Rows, IsRow(level, i),
           level # Brightness(i), i # 1
    PROVE  /\ i \in Int /\ i > 1
           /\ Alpha(i) \in 0..255 /\ Alpha(i - 1) \in 0..255
           /\ Brightness(i) - Brightness(i - 1) \in Nat
           /\ level - Brightness(i - 1) \in Nat
           /\ level - Brightness(i - 1) < Brightness(i) - Brightness(i - 1)
<1>1. i \in Int /\ i > 1 /\ i - 1 \in Rows /\ i - 1 < i
  BY TableOfBytes
<1>2. /\ Brightness(i) \in 0..255 /\ Brightness(i - 1) \in 0..255
      /\ Alpha(i) \in 0..255 /\ Alpha(i - 1) \in 0..255
  BY <1>1, TableOfBytes
<1>3. level <= Brightness(i) /\ level > Brightness(i - 1)
  BY <1>1 DEF IsRow
<1>4. QED
  BY <1>1, <1>2, <1>3, PartOfTheWay

\* A level has at most one row.
LEMMA OneRow ==
    ASSUME NEW level \in Int, NEW i \in Rows, NEW j \in Rows,
           IsRow(level, i), IsRow(level, j)
    PROVE  i = j
<1>1. /\ i \in Int /\ j \in Int
      /\ Brightness(i) \in Int /\ Brightness(j) \in Int
  BY TableOfBytes
<1>2. ~(i < j) /\ ~(j < i)
  BY <1>1 DEF IsRow
<1>3. QED
  BY <1>1, <1>2

(***************************************************************************)
(* GetBackgroundAlpha: whichever way the build casts, the alpha is between *)
(* those of the rows around the level.                                     *)
(***************************************************************************)
LEMMA AlphaFits ==
    ASSUME CanvasAssumption, NEW level \in Int,
           NEW a \in GetBackgroundAlpha(level)
    PROVE  Fits(level, a)
<1>1. PICK i \in Rows :
        /\ IsRow(level, i)
        /\ a \in IF level = Brightness(i) \/ i = 1 THEN {Alpha(i)}
                                                   ELSE Between(level, i)
  BY DEF GetBackgroundAlpha
<1>2. CASE level = Brightness(i) \/ i = 1
  BY <1>1, <1>2 DEF Fits
<1>3. CASE level # Brightness(i) /\ i # 1
  <2> DEFINE d == Brightness(i) - Brightness(i - 1)
             n == level - Brightness(i - 1)
  <2>1. /\ i \in Int /\ i > 1
        /\ Alpha(i) \in 0..255 /\ Alpha(i - 1) \in 0..255
        /\ d \in Nat /\ n \in Nat /\ n < d
    BY <1>1, <1>3, BetweenRows
  <2>2. PICK offset \in CastToUint((Alpha(i) - Alpha(i - 1)) * n, d) :
          a = (Alpha(i - 1) + offset) % Word
    BY <1>1, <1>3 DEF Between
  <2> HIDE DEF d, n
  <2>3. a \in Alpha(i - 1)..Alpha(i) \cup Alpha(i)..Alpha(i - 1)
    BY <2>1, <2>2, Interpolated
  <2>4. QED
    BY <1>1, <2>1, <2>3 DEF Fits
<1>4. QED
  BY <1>2, <1>3

\* The line ends at high.
LEMMA AtTheEnd ==
    ASSUME NEW low \in 0..255, NEW high \in 0..255, NEW d \in Nat, d > 0
    PROVE  (high - low) * d - (high - low) * d \in (-d + 1) .. (d - 1)
<1>1. (high - low) * d \in Int
  OBVIOUS
<1>2. (high - low) * d - (high - low) * d = 0
  BY <1>1
<1>3. 0 \in (-d + 1) .. (d - 1)
  OBVIOUS
<1>4. QED
  BY <1>2, <1>3

\* What StraightOrSaturated asks of an opacity at row i.
Straight(i, level, a) ==
    \/ OnLine(i, level, a)
    \/ /\ "saturates" \in NegativeCasts
       /\ Alpha(i) < Alpha(i - 1)
       /\ a = Alpha(i - 1)

(***************************************************************************)
(* GetBackgroundAlpha: the alpha is on the line or that of the lower row.  *)
(***************************************************************************)
LEMMA AlphaStraight ==
    ASSUME CanvasAssumption, NEW level \in Int,
           NEW a \in GetBackgroundAlpha(level),
           NEW i \in Rows \ {1}, IsRow(level, i)
    PROVE  Straight(i, level, a)
<1>1. a \in IF level = Brightness(i) THEN {Alpha(i)} ELSE Between(level, i)
  BY OneRow DEF GetBackgroundAlpha
<1> DEFINE d == Brightness(i) - Brightness(i - 1)
           n == level - Brightness(i - 1)
<1>2. CASE level = Brightness(i)
  <2>1. i \in Int /\ i - 1 \in Rows /\ i - 1 < i
    BY TableOfBytes
  <2>2. /\ level > Brightness(i - 1)
        /\ Brightness(i) \in 0..255 /\ Brightness(i - 1) \in 0..255
        /\ Alpha(i) \in 0..255 /\ Alpha(i - 1) \in 0..255
    BY <2>1, TableOfBytes DEF IsRow
  <2>3. d \in Nat /\ d > 0
    BY <1>2, <2>2
  <2>4. a = Alpha(i) /\ n = d
    BY <1>1, <1>2
  <2> HIDE DEF d, n
  <2>5. (Alpha(i) - Alpha(i - 1)) * d - (Alpha(i) - Alpha(i - 1)) * d
          \in (-d + 1) .. (d - 1)
    BY <2>2, <2>3, AtTheEnd
  <2>6. (a - Alpha(i - 1)) * d - (Alpha(i) - Alpha(i - 1)) * n
          \in (-d + 1) .. (d - 1)
    BY <2>4, <2>5, Zenon
  <2>7. QED
    BY <2>6 DEF d, n, Straight, OnLine
<1>3. CASE level # Brightness(i)
  <2>1. /\ Alpha(i) \in 0..255 /\ Alpha(i - 1) \in 0..255
        /\ d \in Nat /\ n \in Nat /\ n < d
    BY <1>3, BetweenRows
  <2>2. PICK offset \in CastToUint((Alpha(i) - Alpha(i - 1)) * n, d) :
          a = (Alpha(i - 1) + offset) % Word
    BY <1>1, <1>3 DEF Between
  <2> HIDE DEF d, n
  <2>3. \/ (a - Alpha(i - 1)) * d - (Alpha(i) - Alpha(i - 1)) * n
             \in (-d + 1) .. (d - 1)
        \/ /\ "saturates" \in NegativeCasts /\ Alpha(i) < Alpha(i - 1)
           /\ a = Alpha(i - 1)
    BY <2>1, <2>2, OnTheLine
  <2>4. QED
    BY <2>3 DEF d, n, Straight, OnLine
<1>4. QED
  BY <1>2, <1>3

-----------------------------------------------------------------------------
(***************************************************************************)
(* What an enabled task keeps, and what is drawn from it.  The build with  *)
(* Rosen swaps the bytes of the background, and only the other one shows   *)
(* the alpha as an opacity.                                                *)
(***************************************************************************)
Params ==
    [centerXInPx : Nat, centerYInPy : Nat, radius : Radii, color : Colors,
     alpha : 0..255, frameWidth : Nat, frameHeight : Nat]

OnDisplay(param) ==
    /\ param.centerXInPx < param.frameWidth
    /\ param.centerYInPy < param.frameHeight

ParamOnDisplay ==
    canvasParam # NoParam => canvasParam \in Params /\ OnDisplay(canvasParam)

CanvasInv ==
    /\ ParamOnDisplay
    /\ SpotIsOnFrame
    /\ ~UseRosenDrawing => BackgroundFitsLevel

(***************************************************************************)
(* DrawSurfaceNode keeps the invariant, given parameters that are on the   *)
(* display and a level of the display.                                     *)
(***************************************************************************)
LEMMA DrawKeepsInv ==
    ASSUME CanvasAssumption, CanvasInv,
           NEW param \in Params, OnDisplay(param),
           NEW level \in Levels, NEW drawn \in BOOLEAN,
           DrawSurfaceNode(param, level, drawn)
    PROVE  CanvasInv'
<1>1. CASE canvasParam' = param /\ UNCHANGED frame
  BY <1>1 DEF CanvasInv, ParamOnDisplay, SpotIsOnFrame, BackgroundFitsLevel,
              OnDisplay
<1>2. CASE \E alpha \in GetBackgroundAlpha(level) :
             /\ canvasParam' = [param EXCEPT !.alpha = alpha]
             /\ frame' = IF drawn THEN DrawCanvas(canvasParam', level) ELSE frame
  <2>1. PICK alpha \in GetBackgroundAlpha(level) :
          /\ canvasParam' = [param EXCEPT !.alpha = alpha]
          /\ frame' = IF drawn THEN DrawCanvas(canvasParam', level) ELSE frame
    BY <1>2
  <2>2. Fits(level, alpha) /\ alpha \in 0..255
    <3>1. level \in Int
      BY DEF CanvasAssumption
    <3>2. QED
      BY <3>1, AlphaFits, FitsIsByte
  <2>3. canvasParam' \in Params /\ OnDisplay(canvasParam') /\ canvasParam'.alpha = alpha
    BY <2>1, <2>2 DEF Params, OnDisplay
  <2>4. ParamOnDisplay'
    BY <2>3 DEF ParamOnDisplay, OnDisplay
  <2>5. CASE drawn
    <3>1. /\ frame'.x < frame'.width /\ frame'.y < frame'.height
          /\ frame'.level = level
          /\ frame'.background = Background(alpha)
      BY <2>1, <2>3, <2>5 DEF DrawCanvas, OnDisplay
    <3>2. SpotIsOnFrame'
      BY <3>1 DEF SpotIsOnFrame
    <3>3. ASSUME ~UseRosenDrawing PROVE BackgroundFitsLevel'
      <4>1. frame'.background.a = alpha
        BY <3>1, <3>3 DEF Background, ARGB
      <4>2. Fits(frame'.level, frame'.background.a)
        BY <2>2, <3>1, <4>1
      <4>3. QED
        BY <4>2 DEF BackgroundFitsLevel, Fits
    <3>4. QED
      BY <2>4, <3>2, <3>3 DEF CanvasInv
  <2>6. CASE ~drawn
    <3>1. UNCHANGED frame
      BY <2>1, <2>6
    <3>2. QED
      BY <2>4, <3>1 DEF CanvasInv, SpotIsOnFrame, BackgroundFitsLevel
  <2>7. QED
    BY <2>5, <2>6
<1>3. QED
  BY <1>1, <1>2 DEF DrawSurfaceNode

(***************************************************************************)
(* Enable draws with parameters that are on the display.                   *)
(***************************************************************************)
LEMMA EnablesOnDisplay ==
    ASSUME CanvasAssumption,
           NEW x \in Thousandths, NEW y \in Thousandths, NEW radius \in Radii,
           NEW color \in Colors, NEW display \in Displays, NEW level,
           Enable(x, y, radius, color, display, level)
    PROVE  \E param \in Params :
              OnDisplay(param) /\ DrawSurfaceNode(param, level, TRUE)
<1> DEFINE param == [centerXInPx |-> ThousandthToPx(x, display[1]),
                     centerYInPy |-> ThousandthToPx(y, display[2]),
                     radius |-> radius,
                     color |-> color,
                     alpha |-> 0,
                     frameWidth |-> display[1],
                     frameHeight |-> display[2]]
<1>1. /\ x \in Nat /\ x < THOUSAND /\ y \in Nat /\ y < THOUSAND
      /\ display[1] \in Nat /\ display[1] > 0
      /\ display[2] \in Nat /\ display[2] > 0
  BY DEF CanvasAssumption, Enable, InRange, THOUSAND, MAX_X_Y_VALUE
<1>2. /\ ThousandthToPx(x, display[1]) \in Nat
      /\ ThousandthToPx(x, display[1]) < display[1]
      /\ ThousandthToPx(y, display[2]) \in Nat
      /\ ThousandthToPx(y, display[2]) < display[2]
  BY <1>1, PixelOnDisplay
<1>3. param \in Params /\ OnDisplay(param)
  BY <1>1, <1>2 DEF Params, OnDisplay
<1>4. DrawSurfaceNode(param, level, TRUE)
  BY DEF Enable
<1> HIDE DEF param
<1>5. QED
  BY <1>3, <1>4

(***************************************************************************)
(* Every step keeps the invariant.                                         *)
(***************************************************************************)
LEMMA CanvasNextInv ==
    ASSUME CanvasAssumption, CanvasInv, [CanvasNext]_canvasVars
    PROVE  CanvasInv'
<1>1. ASSUME NEW x \in Thousandths, NEW y \in Thousandths, NEW radius \in Radii,
             NEW color \in Colors, NEW display \in Displays, NEW level \in Levels,
             Enable(x, y, radius, color, display, level)
      PROVE  CanvasInv'
  <2>1. PICK param \in Params :
          OnDisplay(param) /\ DrawSurfaceNode(param, level, TRUE)
    BY <1>1, EnablesOnDisplay
  <2>2. QED
    BY <2>1, DrawKeepsInv
<1>2. ASSUME NEW level \in Levels, NEW drawn \in BOOLEAN, TurnOn(level, drawn)
      PROVE  CanvasInv'
  <2>1. canvasParam \in Params /\ OnDisplay(canvasParam)
    BY <1>2 DEF TurnOn, CanvasInv, ParamOnDisplay
  <2>2. DrawSurfaceNode(canvasParam, level, drawn)
    BY <1>2 DEF TurnOn
  <2>3. QED
    BY <2>1, <2>2, DrawKeepsInv
<1>3. CASE Disable
  BY <1>3 DEF Disable, CanvasInv, ParamOnDisplay, SpotIsOnFrame, BackgroundFitsLevel
<1>4. CASE UNCHANGED canvasVars
  BY <1>4 DEF canvasVars, CanvasInv, ParamOnDisplay, OnDisplay, SpotIsOnFrame,
              BackgroundFitsLevel
<1>5. QED
  BY <1>1, <1>2, <1>3, <1>4 DEF CanvasNext

\* The invariant holds of every behavior.
LEMMA CanvasInvAlways == CanvasSpec => []CanvasInv
<1>1. CanvasInit => CanvasInv
  BY DEF CanvasInit, CanvasInv, ParamOnDisplay, SpotIsOnFrame, BackgroundFitsLevel
<1>2. CanvasInv /\ [CanvasNext]_canvasVars => CanvasInv'
  BY CanvasAssumption, CanvasNextInv
<1>3. QED
  BY <1>1, <1>2, PTL DEF CanvasSpec

(***************************************************************************)
(* The spot is centred on a pixel of the frame: the manager's limit on the *)
(* coordinates is enough for displays of every size and every coordinates. *)
(***************************************************************************)
THEOREM SpotAlwaysOnFrame == CanvasSpec => []SpotIsOnFrame
<1>1. CanvasInv => SpotIsOnFrame
  BY DEF CanvasInv
<1>2. QED
  BY <1>1, CanvasInvAlways, PTL

(***************************************************************************)
(* In the build without Rosen every frame has an opacity between those of  *)
(* the rows around its level, for every level a display may report and     *)
(* every way a build may cast a negative float.                            *)
(***************************************************************************)
THEOREM BackgroundAlwaysFits ==
    ASSUME ~UseRosenDrawing
    PROVE  CanvasSpec => []BackgroundFitsLevel
<1>1. CanvasInv => BackgroundFitsLevel
  BY DEF CanvasInv
<1>2. QED
  BY <1>1, CanvasInvAlways, PTL

-----------------------------------------------------------------------------
(***************************************************************************)
(* A new frame has the background that GetBackgroundAlpha answered for the *)
(* level it was drawn for.                                                 *)
(***************************************************************************)
LEMMA FrameHasAlpha ==
    ASSUME NEW param \in Params, NEW level, NEW drawn, ~UseRosenDrawing,
           DrawSurfaceNode(param, level, drawn), frame' # frame
    PROVE  /\ frame'.level = level
           /\ frame'.background.a \in GetBackgroundAlpha(level)
<1>1. PICK alpha \in GetBackgroundAlpha(level) :
        /\ canvasParam' = [param EXCEPT !.alpha = alpha]
        /\ frame' = DrawCanvas(canvasParam', level)
  BY DEF DrawSurfaceNode
<1>2. canvasParam'.alpha = alpha
  BY <1>1 DEF Params
<1>3. frame'.level = level /\ frame'.background.a = canvasParam'.alpha
  BY <1>1 DEF DrawCanvas, Background, ARGB
<1>4. QED
  BY <1>2, <1>3

(***************************************************************************)
(* What is drawn keeps to the line, but for saturation.                    *)
(***************************************************************************)
LEMMA DrawInterpolates ==
    ASSUME CanvasAssumption, ~UseRosenDrawing,
           NEW param \in Params, NEW level \in Levels, NEW drawn,
           DrawSurfaceNode(param, level, drawn), StraightOrSaturated
    PROVE  StraightOrSaturated'
<1>1. CASE frame' = frame
  BY <1>1 DEF StraightOrSaturated
<1>2. CASE frame' # frame
  <2>1. level \in Int
    BY DEF CanvasAssumption
  <2>2. /\ frame'.level = level
        /\ frame'.background.a \in GetBackgroundAlpha(level)
    BY <1>2, FrameHasAlpha
  <2>3. ASSUME NEW i \in Rows \ {1}, IsRow(frame'.level, i)
        PROVE  Straight(i, frame'.level, frame'.background.a)
    BY <2>1, <2>2, <2>3, AlphaStraight
  <2>4. QED
    BY <2>3 DEF Straight, StraightOrSaturated
<1>3. QED
  BY <1>1, <1>2

(***************************************************************************)
(* In the build without Rosen, GetBackgroundAlpha interpolates as the      *)
(* comment of sensor_illumination_task.cpp:68 says, but where a cast of a  *)
(* negative float to uint32_t saturates; there the alpha of the lower row  *)
(* stays.  For every level and every way a build may cast.                 *)
(***************************************************************************)
THEOREM OnlySaturationBends ==
    ASSUME ~UseRosenDrawing
    PROVE  CanvasSpec => []StraightOrSaturated
<1>1. CanvasInit => StraightOrSaturated
  BY DEF CanvasInit, StraightOrSaturated
<1>2. ASSUME StraightOrSaturated, CanvasInv, [CanvasNext]_canvasVars
      PROVE  StraightOrSaturated'
  <2>1. ASSUME NEW x \in Thousandths, NEW y \in Thousandths, NEW radius \in Radii,
               NEW color \in Colors, NEW display \in Displays, NEW level \in Levels,
               Enable(x, y, radius, color, display, level)
        PROVE  StraightOrSaturated'
    <3>1. PICK param \in Params : DrawSurfaceNode(param, level, TRUE)
      BY <2>1, CanvasAssumption, EnablesOnDisplay
    <3>2. QED
      BY <1>2, <3>1, CanvasAssumption, DrawInterpolates
  <2>2. ASSUME NEW level \in Levels, NEW drawn \in BOOLEAN, TurnOn(level, drawn)
        PROVE  StraightOrSaturated'
    <3>1. canvasParam \in Params /\ DrawSurfaceNode(canvasParam, level, drawn)
      BY <1>2, <2>2 DEF TurnOn, CanvasInv, ParamOnDisplay
    <3>2. QED
      BY <1>2, <3>1, CanvasAssumption, DrawInterpolates
  <2>3. CASE Disable
    BY <2>3 DEF Disable, StraightOrSaturated
  <2>4. CASE UNCHANGED canvasVars
    BY <1>2, <2>4 DEF canvasVars, StraightOrSaturated
  <2>5. QED
    BY <1>2, <2>1, <2>2, <2>3, <2>4 DEF CanvasNext
<1>3. QED
  BY <1>1, <1>2, CanvasInvAlways, PTL DEF CanvasSpec

(***************************************************************************)
(* Hence a build in which every negative float that is cast to uint32_t    *)
(* wraps does interpolate linearly, whatever the level of the display.     *)
(***************************************************************************)
THEOREM WrappingBuildInterpolates ==
    ASSUME NegativeCasts = {"wraps"}, ~UseRosenDrawing
    PROVE  CanvasSpec => []InterpolatesLinearly
<1>1. StraightOrSaturated => InterpolatesLinearly
  BY DEF StraightOrSaturated, InterpolatesLinearly
<1>2. CanvasSpec => []StraightOrSaturated
  BY OnlySaturationBends
<1>3. QED
  BY <1>1, <1>2, PTL

=============================================================================
