--------------------------- MODULE PrintGeometry ---------------------------
(***************************************************************************)
(* The sizes that ImageEnhancementService computes: resolution, upscale    *)
(* factor and the size of the file it builds.  Sizes are <<width, height>> *)
(* in pixels or inches, factors are in hundredths as the code rounds them, *)
(* and areas in units of 10 000 pixels, so that a square fits an integer   *)
(* of TLC: source sizes are multiples of a hundred.                        *)
(***************************************************************************)
EXTENDS Integers, FiniteSetsExt

CONSTANTS
    Sizes,      \* the sizes of a source, in pixels
    Formats,    \* the sizes of a print, in inches
    Targets,    \* EnhanceDto.targetDpi; 0 is not given
    Factors,    \* EnhanceDto.upscaleFactor; 0 is not given
    Unknown     \* a size that could not be found out

ASSUME GeometryConstants ==
    /\ Sizes \subseteq (Nat \ {0}) \X (Nat \ {0})
    /\ \A s \in Sizes : s[1] % 100 = 0 /\ s[2] % 100 = 0
    /\ Formats \subseteq (Nat \ {0}) \X (Nat \ {0})
    /\ Targets \subseteq {0} \cup 72..600
    /\ Factors \subseteq {0} \cup 100..800

PrintDpi == 300
MaxEdge == 8000
MaxUpscaleFactor == 800
Ceiling == (30 * 1024 * 1024) \div 10000    \* MAX_UPSCALE_OUTPUT_PX
Area(px) == (px[1] \div 100) * (px[2] \div 100)

Smaller(a, b) == IF a < b THEN a ELSE b
Round(n, d) == (2 * n + d) \div (2 * d)     \* Math.round(n / d)
CeilDiv(n, d) == (n + d - 1) \div d

DpiFor(px, inches) ==
    IF Unknown \in {px, inches} THEN Unknown
    ELSE Smaller(px[1] \div inches[1], px[2] \div inches[2])

(***************************************************************************)
(* resolveUpscaleFactor: a factor asked for, or the one that reaches the   *)
(* target, or the legacy one; at most eight and at most what keeps the     *)
(* output below the ceiling, the square root of which is rounded.          *)
(***************************************************************************)
Desired(options, px, inches) ==
    LET dpi == DpiFor(px, inches)
    IN  CASE options.factor # 0 -> options.factor
          [] options.factor = 0 /\ options.target # 0 ->
                IF dpi = Unknown \/ dpi = 0 THEN 200 ELSE 100 * CeilDiv(options.target, dpi)
          [] options.factor = 0 /\ options.target = 0 -> 100 * options.upscale

\* The square of the factor, doubled less one, is compared: rounding to the
\* nearest hundredth adds at most half of one.
RoundsWithin(factor, px) ==
    (2 * factor - 1) * (2 * factor - 1) <= (40000 * Ceiling) \div Area(px)
Within(factor, px) == factor * factor <= (10000 * Ceiling) \div Area(px)

\* Mutant of ResolveUpscaleFactor: the ceiling only decides whether to upscale.
ResolveUncapped(options, px, inches) ==
    LET desired == Smaller(Desired(options, px, inches), MaxUpscaleFactor)
    IN  IF desired <= 100 \/ (px # Unknown /\ 100 * Ceiling < 121 * Area(px)) THEN 0 ELSE desired

ResolveUpscaleFactor(options, px, inches) ==
    LET desired == Smaller(Desired(options, px, inches), MaxUpscaleFactor)
    IN  CASE desired <= 100 -> 0
          [] desired > 100 /\ px = Unknown -> desired
          [] desired > 100 /\ px # Unknown ->
                IF 100 * Ceiling < 121 * Area(px) THEN 0
                ELSE IF Within(desired, px) THEN desired
                     ELSE Max({f \in 100..MaxUpscaleFactor : RoundsWithin(f, px)})

-----------------------------------------------------------------------------
(***************************************************************************)
(* buildPrintImage, of a save: reduced to fit the format, or cut to it;    *)
(* never enlarged; with the bleed around it.                               *)
(***************************************************************************)
AtLeastOne(n) == IF n < 1 THEN 1 ELSE n

FitInside(px, box) ==       \* sharp: fit inside, without enlargement
    CASE px[1] <= box[1] /\ px[2] <= box[2] -> px
      [] ~(px[1] <= box[1] /\ px[2] <= box[2]) ->
            IF px[1] * box[2] >= px[2] * box[1]
            THEN <<box[1], AtLeastOne(Round(px[2] * box[1], px[1]))>>
            ELSE <<AtLeastOne(Round(px[1] * box[2], px[2])), box[2]>>

CoverResizeToFormat(px, box) ==
    CASE px[1] >= box[1] /\ px[2] >= box[2] -> box
      [] ~(px[1] >= box[1] /\ px[2] >= box[2]) ->
            IF px[1] * box[2] <= px[2] * box[1]
            THEN <<px[1], AtLeastOne(Round(box[2] * px[1], box[1]))>>
            ELSE <<AtLeastOne(Round(box[1] * px[2], box[2])), px[2]>>

Box(inches, dpi) ==
    IF inches = Unknown THEN <<MaxEdge, MaxEdge>> ELSE <<inches[1] * dpi, inches[2] * dpi>>
BleedPx(dpi) == Round(30 * dpi, 254)        \* BLEED_MM / 25.4 * dpi
Dpi(options) == IF options.target = 0 THEN PrintDpi ELSE options.target

BuildPrintImage(px, inches, options) ==
    LET box == Box(inches, Dpi(options))
        size == IF options.fit /\ inches # Unknown
                THEN CoverResizeToFormat(px, box) ELSE FitInside(px, box)
        border == IF options.bleed /\ inches # Unknown THEN BleedPx(Dpi(options)) ELSE 0
    IN  <<size[1] + 2 * border, size[2] + 2 * border>>

NoOptions == [factor |-> 0, target |-> 0, upscale |-> 0, fit |-> FALSE, bleed |-> FALSE]

\* Mutant of BuildBase: the base is built with the options of the save.
BuildBaseAdjusted(px, inches, options) == BuildPrintImage(px, inches, options)

\* The base that is kept for later adjustments takes none of the options.
BuildBase(px, inches, options) == BuildPrintImage(px, inches, NoOptions)

-----------------------------------------------------------------------------
(***************************************************************************)
(* One computation at a time: the options, the source and the format that  *)
(* an administrator tries or saves (getEnhanceInfo, previewEnhance).       *)
(***************************************************************************)
VARIABLE asked

Options == [factor : Factors, target : Targets, upscale : {0, 2, 4}, fit : BOOLEAN, bleed : BOOLEAN]
NotAsked == [options |-> NoOptions, px |-> Unknown, inches |-> Unknown]
GeometryInit == asked = NotAsked
Ask ==
    /\ asked = NotAsked
    /\ asked' \in [options : Options, px : Sizes \cup {Unknown}, inches : Formats \cup {Unknown}]

\* An upscale is between one and eight, its output stays below the ceiling up
\* to the rounding of the factor, and it reaches the resolution asked for
\* unless one of the two caps it or the source has no dot per inch that could
\* be multiplied (resolveUpscaleFactor).
UpscaleFits ==
    LET options == asked.options
        px == asked.px
        factor == ResolveUpscaleFactor(options, px, asked.inches)
        dpi == DpiFor(px, asked.inches)
    IN  factor # 0 /\ px # Unknown =>
            /\ factor \in 100..MaxUpscaleFactor /\ RoundsWithin(factor, px)
            /\ options.factor = 0 /\ options.target # 0 /\ dpi \notin {Unknown, 0} =>
                    \/ (dpi * factor) \div 100 >= options.target
                    \/ factor = MaxUpscaleFactor \/ ~Within(factor + 1, px)

Near(a, b) == a - b \in -1..1
SameSize(a, b) == Near(a[1], b[1]) /\ Near(a[2], b[2])
AtOnce == BuildPrintImage(asked.px, asked.inches, asked.options)
Later ==
    BuildPrintImage(BuildBase(asked.px, asked.inches, asked.options), asked.inches, asked.options)

\* "Re-apply adjustments without resolution loss" (schema.prisma:606-607):
\* saving adjustments later, from the base, gives a file of the size that they
\* would have had at once, to the pixel lost by rounding twice, if they ask for
\* no more than the resolution of the base and do not cut the image to its
\* format.  A cut loses some: the base was reduced to fit inside the format.
AdjustKeepsResolution ==
    asked.px # Unknown /\ ~asked.options.fit /\ Dpi(asked.options) <= PrintDpi
        => SameSize(AtOnce, Later)
=============================================================================
