----------------------------- MODULE RenderFrame -----------------------------
(***************************************************************************)
(* VideoRender::renderFrame of android/jni-01/VideoRender.cpp: a grey      *)
(* picture is copied to the middle of a window, scaled down in whole steps *)
(* when it is wide.  A kernel is modelled by the pairs <<to, from>> of     *)
(* columns and of rows that it copies; the value of a pixel does not       *)
(* matter.                                                                 *)
(***************************************************************************)
EXTENDS Integers

CONSTANTS
    Widths,     \* the picture widths at which the scale changes: 600, 800, 1280, 1600
    Pictures,   \* the sizes [w, h] of pictures (model bound)
    Windows     \* the sizes [w, h] of windows (model bound)

ASSUME WidthsAssumption ==
    /\ Widths \in [1 .. 4 -> Nat]
    /\ \A i, j \in 1 .. 4 : i < j => Widths[i] < Widths[j]

ASSUME SizesAssumption == Pictures \union Windows \subseteq [w : Nat, h : Nat]

VARIABLES
    picture,    \* [w, h] of the Image
    shown       \* [w, h] of the window's buffer

renderVars == <<picture, shown>>

-----------------------------------------------------------------------------
Scale(w) ==
    CASE w < Widths[1]  -> "NONE"
      [] w >= Widths[1] /\ w <= Widths[2] -> "3P4"
      [] w > Widths[2] /\ w <= Widths[3]  -> "1P2"
      [] w > Widths[3] /\ w <= Widths[4]  -> "1P3"
      [] w > Widths[4]  -> "NONE"

\* srcw and srch: a side of the picture once it is scaled.
Down(scale, n) ==
    CASE scale = "3P4" -> (n * 3) \div 4
      [] scale = "1P2" -> n \div 2
      [] scale = "1P3" -> n \div 3
      [] OTHER -> n

\* The side of a picture that fills n pixels.
Up(scale, n) ==
    CASE scale = "3P4" -> (n * 4) \div 3
      [] scale = "1P2" -> n * 2
      [] scale = "1P3" -> n * 3
      [] OTHER -> n

\* Division of C, toward zero.
Half(n) == IF n >= 0 THEN n \div 2 ELSE -((-n) \div 2)

CeilDiv(n, d) == (n + d - 1) \div d

\* Four pixels at a time.
renderGraytoRGBX(w, h) ==
    [cols |-> {<<x, x>> : x \in 0 .. 4 * CeilDiv(w, 4) - 1},
     rows |-> {<<y, y>> : y \in 0 .. h - 1}]

\* Of four pixels three are written, of four rows the first is left out.
renderto4of3RGBX(w, h) ==
    [cols |-> {<<3 * (x \div 4) + (x % 4), x>> :
                  x \in {x \in 0 .. 4 * CeilDiv(w, 4) - 1 : x % 4 # 3}},
     rows |-> {<<y - (y \div 4) - 1, y>> : y \in {y \in 0 .. h - 1 : y % 4 # 0}}]

renderto3of1RGBX(w, h) ==
    [cols |-> {<<x, 3 * x>> : x \in 0 .. w \div 3 - 1},
     rows |-> {<<y, 3 * y>> : y \in 0 .. h \div 3 - 1}]

renderto2of1RGBX(w, h) ==
    [cols |-> {<<x, 2 * x>> : x \in 0 .. CeilDiv(w, 2) - 1},
     rows |-> {<<y, 2 * y>> : y \in 0 .. CeilDiv(h, 2) - 1}]

Kernel(scale, w, h) ==
    CASE scale = "3P4" -> renderto4of3RGBX(w, h)
      [] scale = "1P2" -> renderto2of1RGBX(w, h)
      [] scale = "1P3" -> renderto3of1RGBX(w, h)
      [] OTHER -> renderGraytoRGBX(w, h)

Offset(p, b) == Half(b.w - Down(Scale(p.w), p.w))

\* A narrow picture goes to the middle of the window (pdst).
ToColumn(p, b) == IF Offset(p, b) > 0 THEN Offset(p, b) ELSE 0

\* Of a wide one columns are left out at the left (psrc); the offset is not scaled.
FromColumn(p, b) == IF Offset(p, b) > 0 THEN 0 ELSE -Offset(p, b)

\* minw and minh: what is copied of the picture.  MinWAll is the slip of taking the
\* picture's width in any case.
MinWAll(p, b) == p.w

MinW(p, b) == IF Offset(p, b) > 0 THEN p.w ELSE Up(Scale(p.w), b.w)

MinH(p, b) == IF b.h > Down(Scale(p.w), p.h) THEN p.h ELSE Up(Scale(p.w), b.h)

\* The rows that are cleared below a picture that is not scaled.
Cleared(p, b) == IF Scale(p.w) = "NONE" THEN p.h .. b.h - 1 ELSE {}

\* The columns and the rows that renderFrame copies, and those it clears.
renderFrame(p, b) ==
    LET k == Kernel(Scale(p.w), MinW(p, b), MinH(p, b))
    IN  [cols |-> {<<ToColumn(p, b) + c[1], FromColumn(p, b) + c[2]>> : c \in k.cols},
         rows |-> k.rows,
        cleared |-> Cleared(p, b)]

-----------------------------------------------------------------------------
RenderInit == picture \in Pictures /\ shown \in Windows

\* The decoder delivers pictures of another size, or there is another window.
NewPicture == picture' \in Pictures /\ UNCHANGED shown
NewWindow == shown' \in Windows /\ UNCHANGED picture

RenderNext == NewPicture \/ NewWindow

-----------------------------------------------------------------------------
(* Properties                                                              *)

\* The sizes the kernels are written for: they copy four columns, or three of
\* four, at a time and look at neither end.
Aligned == picture.w % 4 = 0 /\ shown.w % 12 = 0

\* The copying loops know neither the window nor the picture, only the counts
\* renderFrame works out with four different roundings: with aligned sizes nothing
\* is written outside the window, nothing is read outside the picture, and no row that
\* was copied is cleared.
StaysInside ==
    Aligned =>
        LET r == renderFrame(picture, shown)
        IN  /\ \A c \in r.cols : c[1] \in 0 .. shown.w - 1 /\ c[2] \in 0 .. picture.w - 1
            /\ \A y \in r.rows : y[1] \in 0 .. shown.h - 1 /\ y[2] \in 0 .. picture.h - 1
            /\ r.cleared \subseteq 0 .. shown.h - 1
            /\ \A y \in r.rows : y[1] \notin r.cleared
=============================================================================
