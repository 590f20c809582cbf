----------------------------- MODULE ProgramProofs -----------------------------
(***************************************************************************)
(* Proofs about the small programs, for all values of their constants:     *)
(* that the copying renderFrame stays inside the picture and the window    *)
(* (RenderFrame); that the three threads of VideoRenderGL draw on the      *)
(* surface of the window that is set and from memory that is there; that   *)
(* what the receiver of a link tester says is true (LinkTester); and that  *)
(* the supervisor runs no program twice and kills no stranger              *)
(* (Supervisor).                                                           *)
(***************************************************************************)
EXTENDS RenderFrame, VideoRenderGL, LinkTester, Supervisor, FiniteSetTheorems, TLAPS

-----------------------------------------------------------------------------
(* The scaling loops                                                       *)

Size == [w : Nat, h : Nat]

\* Half rounds toward zero.
LEMMA HalfBounds ==
    ASSUME NEW n \in Int
    PROVE  /\ Half(n) \in Int
           /\ n >= 0 => 0 <= Half(n) /\ 2 * Half(n) <= n
           /\ n <= 0 => Half(n) <= 0 /\ n <= 2 * Half(n)
  BY DEF Half

\* Each picture has one of four scales.
LEMMA ScaleRange ==
    ASSUME NEW w \in Nat
    PROVE  Scale(w) \in {"NONE", "3P4", "1P2", "1P3"}
  BY WidthsAssumption DEF Scale

\* A side that is scaled down is a side, no longer than before.
LEMMA DownRange ==
    ASSUME NEW scale \in {"NONE", "3P4", "1P2", "1P3"}, NEW n \in Nat
    PROVE  Down(scale, n) \in Nat /\ Down(scale, n) <= n
  BY DEF Down

\* What the columns that renderFrame copies have in common: the offset is half of
\* what window and picture differ by, rounded toward zero.
LEMMA OffsetBounds ==
    ASSUME NEW a \in Size, NEW b \in Size
    PROVE  LET d == Down(Scale(a.w), a.w) IN
           /\ d \in Nat
           /\ ToColumn(a, b) \in Nat /\ FromColumn(a, b) \in Nat
           /\ Offset(a, b) > 0 => 2 * ToColumn(a, b) <= b.w - d /\ FromColumn(a, b) = 0
           /\ ~(Offset(a, b) > 0) =>
                  ToColumn(a, b) = 0 /\ (2 * FromColumn(a, b) <= d - b.w \/ FromColumn(a, b) = 0)
           /\ ~(Offset(a, b) > 0) => d >= b.w - 1
  <1> DEFINE d == Down(Scale(a.w), a.w)
  <1>1. d \in Nat /\ a.w \in Nat /\ b.w \in Nat
    BY ScaleRange, DownRange DEF Size
  <1> HIDE DEF d
  <1>2. b.w - d \in Int
    BY <1>1
  <1>3. Offset(a, b) = Half(b.w - d)
    BY DEF Offset, d
  <1>4. d >= b.w - 1 \/ Half(b.w - d) > 0
    BY <1>1 DEF Half
  <1> QED
    BY <1>1, <1>2, <1>3, <1>4, HalfBounds DEF ToColumn, FromColumn, d

\* Whole groups of four.
LEMMA Fours ==
    ASSUME NEW w \in Nat, w % 4 = 0
    PROVE  4 * CeilDiv(w, 4) = w
  BY DEF CeilDiv

\* A side that is a multiple of four has a fourth.
LEMMA MultipleOf4 ==
    ASSUME NEW n \in Nat, n % 4 = 0
    PROVE  \E q \in Nat : n = 4 * q
  <1>1. n \div 4 \in Nat /\ n = 4 * (n \div 4)
    OBVIOUS
  <1> QED
    BY <1>1

\* A side that is a multiple of twelve has a twelfth.
LEMMA MultipleOf12 ==
    ASSUME NEW n \in Nat, n % 12 = 0
    PROVE  \E r \in Nat : n = 12 * r
  <1>1. n \div 12 \in Nat /\ n = 12 * (n \div 12)
    OBVIOUS
  <1> QED
    BY <1>1

\* Where the columns of renderFrame go and come from.
LEMMA ColumnsInside ==
    ASSUME NEW a \in Size, NEW b \in Size, a.w % 4 = 0, b.w % 12 = 0,
           NEW c \in renderFrame(a, b).cols
    PROVE  c[1] \in 0 .. b.w - 1 /\ c[2] \in 0 .. a.w - 1
  <1> DEFINE to == ToColumn(a, b)
             from == FromColumn(a, b)
             mw == MinW(a, b)
             d == Down(Scale(a.w), a.w)
  <1>1. PICK k \in Kernel(Scale(a.w), mw, MinH(a, b)).cols : c = <<to + k[1], from + k[2]>>
    BY DEF renderFrame
  <1>2. /\ a.w \in Nat /\ b.w \in Nat /\ d \in Nat /\ to \in Nat /\ from \in Nat
        /\ Offset(a, b) > 0 => 2 * to <= b.w - d /\ from = 0 /\ mw = a.w
        /\ ~(Offset(a, b) > 0) => /\ to = 0 /\ (2 * from <= d - b.w \/ from = 0)
                                  /\ d >= b.w - 1 /\ mw = Up(Scale(a.w), b.w)
    BY OffsetBounds DEF Size, MinW
  <1>q. PICK q \in Nat : a.w = 4 * q
    BY <1>2, MultipleOf4
  <1>r. PICK r \in Nat : b.w = 12 * r
    BY <1>2, MultipleOf12
  <1>3. Scale(a.w) \in {"NONE", "3P4", "1P2", "1P3"}
    BY <1>2, ScaleRange
  <1> HIDE DEF to, from, mw, d
  <1>4. SUFFICES /\ k[1] \in Nat /\ k[2] \in Nat
                 /\ to + k[1] < b.w /\ from + k[2] < a.w
    BY <1>1, <1>2
  <1>5. CASE Scale(a.w) = "NONE"
    <2>1. d = a.w /\ Up(Scale(a.w), b.w) = b.w
      BY <1>5 DEF Down, Up, d
    <2>2. PICK x \in 0 .. 4 * CeilDiv(mw, 4) - 1 : k = <<x, x>>
      BY <1>1, <1>5 DEF Kernel, renderGraytoRGBX
    <2>3. mw \in Nat /\ mw % 4 = 0
      BY <1>2, <2>1
    <2>4. x \in Nat /\ x < mw
      BY <2>2, <2>3, Fours
    <2> QED
      BY <1>2, <2>1, <2>2, <2>4
  <1>6. CASE Scale(a.w) = "3P4"
    <2>1. d = (a.w * 3) \div 4 /\ Up(Scale(a.w), b.w) = (b.w * 4) \div 3
      BY <1>6 DEF Down, Up, d
    <2>2. PICK x \in {x \in 0 .. 4 * CeilDiv(mw, 4) - 1 : x % 4 # 3} :
              k = <<3 * (x \div 4) + (x % 4), x>>
      BY <1>1, <1>6 DEF Kernel, renderto4of3RGBX
    <2>3. mw \in Nat /\ mw % 4 = 0
      <3>1. Up(Scale(a.w), b.w) = 16 * r
        BY <1>r, <2>1
      <3> QED
        BY <1>2, <3>1
    <2>4. x \in Nat /\ x < mw /\ x % 4 # 3
      BY <2>2, <2>3, Fours
    <2>5. k[1] = 3 * (x \div 4) + (x % 4) /\ k[2] = x
      BY <2>2
    <2>6. k[1] \in Nat /\ 4 * (k[1] + 1) <= 3 * mw
      BY <2>3, <2>4, <2>5
    <2>7. 4 * d = 3 * a.w /\ 3 * Up(Scale(a.w), b.w) = 4 * b.w
      BY <1>q, <1>r, <2>1
    <2> QED
      BY <1>2, <2>3, <2>4, <2>5, <2>6, <2>7
  <1>7. CASE Scale(a.w) = "1P2"
    <2>1. d = a.w \div 2 /\ Up(Scale(a.w), b.w) = b.w * 2
      BY <1>7 DEF Down, Up, d
    <2>2. PICK x \in 0 .. CeilDiv(mw, 2) - 1 : k = <<x, 2 * x>>
      BY <1>1, <1>7 DEF Kernel, renderto2of1RGBX
    <2>3. 2 * d = a.w /\ d = 2 * q /\ mw \in Nat /\ mw % 2 = 0
      BY <1>2, <1>q, <1>r, <2>1
    <2>4. x \in Nat /\ 2 * (x + 1) <= mw
      BY <2>2, <2>3 DEF CeilDiv
    <2>5. k[1] = x /\ k[2] = 2 * x
      BY <2>2
    <2>6. CASE Offset(a, b) > 0
      BY <1>2, <2>3, <2>4, <2>5, <2>6
    <2>7. CASE ~(Offset(a, b) > 0)
      <3>1. to = 0 /\ mw = b.w * 2 /\ d >= b.w
        BY <1>2, <1>r, <2>1, <2>3, <2>7
      <3> QED
        BY <1>2, <2>3, <2>4, <2>5, <2>7, <3>1
    <2> QED
      BY <2>6, <2>7
  <1>8. CASE Scale(a.w) = "1P3"
    <2>1. d = a.w \div 3 /\ Up(Scale(a.w), b.w) = b.w * 3
      BY <1>8 DEF Down, Up, d
    <2>2. PICK x \in 0 .. mw \div 3 - 1 : k = <<x, 3 * x>>
      BY <1>1, <1>8 DEF Kernel, renderto3of1RGBX
    <2>3. 3 * d <= a.w /\ mw \in Nat
      BY <1>2, <2>1
    <2>4. x \in Nat /\ 3 * (x + 1) <= mw /\ x + 1 <= mw \div 3
      BY <2>2, <2>3
    <2> QED
      BY <1>2, <2>1, <2>2, <2>3, <2>4
  <1> QED
    BY <1>3, <1>5, <1>6, <1>7, <1>8

\* Where the rows of renderFrame go and come from.
LEMMA RowsInside ==
    ASSUME NEW a \in Size, NEW b \in Size, NEW y \in renderFrame(a, b).rows
    PROVE  y[1] \in 0 .. b.h - 1 /\ y[2] \in 0 .. a.h - 1
  <1> DEFINE mh == MinH(a, b)
             mw == MinW(a, b)
             d == Down(Scale(a.w), a.h)
  <1>1. y \in Kernel(Scale(a.w), mw, mh).rows
    BY DEF renderFrame
  <1>2. /\ a.w \in Nat /\ a.h \in Nat /\ b.h \in Nat
        /\ b.h > d => mh = a.h
        /\ ~(b.h > d) => mh = Up(Scale(a.w), b.h)
    BY DEF Size, MinH
  <1>3. Scale(a.w) \in {"NONE", "3P4", "1P2", "1P3"}
    BY <1>2, ScaleRange
  <1> HIDE DEF mh, mw, d
  <1>4. SUFFICES /\ y[1] \in Nat /\ y[2] \in Nat
                 /\ y[1] < b.h /\ y[2] < a.h
    BY <1>2
  <1>5. CASE Scale(a.w) = "NONE"
    <2>1. d = a.h /\ Up(Scale(a.w), b.h) = b.h
      BY <1>5 DEF Down, Up, d
    <2>2. PICK x \in 0 .. mh - 1 : y = <<x, x>>
      BY <1>1, <1>5 DEF Kernel, renderGraytoRGBX
    <2> QED
      BY <1>2, <2>1, <2>2
  <1>6. CASE Scale(a.w) = "3P4"
    <2>1. d = (a.h * 3) \div 4 /\ Up(Scale(a.w), b.h) = (b.h * 4) \div 3
      BY <1>6 DEF Down, Up, d
    <2>2. PICK x \in {x \in 0 .. mh - 1 : x % 4 # 0} : y = <<x - (x \div 4) - 1, x>>
      BY <1>1, <1>6 DEF Kernel, renderto4of3RGBX
    <2>3. mh \in Nat
      BY <1>2, <2>1
    <2>4. x \in Nat /\ x < mh /\ x % 4 # 0 /\ y[1] = x - (x \div 4) - 1 /\ y[2] = x
      BY <2>2, <2>3
    <2>5. y[1] \in Nat /\ 4 * (y[1] + 1) <= 3 * (x + 1)
      BY <2>4
    <2>6. mh <= a.h /\ (3 * mh) <= 4 * b.h
      <3>1. CASE b.h > d
        BY <1>2, <2>1, <3>1
      <3>2. CASE ~(b.h > d)
        BY <1>2, <2>1, <3>2
      <3> QED
        BY <3>1, <3>2
    <2> QED
      BY <1>2, <2>3, <2>4, <2>5, <2>6
  <1>7. CASE Scale(a.w) = "1P2"
    <2>1. d = a.h \div 2 /\ Up(Scale(a.w), b.h) = b.h * 2
      BY <1>7 DEF Down, Up, d
    <2>2. PICK x \in 0 .. CeilDiv(mh, 2) - 1 : y = <<x, 2 * x>>
      BY <1>1, <1>7 DEF Kernel, renderto2of1RGBX
    <2>3. mh \in Nat
      BY <1>2, <2>1
    <2>4. x \in Nat /\ 2 * x < mh /\ y[1] = x /\ y[2] = 2 * x
      BY <2>2, <2>3 DEF CeilDiv
    <2>5. mh <= a.h /\ mh < 2 * b.h + 1
      <3>1. CASE b.h > d
        BY <1>2, <2>1, <3>1
      <3>2. CASE ~(b.h > d)
        BY <1>2, <2>1, <3>2
      <3> QED
        BY <3>1, <3>2
    <2> QED
      BY <1>2, <2>3, <2>4, <2>5
  <1>8. CASE Scale(a.w) = "1P3"
    <2>1. d = a.h \div 3 /\ Up(Scale(a.w), b.h) = b.h * 3
      BY <1>8 DEF Down, Up, d
    <2>2. PICK x \in 0 .. mh \div 3 - 1 : y = <<x, 3 * x>>
      BY <1>1, <1>8 DEF Kernel, renderto3of1RGBX
    <2>3. mh \in Nat
      BY <1>2, <2>1
    <2>4. x \in Nat /\ 3 * (x + 1) <= mh /\ x + 1 <= mh \div 3 /\ y[1] = x /\ y[2] = 3 * x
      BY <2>2, <2>3
    <2>5. mh <= a.h /\ mh \div 3 <= b.h
      <3>1. CASE b.h > d
        BY <1>2, <2>1, <3>1
      <3>2. CASE ~(b.h > d)
        BY <1>2, <2>1, <3>2
      <3> QED
        BY <3>1, <3>2
    <2> QED
      BY <1>2, <2>3, <2>4, <2>5
  <1> QED
    BY <1>3, <1>5, <1>6, <1>7, <1>8

\* The rows it clears are of the window, and none that it copies to.
LEMMA ClearedInside ==
    ASSUME NEW a \in Size, NEW b \in Size
    PROVE  /\ renderFrame(a, b).cleared \subseteq 0 .. b.h - 1
           /\ \A y \in renderFrame(a, b).rows : y[1] \notin renderFrame(a, b).cleared
  <1>1. /\ renderFrame(a, b).cleared = Cleared(a, b)
        /\ renderFrame(a, b).rows = Kernel(Scale(a.w), MinW(a, b), MinH(a, b)).rows
    BY DEF renderFrame
  <1>2. a.h \in Nat /\ b.h \in Nat
    BY DEF Size
  <1>3. CASE Scale(a.w) = "NONE"
    <2>1. Cleared(a, b) = a.h .. b.h - 1
      BY <1>3 DEF Cleared
    <2>2. MinH(a, b) = IF b.h > a.h THEN a.h ELSE b.h
      BY <1>3 DEF MinH, Down, Up
    <2>3. ASSUME NEW y \in renderFrame(a, b).rows
          PROVE  y[1] \in Nat /\ y[1] < a.h
      <3>1. PICK x \in 0 .. MinH(a, b) - 1 : y = <<x, x>>
        BY <1>1, <1>3 DEF Kernel, renderGraytoRGBX
      <3> QED
        BY <1>2, <2>2, <3>1
    <2> QED
      BY <1>1, <1>2, <2>1, <2>3
  <1>4. CASE Scale(a.w) # "NONE"
    BY <1>1, <1>4 DEF Cleared
  <1> QED
    BY <1>3, <1>4

\* The pictures and windows that renderFrame may meet, one after another.
RenderSpec == RenderInit /\ [][RenderNext]_renderVars

Sizes == picture \in Size /\ shown \in Size

\* Whatever the aligned sizes of the picture and of the window, and wherever the
\* scale changes, nothing is written outside the window and nothing is read outside
\* the picture, and no row that was copied is cleared.
THEOREM CopyStaysInside == RenderSpec => []StaysInside
  <1>1. RenderInit => Sizes
    BY SizesAssumption DEF RenderInit, Sizes, Size
  <1>2. Sizes /\ [RenderNext]_renderVars => Sizes'
    BY SizesAssumption DEF RenderNext, NewPicture, NewWindow, renderVars, Sizes, Size
  <1>3. Sizes => StaysInside
    BY ColumnsInside, RowsInside, ClearedInside DEF Sizes, StaysInside, Aligned
  <1> QED
    BY <1>1, <1>2, <1>3, PTL DEF RenderSpec

-----------------------------------------------------------------------------
(* VideoRenderGL                                                            *)

GlTypeOK ==
    /\ mWindow \in 0 .. MaxWindows
    /\ setting \in 0 .. MaxWindows \union {Unset}
    /\ mIsWndChange \in BOOLEAN /\ mIsGLInit \in BOOLEAN /\ mIsCopyed \in BOOLEAN
    /\ raced \in BOOLEAN /\ replaced \in BOOLEAN
    /\ resized \in BOOLEAN /\ freedRead \in BOOLEAN
    /\ local.size \in Nat
    /\ copyAt \in {"idle", "alloc", "fill"}
    /\ drawing \in {"no", "local", "direct"}

\* The object holds the window that is set.
WindowHeld == held = {mWindow} \ {NoWindow}

\* The flag tells of a window's end before it comes, unless it was looked at too early;
\* GL without the flag has the surface of the window that is set and stays, as long as no
\* other window takes its place.
Announced ==
    ~raced =>
        /\ setting = NoWindow => mIsWndChange
        /\ ~replaced =>
               /\ mIsGLInit /\ ~mIsWndChange => surface = mWindow /\ mWindow # NoWindow
               /\ drawing # "no" => surface = mWindow /\ mWindow # NoWindow

\* There is no picture to draw before its memory has been there once.
MemoryFirst ==
    /\ copyAt # "idle" => local.size # 0
    /\ local.size = 0 \/ (copyAt = "alloc" /\ ~resized) => ~mIsCopyed /\ drawing # "local"
    /\ freedRead => resized

GlInv == GlTypeOK /\ WindowHeld /\ Announced /\ MemoryFirst

LEMMA InitGlInv == GlInit => GlInv
  <1> SUFFICES ASSUME GlInit
               PROVE  GlInv
    OBVIOUS
  <1> USE DEF NoWindow
  <1>0. MaxWindows \in Nat
    BY GlAssumption
  <1>1. GlTypeOK
    <2>1. 0 \in 0 .. MaxWindows
      BY <1>0
    <2>2. local.size \in Nat /\ copyAt \in {"idle", "alloc", "fill"}
          /\ drawing \in {"no", "local", "direct"}
      BY DEF GlInit
    <2> QED
      BY <2>1, <2>2, Zenon DEF GlInit, GlTypeOK
  <1>2. WindowHeld /\ Announced /\ MemoryFirst
    BY <1>0 DEF GlInit, WindowHeld, Announced, MemoryFirst, Unset
  <1> QED
    BY <1>1, <1>2 DEF GlInv

LEMMA FollowWindowSound ==
    ASSUME GlInv, FollowWindow, UNCHANGED <<mWindow, setting>>
    PROVE  /\ mIsWndChange' \in BOOLEAN /\ mIsGLInit' \in BOOLEAN
           /\ raced' \in BOOLEAN /\ replaced' \in BOOLEAN
           /\ ~raced' => /\ setting = NoWindow => mIsWndChange'
                         /\ ~replaced' /\ mIsGLInit' => surface' = mWindow /\ mWindow # NoWindow
  <1>1. /\ mIsWndChange' = (mIsWndChange /\ ~mIsGLInit)
        /\ raced' = (raced \/ (Released /\ setting = NoWindow))
        /\ replaced' = (replaced /\ ~Released)
        /\ mIsWndChange \in BOOLEAN /\ mIsGLInit \in BOOLEAN /\ raced \in BOOLEAN
        /\ replaced \in BOOLEAN
    BY DEF FollowWindow, GlInv, GlTypeOK
  <1>2. CASE (~mIsGLInit \/ Released) /\ mWindow # NoWindow
    <2>1. InitGL
      BY <1>2 DEF FollowWindow
    <2>2. mIsGLInit' \in BOOLEAN /\ (mIsGLInit' => surface' = mWindow)
      BY <2>1 DEF InitGL
    <2> QED
      BY <1>1, <1>2, <2>2 DEF GlInv, Announced, Released
  <1>3. CASE ~((~mIsGLInit \/ Released) /\ mWindow # NoWindow)
    <2>1. mIsGLInit' = (mIsGLInit /\ ~Released) /\ surface' = IF Released THEN NoWindow ELSE surface
      BY <1>3 DEF FollowWindow
    <2> QED
      BY <1>1, <2>1 DEF GlInv, Announced, Released
  <1> QED
    BY <1>2, <1>3

LEMMA NextGlInv == GlInv /\ [GlNext]_glVars => GlInv'
  <1> SUFFICES ASSUME GlInv, [GlNext]_glVars
               PROVE  GlInv'
    OBVIOUS
  <1> USE DEF NoWindow
  <1>1. CASE SetWindow
    <2>1. GlTypeOK'
      BY <1>1, GlAssumption DEF SetWindow, GlInv, GlTypeOK, eglVars, copyVars, screenVars
    <2>2. WindowHeld'
      BY <1>1, GlAssumption DEF SetWindow, GlInv, GlTypeOK, WindowHeld, Unset, eglVars, copyVars, screenVars
    <2>3. Announced'
      BY <1>1, GlAssumption DEF SetWindow, GlInv, GlTypeOK, WindowHeld, Announced, Unset, eglVars, copyVars, screenVars
    <2>4. MemoryFirst'
      BY <1>1 DEF SetWindow, GlInv, MemoryFirst, copyVars, screenVars
    <2> QED
      BY <2>1, <2>2, <2>3, <2>4 DEF GlInv
  <1>2. CASE ExchangeWindow
    BY <1>2, GlAssumption DEF ExchangeWindow, GlInv, GlTypeOK, WindowHeld, Announced, MemoryFirst,
       Unset, eglVars, copyVars, screenVars
  <1>3. CASE CopyBegin
    <2>1. GlTypeOK'
      BY <1>3, GlAssumption DEF CopyBegin, GlInv, GlTypeOK, eglVars, windowVars, screenVars
    <2>2. WindowHeld'
      BY <1>3, GlAssumption DEF CopyBegin, GlInv, GlTypeOK, WindowHeld, Unset, eglVars, windowVars, screenVars
    <2>3. Announced'
      BY <1>3, GlAssumption DEF CopyBegin, GlInv, GlTypeOK, WindowHeld, Announced, Unset, eglVars, windowVars, screenVars
    <2>4. MemoryFirst'
      <3>1. PICK size \in PictureSizes :
                /\ local' = [size |-> size, data |-> Torn]
                /\ copyAt' = IF local.size # size THEN "alloc" ELSE "fill"
                /\ resized' = (resized \/ local.size \notin {0, size})
        BY <1>3 DEF CopyBegin
      <3>2. /\ UNCHANGED <<mIsCopyed, drawing, freedRead>>
            /\ size # 0 /\ local'.size = size
        BY <1>3, <3>1, GlAssumption DEF CopyBegin, screenVars
      <3>3. ~resized' => ~resized /\ (local.size = 0 \/ local.size = size)
        BY <3>1
      <3>4. resized => resized'
        BY <3>1
      <3> QED
        BY <3>1, <3>2, <3>3, <3>4 DEF GlInv, MemoryFirst
    <2> QED
      BY <2>1, <2>2, <2>3, <2>4 DEF GlInv
  <1>4. CASE CopyAlloc
    BY <1>4, GlAssumption DEF CopyAlloc, GlInv, GlTypeOK, WindowHeld, Announced, MemoryFirst, Unset,
       eglVars, windowVars, screenVars
  <1>5. CASE CopyEnd
    BY <1>5, GlAssumption DEF CopyEnd, GlInv, GlTypeOK, WindowHeld, Announced, MemoryFirst, Unset,
       eglVars, windowVars, screenVars
  <1>6. CASE RenderLocal
    BY <1>6, FollowWindowSound DEF RenderLocal, GlInv, GlTypeOK, WindowHeld, Announced, MemoryFirst,
       Unset, windowVars
  <1>7. CASE RenderDirect
    BY <1>7, FollowWindowSound DEF RenderDirect, GlInv, GlTypeOK, WindowHeld, Announced, MemoryFirst,
       Unset, windowVars, copyVars
  <1>8. CASE RenderEnd
    BY <1>8 DEF RenderEnd, GlInv, GlTypeOK, WindowHeld, Announced, MemoryFirst, Unset, eglVars,
       windowVars, copyVars
  <1>9. CASE Destroy
    <2>1. GlTypeOK'
      <3>1. MaxWindows \in Nat
        BY GlAssumption
      <3>2. /\ mWindow' = 0 /\ mIsGLInit' = FALSE
            /\ UNCHANGED <<setting, mIsWndChange, local, copyAt, mIsCopyed, resized, freedRead,
                           drawing, raced, replaced>>
        BY <1>9 DEF Destroy, copyVars, screenVars
      <3>3. 0 \in 0 .. MaxWindows
        BY <3>1
      <3> QED
        BY <3>2, <3>3, Zenon DEF GlInv, GlTypeOK
    <2>2. WindowHeld'
      BY <1>9, GlAssumption DEF Destroy, GlInv, GlTypeOK, WindowHeld, Unset, copyVars, screenVars
    <2>3. Announced'
      BY <1>9, GlAssumption DEF Destroy, GlInv, GlTypeOK, WindowHeld, Announced, Unset, copyVars, screenVars
    <2>4. MemoryFirst'
      BY <1>9, GlAssumption DEF Destroy, GlInv, GlTypeOK, MemoryFirst, copyVars, screenVars
    <2> QED
      BY <2>1, <2>2, <2>3, <2>4 DEF GlInv
  <1>10. CASE UNCHANGED glVars
    BY <1>10 DEF glVars, GlInv, GlTypeOK, WindowHeld, Announced, MemoryFirst, Unset, windowVars,
       eglVars, copyVars, screenVars
  <1> QED
    BY <1>1, <1>2, <1>3, <1>4, <1>5, <1>6, <1>7, <1>8, <1>9, <1>10 DEF GlNext

GlSpec == GlInit /\ [][GlNext]_glVars

\* However the decoder's thread, the GL thread and the one that sets windows interleave:
\* unless GL has looked at the flag while the window's end was on its way, or a window was
\* set over the one it draws on, drawing is on the surface of the window that is set and
\* held, and with pictures of one size it never reads memory that was given back.
THEOREM DrawsOnWhatIsThere == GlSpec => []SurfaceCurrent /\ []NeverFreedRead
  <1>1. GlInv => SurfaceCurrent /\ NeverFreedRead
    BY DEF GlInv, SurfaceCurrent, NeverFreedRead, WindowHeld, Announced, MemoryFirst
  <1> QED
    BY <1>1, InitGlInv, NextGlInv, PTL DEF GlSpec

-----------------------------------------------------------------------------
(* The link testers                                                        *)

\* The types.  Numbers and lengths that the TCP receiver misread may be anything, so nothing
\* is said of recv.seq and reading.seq.
LinkTypes ==
    /\ proto \in {"tcp", "udp", "asio"}
    /\ seq \in Nat
    /\ recv = [seq |-> recv.seq, n_dgram |-> recv.n_dgram] /\ recv.n_dgram \in Nat
    /\ mixed \in BOOLEAN
    /\ life = [sender |-> life.sender, receiver |-> life.receiver]
    /\ out # Idle => out \in [len : Lengths, nsend : Nat] /\ out.nsend < out.len
    /\ out # Idle => life.sender = "up"
    /\ icmp => proto = "udp"

\* What was told is right as long as the messages came in their order.
Told ==
    /\ got \subseteq Nat /\ IsFiniteSet(got) /\ Cardinality(got) = recv.n_dgram
    /\ recv.n_dgram > 0 =>
           /\ recv.seq \in got /\ \A g \in got : g <= recv.seq
           /\ told.missing = recv.seq + 1 - recv.n_dgram
           /\ recv.n_dgram > 1 => (told.seqv = "lost" <=> recv.seq - 1 \notin got)

\* UDP: the datagrams on the way are in the order of their numbers and newer than those
\* that came.
DatagramsInOrder ==
    /\ net \in Seq([seq : Nat, short : BOOLEAN])
    /\ ~mixed => /\ \A i \in DOMAIN net : net[i].seq < seq
                 /\ \A i, j \in DOMAIN net : i < j => net[i].seq < net[j].seq
                 /\ \A i \in DOMAIN net : \A g \in got : g < net[i].seq
                 /\ \A g \in got : g < seq

\* TCP: message m begins behind start[m] units of net.  The first is n, the one that is read
\* or comes next, and the last one, s, ends where s + 1 begins.
Spaced(start, n, s) ==
    /\ start \in [n .. s + 1 -> Int]
    /\ \A k, m \in n .. s + 1 : k < m => start[k] + Header < start[m]

\* Where a message begins on the way w its length is, and its number behind it.
Headed(start, n, s, w, numbered) ==
    \A m \in n .. s :
        /\ 0 <= start[m] /\ start[m] < Len(w) =>
               w[start[m] + 1] = <<"length", start[m + 1] - start[m]>>
        /\ numbered /\ 0 <= start[m] /\ start[m] + 1 < Len(w) =>
               w[start[m] + 2] = <<"number", m>>

\* Message s may be sent in part, and what was sent of it ends the l units on the way.
SentSoFar(start, s, l, o, gone) ==
    /\ start[s] <= l /\ l < start[s + 1]
    /\ o # Idle => o.len = start[s + 1] - start[s] /\ o.nsend = l - start[s]
    /\ o = Idle /\ ~gone => l = start[s]

\* The message n that is read began before net.
ReadSoFar(start, n, r) ==
    /\ start[n] = 0 - r.nread
    /\ r # NoHeader => r.lenv = start[n + 1] - start[n]

Laid(start) ==
    /\ Spaced(start, recv.n_dgram, seq)
    /\ Headed(start, recv.n_dgram, seq, net, ~mixed)
    /\ SentSoFar(start, seq, Len(net), out, life.sender = "gone")
    /\ ReadSoFar(start, recv.n_dgram, reading)

\* The units of the header and the others.
Unit == {<<"rest">>} \union ({"length", "number"} \X Int)

StreamInStep ==
    /\ net \in Seq(Unit)
    /\ recv.n_dgram <= seq
    /\ \/ reading = NoHeader
       \/ /\ reading = [lenv |-> reading.lenv, nread |-> reading.nread, seq |-> reading.seq]
          /\ reading.lenv \in Nat /\ reading.nread \in Header .. reading.lenv - 1
    /\ \E start : Laid(start)
    /\ out.nsend = 1 => mixed
    /\ ~mixed => /\ reading # NoHeader => reading.seq = recv.n_dgram
                 /\ got = 0 .. recv.n_dgram - 1
                 /\ recv.n_dgram > 0 => recv.seq = recv.n_dgram - 1
    /\ life.receiver = "gone" => life.sender = "gone"

LinkInv ==
    /\ LinkTypes
    /\ ~mixed => Told
    /\ proto # "tcp" => DatagramsInOrder
    /\ proto = "tcp" => StreamInStep

LinkSpec == LinkInit /\ [][LinkNext]_linkVars

LEMMA InitLinkInv == LinkInit => LinkInv
  <1> SUFFICES ASSUME LinkInit
               PROVE  LinkInv
    OBVIOUS
  <1>1. LinkTypes
    BY DEF LinkInit, LinkTypes
  <1>2. Told
    BY FS_EmptySet DEF LinkInit, Told
  <1>3. DatagramsInOrder
    BY DEF LinkInit, DatagramsInOrder
  <1>4. StreamInStep
    <2> DEFINE start == [m \in 0 .. 1 |-> m * (Header + 1)]
    <2>1. start[0] = 0 /\ start[1] = 3 /\ start \in [0 .. 1 -> Int]
      BY DEF Header
    <2>2. seq = 0 /\ recv.n_dgram = 0 /\ recv.seq = 0 /\ net = <<>> /\ reading = NoHeader
          /\ reading.nread = 0 /\ got = {} /\ mixed = FALSE /\ out = Idle /\ out.nsend = 0
          /\ life.receiver = "new"
      BY DEF LinkInit, NoHeader, Idle
    <2> HIDE DEF start
    <2>3. Laid(start)
      BY <2>1, <2>2 DEF Laid, Spaced, Headed, SentSoFar, ReadSoFar, Header, Idle, NoHeader
    <2>4. got = 0 .. recv.n_dgram - 1
      BY <2>2
    <2> QED
      BY <2>2, <2>3, <2>4 DEF StreamInStep
  <1> QED
    BY <1>1, <1>2, <1>3, <1>4 DEF LinkInv

LEMMA NextLinkTypes == LinkTypes /\ [LinkNext]_linkVars => LinkTypes'
  <1> SUFFICES ASSUME LinkTypes, [LinkNext]_linkVars
               PROVE  LinkTypes'
    OBVIOUS
  <1>0. proto \in {"tcp", "udp", "asio"} /\ seq \in Nat /\ mixed \in BOOLEAN
    BY DEF LinkTypes
  <1>1. CASE StartReceiver
    BY <1>1 DEF StartReceiver, LinkTypes
  <1>2. CASE StartSender
    BY <1>2 DEF StartSender, LinkTypes
  <1>3. CASE \E len \in Lengths : do_send(len)
    BY <1>3, LengthsAssumption DEF do_send, LinkTypes, Runs, Header
  <1>4. CASE SendDatagram
    <2>1. UNCHANGED <<proto, recv, mixed, life>> /\ seq' = seq + 1 /\ out' = Idle
      BY <1>4 DEF SendDatagram, outgoing
    <2>2. icmp' => proto = "udp"
      BY <1>4, Zenon DEF SendDatagram, LinkTypes
    <2> QED
      BY <2>1, <2>2 DEF LinkTypes
  <1>5. CASE SendRefused
    <2>1. UNCHANGED <<proto, seq, recv, mixed>> /\ out' = Idle
          /\ life' = [life EXCEPT !.sender = "gone"]
      BY <1>5 DEF SendRefused
    <2>2. icmp' => proto' = "udp"
      BY <1>5, Zenon DEF SendRefused, LinkTypes
    <2>3. /\ proto' \in {"tcp", "udp", "asio"} /\ seq' \in Nat /\ mixed' \in BOOLEAN
          /\ recv' = [seq |-> recv'.seq, n_dgram |-> recv'.n_dgram] /\ recv'.n_dgram \in Nat
          /\ life' = [sender |-> life'.sender, receiver |-> life'.receiver]
      BY <2>1 DEF LinkTypes
    <2> QED
      <3>1. out' = Idle
        BY <2>1
      <3> QED
        BY <2>2, <2>3, <3>1, Zenon DEF LinkTypes
  <1>6. CASE SendSome
    <2>1. proto = "tcp" /\ out # Idle /\ UNCHANGED <<proto, recv, life, icmp>>
      BY <1>6 DEF SendSome
    <2>2. PICK n \in 1 .. out.len - out.nsend :
              \/ out.nsend + n = out.len /\ outgoing /\ UNCHANGED mixed
              \/ /\ out.nsend + n # out.len /\ out' = [out EXCEPT !.nsend = @ + n] /\ UNCHANGED seq
                 /\ mixed' = (mixed \/ out.nsend + n = 1)
      BY <1>6 DEF SendSome
    <2>3. mixed' \in BOOLEAN
      BY <1>0, <2>2, Zenon
    <2>4. seq' \in Nat
      BY <1>0, <2>2 DEF outgoing
    <2>5. out.len \in Lengths /\ out.len \in Nat /\ out.nsend \in Nat /\ n \in Nat
          /\ out = [len |-> out.len, nsend |-> out.nsend] /\ n <= out.len - out.nsend
      BY <2>1, LengthsAssumption DEF LinkTypes
    <2>6. out' # Idle => out' \in [len : Lengths, nsend : Nat] /\ out'.nsend < out'.len
      BY <2>2, <2>5 DEF outgoing
    <2>7. ~icmp'
      BY <2>1, Zenon DEF LinkTypes
    <2> QED
      BY <2>1, <2>3, <2>4, <2>6, <2>7 DEF LinkTypes
  <1>7. CASE Interrupted
    BY <1>7 DEF Interrupted, LinkTypes
  <1>8. CASE LoseDatagram
    BY <1>8 DEF LoseDatagram, LinkTypes
  <1>9. CASE RepeatDatagram
    BY <1>9 DEF RepeatDatagram, LinkTypes
  <1>10. CASE ReceiveDatagram
    BY <1>10 DEF ReceiveDatagram, LinkTypes, Exit, incoming
  <1>11. CASE RecvHeader
    BY <1>11 DEF RecvHeader, LinkTypes, Exit
  <1>12. CASE RecvRest
    BY <1>12 DEF RecvRest, LinkTypes, incoming
  <1>13. CASE RecvEnd
    BY <1>13 DEF RecvEnd, LinkTypes, Exit
  <1>14. CASE UNCHANGED linkVars
    BY <1>14 DEF linkVars, LinkTypes
  <1> QED
    BY <1>1, <1>2, <1>3, <1>4, <1>5, <1>6, <1>7, <1>8, <1>9, <1>10, <1>11, <1>12, <1>13, <1>14
       DEF LinkNext

\* A message newer than all that came leaves what is told right.
LEMMA IncomingTold ==
    ASSUME Told, recv.n_dgram \in Nat, NEW s \in Nat, \A g \in got : g < s,
           incoming(s), got' = got \union {s}
    PROVE  Told'
  <1> DEFINE n == recv.n_dgram
  <1>1. recv'.seq = s /\ recv'.n_dgram = n + 1
    BY DEF incoming
  <1>2. got' \subseteq Nat /\ IsFiniteSet(got') /\ Cardinality(got') = n + 1
    <2>1. s \notin got
      BY DEF Told
    <2> QED
      BY <2>1, FS_AddElement DEF Told
  <1>3. s \in got' /\ \A g \in got' : g <= s
    BY DEF Told
  <1>4. told'.missing = s + 1 - (n + 1)
    BY <1>1 DEF incoming, print
  <1>5. ASSUME n + 1 > 1
        PROVE  told'.seqv = "lost" <=> s - 1 \notin got'
    <2>0. n > 0
      BY <1>5
    <2>1. recv.seq \in got /\ recv.seq < s /\ \A g \in got : g <= recv.seq
      BY <2>0 DEF Told
    <2>2. recv.seq \in Nat
      BY <2>1 DEF Told
    <2>3. told'.seqv = IF s = recv.seq + 1 THEN "none" ELSE "lost"
      BY <1>1, <2>1, <2>2 DEF incoming, print
    <2>4. CASE s = recv.seq + 1
      BY <2>1, <2>2, <2>3, <2>4
    <2>5. CASE s # recv.seq + 1
      <3>1. s - 1 > recv.seq /\ s - 1 # s
        BY <2>1, <2>2, <2>5
      <3>2. s - 1 \notin got
        BY <2>1, <2>2, <3>1
      <3> QED
        BY <2>3, <2>5, <3>1, <3>2
    <2> QED
      BY <2>4, <2>5
  <1> QED
    BY <1>1, <1>2, <1>3, <1>4, <1>5 DEF Told

\* A sequence without its i-th element.
LEMMA OneLess ==
    ASSUME NEW S, NEW q \in Seq(S), NEW i \in 1 .. Len(q)
    PROVE  LET w == SubSeq(q, 1, i - 1) \o SubSeq(q, i + 1, Len(q))
           IN  /\ w \in Seq(S) /\ Len(w) = Len(q) - 1
               /\ \A j \in 1 .. Len(w) : w[j] = IF j < i THEN q[j] ELSE q[j + 1]
  <1> DEFINE a == SubSeq(q, 1, i - 1)
             b == SubSeq(q, i + 1, Len(q))
  <1>1. /\ a \in Seq(S) /\ Len(a) = i - 1
        /\ \A j \in 1 .. i - 1 : a[j] = q[j]
    OBVIOUS
  <1>2. /\ b \in Seq(S) /\ Len(b) = Len(q) - i
        /\ \A j \in 1 .. Len(q) - i : b[j] = q[j + i]
    OBVIOUS
  <1> HIDE DEF a, b
  <1>3. /\ a \o b \in Seq(S) /\ Len(a \o b) = Len(q) - 1
        /\ \A j \in 1 .. Len(a \o b) : (a \o b)[j] = IF j < i THEN q[j] ELSE q[j + 1]
    <2>1. a \o b \in Seq(S) /\ Len(a \o b) = Len(q) - 1
      <3>1. a \in Seq(S) /\ b \in Seq(S) /\ Len(a) = i - 1 /\ Len(b) = Len(q) - i
        BY <1>1, <1>2
      <3> QED
        BY <3>1
    <2>2. ASSUME NEW j \in 1 .. Len(q) - 1
          PROVE  (a \o b)[j] = IF j < i THEN q[j] ELSE q[j + 1]
      <3>1. CASE j < i
        BY <1>1, <1>2, <3>1
      <3>2. CASE ~(j < i)
        <4>1. (a \o b)[j] = b[j - (i - 1)]
          BY <1>1, <1>2, <3>2
        <4>2. j - (i - 1) \in 1 .. Len(q) - i
          BY <3>2
        <4>3. b[j - (i - 1)] = q[(j - (i - 1)) + i]
          BY <1>2, <4>2
        <4>4. (j - (i - 1)) + i = j + 1
          OBVIOUS
        <4> QED
          BY <3>2, <4>1, <4>3, <4>4
      <3> QED
        BY <3>1, <3>2
    <2> QED
      BY <2>1, <2>2
  <1> QED
    BY <1>3 DEF a, b

\* The numbers on the way and those that came are numbers that were sent.
LEMMA NumbersOnTheWay ==
    ASSUME DatagramsInOrder
    PROVE  /\ \A i \in DOMAIN net : net[i].seq \in Nat
           /\ ~mixed /\ Told /\ seq \in Nat =>
                  /\ \A i \in DOMAIN net : net[i].seq < seq /\ net[i].seq < seq + 1
                  /\ \A g \in got : g \in Nat /\ g < seq /\ g < seq + 1
  <1> DEFINE D == [seq : Nat, short : BOOLEAN]
  <1>1. \A d \in D : d.seq \in Nat
    OBVIOUS
  <1>2. net \in Seq(D)
    BY DEF DatagramsInOrder
  <1> HIDE DEF D
  <1>3. \A i \in DOMAIN net : net[i] \in D
    BY <1>2
  <1>4. \A i \in DOMAIN net : net[i].seq \in Nat
    BY <1>1, <1>3
  <1>5. ASSUME ~mixed, Told, seq \in Nat
        PROVE  /\ \A i \in DOMAIN net : net[i].seq < seq
               /\ \A g \in got : g \in Nat /\ g < seq
    BY <1>5 DEF DatagramsInOrder, Told
  <1> QED
    BY <1>4, <1>5

\* The datagrams on the way without one of them are still in their order.
LEMMA WithoutOne ==
    ASSUME DatagramsInOrder, NEW i \in DOMAIN net, net' = Without(i), seq \in Nat,
           UNCHANGED <<seq, got>>, mixed' \/ ~mixed
    PROVE  DatagramsInOrder'
  <1> DEFINE D == [seq : Nat, short : BOOLEAN]
  <1>1. net \in Seq(D) /\ i \in 1 .. Len(net)
    BY DEF DatagramsInOrder
  <1> HIDE DEF D
  <1>2. /\ net' \in Seq(D) /\ Len(net') = Len(net) - 1
        /\ \A j \in 1 .. Len(net') : net'[j] = IF j < i THEN net[j] ELSE net[j + 1]
    BY <1>1, OneLess DEF Without
  <1>3. ASSUME ~mixed'
        PROVE  /\ \A j \in DOMAIN net' : net'[j].seq < seq
               /\ \A j, k \in DOMAIN net' : j < k => net'[j].seq < net'[k].seq
               /\ \A j \in DOMAIN net' : \A g \in got : g < net'[j].seq
               /\ \A g \in got : g < seq
    <2> DEFINE from(j) == IF j < i THEN j ELSE j + 1
    <2>1. \A j \in DOMAIN net' : from(j) \in DOMAIN net /\ net'[j] = net[from(j)]
      BY <1>1, <1>2
    <2>2. \A j, k \in DOMAIN net' : j < k => from(j) < from(k)
      BY <1>1, <1>2
    <2> HIDE DEF from
    <2>3. ~mixed
      BY <1>3
    <2> QED
      BY <2>1, <2>2, <2>3 DEF DatagramsInOrder
  <1> QED
    BY <1>2, <1>3 DEF DatagramsInOrder, D

LEMMA NextDatagrams ==
    ASSUME LinkTypes, DatagramsInOrder, ~mixed => Told, [LinkNext]_linkVars, proto # "tcp"
    PROVE  DatagramsInOrder' /\ (~mixed' => Told')
  <1>0. seq \in Nat /\ mixed \in BOOLEAN /\ recv.n_dgram \in Nat
    BY DEF LinkTypes
  <1>1. ASSUME UNCHANGED <<seq, net, recv, told, got, mixed>>
        PROVE  DatagramsInOrder' /\ (~mixed' => Told')
    <2>1. DatagramsInOrder'
      BY <1>1 DEF DatagramsInOrder
    <2>2. Told => Told'
      BY <1>1 DEF Told
    <2> QED
      BY <1>1, <2>1, <2>2, Zenon
  <1>2. ASSUME UNCHANGED <<recv, told, got>>, mixed' = mixed \/ mixed'
        PROVE  ~mixed' => Told'
    <2>1. Told => Told'
      BY <1>2 DEF Told
    <2> QED
      BY <1>2, <2>1, Zenon
  <1>3. CASE SendDatagram
    <2>1. UNCHANGED <<recv, told, got, mixed>> /\ seq' = seq + 1
      BY <1>3 DEF SendDatagram, outgoing
    <2>2. DatagramsInOrder'
      <3>1. CASE UNCHANGED net
        <4>1. net \in Seq([seq : Nat, short : BOOLEAN])
          BY DEF DatagramsInOrder
        <4>2. ASSUME ~mixed
              PROVE  /\ \A i \in DOMAIN net : net[i].seq < seq + 1
                     /\ \A g \in got : g < seq + 1
          <5>1. ~mixed => Told
            OBVIOUS
          <5> QED
            BY <1>0, <4>2, <5>1, NumbersOnTheWay
        <4> QED
          BY <2>1, <3>1, <4>2 DEF DatagramsInOrder
      <3>2. CASE \E short \in BOOLEAN : net' = Append(net, [seq |-> seq, short |-> short])
        <4>1. PICK short \in BOOLEAN : net' = Append(net, [seq |-> seq, short |-> short])
          BY <3>2
        <4> DEFINE d == [seq |-> seq, short |-> short]
        <4>2. d \in [seq : Nat, short : BOOLEAN] /\ d.seq = seq
          BY <1>0
        <4> HIDE DEF d
        <4>3. net' = Append(net, d)
          BY <4>1 DEF d
        <4> QED
          <5>1. net \in Seq([seq : Nat, short : BOOLEAN])
            BY DEF DatagramsInOrder
          <5>2. net' \in Seq([seq : Nat, short : BOOLEAN])
            BY <4>2, <4>3, <5>1
          <5>3. /\ \A i \in DOMAIN net' : (i \in DOMAIN net /\ net'[i] = net[i]) \/ net'[i] = d
                /\ \A i, j \in DOMAIN net' : i < j => i \in DOMAIN net
            BY <4>2, <4>3, <5>1
          <5>4. ASSUME ~mixed
                PROVE  /\ \A i \in DOMAIN net' : net'[i].seq < seq + 1
                       /\ \A i, j \in DOMAIN net' : i < j => net'[i].seq < net'[j].seq
                       /\ \A i \in DOMAIN net' : \A g \in got : g < net'[i].seq
                       /\ \A g \in got : g < seq + 1
            <6>1. /\ \A i \in DOMAIN net : net[i].seq < seq /\ net[i].seq \in Nat
                  /\ \A g \in got : g < seq /\ g \in Nat
              BY <1>0, <5>4, NumbersOnTheWay
            <6>2. /\ \A i, j \in DOMAIN net : i < j => net[i].seq < net[j].seq
                  /\ \A i \in DOMAIN net : \A g \in got : g < net[i].seq
              BY <5>4 DEF DatagramsInOrder
            <6>3. \A i, j \in DOMAIN net' : i < j => net'[i].seq < net'[j].seq
              BY <1>0, <4>2, <4>3, <5>1, <6>1, <6>2
            <6> QED
              BY <1>0, <4>2, <5>3, <6>1, <6>2, <6>3
          <5> QED
            BY <2>1, <5>2, <5>4 DEF DatagramsInOrder
      <3> QED
        BY <1>3, <3>1, <3>2 DEF SendDatagram
    <2> QED
      BY <1>2, <2>1, <2>2
  <1>4. CASE LoseDatagram
    <2>1. UNCHANGED <<seq, recv, told, got, mixed>> /\ \E i \in DOMAIN net : net' = Without(i)
      BY <1>4 DEF LoseDatagram
    <2>2. PICK i \in DOMAIN net : net' = Without(i)
      BY <2>1
    <2>3. mixed' \/ ~mixed
      BY <2>1, Zenon
    <2>4. DatagramsInOrder'
      BY <1>0, <2>1, <2>2, <2>3, WithoutOne
    <2> QED
      BY <1>2, <2>1, <2>4
  <1>5. CASE RepeatDatagram
    <2>1. mixed' /\ UNCHANGED <<seq, recv, told, got>>
      BY <1>5 DEF RepeatDatagram
    <2>2. net' \in Seq([seq : Nat, short : BOOLEAN])
      <3> DEFINE D == [seq : Nat, short : BOOLEAN]
      <3>1. net \in Seq(D)
        BY DEF DatagramsInOrder
      <3> HIDE DEF D
      <3>2. \E i \in DOMAIN net : net' = Append(net, net[i])
        BY <1>5 DEF RepeatDatagram
      <3>3. net' \in Seq(D)
        BY <3>1, <3>2
      <3> QED
        BY <3>3 DEF D
    <2> QED
      BY <2>1, <2>2 DEF DatagramsInOrder
  <1>6. CASE ReceiveDatagram
    <2>1. PICK i \in DOMAIN net :
              /\ net' = Without(i)
              /\ mixed' = (mixed \/ i > 1)
              /\ \/ Exit
                 \/ incoming(net[i].seq) /\ got' = got \union {net[i].seq}
      BY <1>6 DEF ReceiveDatagram
    <2>2. UNCHANGED seq
      BY <1>6 DEF ReceiveDatagram
    <2>3. ~mixed' => ~mixed /\ ~(i > 1)
      BY <2>1, Zenon
    <2>4. CASE Exit
      <3>1. UNCHANGED <<recv, told, got>>
        BY <2>4 DEF Exit
      <3>2. DatagramsInOrder'
        BY <1>0, <2>1, <2>2, <2>3, <3>1, WithoutOne
      <3>3. Told => Told'
        BY <3>1 DEF Told
      <3> QED
        BY <2>3, <3>2, <3>3, Zenon
    <2>5. CASE incoming(net[i].seq) /\ got' = got \union {net[i].seq}
      <3> DEFINE D == [seq : Nat, short : BOOLEAN]
                 s == net[i].seq
      <3>0. net \in Seq(D)
        BY DEF DatagramsInOrder
      <3>1. net \in Seq(D) /\ i \in 1 .. Len(net) /\ s \in Nat
        BY <3>0, NumbersOnTheWay
      <3>2. /\ net' \in Seq(D) /\ Len(net') = Len(net) - 1
            /\ \A j \in 1 .. Len(net') : net'[j] = IF j < i THEN net[j] ELSE net[j + 1]
        BY <2>1, <3>1, OneLess DEF Without
      <3> HIDE DEF D
      <3>3. ASSUME ~mixed'
            PROVE  Told' /\ \A g \in got : g < s
        <4>1. \A g \in got : g < s
          BY <2>3, <3>1, <3>3 DEF DatagramsInOrder
        <4>2. Told
          BY <2>3, <3>3
        <4> HIDE DEF s
        <4>3. incoming(s) /\ got' = got \union {s}
          BY <2>5 DEF s
        <4> QED
          BY <1>0, <3>1, <4>1, <4>2, <4>3, IncomingTold
      <3>4. ASSUME ~mixed'
            PROVE  /\ \A j \in DOMAIN net' : net'[j].seq < seq
                   /\ \A j, k \in DOMAIN net' : j < k => net'[j].seq < net'[k].seq
                   /\ \A j \in DOMAIN net' : \A g \in got' : g < net'[j].seq
                   /\ \A g \in got' : g < seq
        <4>1. i = 1 /\ ~mixed
          BY <2>3, <3>1, <3>4
        <4>2. /\ \A j \in DOMAIN net : net[j].seq < seq
              /\ \A j, k \in DOMAIN net : j < k => net[j].seq < net[k].seq
              /\ \A j \in DOMAIN net : \A g \in got : g < net[j].seq
              /\ \A g \in got : g < seq
          BY <4>1 DEF DatagramsInOrder
        <4>3. \A j \in DOMAIN net' : j + 1 \in DOMAIN net /\ net'[j] = net[j + 1] /\ j + 1 > 1
          BY <3>1, <3>2, <4>1
        <4>4. \A g \in got' : g \in got \/ g = net[1].seq
          BY <2>5, <4>1
        <4>5. \A j, k \in DOMAIN net' : j \in Nat /\ k \in Nat
          BY <3>1, <3>2
        <4> QED
          BY <3>1, <4>1, <4>2, <4>3, <4>4, <4>5
      <3> QED
        BY <2>2, <3>2, <3>3, <3>4 DEF DatagramsInOrder, D
    <2> QED
      BY <2>1, <2>4, <2>5
  <1>7. \/ UNCHANGED <<seq, net, recv, told, got, mixed>>
        \/ SendDatagram \/ LoseDatagram \/ RepeatDatagram \/ ReceiveDatagram
    BY DEF LinkNext, linkVars, StartReceiver, StartSender, do_send, SendRefused, SendSome,
           Interrupted, RecvHeader, RecvRest, RecvEnd
  <1> QED
    BY <1>1, <1>3, <1>4, <1>5, <1>6, <1>7

\* As long as the stream stays as it is, so does where the messages are in it.
LEMMA StreamStays ==
    ASSUME StreamInStep, UNCHANGED <<seq, net, recv, reading, got, mixed, out>>,
           life'.receiver = "gone" => life'.sender = "gone",
           life'.sender # "gone" => life.sender # "gone"
    PROVE  StreamInStep'
  <1>1. PICK start : Laid(start)
    BY DEF StreamInStep
  <1>2. Laid(start)'
    <2>1. ~mixed' <=> ~mixed
      BY Zenon
    <2>2. Headed(start, recv.n_dgram, seq, net, ~mixed)'
      BY <1>1, <2>1, Zenon DEF Laid, Headed
    <2>3. SentSoFar(start, seq, Len(net), out, life.sender = "gone")'
      BY <1>1 DEF Laid, SentSoFar
    <2>4. Spaced(start, recv.n_dgram, seq)' /\ ReadSoFar(start, recv.n_dgram, reading)'
      BY <1>1 DEF Laid
    <2> QED
      BY <2>2, <2>3, <2>4 DEF Laid
  <1>3. \E s : Laid(s)'
    BY <1>2
  <1> QED
    BY <1>3 DEF StreamInStep

LEMMA SenderStarts ==
    ASSUME LinkTypes, StreamInStep, proto = "tcp", NEW len \in Lengths, do_send(len)
    PROVE  StreamInStep'
  <1>1. PICK start : Laid(start)
    BY DEF StreamInStep
  <1> DEFINE n == recv.n_dgram
             next == [m \in n .. seq + 1 |-> IF m = seq + 1 THEN start[seq] + len ELSE start[m]]
             o == [len |-> len, nsend |-> 0]
  <1>2. /\ n \in Nat /\ seq \in Nat /\ n <= seq /\ len \in Nat /\ len > Header
        /\ out = Idle /\ life.sender # "gone"
        /\ out' = o /\ UNCHANGED <<seq, net, recv, reading, got, mixed, life>>
    BY LengthsAssumption DEF LinkTypes, StreamInStep, do_send, Runs
  <1>3. /\ start \in [n .. seq + 1 -> Int]
        /\ \A k, m \in n .. seq + 1 : k < m => start[k] + Header < start[m]
        /\ Len(net) = start[seq] /\ Len(net) \in Nat
    BY <1>1, <1>2 DEF Laid, Spaced, SentSoFar, StreamInStep
  <1>4. /\ next \in [n .. seq + 1 -> Int] /\ next[seq + 1] = start[seq] + len
        /\ \A m \in n .. seq : next[m] = start[m]
    BY <1>2, <1>3
  <1>0. /\ seq \in n .. seq /\ seq \in n .. seq + 1 /\ seq + 1 \in n .. seq + 1
        /\ \A m \in n .. seq + 1 : start[m] \in Int /\ next[m] \in Int /\ m \in Nat
        /\ \A m \in n .. seq + 1 : m = seq + 1 \/ (m \in n .. seq /\ (m = seq \/ m < seq))
    <2>1. seq \in n .. seq /\ seq \in n .. seq + 1 /\ seq + 1 \in n .. seq + 1
      BY <1>2
    <2>2. ASSUME NEW m \in n .. seq + 1
          PROVE  m \in Nat /\ (m = seq + 1 \/ (m \in n .. seq /\ (m = seq \/ m < seq)))
      BY <1>2
    <2>3. ASSUME NEW m \in n .. seq + 1
          PROVE  start[m] \in Int /\ next[m] \in Int
      BY <1>3, <1>4
    <2> QED
      BY <2>1, <2>2, <2>3
  <1> HIDE DEF next
  <1>5. Spaced(next, n, seq)
    <2>1. ASSUME NEW k \in n .. seq + 1, NEW m \in n .. seq + 1, k < m
          PROVE  next[k] + Header < next[m]
      <3>1. k \in n .. seq /\ k \in Nat /\ m \in Nat
        BY <1>2, <2>1
      <3>2. CASE m = seq + 1
        <4>1. k = seq \/ start[k] + Header < start[seq]
          BY <1>0, <1>3, <3>1
        <4>2. next[k] = start[k] /\ start[k] \in Int /\ start[seq] \in Int
          BY <1>0, <1>4, <3>1
        <4> QED
          BY <1>2, <1>4, <3>2, <4>1, <4>2 DEF Header
      <3>3. CASE m # seq + 1
        <4>1. m \in n .. seq
          BY <1>2, <3>3
        <4> QED
          BY <1>3, <1>4, <2>1, <3>1, <4>1
      <3> QED
        BY <3>2, <3>3
    <2> QED
      BY <1>4, <2>1 DEF Spaced
  <1>6. Headed(next, n, seq, net, ~mixed)
    <2>1. ASSUME NEW m \in n .. seq
          PROVE  next[m] < Len(net) \/ next[m] + 1 < Len(net) =>
                     m + 1 \in n .. seq /\ next[m + 1] = start[m + 1] /\ next[m] = start[m]
      BY <1>0, <1>2, <1>3, <1>4
    <2>2. Headed(start, n, seq, net, ~mixed)
      BY <1>1 DEF Laid
    <2> HIDE DEF n
    <2> QED
      BY <2>1, <2>2 DEF Headed
  <1>7. SentSoFar(next, seq, Len(net), o, life.sender = "gone")
    <2>1. next[seq] = start[seq] /\ next[seq + 1] - next[seq] = len /\ start[seq] \in Int
      BY <1>0, <1>2, <1>4
    <2>2. o # Idle /\ o.len = len /\ o.nsend = 0
      BY <1>2 DEF Idle, Header
    <2> HIDE DEF o
    <2> QED
      BY <1>2, <1>3, <1>4, <2>1, <2>2 DEF SentSoFar, Header
  <1>8. ReadSoFar(next, n, reading)
    <2>1. ReadSoFar(start, n, reading) /\ next[n] = start[n] /\ start[n] \in Int
      BY <1>0, <1>1, <1>2, <1>4 DEF Laid
    <2>2. ASSUME reading # NoHeader
          PROVE  next[n + 1] = start[n + 1]
      <3>1. reading.nread \in Nat /\ reading.nread > 0
        BY <2>2 DEF StreamInStep, Header
      <3>2. start[n] < 0
        BY <2>1, <3>1 DEF ReadSoFar
      <3>3. n # seq
        BY <1>3, <3>2
      <3> QED
        BY <1>2, <1>4, <3>3
    <2> QED
      BY <2>1, <2>2 DEF ReadSoFar
  <1>9. \E s : Laid(s)'
    <2> HIDE DEF o, n
    <2>1. recv'.n_dgram = n /\ (~mixed)' = ~mixed /\ (life.sender = "gone")' = (life.sender = "gone")
      BY <1>2 DEF n
    <2> QED
      BY <1>2, <1>5, <1>6, <1>7, <1>8, <2>1 DEF Laid
  <1>10. out'.nsend = 0
    BY <1>2
  <1> QED
    BY <1>2, <1>9, <1>10 DEF StreamInStep

LEMMA SenderSends ==
    ASSUME LinkTypes, StreamInStep, SendSome
    PROVE  StreamInStep'
  <1> DEFINE n == recv.n_dgram
             l == Len(net)
             gone == life.sender = "gone"
  <1>1. PICK start : Laid(start)
    BY DEF StreamInStep
  <1>2. PICK k \in 1 .. out.len - out.nsend :
            /\ net' = net \o [i \in 1 .. k |-> Data(4 * out.nsend + i - 1)]
            /\ IF out.nsend + k = out.len
               THEN outgoing /\ UNCHANGED mixed
               ELSE /\ out' = [out EXCEPT !.nsend = @ + k] /\ UNCHANGED seq
                    /\ mixed' = (mixed \/ out.nsend + k = 1)
    BY DEF SendSome
  <1> DEFINE len == out.len
             b == out.nsend
  <1>3. /\ n \in Nat /\ seq \in Nat /\ n <= seq
        /\ len \in Nat /\ b \in Nat /\ len > Header /\ out = [len |-> len, nsend |-> b]
        /\ b < len /\ k \in Nat /\ k >= 1 /\ b + k <= len
    <2>1. out \in [len : Lengths, nsend : Nat] /\ b < len
      BY DEF SendSome, LinkTypes
    <2>2. len \in Nat /\ b \in Nat /\ len > Header /\ out = [len |-> len, nsend |-> b]
      BY <2>1, LengthsAssumption
    <2> QED
      BY <2>1, <2>2 DEF LinkTypes, StreamInStep
  <1>4. UNCHANGED <<recv, reading, got, life>> /\ ~gone /\ out # Idle
    BY DEF SendSome, LinkTypes
  <1>5. /\ start \in [n .. seq + 1 -> Int]
        /\ \A j, m \in n .. seq + 1 : j < m => start[j] + Header < start[m]
        /\ len = start[seq + 1] - start[seq] /\ b = l - start[seq] /\ l \in Nat
    <2>1. len = start[seq + 1] - start[seq] /\ b = l - start[seq]
      BY <1>1, <1>4 DEF Laid, SentSoFar
    <2> QED
      BY <1>1, <2>1 DEF Laid, Spaced, StreamInStep
  <1>6. /\ net' \in Seq(Unit) /\ Len(net') = l + k
        /\ \A p \in 1 .. l : net'[p] = net[p]
        /\ b = 0 => net'[l + 1] = <<"length", len>> /\ (k > 1 => net'[l + 2] = <<"number", seq>>)
    <2> DEFINE w == [i \in 1 .. k |-> Data(4 * b + i - 1)]
    <2>1. w \in Seq(Unit) /\ Len(w) = k
      <3>1. \A i \in 1 .. k : Data(4 * b + i - 1) \in Unit
        BY <1>3 DEF Data, Unit
      <3> QED
        BY <1>3, <3>1, SMTT(30)
    <2>2. b = 0 => w[1] = <<"length", len>> /\ (k > 1 => w[2] = <<"number", seq>>)
      BY <1>3 DEF Data
    <2>3. net' = net \o w /\ net \in Seq(Unit)
      BY <1>2 DEF StreamInStep
    <2> HIDE DEF w
    <2>4. net' \in Seq(Unit) /\ Len(net') = l + k /\ \A p \in 1 .. l : net'[p] = net[p]
      BY <1>3, <2>1, <2>3
    <2>5. net'[l + 1] = w[1] /\ (k > 1 => net'[l + 2] = w[2])
      BY <1>3, <2>1, <2>3
    <2> QED
      BY <2>2, <2>4, <2>5
  <1> HIDE DEF b, len, l, gone, n
  <1>13. /\ \A m \in n .. seq + 1 : start[m] \in Int /\ m \in Int
         /\ seq \in n .. seq + 1 /\ seq + 1 \in n .. seq + 1 /\ start[seq] \in Int /\ start[seq + 1] \in Int
         /\ \A m \in n .. seq : m \in n .. seq + 1 /\ m + 1 \in n .. seq + 1 /\ (m = seq \/ m < seq)
         /\ b + start[seq] = l /\ len + start[seq] = start[seq + 1]
         /\ \A m \in n .. seq + 1 : m < seq => start[m] + Header < start[seq]
    <2>1. /\ seq \in n .. seq + 1 /\ seq + 1 \in n .. seq + 1
          /\ \A m \in n .. seq : m \in n .. seq + 1 /\ m + 1 \in n .. seq + 1 /\ (m = seq \/ m < seq)
      BY <1>3
    <2>2. \A m \in n .. seq + 1 : start[m] \in Int /\ m \in Int
      BY <1>3, <1>5
    <2>3. b + start[seq] = l /\ len + start[seq] = start[seq + 1]
      <3>1. /\ len = start[seq + 1] - start[seq] /\ b = l - start[seq]
            /\ start[seq] \in Int /\ start[seq + 1] \in Int /\ l \in Nat
        BY <1>5, <2>1, <2>2
      <3> DEFINE x == start[seq]
                 y == start[seq + 1]
      <3>2. len = y - x /\ b = l - x /\ x \in Int /\ y \in Int /\ l \in Nat
        BY <3>1
      <3> HIDE DEF x, y
      <3>3. b + x = l /\ len + x = y
        BY <3>2
      <3> QED
        BY <3>3 DEF x, y
    <2>4. \A m \in n .. seq + 1 : m < seq => start[m] + Header < start[seq]
      BY <1>5, <2>1
    <2> QED
      BY <2>1, <2>2, <2>3, <2>4
  <1>7. ~mixed' => ~mixed
    BY <1>2, Zenon
  <1>8. ASSUME NEW s, Headed(s, n, seq, net, ~mixed), \A m \in n .. seq + 1 : s[m] = start[m]
        PROVE  Headed(s, n, seq, net', ~mixed')
    <2>1. ASSUME NEW m \in n .. seq, 0 <= s[m], s[m] < l + k
          PROVE  net'[s[m] + 1] = <<"length", s[m + 1] - s[m]>>
      <3>0. m \in n .. seq + 1 /\ m + 1 \in n .. seq + 1 /\ seq \in n .. seq + 1
            /\ s[m] = start[m] /\ s[m + 1] = start[m + 1] /\ s[m] \in Int
        BY <1>8, <1>13
      <3>1. CASE s[m] < l
        <4>1. net'[s[m] + 1] = net[s[m] + 1]
          <5>1. s[m] + 1 \in 1 .. l
            BY <1>5, <2>1, <3>0, <3>1
          <5> QED
            BY <1>6, <5>1
        <4> QED
          BY <1>8, <2>1, <3>1, <4>1 DEF Headed, l
      <3>2. CASE ~(s[m] < l)
        <4>1. m = seq /\ b = 0 /\ s[m] = l
          <5>1. m = seq
            BY <1>3, <1>13, <3>0, <3>2 DEF Header
          <5> DEFINE x == start[seq]
          <5>2. b + x = l /\ x \in Int /\ s[m] = x /\ ~(s[m] < l)
            BY <1>13, <3>0, <3>2, <5>1
          <5> HIDE DEF x
          <5> QED
            BY <1>3, <1>5, <5>1, <5>2, SMTT(30)
        <4> QED
          BY <1>5, <1>6, <3>0, <4>1
      <3> QED
        BY <3>1, <3>2
    <2>2. ASSUME NEW m \in n .. seq, 0 <= s[m], s[m] + 1 < l + k, ~mixed'
          PROVE  net'[s[m] + 2] = <<"number", m>>
      <3>0. m \in n .. seq + 1 /\ seq \in n .. seq + 1 /\ s[m] = start[m] /\ s[m] \in Int
        BY <1>8, <1>13
      <3>1. CASE s[m] + 1 < l
        <4>1. net'[s[m] + 2] = net[s[m] + 2]
          BY <1>5, <1>6, <2>2, <3>0, <3>1, SMTT(30)
        <4>2. ~mixed
          BY <1>7, <2>2
        <4> QED
          BY <1>8, <2>2, <3>1, <4>1, <4>2 DEF Headed, l
      <3>2. CASE ~(s[m] + 1 < l)
        <4>1. b # 1
          <5>1. out.nsend = 1 => mixed
            BY DEF StreamInStep
          <5> QED
            BY <1>7, <2>2, <5>1, Zenon DEF b
        <4>2. m = seq /\ b = 0 /\ s[m] = l /\ k > 1
          <5>1. m = seq
            BY <1>3, <1>13, <3>0, <3>2 DEF Header
          <5> DEFINE x == start[seq]
          <5>2. b + x = l /\ x \in Int /\ s[m] = x /\ ~(s[m] + 1 < l) /\ s[m] + 1 < l + k
            BY <1>13, <2>2, <3>0, <3>2, <5>1
          <5> HIDE DEF x
          <5> QED
            BY <1>3, <4>1, <5>1, <5>2
        <4> QED
          BY <1>6, <4>2
      <3> QED
        BY <3>1, <3>2
    <2> QED
      BY <1>6, <2>1, <2>2 DEF Headed
  <1>9. Headed(start, n, seq, net, ~mixed) /\ ReadSoFar(start, n, reading)
    BY <1>1 DEF Laid, n
  <1>10. recv'.n_dgram = n /\ (life'.sender = "gone") = gone
    BY <1>4 DEF n, gone
  <1>11. CASE b + k = len
    <2> DEFINE next == [m \in n .. seq + 2 |->
                           IF m = seq + 2 THEN start[seq + 1] + Header + 1 ELSE start[m]]
    <2>1. /\ seq' = seq + 1 /\ out' = Idle /\ mixed' = mixed
      BY <1>2, <1>11 DEF outgoing, b, len
    <2>2. /\ next \in [n .. seq + 2 -> Int] /\ next[seq + 2] = start[seq + 1] + Header + 1
          /\ \A m \in n .. seq + 1 : next[m] = start[m] /\ start[m] \in Int
      <3>1. start[seq + 1] + Header + 1 \in Int
        BY <1>13 DEF Header
      <3>2. \A m \in n .. seq + 2 : m # seq + 2 => m \in n .. seq + 1
        BY <1>3
      <3>3. next \in [n .. seq + 2 -> Int]
        BY <1>13, <3>1, <3>2
      <3>4. seq + 2 \in n .. seq + 2 /\ \A m \in n .. seq + 1 : m \in n .. seq + 2 /\ m # seq + 2
        BY <1>3
      <3> QED
        BY <1>13, <3>3, <3>4
    <2>3. seq + 1 \in n .. seq + 1 /\ seq \in n .. seq + 1 /\ n \in n .. seq /\ n + 1 \in n .. seq + 1
          /\ \A m \in n .. seq + 2 : m = seq + 2 \/ (m \in n .. seq + 1 /\ (m = seq + 1 \/ m < seq + 1))
      BY <1>3
    <2> HIDE DEF next
    <2>4. Spaced(next, n, seq + 1)
      <3>1. ASSUME NEW j \in n .. seq + 2, NEW m \in n .. seq + 2, j < m
            PROVE  next[j] + Header < next[m]
        <4>1. j \in n .. seq + 1 /\ j \in Nat /\ m \in Nat
          BY <1>3, <3>1
        <4>2. CASE m = seq + 2
          <5>1. j = seq + 1 \/ start[j] + Header < start[seq + 1]
            BY <1>5, <2>3, <4>1, SMTT(30)
          <5> QED
            BY <2>2, <2>3, <4>1, <4>2, <5>1, SMTT(30) DEF Header
        <4>3. CASE m # seq + 2
          BY <1>5, <2>2, <2>3, <3>1, <4>1, <4>3
        <4> QED
          BY <4>2, <4>3
      <3>2. (seq + 1) + 1 = seq + 2
        BY <1>3
      <3> QED
        <4> HIDE DEF n
        <4> QED
          BY <2>2, <3>1, <3>2 DEF Spaced
    <2>5. l + k = next[seq + 1] /\ l + k \in Int
      <3> DEFINE x == start[seq]
                 y == start[seq + 1]
      <3>1. b + x = l /\ len + x = y /\ x \in Int /\ next[seq + 1] = y
        BY <1>13, <2>2, <2>3
      <3> HIDE DEF x, y
      <3> QED
        BY <1>3, <1>11, <3>1
    <2>6. Headed(next, n, seq + 1, net', ~mixed')
      <3>1. Headed(next, n, seq, net, ~mixed)
        <4>1. \A m \in n .. seq : m \in n .. seq + 1 /\ m + 1 \in n .. seq + 1
          BY <1>3
        <4> QED
          BY <1>9, <2>2, <4>1 DEF Headed
      <3>2. Headed(next, n, seq, net', ~mixed')
        BY <1>8, <2>2, <3>1
      <3>3. \A m \in n .. seq + 1 : m \in n .. seq \/ m = seq + 1
        BY <1>3
      <3>4. ~(next[seq + 1] < Len(net')) /\ ~(next[seq + 1] + 1 < Len(net'))
        BY <1>6, <2>5
      <3> QED
        BY <3>2, <3>3, <3>4 DEF Headed
    <2>7. SentSoFar(next, seq + 1, Len(net'), Idle, gone)
      <3>1. (seq + 1) + 1 = seq + 2
        BY <1>3
      <3>2. l + k < next[seq + 2] /\ l + k <= next[seq + 1]
        BY <2>2, <2>3, <2>5 DEF Header
      <3> QED
        BY <1>6, <2>5, <3>1, <3>2 DEF SentSoFar
    <2>8. ReadSoFar(next, n, reading)
      BY <1>9, <2>2, <2>3 DEF ReadSoFar
    <2>9. \E s : Laid(s)'
      BY <1>4, <1>10, <2>1, <2>4, <2>6, <2>7, <2>8 DEF Laid
    <2>10. n <= seq + 1 /\ Idle.nsend # 1
      BY <1>3 DEF Idle
    <2> QED
      BY <1>4, <1>6, <1>10, <2>1, <2>9, <2>10 DEF StreamInStep, n
  <1>12. CASE b + k # len
    <2> DEFINE o == [len |-> len, nsend |-> b + k]
    <2>1. seq' = seq /\ out' = o /\ mixed' = (mixed \/ b + k = 1)
      BY <1>2, <1>3, <1>12 DEF b, len
    <2>2. Headed(start, n, seq, net', ~mixed')
      BY <1>8, <1>9
    <2>3. o # Idle /\ o.len = len /\ o.nsend = b + k
      BY <1>3 DEF Idle, Header
    <2> HIDE DEF o
    <2>4. SentSoFar(start, seq, Len(net'), o, gone)
      <3> DEFINE x == start[seq]
                 y == start[seq + 1]
                 e == Len(net')
      <3>1. b + x = l /\ len + x = y /\ x \in Int /\ e = l + k /\ o.len = len /\ o.nsend = b + k
        BY <1>6, <1>13, <2>3
      <3> HIDE DEF x, y, e
      <3>2. x <= e /\ e < y /\ o.len = y - x /\ o.nsend = e - x
        BY <1>3, <1>12, <3>1
      <3> QED
        BY <2>3, <3>2, Zenon DEF SentSoFar, x, y, e
    <2>5. Spaced(start, n, seq)
      BY <1>1 DEF Laid, n
    <2>6. \E s : Laid(s)'
      BY <1>4, <1>9, <1>10, <2>1, <2>2, <2>4, <2>5 DEF Laid
    <2>7. out'.nsend = 1 => mixed'
      BY <2>1, <2>3, Zenon
    <2> QED
      BY <1>4, <1>6, <1>7, <1>10, <2>1, <2>6, <2>7 DEF StreamInStep, n
  <1> QED
    BY <1>11, <1>12

\* Taking j units from the way moves all messages that are left by j.
LEMMA UnitsTaken ==
    ASSUME NEW start, NEW n \in Nat, NEW s \in Nat, NEW first \in n .. s,
           NEW w \in Seq(Unit), NEW j \in 1 .. Len(w), NEW numbered, NEW o, NEW gone,
           Spaced(start, n, s), Headed(start, n, s, w, numbered),
           SentSoFar(start, s, Len(w), o, gone)
    PROVE  LET next == [m \in first .. s + 1 |-> start[m] - j]
               rest == SubSeq(w, j + 1, Len(w))
           IN  /\ Spaced(next, first, s) /\ Headed(next, first, s, rest, numbered)
               /\ SentSoFar(next, s, Len(rest), o, gone)
               /\ rest \in Seq(Unit)
  <1> DEFINE next == [m \in first .. s + 1 |-> start[m] - j]
             rest == SubSeq(w, j + 1, Len(w))
             l == Len(w)
  <1>1. /\ rest \in Seq(Unit) /\ Len(rest) = l - j
        /\ \A p \in 1 .. l - j : rest[p] = w[p + j]
    OBVIOUS
  <1>2. /\ \A m \in first .. s + 1 : m \in n .. s + 1 /\ start[m] \in Int /\ next[m] = start[m] - j
        /\ next \in [first .. s + 1 -> Int]
        /\ \A m \in first .. s : m \in n .. s /\ m \in first .. s + 1 /\ m + 1 \in first .. s + 1
    <2>1. /\ \A m \in first .. s + 1 : m \in n .. s + 1
          /\ \A m \in first .. s : m \in n .. s /\ m \in first .. s + 1 /\ m + 1 \in first .. s + 1
      OBVIOUS
    <2>2. \A m \in first .. s + 1 : start[m] \in Int
      BY <2>1 DEF Spaced
    <2> QED
      BY <2>1, <2>2
  <1>3. /\ first \in Int /\ s \in first .. s /\ s \in first .. s + 1 /\ s + 1 \in first .. s + 1
        /\ l \in Nat /\ j \in Nat /\ j >= 1 /\ j <= l
    OBVIOUS
  <1> HIDE DEF next, rest, l
  <1>4. Spaced(next, first, s)
    <2>1. ASSUME NEW k \in first .. s + 1, NEW m \in first .. s + 1, k < m
          PROVE  next[k] + Header < next[m]
      <3>1. start[k] + Header < start[m]
        BY <1>2, <2>1 DEF Spaced
      <3> DEFINE x == start[k]
                 y == start[m]
      <3>2. x + Header < y /\ x \in Int /\ y \in Int /\ next[k] = x - j /\ next[m] = y - j
        BY <1>2, <3>1
      <3> HIDE DEF x, y
      <3> QED
        BY <1>3, <3>2 DEF Header
    <2> QED
      BY <1>2, <2>1 DEF Spaced
  <1>5. Headed(next, first, s, rest, numbered)
    <2>1. ASSUME NEW m \in first .. s, 0 <= next[m], next[m] < Len(rest)
          PROVE  rest[next[m] + 1] = <<"length", next[m + 1] - next[m]>>
      <3> DEFINE x == start[m]
                 y == start[m + 1]
      <3>1. next[m] = x - j /\ next[m + 1] = y - j /\ x \in Int /\ y \in Int
        BY <1>2
      <3>2. 0 <= x /\ x < l => w[x + 1] = <<"length", y - x>>
        BY <1>2 DEF Headed, l
      <3> HIDE DEF x, y
      <3>3. 0 <= x /\ x < l /\ (x - j) + 1 \in 1 .. l - j /\ ((x - j) + 1) + j = x + 1
            /\ (y - j) - (x - j) = y - x
        BY <1>1, <1>3, <2>1, <3>1
      <3>4. rest[(x - j) + 1] = w[x + 1]
        BY <1>1, <3>3
      <3> QED
        BY <3>1, <3>2, <3>3, <3>4
    <2>2. ASSUME NEW m \in first .. s, numbered, 0 <= next[m], next[m] + 1 < Len(rest)
          PROVE  rest[next[m] + 2] = <<"number", m>>
      <3> DEFINE x == start[m]
      <3>1. next[m] = x - j /\ x \in Int
        BY <1>2
      <3>2. 0 <= x /\ x + 1 < l => w[x + 2] = <<"number", m>>
        BY <1>2, <2>2 DEF Headed, l
      <3> HIDE DEF x
      <3>3. 0 <= x /\ x + 1 < l /\ (x - j) + 2 \in 1 .. l - j /\ ((x - j) + 2) + j = x + 2
        BY <1>1, <1>3, <2>2, <3>1
      <3>4. rest[(x - j) + 2] = w[x + 2]
        BY <1>1, <3>3
      <3> QED
        BY <3>1, <3>2, <3>3, <3>4
    <2> QED
      BY <2>1, <2>2 DEF Headed
  <1>6. SentSoFar(next, s, Len(rest), o, gone)
    <2> DEFINE x == start[s]
               y == start[s + 1]
               u == next[s]
               v == next[s + 1]
               e == Len(rest)
    <2>1. /\ x <= l /\ l < y
          /\ o # Idle => o.len = y - x /\ o.nsend = l - x
          /\ o = Idle /\ ~gone => l = x
      BY Zenon DEF SentSoFar, l
    <2>2. u = x - j /\ v = y - j /\ x \in Int /\ y \in Int /\ e = l - j
      BY <1>1, <1>2, <1>3
    <2> HIDE DEF x, y, u, v, e
    <2>3. u <= e /\ e < v /\ v - u = y - x /\ e - u = l - x /\ (l = x => e = u)
      BY <1>3, <2>1, <2>2
    <2> QED
      BY <2>1, <2>3, Zenon DEF SentSoFar, u, v, e
  <1> QED
    BY <1>1, <1>4, <1>5, <1>6 DEF next, rest

\* What both receiving steps have in common: message n of the stream is the one that is
\* read or comes next.
LEMMA StreamParts ==
    ASSUME LinkTypes, StreamInStep, NEW start, Laid(start)
    PROVE  /\ recv.n_dgram \in Nat /\ seq \in Nat /\ recv.n_dgram \in recv.n_dgram .. seq
           /\ net \in Seq(Unit) /\ Len(net) \in Nat
           /\ Spaced(start, recv.n_dgram, seq)
           /\ Headed(start, recv.n_dgram, seq, net, ~mixed)
           /\ SentSoFar(start, seq, Len(net), out, life.sender = "gone")
           /\ ReadSoFar(start, recv.n_dgram, reading)
           /\ \A m \in recv.n_dgram .. seq + 1 : start[m] \in Int
           /\ start[recv.n_dgram] + Header < start[recv.n_dgram + 1]
  <1>1. recv.n_dgram \in Nat /\ seq \in Nat /\ recv.n_dgram <= seq /\ net \in Seq(Unit)
    BY DEF LinkTypes, StreamInStep
  <1>2. Spaced(start, recv.n_dgram, seq)
    BY DEF Laid
  <1>3. \A m \in recv.n_dgram .. seq + 1 : start[m] \in Int
    BY <1>1, <1>2 DEF Spaced
  <1>4. start[recv.n_dgram] + Header < start[recv.n_dgram + 1]
    <2>1. /\ recv.n_dgram \in recv.n_dgram .. seq + 1 /\ recv.n_dgram + 1 \in recv.n_dgram .. seq + 1
          /\ recv.n_dgram < recv.n_dgram + 1
      BY <1>1
    <2> QED
      BY <1>2, <2>1 DEF Spaced
  <1> QED
    BY <1>1, <1>2, <1>3, <1>4 DEF Laid

LEMMA HeaderReceived ==
    ASSUME LinkTypes, StreamInStep, RecvHeader
    PROVE  StreamInStep' /\ UNCHANGED <<recv, told, got, mixed>>
  <1> DEFINE n == recv.n_dgram
             l == Len(net)
             gone == life.sender = "gone"
  <1>1. PICK start : Laid(start)
    BY DEF StreamInStep
  <1>2. /\ n \in Nat /\ seq \in Nat /\ n \in n .. seq /\ net \in Seq(Unit) /\ l \in Nat
        /\ Spaced(start, n, seq) /\ Headed(start, n, seq, net, ~mixed)
        /\ SentSoFar(start, seq, l, out, gone) /\ ReadSoFar(start, n, reading)
        /\ \A m \in n .. seq + 1 : start[m] \in Int
        /\ start[n] + Header < start[n + 1]
    BY <1>1, StreamParts
  <1>3. reading = NoHeader /\ l >= Header /\ net' = SubSeq(net, Header + 1, Len(net))
        /\ UNCHANGED <<proto, seq, out, mixed>>
    BY DEF RecvHeader
  <1> DEFINE y == start[n + 1]
             next == [m \in n .. seq + 1 |-> start[m] - 2]
  <1>4. start[n] = 0 /\ Header < y /\ y \in Int
    <2>1. start[n] = 0
      BY <1>2, <1>3 DEF ReadSoFar, NoHeader
    <2>2. n + 1 \in n .. seq + 1
      BY <1>2
    <2>3. y \in Int
      BY <1>2, <2>2
    <2> QED
      BY <1>2, <2>1, <2>3 DEF Header
  <1>5. net[1] = <<"length", y>> /\ (~mixed => net[2] = <<"number", n>>)
    <2>1. /\ 0 <= start[n] /\ start[n] < l => net[start[n] + 1] = <<"length", y - start[n]>>
          /\ ~mixed /\ 0 <= start[n] /\ start[n] + 1 < l => net[start[n] + 2] = <<"number", n>>
      BY <1>2 DEF Headed
    <2>2. y - 0 = y
      BY <1>4
    <2> QED
      BY <1>2, <1>3, <1>4, <2>1, <2>2 DEF Header
  <1>6. PICK len \in {y}, s \in IF net[2][1] = "number" THEN {net[2][2]} ELSE 0 .. MaxSeq :
            IF len <= Header
            THEN Exit /\ UNCHANGED reading
            ELSE /\ reading' = [lenv |-> len, nread |-> Header, seq |-> s]
                 /\ UNCHANGED <<life, recv, told, got>>
    BY <1>5 DEF RecvHeader
  <1>7. /\ reading' = [lenv |-> y, nread |-> 2, seq |-> s] /\ UNCHANGED <<life, recv, told, got>>
    BY <1>4, <1>6 DEF Header
  <1>8. ~mixed => s = n
    <2>1. ASSUME ~mixed
          PROVE  s = n
      <3>1. net[2][1] = "number" /\ net[2][2] = n
        BY <1>5, <2>1
      <3> QED
        BY <1>6, <3>1
    <2> QED
      BY <2>1
  <1>9. /\ next \in [n .. seq + 1 -> Int] /\ next[n] = 0 - 2 /\ next[n + 1] = y - 2
    BY <1>2, <1>4
  <1>10. /\ Spaced(next, n, seq) /\ Headed(next, n, seq, net', ~mixed)
         /\ SentSoFar(next, seq, Len(net'), out, gone) /\ net' \in Seq(Unit)
    <2>1. 2 \in 1 .. Len(net) /\ net' = SubSeq(net, 2 + 1, Len(net))
      BY <1>2, <1>3 DEF Header
    <2> HIDE DEF n, gone
    <2> QED
      BY <1>2, <2>1, UnitsTaken DEF l
  <1>11. ReadSoFar(next, n, reading') /\ reading' # NoHeader
    <2>1. y = (y - 2) - (0 - 2)
      BY <1>4
    <2> HIDE DEF next, y
    <2> QED
      BY <1>4, <1>7, <1>9, <2>1 DEF ReadSoFar, NoHeader
  <1> HIDE DEF next
  <1>12. \E t : Laid(t)'
    BY <1>3, <1>7, <1>10, <1>11 DEF Laid
  <1>13. reading'.lenv \in Nat /\ reading'.nread \in Header .. reading'.lenv - 1 /\ reading'.seq = s
         /\ reading' = [lenv |-> reading'.lenv, nread |-> reading'.nread, seq |-> reading'.seq]
    BY <1>4, <1>7 DEF Header
  <1>14. ~mixed' => ~mixed
    BY <1>3, Zenon
  <1> QED
    BY <1>3, <1>7, <1>8, <1>10, <1>12, <1>13, <1>14 DEF StreamInStep, n

LEMMA RestReceived ==
    ASSUME LinkTypes, StreamInStep, ~mixed => Told, RecvRest
    PROVE  StreamInStep' /\ (~mixed' => Told')
  <1> DEFINE n == recv.n_dgram
             l == Len(net)
             gone == life.sender = "gone"
             q == reading.nread
  <1>1. PICK start : Laid(start)
    BY DEF StreamInStep
  <1> DEFINE y == start[n + 1]
  <1>2. /\ n \in Nat /\ seq \in Nat /\ n \in n .. seq /\ net \in Seq(Unit) /\ l \in Nat
        /\ Spaced(start, n, seq) /\ Headed(start, n, seq, net, ~mixed)
        /\ SentSoFar(start, seq, l, out, gone) /\ ReadSoFar(start, n, reading)
        /\ \A m \in n .. seq + 1 : start[m] \in Int
        /\ start[n] + Header < start[n + 1]
    BY <1>1, StreamParts
  <1>3. /\ proto = "tcp" /\ reading # NoHeader /\ UNCHANGED <<proto, seq, out, mixed, life>>
        /\ \E j \in 1 .. Wanted(reading) :
               /\ j <= Len(net) /\ net' = SubSeq(net, j + 1, Len(net))
               /\ IF j = Wanted(reading)
                  THEN /\ incoming(reading.seq) /\ got' = got \union {reading.seq}
                       /\ reading' = NoHeader
                  ELSE /\ reading' = [reading EXCEPT !.nread = @ + j]
                       /\ UNCHANGED <<recv, told, got>>
    BY DEF RecvRest
  <1>4. /\ reading = [lenv |-> reading.lenv, nread |-> q, seq |-> reading.seq]
        /\ reading.lenv \in Nat /\ q \in Header .. reading.lenv - 1
    BY <1>3 DEF StreamInStep
  <1> DEFINE z == reading.lenv
             len == z - q
  <1>5. /\ z \in Nat /\ q \in Nat /\ q >= Header /\ len \in Nat /\ len >= 1 /\ q + len = z
        /\ Wanted(reading) = len
    BY <1>4 DEF Wanted, Header
  <1>6. PICK j \in 1 .. len :
            /\ j <= l /\ net' = SubSeq(net, j + 1, Len(net))
            /\ IF j = len
               THEN /\ incoming(reading.seq) /\ got' = got \union {reading.seq}
                    /\ reading' = NoHeader
               ELSE /\ reading' = [reading EXCEPT !.nread = @ + j]
                    /\ UNCHANGED <<recv, told, got>>
    BY <1>3, <1>5
  <1>7. start[n] = 0 - q /\ y = len /\ start[n + 1] = len
    <2>1. start[n] = 0 - q /\ z = y - start[n]
      BY <1>2, <1>3 DEF ReadSoFar
    <2>2. y \in Int
      <3>1. n + 1 \in n .. seq + 1
        BY <1>2
      <3> QED
        BY <1>2, <3>1
    <2> HIDE DEF y
    <2>3. y = len
      BY <1>5, <2>1, <2>2
    <2> QED
      BY <2>1, <2>3 DEF y
  <1>8. j \in Nat /\ j >= 1 /\ j <= len /\ j \in 1 .. Len(net)
    BY <1>2, <1>5, <1>6
  <1>13. net' = SubSeq(net, j + 1, Len(net))
    BY <1>6
  <1>9. ~mixed' => ~mixed
    BY <1>3, Zenon
  <1>10. ~mixed => /\ reading.seq = n /\ got = 0 .. n - 1
                   /\ n > 0 => recv.seq = n - 1
    BY <1>3 DEF StreamInStep
  <1>11. CASE j # len
    <2> DEFINE next == [m \in n .. seq + 1 |-> start[m] - j]
               r == [lenv |-> z, nread |-> q + j, seq |-> reading.seq]
    <2>1. reading' = r /\ UNCHANGED <<recv, told, got>>
      BY <1>4, <1>6, <1>11
    <2>2. /\ Spaced(next, n, seq) /\ Headed(next, n, seq, net', ~mixed)
          /\ SentSoFar(next, seq, Len(net'), out, gone) /\ net' \in Seq(Unit)
      <3> HIDE DEF n, gone
      <3> QED
        BY <1>2, <1>8, <1>13, UnitsTaken DEF l
    <2>3. next[n] = (0 - q) - j /\ next[n + 1] = len - j
      BY <1>2, <1>7
    <2>4. r # NoHeader /\ r.lenv = z /\ r.nread = q + j /\ r.seq = reading.seq
          /\ r.nread \in Header .. r.lenv - 1
      BY <1>5, <1>8, <1>11 DEF NoHeader, Header
    <2> HIDE DEF next, r
    <2>5. ReadSoFar(next, n, r)
      <3>1. (0 - q) - j = 0 - (q + j) /\ z = (len - j) - ((0 - q) - j)
        BY <1>5, <1>8
      <3> QED
        BY <2>3, <2>4, <3>1 DEF ReadSoFar
    <2>6. \E t : Laid(t)'
      BY <1>3, <2>1, <2>2, <2>5 DEF Laid
    <2>7. StreamInStep'
      <3>1. r = [lenv |-> r.lenv, nread |-> r.nread, seq |-> r.seq] /\ r.lenv \in Nat
        BY <1>5 DEF r
      <3> QED
        BY <1>3, <1>9, <1>10, <2>1, <2>2, <2>4, <2>6, <3>1 DEF StreamInStep, n
    <2>8. Told => Told'
      BY <2>1 DEF Told
    <2> QED
      BY <1>9, <2>7, <2>8, Zenon
  <1>12. CASE j = len
    <2> DEFINE next == [m \in n + 1 .. seq + 1 |-> start[m] - j]
    <2>1. incoming(reading.seq) /\ got' = got \union {reading.seq} /\ reading' = NoHeader
      BY <1>6, <1>12
    <2>2. n + 1 \in n .. seq
      <3>1. ASSUME n = seq
            PROVE  FALSE
        <4>1. l < start[n + 1]
          BY <1>2, <3>1 DEF SentSoFar
        <4> QED
          BY <1>2, <1>6, <1>7, <1>12, <4>1
      <3> QED
        BY <1>2, <3>1
    <2>3. /\ Spaced(next, n + 1, seq) /\ Headed(next, n + 1, seq, net', ~mixed)
          /\ SentSoFar(next, seq, Len(net'), out, gone) /\ net' \in Seq(Unit)
      <3> DEFINE first == n + 1
      <3>1. first \in n .. seq
        BY <2>2
      <3> HIDE DEF first, n, gone
      <3>2. LET t == [m \in first .. seq + 1 |-> start[m] - j]
            IN  /\ Spaced(t, first, seq) /\ Headed(t, first, seq, net', ~mixed)
                /\ SentSoFar(t, seq, Len(net'), out, gone) /\ net' \in Seq(Unit)
        BY <1>2, <1>8, <1>13, <3>1, UnitsTaken DEF l
      <3> QED
        BY <3>2 DEF first
    <2>4. next[n + 1] = 0
      BY <1>2, <1>5, <1>7, <1>12, <2>2
    <2> HIDE DEF next
    <2>5. ReadSoFar(next, n + 1, NoHeader)
      BY <2>4 DEF ReadSoFar, NoHeader
    <2>6. recv'.n_dgram = n + 1 /\ recv'.seq = reading.seq
      BY <2>1 DEF incoming
    <2>7. \E t : Laid(t)'
      BY <1>3, <2>1, <2>3, <2>5, <2>6 DEF Laid
    <2>8. ASSUME ~mixed
          PROVE  got' = 0 .. (n + 1) - 1 /\ reading.seq = (n + 1) - 1 /\ \A g \in got : g < n
      BY <1>2, <1>10, <2>1, <2>8
    <2>9. StreamInStep'
      <3>1. n + 1 <= seq
        BY <1>2, <2>2
      <3>2. ~mixed' => /\ got' = 0 .. recv'.n_dgram - 1
                       /\ recv'.n_dgram > 0 => recv'.seq = recv'.n_dgram - 1
        BY <1>9, <2>6, <2>8
      <3>3. out'.nsend = 1 => mixed'
        BY <1>3, Zenon DEF StreamInStep
      <3>4. life'.receiver = "gone" => life'.sender = "gone"
        BY <1>3 DEF StreamInStep
      <3> QED
        BY <1>3, <2>1, <2>3, <2>6, <2>7, <3>1, <3>2, <3>3, <3>4 DEF StreamInStep
    <2>10. ASSUME ~mixed'
           PROVE  Told'
      <3>1. reading.seq = n /\ Told /\ \A g \in got : g < n
        BY <1>9, <1>10, <2>8, <2>10
      <3>2. recv.n_dgram \in Nat /\ incoming(n) /\ got' = got \union {n}
        BY <1>2, <2>1, <3>1
      <3> HIDE DEF n
      <3> QED
        BY <1>2, <3>1, <3>2, IncomingTold
    <2> QED
      BY <2>9, <2>10
  <1> QED
    BY <1>11, <1>12

LEMMA NextStream ==
    ASSUME LinkTypes, StreamInStep, ~mixed => Told, [LinkNext]_linkVars, proto = "tcp"
    PROVE  StreamInStep' /\ (~mixed' => Told')
  <1>1. ASSUME UNCHANGED <<recv, told, got>>, ~mixed' => ~mixed
        PROVE  ~mixed' => Told'
    <2>1. Told => Told'
      BY <1>1 DEF Told
    <2> QED
      BY <1>1, <2>1, Zenon
  <1>2. CASE UNCHANGED <<seq, net, recv, reading, got, mixed, out, told, life>>
    <2>1. life'.receiver = "gone" => life'.sender = "gone"
      BY <1>2 DEF StreamInStep
    <2>2. life'.sender # "gone" => life.sender # "gone"
      BY <1>2
    <2>3. StreamInStep'
      BY <1>2, <2>1, <2>2, StreamStays
    <2>4. ~mixed' => ~mixed
      BY <1>2, Zenon
    <2> QED
      BY <1>1, <1>2, <2>3, <2>4
  <1>3. CASE StartReceiver \/ StartSender
    <2>1. UNCHANGED <<seq, net, recv, reading, got, mixed, out, told>>
      BY <1>3 DEF StartReceiver, StartSender
    <2>2. /\ life'.receiver = "gone" => life'.sender = "gone"
          /\ life'.sender # "gone" => life.sender # "gone"
      <3>1. life = [sender |-> life.sender, receiver |-> life.receiver]
            /\ (life.receiver = "gone" => life.sender = "gone")
        BY DEF LinkTypes, StreamInStep
      <3>2. CASE StartReceiver
        BY <3>1, <3>2 DEF StartReceiver
      <3>3. CASE StartSender
        BY <3>1, <3>3 DEF StartSender
      <3> QED
        BY <1>3, <3>2, <3>3
    <2>3. StreamInStep'
      BY <2>1, <2>2, StreamStays
    <2>4. ~mixed' => ~mixed
      BY <2>1, Zenon
    <2> QED
      BY <1>1, <2>1, <2>3, <2>4
  <1>4. CASE \E len \in Lengths : do_send(len)
    <2>1. PICK len \in Lengths : do_send(len)
      BY <1>4
    <2>2. StreamInStep'
      BY <2>1, SenderStarts
    <2>3. UNCHANGED <<recv, told, got, mixed>>
      BY <2>1 DEF do_send
    <2>4. ~mixed' => ~mixed
      BY <2>3, Zenon
    <2> QED
      BY <1>1, <2>2, <2>3, <2>4
  <1>5. CASE SendSome
    <2>1. UNCHANGED <<recv, told, got>>
      BY <1>5 DEF SendSome
    <2>2. PICK k : \/ UNCHANGED mixed
                   \/ mixed' = (mixed \/ out.nsend + k = 1)
      BY <1>5 DEF SendSome
    <2>3. ~mixed' => ~mixed
      BY <2>2, Zenon
    <2> QED
      BY <1>1, <1>5, <2>1, <2>3, SenderSends
  <1>6. CASE Interrupted
    <2>1. UNCHANGED <<seq, net, recv, reading, got, mixed, told>> /\ out' = Idle
          /\ life' = [life EXCEPT !.sender = "gone"]
      BY <1>6 DEF Interrupted
    <2>2. life'.sender = "gone" /\ out'.nsend = 0
      BY <2>1 DEF LinkTypes, Idle
    <2>3. PICK start : Laid(start)
      BY DEF StreamInStep
    <2>4. SentSoFar(start, seq, Len(net), Idle, TRUE)
      BY <2>3 DEF Laid, SentSoFar
    <2>5. (life'.sender = "gone") = TRUE
      BY <2>2
    <2>6. \E t : Laid(t)'
      BY <2>1, <2>3, <2>4, <2>5 DEF Laid
    <2>7. ~mixed' => ~mixed
      BY <2>1, Zenon
    <2>8. StreamInStep'
      BY <2>1, <2>2, <2>6, <2>7 DEF StreamInStep
    <2> QED
      BY <1>1, <2>1, <2>7, <2>8
  <1>7. CASE RecvHeader
    <2>1. StreamInStep' /\ UNCHANGED <<recv, told, got, mixed>>
      BY <1>7, HeaderReceived
    <2>2. ~mixed' => ~mixed
      BY <2>1, Zenon
    <2> QED
      BY <1>1, <2>1, <2>2
  <1>8. CASE RecvRest
    BY <1>8, RestReceived
  <1>9. CASE RecvEnd
    <2>1. UNCHANGED <<seq, net, recv, reading, got, mixed, out, told>>
          /\ life' = [life EXCEPT !.receiver = "gone"] /\ life.sender = "gone"
      BY <1>9 DEF RecvEnd, Exit
    <2>2. life'.sender = "gone"
      BY <2>1 DEF LinkTypes
    <2>3. StreamInStep'
      BY <2>1, <2>2, StreamStays
    <2>4. ~mixed' => ~mixed
      BY <2>1, Zenon
    <2> QED
      BY <1>1, <2>1, <2>3, <2>4
  <1>10. ~SendRefused
    BY DEF SendRefused, LinkTypes
  <1>11. ~SendDatagram /\ ~LoseDatagram /\ ~RepeatDatagram /\ ~ReceiveDatagram
    BY DEF SendDatagram, LoseDatagram, RepeatDatagram, ReceiveDatagram
  <1>12. UNCHANGED linkVars => UNCHANGED <<seq, net, recv, reading, got, mixed, out, told, life>>
    BY DEF linkVars
  <1> QED
    BY <1>2, <1>3, <1>4, <1>5, <1>6, <1>7, <1>8, <1>9, <1>10, <1>11, <1>12 DEF LinkNext

LEMMA NextLinkInv == LinkInv /\ [LinkNext]_linkVars => LinkInv'
  <1> SUFFICES ASSUME LinkInv, [LinkNext]_linkVars
               PROVE  LinkInv'
    OBVIOUS
  <1>1. LinkTypes /\ LinkTypes'
    BY NextLinkTypes DEF LinkInv
  <1>2. proto' = proto
    BY DEF LinkNext, linkVars, StartReceiver, StartSender, do_send, SendDatagram, SendRefused,
           SendSome, Interrupted, LoseDatagram, RepeatDatagram, ReceiveDatagram, RecvHeader,
           RecvRest, RecvEnd
  <1>3. CASE proto = "tcp"
    <2>1. StreamInStep' /\ (~mixed' => Told')
      BY <1>1, <1>3, NextStream DEF LinkInv
    <2> QED
      BY <1>1, <1>2, <1>3, <2>1, Zenon DEF LinkInv
  <1>4. CASE proto # "tcp"
    <2>1. DatagramsInOrder' /\ (~mixed' => Told')
      BY <1>1, <1>4, NextDatagrams DEF LinkInv
    <2> QED
      BY <1>1, <1>2, <1>4, <2>1, Zenon DEF LinkInv
  <1> QED
    BY <1>3, <1>4

\* What is told right is the number of messages that are missing.
LEMMA ToldLosses ==
    ASSUME LinkTypes, Told, recv.n_dgram > 0
    PROVE  told.missing = Cardinality((0 .. recv.seq) \ got)
  <1> DEFINE all == 0 .. recv.seq
             s == recv.seq
  <1>1. /\ s \in Nat /\ IsFiniteSet(got) /\ Cardinality(got) = recv.n_dgram
        /\ \A g \in got : g \in Nat /\ g <= s
        /\ told.missing = s + 1 - recv.n_dgram
    BY DEF Told
  <1>2. IsFiniteSet(all) /\ Cardinality(all) = s + 1
    <2>1. 0 \in Int /\ s \in Int /\ ~(0 > s) /\ s - 0 + 1 = s + 1
      BY <1>1
    <2> QED
      BY <2>1, FS_Interval
  <1>3. got \subseteq all /\ all \intersect got = got
    BY <1>1
  <1> HIDE DEF all, s
  <1>4. Cardinality(all \ got) = Cardinality(all) - Cardinality(all \intersect got)
    BY <1>2, FS_Difference
  <1>5. Cardinality(all \ got) = s + 1 - recv.n_dgram
    <2>1. Cardinality(all \intersect got) = recv.n_dgram
      BY <1>1, <1>3
    <2> DEFINE b == Cardinality(all \ got)
               c == Cardinality(all)
               d == Cardinality(all \intersect got)
    <2>2. b = c - d /\ c = s + 1 /\ d = recv.n_dgram
      BY <1>2, <1>4, <2>1
    <2> HIDE DEF b, c, d
    <2>3. b = s + 1 - recv.n_dgram
      <3>1. s \in Nat /\ recv.n_dgram \in Nat
        BY <1>1 DEF LinkTypes
      <3> QED
        BY <2>2, <3>1
    <2> QED
      BY <2>3 DEF b
  <1>6. told.missing = Cardinality(all \ got)
    BY <1>1, <1>5
  <1> QED
    BY <1>6 DEF all

\* For any number of messages of any lengths, however often sends are cut short and
\* datagrams lost: what the receiver says of the numbers (udp-io.cpp, udp-io2.cpp,
\* recv_st::print) is true as long as nothing came twice or late, and the TCP receiver never
\* gets out of step with the messages.
THEOREM ReportsAreTrue == LinkSpec => []ReportsRight
  <1>1. LinkInv => ReportsRight
    <2> SUFFICES ASSUME LinkInv
                 PROVE  ReportsRight
      OBVIOUS
    <2>1. LinkTypes
      BY DEF LinkInv
    <2>2. LossTold
      <3> SUFFICES ASSUME recv.n_dgram > 0, ~mixed
                   PROVE  /\ told.missing = Cardinality((0 .. recv.seq) \ got)
                          /\ recv.n_dgram > 1 => (told.seqv = "lost" <=> recv.seq - 1 \notin got)
        BY DEF LossTold
      <3>1. Told
        BY DEF LinkInv
      <3> QED
        BY <2>1, <3>1, ToldLosses DEF Told
    <2>3. InStep
      <3> SUFFICES ASSUME proto = "tcp"
                   PROVE  InStep
        BY DEF InStep
      <3>1. StreamInStep
        BY DEF LinkInv
      <3>2. PICK start : Laid(start)
        BY <3>1 DEF StreamInStep
      <3>3. ASSUME reading = NoHeader, net # <<>>
            PROVE  net[1][1] = "length"
        <4>1. /\ recv.n_dgram \in Nat /\ seq \in Nat /\ recv.n_dgram \in recv.n_dgram .. seq
              /\ net \in Seq(Unit) /\ Headed(start, recv.n_dgram, seq, net, ~mixed)
              /\ ReadSoFar(start, recv.n_dgram, reading)
          BY <2>1, <3>1, <3>2, StreamParts
        <4>2. start[recv.n_dgram] = 0
          BY <3>3, <4>1 DEF ReadSoFar, NoHeader
        <4>3. 0 < Len(net)
          BY <3>3, <4>1
        <4>4. net[0 + 1] = <<"length", start[recv.n_dgram + 1] - start[recv.n_dgram]>>
          BY <4>1, <4>2, <4>3 DEF Headed
        <4> QED
          BY <4>4
      <3> QED
        BY <3>1, <3>3 DEF InStep, StreamInStep
    <2> QED
      BY <2>2, <2>3 DEF ReportsRight
  <1> QED
    BY <1>1, InitLinkInv, NextLinkInv, PTL DEF LinkSpec

-----------------------------------------------------------------------------
(* The supervisor                                                          *)

\* The types that matter.
SupervisorTypes ==
    /\ files \subseteq Programs
    /\ DOMAIN procs \subseteq Programs /\ procs \in [DOMAIN procs -> Pids \union {NoPid}]
    /\ table \in [Pids -> Programs \union {Free, Stranger}]
    /\ ended \subseteq Pids
    /\ \A i \in ended : table[i] \in Programs
    /\ at = "crash" => reaped \in DOMAIN procs

\* The process of an entry is its program's, except that of the one whose end waitpid has
\* just reported: its pid is free, or a stranger's by now, until stop() forgets it.
EntriesTrue ==
    \A p \in DOMAIN procs : procs[p] # NoPid =>
        IF at = "crash" /\ p = reaped THEN table[procs[p]] \notin Programs
                                      ELSE table[procs[p]] = p

SupervisorInv == SupervisorTypes /\ EntriesTrue /\ Accounted /\ RemovalKillsOwn

SupervisorSpec == SupervisorInit /\ [][SupervisorNext]_supervisorVars

LEMMA InitSupervisorInv == SupervisorInit => SupervisorInv
  BY ProgramsAssumption DEF SupervisorInit, SupervisorInv, SupervisorTypes, EntriesTrue, Accounted,
     RemovalKillsOwn, Free

\* Programs are started with pids that nobody has, each with one of its own.
LEMMA PidsOfTheStarted ==
    ASSUME SupervisorTypes, NEW ps \in SUBSET Programs, NEW new \in Spawns(ps)
    PROVE  /\ new \in [ps -> Pids \union {NoPid}]
           /\ \A p \in ps : new[p] # NoPid =>
                  new[p] \in Pids /\ table[new[p]] = Free /\ Started(table, new)[new[p]] = p
           /\ \A i \in Pids : (\A p \in ps : new[p] # i) => Started(table, new)[i] = table[i]
           /\ \A i \in Pids : table[i] # Free => Started(table, new)[i] = table[i]
           /\ \A i \in Pids : \/ Started(table, new)[i] = table[i]
                              \/ \E p \in ps : new[p] = i /\ Started(table, new)[i] = p
           /\ Started(table, new) \in [Pids -> Programs \union {Free, Stranger}]
  <1>1. /\ new \in [ps -> Pids \union {NoPid}] /\ DOMAIN new = ps
        /\ \A p \in ps : new[p] # NoPid => new[p] \in Pids /\ table[new[p]] = Free
        /\ \A p, q \in ps : p # q /\ new[p] # NoPid => new[p] # new[q]
    BY DEF Spawns
  <1>2. \A i \in Pids : i # NoPid
    BY PidsAssumption
  <1>3. ASSUME NEW p \in ps, new[p] # NoPid
        PROVE  Started(table, new)[new[p]] = p
    <2>1. new[p] \in Pids /\ \A q \in ps : new[q] = new[p] => q = p
      BY <1>1, <1>3
    <2>2. (CHOOSE q \in DOMAIN new : new[q] = new[p]) = p
      BY <1>1, <2>1
    <2> QED
      BY <1>1, <2>1, <2>2 DEF Started
  <1>4. ASSUME NEW i \in Pids, \A p \in ps : new[p] # i
        PROVE  Started(table, new)[i] = table[i]
    BY <1>1, <1>4 DEF Started
  <1>5. ASSUME NEW i \in Pids, table[i] # Free
        PROVE  Started(table, new)[i] = table[i]
    BY <1>1, <1>2, <1>4, <1>5
  <1>6. ASSUME NEW i \in Pids
        PROVE  \/ Started(table, new)[i] = table[i]
               \/ \E p \in ps : new[p] = i /\ Started(table, new)[i] = p
    BY <1>2, <1>3, <1>4
  <1>7. Started(table, new) \in [Pids -> Programs \union {Free, Stranger}]
    <2>1. \A i \in Pids : Started(table, new)[i] \in Programs \union {Free, Stranger}
      BY <1>6 DEF SupervisorTypes
    <2>2. Started(table, new) = [i \in Pids |-> Started(table, new)[i]]
      BY DEF Started
    <2> QED
      BY <2>1, <2>2
  <1> QED
    BY <1>1, <1>3, <1>4, <1>5, <1>6, <1>7

LEMMA CheckInv ==
    ASSUME SupervisorInv, check_procs
    PROVE  SupervisorInv'
  <1> DEFINE kept == DOMAIN procs \intersect walk
             gone == {procs[p] : p \in DOMAIN procs \ walk}
             fresh == walk \ kept
  <1>1. PICK new \in Spawns(fresh) :
            /\ procs' = [p \in walk |-> IF p \in kept THEN procs[p] ELSE new[p]]
            /\ table' = [i \in Pids |-> IF i \in Slain(gone) THEN Free ELSE Started(table, new)[i]]
    BY DEF check_procs
  <1>2. /\ at = "check" /\ at' = "wait" /\ files' = files
        /\ ended' = ended \union Killed(gone)
        /\ slain' = IF Slain(gone) # {} THEN slain \union {"check"} ELSE slain
    BY DEF check_procs
  <1>3. /\ SupervisorTypes /\ fresh \in SUBSET Programs
        /\ \A p \in DOMAIN procs : procs[p] # NoPid => procs[p] \in Pids /\ table[procs[p]] = p
    BY <1>2 DEF SupervisorInv, SupervisorTypes, EntriesTrue, walk
  <1>4. /\ new \in [fresh -> Pids \union {NoPid}]
        /\ \A p \in fresh : new[p] # NoPid =>
               new[p] \in Pids /\ table[new[p]] = Free /\ Started(table, new)[new[p]] = p
        /\ \A i \in Pids : table[i] # Free => Started(table, new)[i] = table[i]
        /\ \A i \in Pids : \/ Started(table, new)[i] = table[i]
                           \/ \E p \in fresh : new[p] = i /\ Started(table, new)[i] = p
        /\ Started(table, new) \in [Pids -> Programs \union {Free, Stranger}]
    BY <1>3, PidsOfTheStarted
  <1>5. Slain(gone) = {} /\ Free \notin Programs /\ Stranger \notin Programs
    BY <1>3, ProgramsAssumption DEF Slain, SupervisorTypes
  <1>6. table' = Started(table, new) /\ slain' = slain
    <2>1. Started(table, new) = [i \in Pids |-> Started(table, new)[i]]
      BY <1>4
    <2> QED
      BY <1>1, <1>2, <1>5, <2>1
  <1>7. /\ DOMAIN procs' = walk /\ walk \subseteq Programs
        /\ \A p \in walk : procs'[p] = IF p \in kept THEN procs[p] ELSE new[p]
        /\ \A p \in walk : p \in fresh \/ (p \in kept /\ p \in DOMAIN procs)
    BY <1>1, <1>3 DEF walk, SupervisorTypes
  <1>8. Killed(gone) \subseteq Pids /\ \A i \in Killed(gone) : table[i] \in Programs
    BY <1>3 DEF Killed
  <1> HIDE DEF fresh
  <1>9. \A p \in walk : procs'[p] # NoPid => procs'[p] \in Pids /\ table'[procs'[p]] = p
    BY <1>3, <1>4, <1>5, <1>6, <1>7 DEF fresh, SupervisorTypes
  <1>10. SupervisorTypes'
    <2>1. procs' \in [DOMAIN procs' -> Pids \union {NoPid}]
      <3>1. \A p \in walk : procs'[p] \in Pids \union {NoPid}
        BY <1>9
      <3>2. procs' = [p \in walk |-> procs'[p]]
        BY <1>1, <1>7
      <3> QED
        BY <1>7, <3>1, <3>2
    <2>2. ended' \subseteq Pids /\ \A i \in ended' : table'[i] \in Programs
      <3>1. \A i \in ended : i \in Pids /\ table[i] \in Programs
        BY <1>3 DEF SupervisorTypes
      <3> QED
        BY <1>2, <1>4, <1>5, <1>6, <1>8, <3>1
    <2> QED
      BY <1>2, <1>4, <1>6, <1>7, <2>1, <2>2 DEF SupervisorTypes, walk
  <1>11. EntriesTrue'
    BY <1>2, <1>7, <1>9 DEF EntriesTrue
  <1>12. Accounted'
    <2> SUFFICES ASSUME NEW i \in Pids, i \notin ended', table'[i] \in Programs
                 PROVE  table'[i] \in DOMAIN procs' /\ procs'[table'[i]] = i
      BY DEF Accounted
    <2>1. CASE \E p \in fresh : new[p] = i /\ Started(table, new)[i] = p
      BY <1>6, <1>7, <2>1 DEF fresh
    <2>2. CASE Started(table, new)[i] = table[i]
      <3>1. table'[i] = table[i] /\ i \notin ended /\ i \notin Killed(gone)
        BY <1>2, <1>6, <2>2
      <3>2. table[i] \in DOMAIN procs /\ procs[table[i]] = i
        BY <3>1 DEF SupervisorInv, Accounted
      <3>3. table[i] \in walk
        BY <3>1, <3>2, PidsAssumption DEF Killed
      <3> QED
        BY <1>7, <3>1, <3>2, <3>3
    <2> QED
      BY <1>4, <2>1, <2>2
  <1> QED
    BY <1>6, <1>10, <1>11, <1>12 DEF SupervisorInv, RemovalKillsOwn

LEMMA WaitInv ==
    ASSUME SupervisorInv, Wait
    PROVE  SupervisorInv'
  <1>1. at = "wait" /\ UNCHANGED <<files, procs, slain>>
    BY DEF Wait
  <1>2. CASE ended = {}
    <2>1. at' = "sleep" /\ UNCHANGED <<table, ended>>
      BY <1>2 DEF Wait
    <2> QED
      BY <1>1, <2>1 DEF SupervisorInv, SupervisorTypes, EntriesTrue, Accounted, RemovalKillsOwn
  <1>3. CASE ended # {}
    <2> DEFINE of(i) == {p \in DOMAIN procs : procs[p] = i}
    <2>1. PICK i \in ended :
              /\ ended' = ended \ {i} /\ table' = [table EXCEPT ![i] = Free]
              /\ IF of(i) = {} THEN at' = "sleep" /\ UNCHANGED reaped
                 ELSE at' = "crash" /\ reaped' = CHOOSE p \in of(i) : TRUE
      BY <1>3 DEF Wait
    <2>2. /\ SupervisorTypes /\ i \in Pids /\ i # NoPid /\ Free \notin Programs
          /\ \A p \in DOMAIN procs : procs[p] # NoPid => procs[p] \in Pids /\ table[procs[p]] = p
      BY <1>1, PidsAssumption, ProgramsAssumption DEF SupervisorInv, SupervisorTypes, EntriesTrue
    <2>3. /\ table'[i] = Free /\ \A j \in Pids : j # i => table'[j] = table[j]
          /\ table' \in [Pids -> Programs \union {Free, Stranger}]
      BY <2>1, <2>2 DEF SupervisorTypes
    <2>4. at' = "crash" => reaped' \in of(i)
      BY <2>1
    <2>5. at' = "crash" \/ of(i) = {}
      BY <2>1
    <2>6. at' = "crash" => reaped' \in DOMAIN procs /\ procs[reaped'] = i
      BY <2>4
    <2>7. SupervisorTypes'
      BY <1>1, <2>1, <2>2, <2>3, <2>6 DEF SupervisorTypes
    <2>8. EntriesTrue'
      <3>1. ASSUME NEW p \in DOMAIN procs, procs[p] # NoPid
            PROVE  IF at' = "crash" /\ p = reaped' THEN table'[procs[p]] \notin Programs
                                                   ELSE table'[procs[p]] = p
        <4>1. CASE procs[p] = i
          <5>1. at' = "crash" /\ table[i] = p
            BY <2>2, <2>5, <3>1, <4>1
          <5>2. reaped' = p
            BY <2>2, <2>6, <5>1
          <5> QED
            BY <2>2, <2>3, <4>1, <5>1, <5>2
        <4>2. CASE procs[p] # i
          BY <2>2, <2>3, <2>6, <3>1, <4>2
        <4> QED
          BY <4>1, <4>2
      <3> QED
        BY <1>1, <3>1 DEF EntriesTrue
    <2>9. Accounted'
      BY <1>1, <2>1, <2>2, <2>3 DEF SupervisorInv, Accounted
    <2> QED
      BY <1>1, <2>7, <2>8, <2>9 DEF SupervisorInv, RemovalKillsOwn
  <1> QED
    BY <1>2, <1>3

LEMMA CrashedInv ==
    ASSUME SupervisorInv, Crashed
    PROVE  SupervisorInv'
  <1> DEFINE old == {procs[reaped]}
  <1>1. PICK new \in Spawns({reaped}) :
            /\ procs' = [procs EXCEPT ![reaped] = new[reaped]]
            /\ table' = [i \in Pids |-> IF i \in Slain(old) THEN Free ELSE Started(table, new)[i]]
    BY DEF Crashed
  <1>2. /\ at = "crash" /\ at' = "sleep" /\ UNCHANGED <<files, ended>>
        /\ slain' = IF Slain(old) # {} THEN slain \union {"crash"} ELSE slain
    BY DEF Crashed
  <1>3. /\ SupervisorTypes /\ reaped \in DOMAIN procs /\ {reaped} \in SUBSET Programs
        /\ procs[reaped] # NoPid => procs[reaped] \in Pids /\ table[procs[reaped]] \notin Programs
        /\ \A p \in DOMAIN procs : p # reaped /\ procs[p] # NoPid =>
               procs[p] \in Pids /\ table[procs[p]] = p
        /\ Free \notin Programs /\ Stranger \notin Programs
    BY <1>2, ProgramsAssumption DEF SupervisorInv, SupervisorTypes, EntriesTrue
  <1>4. /\ new \in [{reaped} -> Pids \union {NoPid}]
        /\ \A p \in {reaped} : new[p] # NoPid =>
               new[p] \in Pids /\ table[new[p]] = Free /\ Started(table, new)[new[p]] = p
        /\ \A i \in Pids : table[i] # Free => Started(table, new)[i] = table[i]
        /\ \A i \in Pids : \/ Started(table, new)[i] = table[i]
                           \/ \E p \in {reaped} : new[p] = i /\ Started(table, new)[i] = p
        /\ Started(table, new) \in [Pids -> Programs \union {Free, Stranger}]
    BY <1>3, PidsOfTheStarted
  <1>5. /\ \A i \in Pids : table'[i] = IF i \in Slain(old) THEN Free ELSE Started(table, new)[i]
        /\ table' \in [Pids -> Programs \union {Free, Stranger}]
        /\ \A i \in Slain(old) : table[i] = Stranger
    BY <1>1, <1>4 DEF Slain
  <1>6. \A i \in Pids : table[i] \in Programs => table'[i] = table[i]
    BY <1>3, <1>4, <1>5 DEF Free, Stranger
  <1>7. new[reaped] # NoPid => new[reaped] \in Pids /\ table'[new[reaped]] = reaped
    <2>1. ASSUME new[reaped] # NoPid
          PROVE  new[reaped] \in Pids /\ table'[new[reaped]] = reaped
      <3>1. new[reaped] \in Pids /\ table[new[reaped]] = Free /\ Started(table, new)[new[reaped]] = reaped
        BY <1>4, <2>1
      <3>2. new[reaped] \notin Slain(old)
        BY <1>5, <3>1 DEF Free, Stranger
      <3> QED
        BY <1>5, <3>1, <3>2
    <2> QED
      BY <2>1
  <1>8. /\ DOMAIN procs' = DOMAIN procs /\ procs'[reaped] = new[reaped]
        /\ \A p \in DOMAIN procs : p # reaped => procs'[p] = procs[p]
        /\ procs' \in [DOMAIN procs' -> Pids \union {NoPid}]
    BY <1>1, <1>3, <1>4 DEF SupervisorTypes
  <1>9. SupervisorTypes'
    BY <1>2, <1>3, <1>5, <1>6, <1>8 DEF SupervisorTypes
  <1>10. EntriesTrue'
    BY <1>2, <1>3, <1>6, <1>7, <1>8 DEF EntriesTrue, SupervisorTypes
  <1>11. Accounted'
    <2> SUFFICES ASSUME NEW i \in Pids, i \notin ended, table'[i] \in Programs
                 PROVE  table'[i] \in DOMAIN procs' /\ procs'[table'[i]] = i
      BY <1>2 DEF Accounted
    <2>1. table'[i] = Started(table, new)[i]
      BY <1>3, <1>5
    <2>2. CASE new[reaped] = i /\ Started(table, new)[i] = reaped
      BY <1>3, <1>8, <2>1, <2>2
    <2>3. CASE Started(table, new)[i] = table[i]
      <3>1. table[i] \in DOMAIN procs /\ procs[table[i]] = i
        BY <2>1, <2>3 DEF SupervisorInv, Accounted
      <3>2. table[i] # reaped
        BY <1>3, <2>1, <2>3, <3>1, PidsAssumption
      <3> QED
        BY <1>8, <2>1, <2>3, <3>1, <3>2
    <2> QED
      BY <1>4, <2>2, <2>3
  <1>12. "check" \notin slain'
    BY <1>2 DEF SupervisorInv, RemovalKillsOwn
  <1> QED
    BY <1>9, <1>10, <1>11, <1>12 DEF SupervisorInv, RemovalKillsOwn

LEMMA NextSupervisorInv == SupervisorInv /\ [SupervisorNext]_supervisorVars => SupervisorInv'
  <1> SUFFICES ASSUME SupervisorInv, [SupervisorNext]_supervisorVars
               PROVE  SupervisorInv'
    OBVIOUS
  <1>1. CASE check_procs
    BY <1>1, CheckInv
  <1>2. CASE Wait
    BY <1>2, WaitInv
  <1>3. CASE Crashed
    BY <1>3, CrashedInv
  <1>4. CASE Wake
    BY <1>4 DEF Wake, SupervisorInv, SupervisorTypes, EntriesTrue, Accounted, RemovalKillsOwn
  <1>5. CASE Crash
    BY <1>5 DEF Crash, SupervisorInv, SupervisorTypes, EntriesTrue, Accounted, RemovalKillsOwn
  <1>6. CASE Foreign
    <2>1. UNCHANGED <<files, procs, ended, at, reaped, slain>>
      BY <1>6 DEF Foreign
    <2>2. PICK i \in Pids : \/ table[i] = Free /\ table' = [table EXCEPT ![i] = Stranger]
                            \/ table[i] = Stranger /\ table' = [table EXCEPT ![i] = Free]
      BY <1>6 DEF Foreign
    <2>3. /\ Free \notin Programs /\ Stranger \notin Programs
          /\ table \in [Pids -> Programs \union {Free, Stranger}]
      BY ProgramsAssumption DEF SupervisorInv, SupervisorTypes
    <2>4. /\ \A j \in Pids : table[j] \in Programs \/ table'[j] \in Programs => table'[j] = table[j]
          /\ table' \in [Pids -> Programs \union {Free, Stranger}]
      BY <2>2, <2>3
    <2>5. SupervisorTypes'
      BY <2>1, <2>4 DEF SupervisorInv, SupervisorTypes
    <2>6. EntriesTrue'
      <3>1. \A p \in DOMAIN procs : p \in Programs /\ (procs[p] # NoPid => procs[p] \in Pids)
        BY DEF SupervisorInv, SupervisorTypes
      <3> QED
        BY <2>1, <2>4, <3>1 DEF SupervisorInv, EntriesTrue
    <2>7. Accounted'
      BY <2>1, <2>4 DEF SupervisorInv, Accounted
    <2> QED
      BY <2>1, <2>5, <2>6, <2>7 DEF SupervisorInv, RemovalKillsOwn
  <1>7. CASE Edit
    <2>1. UNCHANGED <<procs, table, ended, at, reaped, slain>>
      BY <1>7 DEF Edit
    <2>2. files' \subseteq Programs
      BY <1>7 DEF Edit, SupervisorInv, SupervisorTypes
    <2> QED
      BY <2>1, <2>2 DEF SupervisorInv, SupervisorTypes, EntriesTrue, Accounted, RemovalKillsOwn
  <1>8. CASE UNCHANGED supervisorVars
    BY <1>8 DEF supervisorVars, SupervisorInv, SupervisorTypes, EntriesTrue, Accounted,
                RemovalKillsOwn
  <1> QED
    BY <1>1, <1>2, <1>3, <1>4, <1>5, <1>6, <1>7, <1>8 DEF SupervisorNext, SupervisorStep

\* For every set of programs and of pids, and any number of crashes, failing forks and
\* edits: every child that runs is the one its entry names, and check_procs (wproc.cpp)
\* kills no stranger (the safety parts of ChildrenKept).
THEOREM NoneTwiceNoStranger == SupervisorSpec => []Accounted /\ []RemovalKillsOwn
  <1>1. SupervisorInv => Accounted /\ RemovalKillsOwn
    BY DEF SupervisorInv
  <1> QED
    BY <1>1, InitSupervisorInv, NextSupervisorInv, PTL DEF SupervisorSpec
=============================================================================
