---------------------------- MODULE VideoRenderGL ----------------------------
(***************************************************************************)
(* VideoRenderGL and ShaderUnit of android/jni-01/VideoRender.cpp.  Three  *)
(* threads use one object: the GL thread draws in a loop                   *)
(* (renderFrame(p, false)), the decoder hands pictures over                *)
(* (renderFrame(p, true), which does not lock the mutex), and the user     *)
(* interface sets the window and takes it away (setWindow).                *)
(***************************************************************************)
EXTENDS Naturals, FiniteSets

CONSTANTS
    MaxPictures,    \* pictures the decoder hands over (model bound)
    MaxWindows,     \* windows there are (model bound)
    MaxFaults,      \* failing EGL and GL calls (model bound)
    PictureSizes    \* the values of Image.size

ASSUME GlAssumption ==
    /\ {MaxPictures, MaxWindows, MaxFaults} \subseteq Nat
    /\ PictureSizes \subseteq Nat \ {0}  \* 0 is the size of mLocalImg without memory

NoWindow == 0
Unset == MaxWindows + 1
NoPicture == 0
Torn == MaxPictures + 1     \* a picture half written
Direct == MaxPictures + 2   \* a picture the GL thread passes itself

VARIABLES
    mWindow,
    held,           \* the windows the object holds a reference to
    setting,        \* the argument of the setWindow under way, or Unset
    mIsWndChange,
    mIsGLInit,
    surface,        \* the window of mSurface
    orphans,        \* windows with an EGL surface that nobody will destroy
    mProgram,       \* mpRenderY has a program
    local,          \* mLocalImg: [size, data], data a picture or Torn
    copyAt,         \* where the decoder's thread is in copyToLocalImg
    handed,         \* pictures handed over so far, the one under way included
    mIsCopyed,
    drawing,        \* the GL thread is inside renderFrame, with the mutex: "local", "direct"
    drawn,          \* history: the picture on the screen
    discarded,      \* history: the last picture taken without GL to draw it
    raced,          \* history: the change was noticed before the window was exchanged
    replaced,       \* history: a window was set over the one that GL still draws on
    resized,        \* history: mLocalImg was allocated anew
    freedRead,      \* history: freed memory was drawn
    destroyed,      \* ~VideoRenderGL was called
    faults          \* what is left of MaxFaults

eglVars == <<mIsGLInit, surface, orphans, mProgram>>
copyVars == <<local, copyAt, handed, mIsCopyed, resized>>
windowVars == <<mWindow, held, setting>>
screenVars == <<drawn, discarded, freedRead>>
glVars == <<windowVars, mIsWndChange, eglVars, copyVars, drawing, screenVars,
            raced, replaced, destroyed, faults>>

GlInit ==
    /\ mWindow = NoWindow
    /\ held = {}
    /\ setting = Unset
    /\ mIsWndChange = FALSE
    /\ mIsGLInit = FALSE
    /\ surface = NoWindow
    /\ orphans = {}
    /\ mProgram = FALSE
    /\ local = [size |-> 0, data |-> NoPicture]
    /\ copyAt = "idle"
    /\ handed = 0
    /\ mIsCopyed = FALSE
    /\ drawing = "no"
    /\ drawn = NoPicture
    /\ discarded = NoPicture
    /\ raced = FALSE
    /\ replaced = FALSE
    /\ resized = FALSE
    /\ freedRead = FALSE
    /\ destroyed = FALSE
    /\ faults = MaxFaults

-----------------------------------------------------------------------------
(* The user interface                                                      *)

\* setWindow begins; the window's end, and that only, is announced before the mutex is
\* taken.
SetWindow ==
    /\ setting = Unset
    /\ ~destroyed
    /\ setting' \in NoWindow .. MaxWindows
    /\ mIsWndChange' = (mIsWndChange \/ setting' = NoWindow)
    /\ UNCHANGED <<mWindow, held, eglVars, copyVars, drawing, screenVars, raced, replaced,
                   destroyed, faults>>

\* The rest of it, under the mutex: the old window is released.  GL hears of its end, not
\* of its being replaced by another one.
ExchangeWindow ==
    /\ setting # Unset
    /\ drawing = "no"
    /\ mWindow' = setting
    /\ held' = (held \ {mWindow}) \union ({setting} \ {NoWindow})
    /\ setting' = Unset
    /\ replaced' = (replaced \/ (mIsGLInit /\ NoWindow # mWindow /\ setting \notin {NoWindow, mWindow}))
    /\ UNCHANGED <<mIsWndChange, eglVars, copyVars, drawing, screenVars, raced,
                   destroyed, faults>>

-----------------------------------------------------------------------------
(* The decoder                                                             *)

\* copyToLocalImg begins: memory of another size is given back first.
CopyBegin ==
    /\ copyAt = "idle"
    /\ ~destroyed
    /\ handed < MaxPictures
    /\ handed' = handed + 1
    /\ \E size \in PictureSizes :
        /\ local' = [size |-> size, data |-> Torn]
        /\ copyAt' = IF local.size # size THEN "alloc" ELSE "fill"
        /\ resized' = (resized \/ local.size \notin {0, size})
    /\ UNCHANGED <<windowVars, mIsWndChange, eglVars, mIsCopyed, drawing, screenVars,
                   raced, replaced, destroyed, faults>>

\* The new memory is there.
CopyAlloc ==
    /\ copyAt = "alloc"
    /\ copyAt' = "fill"
    /\ UNCHANGED <<windowVars, mIsWndChange, eglVars, local, handed, mIsCopyed, resized,
                   drawing, screenVars, raced, replaced, destroyed, faults>>

\* memcpy is through.
CopyEnd ==
    /\ copyAt = "fill"
    /\ copyAt' = "idle"
    /\ local' = [local EXCEPT !.data = handed]
    /\ mIsCopyed' = TRUE
    /\ UNCHANGED <<windowVars, mIsWndChange, eglVars, handed, resized, drawing,
                   screenVars, raced, replaced, destroyed, faults>>

-----------------------------------------------------------------------------
(* The GL thread                                                           *)

\* loadShader returns no shader only if the compiler left a message behind.
loadShader(s) == s # "message"

\* createProgram: both shaders, and a program that links.
createProgram(vertex, pixel) ==
    /\ loadShader(vertex) /\ loadShader(pixel)
    /\ vertex = "ok" /\ pixel = "ok"

\* ShaderUnit::init, whose result initGL ignores.
ShaderInit ==
    \E vertex, pixel \in {"ok", "message", "silent"} :
        /\ (vertex = "ok" /\ pixel = "ok") \/ faults > 0
        /\ mProgram' = createProgram(vertex, pixel)
        /\ faults' = IF mProgram' THEN faults ELSE faults - 1

\* releaseGL, and then initGL: an attempt that fails behind the surface leaves the
\* surface to the window, and EGL gives a window one surface only.
InitGL ==
    \/ /\ mWindow \notin orphans
       /\ mIsGLInit' = TRUE
       /\ surface' = mWindow
       /\ ShaderInit
       /\ UNCHANGED orphans
    \/ /\ mWindow \in orphans
       /\ mIsGLInit' = FALSE
       /\ surface' = NoWindow
       /\ mProgram' = FALSE
       /\ UNCHANGED <<orphans, faults>>
    \/ /\ faults > 0
       /\ mWindow \notin orphans
       /\ faults' = faults - 1
       /\ mIsGLInit' = FALSE
       /\ surface' = NoWindow
       /\ mProgram' = FALSE
       /\ orphans' \in {orphans, orphans \union {mWindow}}

\* The first part of renderFrame, with the mutex: GL follows the window.
Released == mIsGLInit /\ mIsWndChange

FollowWindow ==
    /\ mIsWndChange' = (mIsWndChange /\ ~mIsGLInit)
    /\ raced' = (raced \/ (Released /\ setting = NoWindow))
    /\ replaced' = (replaced /\ ~Released)
    /\ IF (~mIsGLInit \/ Released) /\ mWindow # NoWindow
       THEN InitGL
       ELSE /\ mIsGLInit' = (mIsGLInit /\ ~Released)
            /\ surface' = IF Released THEN NoWindow ELSE surface
            /\ mProgram' = (mProgram /\ ~Released)
            /\ UNCHANGED <<orphans, faults>>

\* renderFrame(0): the decoder's picture is taken, drawn or not.
RenderLocal ==
    /\ drawing = "no"
    /\ ~destroyed
    /\ FollowWindow
    /\ mIsCopyed' = FALSE
    /\ drawing' = IF mIsCopyed /\ mIsGLInit' THEN "local" ELSE "no"
    /\ discarded' = IF mIsCopyed /\ ~mIsGLInit' THEN local.data ELSE discarded
    /\ UNCHANGED <<windowVars, local, copyAt, handed, resized, drawn, freedRead, destroyed>>

\* renderFrame(p) for a picture of the GL thread's own.
RenderDirect ==
    /\ drawing = "no"
    /\ ~destroyed
    /\ FollowWindow
    /\ drawing' = IF mIsGLInit' THEN "direct" ELSE "no"
    /\ UNCHANGED <<windowVars, copyVars, drawn, discarded, freedRead, destroyed>>

\* RenderYUV::render and eglSwapBuffers, then the mutex is released.  Without a
\* program nothing is drawn.  RenderEndClears is the slip of taking the flag back
\* behind the drawing.
RenderEndClears ==
    /\ drawing # "no"
    /\ drawing' = "no"
    /\ mIsCopyed' = FALSE
    /\ drawn' = IF ~mProgram THEN drawn
                ELSE IF drawing = "direct" THEN Direct ELSE local.data
    /\ freedRead' = (freedRead \/ (drawing = "local" /\ copyAt = "alloc"))
    /\ UNCHANGED <<windowVars, mIsWndChange, eglVars, local, copyAt, handed, resized,
                   discarded, raced, replaced, destroyed, faults>>

RenderEnd ==
    /\ drawing # "no"
    /\ drawing' = "no"
    /\ drawn' = IF ~mProgram THEN drawn
                ELSE IF drawing = "direct" THEN Direct ELSE local.data
    /\ freedRead' = (freedRead \/ (drawing = "local" /\ copyAt = "alloc"))
    /\ UNCHANGED <<windowVars, mIsWndChange, eglVars, copyVars, discarded, raced,
                   replaced, destroyed, faults>>

\* ~VideoRenderGL and ~VideoRender, once no thread uses the object.
Destroy ==
    /\ ~destroyed
    /\ drawing = "no" /\ setting = Unset /\ copyAt = "idle"
    /\ destroyed' = TRUE
    /\ mIsGLInit' = FALSE
    /\ surface' = NoWindow
    /\ mProgram' = FALSE
    /\ mWindow' = NoWindow
    /\ held' = held \ {mWindow}
    /\ UNCHANGED <<setting, mIsWndChange, orphans, copyVars, drawing, screenVars, raced, replaced, faults>>

-----------------------------------------------------------------------------
GlNext ==
    \/ SetWindow \/ ExchangeWindow
    \/ CopyBegin \/ CopyAlloc \/ CopyEnd
    \/ RenderLocal \/ RenderDirect \/ RenderEnd
    \/ Destroy

-----------------------------------------------------------------------------
(* Properties                                                              *)

\* The GL thread learns of the window's end from a flag that is set before the mutex is
\* taken: unless it looks in between, it draws on the surface of the window that is set,
\* and never on the one of a window given back.  Of a window that is set over another one
\* it is not told, and goes on with the old one's surface until a window ends.
SurfaceCurrent ==
    drawing # "no" /\ ~raced /\ ~replaced => surface = mWindow /\ mWindow \in held

\* copyToLocalImg does not lock, yet as long as the pictures have one size the
\* drawing never reads memory that was given back: the first allocation is over
\* before mIsCopyed is set.
NeverFreedRead == freedRead => resized

\* A picture handed over while another one, or a torn one, is being drawn is not
\* lost: mIsCopyed is taken back before the drawing, so it is drawn again whole.
\* It is given up only without GL, without a program or at the end.
LastPictureDrawn ==
    (mIsCopyed /\ handed = MaxPictures /\ copyAt = "idle") ~>
        \/ drawn = MaxPictures
        \/ discarded = MaxPictures
        \/ ~mProgram
        \/ destroyed

\* The decoder's thread, the GL thread and the one that sets windows, with two flags and
\* a mutex only one of them takes: what is drawn exists, and the last picture is drawn.
DrawsSafely == []SurfaceCurrent /\ []NeverFreedRead /\ LastPictureDrawn
=============================================================================
