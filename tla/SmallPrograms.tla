---------------------------- MODULE SmallPrograms ----------------------------
(***************************************************************************)
(* Programs and classes of the repository that share nothing with each     *)
(* other, checked in one run: a behaviour picks one of them and runs it.   *)
(***************************************************************************)
EXTENDS RenderFrame, VideoRenderGL, Tetris, Supervisor, ChsText, Jsax, LinkTester

VARIABLE running

\* The thresholds 600, 800, 1280, 1600 scaled down with the pictures.
MCWidths == <<14, 18, 29, 40>>
MCPictures == [w : {4, 12, 16, 20, 24, 28, 32, 36, 40, 44}, h : {3, 7, 8, 9}]
MCWindows == [w : {12, 24, 36}, h : {2, 3, 6, 9}]

\* Documents of one and two levels for js.cc, with brackets, commas and spaces.
Plain == {<<"-", "1", ".", "1">>, <<"dq", "]", "dq">>, <<"t", "rue">>, <<"1">>}
Wrapped(V) ==
    UNION {{<<"[">> \o v \o <<"]">>, <<"{", "sq", ",", "sq", ":">> \o v \o <<"}">>} : v \in V}
Pairs(V) == {v \o <<",", " ">> \o w : v, w \in V}
Flat == Wrapped(Plain \union {<<>>})
MCDocuments == Flat \union Wrapped(Pairs(Plain) \union Flat \union Pairs(Flat \union Plain))

\* What is not running stays in one of its initial states.
Pinned ==
    /\ running # "kernels" =>
           /\ picture = CHOOSE s \in Pictures : TRUE
           /\ shown = CHOOSE s \in Windows : TRUE
    /\ running # "tetris" => preview = CHOOSE s \in Stones : TRUE
    /\ running # "wproc" => files = {}
    /\ running # "texts" => ~wide
    /\ running # "link" => proto = "udp"

Init ==
    /\ running \in {"kernels", "gl", "tetris", "wproc", "glex", "texts", "js", "link"}
    /\ RenderInit /\ GlInit /\ TetrisInit /\ SupervisorInit /\ GlexInit /\ TextInit
    /\ JsaxInit /\ LinkInit
    /\ Pinned

Next ==
    /\ UNCHANGED running
    /\ \/ /\ running = "kernels" /\ RenderNext
          /\ UNCHANGED <<glVars, tetrisVars, supervisorVars, glexVars, textVars, jsaxVars, linkVars>>
       \/ /\ running = "gl" /\ GlNext
          /\ UNCHANGED <<renderVars, tetrisVars, supervisorVars, glexVars, textVars, jsaxVars, linkVars>>
       \/ /\ running = "tetris" /\ TetrisNext
          /\ UNCHANGED <<renderVars, glVars, supervisorVars, glexVars, textVars, jsaxVars, linkVars>>
       \/ /\ running = "wproc" /\ SupervisorNext
          /\ UNCHANGED <<renderVars, glVars, tetrisVars, glexVars, textVars, jsaxVars, linkVars>>
       \/ /\ running = "glex" /\ GlexNext
          /\ UNCHANGED <<renderVars, glVars, tetrisVars, supervisorVars, textVars, jsaxVars, linkVars>>
       \/ /\ running = "texts" /\ TextNext
          /\ UNCHANGED <<renderVars, glVars, tetrisVars, supervisorVars, glexVars, jsaxVars, linkVars>>
       \/ /\ running = "js" /\ JsaxNext
          /\ UNCHANGED <<renderVars, glVars, tetrisVars, supervisorVars, glexVars, textVars, linkVars>>
       \/ /\ running = "link" /\ LinkNext
          /\ UNCHANGED <<renderVars, glVars, tetrisVars, supervisorVars, glexVars, textVars, jsaxVars>>

vars == <<running, renderVars, glVars, tetrisVars, supervisorVars, glexVars, textVars,
          jsaxVars, linkVars>>

\* The GL thread calls renderFrame(0) again and again, whatever it draws in
\* between, and no copy or drawing is left half done.  Nothing is assumed of when
\* windows and pictures come.
GlFairness ==
    /\ SF_glVars(running = "gl" /\ RenderLocal)
    /\ WF_glVars(running = "gl" /\ RenderEnd)
    /\ WF_glVars(running = "gl" /\ CopyAlloc)
    /\ WF_glVars(running = "gl" /\ CopyEnd)

\* main loops as long as the directory is there, and that is taken for granted.
SupervisorFairness == WF_supervisorVars(running = "wproc" /\ SupervisorStep)

Spec ==
    /\ Init /\ [][Next]_vars
    /\ GlFairness
    /\ SupervisorFairness

\* What the hand-written parsers of the repository read is what the texts mean: those of
\* the step server and the one of js.cc.
TextsRight == StepTextsRight /\ ReadAsMeant
=============================================================================
