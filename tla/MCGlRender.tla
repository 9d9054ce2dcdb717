---------------------------- MODULE MCGlRender ------------------------------
(* Two frames, the first of one quad and the second of up to eight vertices, *)
(* with two textures.                                                        *)
EXTENDS GlRender

CONSTANTS Cover, Film

\* No two vertices of two frames that follow each other are the same, so that
\* one in a wrong place, or one left from the frame before, is told apart.
Numbered ==
    Len(prim'.points) > Len(prim.points) =>
        prim'.points[Len(prim'.points)] = VERTICES + MaxVertices * (frames % 2)

\* What the program does where its order does not matter: textures are
\* loaded before the first frame, one of them again before the second;
\* blending changes inside a frame; arrays have three vertices.
Orderly ==
    /\ <<TexArr, ids>>' # <<TexArr, ids>> => ~RenderInit
    /\ TexArr' # TexArr => /\ frames = 0 \/ bound = 1
                           /\ TexArr'[TexIndex] = IF bound + frames = 1 THEN Cover ELSE Film
    /\ ids' # ids => frames = 0
    /\ frames' # frames => TexArr[2] = Film /\ TexArr[1] = IF frames = 0 THEN Cover ELSE Film
    /\ BLEND_MODE' # BLEND_MODE /\ RenderInit' => RenderInit
    /\ left' > left => left' = 3
    /\ prim # prim' /\ Between => frames = 2 \/ (VERTICES = 0 /\ prim'.mode = "GL_QUADS")
=============================================================================
