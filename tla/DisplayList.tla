---------------------------- MODULE DisplayList -----------------------------
(***************************************************************************)
(* What the OpenGL calls of src/GL promise the program that draws with     *)
(* them: a frame shows the faces of every primitive drawn in it, with the  *)
(* image its texture had when the primitive was begun, the opaque ones     *)
(* before the transparent ones, each list in the order of drawing.  How    *)
(* vertices are ordered, flagged and kept for the graphics chip is the     *)
(* business of GlRender, which implements this module.                     *)
(***************************************************************************)
EXTENDS Integers, Sequences

CONSTANTS Points,       \* what a vertex is: coordinates, texture position, colour
          Images,       \* what glKosTex2D is given: addresses in video memory
          NoImage       \* a texture not loaded yet, or none

VARIABLES image,        \* the image of each texture the program has generated
          current,      \* the texture that an upload or the next primitive is about
          textured,     \* whether the next primitive takes it
          transparent,  \* whether primitives are blended with what is behind
          resets,       \* the next frame begins opaque
          drawing,      \* a frame has been begun
          prim,         \* the primitive being given
          frame,        \* the primitives of this frame: opaque, transparent
          shown         \* those of the last frame that was finished

vars == <<image, current, textured, transparent, resets, drawing, prim, frame, shown>>

Modes == {"GL_TRIANGLES", "GL_TRIANGLE_STRIP", "GL_QUADS"}
NoPrim == [mode |-> "none", points |-> <<>>, image |-> NoImage]
NoFrame == [opaque |-> <<>>, transparent |-> <<>>]

\* The triangles that a primitive covers, whichever way round.
Faces(mode, p) ==
    CASE mode = "GL_TRIANGLES" ->
           {{p[i], p[i + 1], p[i + 2]} : i \in {j \in 1 .. Len(p) - 2 : j % 3 = 1}}
      [] mode = "GL_TRIANGLE_STRIP" ->
           {{p[i], p[i + 1], p[i + 2]} : i \in 1 .. Len(p) - 2}
      [] mode = "GL_QUADS" ->
           UNION {{{p[i], p[i + 1], p[i + 2]}, {p[i], p[i + 2], p[i + 3]}} :
                    i \in {j \in 1 .. Len(p) - 3 : j % 4 = 1}}

Init ==
    /\ image = <<>> /\ current = 1 /\ textured = FALSE
    /\ transparent = FALSE /\ resets = FALSE
    /\ drawing = FALSE /\ prim = NoPrim
    /\ frame = NoFrame /\ shown = NoFrame

-----------------------------------------------------------------------------
GenTexture ==
    /\ image' = Append(image, NoImage)
    /\ UNCHANGED <<current, textured, transparent, resets, drawing, prim, frame, shown>>

\* Outside a frame a binding is for an upload only.
Bind(t) ==
    /\ current' = t
    /\ textured' = (drawing \/ textured)
    /\ UNCHANGED <<image, transparent, resets, drawing, prim, frame, shown>>

Upload(d) ==
    /\ current \in DOMAIN image
    /\ image' = [image EXCEPT ![current] = d]
    /\ UNCHANGED <<current, textured, transparent, resets, drawing, prim, frame, shown>>

Unbind ==
    /\ textured' = FALSE
    /\ UNCHANGED <<image, current, transparent, resets, drawing, prim, frame, shown>>

\* The blending of what is drawn from now on; with "this frame only", as
\* glKosFinishList asks, it ends where the next frame begins.
Blend(on, thisFrameOnly) ==
    /\ transparent' = on
    /\ resets' = (resets \/ thisFrameOnly)
    /\ UNCHANGED <<image, current, textured, drawing, prim, frame, shown>>

BeginFrame ==
    /\ drawing' = TRUE
    /\ transparent' = (transparent /\ ~resets)
    /\ resets' = FALSE
    /\ UNCHANGED <<image, current, textured, prim, frame, shown>>

Begin(m) ==
    /\ drawing /\ prim = NoPrim
    /\ prim' = [mode |-> m, points |-> <<>>,
                image |-> IF textured THEN image[current] ELSE NoImage]
    /\ UNCHANGED <<image, current, textured, transparent, resets, drawing, frame, shown>>

Vertex(v) ==
    /\ prim # NoPrim
    /\ prim' = [prim EXCEPT !.points = Append(@, v)]
    /\ UNCHANGED <<image, current, textured, transparent, resets, drawing, frame, shown>>

Drawn == [image |-> prim.image, faces |-> Faces(prim.mode, prim.points)]

\* The primitive joins its list; the next one is without a texture again.
End ==
    /\ prim # NoPrim
    /\ frame' = IF transparent
                  THEN [frame EXCEPT !.transparent = Append(@, Drawn)]
                  ELSE [frame EXCEPT !.opaque = Append(@, Drawn)]
    /\ prim' = NoPrim
    /\ textured' = FALSE
    /\ UNCHANGED <<image, current, transparent, resets, drawing, shown>>

FinishFrame ==
    /\ drawing /\ prim = NoPrim
    /\ drawing' = FALSE
    /\ shown' = frame /\ frame' = NoFrame
    /\ UNCHANGED <<image, current, textured, transparent, resets, prim>>

Next == \/ GenTexture \/ Unbind \/ BeginFrame \/ End \/ FinishFrame
        \/ \E t \in 1 .. Len(image) : Bind(t)
        \/ \E d \in Images : Upload(d)
        \/ \E on, only \in BOOLEAN : Blend(on, only)
        \/ \E m \in Modes : Begin(m)
        \/ \E v \in Points : Vertex(v)

Spec == Init /\ [][Next]_vars
=============================================================================
