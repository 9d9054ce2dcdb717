------------------------------ MODULE GlRender ------------------------------
(***************************************************************************)
(* The OpenGL of src/GL: textures, primitives given vertex by vertex or    *)
(* from an array, and the frame that hands them to the graphics chip       *)
(* (gl-render.c, gl-vertex.h).  One thread draws.                          *)
(*                                                                         *)
(* A primitive is a node of VERT_LIST: a polygon header and a range of     *)
(* VERTEX_BUFFER.  The chip draws every range as triangle strips; a vertex *)
(* flagged EOL ends one.  So triangles and quads live on the flags that    *)
(* flag_iterator walks through and on the order in which a quad's vertices *)
(* are stored, and a GL_TRIANGLE_STRIP on what the iterator was left at.   *)
(*                                                                         *)
(* The program that draws is the environment: it follows the rules of      *)
(* OpenGL (whole primitives, inside a frame) and stays inside the tables,  *)
(* which the code does not test.  ids and bound are the program's; prim,   *)
(* left and frames are kept for the guards and the bounds.  Coordinates,   *)
(* colours and matrices are one value, the vertex; an image is an address  *)
(* in video memory.                                                        *)
(*                                                                         *)
(* A definition marked "fault" is a wrong version of a later one, used to  *)
(* see that a property notices it; no specification contains it.           *)
(***************************************************************************)
EXTENDS Integers, Sequences

CONSTANTS Points, Images, NoImage,
          MaxVertices,  \* slots of VERTEX_BUFFER; 32768
          MaxNodes,     \* nodes of a list; 16384
          MaxTextures,  \* entries of TexArr; 256
          MaxFrames     \* frames the program draws, a bound of the model

ASSUME ImageAssumption == NoImage \notin Images
ASSUME SizeAssumption == /\ MaxVertices \in Nat /\ MaxNodes \in Nat
                         /\ MaxTextures \in Nat \ {0} /\ MaxFrames \in Nat

VARIABLES VERTEX_BUFFER, VERTICES,
          VERT_LIST, RSIZE,
          BLEND_MODE,   \* OP or TR; GL_BLEND_FUNC always says the same
          GL_PRIMITIVE, flag_iterator, quad_index,
          GL_BIND_TEX, TexArr, Textures, TexIndex,
          RenderInit,   \* "Render is open"
          kglxDirtyDirty,
          scene,        \* what the chip was sent with the last frame
          ids,          \* the program's textures: the names glGenTextures gave
          bound,        \* which of them the program bound last
          prim,         \* the primitive being given, as the program sees it
          left,         \* vertices glDrawArrays has still to draw; NoArray outside
          frames

buffer == <<VERTEX_BUFFER, VERTICES>>
lists == <<VERT_LIST, RSIZE>>
flags == <<GL_PRIMITIVE, flag_iterator, quad_index>>
textures == <<TexArr, Textures, TexIndex, ids, bound>>
given == <<prim, left>>
vars == <<buffer, lists, BLEND_MODE, flags, GL_BIND_TEX, textures,
          RenderInit, kglxDirtyDirty, scene, given, frames>>

OP == "opaque"
TR == "transparent"
Lists == {OP, TR}
Slots == 0 .. MaxVertices - 1
VERTEX == "PVR_CMD_VERTEX"
EOL == "PVR_CMD_VERTEX_EOL"
NoArray == -1

Modes == {"GL_TRIANGLES", "GL_TRIANGLE_STRIP", "GL_QUADS"}
NoPrim == [mode |-> "none", points |-> <<>>]

-----------------------------------------------------------------------------
(* Flags and places of vertices.                                           *)

\* TriFlag and QuadFlag: rings of flags, the last of them EOL.
TriFlag == [ring |-> 3, at |-> 0]
QuadFlag == [ring |-> 4, at |-> 0]
NoFlag == [ring |-> 0, at |-> 0]

FlagOf(it) == IF it.at = it.ring - 1 THEN EOL ELSE VERTEX
NextFlag(it) == [it EXCEPT !.at = IF it.at = it.ring - 1 THEN 0 ELSE it.at + 1]

PlaceInOrder == VERTICES                                             \* fault

\* "Quads: Make the vertex order work with PVR TriStrips": b, a, c, d.
Place == IF GL_PRIMITIVE = "GL_QUADS"
           THEN CASE quad_index = 0 -> VERTICES + 1
                  [] quad_index = 1 -> VERTICES - 1
                  [] OTHER -> VERTICES
           ELSE VERTICES

NextQuadIndex == IF quad_index = 3 THEN 0 ELSE quad_index + 1

-----------------------------------------------------------------------------
Init ==
    /\ VERTEX_BUFFER = [s \in Slots |-> [point |-> NoImage, flag |-> VERTEX]]
    /\ VERTICES = 0
    /\ VERT_LIST = [l \in Lists |-> [i \in 0 .. MaxNodes - 1 |->
                      [list |-> OP, image |-> NoImage, vertex |-> 0, vertices |-> 0]]]
    /\ RSIZE = [l \in Lists |-> 0]
    /\ BLEND_MODE = OP
    /\ GL_PRIMITIVE = "none" /\ flag_iterator = NoFlag /\ quad_index = 0
    /\ GL_BIND_TEX = FALSE
    /\ TexArr = [t \in 0 .. MaxTextures - 1 |-> NoImage]
    \* RenderInitCxt has taken one name, and TexIndex starts at 1.
    /\ Textures = 1 /\ TexIndex = 1
    /\ RenderInit = FALSE /\ kglxDirtyDirty = FALSE
    /\ scene = [l \in Lists |-> <<>>]
    /\ ids = <<>> /\ bound = 1 /\ prim = NoPrim /\ left = NoArray /\ frames = 0

Between == prim = NoPrim       \* not between glBegin and glEnd

-----------------------------------------------------------------------------
(* Textures.                                                               *)

\* One name at a time; a call for two is two of these.
glGenTextures ==
    /\ Between /\ Textures < MaxTextures
    /\ ids' = Append(ids, Textures)
    /\ Textures' = Textures + 1
    /\ UNCHANGED <<buffer, lists, BLEND_MODE, flags, GL_BIND_TEX, TexArr, TexIndex, bound,
                   RenderInit, kglxDirtyDirty, scene, given, frames>>

glBindTexture(t) ==
    /\ Between
    /\ TexIndex' = ids[t] /\ bound' = t
    /\ GL_BIND_TEX' = (RenderInit \/ GL_BIND_TEX)
    /\ UNCHANGED <<buffer, lists, BLEND_MODE, flags, TexArr, Textures, ids,
                   RenderInit, kglxDirtyDirty, scene, given, frames>>

\* The callers have bound what they load.
glKosTex2D(txr_address) ==
    /\ Between /\ bound \in DOMAIN ids
    /\ TexArr' = [TexArr EXCEPT ![TexIndex] = txr_address]
    /\ UNCHANGED <<buffer, lists, BLEND_MODE, flags, GL_BIND_TEX, Textures, TexIndex, ids,
                   bound, RenderInit, kglxDirtyDirty, scene, given, frames>>

-----------------------------------------------------------------------------
(* glEnable and glDisable of GL_BLEND, glDisable of GL_TEXTURE_2D.         *)

EnableBlend ==
    /\ Between
    /\ BLEND_MODE' = TR
    /\ UNCHANGED <<buffer, lists, flags, GL_BIND_TEX, textures,
                   RenderInit, kglxDirtyDirty, scene, given, frames>>

DisableBlend ==
    /\ Between
    /\ BLEND_MODE' = OP
    /\ UNCHANGED <<buffer, lists, flags, GL_BIND_TEX, textures,
                   RenderInit, kglxDirtyDirty, scene, given, frames>>

DisableTexture ==
    /\ Between
    /\ GL_BIND_TEX' = FALSE
    /\ UNCHANGED <<buffer, lists, BLEND_MODE, flags, textures,
                   RenderInit, kglxDirtyDirty, scene, given, frames>>

\* "supported in this API for backwards compatibility".
glKosFinishList ==
    /\ Between
    /\ BLEND_MODE' = TR
    /\ kglxDirtyDirty' = TRUE
    /\ UNCHANGED <<buffer, lists, flags, GL_BIND_TEX, textures,
                   RenderInit, scene, given, frames>>

-----------------------------------------------------------------------------
(* Primitives.                                                             *)

\* The header of the node: what glKosCompileHeaderTx or glKosCompileHeader
\* compiles with the flags of this moment.  A textured one names the list
\* that glKosTex2D noted for it, which is always the opaque one.
Header == IF GL_BIND_TEX THEN [list |-> OP, image |-> TexArr[TexIndex]]
                         ELSE [list |-> BLEND_MODE, image |-> NoImage]

\* "Set the pointers into the Vertex Buffer": glBegin, and glPreStack.
OpenNode ==
    VERT_LIST' = [VERT_LIST EXCEPT ![BLEND_MODE][RSIZE[BLEND_MODE]] =
                    [list |-> Header.list, image |-> Header.image,
                     vertex |-> VERTICES, vertices |-> 0]]

\* What the program knows of the primitive it begins.
Given(mode) == prim' = [mode |-> mode, points |-> <<>>]

\* Vertices of one polygon.
Group(mode) == IF mode = "GL_TRIANGLES" THEN 3 ELSE 4

glBeginKeepsIterator(mode) ==                                        \* fault
    /\ Between /\ RenderInit
    /\ RSIZE[BLEND_MODE] < MaxNodes
    /\ mode = "GL_TRIANGLE_STRIP" => flag_iterator = QuadFlag
    /\ GL_PRIMITIVE' = mode
    /\ OpenNode
    /\ flag_iterator' = IF flag_iterator # NoFlag THEN flag_iterator
                        ELSE IF mode = "GL_TRIANGLES" THEN TriFlag ELSE QuadFlag
    /\ Given(mode) /\ UNCHANGED left
    /\ UNCHANGED <<buffer, RSIZE, BLEND_MODE, quad_index, GL_BIND_TEX, textures,
                   RenderInit, kglxDirtyDirty, scene, frames>>

\* GL_TRIANGLE_STRIP sets no flags ("ToDo").  Its one caller, FrameRender,
\* draws four vertices, and the menus before it draw quads only.
glBegin(mode) ==
    /\ Between /\ RenderInit
    /\ RSIZE[BLEND_MODE] < MaxNodes
    /\ mode = "GL_TRIANGLE_STRIP" => flag_iterator = QuadFlag
    /\ GL_PRIMITIVE' = mode
    /\ OpenNode
    /\ flag_iterator' = CASE mode = "GL_TRIANGLES" -> TriFlag
                          [] mode = "GL_QUADS" -> QuadFlag
                          [] OTHER -> flag_iterator
    /\ Given(mode) /\ UNCHANGED left
    /\ UNCHANGED <<buffer, RSIZE, BLEND_MODE, quad_index, GL_BIND_TEX, textures,
                   RenderInit, kglxDirtyDirty, scene, frames>>

\* Write a vertex and count it, in the buffer and in the node.
Store(slot, v, flag) ==
    /\ VERTEX_BUFFER' = [VERTEX_BUFFER EXCEPT ![slot] = [point |-> v, flag |-> flag]]
    /\ VERTICES' = VERTICES + 1
    /\ VERT_LIST' = [VERT_LIST EXCEPT ![BLEND_MODE][RSIZE[BLEND_MODE]].vertices = @ + 1]
    /\ prim' = [prim EXCEPT !.points = Append(@, v)]

\* glVertex2f, glVertex2fv, glVertex3f, glVertex3fv.
glVertex(v) ==
    /\ ~Between /\ left = NoArray
    /\ prim.mode = "GL_TRIANGLE_STRIP" => Len(prim.points) < 4
    /\ Len(prim.points) % Group(prim.mode) = 0 => VERTICES + Group(prim.mode) <= MaxVertices
    /\ Store(Place, v, FlagOf(flag_iterator))
    /\ quad_index' = IF GL_PRIMITIVE = "GL_QUADS" THEN NextQuadIndex ELSE quad_index
    /\ flag_iterator' = NextFlag(flag_iterator)
    /\ UNCHANGED <<RSIZE, BLEND_MODE, GL_PRIMITIVE, GL_BIND_TEX, textures,
                   RenderInit, kglxDirtyDirty, scene, left, frames>>

\* The node is complete; "++RSIZE".
CloseNode ==
    /\ RSIZE' = [RSIZE EXCEPT ![BLEND_MODE] = @ + 1]
    /\ GL_BIND_TEX' = FALSE
    /\ prim' = NoPrim
    /\ UNCHANGED <<buffer, VERT_LIST, BLEND_MODE, flags, textures,
                   RenderInit, kglxDirtyDirty, scene, frames>>

glEnd ==
    /\ ~Between /\ left = NoArray
    /\ Len(prim.points) > 0 /\ Len(prim.points) % Group(prim.mode) = 0
    /\ CloseNode /\ UNCHANGED left

-----------------------------------------------------------------------------
(* glDrawArrays, with the arrays set; a strip is opened by glPreStack,     *)
(* triangles by glBegin.                                                   *)

glDrawArrays(mode, count) ==
    /\ Between /\ RenderInit
    /\ RSIZE[BLEND_MODE] < MaxNodes
    /\ count > 0 /\ VERTICES + count <= MaxVertices
    /\ OpenNode
    /\ IF mode = "GL_TRIANGLE_STRIP"
         THEN UNCHANGED <<GL_PRIMITIVE, flag_iterator>>
         ELSE /\ mode = "GL_TRIANGLES" /\ count % 3 = 0
              /\ GL_PRIMITIVE' = mode /\ flag_iterator' = TriFlag
    /\ left' = count
    /\ Given(mode)
    /\ UNCHANGED <<buffer, RSIZE, BLEND_MODE, quad_index, GL_BIND_TEX, textures,
                   RenderInit, kglxDirtyDirty, scene, frames>>

\* glRenderTri and its variants.
TransformTri(v) ==
    /\ left > 0 /\ prim.mode = "GL_TRIANGLES"
    /\ Store(VERTICES, v, FlagOf(flag_iterator))
    /\ flag_iterator' = NextFlag(flag_iterator)
    /\ left' = left - 1
    /\ UNCHANGED <<RSIZE, BLEND_MODE, GL_PRIMITIVE, quad_index, GL_BIND_TEX, textures,
                   RenderInit, kglxDirtyDirty, scene, frames>>

\* glRenderTriStrip and its variants: all vertices but the last.
TransformStrip(v) ==
    /\ left > 1 /\ prim.mode = "GL_TRIANGLE_STRIP"
    /\ Store(VERTICES, v, VERTEX)
    /\ left' = left - 1
    /\ UNCHANGED <<RSIZE, BLEND_MODE, flags, GL_BIND_TEX, textures,
                   RenderInit, kglxDirtyDirty, scene, frames>>

TransformLastOpen(v) ==                                              \* fault
    /\ left = 1 /\ prim.mode = "GL_TRIANGLE_STRIP"
    /\ Store(VERTICES, v, VERTEX)
    /\ left' = 0
    /\ UNCHANGED <<RSIZE, BLEND_MODE, flags, GL_BIND_TEX, textures,
                   RenderInit, kglxDirtyDirty, scene, frames>>

\* TransformLast: glRenderTriStripL and its variants.
TransformLast(v) ==
    /\ left = 1 /\ prim.mode = "GL_TRIANGLE_STRIP"
    /\ Store(VERTICES, v, EOL)
    /\ left' = 0
    /\ UNCHANGED <<RSIZE, BLEND_MODE, flags, GL_BIND_TEX, textures,
                   RenderInit, kglxDirtyDirty, scene, frames>>

\* glEnd, as glDrawArrays calls it.
ArraysEnd ==
    /\ left = 0
    /\ CloseNode /\ left' = NoArray

-----------------------------------------------------------------------------
(* Frames.                                                                 *)

glKosBeginFrame ==
    /\ Between /\ ~RenderInit /\ frames < MaxFrames
    /\ VERTICES' = 0
    /\ RenderInit' = TRUE
    /\ BLEND_MODE' = IF kglxDirtyDirty THEN OP ELSE BLEND_MODE
    /\ kglxDirtyDirty' = FALSE
    /\ frames' = frames + 1
    /\ UNCHANGED <<VERTEX_BUFFER, lists, flags, GL_BIND_TEX, textures, scene, given>>

\* The chip's reading of a range: each vertex makes a triangle with the two
\* before it, unless a strip ended at one of those.
Strips(first, n) ==
    {{VERTEX_BUFFER[i].point, VERTEX_BUFFER[i + 1].point, VERTEX_BUFFER[i + 2].point} :
       i \in {j \in first .. first + n - 3 :
                VERTEX_BUFFER[j].flag = VERTEX /\ VERTEX_BUFFER[j + 1].flag = VERTEX}}

Sent(l) == [i \in 1 .. RSIZE[l] |->
              LET node == VERT_LIST[l][i - 1]
              IN  [image |-> node.image, faces |-> Strips(node.vertex, node.vertices)]]

\* RenderCallback sends both lists and empties them.
glKosFinishFrame ==
    /\ Between /\ RenderInit
    /\ scene' = [l \in Lists |-> Sent(l)]
    /\ RSIZE' = [l \in Lists |-> 0]
    /\ RenderInit' = FALSE
    /\ UNCHANGED <<buffer, VERT_LIST, BLEND_MODE, flags, GL_BIND_TEX, textures,
                   kglxDirtyDirty, given, frames>>

-----------------------------------------------------------------------------
Next == \/ glGenTextures
        \/ \E t \in 1 .. Len(ids) : glBindTexture(t)
        \/ \E d \in Images : glKosTex2D(d)
        \/ EnableBlend \/ DisableBlend \/ DisableTexture \/ glKosFinishList
        \/ \E m \in Modes : glBegin(m)
        \/ \E v \in Points : glVertex(v)
        \/ glEnd
        \/ \E m \in Modes, n \in 1 .. MaxVertices : glDrawArrays(m, n)
        \/ \E v \in Points : TransformTri(v) \/ TransformStrip(v) \/ TransformLast(v)
        \/ ArraysEnd
        \/ glKosBeginFrame \/ glKosFinishFrame

Spec == Init /\ [][Next]_vars

-----------------------------------------------------------------------------
(* Properties.                                                             *)

Node == [list : Lists, image : Images \cup {NoImage},
         vertex : 0 .. MaxVertices, vertices : 0 .. MaxVertices]

TypeOK ==
    /\ VERTEX_BUFFER \in [Slots -> [point : Points \cup {NoImage}, flag : {VERTEX, EOL}]]
    /\ VERTICES \in 0 .. MaxVertices
    /\ VERT_LIST \in [Lists -> [0 .. MaxNodes - 1 -> Node]]
    /\ RSIZE \in [Lists -> 0 .. MaxNodes]
    /\ BLEND_MODE \in Lists
    /\ GL_PRIMITIVE \in Modes \cup {"none"}
    /\ flag_iterator \in {NoFlag} \cup [ring : {3}, at : 0 .. 2] \cup [ring : {4}, at : 0 .. 3]
    /\ quad_index \in 0 .. 3
    /\ GL_BIND_TEX \in BOOLEAN /\ RenderInit \in BOOLEAN /\ kglxDirtyDirty \in BOOLEAN
    /\ TexArr \in [0 .. MaxTextures - 1 -> Images \cup {NoImage}]
    /\ Textures \in 1 .. MaxTextures /\ TexIndex \in 1 .. MaxTextures
    /\ ids \in Seq(1 .. MaxTextures - 1) /\ bound \in Nat \ {0}
    /\ prim \in [mode : Modes \cup {"none"}, points : Seq(Points)]
    /\ left \in {NoArray} \cup 0 .. MaxVertices
    /\ frames \in 0 .. MaxFrames

\* Every texture of the program has a name of its own, none has the name 0
\* of what is not textured, and no name has an image before it is given.
NamesInv ==
    /\ ids = [t \in 1 .. Textures - 1 |-> t]
    /\ \A t \in Textures .. MaxTextures - 1 : TexArr[t] = NoImage
    /\ bound = TexIndex /\ bound \in 1 .. MaxTextures
    /\ bound > Len(ids) => bound = 1 /\ ~GL_BIND_TEX

\* Between primitives the rings stand at their beginnings, and outside of
\* frames there are no nodes.
RestInv ==
    /\ Between => /\ quad_index = 0 /\ left = NoArray
                  /\ flag_iterator \in {NoFlag, TriFlag, QuadFlag}
    /\ ~RenderInit => Between /\ \A l \in Lists : RSIZE[l] = 0

Open == VERT_LIST[BLEND_MODE][RSIZE[BLEND_MODE]]

\* How many vertices are still to come: of the polygon, or of the array.
ToCome == IF left # NoArray THEN left
          ELSE IF Len(prim.points) % Group(prim.mode) = 0 THEN 0
          ELSE Group(prim.mode) - (Len(prim.points) % Group(prim.mode))

\* Inside a primitive: the node counts what was given, and the rings are
\* where the number of vertices says.
OpenInv ==
    ~Between =>
      /\ prim.mode \in Modes
      /\ RSIZE[BLEND_MODE] < MaxNodes
      /\ Open.vertices = Len(prim.points)
      /\ Open.vertex + Open.vertices = VERTICES
      /\ VERTICES + ToCome <= MaxVertices
      /\ quad_index = IF prim.mode = "GL_QUADS" THEN Len(prim.points) % 4 ELSE 0
      /\ prim.mode = "GL_TRIANGLES" =>
           /\ GL_PRIMITIVE = prim.mode
           /\ flag_iterator = [ring |-> 3, at |-> Len(prim.points) % 3]
           /\ left # NoArray => (Len(prim.points) + left) % 3 = 0
      /\ prim.mode = "GL_QUADS" =>
           /\ GL_PRIMITIVE = prim.mode
           /\ flag_iterator = [ring |-> 4, at |-> Len(prim.points) % 4]
           /\ left = NoArray
      /\ prim.mode = "GL_TRIANGLE_STRIP" /\ left = NoArray =>
           /\ GL_PRIMITIVE = prim.mode
           /\ flag_iterator = [ring |-> 4, at |-> Len(prim.points) % 4]
           /\ Len(prim.points) <= 4
      /\ prim.mode = "GL_TRIANGLE_STRIP" /\ left # NoArray =>
           flag_iterator \in {NoFlag, TriFlag, QuadFlag}
      /\ left # NoArray => Len(prim.points) + left > 0

\* Where in its node the program's vertex k is, counted from 0, and where in
\* the node strips end.
Offset(k) == IF prim.mode # "GL_QUADS" THEN k
             ELSE CASE k % 4 = 0 -> k + 1 [] k % 4 = 1 -> k - 1 [] OTHER -> k

Ends(j) == \/ prim.mode = "GL_TRIANGLES" /\ j % 3 = 2
           \/ prim.mode = "GL_QUADS" /\ j % 4 = 3
           \/ prim.mode = "GL_TRIANGLE_STRIP" /\ left = NoArray /\ j = 3
           \/ prim.mode = "GL_TRIANGLE_STRIP" /\ left = 0 /\ j = Len(prim.points) - 1

\* What was given is in its place, with the flag of the place.
ContentInv ==
    ~Between =>
      \A k \in 0 .. Len(prim.points) - 1 :
         VERTEX_BUFFER[Open.vertex + Offset(k)] =
           [point |-> prim.points[k + 1], flag |-> IF Ends(Offset(k)) THEN EOL ELSE VERTEX]

\* The vertices of closed nodes are in front of those still to be written.
ClosedInv ==
    \A l \in Lists : \A i \in 0 .. RSIZE[l] - 1 :
       VERT_LIST[l][i].vertex + VERT_LIST[l][i].vertices
         <= (IF Between THEN VERTICES ELSE Open.vertex)

\* A frame is kept as its primitives need it (glBegin, glVertex, glEnd,
\* glDrawArrays): names, nodes, rings and vertices fit together, and no
\* table is written past its end.
Inv == TypeOK /\ NamesInv /\ RestInv /\ OpenInv /\ ContentInv /\ ClosedInv

\* The nodes of a frame share no slot of the buffer, and the strips of each
\* end in it (glBegin, glPreStack and glEnd set the pointers; the flags of
\* glVertex, Transform and TransformLast).
StandApart ==
    \A l, m \in Lists : \A i \in 0 .. RSIZE[l] - 1, j \in 0 .. RSIZE[m] - 1 :
       LET a == VERT_LIST[l][i]
           b == VERT_LIST[m][j]
       IN  /\ a.vertices > 0
           /\ VERTEX_BUFFER[a.vertex + a.vertices - 1].flag = EOL
           /\ \/ <<l, i>> = <<m, j>>
              \/ a.vertex + a.vertices <= b.vertex
              \/ b.vertex + b.vertices <= a.vertex

\* What the program is promised, and how far the code is with it: a node
\* below RSIZE stands for a primitive of the frame, the one at RSIZE for the
\* primitive being given.
Promise == INSTANCE DisplayList WITH
    image <- [t \in 1 .. Len(ids) |-> TexArr[ids[t]]],
    current <- bound,
    textured <- GL_BIND_TEX,
    transparent <- (BLEND_MODE = TR),
    resets <- kglxDirtyDirty,
    drawing <- RenderInit,
    prim <- IF Between THEN [mode |-> "none", points |-> <<>>, image |-> NoImage]
            ELSE [mode |-> prim.mode, points |-> prim.points,
                  image |-> VERT_LIST[BLEND_MODE][RSIZE[BLEND_MODE]].image],
    frame <- [opaque |-> Sent(OP), transparent |-> Sent(TR)],
    shown <- [opaque |-> scene[OP], transparent |-> scene[TR]]

\* The program sees what it drew: every frame shows the faces of its
\* primitives with the images their textures had at glBegin, in two lists
\* (glBegin to RenderCallback implement DisplayList).
Shows == Promise!Spec
=============================================================================
