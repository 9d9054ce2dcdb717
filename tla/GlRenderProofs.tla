--------------------------- MODULE GlRenderProofs ----------------------------
EXTENDS GlRender, TLAPS

(* What an action on textures, blending and frames leaves as it is.         *)
LEMMA QuietStep ==
  ASSUME Inv, Between, prim' = prim, left' = left,
         UNCHANGED <<VERTEX_BUFFER, VERT_LIST, RSIZE, quad_index, flag_iterator>>,
         VERTICES' = VERTICES \/ \A l \in Lists : RSIZE[l] = 0,
         RenderInit' \/ ~RenderInit
  PROVE  RestInv' /\ OpenInv' /\ ContentInv' /\ ClosedInv'
<1>1. Between'
  BY DEF Between
<1>2. RestInv'
  BY <1>1 DEF Inv, RestInv, Between
<1>3. OpenInv' /\ ContentInv'
  BY <1>1 DEF OpenInv, ContentInv
<1>4. ClosedInv'
  BY <1>1 DEF Inv, ClosedInv, Lists, OP, TR
<1> QED
  BY <1>2, <1>3, <1>4

LEMMA InvInit == Init => Inv
<1> SUFFICES ASSUME Init PROVE Inv
  OBVIOUS
<1>1. TypeOK
  <2>1. VERTEX_BUFFER \in [Slots -> [point : Points \cup {NoImage}, flag : {VERTEX, EOL}]]
    BY DEF Init, VERTEX, EOL
  <2>2. VERT_LIST \in [Lists -> [0 .. MaxNodes - 1 -> Node]]
    BY SizeAssumption DEF Init, Node, Lists, OP, TR
  <2>3. RSIZE \in [Lists -> 0 .. MaxNodes]
    BY SizeAssumption DEF Init
  <2>4. TexArr \in [0 .. MaxTextures - 1 -> Images \cup {NoImage}]
    BY DEF Init
  <2>5. ids \in Seq(1 .. MaxTextures - 1)
    BY DEF Init
  <2>6. prim \in [mode : Modes \cup {"none"}, points : Seq(Points)]
    BY DEF Init, NoPrim
  <2>7. GL_BIND_TEX \in BOOLEAN /\ RenderInit \in BOOLEAN /\ kglxDirtyDirty \in BOOLEAN
    BY Zenon DEF Init
  <2>8. /\ VERTICES \in 0 .. MaxVertices
        /\ quad_index \in 0 .. 3
        /\ Textures \in 1 .. MaxTextures /\ TexIndex \in 1 .. MaxTextures
        /\ bound \in Nat \ {0}
        /\ left \in {NoArray} \cup 0 .. MaxVertices
        /\ frames \in 0 .. MaxFrames
    BY SizeAssumption DEF Init
  <2>9. /\ BLEND_MODE \in Lists
        /\ GL_PRIMITIVE \in Modes \cup {"none"}
        /\ flag_iterator \in {NoFlag} \cup [ring : {3}, at : 0 .. 2]
                                      \cup [ring : {4}, at : 0 .. 3]
    BY DEF Init, Lists
  <2> QED
    BY <2>1, <2>2, <2>3, <2>4, <2>5, <2>6, <2>7, <2>8, <2>9 DEF TypeOK
<1>2. NamesInv
  BY SizeAssumption DEF Init, NamesInv
<1>3. Between /\ RestInv /\ OpenInv /\ ContentInv
  BY DEF Init, Between, RestInv, OpenInv, ContentInv, NoArray
<1>4. ClosedInv
  BY DEF Init, ClosedInv
<1> QED
  BY <1>1, <1>2, <1>3, <1>4 DEF Inv

(* Names and blending.                                                      *)
LEMMA TextureSteps ==
  ASSUME Inv,
         glGenTextures \/ (\E t \in 1 .. Len(ids) : glBindTexture(t))
                       \/ (\E d \in Images : glKosTex2D(d))
                       \/ EnableBlend \/ DisableBlend \/ DisableTexture \/ glKosFinishList
  PROVE  Inv'
<1> USE SizeAssumption DEF Inv, TypeOK, NamesInv, buffer, lists, flags, textures, given
<1>1. CASE glGenTextures
  <2>1. ids' = [t \in 1 .. Textures' - 1 |-> t] /\ Len(ids') = Len(ids) + 1
    BY <1>1 DEF glGenTextures
  <2>2. TypeOK'
    BY <1>1 DEF glGenTextures
  <2>3. NamesInv'
    BY <1>1, <2>1 DEF glGenTextures
  <2> QED
    BY <1>1, <2>2, <2>3, QuietStep DEF glGenTextures
<1>2. ASSUME NEW t \in 1 .. Len(ids), glBindTexture(t) PROVE Inv'
  <2>0. GL_BIND_TEX' \in BOOLEAN
    BY <1>2, Zenon DEF glBindTexture
  <2>1. TypeOK'
    BY <1>2, <2>0 DEF glBindTexture
  <2>2. NamesInv'
    BY <1>2 DEF glBindTexture
  <2> QED
    BY <1>2, <2>1, <2>2, QuietStep DEF glBindTexture
<1>3. ASSUME NEW d \in Images, glKosTex2D(d) PROVE Inv'
  <2>1. TexIndex \in 1 .. Textures - 1
    BY <1>3 DEF glKosTex2D
  <2>2. TypeOK'
    BY <1>3, <2>1 DEF glKosTex2D
  <2>3. NamesInv'
    BY <1>3, <2>1 DEF glKosTex2D
  <2> QED
    BY <1>3, <2>2, <2>3, QuietStep DEF glKosTex2D
<1>4. CASE EnableBlend
  <2>1. TypeOK' /\ NamesInv'
    BY <1>4 DEF EnableBlend, Lists
  <2> QED
    BY <1>4, <2>1, QuietStep DEF EnableBlend
<1>5. CASE DisableBlend
  <2>1. TypeOK' /\ NamesInv'
    BY <1>5 DEF DisableBlend, Lists
  <2> QED
    BY <1>5, <2>1, QuietStep DEF DisableBlend
<1>6. CASE DisableTexture
  <2>1. TypeOK' /\ NamesInv'
    BY <1>6 DEF DisableTexture
  <2> QED
    BY <1>6, <2>1, QuietStep DEF DisableTexture
<1>7. CASE glKosFinishList
  <2>1. TypeOK' /\ NamesInv'
    BY <1>7 DEF glKosFinishList, Lists
  <2> QED
    BY <1>7, <2>1, QuietStep DEF glKosFinishList
<1> QED
  BY <1>1, <1>2, <1>3, <1>4, <1>5, <1>6, <1>7

(* A node is begun behind the vertices of the closed ones.                  *)
LEMMA OpenStep ==
  ASSUME Inv, Between, ~Between', RSIZE[BLEND_MODE] < MaxNodes, OpenNode,
         UNCHANGED <<BLEND_MODE, RSIZE, VERTICES>>
  PROVE  /\ VERT_LIST' \in [Lists -> [0 .. MaxNodes - 1 -> Node]]
         /\ Open'.vertex = VERTICES /\ Open'.vertices = 0
         /\ ClosedInv'
<1> DEFINE node == [list |-> Header.list, image |-> Header.image,
                    vertex |-> VERTICES, vertices |-> 0]
<1> USE SizeAssumption
<1>1. Header.list \in Lists /\ Header.image \in Images \cup {NoImage}
  <2>1. CASE GL_BIND_TEX
    <3>1. TexIndex \in 0 .. MaxTextures - 1
      BY <2>1 DEF Inv, TypeOK, NamesInv
    <3> QED
      BY <2>1, <3>1 DEF Header, Inv, TypeOK, Lists
  <2>2. CASE ~GL_BIND_TEX
    BY <2>2 DEF Header, Inv, TypeOK
  <2> QED
    BY <2>1, <2>2
<1>2. node \in Node
  BY <1>1 DEF Node, Inv, TypeOK
<1>3. RSIZE[BLEND_MODE] \in 0 .. MaxNodes - 1 /\ BLEND_MODE \in Lists
  BY DEF Inv, TypeOK
<1>4. VERT_LIST' = [VERT_LIST EXCEPT ![BLEND_MODE][RSIZE[BLEND_MODE]] = node]
  BY DEF OpenNode
<1> HIDE DEF node
<1>5. VERT_LIST' \in [Lists -> [0 .. MaxNodes - 1 -> Node]]
  BY <1>2, <1>3, <1>4 DEF Inv, TypeOK
<1>6. Open' = node
  BY <1>3, <1>4 DEF Open, Inv, TypeOK
<1>7. ASSUME NEW l \in Lists, NEW i \in 0 .. RSIZE[l] - 1
      PROVE  VERT_LIST'[l][i] = VERT_LIST[l][i]
  <2>1. i \in 0 .. MaxNodes - 1 /\ <<l, i>> # <<BLEND_MODE, RSIZE[BLEND_MODE]>>
    BY DEF Inv, TypeOK
  <2> QED
    BY <1>3, <1>4, <2>1 DEF Inv, TypeOK
<1>8. ClosedInv'
  BY <1>6, <1>7 DEF ClosedInv, Inv, node
<1> QED
  BY <1>5, <1>6, <1>8 DEF node

(* The primitive that has just been begun.                                  *)
LEMMA BeginSteps ==
  ASSUME Inv,
         (\E m \in Modes : glBegin(m))
           \/ \E m \in Modes, n \in 1 .. MaxVertices : glDrawArrays(m, n)
  PROVE  Inv'
<1> USE SizeAssumption DEF Inv, TypeOK, buffer, lists, flags, textures, given
<1>1. ASSUME NEW m \in Modes, glBegin(m) PROVE Inv'
  <2> USE <1>1 DEF glBegin, Given
  <2>1. prim' = [mode |-> m, points |-> <<>>] /\ Len(prim'.points) = 0 /\ m # "none"
    BY DEF Modes
  <2>2. ~Between'
    BY <2>1 DEF Between, NoPrim
  <2>3. /\ VERT_LIST' \in [Lists -> [0 .. MaxNodes - 1 -> Node]]
        /\ Open'.vertex = VERTICES /\ Open'.vertices = 0
        /\ ClosedInv'
    BY <2>2, OpenStep
  <2>4. quad_index = 0 /\ left = NoArray /\ RenderInit
    BY DEF RestInv
  <2>5. flag_iterator' \in {NoFlag} \cup [ring : {3}, at : 0 .. 2]
                                    \cup [ring : {4}, at : 0 .. 3]
    BY DEF TriFlag, QuadFlag, Modes
  <2>6. TypeOK'
    BY <2>1, <2>3, <2>5
  <2>7. NamesInv' /\ RestInv'
    BY <2>2, <2>4 DEF NamesInv, RestInv
  <2>8. OpenInv'
    BY <2>1, <2>3, <2>4 DEF OpenInv, ToCome, Group, TriFlag, QuadFlag, Modes, NoArray
  <2>9. ContentInv'
    BY <2>1 DEF ContentInv
  <2> QED
    BY <2>3, <2>6, <2>7, <2>8, <2>9
<1>2. ASSUME NEW m \in Modes, NEW n \in 1 .. MaxVertices, glDrawArrays(m, n) PROVE Inv'
  <2> USE <1>2 DEF glDrawArrays, Given
  <2>1. prim' = [mode |-> m, points |-> <<>>] /\ Len(prim'.points) = 0 /\ m # "none"
    BY DEF Modes
  <2>2. ~Between'
    BY <2>1 DEF Between, NoPrim
  <2>3. /\ VERT_LIST' \in [Lists -> [0 .. MaxNodes - 1 -> Node]]
        /\ Open'.vertex = VERTICES /\ Open'.vertices = 0
        /\ ClosedInv'
    BY <2>2, OpenStep
  <2>4. quad_index = 0 /\ RenderInit /\ flag_iterator \in {NoFlag, TriFlag, QuadFlag}
    BY DEF RestInv
  <2>5. flag_iterator' \in {NoFlag} \cup [ring : {3}, at : 0 .. 2]
                                    \cup [ring : {4}, at : 0 .. 3]
    BY DEF TriFlag
  <2>6. TypeOK'
    BY <2>1, <2>3, <2>5
  <2>7. NamesInv' /\ RestInv'
    BY <2>2, <2>4 DEF NamesInv, RestInv
  <2>8. OpenInv'
    BY <2>1, <2>3, <2>4 DEF OpenInv, ToCome, Group, TriFlag, QuadFlag, Modes, NoArray
  <2>9. ContentInv'
    BY <2>1 DEF ContentInv
  <2> QED
    BY <2>3, <2>6, <2>7, <2>8, <2>9
<1> QED
  BY <1>1, <1>2

(* No two vertices of a primitive have the same place.                      *)
LEMMA OffsetInjective ==
  ASSUME NEW j \in Nat, NEW k \in Nat, j # k
  PROVE  Offset(j) # Offset(k) /\ Offset(j) \in Nat
  BY DEF Offset

(* What holds of the open node and the primitive being given.               *)
LEMMA OpenFacts ==
  ASSUME Inv, ~Between
  PROVE  /\ prim \in [mode : Modes \cup {"none"}, points : Seq(Points)]
         /\ prim.mode \in Modes /\ Len(prim.points) \in Nat
         /\ BLEND_MODE \in Lists /\ RSIZE[BLEND_MODE] \in 0 .. MaxNodes - 1
         /\ Open \in Node
         /\ Open.vertex \in Nat /\ Open.vertices = Len(prim.points)
         /\ Open.vertex + Len(prim.points) = VERTICES
         /\ VERTICES \in 0 .. MaxVertices
<1> USE SizeAssumption
<1>1. /\ prim \in [mode : Modes \cup {"none"}, points : Seq(Points)]
      /\ VERTICES \in 0 .. MaxVertices
      /\ BLEND_MODE \in Lists /\ RSIZE[BLEND_MODE] \in 0 .. MaxNodes
      /\ VERT_LIST \in [Lists -> [0 .. MaxNodes - 1 -> Node]]
  BY DEF Inv, TypeOK
<1>2. Len(prim.points) \in Nat
  BY <1>1
<1>3. /\ prim.mode \in Modes /\ RSIZE[BLEND_MODE] < MaxNodes
      /\ Open.vertices = Len(prim.points)
      /\ Open.vertex + Open.vertices = VERTICES
  BY DEF Inv, OpenInv
<1>4. RSIZE[BLEND_MODE] \in 0 .. MaxNodes - 1
  BY <1>1, <1>3
<1>5. Open \in Node
  BY <1>1, <1>4 DEF Open
<1>6. Open.vertex \in Nat
  BY <1>5 DEF Node
<1> QED
  BY <1>1, <1>2, <1>3, <1>4, <1>5, <1>6

(* The primitive with one vertex more.                                      *)
LEMMA Given1 ==
  ASSUME prim \in [mode : Modes \cup {"none"}, points : Seq(Points)],
         NEW v \in Points, prim' = [prim EXCEPT !.points = Append(@, v)]
  PROVE  /\ prim' \in [mode : Modes \cup {"none"}, points : Seq(Points)]
         /\ prim'.mode = prim.mode
         /\ prim'.points = Append(prim.points, v)
         /\ Len(prim'.points) = Len(prim.points) + 1
         /\ prim'.points[Len(prim.points) + 1] = v
         /\ \A k \in 1 .. Len(prim.points) : prim'.points[k] = prim.points[k]
<1>1. prim'.mode = prim.mode /\ prim'.points = Append(prim.points, v)
  OBVIOUS
<1>2. prim.points \in Seq(Points) /\ Append(prim.points, v) \in Seq(Points)
  OBVIOUS
<1>3. prim' \in [mode : Modes \cup {"none"}, points : Seq(Points)]
  BY <1>2
<1> QED
  BY <1>1, <1>2, <1>3

(* A vertex is added to the primitive: what that changes, and the closed    *)
(* nodes it does not touch.                                                 *)
LEMMA StoreStep ==
  ASSUME Inv, ~Between, NEW slot \in Slots, slot >= Open.vertex, VERTICES < MaxVertices,
         NEW v \in Points, NEW flag \in {VERTEX, EOL}, Store(slot, v, flag),
         UNCHANGED <<BLEND_MODE, RSIZE>>
  PROVE  /\ ~Between'
         /\ VERTEX_BUFFER' \in [Slots -> [point : Points \cup {NoImage}, flag : {VERTEX, EOL}]]
         /\ VERT_LIST' \in [Lists -> [0 .. MaxNodes - 1 -> Node]]
         /\ prim' \in [mode : Modes \cup {"none"}, points : Seq(Points)]
         /\ prim'.mode = prim.mode /\ Len(prim'.points) = Len(prim.points) + 1
         /\ Open'.vertex = Open.vertex /\ Open'.vertices = Open.vertices + 1
         /\ Open'.image = Open.image
         /\ ClosedInv'
         /\ \A l \in Lists : \A i \in 0 .. RSIZE[l] - 1 : VERT_LIST'[l][i] = VERT_LIST[l][i]
<1> USE SizeAssumption
<1>1. /\ prim' \in [mode : Modes \cup {"none"}, points : Seq(Points)]
      /\ prim'.mode = prim.mode /\ Len(prim'.points) = Len(prim.points) + 1
  BY OpenFacts, Given1 DEF Store
<1>2. ~Between'
  <2>1. prim'.mode \in Modes
    BY <1>1, OpenFacts
  <2> QED
    BY <2>1 DEF Between, NoPrim, Modes
<1>3. VERTEX_BUFFER' \in [Slots -> [point : Points \cup {NoImage}, flag : {VERTEX, EOL}]]
  BY DEF Store, Inv, TypeOK
<1>4. /\ RSIZE[BLEND_MODE] \in 0 .. MaxNodes - 1 /\ BLEND_MODE \in Lists
      /\ Open \in Node /\ Open.vertices + 1 \in 0 .. MaxVertices
  BY OpenFacts
<1>5. VERT_LIST' = [VERT_LIST EXCEPT ![BLEND_MODE][RSIZE[BLEND_MODE]] =
                      [Open EXCEPT !.vertices = @ + 1]]
  BY <1>4 DEF Store, Open, Inv, TypeOK
<1>6. [Open EXCEPT !.vertices = @ + 1] \in Node
  BY <1>4 DEF Node
<1>7. VERT_LIST' \in [Lists -> [0 .. MaxNodes - 1 -> Node]]
  BY <1>4, <1>5, <1>6 DEF Inv, TypeOK
<1>8. /\ Open'.vertex = Open.vertex /\ Open'.vertices = Open.vertices + 1
      /\ Open'.image = Open.image
  <2>1. Open' = [Open EXCEPT !.vertices = @ + 1]
    BY <1>4, <1>5 DEF Inv, TypeOK, Open
  <2> QED
    BY <2>1, <1>4 DEF Node
<1>9. ASSUME NEW l \in Lists, NEW i \in 0 .. RSIZE[l] - 1
      PROVE  VERT_LIST'[l][i] = VERT_LIST[l][i]
  <2>1. i \in 0 .. MaxNodes - 1 /\ <<l, i>> # <<BLEND_MODE, RSIZE[BLEND_MODE]>>
    BY DEF Inv, TypeOK
  <2> QED
    BY <1>4, <1>5, <2>1 DEF Inv, TypeOK
<1>10. ClosedInv'
  BY <1>2, <1>8, <1>9 DEF ClosedInv, Inv
<1> QED
  BY <1>1, <1>2, <1>3, <1>7, <1>8, <1>9, <1>10

(* ... and the vertices given before stay where they are.                   *)
LEMMA ContentStep ==
  ASSUME Inv, ~Between, VERTICES < MaxVertices,
         NEW v \in Points, NEW flag \in {VERTEX, EOL},
         Open.vertex + Offset(Len(prim.points)) \in Slots,
         Store(Open.vertex + Offset(Len(prim.points)), v, flag),
         UNCHANGED <<BLEND_MODE, RSIZE>>,
         left = NoArray => left' = NoArray,
         left # NoArray => left > 0 /\ left' = left - 1,
         flag = IF \/ Ends(Offset(Len(prim.points)))
                   \/ prim.mode = "GL_TRIANGLE_STRIP" /\ left = 1
                THEN EOL ELSE VERTEX
  PROVE  ContentInv'
<1> DEFINE n == Len(prim.points)
           Slot(k) == Open.vertex + Offset(k)
           Flag(k) == IF Ends(Offset(k)) THEN EOL ELSE VERTEX
<1> USE SizeAssumption
<1>1. /\ n \in Nat /\ Open.vertex \in Nat /\ prim.mode \in Modes
      /\ prim \in [mode : Modes \cup {"none"}, points : Seq(Points)]
      /\ left \in {NoArray} \cup 0 .. MaxVertices
      /\ VERTEX_BUFFER \in [Slots -> [point : Points \cup {NoImage}, flag : {VERTEX, EOL}]]
  BY OpenFacts DEF Inv, TypeOK
<1>2. Slot(n) >= Open.vertex
  <2>1. Offset(n) \in Nat
    BY <1>1 DEF Offset
  <2> QED
    BY <1>1, <2>1
<1>3. /\ ~Between' /\ Open'.vertex = Open.vertex
      /\ prim'.mode = prim.mode /\ Len(prim'.points) = n + 1
  BY <1>2, StoreStep
<1>4. ASSUME NEW k \in 0 .. n
      PROVE  VERTEX_BUFFER'[Slot(k)] =
               [point |-> prim'.points[k + 1],
                flag |-> IF Ends(Offset(k))' THEN EOL ELSE VERTEX]
  <2>1. CASE k = n
    <3>1. prim'.points[n + 1] = v
      BY <1>1, Given1 DEF Store
    <3>2. VERTEX_BUFFER'[Slot(n)] = [point |-> v, flag |-> flag]
      BY <1>1 DEF Store
    <3>3. Ends(Offset(k))' <=> (Ends(Offset(n)) \/ (prim.mode = "GL_TRIANGLE_STRIP" /\ left = 1))
      <4>1. CASE prim.mode = "GL_TRIANGLE_STRIP" /\ left = NoArray
        BY <1>1, <1>3, <2>1, <4>1 DEF Ends, Offset, NoArray
      <4>2. CASE prim.mode = "GL_TRIANGLE_STRIP" /\ left # NoArray
        BY <1>1, <1>3, <2>1, <4>2 DEF Ends, Offset, NoArray
      <4>3. CASE prim.mode = "GL_TRIANGLES"
        BY <1>3, <2>1, <4>3 DEF Ends, Offset
      <4>4. CASE prim.mode = "GL_QUADS"
        BY <1>3, <2>1, <4>4 DEF Ends, Offset
      <4> QED
        BY <1>1, <4>1, <4>2, <4>3, <4>4 DEF Modes
    <3> QED
      BY <2>1, <3>1, <3>2, <3>3
  <2>2. CASE k < n
    <3>1. prim'.points[k + 1] = prim.points[k + 1]
      BY <1>1, <2>2, Given1 DEF Store
    <3>2. Slot(k) # Slot(n)
      BY <1>1, <2>2, OffsetInjective
    <3>3. VERTEX_BUFFER[Slot(k)] = [point |-> prim.points[k + 1], flag |-> Flag(k)]
      BY <1>1, <2>2 DEF Inv, ContentInv
    <3>4. VERTEX_BUFFER'[Slot(k)] = VERTEX_BUFFER[Slot(k)]
      <4>1. Slot(k) \in Slots \/ Slot(k) \notin Slots
        OBVIOUS
      <4> QED
        BY <1>1, <3>2 DEF Store
    <3>5. Ends(Offset(k))' <=> Ends(Offset(k))
      BY <1>1, <1>3, <2>2 DEF Ends, Offset, NoArray, Modes
    <3> QED
      BY <3>1, <3>3, <3>4, <3>5
  <2> QED
    BY <1>1, <2>1, <2>2
<1>5. \A k : Offset(k)' = Offset(k)
  BY <1>3 DEF Offset
<1> QED
  BY <1>1, <1>3, <1>4, <1>5 DEF ContentInv

LEMMA Mod3 ==
  ASSUME NEW k \in Nat
  PROVE  k % 3 \in 0 .. 2 /\ (k + 1) % 3 = IF k % 3 = 2 THEN 0 ELSE (k % 3) + 1
  OBVIOUS

LEMMA Mod4 ==
  ASSUME NEW k \in Nat
  PROVE  /\ k % 4 \in 0 .. 3
         /\ (k + 1) % 4 = IF k % 4 = 3 THEN 0 ELSE (k % 4) + 1
         /\ k % 4 # 0 => k - 1 \in Nat /\ (k - 1) % 4 = (k % 4) - 1
  OBVIOUS

(* Room for the polygon is room for its next vertex, a quad's too, whose      *)
(* vertices are stored one place on or back.                                *)
LEMMA RoomForGroup ==
  ASSUME NEW k \in Nat, NEW g \in {3, 4}, NEW base \in Nat,
         base + k + (IF k % g = 0 THEN g ELSE g - (k % g)) <= MaxVertices
  PROVE  /\ base + k < MaxVertices
         /\ g = 4 => /\ k % 4 = 0 => base + k + 1 \in Slots
                     /\ k % 4 = 1 => base + k - 1 \in Slots
         /\ base + k \in Slots
         /\ base + (k + 1) + (IF (k + 1) % g = 0 THEN 0 ELSE g - ((k + 1) % g)) <= MaxVertices
<1> USE SizeAssumption
<1>1. CASE g = 3
  BY <1>1, Mod3 DEF Slots
<1>2. CASE g = 4
  BY <1>2, Mod4 DEF Slots
<1> QED
  BY <1>1, <1>2

(* The rings turn with the vertices.                                        *)
LEMMA RingTurns ==
  ASSUME NEW k \in Nat
  PROVE  /\ NextFlag([ring |-> 3, at |-> k % 3]) = [ring |-> 3, at |-> (k + 1) % 3]
         /\ NextFlag([ring |-> 4, at |-> k % 4]) = [ring |-> 4, at |-> (k + 1) % 4]
         /\ FlagOf([ring |-> 3, at |-> k % 3]) = IF k % 3 = 2 THEN EOL ELSE VERTEX
         /\ FlagOf([ring |-> 4, at |-> k % 4]) = IF k % 4 = 3 THEN EOL ELSE VERTEX
  BY Mod3, Mod4 DEF NextFlag, FlagOf

(* What the guard of glVertex says of an open primitive, and where its      *)
(* rings are.                                                               *)
LEMMA VertexFacts ==
  ASSUME Inv, NEW v \in Points, glVertex(v)
  PROVE  LET n == Len(prim.points)
             g == Group(prim.mode)
         IN  /\ ~Between /\ left = NoArray
             /\ GL_PRIMITIVE = prim.mode /\ g \in {3, 4}
             /\ g = 3 <=> prim.mode = "GL_TRIANGLES"
             /\ quad_index = IF prim.mode = "GL_QUADS" THEN n % 4 ELSE 0
             /\ prim.mode = "GL_TRIANGLES" => flag_iterator = [ring |-> 3, at |-> n % 3]
             /\ prim.mode # "GL_TRIANGLES" => flag_iterator = [ring |-> 4, at |-> n % 4]
             /\ prim.mode = "GL_TRIANGLE_STRIP" => n < 4
             /\ Open.vertex + n + (IF n % g = 0 THEN g ELSE g - (n % g)) <= MaxVertices
<1> DEFINE n == Len(prim.points)
           g == Group(prim.mode)
<1>1. ~Between /\ left = NoArray
  BY DEF glVertex
<1>2. /\ n \in Nat /\ prim.mode \in Modes /\ Open.vertex \in Nat
      /\ VERTICES = Open.vertex + n
  BY <1>1, OpenFacts
<1>3. g \in {3, 4} /\ (g = 3 <=> prim.mode = "GL_TRIANGLES")
  BY DEF Group
<1>4. /\ GL_PRIMITIVE = prim.mode
      /\ quad_index = IF prim.mode = "GL_QUADS" THEN n % 4 ELSE 0
      /\ prim.mode = "GL_TRIANGLES" => flag_iterator = [ring |-> 3, at |-> n % 3]
      /\ prim.mode # "GL_TRIANGLES" => flag_iterator = [ring |-> 4, at |-> n % 4]
  BY <1>1, <1>2 DEF Inv, OpenInv, Modes
<1>5. prim.mode = "GL_TRIANGLE_STRIP" => n < 4
  BY DEF glVertex
<1>6. Open.vertex + n + (IF n % g = 0 THEN g ELSE g - (n % g)) <= MaxVertices
  <2>1. CASE n % g = 0
    BY <1>2, <2>1 DEF glVertex
  <2>2. CASE n % g # 0
    <3>1. VERTICES + ToCome <= MaxVertices
      BY <1>1 DEF Inv, OpenInv
    <3>2. ToCome = g - (n % g)
      BY <1>1, <2>2 DEF ToCome
    <3> QED
      BY <1>2, <2>2, <3>1, <3>2
  <2> QED
    BY <2>1, <2>2
<1> QED
  BY <1>1, <1>3, <1>4, <1>5, <1>6

(* The place and the flag of the next vertex.                               *)
LEMMA PlaceOfVertex ==
  ASSUME Inv, NEW v \in Points, glVertex(v)
  PROVE  /\ Place = Open.vertex + Offset(Len(prim.points)) /\ Place \in Slots
         /\ VERTICES < MaxVertices
         /\ FlagOf(flag_iterator) = IF Ends(Offset(Len(prim.points))) THEN EOL ELSE VERTEX
<1> DEFINE n == Len(prim.points)
           g == Group(prim.mode)
           base == Open.vertex
<1>1. /\ n \in Nat /\ prim.mode \in Modes /\ base \in Nat
      /\ VERTICES = base + n /\ ~Between
  BY VertexFacts, OpenFacts
<1>2. /\ left = NoArray /\ GL_PRIMITIVE = prim.mode /\ g \in {3, 4}
      /\ g = 3 <=> prim.mode = "GL_TRIANGLES"
      /\ quad_index = IF prim.mode = "GL_QUADS" THEN n % 4 ELSE 0
      /\ prim.mode = "GL_TRIANGLES" => flag_iterator = [ring |-> 3, at |-> n % 3]
      /\ prim.mode # "GL_TRIANGLES" => flag_iterator = [ring |-> 4, at |-> n % 4]
      /\ prim.mode = "GL_TRIANGLE_STRIP" => n < 4
      /\ base + n + (IF n % g = 0 THEN g ELSE g - (n % g)) <= MaxVertices
  BY VertexFacts
<1>3. /\ base + n < MaxVertices
      /\ g = 4 => /\ n % 4 = 0 => base + n + 1 \in Slots
                  /\ n % 4 = 1 => base + n - 1 \in Slots
      /\ base + n \in Slots
  <2> HIDE DEF n, g, base
  <2> QED
    BY <1>1, <1>2, RoomForGroup
<1>4. /\ VERTICES < MaxVertices
      /\ prim.mode = "GL_QUADS" => /\ n % 4 = 0 => VERTICES + 1 \in Slots
                                   /\ n % 4 = 1 => VERTICES - 1 \in Slots
      /\ VERTICES \in Slots
  <2> HIDE DEF n, g, base
  <2>1. prim.mode = "GL_QUADS" => g = 4
    BY <1>2
  <2> QED
    BY <1>1, <1>3, <2>1
<1>5. Place = base + Offset(n)
  <2> HIDE DEF n, base
  <2>1. CASE prim.mode = "GL_QUADS"
    BY <1>1, <1>2, <2>1 DEF Place, Offset
  <2>2. CASE prim.mode # "GL_QUADS"
    BY <1>1, <1>2, <2>2 DEF Place, Offset
  <2> QED
    BY <2>1, <2>2
<1>6. Place \in Slots
  <2> HIDE DEF n
  <2>1. CASE prim.mode = "GL_QUADS"
    BY <1>2, <1>4, <2>1 DEF Place
  <2>2. CASE prim.mode # "GL_QUADS"
    BY <1>2, <1>4, <2>2 DEF Place
  <2> QED
    BY <2>1, <2>2
<1>7. FlagOf(flag_iterator) = IF Ends(Offset(n)) THEN EOL ELSE VERTEX
  <2> HIDE DEF n
  <2>1. CASE prim.mode = "GL_QUADS"
    <3>1. FlagOf(flag_iterator) = IF n % 4 = 3 THEN EOL ELSE VERTEX
      BY <1>1, <1>2, <2>1, RingTurns
    <3>2. Offset(n) % 4 = 3 <=> n % 4 = 3
      BY <1>1, <2>1, Mod4 DEF Offset
    <3> QED
      BY <2>1, <3>1, <3>2 DEF Ends
  <2>2. CASE prim.mode = "GL_TRIANGLES"
    <3>1. FlagOf(flag_iterator) = IF n % 3 = 2 THEN EOL ELSE VERTEX
      BY <1>1, <1>2, <2>2, RingTurns
    <3> QED
      BY <2>2, <3>1 DEF Ends, Offset
  <2>3. CASE prim.mode = "GL_TRIANGLE_STRIP"
    <3>1. FlagOf(flag_iterator) = IF n % 4 = 3 THEN EOL ELSE VERTEX
      BY <1>1, <1>2, <2>3, RingTurns
    <3>2. n % 4 = 3 <=> n = 3
      BY <1>1, <1>2, <2>3
    <3>3. Ends(Offset(n)) <=> n = 3
      BY <1>1, <1>2, <2>3 DEF Ends, Offset, NoArray
    <3> QED
      BY <3>1, <3>2, <3>3
  <2> QED
    BY <1>1, <2>1, <2>2, <2>3 DEF Modes
<1> QED
  BY <1>4, <1>5, <1>6, <1>7

LEMMA VertexStep ==
  ASSUME Inv, NEW v \in Points, glVertex(v)
  PROVE  Inv'
<1> DEFINE n == Len(prim.points)
           g == Group(prim.mode)
<1> USE SizeAssumption
<1>1. /\ ~Between /\ left = NoArray /\ left' = left
      /\ UNCHANGED <<RSIZE, BLEND_MODE, GL_PRIMITIVE>>
      /\ Store(Place, v, FlagOf(flag_iterator))
      /\ VERTICES' = VERTICES + 1
  BY DEF glVertex, textures, Store
<1>2. /\ Place = Open.vertex + Offset(n) /\ Place \in Slots /\ VERTICES < MaxVertices
      /\ FlagOf(flag_iterator) = IF Ends(Offset(n)) THEN EOL ELSE VERTEX
  BY PlaceOfVertex
<1>3. /\ n \in Nat /\ prim.mode \in Modes /\ Open.vertex \in Nat
      /\ VERTICES = Open.vertex + n /\ Open.vertices = n
      /\ RSIZE[BLEND_MODE] \in 0 .. MaxNodes - 1
  BY <1>1, OpenFacts
<1>4. Place >= Open.vertex
  <2>1. Offset(n) \in Nat
    BY <1>3, OffsetInjective
  <2> HIDE DEF n
  <2> QED
    BY <1>2, <1>3, <2>1
<1>5. /\ ~Between'
      /\ VERTEX_BUFFER' \in [Slots -> [point : Points \cup {NoImage}, flag : {VERTEX, EOL}]]
      /\ VERT_LIST' \in [Lists -> [0 .. MaxNodes - 1 -> Node]]
      /\ prim' \in [mode : Modes \cup {"none"}, points : Seq(Points)]
      /\ prim'.mode = prim.mode /\ Len(prim'.points) = n + 1
      /\ Open'.vertex = Open.vertex /\ Open'.vertices = n + 1
      /\ ClosedInv'
  <2>1. FlagOf(flag_iterator) \in {VERTEX, EOL}
    BY <1>2
  <2> QED
    BY <1>1, <1>2, <1>3, <1>4, <2>1, StoreStep
<1>6. ContentInv'
  <2>1. FlagOf(flag_iterator) \in {VERTEX, EOL}
    BY <1>2
  <2>2. FlagOf(flag_iterator) = IF \/ Ends(Offset(n))
                                   \/ prim.mode = "GL_TRIANGLE_STRIP" /\ left = 1
                                THEN EOL ELSE VERTEX
    BY <1>1, <1>2 DEF NoArray
  <2> QED
    BY <1>1, <1>2, <2>1, <2>2, ContentStep
<1>7. /\ GL_PRIMITIVE = prim.mode /\ g \in {3, 4}
      /\ g = 3 <=> prim.mode = "GL_TRIANGLES"
      /\ quad_index = IF prim.mode = "GL_QUADS" THEN n % 4 ELSE 0
      /\ prim.mode = "GL_TRIANGLES" => flag_iterator = [ring |-> 3, at |-> n % 3]
      /\ prim.mode # "GL_TRIANGLES" => flag_iterator = [ring |-> 4, at |-> n % 4]
      /\ prim.mode = "GL_TRIANGLE_STRIP" => n < 4
      /\ Open.vertex + n + (IF n % g = 0 THEN g ELSE g - (n % g)) <= MaxVertices
  BY VertexFacts
<1>8. /\ prim.mode = "GL_TRIANGLES" => flag_iterator' = [ring |-> 3, at |-> (n + 1) % 3]
      /\ prim.mode # "GL_TRIANGLES" => flag_iterator' = [ring |-> 4, at |-> (n + 1) % 4]
  <2>1. flag_iterator' = NextFlag(flag_iterator)
    BY DEF glVertex
  <2> HIDE DEF n
  <2> QED
    BY <1>3, <1>7, <2>1, RingTurns
<1>9. quad_index' = IF prim.mode = "GL_QUADS" THEN (n + 1) % 4 ELSE 0
  <2>1. quad_index' = IF GL_PRIMITIVE = "GL_QUADS" THEN NextQuadIndex ELSE quad_index
    BY DEF glVertex
  <2> HIDE DEF n
  <2>2. CASE prim.mode = "GL_QUADS"
    BY <1>3, <1>7, <2>1, <2>2, Mod4 DEF NextQuadIndex
  <2>3. CASE prim.mode # "GL_QUADS"
    BY <1>7, <2>1, <2>3
  <2> QED
    BY <2>2, <2>3
<1>10. VERTICES' + ToCome' <= MaxVertices
  <2>1. g' = g /\ Len(prim'.points) = n + 1 /\ left' = NoArray
    BY <1>1, <1>5 DEF Group
  <2>2. ToCome' = IF (n + 1) % g = 0 THEN 0 ELSE g - ((n + 1) % g)
    BY <2>1 DEF ToCome
  <2> HIDE DEF n, g
  <2>3. Open.vertex + (n + 1) + (IF (n + 1) % g = 0 THEN 0 ELSE g - ((n + 1) % g)) <= MaxVertices
    BY <1>3, <1>7, RoomForGroup
  <2>4. VERTICES' = Open.vertex + (n + 1)
    BY <1>1, <1>3
  <2> QED
    BY <2>2, <2>3, <2>4
<1>11. OpenInv'
  <2>1. prim.mode = "GL_TRIANGLE_STRIP" => n + 1 <= 4
    BY <1>3, <1>7
  <2>2. VERTICES' = Open'.vertex + Open'.vertices
    BY <1>1, <1>3, <1>5
  <2>3. RSIZE'[BLEND_MODE'] < MaxNodes
    BY <1>1, <1>3
  <2>4. Open'.vertex + Open'.vertices = VERTICES' /\ left' = NoArray
    BY <2>2, <1>1
  <2> HIDE DEF n, g
  <2> QED
    BY <1>1, <1>3, <1>5, <1>7, <1>8, <1>9, <1>10, <2>1, <2>3, <2>4 DEF OpenInv
<1>12. RestInv' /\ NamesInv'
  <2>1. RenderInit' /\ UNCHANGED <<ids, Textures, bound, TexIndex, GL_BIND_TEX, TexArr>>
    BY <1>1 DEF glVertex, textures, Inv, RestInv
  <2> QED
    BY <1>5, <2>1 DEF Inv, NamesInv, RestInv
<1>13. TypeOK'
  <2>1. VERTICES' \in 0 .. MaxVertices
    BY <1>1, <1>2, <1>3
  <2>2. quad_index' \in 0 .. 3
    <3> HIDE DEF n
    <3>1. (n + 1) % 4 \in 0 .. 3
      BY <1>3
    <3> QED
      BY <1>9, <3>1
  <2>3. flag_iterator' \in {NoFlag} \cup [ring : {3}, at : 0 .. 2]
                                    \cup [ring : {4}, at : 0 .. 3]
    <3> HIDE DEF n
    <3>1. (n + 1) % 3 \in 0 .. 2 /\ (n + 1) % 4 \in 0 .. 3
      BY <1>3
    <3> QED
      BY <1>8, <3>1
  <2>4. UNCHANGED <<BLEND_MODE, GL_PRIMITIVE, GL_BIND_TEX, textures, RenderInit,
                    kglxDirtyDirty, left, frames, RSIZE>>
    BY DEF glVertex
  <2> HIDE DEF n
  <2> QED
    BY <1>5, <2>1, <2>2, <2>3, <2>4 DEF textures, Inv, TypeOK
<1> QED
  BY <1>5, <1>6, <1>11, <1>12, <1>13 DEF Inv

(* The vertices of arrays.                                                  *)
LEMMA TransformSteps ==
  ASSUME Inv, NEW v \in Points, TransformTri(v) \/ TransformStrip(v) \/ TransformLast(v)
  PROVE  Inv'
<1> DEFINE n == Len(prim.points)
           flag == IF Ends(Offset(n)) \/ (prim.mode = "GL_TRIANGLE_STRIP" /\ left = 1)
                     THEN EOL ELSE VERTEX
<1> USE SizeAssumption
<1>1. /\ left \in 1 .. MaxVertices /\ left' = left - 1 /\ left # NoArray
      /\ VERTICES' = VERTICES + 1
      /\ UNCHANGED <<RSIZE, BLEND_MODE, GL_PRIMITIVE, quad_index, GL_BIND_TEX, textures,
                     RenderInit, kglxDirtyDirty, frames>>
      /\ prim.mode \in {"GL_TRIANGLES", "GL_TRIANGLE_STRIP"}
  <2>1. left \in {NoArray} \cup 0 .. MaxVertices
    BY DEF Inv, TypeOK
  <2>2. CASE TransformTri(v)
    BY <2>1, <2>2 DEF TransformTri, Store, NoArray
  <2>3. CASE TransformStrip(v)
    BY <2>1, <2>3 DEF TransformStrip, Store, NoArray, flags
  <2>4. CASE TransformLast(v)
    BY <2>1, <2>4 DEF TransformLast, Store, NoArray, flags
  <2> QED
    BY <2>2, <2>3, <2>4
<1>2. ~Between
  BY <1>1 DEF Inv, RestInv
<1>3. /\ n \in Nat /\ Open.vertex \in Nat
      /\ VERTICES = Open.vertex + n /\ Open.vertices = n
      /\ RSIZE[BLEND_MODE] \in 0 .. MaxNodes - 1
      /\ Offset(n) = n
  BY <1>1, <1>2, OpenFacts DEF Offset
<1>4. /\ VERTICES + left <= MaxVertices
      /\ quad_index = 0
      /\ prim.mode = "GL_TRIANGLES" =>
           /\ GL_PRIMITIVE = prim.mode
           /\ flag_iterator = [ring |-> 3, at |-> n % 3]
           /\ (n + left) % 3 = 0
      /\ prim.mode = "GL_TRIANGLE_STRIP" => flag_iterator \in {NoFlag, TriFlag, QuadFlag}
  BY <1>1, <1>2 DEF Inv, OpenInv, ToCome
<1>5. Ends(n) <=> prim.mode = "GL_TRIANGLES" /\ n % 3 = 2
  <2>1. left # NoArray /\ left # 0 /\ prim.mode # "GL_QUADS"
    BY <1>1
  <2> QED
    BY <2>1 DEF Ends
<1>6. Store(VERTICES, v, flag)
  <2>1. CASE TransformTri(v)
    <3>1. prim.mode = "GL_TRIANGLES" /\ Store(VERTICES, v, FlagOf(flag_iterator))
      BY <2>1 DEF TransformTri
    <3>2. FlagOf(flag_iterator) = IF n % 3 = 2 THEN EOL ELSE VERTEX
      BY <1>3, <1>4, <3>1, RingTurns
    <3> QED
      BY <1>3, <1>5, <3>1, <3>2
  <2>2. CASE TransformStrip(v)
    BY <1>3, <1>5, <2>2 DEF TransformStrip
  <2>3. CASE TransformLast(v)
    BY <1>3, <1>5, <2>3 DEF TransformLast
  <2> QED
    BY <2>1, <2>2, <2>3
<1>7. flag_iterator' = IF prim.mode = "GL_TRIANGLES" THEN NextFlag(flag_iterator)
                       ELSE flag_iterator
  BY DEF TransformTri, TransformStrip, TransformLast, flags
<1>8. /\ ~Between'
      /\ VERTEX_BUFFER' \in [Slots -> [point : Points \cup {NoImage}, flag : {VERTEX, EOL}]]
      /\ VERT_LIST' \in [Lists -> [0 .. MaxNodes - 1 -> Node]]
      /\ prim' \in [mode : Modes \cup {"none"}, points : Seq(Points)]
      /\ prim'.mode = prim.mode /\ Len(prim'.points) = n + 1
      /\ Open'.vertex = Open.vertex /\ Open'.vertices = n + 1
      /\ ClosedInv' /\ ContentInv'
  <2>1. VERTICES \in Slots /\ VERTICES >= Open.vertex /\ VERTICES < MaxVertices
    <3> HIDE DEF n, flag
    <3>1. Open.vertex \in Nat /\ n \in Nat /\ VERTICES = Open.vertex + n
      BY <1>3
    <3>2. left \in Nat /\ left > 0 /\ VERTICES + left <= MaxVertices
      BY <1>1, <1>4
    <3>3. VERTICES \in Nat /\ VERTICES >= Open.vertex
      BY <3>1
    <3>4. VERTICES < MaxVertices
      BY <3>2, <3>3
    <3> QED
      BY <3>3, <3>4 DEF Slots
  <2>2. flag \in {VERTEX, EOL}
    OBVIOUS
  <2>3. Store(Open.vertex + Offset(n), v, flag) /\ Open.vertex + Offset(n) \in Slots
    BY <1>3, <1>6, <2>1
  <2>4. UNCHANGED <<BLEND_MODE, RSIZE>> /\ left # NoArray /\ left > 0 /\ left' = left - 1
    BY <1>1
  <2>5. flag = IF Ends(Offset(n)) \/ (prim.mode = "GL_TRIANGLE_STRIP" /\ left = 1)
                 THEN EOL ELSE VERTEX
    OBVIOUS
  <2> HIDE DEF flag
  <2>6. ContentInv'
    BY <1>2, <2>1, <2>2, <2>3, <2>4, <2>5, ContentStep
  <2> QED
    BY <1>2, <1>3, <1>6, <2>1, <2>2, <2>4, <2>6, StoreStep
<1>9. prim.mode = "GL_TRIANGLES" => flag_iterator' = [ring |-> 3, at |-> (n + 1) % 3]
  <2> HIDE DEF n
  <2> QED
    BY <1>3, <1>4, <1>7, RingTurns
<1>10. left' \in 0 .. MaxVertices /\ left' # NoArray
  BY <1>1 DEF NoArray
<1>11. OpenInv'
  <2>1. VERTICES' + ToCome' <= MaxVertices
    BY <1>1, <1>3, <1>4, <1>10 DEF ToCome
  <2>2. prim.mode = "GL_TRIANGLES" => (n + 1 + left') % 3 = 0
    <3>1. n + 1 + left' = n + left
      BY <1>1, <1>3
    <3> HIDE DEF n
    <3> QED
      BY <1>4, <3>1
  <2>3. Open'.vertex + Open'.vertices = VERTICES' /\ RSIZE'[BLEND_MODE'] < MaxNodes
    BY <1>1, <1>3, <1>8
  <2>4. n + 1 + left' > 0
    BY <1>3, <1>10
  <2> HIDE DEF n, flag
  <2> QED
    BY <1>1, <1>3, <1>4, <1>7, <1>8, <1>9, <1>10, <2>1, <2>2, <2>3, <2>4 DEF OpenInv, Modes
<1>12. RestInv' /\ NamesInv'
  <2>1. RenderInit
    BY <1>2 DEF Inv, RestInv
  <2> QED
    BY <1>1, <1>8, <2>1 DEF textures, Inv, NamesInv, RestInv
<1>13. TypeOK'
  <2>1. VERTICES' \in 0 .. MaxVertices
    BY <1>1, <1>3, <1>4
  <2>2. flag_iterator' \in {NoFlag} \cup [ring : {3}, at : 0 .. 2]
                                    \cup [ring : {4}, at : 0 .. 3]
    <3> HIDE DEF n
    <3>1. (n + 1) % 3 \in 0 .. 2
      BY <1>3
    <3> QED
      BY <1>1, <1>4, <1>7, <1>9, <3>1 DEF TriFlag, QuadFlag
  <2> HIDE DEF n, flag
  <2> QED
    BY <1>1, <1>8, <1>10, <2>1, <2>2 DEF textures, Inv, TypeOK
<1> QED
  BY <1>8, <1>11, <1>12, <1>13 DEF Inv

(* The primitive is complete: its node is one more closed node.             *)
LEMMA EndSteps ==
  ASSUME Inv, glEnd \/ ArraysEnd
  PROVE  Inv'
<1> USE SizeAssumption
<1>1. ~Between /\ CloseNode /\ left' = NoArray
  BY DEF glEnd, ArraysEnd, Inv, RestInv, NoArray
<1>2. /\ BLEND_MODE \in Lists /\ RSIZE[BLEND_MODE] \in 0 .. MaxNodes - 1
      /\ Open.vertex + Open.vertices = VERTICES
      /\ Open.vertex \in Nat /\ Open.vertices \in Nat
      /\ RSIZE \in [Lists -> 0 .. MaxNodes]
  BY <1>1, OpenFacts DEF Inv, TypeOK
<1>3. /\ RSIZE' = [RSIZE EXCEPT ![BLEND_MODE] = @ + 1] /\ prim' = NoPrim /\ ~GL_BIND_TEX'
      /\ Between'
      /\ UNCHANGED <<buffer, VERT_LIST, BLEND_MODE, flags, textures,
                     RenderInit, kglxDirtyDirty, frames>>
  BY <1>1 DEF CloseNode, Between
<1>4. TypeOK'
  <2>1. GL_BIND_TEX' \in BOOLEAN
    BY <1>1, Zenon DEF CloseNode
  <2>2. RSIZE' \in [Lists -> 0 .. MaxNodes]
    BY <1>2, <1>3
  <2>3. prim' \in [mode : Modes \cup {"none"}, points : Seq(Points)]
    BY <1>3 DEF NoPrim
  <2> QED
    BY <1>1, <1>3, <2>1, <2>2, <2>3 DEF buffer, flags, textures, Inv, TypeOK
<1>5. NamesInv'
  BY <1>3 DEF textures, Inv, NamesInv
<1>6. RestInv'
  <2>1. RenderInit'
    BY <1>1, <1>3 DEF Inv, RestInv
  <2>2. quad_index = 0 /\ flag_iterator \in {NoFlag, TriFlag, QuadFlag}
    <3>1. CASE prim.mode = "GL_TRIANGLE_STRIP" /\ left # NoArray
      BY <1>1, <3>1 DEF Inv, OpenInv
    <3>2. CASE ArraysEnd /\ prim.mode = "GL_TRIANGLES"
      <4>1. Len(prim.points) + left = Len(prim.points) /\ left # NoArray
        BY <1>1, <3>2, OpenFacts DEF ArraysEnd, NoArray
      <4>2. /\ (Len(prim.points) + left) % 3 = 0 /\ quad_index = 0
            /\ flag_iterator = [ring |-> 3, at |-> Len(prim.points) % 3]
        BY <1>1, <3>2, <4>1 DEF Inv, OpenInv
      <4> QED
        BY <4>1, <4>2 DEF TriFlag
    <3>3. CASE ArraysEnd /\ prim.mode = "GL_QUADS"
      BY <1>1, <3>3 DEF ArraysEnd, NoArray, Inv, OpenInv
    <3>4. CASE glEnd /\ prim.mode = "GL_TRIANGLES"
      BY <1>1, <3>4, OpenFacts DEF glEnd, Group, Inv, OpenInv, TriFlag
    <3>5. CASE glEnd /\ prim.mode \in {"GL_QUADS", "GL_TRIANGLE_STRIP"}
      BY <1>1, <3>5, OpenFacts DEF glEnd, Group, Inv, OpenInv, QuadFlag
    <3> QED
      BY <1>1, <3>1, <3>2, <3>3, <3>4, <3>5, OpenFacts
      DEF Modes, glEnd, ArraysEnd, NoArray
  <2> QED
    BY <1>1, <1>3, <2>1, <2>2 DEF flags, RestInv
<1>7. OpenInv' /\ ContentInv'
  BY <1>3 DEF OpenInv, ContentInv
<1>8. ClosedInv'
  <2> SUFFICES ASSUME NEW l \in Lists, NEW i \in 0 .. RSIZE'[l] - 1
               PROVE  VERT_LIST[l][i].vertex + VERT_LIST[l][i].vertices <= VERTICES
    BY <1>3 DEF ClosedInv, buffer
  <2>1. CASE i < RSIZE[l]
    <3>1. VERT_LIST[l][i] \in Node
      BY <1>2, <2>1 DEF Inv, TypeOK
    <3>2. VERT_LIST[l][i].vertex + VERT_LIST[l][i].vertices <= Open.vertex
      BY <1>1, <1>2, <2>1 DEF Inv, ClosedInv
    <3> QED
      BY <1>2, <3>1, <3>2 DEF Node
  <2>2. CASE ~(i < RSIZE[l])
    <3>1. l = BLEND_MODE /\ i = RSIZE[BLEND_MODE]
      BY <1>2, <1>3, <2>2
    <3> QED
      BY <1>2, <3>1 DEF Open
  <2> QED
    BY <2>1, <2>2
<1> QED
  BY <1>4, <1>5, <1>6, <1>7, <1>8 DEF Inv

LEMMA FrameSteps ==
  ASSUME Inv, glKosBeginFrame \/ glKosFinishFrame
  PROVE  Inv'
<1> USE SizeAssumption
<1>1. CASE glKosBeginFrame
  <2>1. /\ \A l \in Lists : RSIZE[l] = 0
        /\ UNCHANGED <<VERTEX_BUFFER, lists, flags, GL_BIND_TEX, textures, scene, given>>
        /\ RenderInit' = TRUE /\ VERTICES' = 0 /\ kglxDirtyDirty' = FALSE
        /\ BLEND_MODE' \in Lists /\ frames' \in 0 .. MaxFrames
    BY <1>1 DEF glKosBeginFrame, Inv, RestInv, TypeOK, Lists
  <2>2. TypeOK' /\ NamesInv'
    <3>1. RenderInit' \in BOOLEAN /\ kglxDirtyDirty' \in BOOLEAN
      BY <2>1, Zenon
    <3>2. VERTICES' \in 0 .. MaxVertices
      BY <2>1
    <3> QED
      BY <2>1, <3>1, <3>2 DEF lists, flags, textures, given, Inv, TypeOK, NamesInv
  <2>3. Between /\ RenderInit'
    BY <1>1 DEF glKosBeginFrame
  <2>4. RestInv' /\ OpenInv' /\ ContentInv' /\ ClosedInv'
    BY <2>1, <2>3, QuietStep DEF lists, flags, given
  <2> QED
    BY <2>2, <2>4 DEF Inv
<1>2. CASE glKosFinishFrame
  <2>1. /\ RSIZE' = [l \in Lists |-> 0] /\ RenderInit' = FALSE /\ Between
        /\ UNCHANGED <<buffer, VERT_LIST, BLEND_MODE, flags, GL_BIND_TEX, textures,
                       kglxDirtyDirty, given, frames>>
    BY <1>2 DEF glKosFinishFrame
  <2>2. Between'
    BY <2>1 DEF Between, given
  <2>3. TypeOK' /\ NamesInv'
    <3>1. RenderInit' \in BOOLEAN
      BY <2>1, Zenon
    <3>2. RSIZE' \in [Lists -> 0 .. MaxNodes]
      BY <2>1
    <3> QED
      BY <2>1, <3>1, <3>2 DEF buffer, flags, textures, given, Inv, TypeOK, NamesInv
  <2>4. RestInv' /\ OpenInv' /\ ContentInv' /\ ClosedInv'
    BY <2>1, <2>2 DEF buffer, flags, given, Inv, RestInv, OpenInv, ContentInv, ClosedInv
  <2> QED
    BY <2>3, <2>4 DEF Inv
<1> QED
  BY <1>1, <1>2

LEMMA InvStep == Inv /\ [Next]_vars => Inv'
<1> SUFFICES ASSUME Inv, [Next]_vars PROVE Inv'
  OBVIOUS
<1>1. CASE Next
  BY <1>1, TextureSteps, BeginSteps, VertexStep, TransformSteps, EndSteps, FrameSteps DEF Next
<1>2. CASE UNCHANGED vars
  <2>1. UNCHANGED <<VERTEX_BUFFER, VERTICES, VERT_LIST, RSIZE, BLEND_MODE, GL_PRIMITIVE,
                    flag_iterator, quad_index, GL_BIND_TEX, TexArr, Textures, TexIndex, ids,
                    bound, RenderInit, kglxDirtyDirty, prim, left, frames>>
    BY <1>2 DEF vars, buffer, lists, flags, textures, given
  <2> QED
    BY <2>1 DEF Inv, TypeOK, NamesInv, RestInv, OpenInv, ContentInv, ClosedInv, Between,
                Open, ToCome, Group, Offset, Ends
<1> QED
  BY <1>1, <1>2

(* Whatever the program draws within the tables, the frame is kept as its   *)
(* primitives need it, and no table is written past its end (glBegin,       *)
(* glVertex, glEnd, glDrawArrays and the functions they call).              *)
THEOREM FrameIsKept == Spec => []Inv
  BY InvInit, InvStep, PTL DEF Spec

-----------------------------------------------------------------------------
(* What no step between the frame's beginning and its end does: change what *)
(* a closed node stands for.                                                *)
LEMMA ClosedKept ==
  ASSUME Inv, RSIZE' = RSIZE,
         \A l \in Lists : \A i \in 0 .. RSIZE[l] - 1 : VERT_LIST'[l][i] = VERT_LIST[l][i],
         \A s \in Slots : s < (IF Between THEN VERTICES ELSE Open.vertex)
                            => VERTEX_BUFFER'[s] = VERTEX_BUFFER[s]
  PROVE  /\ StandApart => StandApart'
         /\ \A l \in Lists : Sent(l)' = Sent(l)
<1> USE SizeAssumption
<1>1. ASSUME NEW l \in Lists, NEW i \in 0 .. RSIZE[l] - 1
      PROVE  /\ VERT_LIST[l][i].vertex \in Nat /\ VERT_LIST[l][i].vertices \in Nat
             /\ \A s \in VERT_LIST[l][i].vertex ..
                         VERT_LIST[l][i].vertex + VERT_LIST[l][i].vertices - 1 :
                  VERTEX_BUFFER'[s] = VERTEX_BUFFER[s]
  <2>1. VERT_LIST[l][i] \in Node
    BY DEF Inv, TypeOK
  <2>2. VERT_LIST[l][i].vertex \in Nat /\ VERT_LIST[l][i].vertices \in Nat
    BY <2>1 DEF Node
  <2>3. (IF Between THEN VERTICES ELSE Open.vertex) \in 0 .. MaxVertices
    <3>1. CASE Between
      BY <3>1 DEF Inv, TypeOK
    <3>2. CASE ~Between
      BY <3>2, OpenFacts DEF Node
    <3> QED
      BY <3>1, <3>2
  <2>4. VERT_LIST[l][i].vertex + VERT_LIST[l][i].vertices
          <= (IF Between THEN VERTICES ELSE Open.vertex)
    BY DEF Inv, ClosedInv
  <2> QED
    BY <2>2, <2>3, <2>4 DEF Slots
<1>2. ASSUME StandApart
      PROVE  StandApart'
  <2> SUFFICES ASSUME NEW l \in Lists, NEW m \in Lists,
                      NEW i \in 0 .. RSIZE[l] - 1, NEW j \in 0 .. RSIZE[m] - 1
               PROVE  LET a == VERT_LIST'[l][i]
                          b == VERT_LIST'[m][j]
                      IN  /\ a.vertices > 0
                          /\ VERTEX_BUFFER'[a.vertex + a.vertices - 1].flag = EOL
                          /\ \/ <<l, i>> = <<m, j>>
                             \/ a.vertex + a.vertices <= b.vertex
                             \/ b.vertex + b.vertices <= a.vertex
    BY DEF StandApart
  <2>1. VERT_LIST'[l][i] = VERT_LIST[l][i] /\ VERT_LIST'[m][j] = VERT_LIST[m][j]
    OBVIOUS
  <2>2. LET a == VERT_LIST[l][i]
            b == VERT_LIST[m][j]
        IN  /\ a.vertices > 0
            /\ VERTEX_BUFFER[a.vertex + a.vertices - 1].flag = EOL
            /\ \/ <<l, i>> = <<m, j>>
               \/ a.vertex + a.vertices <= b.vertex
               \/ b.vertex + b.vertices <= a.vertex
    BY <1>2 DEF StandApart
  <2>3. LET a == VERT_LIST[l][i]
        IN  VERTEX_BUFFER'[a.vertex + a.vertices - 1] = VERTEX_BUFFER[a.vertex + a.vertices - 1]
    BY <1>1, <2>2
  <2> QED
    BY <2>1, <2>2, <2>3
<1>3. ASSUME NEW l \in Lists
      PROVE  Sent(l)' = Sent(l)
  <2>1. ASSUME NEW i \in 1 .. RSIZE[l]
        PROVE  LET a == VERT_LIST[l][i - 1]
               IN  Strips(a.vertex, a.vertices)' = Strips(a.vertex, a.vertices)
                   /\ VERT_LIST'[l][i - 1] = a
    <3>1. i - 1 \in 0 .. RSIZE[l] - 1
      BY DEF Inv, TypeOK
    <3> DEFINE a == VERT_LIST[l][i - 1]
    <3>2. VERT_LIST'[l][i - 1] = a
      BY <3>1
    <3>3. /\ a.vertex \in Nat /\ a.vertices \in Nat
          /\ \A s \in a.vertex .. a.vertex + a.vertices - 1 : VERTEX_BUFFER'[s] = VERTEX_BUFFER[s]
      BY <1>1, <3>1
    <3>4. a' = a
      BY <3>2
    <3> DEFINE f == a.vertex
               n == a.vertices
    <3> HIDE DEF a
    <3>5. \A j \in f .. f + n - 3 : /\ VERTEX_BUFFER'[j] = VERTEX_BUFFER[j]
                                    /\ VERTEX_BUFFER'[j + 1] = VERTEX_BUFFER[j + 1]
                                    /\ VERTEX_BUFFER'[j + 2] = VERTEX_BUFFER[j + 2]
      BY <3>3
    <3>6. f' = f /\ n' = n
      BY <3>4
    <3> HIDE DEF f, n
    <3>7. Strips(f, n)' = Strips(f, n)
      BY <3>5, <3>6 DEF Strips
    <3> QED
      BY <3>2, <3>7 DEF f, n, a
  <2> QED
    BY <2>1 DEF Sent
<1> QED
  BY <1>2, <1>3

(* Every vertex is stored behind the closed nodes.                          *)
LEMMA VertexStores ==
  ASSUME Inv, NEW v \in Points,
         glVertex(v) \/ TransformTri(v) \/ TransformStrip(v) \/ TransformLast(v)
  PROVE  /\ ~Between /\ VERTICES < MaxVertices /\ UNCHANGED <<BLEND_MODE, RSIZE>>
         /\ \E slot \in Slots, flag \in {VERTEX, EOL} :
              slot >= Open.vertex /\ Store(slot, v, flag)
<1> USE SizeAssumption
<1>1. CASE glVertex(v)
  <2>1. ~Between /\ UNCHANGED <<BLEND_MODE, RSIZE>> /\ Store(Place, v, FlagOf(flag_iterator))
    BY <1>1 DEF glVertex
  <2>2. /\ Place = Open.vertex + Offset(Len(prim.points)) /\ Place \in Slots
        /\ VERTICES < MaxVertices /\ FlagOf(flag_iterator) \in {VERTEX, EOL}
    BY <1>1, PlaceOfVertex
  <2>3. Open.vertex \in Nat /\ Offset(Len(prim.points)) \in Nat
    BY <2>1, OpenFacts, OffsetInjective
  <2>4. Place >= Open.vertex
    BY <2>2, <2>3
  <2> QED
    BY <2>1, <2>2, <2>4
<1>2. CASE TransformTri(v) \/ TransformStrip(v) \/ TransformLast(v)
  <2>0. left \in {NoArray} \cup 0 .. MaxVertices
    BY DEF Inv, TypeOK
  <2>1. left > 0 /\ left # NoArray /\ UNCHANGED <<BLEND_MODE, RSIZE>>
    BY <1>2, <2>0 DEF TransformTri, TransformStrip, TransformLast, NoArray
  <2>2. ~Between
    BY <2>1 DEF Inv, RestInv
  <2>3. VERTICES + left <= MaxVertices /\ left \in Nat
    BY <2>0, <2>1, <2>2 DEF Inv, OpenInv, ToCome, NoArray
  <2>4. VERTICES \in Slots /\ VERTICES >= Open.vertex /\ VERTICES < MaxVertices
    BY <2>1, <2>2, <2>3, OpenFacts DEF Slots
  <2>5. \E flag \in {VERTEX, EOL} : Store(VERTICES, v, flag)
    <3>1. CASE TransformTri(v)
      BY <3>1 DEF TransformTri, FlagOf
    <3>2. CASE TransformStrip(v)
      BY <3>2 DEF TransformStrip
    <3>3. CASE TransformLast(v)
      BY <3>3 DEF TransformLast
    <3> QED
      BY <1>2, <3>1, <3>2, <3>3
  <2> QED
    BY <2>1, <2>2, <2>4, <2>5
<1> QED
  BY <1>1, <1>2

(* A vertex changes no closed node, and the image of the open one neither.  *)
LEMMA VertexKeeps ==
  ASSUME Inv, NEW v \in Points,
         glVertex(v) \/ TransformTri(v) \/ TransformStrip(v) \/ TransformLast(v)
  PROVE  /\ StandApart => StandApart'
         /\ \A l \in Lists : Sent(l)' = Sent(l)
         /\ ~Between' /\ Open'.image = Open.image
         /\ prim'.mode = prim.mode /\ prim'.points = Append(prim.points, v)
<1>1. /\ ~Between /\ VERTICES < MaxVertices /\ UNCHANGED <<BLEND_MODE, RSIZE>>
      /\ \E slot \in Slots, flag \in {VERTEX, EOL} :
           slot >= Open.vertex /\ Store(slot, v, flag)
  BY VertexStores
<1>2. PICK slot \in Slots, flag \in {VERTEX, EOL} :
        slot >= Open.vertex /\ Store(slot, v, flag)
  BY <1>1
<1>3. /\ \A l \in Lists : \A i \in 0 .. RSIZE[l] - 1 : VERT_LIST'[l][i] = VERT_LIST[l][i]
      /\ ~Between' /\ Open'.image = Open.image
  BY <1>1, <1>2, StoreStep
<1>4. \A s \in Slots : s < Open.vertex => VERTEX_BUFFER'[s] = VERTEX_BUFFER[s]
  <2>1. Open.vertex \in Nat /\ VERTEX_BUFFER \in [Slots -> [point : Points \cup {NoImage}, flag : {VERTEX, EOL}]]
    BY <1>1, OpenFacts DEF Inv, TypeOK
  <2> QED
    BY <1>2, <2>1, SizeAssumption DEF Store, Slots
<1>5. prim'.mode = prim.mode /\ prim'.points = Append(prim.points, v)
  BY <1>1, <1>2, OpenFacts, Given1 DEF Store
<1> QED
  BY <1>1, <1>3, <1>4, <1>5, ClosedKept

(* A primitive is begun in the node behind the closed ones.                 *)
LEMMA BeginKeeps ==
  ASSUME Inv, Between, RSIZE[BLEND_MODE] < MaxNodes, OpenNode,
         UNCHANGED <<VERTEX_BUFFER, BLEND_MODE, RSIZE>>
  PROVE  /\ StandApart => StandApart'
         /\ \A l \in Lists : Sent(l)' = Sent(l)
         /\ Open'.image = Header.image
<1> DEFINE node == [list |-> Header.list, image |-> Header.image,
                    vertex |-> VERTICES, vertices |-> 0]
<1>1. /\ BLEND_MODE \in Lists /\ RSIZE[BLEND_MODE] \in 0 .. MaxNodes - 1
      /\ VERT_LIST \in [Lists -> [0 .. MaxNodes - 1 -> Node]]
      /\ RSIZE \in [Lists -> 0 .. MaxNodes]
  BY SizeAssumption DEF Inv, TypeOK
<1>2. VERT_LIST' = [VERT_LIST EXCEPT ![BLEND_MODE][RSIZE[BLEND_MODE]] = node]
  BY DEF OpenNode
<1>3. ASSUME NEW l \in Lists, NEW i \in 0 .. RSIZE[l] - 1
      PROVE  VERT_LIST'[l][i] = VERT_LIST[l][i]
  <2> HIDE DEF node
  <2>1. i \in 0 .. MaxNodes - 1 /\ <<l, i>> # <<BLEND_MODE, RSIZE[BLEND_MODE]>>
    BY <1>1, SizeAssumption
  <2> QED
    BY <1>1, <1>2, <2>1
<1>4. Open'.image = Header.image
  <2>1. Open' = node
    <3> HIDE DEF node
    <3> QED
      BY <1>1, <1>2 DEF Open
  <2> QED
    BY <2>1
<1> QED
  BY <1>3, <1>4, ClosedKept

(* When a primitive is complete, its last slot ends a strip.                *)
LEMMA CompleteFacts ==
  ASSUME Inv, glEnd \/ ArraysEnd
  PROVE  LET n == Len(prim.points)
         IN  /\ ~Between /\ n \in Nat \ {0} /\ Open.vertex \in Nat
             /\ prim.mode = "GL_TRIANGLES" => n % 3 = 0
             /\ prim.mode = "GL_QUADS" => n % 4 = 0
             /\ prim.mode = "GL_TRIANGLE_STRIP" /\ left = NoArray => n = 4
             /\ left \in {0, NoArray}
             /\ \A k \in 0 .. n - 1 :
                  VERTEX_BUFFER[Open.vertex + Offset(k)] =
                    [point |-> prim.points[k + 1],
                     flag |-> IF Ends(Offset(k)) THEN EOL ELSE VERTEX]
<1> DEFINE n == Len(prim.points)
<1>1. ~Between /\ left \in {0, NoArray}
  BY DEF glEnd, ArraysEnd, Inv, RestInv, NoArray
<1>2. n \in Nat /\ Open.vertex \in Nat /\ prim.mode \in Modes
  BY <1>1, OpenFacts
<1>3. \A k \in 0 .. n - 1 :
         VERTEX_BUFFER[Open.vertex + Offset(k)] =
           [point |-> prim.points[k + 1], flag |-> IF Ends(Offset(k)) THEN EOL ELSE VERTEX]
  BY <1>1 DEF Inv, ContentInv
<1>4. /\ n > 0
      /\ prim.mode = "GL_TRIANGLES" => n % 3 = 0
      /\ prim.mode = "GL_QUADS" => n % 4 = 0
      /\ prim.mode = "GL_TRIANGLE_STRIP" /\ left = NoArray => n = 4
  <2>1. CASE glEnd
    <3>1. n > 0 /\ n % Group(prim.mode) = 0 /\ left = NoArray
      BY <2>1 DEF glEnd
    <3>2. prim.mode = "GL_TRIANGLE_STRIP" => n <= 4
      BY <1>1, <3>1 DEF Inv, OpenInv
    <3>3. prim.mode = "GL_TRIANGLES" => n % 3 = 0
      BY <3>1 DEF Group
    <3>4. prim.mode # "GL_TRIANGLES" => n % 4 = 0
      BY <3>1 DEF Group
    <3> HIDE DEF n
    <3>5. prim.mode = "GL_TRIANGLE_STRIP" => n = 4
      BY <1>2, <3>1, <3>2, <3>4
    <3> QED
      BY <3>1, <3>3, <3>4, <3>5
  <2>2. CASE ArraysEnd
    <3>1. left = 0 /\ left # NoArray
      BY <2>2 DEF ArraysEnd, NoArray
    <3>2. /\ n + left > 0
          /\ prim.mode = "GL_TRIANGLES" => (n + left) % 3 = 0
          /\ prim.mode # "GL_QUADS"
      BY <1>1, <3>1 DEF Inv, OpenInv
    <3>3. n + left = n
      BY <1>2, <3>1
    <3> HIDE DEF n
    <3> QED
      BY <3>1, <3>2, <3>3
  <2> QED
    BY <2>1, <2>2
<1>5. n \in Nat \ {0}
  BY <1>2, <1>4
<1> QED
  BY <1>1, <1>2, <1>3, <1>4, <1>5, Zenon

LEMMA EndApart ==
  ASSUME Inv, StandApart, glEnd \/ ArraysEnd
  PROVE  StandApart'
<1> DEFINE n == Len(prim.points)
<1> USE SizeAssumption
<1>1. /\ ~Between /\ n \in Nat \ {0} /\ Open.vertex \in Nat
      /\ prim.mode = "GL_TRIANGLES" => n % 3 = 0
      /\ prim.mode = "GL_QUADS" => n % 4 = 0
      /\ prim.mode = "GL_TRIANGLE_STRIP" /\ left = NoArray => n = 4
      /\ left \in {0, NoArray}
      /\ \A k \in 0 .. n - 1 :
           VERTEX_BUFFER[Open.vertex + Offset(k)] =
             [point |-> prim.points[k + 1],
              flag |-> IF Ends(Offset(k)) THEN EOL ELSE VERTEX]
  BY CompleteFacts
<1>2. Open.vertices = n /\ prim.mode \in Modes
  BY <1>1, OpenFacts
<1>3. VERTEX_BUFFER[Open.vertex + Open.vertices - 1].flag = EOL
  <2> HIDE DEF n
  <2>1. Offset(n - 1) = n - 1
    BY <1>1, <1>2 DEF Offset, Modes
  <2>2. Ends(n - 1)
    <3>1. CASE prim.mode = "GL_TRIANGLES"
      BY <1>1, <3>1 DEF Ends
    <3>2. CASE prim.mode = "GL_QUADS"
      BY <1>1, <3>2 DEF Ends
    <3>3. CASE prim.mode = "GL_TRIANGLE_STRIP"
      BY <1>1, <3>3 DEF Ends, n
    <3> QED
      BY <1>2, <3>1, <3>2, <3>3 DEF Modes
  <2>3. n - 1 \in 0 .. n - 1 /\ Open.vertex + Open.vertices - 1 = Open.vertex + (n - 1)
    BY <1>1, <1>2
  <2>4. VERTEX_BUFFER[Open.vertex + Offset(n - 1)].flag = EOL
    <3>1. VERTEX_BUFFER[Open.vertex + Offset(n - 1)] =
            [point |-> prim.points[(n - 1) + 1],
             flag |-> IF Ends(Offset(n - 1)) THEN EOL ELSE VERTEX]
      BY <1>1, <2>3
    <3> QED
      BY <2>1, <2>2, <3>1
  <2> QED
    BY <2>1, <2>3, <2>4
<1>4. /\ RSIZE' = [RSIZE EXCEPT ![BLEND_MODE] = @ + 1]
      /\ UNCHANGED <<VERTEX_BUFFER, VERT_LIST>>
      /\ BLEND_MODE \in Lists /\ RSIZE \in [Lists -> 0 .. MaxNodes]
  BY DEF glEnd, ArraysEnd, CloseNode, buffer, Inv, TypeOK
<1>5. ASSUME NEW l \in Lists, NEW i \in 0 .. RSIZE'[l] - 1
      PROVE  \/ i \in 0 .. RSIZE[l] - 1
             \/ l = BLEND_MODE /\ i = RSIZE[BLEND_MODE] /\ VERT_LIST[l][i] = Open
  BY <1>4 DEF Open
<1>6. ASSUME NEW l \in Lists, NEW i \in 0 .. RSIZE[l] - 1
      PROVE  VERT_LIST[l][i].vertex + VERT_LIST[l][i].vertices <= Open.vertex
  BY <1>1 DEF Inv, ClosedInv
<1> SUFFICES ASSUME NEW l \in Lists, NEW m \in Lists,
                    NEW i \in 0 .. RSIZE'[l] - 1, NEW j \in 0 .. RSIZE'[m] - 1
             PROVE  LET a == VERT_LIST[l][i]
                        b == VERT_LIST[m][j]
                    IN  /\ a.vertices > 0
                        /\ VERTEX_BUFFER[a.vertex + a.vertices - 1].flag = EOL
                        /\ \/ <<l, i>> = <<m, j>>
                           \/ a.vertex + a.vertices <= b.vertex
                           \/ b.vertex + b.vertices <= a.vertex
  BY <1>4 DEF StandApart
<1> HIDE DEF n
<1>7. CASE i \in 0 .. RSIZE[l] - 1 /\ j \in 0 .. RSIZE[m] - 1
  BY <1>7 DEF StandApart
<1>8. CASE i \in 0 .. RSIZE[l] - 1 /\ j \notin 0 .. RSIZE[m] - 1
  <2>1. VERT_LIST[m][j] = Open
    BY <1>5, <1>8
  <2>2. VERT_LIST[l][i].vertex + VERT_LIST[l][i].vertices <= Open.vertex
    BY <1>6, <1>8
  <2>3. /\ VERT_LIST[l][i].vertices > 0
        /\ VERTEX_BUFFER[VERT_LIST[l][i].vertex + VERT_LIST[l][i].vertices - 1].flag = EOL
    BY <1>8 DEF StandApart
  <2> QED
    BY <2>1, <2>2, <2>3
<1>9. CASE i \notin 0 .. RSIZE[l] - 1 /\ j \in 0 .. RSIZE[m] - 1
  <2>1. VERT_LIST[l][i] = Open
    BY <1>5, <1>9
  <2>2. VERT_LIST[m][j].vertex + VERT_LIST[m][j].vertices <= Open.vertex
    BY <1>6, <1>9
  <2> QED
    BY <1>1, <1>2, <1>3, <2>1, <2>2
<1>10. CASE i \notin 0 .. RSIZE[l] - 1 /\ j \notin 0 .. RSIZE[m] - 1
  <2>1. <<l, i>> = <<m, j>> /\ VERT_LIST[l][i] = Open
    BY <1>5, <1>10
  <2> QED
    BY <1>1, <1>2, <1>3, <2>1
<1> QED
  BY <1>7, <1>8, <1>9, <1>10

(* Nothing is drawn, and the frame stays.                                   *)
LEMMA QuietKeeps ==
  ASSUME Inv, UNCHANGED <<VERTEX_BUFFER, VERT_LIST, RSIZE>>
  PROVE  /\ StandApart => StandApart'
         /\ \A l \in Lists : Sent(l)' = Sent(l)
  BY ClosedKept

LEMMA ApartStep == Inv /\ StandApart /\ [Next]_vars => StandApart'
<1> SUFFICES ASSUME Inv, StandApart, [Next]_vars PROVE StandApart'
  OBVIOUS
<1>1. CASE \/ glGenTextures \/ (\E t \in 1 .. Len(ids) : glBindTexture(t))
           \/ (\E d \in Images : glKosTex2D(d))
           \/ EnableBlend \/ DisableBlend \/ DisableTexture \/ glKosFinishList
           \/ glKosBeginFrame \/ UNCHANGED vars
  <2>1. UNCHANGED <<VERTEX_BUFFER, VERT_LIST, RSIZE>>
    BY <1>1 DEF glGenTextures, glBindTexture, glKosTex2D, EnableBlend, DisableBlend,
                DisableTexture, glKosFinishList, glKosBeginFrame, buffer, lists, vars
  <2> QED
    BY <2>1, QuietKeeps
<1>2. CASE \/ (\E m \in Modes : glBegin(m))
           \/ \E m \in Modes, k \in 1 .. MaxVertices : glDrawArrays(m, k)
  <2>1. /\ Between /\ RSIZE[BLEND_MODE] < MaxNodes /\ OpenNode
        /\ UNCHANGED <<VERTEX_BUFFER, BLEND_MODE, RSIZE>>
    BY <1>2 DEF glBegin, glDrawArrays, buffer
  <2> QED
    BY <2>1, BeginKeeps
<1>3. CASE \E v \in Points : glVertex(v) \/ TransformTri(v) \/ TransformStrip(v)
                               \/ TransformLast(v)
  BY <1>3, VertexKeeps
<1>4. CASE glEnd \/ ArraysEnd
  BY <1>4, EndApart
<1>5. CASE glKosFinishFrame
  BY <1>5 DEF glKosFinishFrame, StandApart
<1> QED
  BY <1>1, <1>2, <1>3, <1>4, <1>5 DEF Next

(* The nodes of a frame share no slot of the buffer, and the strips of each *)
(* end in it (glBegin, glPreStack and glEnd; glVertex, glRenderTri,         *)
(* glRenderTriStrip and glRenderTriStripL).                                 *)
THEOREM NodesStandApart == Spec => []StandApart
<1>1. Init => StandApart
  BY DEF Init, StandApart
<1> QED
  BY <1>1, InvInit, InvStep, ApartStep, PTL DEF Spec

-----------------------------------------------------------------------------
(* The triangles that the chip makes of a range.                            *)
LEMMA StripsOf ==
  ASSUME NEW b \in Nat, NEW n \in Nat
  PROVE  \A x : x \in Strips(b, n) <=>
           \E j \in 0 .. n - 3 :
              /\ VERTEX_BUFFER[b + j].flag = VERTEX /\ VERTEX_BUFFER[b + (j + 1)].flag = VERTEX
              /\ x = {VERTEX_BUFFER[b + j].point, VERTEX_BUFFER[b + (j + 1)].point,
                      VERTEX_BUFFER[b + (j + 2)].point}
<1> SUFFICES ASSUME NEW x
             PROVE  x \in Strips(b, n) <=>
               \E j \in 0 .. n - 3 :
                  /\ VERTEX_BUFFER[b + j].flag = VERTEX
                  /\ VERTEX_BUFFER[b + (j + 1)].flag = VERTEX
                  /\ x = {VERTEX_BUFFER[b + j].point, VERTEX_BUFFER[b + (j + 1)].point,
                          VERTEX_BUFFER[b + (j + 2)].point}
  OBVIOUS
<1>1. ASSUME NEW j \in 0 .. n - 3
      PROVE  b + j \in b .. b + n - 3 /\ b + j + 1 = b + (j + 1) /\ b + j + 2 = b + (j + 2)
  OBVIOUS
<1>2. ASSUME x \in Strips(b, n)
      PROVE  \E j \in 0 .. n - 3 :
              /\ VERTEX_BUFFER[b + j].flag = VERTEX /\ VERTEX_BUFFER[b + (j + 1)].flag = VERTEX
              /\ x = {VERTEX_BUFFER[b + j].point, VERTEX_BUFFER[b + (j + 1)].point,
                      VERTEX_BUFFER[b + (j + 2)].point}
  <2>1. PICK i \in b .. b + n - 3 :
          /\ VERTEX_BUFFER[i].flag = VERTEX /\ VERTEX_BUFFER[i + 1].flag = VERTEX
          /\ x = {VERTEX_BUFFER[i].point, VERTEX_BUFFER[i + 1].point, VERTEX_BUFFER[i + 2].point}
    BY <1>2 DEF Strips
  <2>2. i - b \in 0 .. n - 3 /\ b + (i - b) = i
        /\ b + ((i - b) + 1) = i + 1 /\ b + ((i - b) + 2) = i + 2
    OBVIOUS
  <2> WITNESS i - b \in 0 .. n - 3
  <2> QED
    BY <2>1, <2>2
<1>3. ASSUME NEW j \in 0 .. n - 3,
             VERTEX_BUFFER[b + j].flag = VERTEX, VERTEX_BUFFER[b + (j + 1)].flag = VERTEX,
             x = {VERTEX_BUFFER[b + j].point, VERTEX_BUFFER[b + (j + 1)].point,
                  VERTEX_BUFFER[b + (j + 2)].point}
      PROVE  x \in Strips(b, n)
  BY <1>1, <1>3 DEF Strips
<1> QED
  BY <1>2, <1>3

(* ... are the faces of the primitive: triangles,                           *)
LEMMA TriangleFaces ==
  ASSUME NEW b \in Nat, NEW p, NEW n \in Nat, Len(p) = n, n % 3 = 0,
         \A j \in 0 .. n - 1 :
            VERTEX_BUFFER[b + j] = [point |-> p[j + 1],
                                    flag |-> IF j % 3 = 2 THEN EOL ELSE VERTEX]
  PROVE  Strips(b, n) = Promise!Faces("GL_TRIANGLES", p)
<1>1. ASSUME NEW j \in 0 .. n - 3
      PROVE  /\ VERTEX_BUFFER[b + j].point = p[j + 1]
             /\ VERTEX_BUFFER[b + (j + 1)].point = p[j + 2]
             /\ VERTEX_BUFFER[b + (j + 2)].point = p[j + 3]
             /\ (VERTEX_BUFFER[b + j].flag = VERTEX /\ VERTEX_BUFFER[b + (j + 1)].flag = VERTEX)
                   <=> j % 3 = 0
  <2>1. j \in 0 .. n - 1 /\ j + 1 \in 0 .. n - 1 /\ j + 2 \in 0 .. n - 1
        /\ (j + 1) + 1 = j + 2 /\ (j + 2) + 1 = j + 3
    OBVIOUS
  <2>2. j % 3 \in 0 .. 2 /\ (j + 1) % 3 = IF j % 3 = 2 THEN 0 ELSE (j % 3) + 1
    BY Mod3
  <2>3. VERTEX # EOL
    BY DEF VERTEX, EOL
  <2>4. /\ VERTEX_BUFFER[b + j] = [point |-> p[j + 1],
                                   flag |-> IF j % 3 = 2 THEN EOL ELSE VERTEX]
        /\ VERTEX_BUFFER[b + (j + 1)] = [point |-> p[j + 2],
                                         flag |-> IF (j + 1) % 3 = 2 THEN EOL ELSE VERTEX]
        /\ VERTEX_BUFFER[b + (j + 2)] = [point |-> p[j + 3],
                                         flag |-> IF (j + 2) % 3 = 2 THEN EOL ELSE VERTEX]
    BY <2>1
  <2>5. /\ VERTEX_BUFFER[b + j].flag = VERTEX <=> j % 3 # 2
        /\ VERTEX_BUFFER[b + (j + 1)].flag = VERTEX <=> (j + 1) % 3 # 2
    BY <2>3, <2>4
  <2>6. j % 3 # 2 /\ (j + 1) % 3 # 2 <=> j % 3 = 0
    BY <2>2
  <2>7. /\ VERTEX_BUFFER[b + j].point = p[j + 1]
        /\ VERTEX_BUFFER[b + (j + 1)].point = p[j + 2]
        /\ VERTEX_BUFFER[b + (j + 2)].point = p[j + 3]
    BY <2>4
  <2> QED
    BY <2>5, <2>6, <2>7, Zenon
<1>2. ASSUME NEW x
      PROVE  x \in Promise!Faces("GL_TRIANGLES", p) <=>
               \E j \in 0 .. n - 3 : j % 3 = 0 /\ x = {p[j + 1], p[j + 2], p[j + 3]}
  <2>1. x \in Promise!Faces("GL_TRIANGLES", p) <=>
          \E i \in 1 .. n - 2 : i % 3 = 1 /\ x = {p[i], p[i + 1], p[i + 2]}
    BY DEF Promise!Faces
  <2>2. ASSUME NEW i \in 1 .. n - 2, i % 3 = 1, x = {p[i], p[i + 1], p[i + 2]}
        PROVE  \E j \in 0 .. n - 3 : j % 3 = 0 /\ x = {p[j + 1], p[j + 2], p[j + 3]}
    <3>1. /\ i - 1 \in 0 .. n - 3 /\ (i - 1) + 1 = i /\ (i - 1) + 2 = i + 1
          /\ (i - 1) + 3 = i + 2 /\ i - 1 \in Nat
      OBVIOUS
    <3>2. (i - 1) % 3 = 0
      BY <2>2, <3>1, Mod3
    <3> WITNESS i - 1 \in 0 .. n - 3
    <3> QED
      BY <2>2, <3>1, <3>2
  <2>3. ASSUME NEW j \in 0 .. n - 3, j % 3 = 0, x = {p[j + 1], p[j + 2], p[j + 3]}
        PROVE  \E i \in 1 .. n - 2 : i % 3 = 1 /\ x = {p[i], p[i + 1], p[i + 2]}
    <3>1. /\ j + 1 \in 1 .. n - 2 /\ (j + 1) + 1 = j + 2 /\ (j + 1) + 2 = j + 3
          /\ (j + 1) % 3 = 1
      BY <2>3
    <3> WITNESS j + 1 \in 1 .. n - 2
    <3> QED
      BY <2>3, <3>1
  <2> QED
    BY <2>1, <2>2, <2>3
<1>3. ASSUME NEW x
      PROVE  x \in Strips(b, n) <=> x \in Promise!Faces("GL_TRIANGLES", p)
  <2>1. \A y : y \in Strips(b, n) <=>
          \E j \in 0 .. n - 3 :
             /\ VERTEX_BUFFER[b + j].flag = VERTEX /\ VERTEX_BUFFER[b + (j + 1)].flag = VERTEX
             /\ y = {VERTEX_BUFFER[b + j].point, VERTEX_BUFFER[b + (j + 1)].point,
                     VERTEX_BUFFER[b + (j + 2)].point}
    BY StripsOf
  <2>2. ASSUME x \in Strips(b, n)
        PROVE  \E j \in 0 .. n - 3 : j % 3 = 0 /\ x = {p[j + 1], p[j + 2], p[j + 3]}
    <3>1. PICK j \in 0 .. n - 3 :
            /\ VERTEX_BUFFER[b + j].flag = VERTEX /\ VERTEX_BUFFER[b + (j + 1)].flag = VERTEX
            /\ x = {VERTEX_BUFFER[b + j].point, VERTEX_BUFFER[b + (j + 1)].point,
                    VERTEX_BUFFER[b + (j + 2)].point}
      BY <2>1, <2>2
    <3>2. j % 3 = 0 /\ x = {p[j + 1], p[j + 2], p[j + 3]}
      BY <1>1, <3>1
    <3> QED
      BY <3>2
  <2>3. ASSUME NEW j \in 0 .. n - 3, j % 3 = 0, x = {p[j + 1], p[j + 2], p[j + 3]}
        PROVE  x \in Strips(b, n)
    <3>1. /\ VERTEX_BUFFER[b + j].flag = VERTEX /\ VERTEX_BUFFER[b + (j + 1)].flag = VERTEX
          /\ x = {VERTEX_BUFFER[b + j].point, VERTEX_BUFFER[b + (j + 1)].point,
                  VERTEX_BUFFER[b + (j + 2)].point}
      BY <1>1, <2>3
    <3> QED
      BY <2>1, <3>1
  <2> QED
    BY <1>2, <2>2, <2>3
<1> QED
  BY <1>3

(* a strip,                                                                 *)
LEMMA StripFaces ==
  ASSUME NEW b \in Nat, NEW p, NEW n \in Nat, Len(p) = n,
         \A j \in 0 .. n - 1 :
            VERTEX_BUFFER[b + j] = [point |-> p[j + 1],
                                    flag |-> IF j = n - 1 THEN EOL ELSE VERTEX]
  PROVE  Strips(b, n) = Promise!Faces("GL_TRIANGLE_STRIP", p)
<1>1. ASSUME NEW j \in 0 .. n - 3
      PROVE  /\ VERTEX_BUFFER[b + j].point = p[j + 1]
             /\ VERTEX_BUFFER[b + (j + 1)].point = p[j + 2]
             /\ VERTEX_BUFFER[b + (j + 2)].point = p[j + 3]
             /\ VERTEX_BUFFER[b + j].flag = VERTEX /\ VERTEX_BUFFER[b + (j + 1)].flag = VERTEX
  <2>1. j \in 0 .. n - 1 /\ j + 1 \in 0 .. n - 1 /\ j + 2 \in 0 .. n - 1
        /\ (j + 1) + 1 = j + 2 /\ (j + 2) + 1 = j + 3 /\ j # n - 1 /\ j + 1 # n - 1
    OBVIOUS
  <2>2. VERTEX_BUFFER[b + j] = [point |-> p[j + 1], flag |-> VERTEX]
    BY <2>1
  <2>3. VERTEX_BUFFER[b + (j + 1)] = [point |-> p[j + 2], flag |-> VERTEX]
    BY <2>1
  <2>4. VERTEX_BUFFER[b + (j + 2)] = [point |-> p[j + 3],
                                      flag |-> IF j + 2 = n - 1 THEN EOL ELSE VERTEX]
    BY <2>1
  <2> QED
    BY <2>2, <2>3, <2>4
<1>2. ASSUME NEW x
      PROVE  x \in Promise!Faces("GL_TRIANGLE_STRIP", p) <=>
               \E j \in 0 .. n - 3 : x = {p[j + 1], p[j + 2], p[j + 3]}
  <2>1. x \in Promise!Faces("GL_TRIANGLE_STRIP", p) <=>
          \E i \in 1 .. n - 2 : x = {p[i], p[i + 1], p[i + 2]}
    BY DEF Promise!Faces
  <2>2. ASSUME NEW i \in 1 .. n - 2, x = {p[i], p[i + 1], p[i + 2]}
        PROVE  \E j \in 0 .. n - 3 : x = {p[j + 1], p[j + 2], p[j + 3]}
    <3>1. /\ i - 1 \in 0 .. n - 3 /\ (i - 1) + 1 = i /\ (i - 1) + 2 = i + 1
          /\ (i - 1) + 3 = i + 2
      OBVIOUS
    <3> WITNESS i - 1 \in 0 .. n - 3
    <3> QED
      BY <2>2, <3>1
  <2>3. ASSUME NEW j \in 0 .. n - 3, x = {p[j + 1], p[j + 2], p[j + 3]}
        PROVE  \E i \in 1 .. n - 2 : x = {p[i], p[i + 1], p[i + 2]}
    <3>1. j + 1 \in 1 .. n - 2 /\ (j + 1) + 1 = j + 2 /\ (j + 1) + 2 = j + 3
      OBVIOUS
    <3> WITNESS j + 1 \in 1 .. n - 2
    <3> QED
      BY <2>3, <3>1
  <2> QED
    BY <2>1, <2>2, <2>3
<1>3. ASSUME NEW x
      PROVE  x \in Strips(b, n) <=> x \in Promise!Faces("GL_TRIANGLE_STRIP", p)
  <2>1. \A y : y \in Strips(b, n) <=>
          \E j \in 0 .. n - 3 :
             /\ VERTEX_BUFFER[b + j].flag = VERTEX /\ VERTEX_BUFFER[b + (j + 1)].flag = VERTEX
             /\ y = {VERTEX_BUFFER[b + j].point, VERTEX_BUFFER[b + (j + 1)].point,
                     VERTEX_BUFFER[b + (j + 2)].point}
    BY StripsOf
  <2>2. ASSUME x \in Strips(b, n)
        PROVE  \E j \in 0 .. n - 3 : x = {p[j + 1], p[j + 2], p[j + 3]}
    <3>1. PICK j \in 0 .. n - 3 :
            /\ VERTEX_BUFFER[b + j].flag = VERTEX /\ VERTEX_BUFFER[b + (j + 1)].flag = VERTEX
            /\ x = {VERTEX_BUFFER[b + j].point, VERTEX_BUFFER[b + (j + 1)].point,
                    VERTEX_BUFFER[b + (j + 2)].point}
      BY <2>1, <2>2
    <3>2. x = {p[j + 1], p[j + 2], p[j + 3]}
      BY <1>1, <3>1
    <3> QED
      BY <3>2
  <2>3. ASSUME NEW j \in 0 .. n - 3, x = {p[j + 1], p[j + 2], p[j + 3]}
        PROVE  x \in Strips(b, n)
    <3>1. /\ VERTEX_BUFFER[b + j].flag = VERTEX /\ VERTEX_BUFFER[b + (j + 1)].flag = VERTEX
          /\ x = {VERTEX_BUFFER[b + j].point, VERTEX_BUFFER[b + (j + 1)].point,
                  VERTEX_BUFFER[b + (j + 2)].point}
      BY <1>1, <2>3
    <3> QED
      BY <2>1, <3>1
  <2> QED
    BY <1>2, <2>2, <2>3
<1> QED
  BY <1>3

(* and quads, whose first two vertices are stored in the other order.       *)
LEMMA QuadFaces ==
  ASSUME NEW b \in Nat, NEW p, NEW n \in Nat, Len(p) = n, n % 4 = 0,
         \A j \in 0 .. n - 1 :
            VERTEX_BUFFER[b + j] =
              [point |-> IF j % 4 = 0 THEN p[j + 2] ELSE IF j % 4 = 1 THEN p[j] ELSE p[j + 1],
               flag |-> IF j % 4 = 3 THEN EOL ELSE VERTEX]
  PROVE  Strips(b, n) = Promise!Faces("GL_QUADS", p)
<1>1. ASSUME NEW j \in 0 .. n - 3
      PROVE  /\ VERTEX_BUFFER[b + j].flag = VERTEX /\ VERTEX_BUFFER[b + (j + 1)].flag = VERTEX
                  <=> j % 4 \in {0, 1}
             /\ j % 4 = 0 =>
                  {VERTEX_BUFFER[b + j].point, VERTEX_BUFFER[b + (j + 1)].point,
                   VERTEX_BUFFER[b + (j + 2)].point} = {p[j + 1], p[j + 2], p[j + 3]}
             /\ j % 4 = 1 =>
                  {VERTEX_BUFFER[b + j].point, VERTEX_BUFFER[b + (j + 1)].point,
                   VERTEX_BUFFER[b + (j + 2)].point} = {p[j], p[j + 2], p[j + 3]}
  <2>1. /\ j \in 0 .. n - 1 /\ j + 1 \in 0 .. n - 1 /\ j + 2 \in 0 .. n - 1
        /\ (j + 1) + 1 = j + 2 /\ (j + 2) + 1 = j + 3 /\ j \in Nat
    OBVIOUS
  <2>2. /\ j % 4 \in 0 .. 3
        /\ (j + 1) % 4 = IF j % 4 = 3 THEN 0 ELSE (j % 4) + 1
    BY <2>1, Mod4
  <2>3. (j + 2) % 4 = IF (j + 1) % 4 = 3 THEN 0 ELSE ((j + 1) % 4) + 1
    BY <2>1, Mod4
  <2>4. VERTEX # EOL
    BY DEF VERTEX, EOL
  <2>5. VERTEX_BUFFER[b + j] =
          [point |-> IF j % 4 = 0 THEN p[j + 2] ELSE IF j % 4 = 1 THEN p[j] ELSE p[j + 1],
           flag |-> IF j % 4 = 3 THEN EOL ELSE VERTEX]
    BY <2>1
  <2>6. VERTEX_BUFFER[b + (j + 1)] =
          [point |-> IF (j + 1) % 4 = 0 THEN p[(j + 1) + 2]
                     ELSE IF (j + 1) % 4 = 1 THEN p[j + 1] ELSE p[j + 2],
           flag |-> IF (j + 1) % 4 = 3 THEN EOL ELSE VERTEX]
    BY <2>1
  <2>7. VERTEX_BUFFER[b + (j + 2)] =
          [point |-> IF (j + 2) % 4 = 0 THEN p[(j + 2) + 2]
                     ELSE IF (j + 2) % 4 = 1 THEN p[j + 2] ELSE p[j + 3],
           flag |-> IF (j + 2) % 4 = 3 THEN EOL ELSE VERTEX]
    BY <2>1
  <2>8. CASE j % 4 = 0
    <3>1. (j + 1) % 4 = 1 /\ (j + 2) % 4 = 2
      BY <2>2, <2>3, <2>8
    <3>2. /\ VERTEX_BUFFER[b + j] = [point |-> p[j + 2], flag |-> VERTEX]
          /\ VERTEX_BUFFER[b + (j + 1)] = [point |-> p[j + 1], flag |-> VERTEX]
          /\ VERTEX_BUFFER[b + (j + 2)] = [point |-> p[j + 3], flag |-> VERTEX]
      BY <2>5, <2>6, <2>7, <2>8, <3>1
    <3>3. /\ VERTEX_BUFFER[b + j].point = p[j + 2] /\ VERTEX_BUFFER[b + j].flag = VERTEX
          /\ VERTEX_BUFFER[b + (j + 1)].point = p[j + 1]
          /\ VERTEX_BUFFER[b + (j + 1)].flag = VERTEX
          /\ VERTEX_BUFFER[b + (j + 2)].point = p[j + 3]
      BY <3>2
    <3> QED
      BY <2>8, <3>3
  <2>9. CASE j % 4 = 1
    <3>1. (j + 1) % 4 = 2 /\ (j + 2) % 4 = 3
      BY <2>2, <2>3, <2>9
    <3>2. /\ VERTEX_BUFFER[b + j] = [point |-> p[j], flag |-> VERTEX]
          /\ VERTEX_BUFFER[b + (j + 1)] = [point |-> p[j + 2], flag |-> VERTEX]
          /\ VERTEX_BUFFER[b + (j + 2)] = [point |-> p[j + 3], flag |-> EOL]
      BY <2>5, <2>6, <2>7, <2>9, <3>1
    <3>3. /\ VERTEX_BUFFER[b + j].point = p[j] /\ VERTEX_BUFFER[b + j].flag = VERTEX
          /\ VERTEX_BUFFER[b + (j + 1)].point = p[j + 2]
          /\ VERTEX_BUFFER[b + (j + 1)].flag = VERTEX
          /\ VERTEX_BUFFER[b + (j + 2)].point = p[j + 3]
      BY <3>2
    <3> QED
      BY <2>9, <3>3
  <2>10. CASE j % 4 \in {2, 3}
    <3>1. j % 4 = 3 \/ (j + 1) % 4 = 3
      BY <2>2, <2>10
    <3>2. VERTEX_BUFFER[b + j].flag = EOL \/ VERTEX_BUFFER[b + (j + 1)].flag = EOL
      BY <2>5, <2>6, <3>1
    <3>3. j % 4 \notin {0, 1} /\ j % 4 # 0 /\ j % 4 # 1
      BY <2>10
    <3>4. ~(VERTEX_BUFFER[b + j].flag = VERTEX /\ VERTEX_BUFFER[b + (j + 1)].flag = VERTEX)
      BY <2>4, <3>2
    <3> QED
      BY <3>3, <3>4, Zenon
  <2>11. j % 4 = 0 \/ j % 4 = 1 \/ j % 4 \in {2, 3}
    BY <2>2
  <2> QED
    BY <2>8, <2>9, <2>10, <2>11, Zenon
<1>2. ASSUME NEW x
      PROVE  x \in Promise!Faces("GL_QUADS", p) <=>
               \E j \in 0 .. n - 3 :
                  \/ j % 4 = 0 /\ x = {p[j + 1], p[j + 2], p[j + 3]}
                  \/ j % 4 = 1 /\ x = {p[j], p[j + 2], p[j + 3]}
  <2>1. x \in Promise!Faces("GL_QUADS", p) <=>
          \E i \in 1 .. n - 3 :
             i % 4 = 1 /\ (x = {p[i], p[i + 1], p[i + 2]} \/ x = {p[i], p[i + 2], p[i + 3]})
    <3> DEFINE pair(i) == {{p[i], p[i + 1], p[i + 2]}, {p[i], p[i + 2], p[i + 3]}}
    <3>1. Promise!Faces("GL_QUADS", p) =
            UNION {pair(i) : i \in {j \in 1 .. Len(p) - 3 : j % 4 = 1}}
      BY DEF Promise!Faces
    <3>2. \A i : x \in pair(i) <=> x = {p[i], p[i + 1], p[i + 2]} \/ x = {p[i], p[i + 2], p[i + 3]}
      OBVIOUS
    <3> HIDE DEF pair
    <3>3. x \in Promise!Faces("GL_QUADS", p) <=>
            \E i \in 1 .. n - 3 : i % 4 = 1 /\ x \in pair(i)
      BY <3>1
    <3> QED
      BY <3>2, <3>3, Zenon
  <2>2. ASSUME NEW i \in 1 .. n - 3, i % 4 = 1, x = {p[i], p[i + 1], p[i + 2]}
        PROVE  \E j \in 0 .. n - 3 : j % 4 = 0 /\ x = {p[j + 1], p[j + 2], p[j + 3]}
    <3>1. /\ i - 1 \in 0 .. n - 3 /\ (i - 1) + 1 = i /\ (i - 1) + 2 = i + 1
          /\ (i - 1) + 3 = i + 2 /\ i - 1 \in Nat
      OBVIOUS
    <3>2. (i - 1) % 4 = 0
      BY <2>2, <3>1, Mod4
    <3> WITNESS i - 1 \in 0 .. n - 3
    <3> QED
      BY <2>2, <3>1, <3>2
  <2>3. ASSUME NEW i \in 1 .. n - 3, i % 4 = 1, x = {p[i], p[i + 2], p[i + 3]}
        PROVE  \E j \in 0 .. n - 3 : j % 4 = 1 /\ x = {p[j], p[j + 2], p[j + 3]}
    <3>1. i \in 0 .. n - 3
      OBVIOUS
    <3> WITNESS i \in 0 .. n - 3
    <3> QED
      BY <2>3, <3>1
  <2>4. ASSUME NEW j \in 0 .. n - 3, j % 4 = 0, x = {p[j + 1], p[j + 2], p[j + 3]}
        PROVE  \E i \in 1 .. n - 3 : i % 4 = 1 /\ x = {p[i], p[i + 1], p[i + 2]}
    <3>1. /\ j + 1 \in 1 .. n - 3 /\ (j + 1) + 1 = j + 2 /\ (j + 1) + 2 = j + 3
          /\ (j + 1) % 4 = 1
      BY <2>4
    <3> WITNESS j + 1 \in 1 .. n - 3
    <3> QED
      BY <2>4, <3>1
  <2>5. ASSUME NEW j \in 0 .. n - 3, j % 4 = 1, x = {p[j], p[j + 2], p[j + 3]}
        PROVE  \E i \in 1 .. n - 3 : i % 4 = 1 /\ x = {p[i], p[i + 2], p[i + 3]}
    <3>1. j \in 1 .. n - 3
      BY <2>5
    <3> WITNESS j \in 1 .. n - 3
    <3> QED
      BY <2>5
  <2> QED
    BY <2>1, <2>2, <2>3, <2>4, <2>5
<1>3. ASSUME NEW x
      PROVE  x \in Strips(b, n) <=> x \in Promise!Faces("GL_QUADS", p)
  <2>1. \A y : y \in Strips(b, n) <=>
          \E j \in 0 .. n - 3 :
             /\ VERTEX_BUFFER[b + j].flag = VERTEX /\ VERTEX_BUFFER[b + (j + 1)].flag = VERTEX
             /\ y = {VERTEX_BUFFER[b + j].point, VERTEX_BUFFER[b + (j + 1)].point,
                     VERTEX_BUFFER[b + (j + 2)].point}
    BY StripsOf
  <2>2. ASSUME x \in Strips(b, n)
        PROVE  \E j \in 0 .. n - 3 : \/ j % 4 = 0 /\ x = {p[j + 1], p[j + 2], p[j + 3]}
                                     \/ j % 4 = 1 /\ x = {p[j], p[j + 2], p[j + 3]}
    <3>1. PICK j \in 0 .. n - 3 :
            /\ VERTEX_BUFFER[b + j].flag = VERTEX /\ VERTEX_BUFFER[b + (j + 1)].flag = VERTEX
            /\ x = {VERTEX_BUFFER[b + j].point, VERTEX_BUFFER[b + (j + 1)].point,
                    VERTEX_BUFFER[b + (j + 2)].point}
      BY <2>1, <2>2
    <3>2. \/ j % 4 = 0 /\ x = {p[j + 1], p[j + 2], p[j + 3]}
          \/ j % 4 = 1 /\ x = {p[j], p[j + 2], p[j + 3]}
      BY <1>1, <3>1
    <3> QED
      BY <3>2
  <2>3. ASSUME NEW j \in 0 .. n - 3, 
                  \/ j % 4 = 0 /\ x = {p[j + 1], p[j + 2], p[j + 3]}
                  \/ j % 4 = 1 /\ x = {p[j], p[j + 2], p[j + 3]}
        PROVE  x \in Strips(b, n)
    <3>1. /\ VERTEX_BUFFER[b + j].flag = VERTEX /\ VERTEX_BUFFER[b + (j + 1)].flag = VERTEX
          /\ x = {VERTEX_BUFFER[b + j].point, VERTEX_BUFFER[b + (j + 1)].point,
                  VERTEX_BUFFER[b + (j + 2)].point}
      BY <1>1, <2>3
    <3> QED
      BY <2>1, <3>1
  <2> QED
    BY <1>2, <2>2, <2>3
<1> QED
  BY <1>3

(* The range of a complete primitive makes its faces.                       *)
LEMMA FacesOfEnd ==
  ASSUME Inv, glEnd \/ ArraysEnd
  PROVE  Strips(Open.vertex, Open.vertices) = Promise!Faces(prim.mode, prim.points)
<1> DEFINE n == Len(prim.points)
           p == prim.points
           b == Open.vertex
<1>1. /\ ~Between /\ n \in Nat \ {0} /\ b \in Nat
      /\ prim.mode = "GL_TRIANGLES" => n % 3 = 0
      /\ prim.mode = "GL_QUADS" => n % 4 = 0
      /\ prim.mode = "GL_TRIANGLE_STRIP" /\ left = NoArray => n = 4
      /\ left \in {0, NoArray}
      /\ \A k \in 0 .. n - 1 :
           VERTEX_BUFFER[b + Offset(k)] =
             [point |-> p[k + 1], flag |-> IF Ends(Offset(k)) THEN EOL ELSE VERTEX]
  BY CompleteFacts
<1>2. Open.vertices = n /\ prim.mode \in Modes
  BY <1>1, OpenFacts
<1>3. CASE prim.mode = "GL_TRIANGLES"
  <2>1. ASSUME NEW j \in 0 .. n - 1
        PROVE  VERTEX_BUFFER[b + j] =
                 [point |-> p[j + 1], flag |-> IF j % 3 = 2 THEN EOL ELSE VERTEX]
    <3>1. Offset(j) = j
      BY <1>3 DEF Offset
    <3>2. Ends(j) <=> j % 3 = 2
      BY <1>3 DEF Ends
    <3>3. VERTEX_BUFFER[b + Offset(j)] =
            [point |-> p[j + 1], flag |-> IF Ends(Offset(j)) THEN EOL ELSE VERTEX]
      BY <1>1
    <3> QED
      BY <3>1, <3>2, <3>3
  <2>2. n % 3 = 0 /\ n \in Nat /\ b \in Nat /\ Len(p) = n
    BY <1>1, <1>3
  <2> HIDE DEF n, p, b
  <2>3. Strips(b, n) = Promise!Faces("GL_TRIANGLES", p)
    BY <2>1, <2>2, TriangleFaces
  <2> QED
    BY <1>2, <1>3, <2>3 DEF n, p, b
<1>4. CASE prim.mode = "GL_TRIANGLE_STRIP"
  <2>1. ASSUME NEW j \in 0 .. n - 1
        PROVE  VERTEX_BUFFER[b + j] =
                 [point |-> p[j + 1], flag |-> IF j = n - 1 THEN EOL ELSE VERTEX]
    <3>1. Offset(j) = j
      BY <1>4 DEF Offset
    <3>2. Ends(j) <=> j = n - 1
      <4>1. CASE left = NoArray
        <5>1. n - 1 = 3 /\ left # 0
          BY <1>1, <1>4, <4>1 DEF NoArray
        <5>2. Ends(j) <=> j = 3
          BY <1>4, <4>1, <5>1 DEF Ends
        <5> QED
          BY <5>1, <5>2
      <4>2. CASE left = 0
        <5>1. left # NoArray
          BY <4>2 DEF NoArray
        <5> QED
          BY <1>4, <4>2, <5>1 DEF Ends
      <4> QED
        BY <1>1, <4>1, <4>2
    <3>3. VERTEX_BUFFER[b + Offset(j)] =
            [point |-> p[j + 1], flag |-> IF Ends(Offset(j)) THEN EOL ELSE VERTEX]
      BY <1>1
    <3> QED
      BY <3>1, <3>2, <3>3
  <2>2. n \in Nat /\ b \in Nat /\ Len(p) = n
    BY <1>1, <1>4
  <2> HIDE DEF n, p, b
  <2>3. Strips(b, n) = Promise!Faces("GL_TRIANGLE_STRIP", p)
    BY <2>1, <2>2, StripFaces
  <2> QED
    BY <1>2, <1>4, <2>3 DEF n, p, b
<1>5. CASE prim.mode = "GL_QUADS"
  <2>1. ASSUME NEW j \in 0 .. n - 1
        PROVE  VERTEX_BUFFER[b + j] =
                 [point |-> IF j % 4 = 0 THEN p[j + 2]
                            ELSE IF j % 4 = 1 THEN p[j] ELSE p[j + 1],
                  flag |-> IF j % 4 = 3 THEN EOL ELSE VERTEX]
    <3> DEFINE k == IF j % 4 = 0 THEN j + 1 ELSE IF j % 4 = 1 THEN j - 1 ELSE j
    <3>1. k \in 0 .. n - 1 /\ Offset(k) = j
      <4> HIDE DEF n, p, b
      <4>1. n \in Nat /\ n % 4 = 0
        BY <1>1, <1>5
      <4>2. CASE j % 4 = 0
        <5>1. j + 1 \in 0 .. n - 1 /\ (j + 1) % 4 = 1
          BY <4>1, <4>2
        <5> QED
          BY <1>5, <4>2, <5>1 DEF Offset
      <4>3. CASE j % 4 = 1
        <5>1. j - 1 \in 0 .. n - 1 /\ (j - 1) % 4 = 0
          BY <4>1, <4>3
        <5> QED
          BY <1>5, <4>3, <5>1 DEF Offset
      <4>4. CASE j % 4 # 0 /\ j % 4 # 1
        BY <1>5, <4>4 DEF Offset
      <4> QED
        BY <4>2, <4>3, <4>4
    <3>2. Ends(j) <=> j % 4 = 3
      BY <1>5 DEF Ends
    <3>3. p[k + 1] = IF j % 4 = 0 THEN p[j + 2] ELSE IF j % 4 = 1 THEN p[j] ELSE p[j + 1]
      <4> HIDE DEF n, p, b
      <4>1. (j + 1) + 1 = j + 2 /\ (j - 1) + 1 = j
        OBVIOUS
      <4> QED
        BY <4>1
    <3>4. VERTEX_BUFFER[b + Offset(k)] =
            [point |-> p[k + 1], flag |-> IF Ends(Offset(k)) THEN EOL ELSE VERTEX]
      <4> HIDE DEF k
      <4> QED
        BY <1>1, <3>1
    <3> HIDE DEF k, n, p, b
    <3> QED
      BY <3>1, <3>2, <3>3, <3>4
  <2>2. n % 4 = 0 /\ n \in Nat /\ b \in Nat /\ Len(p) = n
    BY <1>1, <1>5
  <2> HIDE DEF n, p, b
  <2>3. Strips(b, n) = Promise!Faces("GL_QUADS", p)
    BY <2>1, <2>2, QuadFaces
  <2> QED
    BY <1>2, <1>5, <2>3 DEF n, p, b
<1> QED
  BY <1>2, <1>3, <1>4, <1>5 DEF Modes

(* The images that the program's textures have.                             *)
LEMMA NamesOf ==
  ASSUME Inv
  PROVE  /\ Len(ids) = Textures - 1 /\ Textures \in 1 .. MaxTextures
         /\ \A t \in 1 .. Len(ids) : ids[t] = t
         /\ [t \in 1 .. Len(ids) |-> TexArr[ids[t]]] = [t \in 1 .. Textures - 1 |-> TexArr[t]]
         /\ Header.image = IF GL_BIND_TEX THEN [t \in 1 .. Len(ids) |-> TexArr[ids[t]]][bound]
                           ELSE NoImage
<1> USE SizeAssumption
<1>1. /\ ids = [t \in 1 .. Textures - 1 |-> t] /\ Textures \in 1 .. MaxTextures
      /\ bound = TexIndex /\ bound \in 1 .. MaxTextures /\ ids \in Seq(1 .. MaxTextures - 1)
  BY DEF Inv, TypeOK, NamesInv
<1>2. Len(ids) = Textures - 1
  BY <1>1
<1>3. \A t \in 1 .. Len(ids) : ids[t] = t
  BY <1>1, <1>2
<1>4. Header.image = IF GL_BIND_TEX THEN [t \in 1 .. Len(ids) |-> TexArr[ids[t]]][bound]
                     ELSE NoImage
  <2>1. CASE GL_BIND_TEX
    <3>1. bound \in 1 .. Len(ids)
      BY <1>1, <1>2, <2>1 DEF Inv, NamesInv
    <3> QED
      BY <1>1, <1>3, <2>1, <3>1 DEF Header
  <2>2. CASE ~GL_BIND_TEX
    BY <2>2 DEF Header
  <2> QED
    BY <2>1, <2>2
<1> QED
  BY <1>1, <1>2, <1>3, <1>4

(* Every step is a step of the promise, or none.                            *)
LEMMA InitMaps == Init => Promise!Init
<1> SUFFICES ASSUME Init PROVE Promise!Init
  OBVIOUS
<1>1. Between /\ \A l \in Lists : Sent(l) = <<>>
  BY DEF Init, Between, Sent
<1>2. /\ ids = <<>> /\ bound = 1 /\ GL_BIND_TEX = FALSE /\ BLEND_MODE = OP
      /\ kglxDirtyDirty = FALSE /\ RenderInit = FALSE
      /\ scene[OP] = <<>> /\ scene[TR] = <<>> /\ Sent(OP) = <<>> /\ Sent(TR) = <<>>
  BY <1>1 DEF Init, Lists
<1>3. (BLEND_MODE = TR) = FALSE
  BY <1>2 DEF OP, TR
<1> QED
  BY <1>1, <1>2, <1>3 DEF Promise!Init, Promise!NoPrim, Promise!NoFrame

LEMMA TextureMaps ==
  ASSUME Inv,
         glGenTextures \/ (\E t \in 1 .. Len(ids) : glBindTexture(t))
                       \/ (\E d \in Images : glKosTex2D(d)) \/ DisableTexture
  PROVE  [Promise!Next]_Promise!vars
<1> USE SizeAssumption
<1> DEFINE image == [t \in 1 .. Len(ids) |-> TexArr[ids[t]]]
<1>1. /\ UNCHANGED <<VERTEX_BUFFER, VERTICES, VERT_LIST, RSIZE, BLEND_MODE, RenderInit,
                     kglxDirtyDirty, scene, prim>>
      /\ Between /\ Between'
  BY DEF glGenTextures, glBindTexture, glKosTex2D, DisableTexture, buffer, lists, given, Between
<1>2. Sent(OP)' = Sent(OP) /\ Sent(TR)' = Sent(TR)
  BY <1>1, QuietKeeps DEF Lists
<1>3. /\ Len(ids) = Textures - 1 /\ Textures \in 1 .. MaxTextures
      /\ \A t \in 1 .. Len(ids) : ids[t] = t
      /\ image = [t \in 1 .. Textures - 1 |-> TexArr[t]]
  BY NamesOf
<1>4. CASE glGenTextures
  <2>1. /\ Textures' = Textures + 1 /\ UNCHANGED <<TexArr, bound, GL_BIND_TEX>>
        /\ ids' = Append(ids, Textures) /\ Textures \in 1 .. MaxTextures - 1
    BY <1>3, <1>4 DEF glGenTextures
  <2>2. ids \in Seq(1 .. MaxTextures - 1) /\ TexArr[Textures] = NoImage
    BY <2>1 DEF Inv, TypeOK, NamesInv
  <2>3. Len(ids') = Len(ids) + 1 /\ ids'[Len(ids) + 1] = Textures
        /\ \A t \in 1 .. Len(ids) : ids'[t] = t
    BY <1>3, <2>1, <2>2
  <2>4. image' = [t \in 1 .. Textures |-> TexArr[t]]
    BY <1>3, <2>1, <2>3
  <2>5. image' = Append(image, NoImage)
    <3> HIDE DEF image
    <3> QED
      BY <1>3, <2>1, <2>2, <2>4
  <2> QED
    BY <1>1, <1>2, <2>1, <2>5 DEF Promise!Next, Promise!GenTexture
<1>5. ASSUME NEW t \in 1 .. Len(ids), glBindTexture(t)
      PROVE  [Promise!Next]_Promise!vars
  <2>1. bound' = t /\ UNCHANGED <<TexArr, ids>> /\ t \in 1 .. Len(image)
    BY <1>3, <1>5 DEF glBindTexture
  <2>2. GL_BIND_TEX' = (RenderInit \/ GL_BIND_TEX)
    BY <1>5 DEF glBindTexture
  <2>3. Promise!Bind(t)
    BY <1>1, <1>2, <2>1, <2>2 DEF Promise!Bind
  <2> QED
    BY <2>1, <2>3 DEF Promise!Next
<1>6. ASSUME NEW d \in Images, glKosTex2D(d)
      PROVE  [Promise!Next]_Promise!vars
  <2>1. /\ TexArr' = [TexArr EXCEPT ![bound] = d] /\ bound \in 1 .. Len(ids)
        /\ UNCHANGED <<ids, bound, GL_BIND_TEX>>
    <3>1. TexIndex = bound /\ ids \in Seq(1 .. MaxTextures - 1)
      BY DEF Inv, TypeOK, NamesInv
    <3> QED
      BY <1>6, <3>1 DEF glKosTex2D
  <2>2. image' = [image EXCEPT ![bound] = d]
    <3>1. TexArr \in [0 .. MaxTextures - 1 -> Images \cup {NoImage}]
      BY DEF Inv, TypeOK
    <3>2. image' = [t \in 1 .. Textures - 1 |-> TexArr'[t]]
      BY <1>3, <2>1
    <3>3. \A t \in 1 .. Textures - 1 : TexArr'[t] = IF t = bound THEN d ELSE TexArr[t]
      BY <1>3, <2>1, <3>1
    <3> HIDE DEF image
    <3>4. image' = [t \in 1 .. Textures - 1 |-> IF t = bound THEN d ELSE TexArr[t]]
      BY <3>2, <3>3
    <3>5. [image EXCEPT ![bound] = d]
            = [t \in 1 .. Textures - 1 |-> IF t = bound THEN d ELSE TexArr[t]]
      BY <1>3
    <3> QED
      BY <3>4, <3>5
  <2>3. bound \in DOMAIN image
    BY <2>1
  <2>4. Promise!Upload(d)
    BY <1>1, <1>2, <2>1, <2>2, <2>3 DEF Promise!Upload
  <2> QED
    BY <2>4 DEF Promise!Next
<1>7. CASE DisableTexture
  <2>1. GL_BIND_TEX' = FALSE /\ UNCHANGED <<TexArr, ids, bound>>
    BY <1>7 DEF DisableTexture, textures
  <2>2. Promise!Unbind
    BY <1>1, <1>2, <2>1 DEF Promise!Unbind
  <2> QED
    BY <2>2 DEF Promise!Next
<1> QED
  BY <1>4, <1>5, <1>6, <1>7

LEMMA BlendMaps ==
  ASSUME Inv, EnableBlend \/ DisableBlend \/ glKosFinishList \/ glKosBeginFrame
  PROVE  [Promise!Next]_Promise!vars
<1>1. /\ UNCHANGED <<VERTEX_BUFFER, VERT_LIST, RSIZE, scene, prim, ids, bound, TexArr,
                     GL_BIND_TEX>>
      /\ Between /\ Between'
  BY DEF EnableBlend, DisableBlend, glKosFinishList, glKosBeginFrame, buffer, lists, given,
         textures, Between
<1>2. Sent(OP)' = Sent(OP) /\ Sent(TR)' = Sent(TR)
  BY <1>1, QuietKeeps DEF Lists
<1>3. OP # TR /\ BLEND_MODE \in {OP, TR}
  BY DEF OP, TR, Inv, TypeOK, Lists
<1>4. CASE EnableBlend
  <2>1. /\ (BLEND_MODE' = TR) = TRUE /\ UNCHANGED <<RenderInit, kglxDirtyDirty>>
        /\ kglxDirtyDirty = (kglxDirtyDirty \/ FALSE)
    BY <1>4, Zenon DEF EnableBlend, Inv, TypeOK
  <2>2. Promise!Blend(TRUE, FALSE)
    BY <1>1, <1>2, <2>1 DEF Promise!Blend
  <2> QED
    BY <2>2 DEF Promise!Next
<1>5. CASE DisableBlend
  <2>1. /\ (BLEND_MODE' = TR) = FALSE /\ UNCHANGED <<RenderInit, kglxDirtyDirty>>
        /\ kglxDirtyDirty = (kglxDirtyDirty \/ FALSE)
    BY <1>3, <1>5, Zenon DEF DisableBlend, Inv, TypeOK
  <2>2. Promise!Blend(FALSE, FALSE)
    BY <1>1, <1>2, <2>1 DEF Promise!Blend
  <2> QED
    BY <2>2 DEF Promise!Next
<1>6. CASE glKosFinishList
  <2>1. /\ (BLEND_MODE' = TR) = TRUE /\ UNCHANGED RenderInit
        /\ kglxDirtyDirty' = (kglxDirtyDirty \/ TRUE)
    BY <1>6, Zenon DEF glKosFinishList
  <2>2. Promise!Blend(TRUE, TRUE)
    BY <1>1, <1>2, <2>1 DEF Promise!Blend
  <2> QED
    BY <2>2 DEF Promise!Next
<1>7. CASE glKosBeginFrame
  <2>1. /\ (BLEND_MODE' = TR) = ((BLEND_MODE = TR) /\ ~kglxDirtyDirty)
        /\ RenderInit' = TRUE /\ kglxDirtyDirty' = FALSE
    BY <1>3, <1>7, Zenon DEF glKosBeginFrame
  <2>2. Promise!BeginFrame
    BY <1>1, <1>2, <2>1 DEF Promise!BeginFrame
  <2> QED
    BY <2>2 DEF Promise!Next
<1> QED
  BY <1>4, <1>5, <1>6, <1>7

LEMMA BeginMaps ==
  ASSUME Inv,
         (\E m \in Modes : glBegin(m))
           \/ \E m \in Modes, k \in 1 .. MaxVertices : glDrawArrays(m, k)
  PROVE  [Promise!Next]_Promise!vars
<1>1. PICK m \in Modes :
        /\ prim' = [mode |-> m, points |-> <<>>] /\ RenderInit /\ OpenNode
        /\ Between /\ RSIZE[BLEND_MODE] < MaxNodes
        /\ UNCHANGED <<VERTEX_BUFFER, RSIZE, BLEND_MODE, GL_BIND_TEX, TexArr, ids, bound,
                       RenderInit, kglxDirtyDirty, scene>>
  BY DEF glBegin, glDrawArrays, Given, textures, buffer
<1>2. /\ Sent(OP)' = Sent(OP) /\ Sent(TR)' = Sent(TR)
      /\ Open'.image = Header.image
  BY <1>1, BeginKeeps DEF Lists
<1>3. ~Between'
  BY <1>1 DEF Between, NoPrim, Modes
<1>4. Header.image = IF GL_BIND_TEX THEN [t \in 1 .. Len(ids) |-> TexArr[ids[t]]][bound]
                     ELSE NoImage
  BY NamesOf
<1>5. VERT_LIST'[BLEND_MODE'][RSIZE'[BLEND_MODE']].image = Header.image
  BY <1>2 DEF Open
<1>6. Promise!Begin(m)
  BY <1>1, <1>2, <1>3, <1>4, <1>5 DEF Promise!Begin, Promise!NoPrim
<1>7. m \in Promise!Modes
  BY DEF Modes, Promise!Modes
<1> QED
  BY <1>6, <1>7 DEF Promise!Next

LEMMA VertexMaps ==
  ASSUME Inv, NEW v \in Points,
         glVertex(v) \/ TransformTri(v) \/ TransformStrip(v) \/ TransformLast(v)
  PROVE  [Promise!Next]_Promise!vars
<1>1. /\ Sent(OP)' = Sent(OP) /\ Sent(TR)' = Sent(TR)
      /\ ~Between' /\ Open'.image = Open.image
      /\ prim'.mode = prim.mode /\ prim'.points = Append(prim.points, v)
  BY VertexKeeps DEF Lists
<1>2. ~Between
  BY VertexStores
<1>3. UNCHANGED <<RSIZE, BLEND_MODE, GL_BIND_TEX, TexArr, ids, bound, RenderInit,
                  kglxDirtyDirty, scene>>
  BY DEF glVertex, TransformTri, TransformStrip, TransformLast, textures, flags
<1>4. VERT_LIST'[BLEND_MODE'][RSIZE'[BLEND_MODE']].image = VERT_LIST[BLEND_MODE][RSIZE[BLEND_MODE]].image
  BY <1>1 DEF Open
<1>5. prim.mode # "none"
  BY <1>2, OpenFacts DEF Modes
<1>6. Promise!Vertex(v)
  <2> DEFINE open == VERT_LIST[BLEND_MODE][RSIZE[BLEND_MODE]].image
             now == [mode |-> prim.mode, points |-> prim.points, image |-> open]
  <2>1. [mode |-> prim'.mode, points |-> prim'.points, image |-> open']
           = [now EXCEPT !.points = Append(@, v)]
    <3>1. open' = open
      BY <1>4
    <3> HIDE DEF open
    <3>2. [now EXCEPT !.points = Append(@, v)]
             = [mode |-> prim.mode, points |-> Append(prim.points, v), image |-> open]
      OBVIOUS
    <3> QED
      BY <1>1, <3>1, <3>2
  <2>2. now # Promise!NoPrim
    BY <1>5 DEF Promise!NoPrim
  <2> QED
    BY <1>1, <1>2, <1>3, <2>1, <2>2 DEF Promise!Vertex
<1> QED
  BY <1>6 DEF Promise!Next

LEMMA EndMaps ==
  ASSUME Inv, glEnd \/ ArraysEnd
  PROVE  [Promise!Next]_Promise!vars
<1> USE SizeAssumption
<1>1. /\ RSIZE' = [RSIZE EXCEPT ![BLEND_MODE] = @ + 1]
      /\ GL_BIND_TEX' = FALSE /\ prim' = NoPrim
      /\ UNCHANGED <<VERTEX_BUFFER, VERT_LIST, BLEND_MODE, TexArr, ids, bound, RenderInit,
                     kglxDirtyDirty, scene>>
  BY DEF glEnd, ArraysEnd, CloseNode, buffer, textures
<1>2. ~Between /\ Between'
  BY <1>1, CompleteFacts DEF Between
<1>3. BLEND_MODE \in Lists /\ RSIZE \in [Lists -> 0 .. MaxNodes] /\ OP # TR
      /\ prim.mode # "none"
  BY <1>2, OpenFacts DEF OP, TR, Inv, TypeOK, Modes
<1> DEFINE drawn == [image |-> Open.image,
                     faces |-> Promise!Faces(prim.mode, prim.points)]
<1>4. ASSUME NEW l \in Lists, l # BLEND_MODE
      PROVE  Sent(l)' = Sent(l)
  <2>1. RSIZE'[l] = RSIZE[l] /\ VERT_LIST'[l] = VERT_LIST[l]
    BY <1>1, <1>3, <1>4
  <2>2. \A f, k : Strips(f, k)' = Strips(f, k)
    BY <1>1 DEF Strips
  <2> QED
    BY <2>1, <2>2 DEF Sent
<1>5. Sent(BLEND_MODE)' = Append(Sent(BLEND_MODE), drawn)
  <2> DEFINE r == RSIZE[BLEND_MODE]
             node(i) == VERT_LIST[BLEND_MODE][i - 1]
             sent(i) == [image |-> node(i).image, faces |-> Strips(node(i).vertex, node(i).vertices)]
  <2>1. RSIZE'[BLEND_MODE] = r + 1 /\ r \in Nat
    BY <1>1, <1>3
  <2>2. \A f, k : Strips(f, k)' = Strips(f, k)
    BY <1>1 DEF Strips
  <2>3. Sent(BLEND_MODE) = [i \in 1 .. r |-> sent(i)]
    BY DEF Sent
  <2>4. Sent(BLEND_MODE)' = [i \in 1 .. r + 1 |-> sent(i)]
    BY <1>1, <2>1, <2>2 DEF Sent
  <2>5. sent(r + 1) = drawn
    <3>1. node(r + 1) = Open
      BY <2>1 DEF Open
    <3>2. Strips(Open.vertex, Open.vertices) = Promise!Faces(prim.mode, prim.points)
      BY FacesOfEnd
    <3> QED
      BY <3>1, <3>2
  <2> HIDE DEF sent, r, drawn
  <2> QED
    BY <2>1, <2>3, <2>4, <2>5
<1>6. drawn = Promise!Drawn
  BY <1>2 DEF Promise!Drawn, Open
<1> HIDE DEF drawn
<1>7. Promise!End
  <2>1. CASE BLEND_MODE = TR
    <3>1. Sent(TR)' = Append(Sent(TR), Promise!Drawn) /\ Sent(OP)' = Sent(OP)
      BY <1>1, <1>3, <1>4, <1>5, <1>6, <2>1 DEF Lists
    <3> HIDE DEF Promise!Drawn
    <3> QED
      BY <1>1, <1>2, <1>3, <2>1, <3>1 DEF Promise!End, Promise!NoPrim
  <2>2. CASE BLEND_MODE = OP
    <3>1. Sent(OP)' = Append(Sent(OP), Promise!Drawn) /\ Sent(TR)' = Sent(TR)
      BY <1>1, <1>3, <1>4, <1>5, <1>6, <2>2 DEF Lists
    <3> HIDE DEF Promise!Drawn
    <3> QED
      BY <1>1, <1>2, <1>3, <2>2, <3>1 DEF Promise!End, Promise!NoPrim
  <2> QED
    BY <1>3, <2>1, <2>2 DEF Lists
<1> QED
  BY <1>7 DEF Promise!Next

LEMMA FinishMaps ==
  ASSUME Inv, glKosFinishFrame
  PROVE  [Promise!Next]_Promise!vars
<1>1. /\ Between /\ RenderInit
      /\ scene' = [l \in Lists |-> Sent(l)] /\ RSIZE' = [l \in Lists |-> 0]
      /\ RenderInit' = FALSE
      /\ UNCHANGED <<BLEND_MODE, GL_BIND_TEX, TexArr, ids, bound, kglxDirtyDirty, prim>>
  BY DEF glKosFinishFrame, textures, given
<1>2. Between'
  BY <1>1 DEF Between
<1>3. Sent(OP)' = <<>> /\ Sent(TR)' = <<>>
  BY <1>1 DEF Sent, Lists
<1>4. scene'[OP] = Sent(OP) /\ scene'[TR] = Sent(TR)
  BY <1>1 DEF Lists
<1>5. Promise!FinishFrame
  BY <1>1, <1>2, <1>3, <1>4 DEF Promise!FinishFrame, Promise!NoPrim, Promise!NoFrame
<1> QED
  BY <1>5 DEF Promise!Next

(* Whatever the program draws, its frames show the faces of its primitives  *)
(* with the images of their textures, in two lists: gl-render.c and         *)
(* gl-vertex.h implement DisplayList.                                       *)
THEOREM FramesShowWhatIsDrawn == Spec => Shows
<1>1. Inv /\ [Next]_vars => [Promise!Next]_Promise!vars
  <2> SUFFICES ASSUME Inv, [Next]_vars PROVE [Promise!Next]_Promise!vars
    OBVIOUS
  <2>1. CASE Next
    BY <2>1, TextureMaps, BlendMaps, BeginMaps, VertexMaps, EndMaps, FinishMaps DEF Next
  <2>2. CASE UNCHANGED vars
    <3>1. UNCHANGED <<VERTEX_BUFFER, VERT_LIST, RSIZE, BLEND_MODE, GL_BIND_TEX, TexArr, ids,
                      bound, RenderInit, kglxDirtyDirty, scene, prim>>
      BY <2>2 DEF vars, buffer, lists, textures, given
    <3>2. UNCHANGED <<Sent(OP), Sent(TR), Between>>
      BY <3>1 DEF Sent, Strips, Between
    <3> QED
      BY <3>1, <3>2 DEF Promise!vars
  <2> QED
    BY <2>1, <2>2
<1> QED
  BY <1>1, InvInit, InvStep, InitMaps, PTL DEF Spec, Shows, Promise!Spec
=============================================================================
