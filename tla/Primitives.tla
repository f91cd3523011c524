----------------------------- MODULE Primitives -----------------------------
(***************************************************************************)
(* The meshes that the renderer makes itself: PlaneCreator and             *)
(* TetrahedronCreator, the vertex structs they fill and the Mesh that      *)
(* takes them (dx12/graphics/dx12/utility/Mesh).                           *)
(*                                                                         *)
(* Coordinates are integers: those of a plane in halves; those of the      *)
(* tetrahedron in twelfths of 1, of its height n and of sqrt(3)/2 along    *)
(* x, y and z.  The scales are positive, so on which side of a triangle    *)
(* the origin lies is the same in both.  Vertices count from 0.            *)
(***************************************************************************)
EXTENDS Integers, Sequences, SequencesExt

(* The fields of the vertex structs in their order, and their sizes.       *)
VertexFields ==
    [P    |-> <<"POSITION">>,
     PC   |-> <<"POSITION", "COLOR">>,
     PT   |-> <<"POSITION", "TEXCOORD">>,
     PN   |-> <<"POSITION", "NORMAL">>,
     PTN  |-> <<"POSITION", "TEXCOORD", "NORMAL">>,
     PTNC |-> <<"POSITION", "TEXCOORD", "NORMAL", "COLOR">>]

FieldSize == [POSITION |-> 12, TEXCOORD |-> 8, NORMAL |-> 12, COLOR |-> 4]

(* Where the i-th of these fields starts, without gaps between them.       *)
OffsetOf(fields, i) ==
    FoldLeft(LAMBDA sum, field : sum + FieldSize[field], 0, SubSeq(fields, 1, i - 1))

Stride(fields) == OffsetOf(fields, Len(fields) + 1)

(* The arithmetic of math::float3.                                         *)
Minus(a, b) == [i \in 1..3 |-> a[i] - b[i]]
Dot(a, b)   == a[1] * b[1] + a[2] * b[2] + a[3] * b[3]
Cross(a, b) == <<a[2] * b[3] - a[3] * b[2],
                 a[3] * b[1] - a[1] * b[3],
                 a[1] * b[2] - a[2] * b[1]>>

(* A vertex, of which a struct has the fields of its type.                 *)
Vertex(pos, texcoord, normal, color) ==
    [POSITION |-> pos, TEXCOORD |-> texcoord, NORMAL |-> normal, COLOR |-> color]
-----------------------------------------------------------------------------
(* Plane.cpp: the corners, the order in which their components become x, y *)
(* and z, and what else a vertex has.                                      *)
PlaneCorners   == << <<1, 1, 0>>, <<-1, 1, 0>>, <<1, -1, 0>>, <<-1, -1, 0>> >>
PlaneIndices   == [XY |-> <<0, 1, 2>>, ZY |-> <<2, 1, 0>>, XZ |-> <<1, 2, 0>>]
PlaneNormals   == [XY |-> <<0, 0, 1>>, ZY |-> <<1, 0, 0>>, XZ |-> <<0, 1, 0>>]
PlaneTexcoords == << <<0, 0>>, <<2, 0>>, <<0, 2>>, <<2, 2>> >>

PlaneBaseIndices == <<0, 1, 2, 1, 3, 2>>

(* PlaneCreator::sCreate: one overload for each vertex type, which fills   *)
(* the fields of its struct.                                               *)
PlaneMesh(type) ==
    [vertices |-> [i \in 1..4 |->
        Vertex([k \in 1..3 |-> PlaneCorners[i][PlaneIndices[type][k] + 1]],
               PlaneTexcoords[i], PlaneNormals[type], i)],
     indices  |-> PlaneBaseIndices]
-----------------------------------------------------------------------------
(* Tetrahedron.cpp: the top above the middle of the base, all moved so     *)
(* that their mean is the origin.                                          *)
RawCorners == << <<0, 6, -2>>, <<0, -6, 6>>, <<6, -6, -6>>, <<-6, -6, -6>> >>

TetrahedronCorners ==
    LET sum(k) == RawCorners[1][k] + RawCorners[2][k] + RawCorners[3][k] + RawCorners[4][k]
    IN  [i \in 1..4 |-> [k \in 1..3 |-> RawCorners[i][k] - sum(k) \div 4]]

TetrahedronTexcoords    == << <<1, 0>>, <<2, 2>>, <<0, 2>> >>
TetrahedronBaseIndices  == <<0, 1, 2, 0, 2, 3, 0, 3, 1, 1, 3, 2>>

(* The corner of the i-th of the twelve indices, and the normal of its     *)
(* triangle.                                                               *)
BaseCorner(i) == TetrahedronCorners[TetrahedronBaseIndices[i] + 1]

FaceNormal(i) ==
    LET first == i - ((i - 1) % 3)
    IN  Cross(Minus(BaseCorner(first + 1), BaseCorner(first)),
              Minus(BaseCorner(first + 2), BaseCorner(first)))

(* TetrahedronCreator::sCreate: P and PC share the four corners; the       *)
(* others have three vertices of its own for each face.                    *)
TetrahedronMesh(vertexType) ==
    IF vertexType \in {"P", "PC"}
    THEN [vertices |-> [i \in 1..4 |->
                          Vertex(TetrahedronCorners[i], <<0, 0>>, <<0, 0, 0>>, i)],
          indices  |-> TetrahedronBaseIndices]
    ELSE [vertices |-> [i \in 1..12 |->
                          Vertex(BaseCorner(i), TetrahedronTexcoords[((i - 1) % 3) + 1],
                                 FaceNormal(i), TetrahedronBaseIndices[i] + 1)],
          indices  |-> [i \in 1..12 |-> i - 1]]
-----------------------------------------------------------------------------
(* Mesh::create: the buffers' views.  InitParam has the stride of the      *)
(* struct and the format of the indices.                                   *)
MeshView(vertexType, mesh) ==
    [vertexStride |-> Stride(VertexFields[vertexType]),
     vertexBytes  |-> Len(mesh.vertices) * Stride(VertexFields[vertexType]),
     indexFormat  |-> "R16_UINT",
     indexBytes   |-> Len(mesh.indices) * 2,
     indexCount   |-> Len(mesh.indices)]

(* What draw takes from them, triangle by triangle: the vertices at the    *)
(* indices, as long as the buffers have them.                              *)
TriangleCount(view) == view.indexCount \div 3

Triangle(mesh, n) == [k \in 1..3 |-> mesh.vertices[mesh.indices[3 * n + k] + 1]]

InBounds(mesh, view) ==
    /\ view.indexCount * 2 <= view.indexBytes
    /\ \A i \in 1..view.indexCount :
         (mesh.indices[i] + 1) * view.vertexStride <= view.vertexBytes

(* The side of a triangle from which it is seen: with the rasterizer's     *)
(* default, and a left-handed system, its vertices turn clockwise there.   *)
FrontSide(triangle) ==
    Cross(Minus(triangle[2].POSITION, triangle[1].POSITION),
          Minus(triangle[3].POSITION, triangle[1].POSITION))
=============================================================================
