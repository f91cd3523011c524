----------------------------- MODULE Transforms -----------------------------
(***************************************************************************)
(* What the scenes calculate with SimpleMath from frame to frame: a model  *)
(* is turned, by matrices (DemoScene.h:77-88) and by quaternions           *)
(* (Object.cpp:161-167), a camera and a light look at it, and matrices are *)
(* inverted to get back from clip space (DemoScene.cpp:191, 236,           *)
(* VolumetricLightManager.cpp:189).  inverse is the long calculation: it   *)
(* decomposes the matrix row by row, each row one step here, and leaves    *)
(* the rows of the result where they are: only the pointers pRow to them   *)
(* are exchanged.                                                          *)
(***************************************************************************)
EXTENDS SimpleMath

CONSTANTS
    Axes,       \* the axes of the turns: unit vectors
    Angles,     \* the angles of the turns
    MaxTurns,   \* turns in a row
    Matrices,   \* matrices to be inverted, besides those that turns make
    Tolerances  \* the tolerances inverse is called with

VARIABLES
    rot,                \* the turns so far, as a matrix
    basis,              \* the three axes, turned by the quaternions
    turned,             \* the last turn: its axis and its angle
    turns,
    mat, tolerance,     \* the arguments of inverse
    LU, permutationIndices, pRow, row,  \* LUDecompose
    step,               \* "none", "rows", "decomposed" or "done"
    result, isSuccess   \* of inverse

turnVars == <<rot, basis, turned, turns>>
inverseVars == <<mat, tolerance, LU, permutationIndices, pRow, row, step, result, isSuccess>>
vars == <<turnVars, inverseVars>>

Ex == float3(One, Zero, Zero)
Ey == float3(Zero, One, Zero)
Ez == float3(Zero, Zero, One)

N == ROW(mat)
-----------------------------------------------------------------------------
(* One step of updateOrientation: the rotation is multiplied by one more.  *)
Turn(axis, a) ==
    /\ step = "none"
    /\ turns < MaxTurns
    /\ rot' = mul(rot, CASE axis = Ex -> makeRotationX(a)
                         [] axis = Ey -> makeRotationY(a)
                         [] axis = Ez -> makeRotationZ(a)
                         [] OTHER -> makeRotationAxis(axis, a))
    /\ basis' = [i \in 1..3 |-> rotatePos(basis[i], makeRotaQuaternion(axis, a))]
    /\ turned' = <<axis, a>>
    /\ turns' = turns + 1
    /\ UNCHANGED inverseVars

(* updateOrientation: scale, rotation, position.                           *)
Orientation(scale, pos) ==
    LET rotMat == [float4x4(rot) EXCEPT ![4] = quaternion(Zero, Zero, Zero, One)[1]]
    IN  [mul(makeScale(scale, 4), rotMat) EXCEPT ![4] = float4(pos, One)[1]]

(* The camera and the light look from pos along the third axis.            *)
Front == <<rot[3]>>
Up    == <<rot[2]>>
View(pos) == makeView(pos, Plus(pos, Front), Up)
-----------------------------------------------------------------------------
(* LUDecompose                                                             *)

(* Copies the matrix; no row has been exchanged.                           *)
BeginInverse(m, t) ==
    /\ step = "none"
    /\ mat' = m /\ tolerance' = t
    /\ LU' = m
    /\ permutationIndices' = [i \in 1..(ROW(m) + 1) |-> IF i > ROW(m) THEN ROW(m) ELSE i]
    /\ pRow' = [i \in 1..ROW(m) |-> i]
    /\ row' = 1
    /\ step' = "rows"
    /\ isSuccess' = FALSE
    /\ result' = m
    /\ UNCHANGED turnVars

(* The row, from the current one on, with the largest element in the       *)
(* current column; the first of those that have it.                        *)
MaxRowIndex ==
    LET Size(k) == AbsQ(LU[pRow[k]][row])
        Larger(k, j) == Less(Size(j), Size(k))
    IN  IF \A k \in row..N : ~Less(Zero, Size(k)) THEN row
        ELSE CHOOSE k \in row..N :
               /\ \A j \in row..N : ~Larger(j, k)
               /\ \A j \in row..(k - 1) : Larger(k, j)

LOCAL Swapped(s, i, j) == [s EXCEPT ![i] = s[j], ![j] = s[i]]

(* Mutant of Exchanged: the pointers are not exchanged along.              *)
ExchangedIndicesOnly(k) ==
    IF k = row THEN [indices |-> permutationIndices, rows |-> pRow]
    ELSE [indices |-> [Swapped(permutationIndices, row, k) EXCEPT ![N + 1] = @ + 1],
          rows    |-> pRow]

Exchanged(k) ==
    IF k = row THEN [indices |-> permutationIndices, rows |-> pRow]
    ELSE [indices |-> [Swapped(permutationIndices, row, k) EXCEPT ![N + 1] = @ + 1],
          rows    |-> Swapped(pRow, row, k)]

(* What elimination makes of the row at j: the quotient in the current     *)
(* column, and the row less that many times the current one.               *)
Eliminated(rows, j) ==
    LET quotient == LU[rows[j]][row] \oslash LU[rows[row]][row]
    IN  [k \in 1..N |-> CASE k < row -> LU[rows[j]][k]
                          [] k = row -> quotient
                          [] k > row -> LU[rows[j]][k] \ominus (quotient \otimes LU[rows[row]][k])]

LargestElement == LET v == AbsQ(LU[pRow[MaxRowIndex]][row])
                  IN  IF Less(Zero, v) THEN v ELSE Zero

(* The loop over the rows, once.                                           *)
DecomposeRow ==
    /\ step = "rows"
    /\ row <= N
    /\ ~Less(LargestElement, tolerance)
    /\ LET e == Exchanged(MaxRowIndex)
       IN  /\ permutationIndices' = e.indices
           /\ pRow' = e.rows
           /\ LU' = [r \in 1..N |-> IF \E j \in (row + 1)..N : e.rows[j] = r
                                    THEN Eliminated(e.rows, CHOOSE j \in (row + 1)..N : e.rows[j] = r)
                                    ELSE LU[r]]
    /\ row' = row + 1
    /\ step' = IF row = N THEN "decomposed" ELSE "rows"
    /\ UNCHANGED <<turnVars, mat, tolerance, result, isSuccess>>

(* Too small: inverse returns the matrix.                                  *)
GiveUp ==
    /\ step = "rows"
    /\ Less(LargestElement, tolerance)
    /\ step' = "done"
    /\ UNCHANGED <<turnVars, mat, tolerance, LU, permutationIndices, pRow, row,
                   result, isSuccess>>

(* The determinant of a decomposed matrix: the product of the diagonal of  *)
(* LU, where the rows lie as they did in the matrix.                       *)
LUDeterminant ==
    LET det == MapThenFoldSet(LAMBDA a, b : a \otimes b, One, LAMBDA i : LU[i][i],
                              LAMBDA S : CHOOSE i \in S : TRUE, 1..N)
    IN  IF (permutationIndices[N + 1] - N) % 2 = 0 THEN det ELSE Negated(det)

LOCAL Accumulated(from, to, Term(_)) ==
    MapThenFoldSet(LAMBDA a, b : a \oplus b, Zero, Term,
                   LAMBDA S : CHOOSE i \in S : TRUE, from..to)

(* Mutant of LUInverse: the quotients are taken from the rows as they lie. *)
LUInverseUnpermuted ==
    LET Column(col) ==
          LET forward[r \in 1..N] ==
                (IF permutationIndices[r] = col THEN One ELSE Zero) \ominus
                    Accumulated(1, r - 1, LAMBDA k : LU[r][k] \otimes forward[k])
              backward[r \in 1..N] ==
                (forward[r] \ominus Accumulated(r + 1, N, LAMBDA k : LU[r][k] \otimes backward[k]))
                    \oslash LU[r][r]
          IN  backward
    IN  Mapped(N, N, LAMBDA r, c : Column(c)[r])

(* The inverse of a decomposed matrix, column by column: L is solved from  *)
(* the first row on, then U from the last row back.                        *)
LUInverse ==
    LET At(r, k) == LU[permutationIndices[r]][k]
        Column(col) ==
          LET forward[r \in 1..N] ==
                (IF permutationIndices[r] = col THEN One ELSE Zero) \ominus
                    Accumulated(1, r - 1, LAMBDA k : At(r, k) \otimes forward[k])
              backward[r \in 1..N] ==
                (forward[r] \ominus Accumulated(r + 1, N, LAMBDA k : At(r, k) \otimes backward[k]))
                    \oslash At(r, r)
          IN  backward
    IN  Mapped(N, N, LAMBDA r, c : Column(c)[r])

(* inverse, when the matrix is decomposed.                                 *)
EndInverse ==
    /\ step = "decomposed"
    /\ IF LUDeterminant = Zero
       THEN UNCHANGED <<result, isSuccess>>
       ELSE result' = LUInverse /\ isSuccess' = TRUE
    /\ step' = "done"
    /\ UNCHANGED <<turnVars, mat, tolerance, LU, permutationIndices, pRow, row>>
-----------------------------------------------------------------------------
(* The matrices that the scenes invert, of what has been turned.           *)
Turned ==
    IF turns > 1 THEN {}
    ELSE {rot, Orientation(float3(Int2Q(2), One, Int2Q(3)), float3(One, Int2Q(-2), Int2Q(5))),
          View(float3(Int2Q(4), One, Int2Q(-2)))}

Init ==
    /\ rot = Identity(3)
    /\ basis = <<Ex, Ey, Ez>>
    /\ turned = <<Ex, Angle(One, Zero)>>
    /\ turns = 0
    /\ mat = Identity(3) /\ LU = Identity(3) /\ result = Identity(3)
    /\ tolerance = Zero
    /\ permutationIndices = <<1, 2, 3, 3>> /\ pRow = <<1, 2, 3>>
    /\ row = 1
    /\ step = "none"
    /\ isSuccess = FALSE

Next ==
    \/ \E axis \in Axes, a \in Angles : Turn(axis, a)
    \/ \E m \in Turned, t \in Tolerances : BeginInverse(m, t)
    \/ turns = 0 /\ \E m \in Matrices, t \in Tolerances : BeginInverse(m, t)
    \/ DecomposeRow \/ GiveUp \/ EndInverse

Spec == Init /\ [][Next]_vars
-----------------------------------------------------------------------------
(* Turning by quaternions and by matrices is the same thing, whatever the  *)
(* turns before it: both are left-handed, and the matrix multiplies row    *)
(* vectors from the right (SimpleMath.h:2234-2309, 2461-2572).             *)
SameTurns ==
    /\ Matrix3x3(rot)
    /\ \A i \in 1..3 : Vector3(basis[i]) /\ Equal(basis[i], <<rot[i]>>)

LastAxis == turned[1]
LastAngle == turned[2]
LastQ == makeRotaQuaternion(LastAxis, LastAngle)
LastMatrix == makeRotationAxis(LastAxis, LastAngle)
Equivalent(q, p) == p \in {q, Opposite(q)}

(* The directions whose turn is known exactly: along the axis, which keeps *)
(* them, and across it.                                                    *)
Directions == {p \in {Ex, Ey, Ez, LastAxis} : dot(p, LastAxis) \in {Zero, One}}

(* The turn that takes a direction where the last turn took it is the last *)
(* turn.  When the two are the same or opposite, makeRotaQuaternion has    *)
(* the two cases exchanged: it turns what should stay and leaves what      *)
(* should turn, so that the direction always ends up opposite.             *)
TurnOfDirections ==
    \A p \in Directions :
        LET to == rotatePos(p, LastQ)
            q == makeRotaQuaternionTo(p, to)
        IN  IF AbsQ(dot(p, to)) = One THEN rotatePos(p, q) = Opposite(to)
                                      ELSE Equivalent(LastQ, q)

(* convertRota makes all of the matrix but _33, which it never writes and  *)
(* leaves at the 1 of setIdentity.                                         *)
MatrixBut33 ==
    convertRota(LastQ) = [float4x4(LastMatrix) EXCEPT ![3][3] = One,
                                                      ![4] = quaternion(Zero, Zero, Zero, One)[1]]

(* The last turn can be undone, taken from the matrix, taken from where it *)
(* moves a direction, made a matrix, and reached by slerp.                 *)
LastTurnAgrees ==
    /\ mul(LastMatrix, transpose(LastMatrix)) = Identity(3)
    /\ determinant(LastMatrix) = One
    /\ \A p \in {Ex, Ey, Ez} : rotatePos(rotatePos(p, LastQ), conjugate(LastQ)) = p
    /\ inverseQ(LastQ) = conjugate(LastQ)
    /\ Equivalent(LastQ, convertRotaOf(LastMatrix))
    /\ MatrixBut33
    /\ TurnOfDirections
    /\ LET still == quaternion(Zero, Zero, Zero, One)
       IN  /\ slerp(still, LastQ, Zero) = still
           /\ Equivalent(LastQ, slerp(still, LastQ, One)) \/ Equivalent(still, LastQ)
    /\ \A i \in 1..3 :
         LET p == float3(Int2Q(i), Int2Q(-2), Int2Q(3))
             along == projection(p, LastAxis)
         IN  /\ dot(Minus(p, along), LastAxis) = Zero
             /\ lerp(p, reflect(p, LastAxis), Q(1, 2)) = Minus(p, along)

(* Any number of turns about any axes: the quaternions and the matrices    *)
(* turn everything alike, and each turn is that of its axis and angle      *)
(* however it is calculated (SimpleMath.h:2283-2309, 2461-2688), but for   *)
(* two places that are stated as the code has them and not as its comments *)
(* do: makeRotaQuaternion of the same or of opposite directions, which     *)
(* leads to the opposite of the target (2478-2492), and convertRota, whose *)
(* _33 stays 1 (2600-2629).                                                *)
TurnsAgree == SameTurns /\ (turns <= 1 => LastTurnAgrees)

(* A point, given by its place along the camera's own axes from the eye,   *)
(* is seen there (SimpleMath.h:2374-2391).                                 *)
InView(pos, view) == mul(float4(pos, One), view)
Eyes == {float3(Int2Q(4), One, Int2Q(-2)), float3(Zero, Int2Q(-3), Int2Q(5))}
EyeIsOrigin ==
    \A eye \in Eyes : \A a \in {Int2Q(2), Int2Q(-1)}, c \in {One, Int2Q(7)} :
        LET right == <<rot[1]>>
            p == Plus(eye, Plus(Scaled(a, right), Plus(Scaled(c, Up), Scaled(Int2Q(3), Front))))
        IN  /\ Matrix4x4(View(eye)) /\ Vector4(InView(p, View(eye)))
            /\ InView(p, View(eye)) = quaternion(a, c, Int2Q(3), One)

(* A light that looks at the origin from above, with an up that is not     *)
(* across its direction: depth and the first coordinate are right.         *)
LightSees ==
    LET eye == float3(Zero, Int2Q(3), Int2Q(-4))
        p == InView(float3(Int2Q(6), Zero, Zero), makeView(eye, float3(Zero, Zero, Zero), Ey))
    IN  X(p) = Int2Q(6) /\ Z(p) = Int2Q(5)

(* Near and far plane go to depth 0 and 1, the corners of the light's box  *)
(* to the corners of the shadow map (SimpleMath.h:2399-2441).              *)
PlanesMeet ==
    \A near \in {Q(1, 10), Int2Q(2)}, far \in {Int2Q(4), Int2Q(100)} :
        LET persp == makePerspective(near, far, Angle(Q(4, 5), Q(3, 5)), Q(4, 3))
            ortho == makeOrthogonal(Int2Q(10), Int2Q(6), near, far)
            Seen(x, y, z, m) == mul(float4(float3(x, y, z), One), m)
        IN  /\ Z(Seen(One, One, near, persp)) = Zero
            /\ Z(Seen(One, One, far, persp)) = W(Seen(One, One, far, persp))
            /\ Y(Seen(Zero, Q(3, 4) \otimes far, far, persp)) = far
            /\ Seen(Int2Q(-5), Int2Q(3), near, mul(ortho, makeToUVFromClipSpace))
                  = quaternion(Zero, Zero, Zero, One)
            /\ Seen(Int2Q(5), Int2Q(-3), far, mul(ortho, makeToUVFromClipSpace))
                  = quaternion(One, One, One, One)

(* What a turned camera and the light see lies where it should, from the   *)
(* world to the shadow map.                                                *)
CameraSees ==
    turns <= 1 /\ step = "none" => EyeIsOrigin /\ LightSees /\ PlanesMeet

(* The determinant by its definition.                                      *)
LOCAL Inversions(p) == Cardinality({ij \in (DOMAIN p) \X (DOMAIN p) :
                                       ij[1] < ij[2] /\ p[ij[1]] > p[ij[2]]})
Det(m) ==
    LET Perms == {p \in [1..ROW(m) -> 1..ROW(m)] : \A i, j \in 1..ROW(m) : i # j => p[i] # p[j]}
        Prod(p) == MapThenFoldSet(LAMBDA a, b : a \otimes b, One, LAMBDA i : m[i][p[i]],
                                  LAMBDA S : CHOOSE i \in S : TRUE, 1..ROW(m))
    IN  MapThenFoldSet(LAMBDA a, b : a \oplus b, Zero,
            LAMBDA p : IF Inversions(p) % 2 = 0 THEN Prod(p) ELSE Negated(Prod(p)),
            LAMBDA S : CHOOSE p \in S : TRUE, Perms)
Regular == Det(mat) # Zero

(* After every row, whatever rows were exchanged, the quotients below the  *)
(* diagonal and the rest above it multiply to the rows of the matrix in    *)
(* their new order, and no quotient is larger than 1                       *)
(* (SimpleMath.h:2089-2116).                                               *)
Factorised ==
    step # "none" /\ Regular =>
        LET Least(S) == CHOOSE x \in S : \A y \in S : x <= y
            At(i, k) == LU[pRow[i]][k]
            Rebuilt(i, k) ==
                Accumulated(1, Least({i - 1, row - 1, k}), LAMBDA m : At(i, m) \otimes At(m, k))
                    \oplus (IF k >= i \/ k >= row THEN At(i, k) ELSE Zero)
        IN  \A i \in 1..N : \A k \in 1..N :
              /\ mat[permutationIndices[i]][k] = Rebuilt(i, k)
              /\ k < i /\ k < row => ~Less(One, AbsQ(At(i, k)))

(* What inverse returns of a regular matrix is its inverse when it says    *)
(* so, and the matrix itself when it does not; without an exchange of rows *)
(* and a tolerance it does find it (SimpleMath.h:2185-2202).               *)
InverseIsOne ==
    step = "done" =>
        /\ isSuccess /\ Regular =>
             mul(mat, result) = Identity(N) /\ mul(result, mat) = Identity(N)
        /\ ~isSuccess => result = mat
        /\ permutationIndices[N + 1] = N /\ Regular /\ tolerance = Zero => isSuccess
        /\ ROW(mat) \in 3..4 => determinant(mat) = Det(mat)
=============================================================================
