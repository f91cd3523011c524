----------------------------- MODULE SimpleMath -----------------------------
(***************************************************************************)
(* The mathematics of hinode::math (SimpleMath.h): buffers of numbers, the *)
(* vectors, matrices and quaternions that are such buffers, and the        *)
(* functions on them that the scenes and the cameras call.  A buffer is    *)
(* the sequence of its rows, so that a vector is a buffer of one row, as   *)
(* in the code; rows and columns count from 1.  Numbers are exact.         *)
(*                                                                         *)
(* An angle is given by the cosine and the sine of its half, which makes   *)
(* all of what is calculated from it a ratio of integers.                  *)
(***************************************************************************)
EXTENDS Rationals, FiniteSets, Folds, Functions

ROW(b) == Len(b)
COL(b) == Len(b[1])

Shape(b, rows, cols) == ROW(b) = rows /\ \A r \in 1..rows : Len(b[r]) = cols

(* Two buffers meet in the rows and the columns that both have.            *)
SameRows(a, b) == 1..(IF ROW(a) < ROW(b) THEN ROW(a) ELSE ROW(b))
SameCols(a, b) == 1..(IF COL(a) < COL(b) THEN COL(a) ELSE COL(b))

(* map: every element is what the predicate gives for its row and column.  *)
(* (The empty sequences make TLC calculate each element once.)             *)
Mapped(rows, cols, Predicate(_, _)) ==
    [r \in 1..rows |-> [c \in 1..cols |-> Predicate(r, c)] \o <<>>] \o <<>>

(* What a scalar is to the operators of a buffer.                          *)
Value(scalar, like) == Mapped(ROW(like), COL(like), LAMBDA r, c : scalar)

(* An operator changes the elements that the right buffer has as well.     *)
LOCAL Changed(left, right, Op(_, _)) ==
    Mapped(ROW(left), COL(left),
           LAMBDA r, c : IF r \in SameRows(left, right) /\ c \in SameCols(left, right)
                         THEN Op(left[r][c], right[r][c]) ELSE left[r][c])

Assigned(left, right) == Changed(left, right, LAMBDA a, b : b)
Plus(left, right)     == Changed(left, right, LAMBDA a, b : a \oplus b)
Minus(left, right)    == Changed(left, right, LAMBDA a, b : a \ominus b)
Times(left, right)    == Changed(left, right, LAMBDA a, b : a \otimes b)
Over(left, right)     == Changed(left, right, LAMBDA a, b : a \oslash b)
Opposite(b)           == Mapped(ROW(b), COL(b), LAMBDA r, c : Negated(b[r][c]))
Equal(left, right)    == \A r \in SameRows(left, right), c \in SameCols(left, right) :
                            left[r][c] = right[r][c]

Scaled(scaler, right) == Times(right, Value(scaler, right))
Divided(left, scaler) == Over(left, Value(scaler, left))
-----------------------------------------------------------------------------
(* The types: each is its buffer, and its operators and constructors are   *)
(* those of the buffer.                                                    *)
Vector3(b)   == Shape(b, 1, 3)
Vector4(b)   == Shape(b, 1, 4)
Matrix3x3(b) == Shape(b, 3, 3)
Matrix4x4(b) == Shape(b, 4, 4)

float3(a, b, c)       == <<<<a, b, c>>>>
float4(vec, d)        == <<<<vec[1][1], vec[1][2], vec[1][3], d>>>>
quaternion(a, b, c, d) == <<<<a, b, c, d>>>>

(* A 4x4 matrix made from a smaller one is 0 where that has nothing.       *)
float4x4(mat) == Assigned(Mapped(4, 4, LAMBDA r, c : Zero), mat)

X(vec) == vec[1][1]
Y(vec) == vec[1][2]
Z(vec) == vec[1][3]
W(vec) == vec[1][4]
-----------------------------------------------------------------------------
(* Vectors                                                                 *)

LOCAL Sum(from, to, Term(_)) ==
    MapThenFoldSet(LAMBDA a, b : a \oplus b, Zero, Term,
                   LAMBDA S : CHOOSE i \in S : TRUE, from..to)

dot(left, right) == Sum(1, COL(left), LAMBDA c : left[1][c] \otimes right[1][c])

cross(left, right) ==
    float3((Y(left) \otimes Z(right)) \ominus (Z(left) \otimes Y(right)),
           (Z(left) \otimes X(right)) \ominus (X(left) \otimes Z(right)),
           (X(left) \otimes Y(right)) \ominus (Y(left) \otimes X(right)))

lengthSq(vec) == Sum(1, COL(vec), LAMBDA c : vec[1][c] \otimes vec[1][c])
length(vec)   == Sqrt(lengthSq(vec))

(* The smallest length that is divided by is above 0.                      *)
MinLength == Q(1, 100000000)
normalize(vec) ==
    LET len == length(vec)
    IN  Divided(vec, IF Less(len, MinLength) THEN MinLength ELSE len)

lerp(left, right, t) == Plus(left, Scaled(t, Minus(right, left)))

projection(left, right) ==
    Divided(Scaled(dot(left, right), right), lengthSq(right))

reflect(left, normal) == Minus(left, Scaled(Int2Q(2) \otimes dot(left, normal), normal))
-----------------------------------------------------------------------------
(* Angles: half the angle a has the cosine a.c and the sine a.s.           *)

Angle(c, s) == [c |-> c, s |-> s]
Cos(a) == (a.c \otimes a.c) \ominus (a.s \otimes a.s)
Sin(a) == Int2Q(2) \otimes (a.s \otimes a.c)

(* The angle from 0 to PI whose cosine is d.                               *)
Acos(d) == Angle(Sqrt((One \oplus d) \oslash Int2Q(2)), Sqrt((One \ominus d) \oslash Int2Q(2)))

HalfTurn == Angle(Zero, One)
-----------------------------------------------------------------------------
(* Matrices                                                                *)

Identity(n)    == Mapped(n, n, LAMBDA r, c : IF r = c THEN One ELSE Zero)
transpose(mat) == Mapped(ROW(mat), COL(mat), LAMBDA r, c : mat[c][r])

mul(left, right) ==
    Mapped(ROW(left), COL(right),
           LAMBDA r, c : Sum(1, COL(left), LAMBDA i : left[r][i] \otimes right[i][c]))

(* The permutations of 1..n in the order of std::next_permutation: how     *)
(* many come before one.                                                   *)
Permutations3 == {p \in [1..3 -> 1..3] : IsInjective(p)}
Permutations4 == {p \in [1..4 -> 1..4] : IsInjective(p)}
LOCAL Before(p, q) ==
    \E i \in DOMAIN p : p[i] < q[i] /\ \A j \in 1..(i - 1) : p[j] = q[j]
Rank(p, perms) == Cardinality({q \in perms : Before(q, p)})

LOCAL Product(from, to, Term(_)) ==
    MapThenFoldSet(LAMBDA a, b : a \otimes b, One, Term,
                   LAMBDA S : CHOOSE i \in S : TRUE, from..to)

(* The signs go + - - + + - - + ... through the permutations.              *)
Sign(rank) == IF rank = 0 \/ (rank - 1) % 4 >= 2 THEN One ELSE Negated(One)
Signs3 == {<<p, Sign(Rank(p, Permutations3))>> : p \in Permutations3}
Signs4 == {<<p, Sign(Rank(p, Permutations4))>> : p \in Permutations4}

determinant(mat) ==
    MapThenFoldSet(LAMBDA a, b : a \oplus b, Zero,
        LAMBDA e : e[2] \otimes Product(1, ROW(mat), LAMBDA i : mat[i][e[1][i]]),
        LAMBDA S : CHOOSE e \in S : TRUE, IF ROW(mat) = 3 THEN Signs3 ELSE Signs4)
-----------------------------------------------------------------------------
(* Transformations of row vectors, left-handed                             *)

makeRotationX(a) == <<<<One, Zero, Zero>>,
                      <<Zero, Cos(a), Sin(a)>>,
                      <<Zero, Negated(Sin(a)), Cos(a)>>>>
makeRotationY(a) == <<<<Cos(a), Zero, Negated(Sin(a))>>,
                      <<Zero, One, Zero>>,
                      <<Sin(a), Zero, Cos(a)>>>>
makeRotationZ(a) == <<<<Cos(a), Sin(a), Zero>>,
                      <<Negated(Sin(a)), Cos(a), Zero>>,
                      <<Zero, Zero, One>>>>

(* Mutant of makeRotationAxis: two of the signs are those of the inverse.  *)
makeRotationAxisTransposed(axis, a) ==
    LET Square(i, j) == axis[1][i] \otimes axis[1][j] \otimes (One \ominus Cos(a))
        S(i) == axis[1][i] \otimes Sin(a)
    IN  <<<<Square(1, 1) \oplus Cos(a), Square(1, 2) \ominus S(3), Square(3, 1) \ominus S(2)>>,
          <<Square(1, 2) \oplus S(3), Square(2, 2) \oplus Cos(a), Square(2, 3) \oplus S(1)>>,
          <<Square(3, 1) \oplus S(2), Square(2, 3) \ominus S(1), Square(3, 3) \oplus Cos(a)>>>>

makeRotationAxis(axis, a) ==
    LET Square(i, j) == axis[1][i] \otimes axis[1][j] \otimes (One \ominus Cos(a))
        S(i) == axis[1][i] \otimes Sin(a)
    IN  <<<<Square(1, 1) \oplus Cos(a), Square(1, 2) \oplus S(3), Square(3, 1) \ominus S(2)>>,
          <<Square(1, 2) \ominus S(3), Square(2, 2) \oplus Cos(a), Square(2, 3) \oplus S(1)>>,
          <<Square(3, 1) \oplus S(2), Square(2, 3) \ominus S(1), Square(3, 3) \oplus Cos(a)>>>>

makeTranslation(pos) ==
    Mapped(4, 4, LAMBDA r, c : IF r = 4 /\ c \in 1..COL(pos) THEN pos[1][c]
                               ELSE Identity(4)[r][c])

makeScale(scale, n) ==
    Mapped(n, n, LAMBDA r, c : IF r = c /\ r <= 3 THEN scale[1][r] ELSE Identity(n)[r][c])

(* Mutant of makeView: the axes are the rows.                              *)
makeViewRows(pos, target, up) ==
    LET front == normalize(Minus(target, pos))
        right == normalize(cross(up, front))
        up2   == normalize(cross(front, right))
    IN  <<float4(right, Zero)[1], float4(up2, Zero)[1], float4(front, Zero)[1],
          <<Negated(dot(right, pos)), Negated(dot(up, pos)), Negated(dot(front, pos)), One>>>>

(* The second axis is made anew from the other two, the second coordinate  *)
(* of the translation from the argument.                                   *)
makeView(pos, target, up) ==
    LET front == normalize(Minus(target, pos))
        right == normalize(cross(up, front))
        up2   == normalize(cross(front, right))
    IN  <<<<X(right), X(up2), X(front), Zero>>,
          <<Y(right), Y(up2), Y(front), Zero>>,
          <<Z(right), Z(up2), Z(front), Zero>>,
          <<Negated(dot(right, pos)), Negated(dot(up, pos)), Negated(dot(front, pos)), One>>>>

(* a is the angle of the view: its half is what the tangent is of.         *)
makePerspective(nearZ, farZ, a, aspect) ==
    LET sY == One \oslash (a.s \oslash a.c)
        work == farZ \oslash (farZ \ominus nearZ)
    IN  <<<<sY \oslash aspect, Zero, Zero, Zero>>,
          <<Zero, sY, Zero, Zero>>,
          <<Zero, Zero, work, One>>,
          <<Zero, Zero, Negated(nearZ) \otimes work, Zero>>>>

makeOrthogonal(width, height, nearZ, farZ) ==
    LET zRange == farZ \ominus nearZ
    IN  <<<<Int2Q(2) \oslash width, Zero, Zero, Zero>>,
          <<Zero, Int2Q(2) \oslash height, Zero, Zero>>,
          <<Zero, Zero, One \oslash zRange, Zero>>,
          <<Zero, Zero, Negated(nearZ) \oslash zRange, One>>>>

makeToUVFromClipSpace ==
    <<<<Q(1, 2), Zero, Zero, Zero>>,
      <<Zero, Q(-1, 2), Zero, Zero>>,
      <<Zero, Zero, One, Zero>>,
      <<Q(1, 2), Q(1, 2), Zero, One>>>>
-----------------------------------------------------------------------------
(* Quaternions                                                             *)

makeRotaQuaternion(axis, a) == float4(Scaled(a.s, axis), a.c)

(* From one direction to another.  Parallel directions are left alone when *)
(* they are opposite, and turned around when they are the same.            *)
makeRotaQuaternionTo(baseDir, targetDir) ==
    LET d == dot(baseDir, targetDir)
        workUp == IF X(baseDir) = Zero /\ Z(baseDir) = Zero
                  THEN float3(One, Zero, Zero) ELSE float3(Zero, One, Zero)
        right == cross(workUp, baseDir)
    IN  IF Less(Negated(One), d) /\ Less(d, One)
        THEN makeRotaQuaternion(normalize(cross(baseDir, targetDir)), Acos(d))
        ELSE IF Less(Zero, d)
             THEN makeRotaQuaternion(normalize(cross(baseDir, right)), HalfTurn)
             ELSE quaternion(Zero, Zero, Zero, One)

conjugate(q) == quaternion(Negated(X(q)), Negated(Y(q)), Negated(Z(q)), W(q))
inverseQ(q)  == Divided(conjugate(q), lengthSq(q))

(* The ends of slerp: t is 0 or 1, so that sin(ph * t) is 0 or sin(ph).    *)
slerp(base, target, t) ==
    LET d == dot(base, target)
    IN  IF ~Less(Zero, One \ominus (d \otimes d)) THEN base
        ELSE LET near == IF Less(d, Zero) THEN Opposite(target) ELSE target
             IN  Plus(Scaled(One \ominus t, base), Scaled(t, near))

(* Mutant of rotatePos: the second product is the other way round.         *)
rotatePosSwapped(pos, q) ==
    LET axis == float3(X(q), Y(q), Z(q))
        v == Plus(cross(axis, pos), Scaled(W(q), pos))
        w == Negated(dot(axis, pos))
    IN  Minus(Plus(cross(v, axis), Scaled(W(q), v)), Scaled(w, axis))

(* q * pos * conjugate(q): the vector part of the first product, its       *)
(* scalar w, then the second product.                                      *)
rotatePos(pos, q) ==
    LET axis == float3(X(q), Y(q), Z(q))
        v == Plus(cross(axis, pos), Scaled(W(q), pos))
        w == Negated(dot(axis, pos))
    IN  Minus(Plus(cross(axis, v), Scaled(W(q), v)), Scaled(w, axis))

(* convertRota of a quaternion.  The last element of the rotation is left  *)
(* at the 1 of the identity.                                               *)
convertRota(q) ==
    LET s == Int2Q(2) \oslash lengthSq(q)
        V(i, j) == q[1][i] \otimes q[1][j] \otimes s
    IN  <<<<One \ominus V(2, 2) \ominus V(3, 3), V(1, 2) \oplus V(3, 4), V(3, 1) \ominus V(2, 4), Zero>>,
          <<V(1, 2) \ominus V(3, 4), One \ominus V(1, 1) \ominus V(3, 3), V(2, 3) \oplus V(1, 4), Zero>>,
          <<V(3, 1) \oplus V(2, 4), V(2, 3) \ominus V(1, 4), One, Zero>>,
          <<Zero, Zero, Zero, One>>>>

(* convertRota of a matrix: the largest component from the diagonal, the   *)
(* others from sums (of two of x, y, z) and differences (with w) across    *)
(* it.                                                                     *)
convertRotaOf(mat) ==
    LET D(i) == mat[i][i]
        len == [i \in 1..4 |->
                  One \oplus (IF i = 4 THEN D(1) \oplus D(2) \oplus D(3)
                             ELSE Int2Q(2) \otimes D(i) \ominus D(1) \ominus D(2) \ominus D(3))]
        biggest == CHOOSE i \in 1..4 :
                     /\ \A j \in 1..4 : ~Less(len[i], len[j])
                     /\ \A j \in 1..(i - 1) : Less(len[j], len[i])
        value == Sqrt(len[biggest]) \otimes Q(1, 2)
        mult == Q(1, 4) \oslash value
        Turned(i) == CASE i = 1 -> mat[2][3] \ominus mat[3][2]
                       [] i = 2 -> mat[3][1] \ominus mat[1][3]
                       [] i = 3 -> mat[1][2] \ominus mat[2][1]
        Across(i, j) == IF 4 \in {i, j}
                        THEN Turned(IF i = 4 THEN j ELSE i)
                        ELSE mat[i][j] \oplus mat[j][i]
    IN  IF Less(len[biggest], Zero) THEN quaternion(Zero, Zero, Zero, One)
        ELSE <<[i \in 1..4 |-> IF i = biggest THEN value
                               ELSE Across(i, biggest) \otimes mult]>>
=============================================================================
