---------------------------- MODULE MCTransforms ----------------------------
(* Four axes, one of them slanted, and three angles whose halves have      *)
(* rational cosines: 7/25 and 24/25 either way, and a half turn.  The      *)
(* matrices have all the rows of a few numbers, so that rows are exchanged *)
(* in every column, and some are singular; two are projections, with the   *)
(* near plane before and behind 1.                                         *)
EXTENDS Transforms

MCAxes == {Ex, Ey, Ez, float3(Zero, Q(3, 5), Q(4, 5))}
MCAngles == {Angle(Q(4, 5), Q(3, 5)), Angle(Q(4, 5), Q(-3, 5)), HalfTurn}

Rows == {<<Zero, One, Zero>>, <<One, Int2Q(2), Zero>>, <<Int2Q(-2), One, Int2Q(3)>>,
         <<Zero, Int2Q(3), One>>, <<One, Zero, One>>, <<Zero, Zero, Int2Q(2)>>}
Shifted == <<<<Zero, One, Zero, Zero>>, <<Zero, Zero, One, Zero>>,
             <<Zero, Zero, Zero, One>>, <<One, Zero, Zero, Int2Q(2)>>>>
MCMatrices ==
    {<<a, b, c>> : a, b, c \in Rows}
    \cup {makePerspective(near, Int2Q(4), Angle(Q(4, 5), Q(3, 5)), Int2Q(2)) : near \in {Q(1, 2), Int2Q(2)}}
    \cup {Shifted, makeOrthogonal(Int2Q(8), Int2Q(4), One, Int2Q(3)),
          makeTranslation(float3(One, Int2Q(2), Int2Q(3)))}
MCTolerances == {Zero, Q(3, 2)}
=============================================================================
