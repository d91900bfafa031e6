---------------------------- MODULE MCRouteTable ----------------------------
(* Instances of RouteTable for TLC: a path, one below it, one beside it.   *)
EXTENDS RouteTable, TLC

CONSTANTS r1, r2, l1, a, b, bad

OneRegistrar  == {r1}
TwoRegistrars == {r1, r2}
OneLookup     == {l1}
NoLookups     == {}

Short     == <<1>>
Long      == <<1, 2>>
Beside    == <<2, 1>>

Nested     == {Short, Long}
TwoPaths   == {Short, Beside}
Requested  == {<<1, 2, 3>>, <<1, 3>>}
OneTarget  == {a}
TwoTargets == {a, b}

Offer(ps, xs) == [path : ps, target : xs]
OffersNested == Offer(Nested, {a, bad})
OffersBeside == Offer(TwoPaths, {a})
(* A route that moves to another target, above one that does not *)
OffersMoving == Offer({Short}, {a, b}) \cup Offer({Long}, {a, bad})
=============================================================================
