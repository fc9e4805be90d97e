---------------------------- MODULE MCKeyRefresh ----------------------------
(* Instances of KeyRefresh for TLC.                                        *)
EXTENDS KeyRefresh, TLC

CONSTANTS a, b, c, d

MCPeers == {a, b, c, d}

(* Three relayers, joined by a fourth.                                     *)
MCMembers == << {a, b, c}, {a, b, c, d}, {a, b, c, d} >>

MCThreshold == << 1, 1, 1 >>

Order(w, x, y, z) == w :> 4 @@ x :> 3 @@ y :> 2 @@ z :> 1

(* In the second refresh c, if it missed the first, elects itself while    *)
(* the others elect d; or everybody elects c, whatever keyshare it has.    *)
MCOrders == << {Order(a, b, c, d)},
               {Order(d, b, a, c)},
               {Order(d, c, a, b), Order(c, d, a, b)} >>

(* These topologies are such that the key is kept.                         *)
ASSUME MCOverlap == Overlap

MCTimingOut == { << c, 2 >> }

=============================================================================
