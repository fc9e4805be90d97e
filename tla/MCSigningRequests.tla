-------------------------- MODULE MCSigningRequests --------------------------
(* Instances of SigningRequests for TLC.                                   *)
EXTENDS SigningRequests

CONSTANTS n1, n2, n3, d1, forged, unpaid, unlock

MCRelayers == {n1, n2, n3}

(* A borrow and an unlock of one order, both posted to one relayer: whoever *)
(* is ready under it may have executed either.                             *)
MCRivalPosts == { << n1, d1 >>, << n1, unlock >> }

(* A request without a deposit and one with an unknown repayment chain     *)
(* beside a genuine one.  The first two are Lighter's, the third Across's: *)
(* their ids do not coincide in the network; that they do here only adds   *)
(* rivalry between them.                                                   *)
MCCallPosts == { << n1, d1 >>, << n2, forged >>, << n1, unpaid >> }

=============================================================================
