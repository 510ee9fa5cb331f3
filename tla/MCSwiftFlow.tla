---------------------------- MODULE MCSwiftFlow -----------------------------
(***************************************************************************)
(* A small instance of SwiftFlow.  A segment has two bytes, so that a cut  *)
(* can leave less than one.  The delays lie on both sides of every target  *)
(* (base delay plus 1 or 4 hops of 5), 1 and 10 are more than five times   *)
(* apart, 70 is more than a second here, and 0 is the value before the     *)
(* first measurement.  A decrease factor of 1.6 reaches the floor of the   *)
(* cut.                                                                    *)
(***************************************************************************)
EXTENDS SwiftFlow

MCRtts == {0, 1, 10, 70}
MCTtls == {60, 64}
MCSegs == {0, 1}
MCSeqs == {0, 1}
=============================================================================
