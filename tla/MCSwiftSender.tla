--------------------------- MODULE MCSwiftSender ----------------------------
(***************************************************************************)
(* Small instances of SwiftSender: segments of two bytes, so that a cut    *)
(* can leave less than one; a first window of four segments, so that all   *)
(* of the data can be in flight and overtake itself.  One delay and one    *)
(* TTL are enough where the window does not matter (SwiftFlow varies       *)
(* them); two delays, one above every target, where it does.               *)
(***************************************************************************)
EXTENDS SwiftSender

MCRtts == {10}
MCRttsQueued == {10, 50}
MCTtls == {64}
=============================================================================
