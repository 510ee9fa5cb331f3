--------------------------- MODULE ReliableStream ---------------------------
(***************************************************************************)
(* What one direction of a TcpSocketBase connection promises, without its  *)
(* mechanism: the bytes one application writes reach the other in order    *)
(* and without a gap, the sender frees its copy of a segment only when the *)
(* receiver has it, and a connection given up stays given up.  Data is     *)
(* counted in segments, as in SwiftSender, which implements it.            *)
(***************************************************************************)
EXTENDS Naturals

CONSTANT NumSegs   \* segments the application has to send

VARIABLES
    written,     \* segments the application has written
    delivered,   \* segments the receiver has in order
    acked,       \* segments the sender has freed
    aborted      \* the sender has given up

vars == <<written, delivered, acked, aborted>>

Init == written = 0 /\ delivered = 0 /\ acked = 0 /\ aborted = FALSE

\* The application writes; a socket that has given up still takes the data.
Write ==
    /\ written' \in written + 1 .. NumSegs
    /\ UNCHANGED <<delivered, acked, aborted>>

\* Segments on their way when the sender gave up may still arrive.
Deliver ==
    /\ delivered' \in delivered + 1 .. written
    /\ UNCHANGED <<written, acked, aborted>>

Acknowledge ==
    /\ ~aborted
    /\ acked' \in acked + 1 .. delivered
    /\ UNCHANGED <<written, delivered, aborted>>

Abort ==
    /\ ~aborted /\ acked < written
    /\ aborted' = TRUE
    /\ UNCHANGED <<written, delivered, acked>>

Next == Write \/ Deliver \/ Acknowledge \/ Abort

Spec == Init /\ [][Next]_vars
=============================================================================
