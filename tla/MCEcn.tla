-------------------------------- MODULE MCEcn --------------------------------
(***************************************************************************)
(* Two ends of which one has four segments to send, enough for a second    *)
(* reduction after the first is acknowledged, and the other one, so that   *)
(* echoes go both ways.  There is room for one segment on each path; what  *)
(* a handler sends beyond it is lost, so that data arrives with a mark     *)
(* behind a gap, and is sent again later, in any order.                    *)
(***************************************************************************)
EXTENDS Ecn

MCNumSegs == "a" :> 4 @@ "b" :> 1
MCMaxInNet == "a" :> 1 @@ "b" :> 1
=============================================================================
