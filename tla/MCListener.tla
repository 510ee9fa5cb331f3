----------------------------- MODULE MCListener -----------------------------
(***************************************************************************)
(* Clients with everything switched on, and with the one half of it or the *)
(* other, whose buffers need shifts of two, one and none; a server that    *)
(* has it all, and one that has not.  A client's name does not matter.     *)
(***************************************************************************)
EXTENDS Listener

MCClientSettings ==
    {[enabled |-> Options, space |-> 12, useEcn |-> "On"],
     [enabled |-> {"WINSCALE"}, space |-> 7, useEcn |-> "AcceptOnly"],
     [enabled |-> {"SACKPERMITTED", "TS"}, space |-> 2, useEcn |-> "On"]}

MCListenerSettings ==
    {[enabled |-> Options, space |-> 7, useEcn |-> "AcceptOnly"],
     [enabled |-> {"WINSCALE", "TS"}, space |-> 12, useEcn |-> "Off"]}

MCSymmetry == Permutations(Clients)
=============================================================================
