--------------------------- MODULE MCLiveComment ----------------------------
(* LiveComment as it is: the cfg files give every constant its value.      *)
EXTENDS LiveComment
=============================================================================
