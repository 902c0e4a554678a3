------------------------------ MODULE MCDmSend ------------------------------
(* DmSend as it is: the cfg file gives every constant its value.           *)
EXTENDS DmSend
=============================================================================
