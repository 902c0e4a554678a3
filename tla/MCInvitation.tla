---------------------------- MODULE MCInvitation ----------------------------
(* Invitation as it is: the cfg files give every constant its value.       *)
EXTENDS Invitation
=============================================================================
