------------------------------- MODULE MCUrlSign ------------------------------
(* UrlSign for TLC: the two methods the debug build of the application     *)
(* calls, a package with two certificates that the first of them accepts,  *)
(* and up to two parameters in any order.                                  *)
EXTENDS UrlSign

MCOrder == {<<>>, <<1>>, <<1, 2>>, <<2, 1>>}
MCCerts == <<"il stage", "il">>
=============================================================================
