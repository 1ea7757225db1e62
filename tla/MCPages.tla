------------------------------ MODULE MCPages ------------------------------
(* Pages with two remotes of one nested folder each, three captures in     *)
(* flight, and two schedule dialogs with three installations.              *)
EXTENDS Pages

MCAllRemotes == <<"drive", "photos">>
=============================================================================
