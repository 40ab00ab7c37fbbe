---------------------------- MODULE MCCardScripts ----------------------------
(* A preprint whose second version is not openly licensed, an article, and *)
(* pages with two diagrams.                                                *)
EXTENDS CardScripts, TLC

CONSTANTS paper, article

MCLicensed == {<<paper, 1>>, <<article, 1>>}
MCPriority == paper :> 1
=============================================================================
