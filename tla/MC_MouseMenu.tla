---------------------------- MODULE MC_MouseMenu ----------------------------
(* Small instance of MouseMenu for TLC: three menu views, enough for a     *)
(* menu to be replaced twice and for a replaced menu to be dismissed late, *)
(* over a two-point document so a click can fall inside a selection or not.*)
EXTENDS MouseMenu

MCMaxMenus == 3
MCMenuPoints == {1, 2}
=============================================================================
