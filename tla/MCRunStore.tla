------------------------------- MODULE MCRunStore -------------------------------
(* Two runs, stored one after the other and in either order, and two calls in  *)
(* flight on them; or one run with two citations.                              *)
EXTENDS RunStore

CONSTANTS run1, run2, ann, ben

MCRunIds  == {run1, run2}
MCClients == {ann, ben}
MCOneRun  == {run1}
MCCiteIds == {"price", "profile"}
MCOneCite == {"price"}
================================================================================
