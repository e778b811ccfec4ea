---------------------------- MODULE MCThreadPool ----------------------------
(***************************************************************************)
(* Instances of ThreadPool for TLC.                                        *)
(***************************************************************************)
EXTENDS ThreadPool

MCTaskCount == [c \in Clients |-> IF c = "a" THEN 2 ELSE 1]
MCSizes   == {1, 2}
MCLimits  == {1}
MCFailing == {<<"a", 1>>}
=============================================================================
