------------------------------ MODULE MCJPEQT ------------------------------
(***************************************************************************)
(* Instances of JPEQT for TLC.                                             *)
(***************************************************************************)
EXTENDS JPEQT

MCBits     == {0, 1}
MCZero     == {1}
MCKeys     == {2, 3}
MCOneKey   == {3}
MCOneRand  == {2}
MCNonZero  == {1, 3}
MCScalars  == {0, 3}
MCScalar   == {3}
MCNoFault  == {{}}
MCFaults   == SUBSET (0..(tn - 1))
=============================================================================
