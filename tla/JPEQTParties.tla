---------------------------- MODULE JPEQTParties ----------------------------
(***************************************************************************)
(* The parties of J_PEQT and JP_PEQT and how they number their channels    *)
(* (src/JPEQT/JPEQT.cpp): what the connection set-up and the protocol      *)
(* share.                                                                  *)
(***************************************************************************)
EXTENDS Integers

CONSTANT tn     \* number of parties

ASSUME PartiesAssumption == tn \in Nat /\ tn >= 2

Party == 0..(tn - 1)

\* chl_k[j] of party idx is its socket to this party: the loops that connect
\* skip idx itself.
PeerOf(idx, j) == IF j < idx THEN j ELSE j + 1
=============================================================================
