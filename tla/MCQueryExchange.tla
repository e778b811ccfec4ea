-------------------------- MODULE MCQueryExchange --------------------------
(* Instances of QueryExchange for TLC. *)
EXTENDS QueryExchange

(* Two receivers; the second has one cache less in the last bundle.        *)
MCReceivers == {1, 2}
MCCaches == [r \in Receivers |-> [b \in Bundles |-> IF r = 2 /\ b = BundleCount - 1 THEN 1 ELSE 2]]

(* One receiver whose first bundle has fewer caches than the others.       *)
MCOneReceiver == {1}
MCUneven == [r \in Receivers |-> [b \in Bundles |-> IF b = 0 THEN 1 ELSE 2]]

MCQueryPowers == {1, 3}
MCAskers == {1}
MCNobody == {}
(* What receivers are given: an unlabeled file and parameters, or not.     *)
Lines(labels) == <<[k \in 1..Len(labels) |-> [item |-> "x", label |-> labels[k]]]>>
AllGood == [r \in Receivers |-> [csv |-> Lines(<<FALSE, TRUE>>), params |-> TRUE]]

NoTrouble == [faulty |-> {}, unopenable |-> {}, given |-> AllGood]
MCNoTrouble == {NoTrouble}
MCTroubles == {
    NoTrouble,
    [NoTrouble EXCEPT !.faulty = {2}],
    [NoTrouble EXCEPT !.unopenable = {<<"sender", 1>>}],
    [NoTrouble EXCEPT !.unopenable = {<<"receiver", 2>>}],
    [NoTrouble EXCEPT !.given[1].csv = <<>>],
    [NoTrouble EXCEPT !.given[1].params = FALSE],
    [NoTrouble EXCEPT !.given[2].csv = Lines(<<TRUE, FALSE>>)] }

(* The sender has the receivers' parameters, or a program of another       *)
(* version, or a parameter file with another modulus, other query powers   *)
(* or another table size.                                                  *)
MCSame == {Parameters}
MCSenderParameters == {
    Parameters,
    [Parameters EXCEPT !.version = @ + 1],
    [Parameters EXCEPT !.context = "other"],
    [Parameters EXCEPT !.powers = {1, 4}],
    [Parameters EXCEPT !.bundles = 1] }
=============================================================================
