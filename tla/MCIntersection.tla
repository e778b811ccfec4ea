--------------------------- MODULE MCIntersection ---------------------------
(***************************************************************************)
(* Instances of Intersection for TLC: three items that share two of the    *)
(* bins, with files from auto_prepare.py and others with repeated, empty   *)
(* and labeled lines; and five items for two threads, the fewest with      *)
(* which an element can be lost.                                           *)
(***************************************************************************)
EXTENDS Intersection

MCItems     == {"a", "b", "c"}
MCLocations == [x \in MCItems |-> IF x = "c" THEN {1} ELSE {0, 1}]

P(x) == Unlabeled(x)
Empty == Unlabeled(NoItem)
L(x) == [item |-> x, label |-> TRUE]

MCSenders   == {<<P("a"), P("b"), P("a")>>, <<P("c"), Empty, L("a")>>,
                <<P("a"), P("b"), P("c")>>, <<Empty, P("a")>>, <<L("b"), P("a")>>}
MCReceivers == {<<P("b"), P("a"), P("b")>>, <<P("c"), L("a")>>, <<L("a")>>}

MCOwnFiles ==
  {[p \in 0..tn |-> IF p = 0 THEN s ELSE r[p]] :
     s \in MCSenders, r \in [1..tn -> MCReceivers]}
MCCsvFiles == AutoPrepare(tn, 2, 2, 1) \cup MCOwnFiles
MCBigSets  == {{}, {{"a", "b"}}}

\* At most one file that is missing, and one that does not open.
MCUnreadable == {{}} \cup {{f} : f \in {<<"csv", 0>>, <<"csv", 2>>, <<"sender_item", 0>>,
                                       <<"hash_result", 1>>, <<"hash_result", 2>>}}
MCUnwritable == {{}} \cup {{f} : f \in {<<"hash_result", 1>>, <<"sender_result", 1>>,
                                       <<"receiver_result", 2>>}}
MCNone       == {{}}

MCFive       == {"a", "b", "c", "d", "e"}
MCFiveCsv    == {[p \in 0..1 |-> <<P("a"), P("b"), P("c"), P("d"), P("e")>>]}
MCFiveBig    == {{s} : s \in SUBSET MCFive}
MCFiveBins   ==
  [x \in MCFive |-> CASE x = "a" -> {0} [] x = "b" -> {1} [] x = "c" -> {2, 3}
                      [] x = "d" -> {4} [] x = "e" -> {5}]
=============================================================================
