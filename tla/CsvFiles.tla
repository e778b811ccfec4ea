------------------------------ MODULE CsvFiles ------------------------------
(***************************************************************************)
(* The csv files the programs start from (uMCRG/MCRG/auto_prepare.py) and  *)
(* what the reader makes of them (cli/csv_reader.cpp).  A line is the item *)
(* in front of its first comma, trimmed, and whether a label comes after.  *)
(***************************************************************************)
EXTENDS Integers, Sequences, FiniteSets, SequencesExt

CONSTANTS
  Items,    \* what a line may hold in front of its first comma
  NoItem    \* nothing: an empty line, or white space

ASSUME CsvAssumption == NoItem \notin Items

Line == [item : Items \cup {NoItem}, label : BOOLEAN]

Unlabeled(item) == [item |-> item, label |-> FALSE]

\* process_line: an item and perhaps a label; a label without an item is nothing.
HasItem(line) == line.item # NoItem
HasLabel(line) == HasItem(line) /\ line.label

\* read: the first line decides whether the data is labeled, and if it has no
\* item nothing is read; later lines are skipped when they have no item, and
\* what they say of a label is not looked at.
ReadCsv(lines) ==
  IF lines = <<>> \/ ~HasItem(lines[1])
  THEN [labeled |-> FALSE, items |-> <<>>]
  ELSE [labeled |-> HasLabel(lines[1]),
        items   |-> FoldLeft(LAMBDA acc, line : IF HasItem(line) THEN Append(acc, line.item) ELSE acc,
                             <<>>, lines)]

\* The files that auto_prepare.py writes for a sender and n receivers: the
\* sender's lines may repeat, a receiver's are a set that has int_sz items of
\* the sender, or more by chance.
AutoPrepare(n, sender_sz, recv_sz, int_sz) ==
  LET Lines(items) == [k \in DOMAIN items |-> Unlabeled(items[k])]
      common == IF int_sz < recv_sz THEN int_sz ELSE recv_sz
      ReceiverFiles(sender) ==
        {SetToSeq(s) : s \in {t \in SUBSET Items :
           Cardinality(t) = recv_sz /\ Cardinality(t \cap ToSet(sender)) >= common}}
  IN  UNION {{[p \in 0..n |-> Lines(IF p = 0 THEN sender ELSE r[p])] :
                r \in [1..n -> ReceiverFiles(sender)]} :
              sender \in [1..sender_sz -> Items]}
=============================================================================
